CONSTANT MaxSignals = 3
SPECIFICATION FairSpec
INVARIANTS
  TypeOK
  TornDown
  ResultHasCause
PROPERTIES
  LogoutOutsideTunnel
  SessionLifeSpec
  SignalEndsProcess
  DnsFailureEndsSession
