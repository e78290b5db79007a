CONSTANTS
  SessionErrors <- AnyError
  MaxSessions = 7
  CommandLines <- MCCommandLines
  Files <- MCFiles
  Cookies = {"ck"}
  ArgLists <- MCArgLists
  DnsLists <- MCDnsLists
SPECIFICATION CommandFairSpec
INVARIANTS
  CommandTypeOK
  BackoffSchedule
  SingleUseOnce
  SettingsInUse
  LoginInOrder
  SessionsMatch
  DnsServersOnce
  ReconnectNeedsNoUser
PROPERTIES
  SessionLifeSpec
  CancelEndsLoop
  CommandsEnd
