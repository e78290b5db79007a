CONSTANTS
  QueueCap = 1
  MaxTun = 2
  MaxNet = 2
SPECIFICATION Spec
INVARIANTS
  TypeOK
  SendersNeverBlock
  CanceledOnlyByCaller
  DownlinkComplete
PROPERTY UplinkSpec
