CONSTANTS
  MaxFrames = 3
  MaxPayload = 2
  Width = 2
  ReplyBuf = 6
SPECIFICATION FairSpec
INVARIANTS
  TypeOK
  LossHasCause
PROPERTIES
  ChannelSpec
  StreamDrains
