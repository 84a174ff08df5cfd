SPECIFICATION FirmwareSpec
CONSTANTS
  Group = 3
  HostPackets <- MCPackets
  Channels = {11, 12}
  DefaultChannel = 11
  FilterLen = 1
  MaxPkt = 2
  RingSize = 2
  RxFrames = {f1, f2}
  f1 = f1
  f2 = f2
  MaxLost = 2
INVARIANTS
  FirmwareTypeOK
  NoTailExecuted
  IntactPacketUnderstood
  InfoIsHonest
  ReceiverIsKnown
  SetChannelAnswered
  RingIsQueue
