SPECIFICATION FairSpec
CONSTANTS
  i1 = i1
  i2 = i2
  Inverters = {i1, i2}
  Undecodable = {i2}
  MaxMissedPings = 2
  MaxRecoveries = 2
  MaxNoReplyCycles = 2
  MaxHealAttempts = 2
  ProbeAttempts = 2
  FaultKinds = {"stuck", "rxOff", "deaf", "gone"}
  MaxFaults = 0
  EnabledChoices <- AllOn
  AwakeChoices <- AllAtOnce
  ReplyLoss = FALSE
  PongLossCap = 0
  MinPhaseCycles = 2
  SilenceCap <- MCSilenceCap
PROPERTY EveryInverterServed
CHECK_DEADLOCK FALSE
