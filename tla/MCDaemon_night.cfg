SPECIFICATION Spec
CONSTANTS
  i1 = i1
  i2 = i2
  Inverters = {i1, i2}
  Undecodable = {}
  MaxMissedPings = 2
  MaxRecoveries = 3
  MaxNoReplyCycles = 2
  MaxHealAttempts = 2
  ProbeAttempts = 2
  FaultKinds = {"stuck", "rxOff", "deaf", "gone"}
  MaxFaults = 0
  EnabledChoices <- AllOn
  AwakeChoices <- AllAtOnce
  ReplyLoss = FALSE
  PongLossCap = 0
  MinPhaseCycles = 2
  SilenceCap <- MCSilenceCap
INVARIANT NoNeedlessRestart
