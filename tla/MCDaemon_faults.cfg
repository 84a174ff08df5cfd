SPECIFICATION Spec
CONSTANTS
  i1 = i1
  i2 = i2
  Inverters = {i1, i2}
  Undecodable = {i2}
  MaxMissedPings = 2
  MaxRecoveries = 3
  MaxNoReplyCycles = 2
  MaxHealAttempts = 2
  ProbeAttempts = 2
  FaultKinds = {"stuck", "rxOff", "deaf", "gone"}
  MaxFaults = 2
  EnabledChoices <- AllOrNothing
  AwakeChoices <- AnySubset
  ReplyLoss = TRUE
  PongLossCap <- MCPongLoss
  MinPhaseCycles = 0
  SilenceCap <- MCSilenceCap
INVARIANT TypeOK
INVARIANT RecoveriesBehindMisses
INVARIANT HealsBehindSilence
PROPERTY RestartJustified
