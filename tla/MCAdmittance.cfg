SPECIFICATION Spec
CONSTANTS
  NaN = NaN
  NoMsg = NoMsg
  SpInputs = {0, 9, NaN}
  CoreInputs = {TRUE, FALSE}
  Resets = {0, 1}
  MobInputs <- MCMobInputs
  GateInputs <- MCAllGates
  TrajInputs = {FALSE}
  Forever = 2
  MaxGap = 1
  CmdTo = 1
  MobTo = 1
  InT = 1
  NOnT = 1
  NOffT = 1
  HoT = 1
  HoV = 1
  DtMax = 1
  VMax = 1
  PMax = 1
INVARIANTS
  TypeOK
  OwnershipMatchesState
  QuietUnlessEngaged
  DrivingNeedsEvidence
  HandoverBounded
PROPERTIES
  OwnedOutputContinuous
  FaultIsLatched
  ReleasesOnTime
