SPECIFICATION MCSpec
CONSTANTS
  NaN = NaN
  VelInputs = {2}
  NoMsg = NoMsg
  SpInputs = {0}
  CoreInputs = {TRUE}
  Resets = {0}
  MobInputs <- MCMob
  GateInputs <- MCGates
  TrajInputs = {FALSE}
  Forever = 3
  MaxGap = 1
  CmdTo = 1
  MobTo = 1
  InT = 1
  NOnT = 2
  NOffT = 2
  HoT = 1
  HoV = 1
  DtMax = 1
  VMax = 1
  PMax = 1
VIEW MCView
INVARIANT DisarmedStandsStill
PROPERTIES
  ContactIsEarned
  ContactGrace
