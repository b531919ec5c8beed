SPECIFICATION HSpec
CONSTANTS
  NaN = NaN
  VelInputs = {2}
  NoMsg = NoMsg
  SpInputs = {0}
  CoreInputs = {TRUE}
  Resets = {0}
  MobInputs <- MCPressOrRelease
  GateInputs <- MCGates
  TrajInputs = {FALSE}
  Forever = 3
  MaxGap = 1
  CmdTo = 1
  MobTo = 2
  InT = 1
  NOnT = 1
  NOffT = 1
  HoT = 1
  HoV = 1
  DtMax = 1
  VMax = 1
  PMax = 1
INVARIANT UpstreamVelocityRestored
