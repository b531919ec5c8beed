SPECIFICATION MCSpec
CONSTANTS
  NoMsg = NoMsg
  Forever = 3
  MaxGap = 1
  OdomTo = 1
  ActTo = 1
  ServoTo = 1
  Warmup = 2
  ArmOnly = TRUE
  OdomInputs <- MCOdom
  ParInputs <- MCPar
  ThrustInputs = {"good", "nonfinite"}
  ServoInputs = {"good"}
  OverflowInputs = {{}, {"force"}, {"force", "torque"}}
INVARIANTS
  ValidNeedsLiveInputs
  ValidIsUnbroken
  ValidFitsModel
VIEW MCView
