SPECIFICATION Spec
CONSTANTS
  a = a
  b = b
  c = c
  Instances = {m1, m2}
  Missions = {a, b, c}
  Length <- MCLength
  MaxCount = 2
  Faults = {"silent_download"}
SYMMETRY Symmetry
VIEW LiveState
INVARIANT ActiveIntact
