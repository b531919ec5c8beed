SPECIFICATION Spec
CONSTANTS
  a = a
  b = b
  c = c
  Instances = {m1, m2}
  Missions = {a, b, c}
  Length <- MCLength
  MaxCount = 2
  Faults = {}
SYMMETRY Symmetry
VIEW LiveState
INVARIANTS
  ActiveIntact
  CopiesAgree
  TransferOwned
PROPERTY UploadIsKept
