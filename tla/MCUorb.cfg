SPECIFICATION HSpec
CONSTANTS
  NoData = NoData
  Publishers = {p1, p2}
  Readers = {r1}
  QueueSizes = {1, 4}
  Modulus = 8
  Required = 2
  MaxPubs = 10
INVARIANTS
  TypeOK
  CallbackNotStarved
PROPERTIES
  ImplementsLog
  UpdateIsNew
CHECK_DEADLOCK FALSE
