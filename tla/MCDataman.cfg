SPECIFICATION FairSpec
CONSTANTS
  Clients = {c1, c2}
  c1 = c1
  c2 = c2
  Items = {item}
  Indexes = {0}
  Values = {a}
  NoData = NoData
  Torn = Torn
  NoMsg = NoMsg
  SyncTypes <- MCSyncTypes
  AsyncTypes <- MCAsyncTypes
  MaxIds = 3
  MaxCalls = 4
INVARIANTS
  TypeOK
  IdsUnique
PROPERTIES
  AnswerIsOwn
  SuccessIsCurrent
  AsyncCompletes
CHECK_DEADLOCK FALSE
