SPECIFICATION FairSpec
CONSTANTS
  Clients = {c1}
  Worker = worker_thread
  Items = {i1, i2}
  NoItem = NoItem
  AtomicSchedule = FALSE
  MayStop = TRUE
INVARIANT SemaphoreBounded
PROPERTY StopEnds
CHECK_DEADLOCK FALSE
