SPECIFICATION FairSpec
CONSTANTS
  Clients = {c1, c2}
  Worker = worker_thread
  Items = {i1, i2, i3}
  NoItem = NoItem
  AtomicSchedule = TRUE
  MayStop = FALSE
INVARIANTS
  DestroyedIsNotQueued
  QueueOutlivesDetach
PROPERTIES
  DestroyWaitsForRun
  QueuedIsTaken
  DeinitReturns
CHECK_DEADLOCK FALSE
