\* A synchronous request ages out in the queue.
SPECIFICATION Spec
CONSTANTS
  Request = {r1, r2}
  None = None
  Forever = Forever
  QueueMax = 1
  ResponseTimeout = 2
  MaxObs = 0
  CallTimeout = {1}
  Operation = {"GET"}
  SyncChoice = {TRUE}
  PayloadSize = {1}
  Class = {"2xx", "other"}
  Listens = FALSE
INVARIANT HandlesNotMisused
