\* No application request at all: only start, stop and the EMPTY requests.
SPECIFICATION LifeSpec
CONSTANTS
  Request = {r1, p1}
  Ping = {p1}
  None = None
  Forever = Forever
  QueueMax = 1
  ResponseTimeout = 1
  MaxObs = 0
  CallTimeout = {1}
  Operation = {"EMPTY"}
  SyncChoice = {TRUE}
  PayloadSize = {}
  Class = {"2xx"}
  Listens = TRUE
  StartWhenStarted = FALSE
  Destroys = FALSE
  r1 = r1
  p1 = p1
INVARIANT StoppedMeansQueueEmpty
