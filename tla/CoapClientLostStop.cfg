\* start may be called on a client that is already started.
SPECIFICATION FairLifeSpec
CONSTANTS
  Request = {r1, p1}
  Ping = {p1}
  None = None
  Forever = Forever
  QueueMax = 1
  ResponseTimeout = 1
  MaxObs = 0
  CallTimeout = {1}
  Operation = {"EMPTY"}
  SyncChoice = {TRUE}
  PayloadSize = {}
  Class = {"2xx"}
  Listens = FALSE
  StartWhenStarted = TRUE
  Destroys = FALSE
  r1 = r1
  p1 = p1
PROPERTY StopTakesEffect
