\* One application call and three EMPTY requests in a queue of three places;
\* synchronous calls with timeout 0 and without timeout.  The device may reset
\* and the client be destroyed: the system may really stop.
SPECIFICATION LifeSpec
CONSTANTS
  Request = {r1, p1, p2, p3}
  Ping = {p1, p2, p3}
  None = None
  Forever = Forever
  QueueMax = 3
  ResponseTimeout = 1
  MaxObs = 0
  CallTimeout = {0}
  Operation = {"EMPTY", "POST"}
  SyncChoice = {TRUE, FALSE}
  PayloadSize = {0, 1}
  Class = {"2xx"}
  Listens = FALSE
  StartWhenStarted = FALSE
  Destroys = TRUE
  r1 = r1
  p1 = p1
  p2 = p2
  p3 = p3
SYMMETRY Symmetry
INVARIANTS LifeTypeOK RunSemConserved NotRunningMeansDormant PingsBounded
CHECK_DEADLOCK FALSE
