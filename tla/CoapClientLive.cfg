\* One synchronous call and one EMPTY request compete for a queue of one place.
SPECIFICATION FairLifeSpec
CONSTANTS
  Request = {r1, p1}
  Ping = {p1}
  None = None
  Forever = Forever
  QueueMax = 1
  ResponseTimeout = 1
  MaxObs = 0
  CallTimeout = {1}
  Operation = {"EMPTY", "DELETE"}
  SyncChoice = {TRUE}
  PayloadSize = {}
  Class = {"2xx"}
  Listens = TRUE
  StartWhenStarted = FALSE
  Destroys = FALSE
  r1 = r1
  p1 = p1
INVARIANTS EventsMatch
PROPERTIES
  StopTakesEffect TimedCallReturns ForeverCallReturns TaskNotStuck
  ConnectedMeansAnswered ImplementsService
