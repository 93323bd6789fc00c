\* Two synchronous getters and a queue with room for both; a response takes two ticks at
\* most, and a getter waits one tick or for ever.
SPECIFICATION LdbSpec
CONSTANTS
  Request = {r1, r2}
  None = None
  Forever = Forever
  QueueMax = 2
  ResponseTimeout = 2
  MaxObs = 0
  CallTimeout = {1}
  Operation = {"GET"}
  SyncChoice = {TRUE}
  PayloadSize = {}
  Class = {"2xx"}
  Listens = FALSE
SYMMETRY Symmetry
INVARIANT GetterTruthful
