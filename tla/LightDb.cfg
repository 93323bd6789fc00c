\* Two calls of golioth_lightdb.h and golioth_log.h over a queue with room for one;
\* a response takes two ticks at most, a synchronous call waits one tick or for ever.
SPECIFICATION LdbSpec
CONSTANTS
  Request = {r1, r2}
  None = None
  Forever = Forever
  QueueMax = 1
  ResponseTimeout = 2
  MaxObs = 1
  CallTimeout = {1}
  Operation = {"GET", "POST", "OBSERVE"}
  SyncChoice = {TRUE, FALSE}
  PayloadSize = {1}
  Class = {"2xx"}
  Listens = FALSE
SYMMETRY Symmetry
INVARIANTS
  NobodyWaitsInVain PayloadOwned HandlesOwned HandshakeSafe MisuseOnlyAfterAgeOut
  OkMeansAnswered CallbackSettled
  NullHasCause OkValueWritten StrayWritesBounded
