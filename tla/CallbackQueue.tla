--------------------------- MODULE CallbackQueue ---------------------------
(***************************************************************************)
(* What the services that observe a path share: the request queue, seen    *)
(* here as its number of free places, and the coap task, which runs the    *)
(* callback of one observation at a time and takes nothing from the queue  *)
(* while it does.                                                          *)
(***************************************************************************)
EXTENDS Integers, Sequences, FiniteSets

CONSTANT QueueMax    \* CONFIG_GOLIOTH_COAP_REQUEST_QUEUE_MAX_ITEMS

ASSUME QueueAssumption == QueueMax \in Nat \ {0}

VARIABLES
  free,     \* places in request_queue
  handler   \* the service whose callback the coap task is in

queueVars == <<free, handler>>

Service == {"settings", "rpc"}

QueueTypeOK == free \in 0..QueueMax /\ handler \in Service \cup {"none"}

QueueInit == free = QueueMax /\ handler = "none"

\* Mutant: a full queue takes one more.
TriesAlways == BOOLEAN

\* A request without an answer to wait for is queued or refused, at once: refused
\* when there is no place, no memory, or the client was stopped.
Tries == IF free > 0 THEN BOOLEAN ELSE {FALSE}
Put(done) == free' = IF done THEN free - 1 ELSE free

\* Any other task sends a request.
OtherRequest == (\E ok \in Tries : Put(ok)) /\ UNCHANGED handler

\* The coap task takes one.
TakeRequest == handler = "none" /\ free < QueueMax /\ free' = free + 1 /\ UNCHANGED handler

Idle == handler = "none"
Enter(service) == Idle /\ handler' = service
Leave(service) == handler = service /\ handler' = "none"
=============================================================================
