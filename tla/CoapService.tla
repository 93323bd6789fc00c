---------------------------- MODULE CoapService ----------------------------
(***************************************************************************)
(* The request path implements RequestService: the mapping.                *)
(***************************************************************************)
EXTENDS CoapRequests

\* How far the call of r has come: on the stack of the coap task, in the queue, or
\* where its caller and the coap task left it.
StateOf(r) ==
  IF cur = r THEN "served"
  ELSE IF r \in Queued THEN "accepted"
  ELSE IF fate[r] = "aged" THEN "dropped"
  ELSE IF fate[r] # "none" THEN "done"
  ELSE IF cpc[r] = "idle" THEN "idle"
  ELSE IF cpc[r] = "called" THEN "calling"
  ELSE "refused"

Service == INSTANCE RequestService WITH
  state    <- [r \in Request |-> StateOf(r)],
  waits    <- sync,
  line     <- queue,
  current  <- cur,
  answered <- [r \in Request |-> answer[r] # "none"],
  heard    <- told,
  result   <- ret

-----------------------------------------------------------------------------
(* Properties. *)

\* Every behaviour of the request path is one that RequestService allows: calls are
\* served in the order of the queue and at most once, callbacks run only while their
\* call is served, and GOLIOTH_OK from a synchronous call means an answer.
ImplementsService == Service!Spec

-----------------------------------------------------------------------------
(* What the mapping needs beyond IInv and OutcomeInv. *)

\* A caller that waits has no result yet, and its request is queued or was taken
\* from the queue; a call that has returned has a result.
ReturnInv ==
  \A r \in Request :
    /\ InWait(r) => ret[r] = "none" /\ (r \in Queued \/ fate[r] # "none")
    /\ cpc[r] = "returned" => ret[r] # "none"
=============================================================================
