--------------------------- MODULE RequestService ---------------------------
(***************************************************************************)
(* What golioth_coap_client.c promises the callers of its API, without     *)
(* handles, bits, tokens or time: a call is refused, or accepted into a    *)
(* line; accepted calls are taken from it in order, each at most once, and *)
(* dropped or served one at a time; the callback is told a response at     *)
(* most once, and a timeout at most once after it, while the call is       *)
(* served; and a caller that waits gets GOLIOTH_OK only for a call that    *)
(* was answered, unless its call was dropped: then it gets anything.       *)
(***************************************************************************)
EXTENDS Naturals, Sequences

CONSTANTS Request, None, QueueMax

VARIABLES
  state,      \* how far the call has come
  waits,      \* the caller waits for the answer
  line,       \* the accepted calls, in the order of their acceptance
  current,    \* the one that is served
  answered,   \* the server has answered it
  heard,      \* what its callback was told
  result      \* what the call returned

serviceVars == <<state, waits, line, current, answered, heard, result>>

Refusal == {"QUEUE_FULL", "INVALID_STATE", "MEM_ALLOC"}

Init ==
  /\ state = [r \in Request |-> "idle"]
  /\ waits = [r \in Request |-> FALSE]
  /\ line = <<>>
  /\ current = None
  /\ answered = [r \in Request |-> FALSE]
  /\ heard = [r \in Request |-> <<>>]
  /\ result = [r \in Request |-> "none"]

Become(r, to) == state' = [state EXCEPT ![r] = to]
Give(r, status) == result' = [result EXCEPT ![r] = status]

Call(r) ==
  /\ state[r] = "idle"
  /\ UNCHANGED <<line, current, answered, heard>>
  /\ \E w \in BOOLEAN : waits' = [waits EXCEPT ![r] = w]
  /\ \/ Become(r, "calling") /\ result' = result
     \/ Become(r, "refused") /\ \E why \in Refusal : Give(r, why)

Refuse(r) ==
  /\ state[r] = "calling"
  /\ Give(r, "QUEUE_FULL")
  /\ Become(r, "refused")
  /\ UNCHANGED <<waits, line, current, answered, heard>>

Accept(r) ==
  /\ state[r] = "calling"
  /\ Len(line) < QueueMax
  /\ line' = Append(line, r)
  /\ IF waits[r] THEN result' = result ELSE Give(r, "OK")
  /\ Become(r, "accepted")
  /\ UNCHANGED <<waits, current, answered, heard>>

Drop ==
  /\ line # <<>>
  /\ line' = Tail(line)
  /\ Become(Head(line), "dropped")
  /\ UNCHANGED <<waits, current, answered, heard, result>>

Serve ==
  /\ current = None
  /\ line # <<>>
  /\ line' = Tail(line)
  /\ current' = Head(line)
  /\ Become(Head(line), "served")
  /\ UNCHANGED <<waits, answered, heard, result>>

Answer(r) ==
  /\ current = r
  /\ heard[r] = <<>>
  /\ UNCHANGED <<state, waits, line, current, result>>
  /\ answered' = [answered EXCEPT ![r] = TRUE]
  /\ \/ heard' = heard
     \/ \E s \in {"OK", "FAIL"} : heard' = [heard EXCEPT ![r] = <<s>>]

Finish(r) ==
  /\ current = r
  /\ current' = None
  /\ \/ heard' = heard
     \/ heard' = [heard EXCEPT ![r] = Append(@, "TIMEOUT")]
  /\ Become(r, "done")
  /\ UNCHANGED <<waits, line, answered, result>>

Return(r) ==
  /\ waits[r]
  /\ result[r] = "none"
  /\ \/ Give(r, "TIMEOUT")
     \/ (answered[r] \/ state[r] = "dropped") /\ Give(r, "OK")
  /\ state[r] \in {"accepted", "served", "done", "dropped"}
  /\ UNCHANGED <<state, waits, line, current, answered, heard>>

Forget(r) ==
  /\ result[r] # "none"
  /\ Give(r, "none")
  /\ state[r] \in {"refused", "done", "dropped"}
  /\ Become(r, "idle")
  /\ waits' = [waits EXCEPT ![r] = FALSE]
  /\ answered' = [answered EXCEPT ![r] = FALSE]
  /\ heard' = [heard EXCEPT ![r] = <<>>]
  /\ UNCHANGED <<line, current>>

Next ==
  \/ Drop \/ Serve
  \/ \E r \in Request :
       Call(r) \/ Refuse(r) \/ Accept(r) \/ Answer(r) \/ Finish(r) \/ Return(r) \/ Forget(r)

Spec == Init /\ [][Next]_serviceVars
=============================================================================
