------------------------- MODULE CoapServiceProofs --------------------------
(***************************************************************************)
(* The request path implements RequestService, for all constants: every    *)
(* step of CoapRequests is a step of the service or leaves it unchanged.   *)
(***************************************************************************)
EXTENDS CoapRequestsOutcome, CoapService

-----------------------------------------------------------------------------
(* A call that waits has no result, and one that has returned has one. *)

LEMMA ReturnStep ==
  ASSUME IInv, ReturnInv, [Next]_vars PROVE ReturnInv'
<1> USE DEF IInv, TypeOK, CallerTypeOK, HistoryTypeOK, TaskTypeOK,
  callerVars, objectVars, taskVars, sessionVars, historyVars, PathInv, FreshInv, Fresh,
  CurInv, Serving, ReturnInv, InWait
<1>1. ASSUME NEW r \in Request, NEW op \in Type, NEW s \in BOOLEAN,
             NEW tmo \in Ticks, NEW copy \in BOOLEAN, Begin(r, op, s, tmo, copy)
      PROVE  ReturnInv'
  BY <1>1, QueueSame DEF Begin, Return, CallerOnly
<1>2. ASSUME NEW r \in Request, Enqueue(r)
      PROVE  ReturnInv'
  BY <1>2, QueuedOfAppend DEF Enqueue, Return
<1>3. ASSUME NEW r \in Request, EnqueueFails(r)
      PROVE  ReturnInv'
  BY <1>3, QueueSame DEF EnqueueFails, Return, CallerOnly
<1>4. ASSUME NEW r \in Request, StartWait(r)
      PROVE  ReturnInv'
  BY <1>4, QueueSame DEF StartWait, CallerOnly
<1>5. ASSUME NEW r \in Request, StartWaitDeleted(r)
      PROVE  ReturnInv'
  BY <1>5, QueueSame DEF StartWaitDeleted, CallerOnly
<1>6. ASSUME NEW r \in Request, Wake(r)
      PROVE  ReturnInv'
  BY <1>6, QueueSame DEF Wake, CallerOnly
<1>7. ASSUME NEW r \in Request, GiveAck(r)
      PROVE  ReturnInv'
  BY <1>7, QueueSame DEF GiveAck, Return, CallerOnly
<1>8. ASSUME NEW r \in Request, Recycle(r)
      PROVE  ReturnInv'
  BY <1>8, QueueSame DEF Recycle
<1>9. ASSUME AgeOut
      PROVE  ReturnInv'
  BY <1>9, QueuedOfTail, HeadIsRequest DEF AgeOut, TaskOnly
<1>10. ASSUME Send
       PROVE  ReturnInv'
  BY <1>10, QueuedOfTail, HeadIsRequest DEF Send, TaskOnly
<1>11. ASSUME AssertFails
       PROVE  ReturnInv'
  BY <1>11, QueueSame DEF AssertFails, TaskOnly
<1>12. ASSUME NEW r \in Request, NEW class \in Class, Receive(r, class)
       PROVE  ReturnInv'
  BY <1>12, QueueSame DEF Receive, TaskOnly
<1>13. ASSUME IoFails \/ IoDone \/ TakeAck
       PROVE  ReturnInv'
  BY <1>13, QueueSame DEF IoFails, IoDone, TakeAck, TaskOnly
<1>14. ASSUME FinishIoError
       PROVE  ReturnInv'
  BY <1>14, QueueSame DEF FinishIoError, Finish, TaskOnly
<1>15. ASSUME FinishTimeout \/ FinishOk
       PROVE  ReturnInv'
  BY <1>15, QueueSame DEF FinishTimeout, FinishOk, Finish, TaskOnly
<1>16. ASSUME Environment
       PROVE  ReturnInv'
  BY <1>16, QueueSame
  DEF Environment, StartSession, EndSession, SetRunning, RegisterEventCallback, Lose,
      Tick, EnvironmentOnly
<1>17. CASE UNCHANGED vars
  BY <1>17, QueueSame DEF vars
<1> HIDE DEF IInv, TypeOK, CallerTypeOK, HistoryTypeOK, TaskTypeOK,
  callerVars, objectVars, taskVars, sessionVars, historyVars, PathInv, FreshInv, Fresh,
  CurInv, Serving, ReturnInv, InWait
<1> QED
  BY ApiBegins, <1>1, <1>2, <1>3, <1>4, <1>5, <1>6, <1>7, <1>8, <1>9, <1>10, <1>11,
     <1>12, <1>13, <1>14, <1>15, <1>16, <1>17
  DEF Next, Caller, CallerStep, Task

-----------------------------------------------------------------------------
(* The state of the service, when one call's state changes or none does. *)

\* One call comes further.
LEMMA BecomeAt ==
  ASSUME NEW r \in Request, NEW to, StateOf(r)' = to,
         \A q \in Request \ {r} : StateOf(q)' = StateOf(q)
  PROVE  Service!Become(r, to)
BY DEF Service!Become

\* No call comes further.
LEMMA StateSame ==
  ASSUME \A q \in Request : StateOf(q)' = StateOf(q)
  PROVE  [q \in Request |-> StateOf(q)]' = [q \in Request |-> StateOf(q)]
OBVIOUS

\* What was answered, when one call is answered or forgotten.
LEMMA AnsweredAt ==
  ASSUME answer \in [Request -> Class \cup {"none"}], NEW r \in Request, NEW class,
         answer' = [answer EXCEPT ![r] = class]
  PROVE  [q \in Request |-> answer[q] # "none"]'
           = [[q \in Request |-> answer[q] # "none"] EXCEPT ![r] = (class # "none")]
<1>1. \A q \in Request : answer'[q] = IF q = r THEN class ELSE answer[q]
  OBVIOUS
<1> QED BY <1>1

\* No answer comes.
LEMMA AnsweredSame ==
  ASSUME answer' = answer
  PROVE  [q \in Request |-> answer[q] # "none"]' = [q \in Request |-> answer[q] # "none"]
OBVIOUS

-----------------------------------------------------------------------------
(* Every action, as a step of the service. *)

\* A call that is made is one the service knows to be idle.
LEMMA BeginIsCall ==
  ASSUME IInv, NEW r \in Request, NEW op \in Type, NEW s \in BOOLEAN,
         NEW tmo \in Ticks, NEW copy \in BOOLEAN, Begin(r, op, s, tmo, copy)
  PROVE  Service!Call(r)
<1> USE DEF IInv, TypeOK, CallerTypeOK, HistoryTypeOK, PathInv, QueuedInv, CurInv,
            FreshInv, Fresh
<1>1. cpc[r] = "idle" /\ fate[r] = "none" /\ r \notin Queued /\ cur # r
  BY NoneAssumption DEF Begin
<1>2. Queued' = Queued /\ queue' = queue /\ cur' = cur /\ fate' = fate /\ told' = told
        /\ answer' = answer
  BY QueueSame DEF Begin, CallerOnly, taskVars
<1>3. sync' = [sync EXCEPT ![r] = s]
  BY DEF Begin
<1>4. \A q \in Request \ {r} : cpc'[q] = cpc[q]
  BY DEF Begin, Return
<1>5. \A q \in Request \ {r} : StateOf(q)' = StateOf(q)
  BY <1>2, <1>4 DEF StateOf
<1>6. StateOf(r) = "idle"
  BY <1>1 DEF StateOf
<1>7. \/ cpc'[r] = "called" /\ ret' = ret
      \/ cpc'[r] = "returned" /\ \E why \in Service!Refusal : Service!Give(r, why)
  BY DEF Begin, Return, Service!Refusal, Service!Give
<1>8. \/ StateOf(r)' = "calling" /\ ret' = ret
      \/ StateOf(r)' = "refused" /\ \E why \in Service!Refusal : Service!Give(r, why)
  BY <1>1, <1>2, <1>7 DEF StateOf
<1> HIDE DEF IInv
<1>9. \/ Service!Become(r, "calling") /\ ret' = ret
      \/ Service!Become(r, "refused") /\ \E why \in Service!Refusal : Service!Give(r, why)
  BY <1>5, <1>8, BecomeAt
<1> QED BY <1>2, <1>3, <1>6, <1>9, AnsweredSame DEF Service!Call

\* xQueueSend accepts it at the end of the line ...
LEMMA EnqueueIsAccept ==
  ASSUME IInv, NEW r \in Request, Enqueue(r) PROVE Service!Accept(r)
<1> USE DEF IInv, TypeOK, CallerTypeOK, HistoryTypeOK, PathInv, QueuedInv, CurInv,
            FreshInv, Fresh
<1>1. cpc[r] = "called" /\ fate[r] = "none" /\ r \notin Queued /\ cur # r
  BY NoneAssumption DEF Enqueue
<1>2. cur' = cur /\ fate' = fate /\ told' = told /\ answer' = answer /\ sync' = sync
  BY DEF Enqueue, taskVars, historyVars
<1>3. Queued' = Queued \cup {r}
  BY QueuedOfAppend DEF Enqueue
<1>4. \A q \in Request \ {r} : cpc'[q] = cpc[q]
  BY DEF Enqueue, Return
<1>5. \A q \in Request \ {r} : StateOf(q)' = StateOf(q)
  BY <1>2, <1>3, <1>4 DEF StateOf
<1>6. StateOf(r) = "calling" /\ StateOf(r)' = "accepted"
  BY <1>1, <1>2, <1>3 DEF StateOf
<1>7. IF sync[r] THEN ret' = ret ELSE Service!Give(r, "OK")
  BY DEF Enqueue, Return, Service!Give
<1>8. Len(queue) < QueueMax /\ queue' = Append(queue, r)
  BY DEF Enqueue
<1> QED BY <1>2, <1>5, <1>6, <1>7, <1>8, BecomeAt, AnsweredSame DEF Service!Accept

\* ... or refuses it.
LEMMA EnqueueFailsIsRefuse ==
  ASSUME IInv, NEW r \in Request, EnqueueFails(r) PROVE Service!Refuse(r)
<1> USE DEF IInv, TypeOK, CallerTypeOK, HistoryTypeOK, PathInv, QueuedInv, CurInv,
            FreshInv, Fresh
<1>1. cpc[r] = "called" /\ fate[r] = "none" /\ r \notin Queued /\ cur # r
  BY NoneAssumption DEF EnqueueFails
<1>2. queue' = queue /\ cur' = cur /\ fate' = fate /\ told' = told /\ answer' = answer
        /\ sync' = sync /\ Queued' = Queued
  BY QueueSame DEF EnqueueFails, CallerOnly, taskVars
<1>3. \A q \in Request \ {r} : cpc'[q] = cpc[q]
  BY DEF EnqueueFails, Return
<1>4. \A q \in Request \ {r} : StateOf(q)' = StateOf(q)
  BY <1>2, <1>3 DEF StateOf
<1>5. cpc'[r] = "returned"
  BY DEF EnqueueFails, Return
<1>6. StateOf(r) = "calling" /\ StateOf(r)' = "refused"
  BY <1>1, <1>2, <1>5 DEF StateOf
<1>7. Service!Give(r, "QUEUE_FULL")
  BY DEF EnqueueFails, Return, Service!Give
<1> QED BY <1>2, <1>4, <1>6, <1>7, BecomeAt, AnsweredSame DEF Service!Refuse

\* A caller's steps around its wait are not visible.
LEMMA WaitIsSilent ==
  ASSUME IInv, NEW r \in Request, StartWait(r) \/ StartWaitDeleted(r) \/ Wake(r)
  PROVE  UNCHANGED Service!serviceVars
<1> USE DEF IInv, TypeOK, CallerTypeOK
<1>1. queue' = queue /\ cur' = cur /\ fate' = fate /\ told' = told /\ answer' = answer
        /\ sync' = sync /\ ret' = ret /\ Queued' = Queued
  BY QueueSame DEF StartWait, StartWaitDeleted, Wake, CallerOnly, taskVars
<1>2. /\ \A q \in Request \ {r} : cpc'[q] = cpc[q]
      /\ InWait(r) /\ cpc'[r] \in {"waiting", "woken"}
  BY DEF StartWait, StartWaitDeleted, Wake, InWait
<1>3. \A q \in Request : StateOf(q)' = StateOf(q)
  BY <1>1, <1>2 DEF StateOf, InWait
<1> QED BY <1>1, <1>3, StateSame, AnsweredSame DEF Service!serviceVars

\* A caller that wakes up returns what the service allows: GOLIOTH_OK for a call that
\* was answered, or one that was dropped while its caller used deleted handles.
LEMMA GiveAckIsReturn ==
  ASSUME IInv, ReturnInv, NEW r \in Request, GiveAck(r) PROVE Service!Return(r)
<1> USE DEF IInv, TypeOK, CallerTypeOK, HistoryTypeOK
<1>1. queue' = queue /\ cur' = cur /\ fate' = fate /\ told' = told /\ answer' = answer
        /\ sync' = sync /\ Queued' = Queued
  BY QueueSame DEF GiveAck, CallerOnly, taskVars
<1>2. InWait(r) /\ cpc'[r] = "returned" /\ \A q \in Request \ {r} : cpc'[q] = cpc[q]
  BY DEF GiveAck, Return, InWait
<1>3. sync[r] /\ ret[r] = "none" /\ (r \in Queued \/ fate[r] # "none")
  BY <1>2 DEF ReturnInv, ObjectInv, HandleInv
<1>4. \A q \in Request : StateOf(q)' = StateOf(q)
  BY <1>1, <1>2 DEF StateOf, InWait
<1>5. StateOf(r) \in {"accepted", "served", "done", "dropped"}
  BY <1>3 DEF StateOf
<1>6. ASSUME r \in misused
      PROVE  StateOf(r) = "dropped"
  <2>1. fate[r] = "aged"
    BY <1>6 DEF ObjectInv, MisuseOnlyAfterAgeOut
  <2> QED BY <2>1, NoneAssumption DEF StateOf, PathInv, QueuedInv, CurInv
<1>7. seen[r] = "RECEIVED" => answer[r] # "none" \/ StateOf(r) = "dropped"
  BY <1>6 DEF ReplyInv, AnswerInv
<1>8. \/ Service!Give(r, "TIMEOUT")
      \/ seen[r] = "RECEIVED" /\ Service!Give(r, "OK")
  BY DEF GiveAck, Return, Service!Give
<1> HIDE DEF IInv
<1> QED
  BY <1>1, <1>3, <1>4, <1>5, <1>7, <1>8, StateSame, AnsweredSame DEF Service!Return

\* An identity is recycled when the service is done with the call.
LEMMA RecycleIsForget ==
  ASSUME IInv, ReturnInv, NEW r \in Request, Recycle(r) PROVE Service!Forget(r)
<1> USE DEF IInv, TypeOK, CallerTypeOK, HistoryTypeOK
<1>1. queue' = queue /\ cur' = cur /\ Queued' = Queued /\ r \notin Queued /\ cur # r
  BY QueueSame DEF Recycle, taskVars
<1>2. /\ cpc[r] = "returned" /\ cpc'[r] = "idle" /\ fate'[r] = "none"
      /\ \A q \in Request \ {r} : cpc'[q] = cpc[q] /\ fate'[q] = fate[q]
  BY DEF Recycle
<1>3. \A q \in Request \ {r} : StateOf(q)' = StateOf(q)
  BY <1>1, <1>2 DEF StateOf
<1>4. StateOf(r) \in {"refused", "done", "dropped"} /\ StateOf(r)' = "idle"
  BY <1>1, <1>2 DEF StateOf
<1>5. ret[r] # "none" /\ Service!Give(r, "none")
  BY <1>2 DEF ReturnInv, Recycle, Service!Give
<1>6. [q \in Request |-> answer[q] # "none"]'
        = [[q \in Request |-> answer[q] # "none"] EXCEPT ![r] = FALSE]
  <2>1. answer' = [answer EXCEPT ![r] = "none"]
    BY DEF Recycle
  <2> QED BY <2>1, AnsweredAt
<1>7. sync' = [sync EXCEPT ![r] = FALSE] /\ told' = [told EXCEPT ![r] = <<>>]
  BY DEF Recycle
<1> HIDE DEF IInv
<1> QED BY <1>1, <1>3, <1>4, <1>5, <1>6, <1>7, BecomeAt DEF Service!Forget

\* The first in the line is dropped ...
LEMMA AgeOutIsDrop ==
  ASSUME IInv, AgeOut PROVE Service!Drop
<1> USE DEF IInv, TypeOK, CallerTypeOK, HistoryTypeOK, PathInv
<1>0. PICK r \in Request : r = Head(queue)
  BY HeadIsRequest DEF AgeOut
<1>1. queue # <<>> /\ queue' = Tail(queue)
  BY DEF AgeOut
<1>2. r \in Queued /\ Queued' = Queued \ {r} /\ cur # r
  BY <1>0, <1>1, QueuedOfTail DEF QueuedInv
<1>3. cpc' = cpc /\ cur' = cur /\ told' = told /\ answer' = answer /\ sync' = sync
        /\ ret' = ret /\ fate' = [fate EXCEPT ![r] = "aged"]
  BY <1>0 DEF AgeOut, TaskOnly, callerVars, taskVars
<1>4. \A q \in Request \ {r} : StateOf(q)' = StateOf(q)
  BY <1>1, <1>2, <1>3 DEF StateOf
<1>5. StateOf(r)' = "dropped"
  BY <1>1, <1>2, <1>3 DEF StateOf
<1>6. Service!Become(r, "dropped")
  BY <1>4, <1>5, BecomeAt
<1> QED BY <1>0, <1>1, <1>3, <1>6, AnsweredSame DEF Service!Drop

\* ... or served, when no other call is.
LEMMA SendIsServe ==
  ASSUME IInv, Send PROVE Service!Serve
<1> USE DEF IInv, TypeOK, CallerTypeOK, HistoryTypeOK, PathInv
<1>0. PICK r \in Request : r = Head(queue)
  BY HeadIsRequest DEF Send
<1>1. queue # <<>> /\ queue' = Tail(queue)
  BY DEF Send
<1>2. r \in Queued /\ Queued' = Queued \ {r} /\ cur = None
  BY <1>0, <1>1, QueuedOfTail DEF CurInv, Serving, Send
<1>3. cpc' = cpc /\ cur' = r /\ told' = told /\ answer' = answer /\ sync' = sync
        /\ ret' = ret /\ fate' = [fate EXCEPT ![r] = "sent"]
  BY <1>0 DEF Send, TaskOnly, callerVars
<1>4. \A q \in Request \ {r} : StateOf(q)' = StateOf(q)
  BY <1>1, <1>2, <1>3, NoneAssumption DEF StateOf
<1>5. StateOf(r)' = "served"
  BY <1>1, <1>3 DEF StateOf
<1>6. Service!Become(r, "served")
  BY <1>4, <1>5, BecomeAt
<1> QED BY <1>0, <1>1, <1>2, <1>3, <1>6, AnsweredSame DEF Service!Serve

\* A datagram answers the call that is served, or nobody.
LEMMA ReceiveIsAnswer ==
  ASSUME IInv, OutcomeInv, NEW r \in Request, NEW class \in Class, Receive(r, class)
  PROVE  Service!Answer(r) \/ UNCHANGED Service!serviceVars
<1> USE DEF IInv, TypeOK, CallerTypeOK, HistoryTypeOK
<1>1. queue' = queue /\ cur' = cur /\ fate' = fate /\ cpc' = cpc /\ sync' = sync
        /\ ret' = ret /\ Queued' = Queued
  BY QueueSame DEF Receive, TaskOnly, callerVars
<1>2. \A q \in Request : StateOf(q)' = StateOf(q)
  BY <1>1 DEF StateOf
<1>3. CASE Pending /\ TokenMatches(r)
  <2>1. cur = r /\ answer' = [answer EXCEPT ![r] = class] /\ ~gotResponse
    BY <1>3 DEF Receive, TokenMatches, Pending
  <2>2. told[r] = <<>>
    BY <2>1 DEF OutcomeInv, ToldInv
  <2>3. class # "none"
    BY InputAssumption
  <2>4. [q \in Request |-> answer[q] # "none"]'
          = [[q \in Request |-> answer[q] # "none"] EXCEPT ![r] = TRUE]
    BY <2>1, <2>3, AnsweredAt
  <2>5. StatusOf(class) \in {"OK", "FAIL"}
    BY DEF StatusOf
  <2>6. \/ told' = told
        \/ told' = [told EXCEPT ![r] = Append(@, StatusOf(class))]
    BY <1>3, <2>1 DEF Receive
  <2>7. Append(told[r], StatusOf(class)) = <<StatusOf(class)>>
    BY <2>2
  <2>8. \/ told' = told
        \/ \E s \in {"OK", "FAIL"} : told' = [told EXCEPT ![r] = <<s>>]
    BY <2>5, <2>6, <2>7
  <2> HIDE DEF IInv
  <2> QED BY <1>1, <1>2, <2>1, <2>2, <2>4, <2>8, StateSame DEF Service!Answer
<1>4. CASE ~(Pending /\ TokenMatches(r))
  <2>1. answer' = answer /\ told' = told
    BY <1>4 DEF Receive
  <2> QED BY <1>1, <1>2, <2>1, StateSame, AnsweredSame DEF Service!serviceVars
<1> QED BY <1>3, <1>4

\* The coap task is done with the call it serves.
LEMMA FinishIsFinish ==
  ASSUME IInv, FinishIoError \/ FinishTimeout \/ FinishOk PROVE Service!Finish(cur)
<1> USE DEF IInv, TypeOK, CallerTypeOK, HistoryTypeOK, PathInv
<1>1. Finish
  BY DEF FinishIoError, FinishTimeout, FinishOk
<1>2. PICK r \in Request : r = cur
  BY <1>1 DEF Finish, CurInv, Serving
<1>3. fate[r] = "sent" /\ r \notin Queued
  BY <1>1, <1>2 DEF Finish, CurInv, Serving, QueuedInv
<1>4. queue' = queue /\ cur' = None /\ answer' = answer /\ cpc' = cpc /\ sync' = sync
        /\ ret' = ret /\ Queued' = Queued
  BY <1>1, QueueSame DEF Finish, TaskOnly, callerVars
<1>5. /\ fate'[r] \in {"sent", "failed"}
      /\ \A q \in Request \ {r} : fate'[q] = fate[q]
  BY <1>3, <1>2 DEF FinishIoError, FinishTimeout, FinishOk
<1>6. told' = told \/ told' = [told EXCEPT ![r] = Append(@, "TIMEOUT")]
  BY <1>2 DEF FinishIoError, FinishTimeout, FinishOk
<1>7. \A q \in Request \ {r} : StateOf(q)' = StateOf(q)
  BY <1>4, <1>5, <1>2, NoneAssumption DEF StateOf
<1>8. StateOf(r)' = "done"
  BY <1>3, <1>4, <1>5, NoneAssumption DEF StateOf
<1>9. Service!Become(r, "done")
  BY <1>3, <1>7, <1>8, BecomeAt
<1> HIDE DEF IInv
<1> QED BY <1>3, <1>4, <1>6, <1>2, <1>9, AnsweredSame DEF Service!Finish

\* The rest of what the coap task, the sessions, the network and the clock do is not
\* visible.
LEMMA RestIsSilent ==
  ASSUME AssertFails \/ IoFails \/ IoDone \/ TakeAck \/ Environment \/ UNCHANGED vars
  PROVE  UNCHANGED Service!serviceVars
<1>1. queue' = queue /\ cur' = cur /\ fate' = fate /\ cpc' = cpc /\ sync' = sync
        /\ ret' = ret /\ told' = told /\ answer' = answer
  BY DEF AssertFails, IoFails, IoDone, TakeAck, TaskOnly, Environment, StartSession,
         EndSession, SetRunning, RegisterEventCallback, Lose, Tick, EnvironmentOnly,
         vars, callerVars, taskVars, historyVars
<1>2. \A q \in Request : StateOf(q)' = StateOf(q)
  BY <1>1, QueueSame DEF StateOf
<1> QED BY <1>1, <1>2, StateSame, AnsweredSame DEF Service!serviceVars

-----------------------------------------------------------------------------
(* The refinement. *)

\* A client that has just been allocated is a service nobody has called.
LEMMA ServiceInit == Init => Service!Init
<1> SUFFICES ASSUME Init PROVE Service!Init
  OBVIOUS
<1>1. queue = <<>> /\ cur = None /\ told = [r \in Request |-> <<>>]
        /\ ret = [r \in Request |-> "none"] /\ sync = [r \in Request |-> FALSE]
        /\ cpc = [r \in Request |-> "idle"] /\ fate = [r \in Request |-> "none"]
        /\ answer = [r \in Request |-> "none"]
  BY DEF Init
<1>2. Queued = {}
  BY <1>1 DEF Queued
<1>3. \A r \in Request : StateOf(r) = "idle"
  BY <1>1, <1>2, NoneAssumption DEF StateOf
<1> QED BY <1>1, <1>3 DEF Service!Init

\* Every step is one of the service, or is not visible.
LEMMA ServiceStep ==
  ASSUME IInv, OutcomeInv, ReturnInv, [Next]_vars
  PROVE  [Service!Next]_(Service!serviceVars)
<1>1. ASSUME NEW r \in Request, Caller(r)
      PROVE  [Service!Next]_(Service!serviceVars)
  <2>1. CASE Empty(r) \/ ApiCall(r)
    BY <2>1, ApiBegins, BeginIsCall DEF Service!Next
  <2>2. CASE CallerStep(r)
    BY <2>2, EnqueueIsAccept, EnqueueFailsIsRefuse, WaitIsSilent, GiveAckIsReturn
    DEF CallerStep, Service!Next
  <2>3. CASE Recycle(r)
    BY <2>3, RecycleIsForget DEF Service!Next
  <2> QED BY <1>1, <2>1, <2>2, <2>3 DEF Caller
<1>2. ASSUME Task
      PROVE  [Service!Next]_(Service!serviceVars)
  <2>1. CASE AgeOut \/ Send
    BY <2>1, AgeOutIsDrop, SendIsServe DEF Service!Next
  <2>2. ASSUME NEW r \in Request, NEW class \in Class, Receive(r, class)
        PROVE  [Service!Next]_(Service!serviceVars)
    BY <2>2, ReceiveIsAnswer DEF Service!Next
  <2>3. CASE FinishIoError \/ FinishTimeout \/ FinishOk
    <3>1. cur \in Request
      BY <2>3 DEF FinishIoError, FinishTimeout, FinishOk, Finish, IInv, PathInv, CurInv,
                  Serving
    <3> QED BY <2>3, <3>1, FinishIsFinish DEF Service!Next
  <2>4. CASE AssertFails \/ IoFails \/ IoDone \/ TakeAck
    BY <2>4, RestIsSilent
  <2> QED BY <1>2, <2>1, <2>2, <2>3, <2>4 DEF Task
<1>3. CASE Environment \/ UNCHANGED vars
  BY <1>3, RestIsSilent
<1> QED BY <1>1, <1>2, <1>3 DEF Next

\* A call that waits has no result, and one that has returned has one, always.
LEMMA ReturnInvariant == Spec => []ReturnInv
<1>1. Init => ReturnInv
  BY DEF Init, ReturnInv, InWait
<1> QED BY <1>1, IInit, IStep, ReturnStep, PTL DEF Spec

\* The request path implements the service, whatever the number of calls, the length
\* of the queue and the timeouts.
THEOREM Refinement == Spec => ImplementsService
<1>1. IInv /\ OutcomeInv /\ ReturnInv /\ [Next]_vars
        => [Service!Next]_(Service!serviceVars)
  BY ServiceStep
<1> QED
  BY <1>1, ServiceInit, OutcomeInvariant, ReturnInvariant, PTL
  DEF Spec, ImplementsService, Service!Spec
=============================================================================
