---------------------------- MODULE LightDbProofs ----------------------------
(***************************************************************************)
(* Proofs about the LightDB and log wrappers: they implement the request   *)
(* path, so that what is proved of CoapRequests holds of them, and LdbInv  *)
(* is inductive on top of its invariants, for any number of calls.         *)
(***************************************************************************)
EXTENDS CoapServiceProofs, LightDb

-----------------------------------------------------------------------------
(* The wrappers implement the request path. *)

\* Every function of golioth_lightdb.c and golioth_log.c is one call of the client.
LEMMA WrapperCalls ==
  ASSUME NEW r \in Request,
         StateAsync(r) \/ StateSync(r) \/ StreamSetAsync(r) \/ StreamSetSync(r) \/ Log(r)
  PROVE  ApiCall(r) /\ \E op \in Type, s \in BOOLEAN, tmo \in Ticks, copy \in BOOLEAN :
                         Begin(r, op, s, tmo, copy)
<1>1. ASSUME NEW s, NEW tmo \in Waits(s), SetInternal(r, s, tmo) PROVE Set(r)
  <2>1. PICK size \in PayloadSize : size > 0
    <3>1. PICK size \in PayloadSize : size # 0 BY <1>1 DEF SetInternal
    <3> QED BY <3>1, InputAssumption
  <2>2. (size > 0) = TRUE BY <2>1
  <2>3. Begin(r, "POST", s, tmo, size > 0) BY <1>1, <2>2 DEF SetInternal
  <2> QED BY <1>1, <2>3 DEF SetInternal, Set
<1>2. ASSUME NEW s, NEW tmo \in Waits(s), SetJsonInternal(r, s, tmo) PROVE Set(r)
  BY <1>2 DEF SetJsonInternal, Set
<1>3. ASSUME NEW s, NEW tmo \in Waits(s), NEW op \in {"GET", "DELETE"},
             PlainInternal(r, op, s, tmo)
      PROVE  Get(r) \/ Delete(r)
  BY <1>3 DEF PlainInternal, Get, Delete
<1>4. Forever \in Waits(FALSE) BY DEF Waits
<1>5. StateAsync(r) => ApiCall(r)
  BY <1>1, <1>2, <1>3, <1>4 DEF StateAsync, ApiCall
<1>6. StateSync(r) => ApiCall(r)
  BY <1>1, <1>2, <1>3 DEF StateSync, ApiCall
<1>7. StreamSetAsync(r) \/ StreamSetSync(r) => ApiCall(r)
  BY <1>1, <1>2, <1>4 DEF StreamSetAsync, StreamSetSync, ApiCall
<1>8. Log(r) => ApiCall(r)
  <2>1. \A s, tmo : LogInternal(r, s, tmo) => SetInternal(r, s, tmo)
    BY DEF LogInternal, SetInternal
  <2> QED BY <1>1, <2>1 DEF Log, ApiCall
<1>9. ApiCall(r) BY <1>5, <1>6, <1>7, <1>8
<1> QED BY <1>9, ApiBegins

LEMMA GetSyncCalls ==
  ASSUME NEW r \in Request, GetSync(r)
  PROVE  ApiCall(r) /\ \E op \in Type, s \in BOOLEAN, tmo \in Ticks, copy \in BOOLEAN :
                         Begin(r, op, s, tmo, copy)
<1>1. ApiCall(r) BY DEF GetSync, PlainInternal, ApiCall, Get
<1> QED BY <1>1, ApiBegins

LEMMA LdbStepIsNext == LdbNext => [Next]_vars
<1> SUFFICES ASSUME LdbNext PROVE [Next]_vars
  OBVIOUS
<1>1. CASE Live /\ LdbStep
  <2>1. ASSUME NEW r \in Request, LdbCaller(r) PROVE [Next]_vars
    <3>1. CASE Wrapper(r) BY <1>1, <3>1, WrapperCalls DEF Wrapper, Next, Caller
    <3>2. CASE GetSync(r) BY <1>1, <3>2, GetSyncCalls DEF Next, Caller
    <3>3. CASE ReturnGet(r) BY <3>3 DEF ReturnGet
    <3>4. CASE RecycleCall(r) BY <1>1, <3>4 DEF RecycleCall, Next, Caller
    <3>5. CASE Empty(r) \/ CallerStep(r) BY <1>1, <3>5 DEF Next, Caller
    <3> QED BY <2>1, <3>1, <3>2, <3>3, <3>4, <3>5 DEF LdbCaller
  <2>2. CASE LdbTask
    <3>1. Task BY <2>2 DEF LdbTask, QuietTask, TimeoutCall, ReceiveCall, Task
    <3> QED BY <1>1, <3>1 DEF Next
  <2>3. CASE Environment BY <1>1, <2>3 DEF Next
  <2> QED BY <1>1, <2>1, <2>2, <2>3 DEF LdbStep
<1>2. CASE ~(Live /\ ~crashed) BY <1>2 DEF LdbNext, Reset, ldbVars
<1> QED BY <1>1, <1>2 DEF LdbNext

\* Everything proved of the request path holds under the wrappers.
THEOREM WrappersImplementRequests == LdbSpec => Spec
<1>1. LdbInit => Init BY DEF LdbInit
<1>2. [LdbNext]_ldbVars => [Next]_vars BY LdbStepIsNext DEF ldbVars
<1> QED BY <1>1, <1>2, PTL DEF LdbSpec, Spec

\* So the LightDB and log functions implement the service too.
THEOREM WrappersImplementService == LdbSpec => ImplementsService
BY Refinement, WrappersImplementRequests

-----------------------------------------------------------------------------
(* What the steps of the request path leave of a call. *)

\* Until its identity is recycled, a call that returned stays as it is.
Keeps(r) ==
  /\ cpc[r] = "returned" => cpc'[r] = "returned" /\ ret'[r] = ret[r]
  /\ cpc[r] # "idle" => type'[r] = type[r] /\ sync'[r] = sync[r] /\ timeout'[r] = timeout[r]
  /\ r \in misused => r \in misused'

\* What is needed of every step of the caller: it tells nothing and keeps the others.
LEMMA BeginKeeps ==
  ASSUME IInv, RetInv, NEW r \in Request, NEW op \in Type, NEW s \in BOOLEAN, NEW tmo \in Ticks,
         NEW copy \in BOOLEAN, Begin(r, op, s, tmo, copy)
  PROVE  UNCHANGED <<told, answer>> /\ RetInv' /\ \A q \in Request : Keeps(q)
<1> USE DEF Begin, Return, CallerOnly, IInv, TypeOK, CallerTypeOK, taskVars
<1>1. r \notin Queued /\ cur # r /\ cpc[r] = "idle"
  BY NoneAssumption DEF PathInv, QueuedInv, CurInv, Fresh
<1>2. RetInv' BY <1>1, QueueSame DEF RetInv
<1>3. \A q \in Request : Keeps(q) BY <1>1 DEF Keeps
<1> QED BY <1>2, <1>3

LEMMA CallerKeeps ==
  ASSUME IInv, RetInv, NEW r \in Request, CallerStep(r)
  PROVE  UNCHANGED <<told, answer>> /\ RetInv' /\ \A q \in Request : Keeps(q)
<1> USE DEF IInv, TypeOK, CallerTypeOK, taskVars, historyVars
<1>1. CASE Enqueue(r)
  <2> USE <1>1 DEF Enqueue, Return
  <2>1. Queued' = Queued \cup {r} BY QueuedOfAppend
  <2>2. ret[r] = "none" BY DEF PathInv, FreshInv, Fresh
  <2>3. RetInv' BY <2>1, <2>2 DEF RetInv
  <2>4. \A q \in Request : Keeps(q) BY DEF Keeps
  <2> QED BY <2>3, <2>4
<1>2. CASE EnqueueFails(r)
  <2> USE <1>2 DEF EnqueueFails, Return, CallerOnly
  <2>1. r \notin Queued /\ cur # r
    BY NoneAssumption DEF PathInv, QueuedInv, CurInv, Fresh
  <2>2. RetInv' BY <2>1, QueueSame DEF RetInv
  <2>3. \A q \in Request : Keeps(q) BY DEF Keeps
  <2> QED BY <2>2, <2>3
<1>3. CASE StartWait(r) \/ StartWaitDeleted(r) \/ Wake(r)
  <2> USE <1>3 DEF StartWait, StartWaitDeleted, Wake, CallerOnly
  <2>1. RetInv' BY QueueSame DEF RetInv
  <2>2. \A q \in Request : Keeps(q) BY DEF Keeps
  <2> QED BY <2>1, <2>2
<1>4. CASE GiveAck(r)
  <2> USE <1>4 DEF GiveAck, Return, CallerOnly
  <2>1. RetInv' BY QueueSame DEF RetInv
  <2>2. \A q \in Request : Keeps(q) BY DEF Keeps
  <2> QED BY <2>1, <2>2
<1> QED BY <1>1, <1>2, <1>3, <1>4 DEF CallerStep

LEMMA TaskKeeps ==
  ASSUME IInv, RetInv, Task
  PROVE  RetInv' /\ \A q \in Request : Keeps(q)
<1> USE DEF IInv, TypeOK, TaskOnly, callerVars, historyVars
<1>1. UNCHANGED <<cpc, ret, type, sync, timeout, misused>>
  BY DEF Task, AgeOut, Send, AssertFails, Receive, IoFails, IoDone, TakeAck, Finish,
         FinishIoError, FinishTimeout, FinishOk
<1>2. \A q \in Request : q \in Queued' \/ cur' = q => q \in Queued \/ cur = q
  <2>1. CASE AgeOut \/ Send
    <3>1. /\ Head(queue) \in Queued /\ Queued' \subseteq Queued
          /\ cur' = Head(queue) \/ cur' = cur
      BY <2>1, QueuedOfTail DEF AgeOut, Send, PathInv, taskVars
    <3> QED BY <3>1
  <2>2. CASE ~(AgeOut \/ Send)
    <3>1. queue' = queue /\ (cur' = cur \/ cur' = None)
      BY <2>2
      DEF Task, AssertFails, Receive, IoFails, IoDone, TakeAck, Finish, FinishIoError,
          FinishTimeout, FinishOk
    <3> QED BY <3>1, QueueSame, NoneAssumption
  <2> QED BY <2>1, <2>2
<1>3. RetInv' BY <1>1, <1>2 DEF RetInv
<1>4. \A q \in Request : Keeps(q) BY <1>1 DEF Keeps
<1> QED BY <1>3, <1>4

LEMMA QuietTaskTells ==
  ASSUME IInv, AgeOut \/ Send \/ AssertFails \/ IoFails \/ IoDone \/ TakeAck \/ FinishIoError
                 \/ FinishOk
  PROVE  UNCHANGED <<told, answer>>
BY DEF AgeOut, Send, AssertFails, IoFails, IoDone, TakeAck, Finish, FinishIoError, FinishOk,
       historyVars

LEMMA EnvironmentKeeps ==
  ASSUME IInv, RetInv, Environment
  PROVE  UNCHANGED <<told, answer>> /\ RetInv' /\ \A q \in Request : Keeps(q)
<1> USE DEF EnvironmentOnly, callerVars, historyVars
<1>1. UNCHANGED <<cpc, ret, type, sync, timeout, misused, told, answer, queue, cur>>
  BY DEF Environment, StartSession, EndSession, SetRunning, RegisterEventCallback, Tick, Lose
<1>2. RetInv' BY <1>1, QueueSame DEF RetInv
<1>3. \A q \in Request : Keeps(q) BY <1>1 DEF Keeps
<1> QED BY <1>1, <1>2, <1>3

LEMMA RecycleKeeps ==
  ASSUME IInv, RetInv, NEW r \in Request, Recycle(r)
  PROVE  RetInv' /\ \A q \in Request \ {r} :
                      Keeps(q) /\ told'[q] = told[q] /\ answer'[q] = answer[q]
<1> USE DEF Recycle, IInv, TypeOK, CallerTypeOK, HistoryTypeOK, taskVars
<1>1. RetInv' BY QueueSame DEF RetInv
<1>2. \A q \in Request \ {r} : Keeps(q) /\ told'[q] = told[q] /\ answer'[q] = answer[q]
  BY DEF Keeps
<1> QED BY <1>1, <1>2


-----------------------------------------------------------------------------
(* The steps of the wrappers. *)

Base == IInv /\ OutcomeInv
Inv == LdbTypeOK /\ LdbInv

\* A call that was not sent has no answer, and its callback was told nothing.
LEMMA Unsent ==
  ASSUME Base, NEW r \in Request, Fresh(r)
  PROVE  answer[r] = "none" /\ told[r] = <<>>
BY DEF Base, IInv, PathInv, FreshInv, OutcomeInv, ToldInv

\* What a call was told, a getter wrote and a caller was given stays.
LEMMA FrameKeeps ==
  ASSUME Base, Inv, NEW r \in Request, Keeps(r), told'[r] = told[r], answer'[r] = answer[r],
         isNull'[r] = isNull[r], value'[r] = value[r], result'[r] = result[r], got'[r] = got[r],
         ~crashed' => ~crashed
  PROVE  /\ result'[r] # "none" =>
              /\ cpc'[r] = "returned"
              /\ result'[r] = ret'[r] \/ (result'[r] = "NULL" /\ ret'[r] = "OK")
         /\ told'[r] = <<>> => got'[r] = "none" /\ r \notin {w[1] : w \in strayed}
         /\ isNull'[r] => Cause(r)'
         /\ Getter(r)' /\ answer'[r] # "none" /\ result'[r] = "none" /\ ~crashed' =>
              isNull'[r] \/ value'[r] = "set" \/ TooLate(r)'
         /\ result'[r] = "NULL" => Cause(r)'
         /\ r \notin misused' /\ Getter(r)' /\ result'[r] = "OK" => value'[r] = "set" \/ TooLate(r)'
<1>1. cpc[r] = "idle" => answer[r] = "none" /\ result[r] = "none"
  BY Unsent DEF Fresh, Inv, LdbInv, ResultInv
<1>2. cpc[r] # "idle" => Getter(r)' = Getter(r) /\ TooLate(r)' = TooLate(r)
  BY DEF Keeps, Getter, TooLate
<1>3. Cause(r)' <=> Cause(r) BY DEF Cause
<1>4. result[r] # "none" =>
        cpc[r] = "returned" /\ (result[r] = ret[r] \/ (result[r] = "NULL" /\ ret[r] = "OK"))
  BY DEF Inv, LdbInv, ResultInv
<1>5. /\ told[r] = <<>> => got[r] = "none" /\ r \notin {w[1] : w \in strayed}
      /\ isNull[r] => Cause(r)
      /\ Getter(r) /\ answer[r] # "none" /\ result[r] = "none" /\ ~crashed =>
           isNull[r] \/ value[r] = "set" \/ TooLate(r)
  BY DEF Inv, LdbInv, FrameInv
<1>6. /\ result[r] = "NULL" => Cause(r)
      /\ r \notin misused /\ Getter(r) /\ result[r] = "OK" => value[r] = "set" \/ TooLate(r)
  BY DEF Inv, LdbInv, NullHasCause, OkValueWritten, Cause
<1>7. cpc[r] = "returned" => cpc'[r] = "returned" /\ ret'[r] = ret[r] BY DEF Keeps
<1>8. r \notin misused' => r \notin misused BY DEF Keeps
<1> QED BY <1>1, <1>2, <1>3, <1>4, <1>5, <1>6, <1>7, <1>8

\* A step that tells nobody and leaves the frames alone.
LEMMA QuietStep ==
  ASSUME Base, Inv, RetInv', \A q \in Request : Keeps(q),
         UNCHANGED <<told, answer>>, UNCHANGED frameVars
  PROVE  Inv'
<1> USE DEF frameVars
<1>1. LdbTypeOK' BY DEF Inv, LdbTypeOK
<1>2. ResultInv' BY FrameKeeps DEF ResultInv
<1>3. FrameInv' BY FrameKeeps DEF FrameInv
<1>4. NullHasCause' BY FrameKeeps DEF NullHasCause, Cause
<1>5. OkValueWritten' BY FrameKeeps DEF OkValueWritten
<1>6. StrayWritesBounded' BY DEF Inv, LdbInv, StrayWritesBounded
<1> QED BY <1>1, <1>2, <1>3, <1>4, <1>5, <1>6 DEF Inv, LdbInv

LEMMA GetSyncStep ==
  ASSUME Base, Inv, NEW r \in Request, GetSync(r)
  PROVE  Inv'
<1> USE DEF GetSync
<1>0. LdbTypeOK /\ LdbInv /\ RetInv /\ IInv BY DEF Inv, LdbInv, Base
<1>1. cpc[r] = "idle" BY DEF PlainInternal, Begin
<1>2. answer[r] = "none" /\ told[r] = <<>> BY <1>1, Unsent DEF Fresh
<1>3. result[r] = "none" BY <1>0, <1>1 DEF LdbInv, ResultInv
<1>4. UNCHANGED <<told, answer>> /\ RetInv' /\ \A q \in Request : Keeps(q)
  BY <1>0, GetSyncCalls, BeginKeeps
<1>5. LdbTypeOK' BY <1>0 DEF LdbTypeOK, Target
<1>6. isNull'[r] = FALSE /\ \A q \in Request \ {r} : isNull'[q] = isNull[q] /\ value'[q] = value[q]
  BY <1>0 DEF LdbTypeOK
<1>7. ResultInv'
  BY <1>0, <1>4 DEF LdbInv, ResultInv, Keeps
<1>8. FrameInv'
  <2>1. ASSUME NEW q \in Request
        PROVE  /\ told'[q] = <<>> => got'[q] = "none" /\ q \notin {w[1] : w \in strayed'}
               /\ isNull'[q] => Cause(q)'
               /\ Getter(q)' /\ answer'[q] # "none" /\ result'[q] = "none" /\ ~crashed' =>
                    isNull'[q] \/ value'[q] = "set" \/ TooLate(q)'
    <3>1. CASE q = r
      BY <1>0, <1>2, <1>4, <1>6, <3>1 DEF LdbInv, FrameInv
    <3>2. CASE q # r BY <1>4, <1>6, <3>2, FrameKeeps
    <3> QED BY <3>1, <3>2
  <2> QED BY <2>1 DEF FrameInv
<1>9. NullHasCause' BY <1>0, <1>4 DEF LdbInv, NullHasCause
<1>10. OkValueWritten'
  <2>1. ASSUME NEW q \in Request, q \notin misused', Getter(q)', result'[q] = "OK"
        PROVE  value'[q] = "set" \/ TooLate(q)'
    <3>1. q # r BY <1>3, <2>1
    <3> QED BY <1>4, <1>6, <2>1, <3>1, FrameKeeps
  <2> QED BY <2>1 DEF OkValueWritten
<1>11. StrayWritesBounded' BY <1>0, <1>4 DEF LdbInv, StrayWritesBounded
<1> QED BY <1>4, <1>5, <1>7, <1>8, <1>9, <1>10, <1>11 DEF Inv, LdbInv

LEMMA ReturnGetStep ==
  ASSUME Base, Inv, ~crashed, NEW r \in Request, ReturnGet(r)
  PROVE  Inv'
<1> USE DEF ReturnGet
<1>0. LdbTypeOK /\ LdbInv /\ IInv BY DEF Inv, LdbInv, Base
<1>1. /\ Getter(r) /\ cpc[r] = "returned" /\ result[r] = "none"
      /\ UNCHANGED <<cpc, type, sync, timeout, ret, answer, told, misused, queue, cur>>
      /\ UNCHANGED <<isNull, value, crashed, got, strayed>>
  BY DEF vars, callerVars, taskVars, historyVars
<1>2. /\ result'[r] = IF ret[r] = "OK" /\ isNull[r] THEN "NULL" ELSE ret[r]
      /\ \A q \in Request \ {r} : result'[q] = result[q]
      /\ ret[r] \in Result
  BY <1>0 DEF LdbTypeOK, IInv, TypeOK, CallerTypeOK
<1>3. LdbTypeOK' BY <1>0, <1>2 DEF LdbTypeOK
<1>4. RetInv' BY <1>0, <1>1, QueueSame DEF LdbInv, RetInv
<1>5. ResultInv' BY <1>0, <1>1, <1>2 DEF LdbInv, ResultInv
<1>6. FrameInv'
  BY <1>0, <1>1, <1>2 DEF LdbInv, FrameInv, Cause, Getter, TooLate
<1>7. NullHasCause'
  BY <1>0, <1>1, <1>2 DEF LdbInv, FrameInv, Cause, NullHasCause, Result
<1>8. OkValueWritten'
  <2>1. ASSUME r \notin misused, result'[r] = "OK" PROVE value[r] = "set" \/ TooLate(r)
    <3>1. ret[r] = "OK" /\ ~isNull[r] BY <1>2, <2>1
    <3>2. answer[r] # "none"
      BY <1>0, <1>1, <2>1, <3>1 DEF IInv, ReplyInv, OkMeansAnswered, Getter
    <3> QED BY <1>0, <1>1, <3>1, <3>2 DEF LdbInv, FrameInv
  <2> QED BY <1>0, <1>1, <1>2, <2>1 DEF LdbInv, OkValueWritten, Getter, TooLate
<1>9. StrayWritesBounded'
  BY <1>0, <1>1, <1>2 DEF LdbInv, StrayWritesBounded
<1> QED BY <1>3, <1>4, <1>5, <1>6, <1>7, <1>8, <1>9 DEF Inv, LdbInv

LEMMA RecycleCallStep ==
  ASSUME Base, Inv, NEW r \in Request, RecycleCall(r)
  PROVE  Inv'
<1> USE DEF RecycleCall
<1>0. LdbTypeOK /\ LdbInv /\ RetInv /\ IInv BY DEF Inv, LdbInv, Base
<1>1. RetInv' /\ \A q \in Request \ {r} :
                    Keeps(q) /\ told'[q] = told[q] /\ answer'[q] = answer[q]
  BY <1>0, RecycleKeeps
<1>2. answer'[r] = "none"
  BY <1>0 DEF Recycle, IInv, TypeOK, HistoryTypeOK
<1>3. /\ isNull'[r] = FALSE /\ result'[r] = "none" /\ got'[r] = "none" /\ crashed' = crashed
      /\ \A q \in Request \ {r} : /\ isNull'[q] = isNull[q] /\ value'[q] = value[q]
                                 /\ result'[q] = result[q] /\ got'[q] = got[q]
      /\ strayed' = {w \in strayed : w[1] # r}
  BY <1>0 DEF LdbTypeOK
<1>4. LdbTypeOK'
  <2>1. isNull' \in [Request -> BOOLEAN] /\ value' \in [Request -> Target]
    BY <1>0 DEF LdbTypeOK, Target
  <2>2. /\ result' \in [Request -> Result \cup {"NULL"}]
        /\ got' \in [Request -> {"none", "null", "value"}]
    BY <1>0 DEF LdbTypeOK, Result
  <2>3. crashed' \in BOOLEAN /\ strayed' \subseteq Request \X Target
    BY <1>0 DEF LdbTypeOK
  <2> QED BY <2>1, <2>2, <2>3 DEF LdbTypeOK
<1> HIDE DEF RecycleCall
<1>5. ResultInv'
  BY <1>0, <1>1, <1>3 DEF LdbInv, ResultInv, Keeps
<1>6. FrameInv'
  <2>0. strayed' \subseteq strayed /\ r \notin {w[1] : w \in strayed'} BY <1>3
  <2>1. ASSUME NEW q \in Request, q = r
        PROVE  /\ told'[q] = <<>> => got'[q] = "none" /\ q \notin {w[1] : w \in strayed'}
               /\ isNull'[q] => Cause(q)'
               /\ Getter(q)' /\ answer'[q] # "none" /\ result'[q] = "none" /\ ~crashed' =>
                    isNull'[q] \/ value'[q] = "set" \/ TooLate(q)'
    BY <1>2, <1>3, <2>0, <2>1
  <2>2. ASSUME NEW q \in Request, q # r
        PROVE  /\ told'[q] = <<>> => got'[q] = "none" /\ q \notin {w[1] : w \in strayed'}
               /\ isNull'[q] => Cause(q)'
               /\ Getter(q)' /\ answer'[q] # "none" /\ result'[q] = "none" /\ ~crashed' =>
                    isNull'[q] \/ value'[q] = "set" \/ TooLate(q)'
    <3>1. /\ told'[q] = <<>> => got'[q] = "none" /\ q \notin {w[1] : w \in strayed}
          /\ isNull'[q] => Cause(q)'
          /\ Getter(q)' /\ answer'[q] # "none" /\ result'[q] = "none" /\ ~crashed' =>
               isNull'[q] \/ value'[q] = "set" \/ TooLate(q)'
      BY <1>1, <1>3, <2>2, FrameKeeps
    <3>2. q \notin {w[1] : w \in strayed} => q \notin {w[1] : w \in strayed'} BY <2>0
    <3> QED BY <3>1, <3>2
  <2> QED BY <2>1, <2>2 DEF FrameInv
<1>7. NullHasCause' BY <1>0, <1>1, <1>3 DEF LdbInv, NullHasCause
<1>8. OkValueWritten'
  <2>1. ASSUME NEW q \in Request, q \notin misused', Getter(q)', result'[q] = "OK"
        PROVE  value'[q] = "set" \/ TooLate(q)'
    <3>1. q # r BY <1>3, <2>1
    <3>2. q \notin misused' /\ Getter(q)' /\ result'[q] = "OK" => value'[q] = "set" \/ TooLate(q)'
      BY <1>1, <1>3, <3>1, FrameKeeps
    <3> QED BY <2>1, <3>2
  <2> QED BY <2>1 DEF OkValueWritten
<1>9. StrayWritesBounded'
  <2>1. \A w \in strayed' : w \in strayed /\ w[1] # r /\ w[1] \in Request
    BY <1>0, <1>3 DEF LdbTypeOK
  <2> QED BY <1>0, <1>1, <1>3, <2>1 DEF LdbInv, StrayWritesBounded
<1> QED BY <1>1, <1>4, <1>5, <1>6, <1>7, <1>8, <1>9 DEF Inv, LdbInv

-----------------------------------------------------------------------------
(* The steps of the coap task that write through on_payload. *)

\* What FrameInv, ResultInv and the properties say of one call.
Good(r) ==
  /\ told[r] = <<>> => got[r] = "none"
  /\ isNull[r] => Cause(r)
  /\ Getter(r) /\ answer[r] # "none" /\ result[r] = "none" /\ ~crashed =>
       isNull[r] \/ value[r] = "set" \/ TooLate(r)
  /\ result[r] = "NULL" => Cause(r)
  /\ r \notin misused /\ Getter(r) /\ result[r] = "OK" => value[r] = "set" \/ TooLate(r)

\* A step that touches the frame of one call, which has been told something.
LEMMA OneFrame ==
  ASSUME Base, Inv, NEW r \in Request, RetInv', LdbTypeOK', StrayWritesBounded',
         \A q \in Request : Keeps(q),
         \A q \in Request \ {r} : /\ told'[q] = told[q] /\ answer'[q] = answer[q]
                                  /\ isNull'[q] = isNull[q] /\ value'[q] = value[q]
                                  /\ got'[q] = got[q],
         result' = result, ~crashed' => ~crashed,
         told'[r] = <<>> => told[r] = <<>> /\ strayed' = strayed,
         \A w \in strayed' : w \in strayed \/ w[1] = r,
         Good(r)'
  PROVE  Inv'
<1>1. ASSUME NEW q \in Request, q # r
      PROVE  /\ told'[q] = <<>> => got'[q] = "none" /\ q \notin {w[1] : w \in strayed}
             /\ isNull'[q] => Cause(q)'
             /\ Getter(q)' /\ answer'[q] # "none" /\ result'[q] = "none" /\ ~crashed' =>
                  isNull'[q] \/ value'[q] = "set" \/ TooLate(q)'
             /\ result'[q] = "NULL" => Cause(q)'
             /\ q \notin misused' /\ Getter(q)' /\ result'[q] = "OK" =>
                  value'[q] = "set" \/ TooLate(q)'
  BY <1>1, FrameKeeps
<1>2. ASSUME NEW q \in Request
      PROVE  Good(q)' /\ (told'[q] = <<>> => q \notin {w[1] : w \in strayed'})
  <2>1. CASE q = r
    <3>1. told[r] = <<>> => r \notin {w[1] : w \in strayed} BY DEF Inv, LdbInv, FrameInv
    <3> QED BY <2>1, <3>1
  <2>2. CASE q # r
    <3>1. Good(q)' BY <1>1, <2>2 DEF Good
    <3>2. q \notin {w[1] : w \in strayed} => q \notin {w[1] : w \in strayed'} BY <2>2
    <3> QED BY <1>1, <2>2, <3>1, <3>2
  <2> QED BY <2>1, <2>2
<1>3. FrameInv' BY <1>2 DEF FrameInv, Good
<1>4. NullHasCause' BY <1>2 DEF NullHasCause, Good, Cause
<1>5. OkValueWritten' BY <1>2 DEF OkValueWritten, Good
<1>6. ResultInv' BY DEF Inv, LdbInv, ResultInv, Keeps
<1> QED BY <1>3, <1>4, <1>5, <1>6 DEF Inv, LdbInv

LEMMA ToldLast ==
  ASSUME NEW s \in Seq(Status), NEW x \in Status
  PROVE  /\ Append(s, x) # <<>>
         /\ Len(Append(s, x)) \in 1..Len(Append(s, x))
         /\ Append(s, x)[Len(Append(s, x))] = x
         /\ \A i \in 1..Len(s) : i \in 1..Len(Append(s, x)) /\ Append(s, x)[i] = s[i]
<1>1. Len(Append(s, x)) = Len(s) + 1 /\ Len(s) \in Nat OBVIOUS
<1>2. Append(s, x)[Len(s) + 1] = x OBVIOUS
<1>3. \A i \in 1..Len(s) : Append(s, x)[i] = s[i] OBVIOUS
<1>4. Append(s, x) # <<>> BY <1>1
<1> QED BY <1>1, <1>2, <1>3, <1>4

\* Until the response to it arrives, a request that is waited for has no result but
\* a timeout, and its frame is as it was.
LEMMA Awaiting ==
  ASSUME Base, Inv, NEW r \in Request, Pending, cur = r, ~gotResponse
  PROVE  /\ told[r] = <<>> /\ answer[r] = "none" /\ got[r] = "none" /\ ~isNull[r]
         /\ r \notin misused /\ r \notin {w[1] : w \in strayed}
         /\ Getter(r) => result[r] \in {"none", "TIMEOUT"}
         /\ result[r] # "NULL"
<1> USE DEF Base, Inv, LdbInv
<1>1. told[r] = <<>> /\ answer[r] = "none" BY DEF OutcomeInv, ToldInv
<1>2. got[r] = "none" /\ r \notin {w[1] : w \in strayed} BY <1>1 DEF FrameInv
<1>3. ~Cause(r) BY <1>1, <1>2 DEF Cause
<1>4. ~isNull[r] /\ result[r] # "NULL" BY <1>3 DEF FrameInv, NullHasCause, Cause
<1>5. fate[r] = "sent" BY DEF IInv, PathInv, CurInv, Serving, Pending
<1>6. r \notin misused BY <1>5 DEF IInv, ObjectInv, MisuseOnlyAfterAgeOut
<1>7. ret[r] \in {"none", "OK", "TIMEOUT"} BY DEF RetInv
<1>8. sync[r] => ret[r] # "OK" BY <1>1, <1>6 DEF IInv, ReplyInv, OkMeansAnswered
<1>9. Getter(r) => result[r] \in {"none", "TIMEOUT"}
  BY <1>4, <1>7, <1>8 DEF ResultInv, Getter
<1> QED BY <1>1, <1>2, <1>4, <1>6, <1>9
LEMMA ReceiveCallStep ==
  ASSUME Base, Inv, ~crashed, NEW r \in Request, NEW class \in Class, ReceiveCall(r, class)
  PROVE  Inv'
<1>0. LdbTypeOK /\ LdbInv /\ RetInv /\ IInv /\ OutcomeInv BY DEF Inv, LdbInv, Base
<1>1. RetInv' /\ \A q \in Request : Keeps(q)
  <2>1. Task BY DEF ReceiveCall, Task
  <2> QED BY <1>0, <2>1, TaskKeeps
<1>2. UNCHANGED <<cpc, type, sync, timeout, ret, age, misused>>
  BY DEF ReceiveCall, Receive, TaskOnly, callerVars
<1>3. CASE ~(Pending /\ cur = r)
  <2>1. UNCHANGED <<told, answer>> BY <1>3 DEF ReceiveCall, Receive, TokenMatches
  <2>2. UNCHANGED frameVars BY <1>3 DEF ReceiveCall, TokenMatches
  <2> QED BY <1>1, <2>1, <2>2, QuietStep
<1>4. CASE Pending /\ cur = r
  <2>1. /\ told' = IF HasCallback(cur) /\ age[cur] # 0
                     THEN [told EXCEPT ![cur] = Append(@, StatusOf(class))] ELSE told
        /\ answer' = [answer EXCEPT ![r] = class]
        /\ ~gotResponse
    BY <1>4, NoneAssumption DEF ReceiveCall, Receive, TokenMatches, Pending
  <2>2. /\ told[r] = <<>> /\ answer[r] = "none" /\ got[r] = "none" /\ ~isNull[r]
        /\ r \notin misused /\ r \notin {w[1] : w \in strayed}
        /\ Getter(r) => result[r] \in {"none", "TIMEOUT"}
        /\ result[r] # "NULL"
    BY <1>4, <2>1, Awaiting
  <2>3. /\ answer'[r] # "none"
        /\ \A q \in Request \ {r} : told'[q] = told[q] /\ answer'[q] = answer[q]
    BY <1>0, <1>4, <2>1, InputAssumption DEF IInv, TypeOK, HistoryTypeOK
  <2>4. Getter(r) => HasCallback(r) BY DEF Getter, HasCallback
  <2>5. Getter(r)' = Getter(r) BY <1>2 DEF Getter
  <2>6. CASE Getter(r) /\ age[r] # 0
    <3>1. told'[r] = Append(<<>>, StatusOf(class))
      BY <1>0, <1>4, <2>1, <2>2, <2>4, <2>6 DEF IInv, TypeOK, HistoryTypeOK
    <3>2. /\ told'[r] # <<>> /\ told'[r][Len(told'[r])] = StatusOf(class)
          /\ Len(told'[r]) \in 1..Len(told'[r])
      BY <3>1, ToldLast, StatusOfIsStatus
    <3>3. PICK data \in Data : OnPayload(r, StatusOf(class), data)
      BY <1>4, <2>6 DEF ReceiveCall, TokenMatches
    <3>4. result' = result BY <1>4, <2>6 DEF ReceiveCall, TokenMatches
    <3>5. got' = [got EXCEPT ![r] = Kind(data)] /\ Kind(data) \in {"null", "value"}
      BY <3>3 DEF OnPayload, Kind, Data
    <3>6. got'[r] = Kind(data) /\ \A q \in Request \ {r} : got'[q] = got[q]
      BY <1>0, <3>5 DEF LdbTypeOK
    <3>7. result'[r] \in {"none", "TIMEOUT"} BY <2>2, <2>6, <3>4
    <3>8. CASE (StatusOf(class) # "OK" \/ data = "null") /\ WriteNull(r)
      <4>1. Cause(r)' BY <3>2, <3>6, <3>8 DEF Cause, Kind
      <4>2. /\ result[r] = "none" => isNull'[r] = TRUE /\ strayed' = strayed
            /\ result[r] # "none" => isNull' = isNull /\ strayed' = strayed \cup {<<r, "unset">>}
            /\ \A q \in Request \ {r} : isNull'[q] = isNull[q]
            /\ value' = value /\ crashed' = crashed
        BY <1>0, <3>8 DEF WriteNull, LdbTypeOK
      <4>3. isNull' \in [Request -> BOOLEAN] BY <1>0, <3>8 DEF WriteNull, LdbTypeOK
      <4>4. LdbTypeOK'
        <5>1. strayed' \subseteq Request \X Target BY <1>0, <4>2 DEF LdbTypeOK, Target
        <5> QED BY <1>0, <3>4, <3>5, <4>2, <4>3, <5>1 DEF LdbTypeOK
      <4>5. Good(r)' BY <2>5, <3>2, <3>4, <3>7, <4>1, <4>2 DEF Good
      <4>6. StrayWritesBounded'
        <5>1. StatusOf(class) # "OK" \/ got'[r] = "null" BY <3>6, <3>8 DEF Kind
        <5>2. ASSUME NEW w \in strayed', w \in strayed
              PROVE  w[1] # r /\ w[1] \in Request
          BY <1>0, <2>2, <5>2 DEF LdbTypeOK
        <5>3. ASSUME NEW w \in strayed', w \in strayed
              PROVE  IF w[2] = "set" THEN result'[w[1]] = "TIMEOUT"
                     ELSE told'[w[1]][Len(told'[w[1]])] # "OK" \/ got'[w[1]] = "null"
          BY <1>0, <2>3, <3>4, <3>6, <5>2, <5>3 DEF LdbInv, StrayWritesBounded
        <5>4. ASSUME NEW w \in strayed', w \notin strayed
              PROVE  IF w[2] = "set" THEN result'[w[1]] = "TIMEOUT"
                     ELSE told'[w[1]][Len(told'[w[1]])] # "OK" \/ got'[w[1]] = "null"
          <6>1. w = <<r, "unset">> BY <4>2, <5>4
          <6> QED BY <3>2, <5>1, <6>1
        <5> QED BY <5>3, <5>4 DEF StrayWritesBounded
      <4>7. \A w \in strayed' : w \in strayed \/ w[1] = r BY <4>2
      <4> QED BY <1>1, <2>3, <3>2, <3>4, <3>6, <4>2, <4>4, <4>5, <4>6, <4>7, OneFrame
    <3>9. CASE StatusOf(class) = "OK" /\ data # "null" /\ WriteValue(r)
      <4>1. /\ result[r] = "none" => value'[r] = "set" /\ strayed' = strayed
            /\ result[r] # "none" => value' = value /\ strayed' = strayed \cup {<<r, "set">>}
            /\ \A q \in Request \ {r} : value'[q] = value[q]
            /\ isNull' = isNull /\ crashed' = crashed
        BY <1>0, <3>9 DEF WriteValue, LdbTypeOK
      <4>2. value' \in [Request -> Target]
        BY <1>0, <3>9 DEF WriteValue, LdbTypeOK, Target
      <4>3. LdbTypeOK'
        <5>1. strayed' \subseteq Request \X Target BY <1>0, <4>1 DEF LdbTypeOK, Target
        <5> QED BY <1>0, <3>4, <3>5, <4>1, <4>2, <5>1 DEF LdbTypeOK
      <4>4. Good(r)' BY <2>2, <2>5, <3>2, <3>4, <3>7, <4>1 DEF Good
      <4>5. StrayWritesBounded'
        <5>1. ASSUME NEW w \in strayed', w \in strayed
              PROVE  w[1] # r /\ w[1] \in Request
          BY <1>0, <2>2, <5>1 DEF LdbTypeOK
        <5>2. ASSUME NEW w \in strayed', w \in strayed
              PROVE  IF w[2] = "set" THEN result'[w[1]] = "TIMEOUT"
                     ELSE told'[w[1]][Len(told'[w[1]])] # "OK" \/ got'[w[1]] = "null"
          BY <1>0, <2>3, <3>4, <3>6, <5>1, <5>2 DEF LdbInv, StrayWritesBounded
        <5>3. ASSUME NEW w \in strayed', w \notin strayed
              PROVE  w[1] = r /\ result'[r] = "TIMEOUT" /\ w[2] = "set"
          BY <3>4, <3>7, <4>1, <5>3
        <5> QED BY <5>2, <5>3 DEF StrayWritesBounded
      <4>6. \A w \in strayed' : w \in strayed \/ w[1] = r BY <4>1
      <4> QED BY <1>1, <2>3, <3>2, <3>4, <3>6, <4>1, <4>3, <4>4, <4>5, <4>6, OneFrame
    <3>10. CASE ConversionAsserts
      <4>1. crashed' = TRUE /\ isNull' = isNull /\ value' = value /\ strayed' = strayed
        BY <3>10 DEF ConversionAsserts
      <4>2. LdbTypeOK' BY <1>0, <3>4, <3>5, <4>1 DEF LdbTypeOK
      <4>3. Good(r)' BY <2>2, <3>2, <3>7, <4>1 DEF Good
      <4>4. \A w \in strayed : w[1] # r /\ w[1] \in Request
        BY <1>0, <2>2 DEF LdbTypeOK
      <4>5. StrayWritesBounded'
        BY <1>0, <2>3, <3>4, <3>6, <4>1, <4>4 DEF LdbInv, StrayWritesBounded
      <4> QED BY <1>1, <2>3, <3>2, <3>4, <3>6, <4>1, <4>2, <4>3, <4>5, OneFrame
    <3> QED BY <3>3, <3>8, <3>9, <3>10 DEF OnPayload
  <2>7. CASE ~(Getter(r) /\ age[r] # 0)
    <3>1. UNCHANGED frameVars BY <1>4, <2>7 DEF ReceiveCall, TokenMatches
    <3>2. LdbTypeOK' BY <1>0, <3>1 DEF LdbTypeOK, frameVars
    <3>3. \A w \in strayed : w[1] # r /\ w[1] \in Request BY <1>0, <2>2 DEF LdbTypeOK
    <3>4. StrayWritesBounded'
      BY <1>0, <2>3, <3>1, <3>3 DEF LdbInv, StrayWritesBounded, frameVars
    <3>5. Getter(r) => timeout'[r] # Forever
      <4>1. age[r] = 0 => timeout[r] # Forever
        BY <1>0, ForeverAssumption DEF OutcomeInv, AgeInv
      <4> QED BY <1>2, <2>7, <4>1
    <3>6. Getter(r) => TooLate(r)' BY <2>2, <2>3, <3>1, <3>5 DEF TooLate, frameVars
    <3>7. Good(r)' BY <2>2, <2>5, <3>1, <3>6 DEF Good, frameVars
    <3> QED BY <1>1, <2>2, <2>3, <3>1, <3>2, <3>4, <3>7, OneFrame DEF frameVars
  <2> QED BY <2>6, <2>7
<1> QED BY <1>3, <1>4

LEMMA TimeoutCallStep ==
  ASSUME Base, Inv, ~crashed, TimeoutCall
  PROVE  Inv'
<1>0. LdbTypeOK /\ LdbInv /\ RetInv /\ IInv BY DEF Inv, LdbInv, Base
<1>1. RetInv' /\ \A q \in Request : Keeps(q)
  <2>1. Task BY DEF TimeoutCall, Task
  <2> QED BY <1>0, <2>1, TaskKeeps
<1>2. UNCHANGED <<cpc, type, sync, timeout, ret, misused, answer>>
  BY DEF TimeoutCall, FinishTimeout, Finish, TaskOnly, callerVars
<1>3. cur \in Request
  BY <1>0 DEF TimeoutCall, FinishTimeout, Finish, IInv, PathInv, CurInv, Serving
<1> DEFINE r == cur
<1>4. told' = IF HasCallback(r) THEN [told EXCEPT ![r] = Append(@, "TIMEOUT")] ELSE told
  BY DEF TimeoutCall, FinishTimeout
<1>5. told \in [Request -> Seq(Status)] BY <1>0 DEF IInv, TypeOK, HistoryTypeOK
<1>6. PICK c \in Request : c = cur BY <1>3
<1> HIDE DEF r
<1>7. /\ \A q \in Request \ {c} : told'[q] = told[q]
      /\ HasCallback(c) => told'[c] = Append(told[c], "TIMEOUT")
      /\ ~HasCallback(c) => told' = told
  BY <1>4, <1>5, <1>6 DEF r
<1>8. HasCallback(c) => /\ told'[c] # <<>> /\ told'[c][Len(told'[c])] = "TIMEOUT"
                        /\ Len(told'[c]) \in 1..Len(told'[c])
                        /\ \A i \in 1..Len(told[c]) :
                             i \in 1..Len(told'[c]) /\ told'[c][i] = told[c][i]
  BY <1>5, <1>6, <1>7, ToldLast DEF Status
<1>9. Getter(c) => HasCallback(c) BY DEF Getter, HasCallback
<1>10. Getter(c)' = Getter(c) BY <1>2 DEF Getter
<1>11. Good(c) /\ (told[c] = <<>> => got[c] = "none" /\ c \notin {w[1] : w \in strayed})
  BY <1>0, <1>6 DEF LdbInv, FrameInv, NullHasCause, OkValueWritten, Good, Cause
<1>12. CASE Getter(c)
  <2>1. OnPayload(c, "TIMEOUT", got[c]) /\ result' = result
    BY <1>6, <1>12 DEF TimeoutCall
  <2>2. got[c] \in {"none", "null", "value"} BY <1>0, <1>6 DEF LdbTypeOK
  <2>3. got' = [got EXCEPT ![c] = got[c]] BY <2>1, <2>2 DEF OnPayload, Kind
  <2>4. got' = got BY <1>0, <2>3 DEF LdbTypeOK
  <2>5. WriteNull(c) BY <2>1 DEF OnPayload
  <2>6. /\ result[c] = "none" => isNull'[c] = TRUE /\ strayed' = strayed
        /\ result[c] # "none" => isNull' = isNull /\ strayed' = strayed \cup {<<c, "unset">>}
        /\ \A q \in Request \ {c} : isNull'[q] = isNull[q]
        /\ value' = value /\ crashed' = crashed
    BY <1>0, <1>6, <2>5 DEF WriteNull, LdbTypeOK
  <2>7. LdbTypeOK'
    <3>1. isNull' \in [Request -> BOOLEAN] BY <1>0, <2>5 DEF WriteNull, LdbTypeOK
    <3>2. strayed' \subseteq Request \X Target BY <1>0, <1>6, <2>6 DEF LdbTypeOK, Target
    <3> QED BY <1>0, <2>1, <2>4, <2>6, <3>1, <3>2 DEF LdbTypeOK
  <2>8. told'[c] # <<>> /\ told'[c][Len(told'[c])] = "TIMEOUT" BY <1>8, <1>9, <1>12
  <2>9. Good(c)'
    <3>1. Cause(c)' BY <1>8, <1>9, <1>12 DEF Cause
    <3>2. TooLate(c)' = TooLate(c) BY <1>2, <2>4 DEF TooLate
    <3> QED BY <1>2, <1>10, <1>11, <2>1, <2>6, <2>8, <3>1, <3>2 DEF Good
  <2>10. StrayWritesBounded'
    <3>1. ASSUME NEW w \in strayed'
          PROVE  IF w[2] = "set" THEN result'[w[1]] = "TIMEOUT"
                 ELSE told'[w[1]][Len(told'[w[1]])] # "OK" \/ got'[w[1]] = "null"
      <4>1. CASE w \in strayed /\ w[1] # c
        <5>1. w[1] \in Request BY <1>0, <4>1 DEF LdbTypeOK
        <5> QED BY <1>0, <1>7, <2>1, <2>4, <4>1, <5>1 DEF LdbInv, StrayWritesBounded
      <4>2. CASE w \in strayed /\ w[1] = c
        BY <1>0, <2>1, <2>8, <4>2 DEF LdbInv, StrayWritesBounded
      <4>3. CASE w \notin strayed
        <5>1. w = <<c, "unset">> BY <2>6, <3>1, <4>3
        <5> QED BY <2>8, <5>1
      <4> QED BY <4>1, <4>2, <4>3
    <3> QED BY <3>1 DEF StrayWritesBounded
  <2>11. \A w \in strayed' : w \in strayed \/ w[1] = c BY <2>6
  <2> QED BY <1>1, <1>2, <1>6, <1>7, <2>1, <2>4, <2>6, <2>7, <2>8, <2>9, <2>10, <2>11, OneFrame
<1>13. CASE ~Getter(c)
  <2>1. UNCHANGED frameVars BY <1>6, <1>13 DEF TimeoutCall
  <2>2. LdbTypeOK' BY <1>0, <2>1 DEF LdbTypeOK, frameVars
  <2>3. Cause(c) => Cause(c)' BY <1>7, <1>8, <2>1 DEF Cause, frameVars
  <2>4. told'[c] = <<>> => told[c] = <<>> BY <1>7, <1>8
  <2>5. Good(c)' BY <1>10, <1>11, <1>13, <2>1, <2>3, <2>4 DEF Good, frameVars
  <2>6. StrayWritesBounded'
    <3>1. ASSUME NEW w \in strayed
          PROVE  IF w[2] = "set" THEN result[w[1]] = "TIMEOUT"
                 ELSE told'[w[1]][Len(told'[w[1]])] # "OK" \/ got[w[1]] = "null"
      <4>1. w[1] \in Request BY <1>0, <3>1 DEF LdbTypeOK
      <4>2. CASE w[1] # c BY <1>0, <1>7, <3>1, <4>1, <4>2 DEF LdbInv, StrayWritesBounded
      <4>3. CASE w[1] = c /\ HasCallback(c)
        BY <1>0, <1>8, <3>1, <4>3 DEF LdbInv, StrayWritesBounded
      <4>4. CASE ~HasCallback(c) BY <1>0, <1>7, <3>1, <4>4 DEF LdbInv, StrayWritesBounded
      <4> QED BY <4>2, <4>3, <4>4
    <3> QED BY <2>1, <3>1 DEF StrayWritesBounded, frameVars
  <2>7. UNCHANGED <<isNull, value, result, crashed, got, strayed>> BY <2>1 DEF frameVars
  <2> QED BY <1>1, <1>2, <1>6, <1>7, <2>2, <2>4, <2>5, <2>6, <2>7, OneFrame
<1> QED BY <1>12, <1>13

-----------------------------------------------------------------------------
(* The invariant. *)

LEMMA LdbInitInv == LdbInit => Inv
<1> SUFFICES ASSUME LdbInit PROVE Inv
  OBVIOUS
<1> USE DEF LdbInit, Init
<1>1. LdbTypeOK BY DEF LdbTypeOK, Result, Target
<1>2. RetInv /\ ResultInv /\ NullHasCause /\ OkValueWritten /\ StrayWritesBounded
  BY DEF RetInv, ResultInv, NullHasCause, OkValueWritten, StrayWritesBounded, Getter
<1>3. FrameInv BY DEF FrameInv, Getter
<1> QED BY <1>1, <1>2, <1>3 DEF Inv, LdbInv

LEMMA LdbNextInv ==
  ASSUME Base, Inv, LdbNext
  PROVE  Inv'
<1>0. IInv /\ RetInv BY DEF Base, Inv, LdbInv
<1>1. CASE Reset
  <2>1. UNCHANGED <<told, answer>> /\ UNCHANGED frameVars
    BY <1>1 DEF Reset, ldbVars, vars, historyVars
  <2>2. UNCHANGED <<cpc, type, sync, timeout, ret, misused, queue, cur>>
    BY <1>1 DEF Reset, ldbVars, vars, historyVars, callerVars, taskVars
  <2>3. \A q \in Request : Keeps(q) BY <2>2 DEF Keeps
  <2>4. RetInv' BY <1>0, <2>2, QueueSame DEF RetInv
  <2> QED BY <2>1, <2>3, <2>4, QuietStep
<1>2. ASSUME ~crashed, NEW r \in Request, LdbCaller(r) PROVE Inv'
  <2>1. CASE Wrapper(r)
    <3>1. \E op \in Type, s \in BOOLEAN, tmo \in Ticks, copy \in BOOLEAN :
            Begin(r, op, s, tmo, copy)
      BY <2>1, WrapperCalls DEF Wrapper
    <3>2. UNCHANGED <<told, answer>> /\ RetInv' /\ \A q \in Request : Keeps(q)
      BY <1>0, <3>1, BeginKeeps
    <3>3. UNCHANGED frameVars BY <2>1 DEF Wrapper
    <3> QED BY <3>2, <3>3, QuietStep
  <2>2. CASE GetSync(r) BY <2>2, GetSyncStep
  <2>3. CASE ReturnGet(r) BY <1>2, <2>3, ReturnGetStep
  <2>4. CASE RecycleCall(r) BY <2>4, RecycleCallStep
  <2>5. CASE Empty(r) /\ UNCHANGED frameVars
    <3>1. \E op \in Type, s \in BOOLEAN, tmo \in Ticks, copy \in BOOLEAN :
            Begin(r, op, s, tmo, copy)
      BY <2>5, ApiBegins
    <3>2. UNCHANGED <<told, answer>> /\ RetInv' /\ \A q \in Request : Keeps(q)
      BY <1>0, <3>1, BeginKeeps
    <3> QED BY <2>5, <3>2, QuietStep
  <2>6. CASE CallerStep(r) /\ UNCHANGED frameVars
    BY <1>0, <2>6, CallerKeeps, QuietStep
  <2> QED BY <1>2, <2>1, <2>2, <2>3, <2>4, <2>5, <2>6 DEF LdbCaller
<1>3. ASSUME ~crashed, LdbTask PROVE Inv'
  <2>1. CASE QuietTask
    <3>1. UNCHANGED <<told, answer>> BY <1>0, <2>1, QuietTaskTells DEF QuietTask
    <3>2. RetInv' /\ \A q \in Request : Keeps(q)
      BY <1>0, <2>1, TaskKeeps DEF QuietTask, Task
    <3>3. UNCHANGED frameVars BY <2>1 DEF QuietTask
    <3> QED BY <3>1, <3>2, <3>3, QuietStep
  <2>2. CASE TimeoutCall BY <1>3, <2>2, TimeoutCallStep
  <2>3. ASSUME NEW r \in Request, NEW class \in Class, ReceiveCall(r, class) PROVE Inv'
    BY <1>3, <2>3, ReceiveCallStep
  <2> QED BY <1>3, <2>1, <2>2, <2>3 DEF LdbTask
<1>4. CASE Environment /\ UNCHANGED frameVars
  BY <1>0, <1>4, EnvironmentKeeps, QuietStep
<1> QED BY <1>1, <1>2, <1>3, <1>4 DEF LdbNext, LdbStep

LEMMA LdbInductive == Base /\ Inv /\ [LdbNext]_ldbVars => Base' /\ Inv'
<1> SUFFICES ASSUME Base, Inv, [LdbNext]_ldbVars PROVE Base' /\ Inv'
  OBVIOUS
<1>1. CASE LdbNext
  <2>1. [Next]_vars BY <1>1, LdbStepIsNext
  <2>2. Base' BY <2>1, OutcomeStep DEF Base
  <2> QED BY <1>1, <2>2, LdbNextInv
<1>2. CASE UNCHANGED ldbVars
  <2>1. Base' BY <1>2, OutcomeStep DEF Base, ldbVars
  <2>2. UNCHANGED <<told, answer>> /\ UNCHANGED frameVars
    BY <1>2 DEF ldbVars, vars, historyVars
  <2>3. UNCHANGED <<cpc, type, sync, timeout, ret, misused, queue, cur>>
    BY <1>2 DEF ldbVars, vars, historyVars, callerVars, taskVars
  <2>4. \A q \in Request : Keeps(q) BY <2>3 DEF Keeps
  <2>5. RetInv' BY <2>3, QueueSame DEF RetInv, Inv, LdbInv, Base
  <2> QED BY <2>1, <2>2, <2>4, <2>5, QuietStep
<1> QED BY <1>1, <1>2

\* What the getters rely on holds in every reachable state of the wrappers.
THEOREM LdbInvariant == LdbSpec => [](Base /\ Inv)
<1>1. LdbInit => Base BY IInit, OutcomeInit DEF LdbInit, Base
<1> QED BY <1>1, LdbInitInv, LdbInductive, PTL DEF LdbSpec

\* The frames of the getters, and what was written through them, have their types.
THEOREM LdbTypes == LdbSpec => []LdbTypeOK
<1>1. Inv => LdbTypeOK BY DEF Inv
<1> QED BY <1>1, LdbInvariant, PTL

\* GOLIOTH_ERR_NULL is returned only for a null, a refusal or a late timeout.
THEOREM NullsHaveCause == LdbSpec => []NullHasCause
<1>1. Inv => NullHasCause BY DEF Inv, LdbInv
<1> QED BY <1>1, LdbInvariant, PTL

\* A getter that returns GOLIOTH_OK has a value, or its answer came too late.
THEOREM OkMeansWritten == LdbSpec => []OkValueWritten
<1>1. Inv => OkValueWritten BY DEF Inv, LdbInv
<1> QED BY <1>1, LdbInvariant, PTL

\* After its return a getter is written to only in the ways that a timeout explains.
THEOREM StrayWrites == LdbSpec => []StrayWritesBounded
<1>1. Inv => StrayWritesBounded BY DEF Inv, LdbInv
<1> QED BY <1>1, LdbInvariant, PTL
=============================================================================
