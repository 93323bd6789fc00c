------------------------- MODULE CoapRequestsProofs -------------------------
(***************************************************************************)
(* Proofs about CoapRequests, for any number of calls, any queue length,   *)
(* any timeouts and any number of observation slots: its types, and its    *)
(* safety, for which IInv of CoapRequests is the inductive invariant.      *)
(***************************************************************************)
EXTENDS CoapRequests, TLAPS

-----------------------------------------------------------------------------
(* The actions, flattened: each is taken by one step of the proofs below. *)

\* Every API call is an instance of Begin.
LEMMA ApiBegins ==
  ASSUME NEW r \in Request, Empty(r) \/ ApiCall(r)
  PROVE  \E op \in Type, s \in BOOLEAN, tmo \in Ticks, copy \in BOOLEAN :
           Begin(r, op, s, tmo, copy)
<1>1. ASSUME NEW s \in SyncChoice, NEW tmo \in Waits(s)
      PROVE  s \in BOOLEAN /\ tmo \in Ticks
  BY InputAssumption, TimeoutAssumption DEF Waits, Ticks
<1>2. CASE Empty(r)
  BY <1>2 DEF Empty, Type, Ticks
<1>3. CASE Set(r)
  <2>1. PICK s \in SyncChoice, size \in PayloadSize : \E tmo \in Waits(s) :
          Begin(r, "POST", s, tmo, size > 0)
    BY <1>3 DEF Set
  <2>2. PICK tmo \in Waits(s) : Begin(r, "POST", s, tmo, size > 0)
    BY <2>1
  <2>3. (size > 0) \in BOOLEAN
    OBVIOUS
  <2> QED BY <1>1, <2>2, <2>3 DEF Type
<1>4. CASE Delete(r)
  BY <1>1, <1>4 DEF Delete, Type
<1>5. CASE Get(r)
  BY <1>1, <1>5 DEF Get, Type
<1>6. CASE ObserveAsync(r)
  BY <1>6 DEF ObserveAsync, Type, Ticks
<1> QED BY <1>2, <1>3, <1>4, <1>5, <1>6 DEF ApiCall

-----------------------------------------------------------------------------
(* Type correctness. *)

\* A client that has just been allocated is well typed.
LEMMA TypeInit == Init => TypeOK
<1> SUFFICES ASSUME Init PROVE TypeOK
  OBVIOUS
<1> USE DEF Init
<1>1. CallerTypeOK
  BY DEF CallerTypeOK, CallPC, Type, Ticks, Bits, Result
<1>2. TimeTypeOK /\ ObjectTypeOK
  BY DEF TimeTypeOK, ObjectTypeOK, Ticks, Life, Bits
<1>3. TaskTypeOK
  BY DEF TaskTypeOK, TaskPC
<1>4. SessionTypeOK
  BY DEF SessionTypeOK, Event
<1>5. HistoryTypeOK
  BY DEF HistoryTypeOK, Fate
<1>6. isRunning \in BOOLEAN /\ inFlight \subseteq Request
  OBVIOUS
<1>7. queue \in Seq(Request)
  OBVIOUS
<1> QED BY <1>1, <1>2, <1>3, <1>4, <1>5, <1>6, <1>7 DEF TypeOK

\* A callback's history grows at one place at most.
LEMMA ToldGrows ==
  ASSUME told \in [Request -> Seq(Status)], NEW x, NEW status \in Status
  PROVE  [told EXCEPT ![x] = Append(@, status)] \in [Request -> Seq(Status)]
<1>1. ASSUME NEW r \in Request
      PROVE  Append(told[r], status) \in Seq(Status)
  OBVIOUS
<1> QED BY <1>1

\* add_observation keeps the slots' type whichever slot it takes.
LEMMA SlotsType ==
  ASSUME slots \in [Slot -> Request \cup {None}], NEW r \in Request
  PROVE  AddObservation(r) \in [Slot -> Request \cup {None}]
<1>1. ASSUME NEW i
      PROVE  [slots EXCEPT ![i] = r] \in [Slot -> Request \cup {None}]
  OBVIOUS
<1> QED BY <1>1 DEF AddObservation

\* The status of a response is one of those a callback may see.
LEMMA StatusOfIsStatus == \A class \in Class : StatusOf(class) \in Status
BY DEF StatusOf, Status

\* What xQueueReceive returns is a request.
LEMMA HeadIsRequest ==
  ASSUME queue \in Seq(Request), queue # <<>>
  PROVE  Head(queue) \in Request
OBVIOUS

\* The wait for a response has a length, when the request has not aged out.
LEMMA TimeLeftIsNat ==
  ASSUME TimeTypeOK, NEW r \in Request, age[r] # 0
  PROVE  TimeLeft(r) \in Nat
BY TimeoutAssumption, ForeverAssumption DEF TimeTypeOK, Ticks, TimeLeft, Min2

\* No step breaks a type.
LEMMA TypeStep == TypeOK /\ [Next]_vars => TypeOK'
<1> SUFFICES ASSUME TypeOK, [Next]_vars PROVE TypeOK'
  OBVIOUS
<1> USE DEF TypeOK, callerVars, objectVars, taskVars, sessionVars, historyVars
<1>1. ASSUME NEW r \in Request, NEW op \in Type, NEW s \in BOOLEAN,
             NEW tmo \in Ticks, NEW copy \in BOOLEAN, Begin(r, op, s, tmo, copy)
      PROVE  TypeOK'
  <2> USE <1>1 DEF Begin, CallerOnly
  <2>1. CallerTypeOK'
    BY DEF CallerTypeOK, Return, CallPC, Result
  <2>2. TimeTypeOK'
    BY ForeverAssumption DEF TimeTypeOK, Ticks
  <2>3. ObjectTypeOK'
    BY DEF ObjectTypeOK, objectVars, Life
  <2>4. TaskTypeOK' /\ SessionTypeOK' /\ HistoryTypeOK'
    BY DEF TaskTypeOK, SessionTypeOK, HistoryTypeOK
  <2>5. isRunning' \in BOOLEAN /\ queue' \in Seq(Request)
        /\ inFlight' \subseteq Request
    OBVIOUS
  <2> QED BY <2>1, <2>2, <2>3, <2>4, <2>5
<1>2. ASSUME NEW r \in Request, Enqueue(r)
      PROVE  TypeOK'
  <2> USE <1>2 DEF Enqueue
  <2>1. CallerTypeOK'
    BY DEF CallerTypeOK, Return, CallPC, Result
  <2>2. TimeTypeOK' /\ ObjectTypeOK' /\ TaskTypeOK' /\ SessionTypeOK'
        /\ HistoryTypeOK'
    BY DEF TimeTypeOK, ObjectTypeOK, TaskTypeOK, SessionTypeOK, HistoryTypeOK
  <2>3. isRunning' \in BOOLEAN /\ queue' \in Seq(Request)
        /\ inFlight' \subseteq Request
    OBVIOUS
  <2> QED BY <2>1, <2>2, <2>3
<1>3. ASSUME NEW r \in Request, EnqueueFails(r)
      PROVE  TypeOK'
  <2> USE <1>3 DEF EnqueueFails, CallerOnly
  <2>1. CallerTypeOK'
    BY DEF CallerTypeOK, Return, CallPC, Result
  <2>2. TimeTypeOK'
    BY DEF TimeTypeOK, Ticks
  <2>3. ObjectTypeOK'
    BY DEF ObjectTypeOK, Free, Life
  <2>4. TaskTypeOK' /\ SessionTypeOK' /\ HistoryTypeOK'
    BY DEF TaskTypeOK, SessionTypeOK, HistoryTypeOK
  <2>5. isRunning' \in BOOLEAN /\ queue' \in Seq(Request)
        /\ inFlight' \subseteq Request
    OBVIOUS
  <2> QED BY <2>1, <2>2, <2>3, <2>4, <2>5
<1>4. ASSUME NEW r \in Request, StartWait(r)
      PROVE  TypeOK'
  <2> USE <1>4 DEF StartWait, CallerOnly
  <2>1. CallerTypeOK'
    BY DEF CallerTypeOK, CallPC
  <2>2. TimeTypeOK'
    BY DEF TimeTypeOK, CallerTypeOK
  <2>3. ObjectTypeOK' /\ TaskTypeOK' /\ SessionTypeOK' /\ HistoryTypeOK'
    BY DEF ObjectTypeOK, TaskTypeOK, SessionTypeOK, HistoryTypeOK
  <2>4. isRunning' \in BOOLEAN /\ queue' \in Seq(Request)
        /\ inFlight' \subseteq Request
    OBVIOUS
  <2> QED BY <2>1, <2>2, <2>3, <2>4
<1>5. ASSUME NEW r \in Request, StartWaitDeleted(r)
      PROVE  TypeOK'
  <2> USE <1>5 DEF StartWaitDeleted, CallerOnly
  <2>1. CallerTypeOK'
    BY DEF CallerTypeOK, CallPC
  <2>2. HistoryTypeOK'
    BY DEF HistoryTypeOK
  <2>3. TimeTypeOK' /\ ObjectTypeOK' /\ TaskTypeOK' /\ SessionTypeOK'
    BY DEF TimeTypeOK, ObjectTypeOK, TaskTypeOK, SessionTypeOK
  <2>4. isRunning' \in BOOLEAN /\ queue' \in Seq(Request)
        /\ inFlight' \subseteq Request
    OBVIOUS
  <2> QED BY <2>1, <2>2, <2>3, <2>4
<1>6. ASSUME NEW r \in Request, Wake(r)
      PROVE  TypeOK'
  <2> USE <1>6 DEF Wake, CallerOnly
  <2>1. CallerTypeOK'
    BY DEF CallerTypeOK, CallPC, ObjectTypeOK, Bits
  <2>2. TimeTypeOK'
    BY DEF TimeTypeOK, Ticks
  <2>3. ObjectTypeOK'
    BY DEF ObjectTypeOK, Bits
  <2>4. TaskTypeOK' /\ SessionTypeOK' /\ HistoryTypeOK'
    BY DEF TaskTypeOK, SessionTypeOK, HistoryTypeOK
  <2>5. isRunning' \in BOOLEAN /\ queue' \in Seq(Request)
        /\ inFlight' \subseteq Request
    OBVIOUS
  <2> QED BY <2>1, <2>2, <2>3, <2>4, <2>5
<1>7. ASSUME NEW r \in Request, GiveAck(r)
      PROVE  TypeOK'
  <2> USE <1>7 DEF GiveAck, CallerOnly
  <2>1. CallerTypeOK'
    BY DEF CallerTypeOK, Return, CallPC, Result
  <2>2. ObjectTypeOK'
    BY DEF ObjectTypeOK
  <2>3. HistoryTypeOK'
    BY DEF HistoryTypeOK
  <2>4. TimeTypeOK' /\ TaskTypeOK' /\ SessionTypeOK'
    BY DEF TimeTypeOK, TaskTypeOK, SessionTypeOK
  <2>5. isRunning' \in BOOLEAN /\ queue' \in Seq(Request)
        /\ inFlight' \subseteq Request
    OBVIOUS
  <2> QED BY <2>1, <2>2, <2>3, <2>4, <2>5
<1>8. ASSUME NEW r \in Request, Recycle(r)
      PROVE  TypeOK'
  <2> USE <1>8 DEF Recycle
  <2>1. CallerTypeOK'
    BY DEF CallerTypeOK, CallPC, Type, Ticks, Bits, Result
  <2>2. ObjectTypeOK'
    BY DEF ObjectTypeOK, Life, Bits
  <2>3. HistoryTypeOK'
    BY DEF HistoryTypeOK, Fate
  <2>4. TimeTypeOK' /\ TaskTypeOK' /\ SessionTypeOK'
    BY DEF TimeTypeOK, TaskTypeOK, SessionTypeOK
  <2>5. isRunning' \in BOOLEAN /\ queue' \in Seq(Request)
        /\ inFlight' \subseteq Request
    OBVIOUS
  <2> QED BY <2>1, <2>2, <2>3, <2>4, <2>5
<1>9. ASSUME AgeOut
      PROVE  TypeOK'
  <2> USE <1>9 DEF AgeOut, TaskOnly
  <2>1. TimeTypeOK'
    BY DEF TimeTypeOK, Ticks
  <2>2. ObjectTypeOK'
    BY DEF ObjectTypeOK, Free, Life
  <2>3. HistoryTypeOK'
    BY DEF HistoryTypeOK, Fate
  <2>4. CallerTypeOK' /\ TaskTypeOK' /\ SessionTypeOK'
    BY DEF CallerTypeOK, TaskTypeOK, SessionTypeOK
  <2>5. isRunning' \in BOOLEAN /\ queue' \in Seq(Request)
        /\ inFlight' \subseteq Request
    OBVIOUS
  <2> QED BY <2>1, <2>2, <2>3, <2>4, <2>5
<1>10. ASSUME Send
       PROVE  TypeOK'
  <2> USE <1>10 DEF Send, Transmit, TaskOnly
  <2>1. ObjectTypeOK'
    BY DEF ObjectTypeOK, Free, Life
  <2>2. TaskTypeOK'
    BY HeadIsRequest, TimeLeftIsNat DEF TaskTypeOK, TaskPC
  <2>3. SessionTypeOK'
    BY SlotsType, HeadIsRequest DEF SessionTypeOK
  <2>4. HistoryTypeOK'
    BY DEF HistoryTypeOK, Fate
  <2>5. CallerTypeOK' /\ TimeTypeOK'
    BY DEF CallerTypeOK, TimeTypeOK
  <2>6. isRunning' \in BOOLEAN /\ queue' \in Seq(Request)
        /\ inFlight' \subseteq Request
    OBVIOUS
  <2> QED BY <2>1, <2>2, <2>3, <2>4, <2>5, <2>6
<1>11. ASSUME AssertFails
       PROVE  TypeOK'
  <2> USE <1>11 DEF AssertFails, TaskOnly
  <2>1. TaskTypeOK'
    BY DEF TaskTypeOK, TaskPC
  <2>2. CallerTypeOK' /\ TimeTypeOK' /\ ObjectTypeOK' /\ SessionTypeOK'
        /\ HistoryTypeOK'
    BY DEF CallerTypeOK, TimeTypeOK, ObjectTypeOK, SessionTypeOK, HistoryTypeOK
  <2>3. isRunning' \in BOOLEAN /\ queue' \in Seq(Request)
        /\ inFlight' \subseteq Request
    OBVIOUS
  <2> QED BY <2>1, <2>2, <2>3
<1>12. ASSUME NEW r \in Request, NEW class \in Class, Receive(r, class)
       PROVE  TypeOK'
  <2> USE <1>12 DEF Receive, TaskOnly
  <2>1. TaskTypeOK'
    BY DEF TaskTypeOK
  <2>2. HistoryTypeOK'
    <3>1. [told EXCEPT ![cur] = Append(@,
          StatusOf(class))] \in [Request -> Seq(Status)]
      BY ToldGrows, StatusOfIsStatus DEF HistoryTypeOK
    <3>2. told' \in [Request -> Seq(Status)]
      BY <3>1 DEF HistoryTypeOK
    <3>3. answer' \in [Request -> Class \cup {"none"}]
      BY DEF HistoryTypeOK
    <3> QED BY <3>2, <3>3 DEF HistoryTypeOK
  <2>3. CallerTypeOK' /\ TimeTypeOK' /\ ObjectTypeOK' /\ SessionTypeOK'
    BY DEF CallerTypeOK, TimeTypeOK, ObjectTypeOK, SessionTypeOK
  <2>4. isRunning' \in BOOLEAN /\ queue' \in Seq(Request)
        /\ inFlight' \subseteq Request
    OBVIOUS
  <2> QED BY <2>1, <2>2, <2>3, <2>4
<1>13. ASSUME IoFails
       PROVE  TypeOK'
  <2> USE <1>13 DEF IoFails, TaskOnly
  <2>1. TaskTypeOK'
    BY DEF TaskTypeOK
  <2>2. CallerTypeOK' /\ TimeTypeOK' /\ ObjectTypeOK' /\ SessionTypeOK'
        /\ HistoryTypeOK'
    BY DEF CallerTypeOK, TimeTypeOK, ObjectTypeOK, SessionTypeOK, HistoryTypeOK
  <2>3. isRunning' \in BOOLEAN /\ queue' \in Seq(Request)
        /\ inFlight' \subseteq Request
    OBVIOUS
  <2> QED BY <2>1, <2>2, <2>3
<1>14. ASSUME IoDone
       PROVE  TypeOK'
  <2> USE <1>14 DEF IoDone, TaskOnly
  <2>1. TaskTypeOK'
    BY DEF TaskTypeOK, TaskPC
  <2>2. ObjectTypeOK'
    BY DEF ObjectTypeOK, Bits
  <2>3. CallerTypeOK' /\ TimeTypeOK' /\ SessionTypeOK' /\ HistoryTypeOK'
    BY DEF CallerTypeOK, TimeTypeOK, SessionTypeOK, HistoryTypeOK
  <2>4. isRunning' \in BOOLEAN /\ queue' \in Seq(Request)
        /\ inFlight' \subseteq Request
    OBVIOUS
  <2> QED BY <2>1, <2>2, <2>3, <2>4
<1>15. ASSUME TakeAck
       PROVE  TypeOK'
  <2> USE <1>15 DEF TakeAck, TaskOnly
  <2>1. TaskTypeOK'
    BY DEF TaskTypeOK, TaskPC
  <2>2. ObjectTypeOK'
    BY DEF ObjectTypeOK, Free, Life
  <2>3. CallerTypeOK' /\ TimeTypeOK' /\ SessionTypeOK' /\ HistoryTypeOK'
    BY DEF CallerTypeOK, TimeTypeOK, SessionTypeOK, HistoryTypeOK
  <2>4. isRunning' \in BOOLEAN /\ queue' \in Seq(Request)
        /\ inFlight' \subseteq Request
    OBVIOUS
  <2> QED BY <2>1, <2>2, <2>3, <2>4
<1>16. ASSUME FinishIoError
       PROVE  TypeOK'
  <2> USE <1>16 DEF FinishIoError, Finish, TaskOnly
  <2>1. TimeTypeOK'
    BY DEF TimeTypeOK, Ticks
  <2>2. TaskTypeOK'
    BY DEF TaskTypeOK, TaskPC
  <2>3. HistoryTypeOK'
    BY DEF HistoryTypeOK, Fate
  <2>4. CallerTypeOK' /\ ObjectTypeOK' /\ SessionTypeOK'
    BY DEF CallerTypeOK, ObjectTypeOK, SessionTypeOK
  <2>5. isRunning' \in BOOLEAN /\ queue' \in Seq(Request)
        /\ inFlight' \subseteq Request
    OBVIOUS
  <2> QED BY <2>1, <2>2, <2>3, <2>4, <2>5
<1>17. ASSUME FinishTimeout
       PROVE  TypeOK'
  <2> USE <1>17 DEF FinishTimeout, Finish, TaskOnly
  <2>1. TimeTypeOK'
    BY DEF TimeTypeOK, Ticks
  <2>2. TaskTypeOK'
    BY DEF TaskTypeOK, TaskPC
  <2>3. SessionTypeOK'
    BY DEF SessionTypeOK, Disconnect, Tell, Event
  <2>4. HistoryTypeOK'
    BY ToldGrows DEF HistoryTypeOK, Status
  <2>5. CallerTypeOK' /\ ObjectTypeOK'
    BY DEF CallerTypeOK, ObjectTypeOK
  <2>6. isRunning' \in BOOLEAN /\ queue' \in Seq(Request)
        /\ inFlight' \subseteq Request
    OBVIOUS
  <2> QED BY <2>1, <2>2, <2>3, <2>4, <2>5, <2>6
<1>18. ASSUME FinishOk
       PROVE  TypeOK'
  <2> USE <1>18 DEF FinishOk, Finish, TaskOnly
  <2>1. TimeTypeOK'
    BY DEF TimeTypeOK, Ticks
  <2>2. TaskTypeOK'
    BY DEF TaskTypeOK, TaskPC
  <2>3. SessionTypeOK'
    BY DEF SessionTypeOK, Tell, Event
  <2>4. CallerTypeOK' /\ ObjectTypeOK' /\ HistoryTypeOK'
    BY DEF CallerTypeOK, ObjectTypeOK, HistoryTypeOK
  <2>5. isRunning' \in BOOLEAN /\ queue' \in Seq(Request)
        /\ inFlight' \subseteq Request
    OBVIOUS
  <2> QED BY <2>1, <2>2, <2>3, <2>4, <2>5
<1>19. ASSUME StartSession
       PROVE  TypeOK'
  <2> USE <1>19 DEF StartSession, Reestablish, EnvironmentOnly
  <2>1. TaskTypeOK'
    BY DEF TaskTypeOK, TaskPC
  <2>2. CallerTypeOK' /\ TimeTypeOK' /\ ObjectTypeOK' /\ SessionTypeOK'
        /\ HistoryTypeOK'
    BY DEF CallerTypeOK, TimeTypeOK, ObjectTypeOK, SessionTypeOK, HistoryTypeOK
  <2>3. isRunning' \in BOOLEAN /\ queue' \in Seq(Request)
        /\ inFlight' \subseteq Request
    BY DEF Observed, SessionTypeOK
  <2> QED BY <2>1, <2>2, <2>3
<1>20. ASSUME EndSession
       PROVE  TypeOK'
  <2> USE <1>20 DEF EndSession, EnvironmentOnly
  <2>1. TaskTypeOK'
    BY DEF TaskTypeOK, TaskPC
  <2>2. SessionTypeOK'
    BY DEF SessionTypeOK, Disconnect, Tell, Event
  <2>3. CallerTypeOK' /\ TimeTypeOK' /\ ObjectTypeOK' /\ HistoryTypeOK'
    BY DEF CallerTypeOK, TimeTypeOK, ObjectTypeOK, HistoryTypeOK
  <2>4. isRunning' \in BOOLEAN /\ queue' \in Seq(Request)
        /\ inFlight' \subseteq Request
    OBVIOUS
  <2> QED BY <2>1, <2>2, <2>3, <2>4
<1>21. ASSUME SetRunning
       PROVE  TypeOK'
  <2> USE <1>21 DEF SetRunning, EnvironmentOnly
  <2>1. CallerTypeOK' /\ TimeTypeOK' /\ ObjectTypeOK' /\ TaskTypeOK'
        /\ SessionTypeOK' /\ HistoryTypeOK'
    BY DEF CallerTypeOK, TimeTypeOK, ObjectTypeOK, TaskTypeOK, SessionTypeOK,
      HistoryTypeOK
  <2>2. isRunning' \in BOOLEAN /\ queue' \in Seq(Request)
        /\ inFlight' \subseteq Request
    OBVIOUS
  <2> QED BY <2>1, <2>2
<1>22. ASSUME RegisterEventCallback
       PROVE  TypeOK'
  <2> USE <1>22 DEF RegisterEventCallback, EnvironmentOnly
  <2>1. SessionTypeOK'
    BY DEF SessionTypeOK
  <2>2. CallerTypeOK' /\ TimeTypeOK' /\ ObjectTypeOK' /\ TaskTypeOK'
        /\ HistoryTypeOK'
    BY DEF CallerTypeOK, TimeTypeOK, ObjectTypeOK, TaskTypeOK, HistoryTypeOK
  <2>3. isRunning' \in BOOLEAN /\ queue' \in Seq(Request)
        /\ inFlight' \subseteq Request
    OBVIOUS
  <2> QED BY <2>1, <2>2, <2>3
<1>23. ASSUME NEW r \in Request, Lose(r)
       PROVE  TypeOK'
  <2> USE <1>23 DEF Lose, EnvironmentOnly
  <2>1. CallerTypeOK' /\ TimeTypeOK' /\ ObjectTypeOK' /\ TaskTypeOK'
        /\ SessionTypeOK' /\ HistoryTypeOK'
    BY DEF CallerTypeOK, TimeTypeOK, ObjectTypeOK, TaskTypeOK, SessionTypeOK,
      HistoryTypeOK
  <2>2. isRunning' \in BOOLEAN /\ queue' \in Seq(Request)
        /\ inFlight' \subseteq Request
    OBVIOUS
  <2> QED BY <2>1, <2>2
<1>24. ASSUME NEW counted \in BOOLEAN, Tick(counted)
       PROVE  TypeOK'
  <2> USE <1>24 DEF Tick, EnvironmentOnly
  <2>1. TimeTypeOK'
    BY ForeverAssumption DEF TimeTypeOK, Ticks, Down
  <2>2. TaskTypeOK'
    BY DEF TaskTypeOK, Down
  <2>3. CallerTypeOK' /\ ObjectTypeOK' /\ SessionTypeOK' /\ HistoryTypeOK'
    BY DEF CallerTypeOK, ObjectTypeOK, SessionTypeOK, HistoryTypeOK
  <2>4. isRunning' \in BOOLEAN /\ queue' \in Seq(Request)
        /\ inFlight' \subseteq Request
    OBVIOUS
  <2> QED BY <2>1, <2>2, <2>3, <2>4
<1>25. CASE UNCHANGED vars
  BY <1>25 DEF vars,
    CallerTypeOK, TimeTypeOK, ObjectTypeOK, TaskTypeOK, SessionTypeOK, HistoryTypeOK
<1> QED
  BY ApiBegins, <1>1, <1>2, <1>3, <1>4, <1>5, <1>6, <1>7, <1>8, <1>9, <1>10, <1>11,
    <1>12, <1>13, <1>14, <1>15, <1>16, <1>17, <1>18, <1>19, <1>20, <1>21, <1>22,
    <1>23, <1>24, <1>25
  DEF Next, Caller, CallerStep, Task, Environment

\* Every variable keeps its type, whatever the values of the constants.
THEOREM TypeCorrect == Spec => []TypeOK
<1>1. Init => TypeOK
  BY TypeInit
<1>2. TypeOK /\ [Next]_vars => TypeOK'
  BY TypeStep
<1> QED BY <1>1, <1>2, PTL DEF Spec

-----------------------------------------------------------------------------
(* The set of the queued requests. *)

\* xQueueSend adds one request.
LEMMA QueuedOfAppend ==
  ASSUME queue \in Seq(Request), NEW r \in Request, queue' = Append(queue, r)
  PROVE  /\ Queued' = Queued \cup {r}
         /\ QueueDistinct /\ r \notin Queued => QueueDistinct'
<1>1. Len(queue') = Len(queue) + 1 /\ Len(queue) \in Nat
  OBVIOUS
<1>2. \A i \in 1..Len(queue) : queue'[i] = queue[i]
  OBVIOUS
<1>3. queue'[Len(queue) + 1] = r
  OBVIOUS
<1>4. Queued' = Queued \cup {r}
  BY <1>1, <1>2, <1>3 DEF Queued
<1>5. QueueDistinct /\ r \notin Queued => QueueDistinct'
  BY <1>1, <1>2, <1>3 DEF Queued, QueueDistinct
<1> QED BY <1>4, <1>5

\* Dequeueing removes the head, which was queued only once.
LEMMA QueuedOfTail ==
  ASSUME queue \in Seq(Request), queue # <<>>, QueueDistinct, queue' = Tail(queue)
  PROVE  /\ Head(queue) \in Queued
         /\ Queued' = Queued \ {Head(queue)}
         /\ QueueDistinct'
<1>1. Len(queue) \in Nat \ {0} /\ Len(queue') = Len(queue) - 1
  OBVIOUS
<1>2. \A i \in 1..Len(queue') : queue'[i] = queue[i + 1]
  OBVIOUS
<1>3. Head(queue) = queue[1]
  OBVIOUS
<1>4. Head(queue) \in Queued
  BY <1>1, <1>3 DEF Queued
<1>5. QueueDistinct'
  BY <1>1, <1>2 DEF QueueDistinct
<1>6. Queued' \subseteq Queued \ {Head(queue)}
  BY <1>1, <1>2, <1>3 DEF Queued, QueueDistinct
<1>7. ASSUME NEW q \in Queued, q # Head(queue)
      PROVE  q \in Queued'
  <2>1. PICK i \in 1..Len(queue) : q = queue[i]
    BY DEF Queued
  <2>2. i - 1 \in 1..Len(queue') /\ queue'[i - 1] = q
    BY <1>1, <1>2, <1>3, <1>7, <2>1
  <2> QED BY <2>2 DEF Queued
<1> QED BY <1>4, <1>5, <1>6, <1>7

\* What is queued is a request.
LEMMA QueuedAreRequests == queue \in Seq(Request) => Queued \subseteq Request
BY DEF Queued

\* A step that leaves the queue alone leaves the set of queued requests alone.
LEMMA QueueSame ==
  ASSUME queue' = queue
  PROVE  Queued' = Queued /\ QueueDistinct' = QueueDistinct
BY DEF Queued, QueueDistinct

-----------------------------------------------------------------------------
(* Each part of the invariant, action by action. *)

\* A request is queued once at most, untouched until then, and is on the stack
\* of the coap task only from its dequeueing to its completion.
LEMMA PathStep ==
  ASSUME IInv, TypeOK', [Next]_vars PROVE PathInv'
<1> USE NoneAssumption, InputAssumption
  DEF IInv, TypeOK, CallerTypeOK, ObjectTypeOK, TaskTypeOK, HistoryTypeOK,
  callerVars, objectVars, taskVars, sessionVars, historyVars,
  PathInv, QueuedInv, CurInv, Fresh, Serving, Pending,
  FreshInv
<1>1. ASSUME NEW r \in Request, NEW op \in Type, NEW s \in BOOLEAN,
             NEW tmo \in Ticks, NEW copy \in BOOLEAN, Begin(r, op, s, tmo, copy)
      PROVE  PathInv'
  <2> USE <1>1 DEF Begin, Return, CallerOnly
  <2>1. QueueDistinct' /\ Queued' = Queued
    BY QueueSame
  <2>2. QueuedInv'
    BY <2>1, QueuedAreRequests
  <2>3. CurInv'
    OBVIOUS
  <2>4. FreshInv'
    BY DEF FreshInv
  <2> QED BY <2>1, <2>2, <2>3, <2>4
<1>2. ASSUME NEW r \in Request, Enqueue(r)
      PROVE  PathInv'
  <2> USE <1>2 DEF Enqueue, Return
  <2>1. QueueDistinct' /\ Queued' = Queued \cup {r}
    BY QueuedOfAppend
  <2>2. ~Fresh(r)'
    OBVIOUS
  <2>3. QueuedInv'
    BY <2>1, <2>2, QueuedAreRequests DEF FreshInv
  <2>4. CurInv'
    OBVIOUS
  <2>5. FreshInv'
    BY DEF FreshInv
  <2> QED BY <2>1, <2>3, <2>4, <2>5
<1>3. ASSUME NEW r \in Request, EnqueueFails(r)
      PROVE  PathInv'
  BY <1>3, QueueSame DEF EnqueueFails, Return, CallerOnly, Free
<1>4. ASSUME NEW r \in Request, StartWait(r)
      PROVE  PathInv'
  BY <1>4, QueueSame DEF StartWait, CallerOnly
<1>5. ASSUME NEW r \in Request, StartWaitDeleted(r)
      PROVE  PathInv'
  BY <1>5, QueueSame DEF StartWaitDeleted, CallerOnly
<1>6. ASSUME NEW r \in Request, Wake(r)
      PROVE  PathInv'
  BY <1>6, QueueSame DEF Wake, CallerOnly
<1>7. ASSUME NEW r \in Request, GiveAck(r)
      PROVE  PathInv'
  BY <1>7, QueueSame DEF GiveAck, Return, CallerOnly
<1>8. ASSUME NEW r \in Request, Recycle(r)
      PROVE  PathInv'
  BY <1>8, QueueSame DEF Recycle
<1>9. ASSUME AgeOut
      PROVE  PathInv'
  BY <1>9, QueuedOfTail, HeadIsRequest DEF AgeOut, TaskOnly, Free
<1>10. ASSUME Send
       PROVE  PathInv'
  BY <1>10, QueuedOfTail, HeadIsRequest DEF Send, TaskOnly, Free
<1>11. ASSUME AssertFails
       PROVE  PathInv'
  BY <1>11, QueueSame DEF AssertFails, TaskOnly
<1>12. ASSUME NEW r \in Request, NEW class \in Class, Receive(r, class)
       PROVE  PathInv'
  BY <1>12, QueueSame DEF Receive, TokenMatches, TaskOnly
<1>13. ASSUME IoFails
       PROVE  PathInv'
  BY <1>13, QueueSame DEF IoFails, TaskOnly
<1>14. ASSUME IoDone
       PROVE  PathInv'
  BY <1>14, QueueSame DEF IoDone, TaskOnly
<1>15. ASSUME TakeAck
       PROVE  PathInv'
  BY <1>15, QueueSame DEF TakeAck, TaskOnly, Free
<1>16. ASSUME FinishIoError
       PROVE  PathInv'
  <2> USE <1>16 DEF FinishIoError, Finish, TaskOnly
  <2>1. QueueDistinct' /\ Queued' = Queued
    BY QueueSame
  <2>2. cur \in Request /\ cur \notin Queued /\ ~Fresh(cur)
    OBVIOUS
  <2>3. QueuedInv'
    BY <2>1, <2>2, QueuedAreRequests
  <2>4. CurInv'
    OBVIOUS
  <2>5. FreshInv'
    BY <2>2 DEF FreshInv
  <2> QED BY <2>1, <2>3, <2>4, <2>5
<1>17. ASSUME FinishTimeout
       PROVE  PathInv'
  <2> USE <1>17 DEF FinishTimeout, Finish, TaskOnly
  <2>1. QueueDistinct' /\ Queued' = Queued
    BY QueueSame
  <2>2. QueuedInv'
    BY <2>1, QueuedAreRequests
  <2>3. CurInv'
    OBVIOUS
  <2>4. FreshInv'
    BY DEF FreshInv
  <2> QED BY <2>1, <2>2, <2>3, <2>4
<1>18. ASSUME FinishOk
       PROVE  PathInv'
  <2> USE <1>18 DEF FinishOk, Finish, TaskOnly
  <2>1. QueueDistinct' /\ Queued' = Queued
    BY QueueSame
  <2>2. QueuedInv'
    BY <2>1, QueuedAreRequests
  <2>3. CurInv'
    OBVIOUS
  <2>4. FreshInv'
    BY DEF FreshInv
  <2> QED BY <2>1, <2>2, <2>3, <2>4
<1>19. ASSUME StartSession
       PROVE  PathInv'
  BY <1>19, QueueSame DEF StartSession, EnvironmentOnly
<1>20. ASSUME EndSession
       PROVE  PathInv'
  BY <1>20, QueueSame DEF EndSession, EnvironmentOnly
<1>21. ASSUME SetRunning
       PROVE  PathInv'
  BY <1>21, QueueSame DEF SetRunning, EnvironmentOnly
<1>22. ASSUME RegisterEventCallback
       PROVE  PathInv'
  BY <1>22, QueueSame DEF RegisterEventCallback, EnvironmentOnly
<1>23. ASSUME NEW r \in Request, Lose(r)
       PROVE  PathInv'
  BY <1>23, QueueSame DEF Lose, EnvironmentOnly
<1>24. ASSUME NEW counted \in BOOLEAN, Tick(counted)
       PROVE  PathInv'
  BY <1>24, QueueSame DEF Tick, EnvironmentOnly
<1>25. CASE UNCHANGED vars
  BY <1>25, QueueSame DEF vars
<1> HIDE DEF IInv, TypeOK, CallerTypeOK, ObjectTypeOK, TaskTypeOK, HistoryTypeOK,
  callerVars, objectVars, taskVars, sessionVars, historyVars,
  PathInv, QueuedInv, CurInv, Fresh, Serving, Pending,
  FreshInv
<1> QED
  BY ApiBegins, <1>1, <1>2, <1>3, <1>4, <1>5, <1>6, <1>7, <1>8, <1>9,
     <1>10, <1>11, <1>12, <1>13, <1>14, <1>15, <1>16, <1>17, <1>18,
     <1>19, <1>20, <1>21, <1>22, <1>23, <1>24, <1>25
  DEF Next, Caller, CallerStep, Task, Environment

\* The handles: only TakeAck, after GiveAck, and AgeOut delete those of a request
\* that was queued.
LEMMA ObjectStep ==
  ASSUME IInv, TypeOK', [Next]_vars PROVE ObjectInv'
<1> USE NoneAssumption, InputAssumption
  DEF IInv, TypeOK, CallerTypeOK, ObjectTypeOK, TaskTypeOK, HistoryTypeOK,
  callerVars, objectVars, taskVars, sessionVars, historyVars,
  PathInv, QueuedInv, CurInv, Fresh, Serving, Pending,
  FreshInv, ObjectInv, HandleInv, HandlesOwned, Held, InWait,
  MisuseOnlyAfterAgeOut
<1>1. ASSUME NEW r \in Request, NEW op \in Type, NEW s \in BOOLEAN,
             NEW tmo \in Ticks, NEW copy \in BOOLEAN, Begin(r, op, s, tmo, copy)
      PROVE  ObjectInv'
  BY <1>1, QueueSame DEF Begin, Return, CallerOnly
<1>2. ASSUME NEW r \in Request, Enqueue(r)
      PROVE  ObjectInv'
  BY <1>2, QueuedOfAppend DEF Enqueue, Return
<1>3. ASSUME NEW r \in Request, EnqueueFails(r)
      PROVE  ObjectInv'
  BY <1>3, QueueSame DEF EnqueueFails, Return, CallerOnly, Free
<1>4. ASSUME NEW r \in Request, StartWait(r)
      PROVE  ObjectInv'
  BY <1>4, QueueSame DEF StartWait, CallerOnly
<1>5. ASSUME NEW r \in Request, StartWaitDeleted(r)
      PROVE  ObjectInv'
  BY <1>5, QueueSame DEF StartWaitDeleted, CallerOnly
<1>6. ASSUME NEW r \in Request, Wake(r)
      PROVE  ObjectInv'
  BY <1>6, QueueSame DEF Wake, CallerOnly
<1>7. ASSUME NEW r \in Request, GiveAck(r)
      PROVE  ObjectInv'
  <2> USE <1>7 DEF GiveAck, Return, CallerOnly
  <2>1. HandleInv'
    <3>1. \A q \in Request \ {r} : cpc'[q] = cpc[q] /\ ack'[q] = ack[q]
      OBVIOUS
    <3>2. cpc'[r] = "returned" /\ handles' = handles /\ fate' = fate
      OBVIOUS
    <3>3. sync' = sync
      OBVIOUS
    <3> HIDE <1>7
    <3> QED BY <3>1, <3>2, <3>3
  <2>2. HandlesOwned'
    BY QueueSame
  <2>3. MisuseOnlyAfterAgeOut'
    <3>1. handles[r] \in {"live", "deleted"}
      BY DEF Life
    <3>2. handles[r] = "deleted" => fate[r] = "aged"
      OBVIOUS
    <3>3. fate' = fate
      OBVIOUS
    <3>4. misused' \subseteq misused \cup (IF handles[r] = "live" THEN {} ELSE {r})
      OBVIOUS
    <3> HIDE <1>7
    <3> QED BY <3>1, <3>2, <3>3, <3>4
  <2> QED BY <2>1, <2>2, <2>3
<1>8. ASSUME NEW r \in Request, Recycle(r)
      PROVE  ObjectInv'
  BY <1>8, QueueSame DEF Recycle
<1>9. ASSUME AgeOut
      PROVE  ObjectInv'
  BY <1>9, QueuedOfTail, HeadIsRequest DEF AgeOut, TaskOnly, Free
<1>10. ASSUME Send
       PROVE  ObjectInv'
  BY <1>10, QueuedOfTail, HeadIsRequest DEF Send, TaskOnly, Free
<1>11. ASSUME AssertFails
       PROVE  ObjectInv'
  BY <1>11, QueueSame DEF AssertFails, TaskOnly
<1>12. ASSUME NEW r \in Request, NEW class \in Class, Receive(r, class)
       PROVE  ObjectInv'
  BY <1>12, QueueSame DEF Receive, TokenMatches, TaskOnly
<1>13. ASSUME IoFails
       PROVE  ObjectInv'
  BY <1>13, QueueSame DEF IoFails, TaskOnly
<1>14. ASSUME IoDone
       PROVE  ObjectInv'
  BY <1>14, QueueSame DEF IoDone, TaskOnly
<1>15. ASSUME TakeAck
       PROVE  ObjectInv'
  BY <1>15, QueueSame DEF TakeAck, TaskOnly, Free
<1>16. ASSUME FinishIoError
       PROVE  ObjectInv'
  BY <1>16, QueueSame DEF FinishIoError, Finish, TaskOnly
<1>17. ASSUME FinishTimeout
       PROVE  ObjectInv'
  BY <1>17, QueueSame DEF FinishTimeout, Finish, TaskOnly
<1>18. ASSUME FinishOk
       PROVE  ObjectInv'
  BY <1>18, QueueSame DEF FinishOk, Finish, TaskOnly
<1>19. ASSUME StartSession
       PROVE  ObjectInv'
  BY <1>19, QueueSame DEF StartSession, EnvironmentOnly
<1>20. ASSUME EndSession
       PROVE  ObjectInv'
  BY <1>20, QueueSame DEF EndSession, EnvironmentOnly
<1>21. ASSUME SetRunning
       PROVE  ObjectInv'
  BY <1>21, QueueSame DEF SetRunning, EnvironmentOnly
<1>22. ASSUME RegisterEventCallback
       PROVE  ObjectInv'
  BY <1>22, QueueSame DEF RegisterEventCallback, EnvironmentOnly
<1>23. ASSUME NEW r \in Request, Lose(r)
       PROVE  ObjectInv'
  BY <1>23, QueueSame DEF Lose, EnvironmentOnly
<1>24. ASSUME NEW counted \in BOOLEAN, Tick(counted)
       PROVE  ObjectInv'
  BY <1>24, QueueSame DEF Tick, EnvironmentOnly
<1>25. CASE UNCHANGED vars
  BY <1>25, QueueSame DEF vars
<1> HIDE DEF IInv, TypeOK, CallerTypeOK, ObjectTypeOK, TaskTypeOK, HistoryTypeOK,
  callerVars, objectVars, taskVars, sessionVars, historyVars,
  PathInv, QueuedInv, CurInv, Fresh, Serving, Pending,
  FreshInv, ObjectInv, HandleInv, HandlesOwned, Held, InWait,
  MisuseOnlyAfterAgeOut
<1> QED
  BY ApiBegins, <1>1, <1>2, <1>3, <1>4, <1>5, <1>6, <1>7, <1>8, <1>9,
     <1>10, <1>11, <1>12, <1>13, <1>14, <1>15, <1>16, <1>17, <1>18,
     <1>19, <1>20, <1>21, <1>22, <1>23, <1>24, <1>25
  DEF Next, Caller, CallerStep, Task, Environment

\* The payload: its owner is the call, then the queue.
LEMMA ContentStep ==
  ASSUME IInv, TypeOK', [Next]_vars PROVE ContentInv'
<1> USE NoneAssumption, InputAssumption
  DEF IInv, TypeOK, CallerTypeOK, ObjectTypeOK, TaskTypeOK, HistoryTypeOK,
  callerVars, objectVars, taskVars, sessionVars, historyVars,
  PathInv, QueuedInv, CurInv, Fresh, Serving, Pending,
  ContentInv, PayloadInv, PayloadOwned
<1>1. ASSUME NEW r \in Request, NEW op \in Type, NEW s \in BOOLEAN,
             NEW tmo \in Ticks, NEW copy \in BOOLEAN, Begin(r, op, s, tmo, copy)
      PROVE  ContentInv'
  <2> USE <1>1 DEF Begin, Return, CallerOnly
  <2>1. r \notin Queued
    OBVIOUS
  <2>2. Queued' = Queued
    BY QueueSame
  <2>3. \A q \in Request \ {r} : payload'[q] = payload[q] /\ cpc'[q] = cpc[q]
    OBVIOUS
  <2>4. payload'[r] = "live" => cpc'[r] = "called"
    OBVIOUS
  <2>5. cpc'[r] # "idle" /\ (cpc'[r] = "called" => payload'[r] # "deleted")
    OBVIOUS
  <2> QED BY <2>1, <2>2, <2>3, <2>4, <2>5
<1>2. ASSUME NEW r \in Request, Enqueue(r)
      PROVE  ContentInv'
  BY <1>2, QueuedOfAppend DEF Enqueue, Return
<1>3. ASSUME NEW r \in Request, EnqueueFails(r)
      PROVE  ContentInv'
  BY <1>3, QueueSame DEF EnqueueFails, Return, CallerOnly, Free
<1>4. ASSUME NEW r \in Request, StartWait(r)
      PROVE  ContentInv'
  BY <1>4, QueueSame DEF StartWait, CallerOnly
<1>5. ASSUME NEW r \in Request, StartWaitDeleted(r)
      PROVE  ContentInv'
  BY <1>5, QueueSame DEF StartWaitDeleted, CallerOnly
<1>6. ASSUME NEW r \in Request, Wake(r)
      PROVE  ContentInv'
  BY <1>6, QueueSame DEF Wake, CallerOnly
<1>7. ASSUME NEW r \in Request, GiveAck(r)
      PROVE  ContentInv'
  BY <1>7, QueueSame DEF GiveAck, Return, CallerOnly
<1>8. ASSUME NEW r \in Request, Recycle(r)
      PROVE  ContentInv'
  BY <1>8, QueueSame DEF Recycle
<1>9. ASSUME AgeOut
      PROVE  ContentInv'
  BY <1>9, QueuedOfTail, HeadIsRequest DEF AgeOut, TaskOnly, Free
<1>10. ASSUME Send
       PROVE  ContentInv'
  BY <1>10, QueuedOfTail, HeadIsRequest DEF Send, TaskOnly, Free
<1>11. ASSUME AssertFails
       PROVE  ContentInv'
  BY <1>11, QueueSame DEF AssertFails, TaskOnly
<1>12. ASSUME NEW r \in Request, NEW class \in Class, Receive(r, class)
       PROVE  ContentInv'
  BY <1>12, QueueSame DEF Receive, TokenMatches, TaskOnly
<1>13. ASSUME IoFails
       PROVE  ContentInv'
  BY <1>13, QueueSame DEF IoFails, TaskOnly
<1>14. ASSUME IoDone
       PROVE  ContentInv'
  BY <1>14, QueueSame DEF IoDone, TaskOnly
<1>15. ASSUME TakeAck
       PROVE  ContentInv'
  BY <1>15, QueueSame DEF TakeAck, TaskOnly, Free
<1>16. ASSUME FinishIoError
       PROVE  ContentInv'
  BY <1>16, QueueSame DEF FinishIoError, Finish, TaskOnly
<1>17. ASSUME FinishTimeout
       PROVE  ContentInv'
  BY <1>17, QueueSame DEF FinishTimeout, Finish, TaskOnly
<1>18. ASSUME FinishOk
       PROVE  ContentInv'
  BY <1>18, QueueSame DEF FinishOk, Finish, TaskOnly
<1>19. ASSUME StartSession
       PROVE  ContentInv'
  BY <1>19, QueueSame DEF StartSession, EnvironmentOnly
<1>20. ASSUME EndSession
       PROVE  ContentInv'
  BY <1>20, QueueSame DEF EndSession, EnvironmentOnly
<1>21. ASSUME SetRunning
       PROVE  ContentInv'
  BY <1>21, QueueSame DEF SetRunning, EnvironmentOnly
<1>22. ASSUME RegisterEventCallback
       PROVE  ContentInv'
  BY <1>22, QueueSame DEF RegisterEventCallback, EnvironmentOnly
<1>23. ASSUME NEW r \in Request, Lose(r)
       PROVE  ContentInv'
  BY <1>23, QueueSame DEF Lose, EnvironmentOnly
<1>24. ASSUME NEW counted \in BOOLEAN, Tick(counted)
       PROVE  ContentInv'
  BY <1>24, QueueSame DEF Tick, EnvironmentOnly
<1>25. CASE UNCHANGED vars
  BY <1>25, QueueSame DEF vars
<1> HIDE DEF IInv, TypeOK, CallerTypeOK, ObjectTypeOK, TaskTypeOK, HistoryTypeOK,
  callerVars, objectVars, taskVars, sessionVars, historyVars,
  PathInv, QueuedInv, CurInv, Fresh, Serving, Pending,
  ContentInv, PayloadInv, PayloadOwned
<1> QED
  BY ApiBegins, <1>1, <1>2, <1>3, <1>4, <1>5, <1>6, <1>7, <1>8, <1>9,
     <1>10, <1>11, <1>12, <1>13, <1>14, <1>15, <1>16, <1>17, <1>18,
     <1>19, <1>20, <1>21, <1>22, <1>23, <1>24, <1>25
  DEF Next, Caller, CallerStep, Task, Environment

\* The answer: the bit RECEIVED is set for the pending request only, and only the
\* call that waits for it reads it.
LEMMA ReplyStep ==
  ASSUME IInv, TypeOK', [Next]_vars PROVE ReplyInv'
<1> USE NoneAssumption, InputAssumption
  DEF IInv, TypeOK, CallerTypeOK, ObjectTypeOK, TaskTypeOK, HistoryTypeOK,
  callerVars, objectVars, taskVars, sessionVars, historyVars,
  PathInv, QueuedInv, CurInv, Fresh, Serving, Pending,
  FreshInv, ReplyInv, AnswerInv, OkMeansAnswered, ObjectInv, HandleInv,
  InWait, MisuseOnlyAfterAgeOut
<1>1. ASSUME NEW r \in Request, NEW op \in Type, NEW s \in BOOLEAN,
             NEW tmo \in Ticks, NEW copy \in BOOLEAN, Begin(r, op, s, tmo, copy)
      PROVE  ReplyInv'
  BY <1>1, QueueSame DEF Begin, Return, CallerOnly
<1>2. ASSUME NEW r \in Request, Enqueue(r)
      PROVE  ReplyInv'
  BY <1>2, QueuedOfAppend DEF Enqueue, Return
<1>3. ASSUME NEW r \in Request, EnqueueFails(r)
      PROVE  ReplyInv'
  BY <1>3, QueueSame DEF EnqueueFails, Return, CallerOnly, Free
<1>4. ASSUME NEW r \in Request, StartWait(r)
      PROVE  ReplyInv'
  BY <1>4, QueueSame DEF StartWait, CallerOnly
<1>5. ASSUME NEW r \in Request, StartWaitDeleted(r)
      PROVE  ReplyInv'
  BY <1>5, QueueSame DEF StartWaitDeleted, CallerOnly
<1>6. ASSUME NEW r \in Request, Wake(r)
      PROVE  ReplyInv'
  BY <1>6, QueueSame DEF Wake, CallerOnly
<1>7. ASSUME NEW r \in Request, GiveAck(r)
      PROVE  ReplyInv'
  BY <1>7, QueueSame DEF GiveAck, Return, CallerOnly
<1>8. ASSUME NEW r \in Request, Recycle(r)
      PROVE  ReplyInv'
  BY <1>8, QueueSame DEF Recycle
<1>9. ASSUME AgeOut
      PROVE  ReplyInv'
  BY <1>9, QueuedOfTail, HeadIsRequest DEF AgeOut, TaskOnly, Free
<1>10. ASSUME Send
       PROVE  ReplyInv'
  BY <1>10, QueuedOfTail, HeadIsRequest DEF Send, TaskOnly, Free
<1>11. ASSUME AssertFails
       PROVE  ReplyInv'
  BY <1>11, QueueSame DEF AssertFails, TaskOnly
<1>12. ASSUME NEW r \in Request, NEW class \in Class, Receive(r, class)
       PROVE  ReplyInv'
  BY <1>12, QueueSame DEF Receive, TokenMatches, TaskOnly
<1>13. ASSUME IoFails
       PROVE  ReplyInv'
  BY <1>13, QueueSame DEF IoFails, TaskOnly
<1>14. ASSUME IoDone
       PROVE  ReplyInv'
  BY <1>14, QueueSame DEF IoDone, TaskOnly
<1>15. ASSUME TakeAck
       PROVE  ReplyInv'
  BY <1>15, QueueSame DEF TakeAck, TaskOnly, Free
<1>16. ASSUME FinishIoError
       PROVE  ReplyInv'
  BY <1>16, QueueSame DEF FinishIoError, Finish, TaskOnly
<1>17. ASSUME FinishTimeout
       PROVE  ReplyInv'
  BY <1>17, QueueSame DEF FinishTimeout, Finish, TaskOnly
<1>18. ASSUME FinishOk
       PROVE  ReplyInv'
  BY <1>18, QueueSame DEF FinishOk, Finish, TaskOnly
<1>19. ASSUME StartSession
       PROVE  ReplyInv'
  BY <1>19, QueueSame DEF StartSession, EnvironmentOnly
<1>20. ASSUME EndSession
       PROVE  ReplyInv'
  BY <1>20, QueueSame DEF EndSession, EnvironmentOnly
<1>21. ASSUME SetRunning
       PROVE  ReplyInv'
  BY <1>21, QueueSame DEF SetRunning, EnvironmentOnly
<1>22. ASSUME RegisterEventCallback
       PROVE  ReplyInv'
  BY <1>22, QueueSame DEF RegisterEventCallback, EnvironmentOnly
<1>23. ASSUME NEW r \in Request, Lose(r)
       PROVE  ReplyInv'
  BY <1>23, QueueSame DEF Lose, EnvironmentOnly
<1>24. ASSUME NEW counted \in BOOLEAN, Tick(counted)
       PROVE  ReplyInv'
  BY <1>24, QueueSame DEF Tick, EnvironmentOnly
<1>25. CASE UNCHANGED vars
  BY <1>25, QueueSame DEF vars
<1> HIDE DEF IInv, TypeOK, CallerTypeOK, ObjectTypeOK, TaskTypeOK, HistoryTypeOK,
  callerVars, objectVars, taskVars, sessionVars, historyVars,
  PathInv, QueuedInv, CurInv, Fresh, Serving, Pending,
  FreshInv, ReplyInv, AnswerInv, OkMeansAnswered, ObjectInv, HandleInv,
  InWait, MisuseOnlyAfterAgeOut
<1> QED
  BY ApiBegins, <1>1, <1>2, <1>3, <1>4, <1>5, <1>6, <1>7, <1>8, <1>9,
     <1>10, <1>11, <1>12, <1>13, <1>14, <1>15, <1>16, <1>17, <1>18,
     <1>19, <1>20, <1>21, <1>22, <1>23, <1>24, <1>25
  DEF Next, Caller, CallerStep, Task, Environment

-----------------------------------------------------------------------------
\* The invariant holds when the client has just been allocated.
LEMMA IInit == Init => IInv
<1> SUFFICES ASSUME Init PROVE IInv
  OBVIOUS
<1>1. TypeOK
  BY TypeInit
<1>2. Queued = {} /\ QueueDistinct
  BY DEF Init, Queued, QueueDistinct
<1>3. PathInv
  BY <1>2 DEF Init, PathInv, QueuedInv, CurInv, FreshInv, Serving, Fresh
<1>4. ObjectInv
  BY <1>2 DEF Init, ObjectInv, HandleInv, HandlesOwned, Held, InWait,
              MisuseOnlyAfterAgeOut
<1>5. ContentInv /\ ReplyInv
  BY <1>2 DEF Init, ContentInv, PayloadInv, PayloadOwned, ReplyInv, AnswerInv,
              OkMeansAnswered
<1> QED BY <1>1, <1>3, <1>4, <1>5 DEF IInv

\* No step breaks the invariant.
LEMMA IStep == IInv /\ [Next]_vars => IInv'
<1> SUFFICES ASSUME IInv, [Next]_vars PROVE IInv'
  OBVIOUS
<1>1. TypeOK'
  BY TypeStep DEF IInv
<1> QED BY <1>1, PathStep, ObjectStep, ContentStep, ReplyStep DEF IInv

\* The inductive invariant holds in every reachable state.
THEOREM Invariant == Spec => []IInv
<1> QED BY IInit, IStep, PTL DEF Spec

\* No payload is leaked, and none is freed while a POST still needs it.
THEOREM PayloadSafety == Spec => []PayloadOwned
<1>1. IInv => PayloadOwned
  BY DEF IInv, ContentInv
<1> QED BY <1>1, Invariant, PTL

\* No event group or semaphore is leaked or deleted while the coap task holds
\* its request.
THEOREM HandleSafety == Spec => []HandlesOwned
<1>1. IInv => HandlesOwned
  BY DEF IInv, ObjectInv
<1> QED BY <1>1, Invariant, PTL

\* The handles of a request that was sent are deleted only after its caller is
\* done with them: the ack semaphore does what the header says.
THEOREM Handshake == Spec => []HandshakeSafe
<1>1. IInv => HandshakeSafe
  BY DEF IInv, ObjectInv, HandleInv, HandshakeSafe
<1> QED BY <1>1, Invariant, PTL

\* The age-out is the only way a caller can come to use deleted handles.
THEOREM MisuseHasOneCause == Spec => []MisuseOnlyAfterAgeOut
<1>1. IInv => MisuseOnlyAfterAgeOut
  BY DEF IInv, ObjectInv
<1> QED BY <1>1, Invariant, PTL

\* A synchronous call does not return GOLIOTH_OK unless its own request was
\* answered while it was pending.
THEOREM NoForeignAnswer == Spec => []OkMeansAnswered
<1>1. IInv => OkMeansAnswered
  BY DEF IInv, ReplyInv
<1> QED BY <1>1, Invariant, PTL
=============================================================================
