------------------------ MODULE CoapRequestsOutcome -------------------------
(***************************************************************************)
(* What callbacks and the event callback are told: OutcomeInv of           *)
(* CoapRequests is inductive relative to IInv.                             *)
(***************************************************************************)
EXTENDS CoapRequestsProofs

-----------------------------------------------------------------------------
(* What a callback has been told grows by one. *)

\* One more status at the end of what was told.
LEMMA ToldOnce ==
  ASSUME NEW s \in Seq(Status), NEW x \in Status
  PROVE  /\ Append(s, x) \in Seq(Status)
         /\ s = <<>> => Len(Append(s, x)) = 1 /\ Append(s, x)[1] = x
         /\ Len(s) = 1 => /\ Len(Append(s, x)) = 2
                          /\ Append(s, x)[1] = s[1]
                          /\ Append(s, x)[2] = x
<1>1. Append(s, x) \in Seq(Status) /\ Len(Append(s, x)) = Len(s) + 1
  OBVIOUS
<1>2. Append(s, x)[Len(s) + 1] = x
  OBVIOUS
<1>3. \A i \in 1..Len(s) : Append(s, x)[i] = s[i]
  OBVIOUS
<1>4. s = <<>> => Len(s) = 0
  OBVIOUS
<1> DEFINE t == Append(s, x)
<1> HIDE DEF t
<1>5. s = <<>> => Len(t) = 1 /\ t[1] = x
  BY <1>1, <1>2, <1>4 DEF t
<1>6. Len(s) = 1 => Len(t) = 2 /\ t[1] = s[1] /\ t[2] = x
  BY <1>1, <1>2, <1>3 DEF t
<1> QED BY <1>1, <1>5, <1>6 DEF t

-----------------------------------------------------------------------------
(* Each part of the invariant, action by action. *)

\* A request has an age limit only from its preparation to its completion.
LEMMA AgeStep ==
  ASSUME IInv, IInv', OutcomeInv, [Next]_vars PROVE AgeInv'
<1> USE NoneAssumption, ForeverAssumption
  DEF IInv, TypeOK, CallerTypeOK, TimeTypeOK, ObjectTypeOK, TaskTypeOK,
  HistoryTypeOK, OutcomeInv, callerVars, objectVars, taskVars, sessionVars, historyVars,
  PathInv, QueuedInv, CurInv, Fresh, Serving, Pending, FreshInv, AgeInv
<1>1. ASSUME NEW r \in Request, NEW op \in Type, NEW s \in BOOLEAN,
             NEW tmo \in Ticks, NEW copy \in BOOLEAN, Begin(r, op, s, tmo, copy)
      PROVE  AgeInv'
  BY <1>1, QueueSame DEF Begin, Return, CallerOnly
<1>2. ASSUME NEW r \in Request, Enqueue(r)
      PROVE  AgeInv'
  BY <1>2, QueuedOfAppend DEF Enqueue, Return
<1>3. ASSUME NEW r \in Request, EnqueueFails(r)
      PROVE  AgeInv'
  BY <1>3, QueueSame DEF EnqueueFails, Return, CallerOnly, Free
<1>4. ASSUME NEW r \in Request, StartWait(r)
      PROVE  AgeInv'
  BY <1>4, QueueSame DEF StartWait, CallerOnly
<1>5. ASSUME NEW r \in Request, StartWaitDeleted(r)
      PROVE  AgeInv'
  BY <1>5, QueueSame DEF StartWaitDeleted, CallerOnly
<1>6. ASSUME NEW r \in Request, Wake(r)
      PROVE  AgeInv'
  BY <1>6, QueueSame DEF Wake, CallerOnly
<1>7. ASSUME NEW r \in Request, GiveAck(r)
      PROVE  AgeInv'
  BY <1>7, QueueSame DEF GiveAck, Return, CallerOnly
<1>8. ASSUME NEW r \in Request, Recycle(r)
      PROVE  AgeInv'
  BY <1>8, QueueSame DEF Recycle
<1>9. ASSUME AgeOut
      PROVE  AgeInv'
  BY <1>9, QueuedOfTail, HeadIsRequest DEF AgeOut, TaskOnly, Free
<1>10. ASSUME Send
       PROVE  AgeInv'
  BY <1>10, QueuedOfTail, HeadIsRequest DEF Send, TaskOnly, Free
<1>11. ASSUME AssertFails
       PROVE  AgeInv'
  BY <1>11, QueueSame DEF AssertFails, TaskOnly
<1>12. ASSUME NEW r \in Request, NEW class \in Class, Receive(r, class)
       PROVE  AgeInv'
  BY <1>12, QueueSame DEF Receive, TokenMatches, TaskOnly
<1>13. ASSUME IoFails
       PROVE  AgeInv'
  BY <1>13, QueueSame DEF IoFails, TaskOnly
<1>14. ASSUME IoDone
       PROVE  AgeInv'
  BY <1>14, QueueSame DEF IoDone, TaskOnly
<1>15. ASSUME TakeAck
       PROVE  AgeInv'
  BY <1>15, QueueSame DEF TakeAck, TaskOnly, Free
<1>16. ASSUME FinishIoError
       PROVE  AgeInv'
  BY <1>16, QueueSame DEF FinishIoError, Finish, TaskOnly
<1>17. ASSUME FinishTimeout
       PROVE  AgeInv'
  BY <1>17, QueueSame DEF FinishTimeout, Finish, TaskOnly
<1>18. ASSUME FinishOk
       PROVE  AgeInv'
  BY <1>18, QueueSame DEF FinishOk, Finish, TaskOnly
<1>19. ASSUME StartSession
       PROVE  AgeInv'
  BY <1>19, QueueSame DEF StartSession, EnvironmentOnly
<1>20. ASSUME EndSession
       PROVE  AgeInv'
  BY <1>20, QueueSame DEF EndSession, EnvironmentOnly
<1>21. ASSUME SetRunning
       PROVE  AgeInv'
  BY <1>21, QueueSame DEF SetRunning, EnvironmentOnly
<1>22. ASSUME RegisterEventCallback
       PROVE  AgeInv'
  BY <1>22, QueueSame DEF RegisterEventCallback, EnvironmentOnly
<1>23. ASSUME NEW r \in Request, Lose(r)
       PROVE  AgeInv'
  BY <1>23, QueueSame DEF Lose, EnvironmentOnly
<1>24. ASSUME NEW counted \in BOOLEAN, Tick(counted)
       PROVE  AgeInv'
  BY <1>24, QueueSame DEF Tick, EnvironmentOnly, Down
<1>25. CASE UNCHANGED vars
  BY <1>25, QueueSame DEF vars
<1> HIDE DEF IInv, TypeOK, CallerTypeOK, TimeTypeOK, ObjectTypeOK, TaskTypeOK,
  HistoryTypeOK, OutcomeInv, callerVars, objectVars, taskVars, sessionVars, historyVars,
  PathInv, QueuedInv, CurInv, Fresh, Serving, Pending, FreshInv, AgeInv
<1> QED
  BY ApiBegins, <1>1, <1>2, <1>3, <1>4, <1>5, <1>6, <1>7, <1>8, <1>9,
     <1>10, <1>11, <1>12, <1>13, <1>14, <1>15, <1>16, <1>17, <1>18,
     <1>19, <1>20, <1>21, <1>22, <1>23, <1>24, <1>25
  DEF Next, Caller, CallerStep, Task, Environment

\* The coap task stops waiting for one of three reasons.
LEMMA ServeStep ==
  ASSUME IInv, IInv', OutcomeInv, [Next]_vars PROVE ServeInv'
<1> USE NoneAssumption, ForeverAssumption
  DEF IInv, TypeOK, CallerTypeOK, TimeTypeOK, ObjectTypeOK, TaskTypeOK,
  HistoryTypeOK, OutcomeInv, callerVars, objectVars, taskVars, sessionVars, historyVars,
  PathInv, QueuedInv, CurInv, Fresh, Serving, Pending, FreshInv, ServeInv
<1>1. ASSUME NEW r \in Request, NEW op \in Type, NEW s \in BOOLEAN,
             NEW tmo \in Ticks, NEW copy \in BOOLEAN, Begin(r, op, s, tmo, copy)
      PROVE  ServeInv'
  BY <1>1 DEF Begin, Return, CallerOnly
<1>2. ASSUME NEW r \in Request, Enqueue(r)
      PROVE  ServeInv'
  BY <1>2 DEF Enqueue, Return
<1>3. ASSUME NEW r \in Request, EnqueueFails(r)
      PROVE  ServeInv'
  BY <1>3 DEF EnqueueFails, Return, CallerOnly, Free
<1>4. ASSUME NEW r \in Request, StartWait(r)
      PROVE  ServeInv'
  BY <1>4 DEF StartWait, CallerOnly
<1>5. ASSUME NEW r \in Request, StartWaitDeleted(r)
      PROVE  ServeInv'
  BY <1>5 DEF StartWaitDeleted, CallerOnly
<1>6. ASSUME NEW r \in Request, Wake(r)
      PROVE  ServeInv'
  BY <1>6 DEF Wake, CallerOnly
<1>7. ASSUME NEW r \in Request, GiveAck(r)
      PROVE  ServeInv'
  BY <1>7 DEF GiveAck, Return, CallerOnly
<1>8. ASSUME NEW r \in Request, Recycle(r)
      PROVE  ServeInv'
  BY <1>8 DEF Recycle
<1>9. ASSUME AgeOut
      PROVE  ServeInv'
  BY <1>9, HeadIsRequest, QueuedOfTail DEF AgeOut, TaskOnly, Free
<1>10. ASSUME Send
       PROVE  ServeInv'
  BY <1>10, HeadIsRequest, QueuedOfTail DEF Send, TaskOnly, Free
<1>11. ASSUME AssertFails
       PROVE  ServeInv'
  BY <1>11 DEF AssertFails, TaskOnly
<1>12. ASSUME NEW r \in Request, NEW class \in Class, Receive(r, class)
       PROVE  ServeInv'
  <2> USE <1>12 DEF Receive, TokenMatches, TaskOnly
  <2>1. CASE Pending /\ cur = r
    BY <2>1, InputAssumption
  <2>2. CASE ~(Pending /\ cur = r)
    <3>1. UNCHANGED <<answer, gotResponse, cur, tpc, ioError, tleft>>
      BY <2>2
    <3> HIDE <1>12
    <3> QED BY <3>1
  <2> QED BY <2>1, <2>2
<1>13. ASSUME IoFails
       PROVE  ServeInv'
  BY <1>13 DEF IoFails, TaskOnly
<1>14. ASSUME IoDone
       PROVE  ServeInv'
  BY <1>14 DEF IoDone, TaskOnly
<1>15. ASSUME TakeAck
       PROVE  ServeInv'
  BY <1>15 DEF TakeAck, TaskOnly, Free
<1>16. ASSUME FinishIoError
       PROVE  ServeInv'
  BY <1>16 DEF FinishIoError, Finish, TaskOnly
<1>17. ASSUME FinishTimeout
       PROVE  ServeInv'
  BY <1>17 DEF FinishTimeout, Finish, TaskOnly
<1>18. ASSUME FinishOk
       PROVE  ServeInv'
  BY <1>18 DEF FinishOk, Finish, TaskOnly
<1>19. ASSUME StartSession
       PROVE  ServeInv'
  BY <1>19 DEF StartSession, EnvironmentOnly
<1>20. ASSUME EndSession
       PROVE  ServeInv'
  BY <1>20 DEF EndSession, EnvironmentOnly
<1>21. ASSUME SetRunning
       PROVE  ServeInv'
  BY <1>21 DEF SetRunning, EnvironmentOnly
<1>22. ASSUME RegisterEventCallback
       PROVE  ServeInv'
  BY <1>22 DEF RegisterEventCallback, EnvironmentOnly
<1>23. ASSUME NEW r \in Request, Lose(r)
       PROVE  ServeInv'
  BY <1>23 DEF Lose, EnvironmentOnly
<1>24. ASSUME NEW counted \in BOOLEAN, Tick(counted)
       PROVE  ServeInv'
  BY <1>24 DEF Tick, EnvironmentOnly, Down
<1>25. CASE UNCHANGED vars
  BY <1>25, QueueSame DEF vars
<1> HIDE DEF IInv, TypeOK, CallerTypeOK, TimeTypeOK, ObjectTypeOK, TaskTypeOK,
  HistoryTypeOK, OutcomeInv, callerVars, objectVars, taskVars, sessionVars, historyVars,
  PathInv, QueuedInv, CurInv, Fresh, Serving, Pending, FreshInv, ServeInv
<1> QED
  BY ApiBegins, <1>1, <1>2, <1>3, <1>4, <1>5, <1>6, <1>7, <1>8, <1>9,
     <1>10, <1>11, <1>12, <1>13, <1>14, <1>15, <1>16, <1>17, <1>18,
     <1>19, <1>20, <1>21, <1>22, <1>23, <1>24, <1>25
  DEF Next, Caller, CallerStep, Task, Environment

\* Until the coap task is done with it, a request's callback has been told of a
\* response or of nothing.
LEMMA ToldStep ==
  ASSUME IInv, IInv', OutcomeInv, [Next]_vars PROVE ToldInv'
<1> USE NoneAssumption, ForeverAssumption
  DEF IInv, TypeOK, CallerTypeOK, TimeTypeOK, ObjectTypeOK, TaskTypeOK,
  HistoryTypeOK, OutcomeInv, callerVars, objectVars, taskVars, sessionVars, historyVars,
  PathInv, QueuedInv, CurInv, Fresh, Serving, Pending, FreshInv, AgeInv, ToldInv,
  Missed, HasCallback
<1>1. ASSUME NEW r \in Request, NEW op \in Type, NEW s \in BOOLEAN,
             NEW tmo \in Ticks, NEW copy \in BOOLEAN, Begin(r, op, s, tmo, copy)
      PROVE  ToldInv'
  BY <1>1, QueueSame DEF Begin, Return, CallerOnly
<1>2. ASSUME NEW r \in Request, Enqueue(r)
      PROVE  ToldInv'
  BY <1>2, QueuedOfAppend DEF Enqueue, Return
<1>3. ASSUME NEW r \in Request, EnqueueFails(r)
      PROVE  ToldInv'
  BY <1>3, QueueSame DEF EnqueueFails, Return, CallerOnly, Free
<1>4. ASSUME NEW r \in Request, StartWait(r)
      PROVE  ToldInv'
  BY <1>4, QueueSame DEF StartWait, CallerOnly
<1>5. ASSUME NEW r \in Request, StartWaitDeleted(r)
      PROVE  ToldInv'
  BY <1>5, QueueSame DEF StartWaitDeleted, CallerOnly
<1>6. ASSUME NEW r \in Request, Wake(r)
      PROVE  ToldInv'
  BY <1>6, QueueSame DEF Wake, CallerOnly
<1>7. ASSUME NEW r \in Request, GiveAck(r)
      PROVE  ToldInv'
  BY <1>7, QueueSame DEF GiveAck, Return, CallerOnly
<1>8. ASSUME NEW r \in Request, Recycle(r)
      PROVE  ToldInv'
  BY <1>8, QueueSame DEF Recycle
<1>9. ASSUME AgeOut
      PROVE  ToldInv'
  BY <1>9, HeadIsRequest, QueuedOfTail DEF AgeOut, TaskOnly, Free
<1>10. ASSUME Send
       PROVE  ToldInv'
  BY <1>10, HeadIsRequest, QueuedOfTail DEF Send, TaskOnly, Free
<1>11. ASSUME AssertFails
       PROVE  ToldInv'
  BY <1>11, QueueSame DEF AssertFails, TaskOnly
<1>12. ASSUME NEW r \in Request, NEW class \in Class, Receive(r, class)
       PROVE  ToldInv'
  <2>1. StatusOf(class) \in Status /\ StatusOf(class) # "TIMEOUT"
    BY DEF StatusOf, Status
  <2>2. /\ Len(Append(<<>>, StatusOf(class))) = 1
        /\ Append(<<>>, StatusOf(class))[1] # "TIMEOUT"
    BY <2>1, ToldOnce
  <2>3. class # "none"
    BY InputAssumption
  <2>0. told \in [Request -> Seq(Status)] /\ answer \in [Request -> Class \cup {"none"}]
    OBVIOUS
  <2> USE <1>12 DEF Receive, TokenMatches, TaskOnly
  <2>4. CASE Pending /\ cur = r
    <3>1. /\ r \in Request /\ cur = r /\ cur' = r
          /\ gotResponse' /\ fate' = fate /\ fate[r] = "sent"
      BY <2>4
    <3>2. \A q \in Request \ {r} : told'[q] = told[q] /\ answer'[q] = answer[q]
      BY <2>4
    <3>3. told[r] = <<>>
      BY <2>4
    <3>4. CASE HasCallback(r) /\ age[r] # 0
      <4>1. told' = [told EXCEPT ![r] = Append(@, StatusOf(class))]
        BY <2>4, <3>4
      <4> HIDE <1>12 DEF IInv, OutcomeInv
      <4>2. told'[r] = Append(<<>>, StatusOf(class))
        BY <2>0, <3>3, <4>1
      <4>3. ASSUME NEW q \in Request \ {r}
            PROVE  fate'[q] = "none" => told'[q] = <<>> /\ answer'[q] = "none"
        BY <3>1, <3>2 DEF OutcomeInv
      <4>4. Len(told'[r]) = 1 /\ told'[r][1] # "TIMEOUT"
        BY <2>2, <4>2
      <4> HIDE DEF Missed, HasCallback
      <4> QED BY <3>1, <4>3, <4>4
    <3>5. CASE ~HasCallback(r)
      BY <2>4, <3>1, <3>2, <3>5
    <3>6. CASE age[r] = 0
      <4>1. timeout[r] # Forever /\ timeout' = timeout
        BY <3>6
      <4>2. told' = told
        BY <2>4, <3>6
      <4>3. answer' = [answer EXCEPT ![r] = class]
        BY <2>4
      <4> HIDE <1>12 DEF IInv, OutcomeInv
      <4>4. answer'[r] = class
        BY <2>0, <4>3
      <4> QED BY <2>3, <3>1, <3>2, <3>3, <4>1, <4>2, <4>4 DEF IInv, OutcomeInv
    <3> QED BY <3>4, <3>5, <3>6
  <2>5. CASE ~(Pending /\ cur = r)
    <3>1. UNCHANGED <<told, answer, gotResponse, cur, fate, type, timeout>>
      BY <2>5
    <3> HIDE <1>12
    <3> QED BY <3>1
  <2> QED BY <2>4, <2>5
<1>13. ASSUME IoFails
       PROVE  ToldInv'
  BY <1>13, QueueSame DEF IoFails, TaskOnly
<1>14. ASSUME IoDone
       PROVE  ToldInv'
  BY <1>14, QueueSame DEF IoDone, TaskOnly
<1>15. ASSUME TakeAck
       PROVE  ToldInv'
  BY <1>15, QueueSame DEF TakeAck, TaskOnly, Free
<1>16. ASSUME FinishIoError
       PROVE  ToldInv'
  BY <1>16, QueueSame DEF FinishIoError, Finish, TaskOnly
<1>17. ASSUME FinishTimeout
       PROVE  ToldInv'
  BY <1>17, QueueSame DEF FinishTimeout, Finish, TaskOnly
<1>18. ASSUME FinishOk
       PROVE  ToldInv'
  BY <1>18, QueueSame DEF FinishOk, Finish, TaskOnly
<1>19. ASSUME StartSession
       PROVE  ToldInv'
  BY <1>19, QueueSame DEF StartSession, EnvironmentOnly
<1>20. ASSUME EndSession
       PROVE  ToldInv'
  BY <1>20, QueueSame DEF EndSession, EnvironmentOnly
<1>21. ASSUME SetRunning
       PROVE  ToldInv'
  BY <1>21, QueueSame DEF SetRunning, EnvironmentOnly
<1>22. ASSUME RegisterEventCallback
       PROVE  ToldInv'
  BY <1>22, QueueSame DEF RegisterEventCallback, EnvironmentOnly
<1>23. ASSUME NEW r \in Request, Lose(r)
       PROVE  ToldInv'
  BY <1>23, QueueSame DEF Lose, EnvironmentOnly
<1>24. ASSUME NEW counted \in BOOLEAN, Tick(counted)
       PROVE  ToldInv'
  BY <1>24, QueueSame DEF Tick, EnvironmentOnly, Down
<1>25. CASE UNCHANGED vars
  BY <1>25, QueueSame DEF vars
<1> HIDE DEF IInv, TypeOK, CallerTypeOK, TimeTypeOK, ObjectTypeOK, TaskTypeOK,
  HistoryTypeOK, OutcomeInv, callerVars, objectVars, taskVars, sessionVars, historyVars,
  PathInv, QueuedInv, CurInv, Fresh, Serving, Pending, FreshInv, AgeInv, ToldInv,
  Missed, HasCallback
<1> QED
  BY ApiBegins, <1>1, <1>2, <1>3, <1>4, <1>5, <1>6, <1>7, <1>8, <1>9,
     <1>10, <1>11, <1>12, <1>13, <1>14, <1>15, <1>16, <1>17, <1>18,
     <1>19, <1>20, <1>21, <1>22, <1>23, <1>24, <1>25
  DEF Next, Caller, CallerStep, Task, Environment

\* Completing a request settles what its callback is told.
LEMMA SettledStep ==
  ASSUME IInv, IInv', OutcomeInv, [Next]_vars PROVE CallbackSettled'
<1> USE NoneAssumption, ForeverAssumption
  DEF IInv, TypeOK, CallerTypeOK, TimeTypeOK, ObjectTypeOK, TaskTypeOK,
  HistoryTypeOK, OutcomeInv, callerVars, objectVars, taskVars, sessionVars, historyVars,
  PathInv, QueuedInv, CurInv, Fresh, Serving, Pending, FreshInv, AgeInv,
  ServeInv, ToldInv,
  CallbackSettled, Missed, HasCallback
<1>1. ASSUME NEW r \in Request, NEW op \in Type, NEW s \in BOOLEAN,
             NEW tmo \in Ticks, NEW copy \in BOOLEAN, Begin(r, op, s, tmo, copy)
      PROVE  CallbackSettled'
  BY <1>1, QueueSame DEF Begin, Return, CallerOnly
<1>2. ASSUME NEW r \in Request, Enqueue(r)
      PROVE  CallbackSettled'
  BY <1>2, QueuedOfAppend DEF Enqueue, Return
<1>3. ASSUME NEW r \in Request, EnqueueFails(r)
      PROVE  CallbackSettled'
  BY <1>3, QueueSame DEF EnqueueFails, Return, CallerOnly, Free
<1>4. ASSUME NEW r \in Request, StartWait(r)
      PROVE  CallbackSettled'
  BY <1>4, QueueSame DEF StartWait, CallerOnly
<1>5. ASSUME NEW r \in Request, StartWaitDeleted(r)
      PROVE  CallbackSettled'
  BY <1>5, QueueSame DEF StartWaitDeleted, CallerOnly
<1>6. ASSUME NEW r \in Request, Wake(r)
      PROVE  CallbackSettled'
  BY <1>6, QueueSame DEF Wake, CallerOnly
<1>7. ASSUME NEW r \in Request, GiveAck(r)
      PROVE  CallbackSettled'
  BY <1>7, QueueSame DEF GiveAck, Return, CallerOnly
<1>8. ASSUME NEW r \in Request, Recycle(r)
      PROVE  CallbackSettled'
  BY <1>8, QueueSame DEF Recycle
<1>9. ASSUME AgeOut
      PROVE  CallbackSettled'
  BY <1>9, HeadIsRequest, QueuedOfTail DEF AgeOut, TaskOnly, Free
<1>10. ASSUME Send
       PROVE  CallbackSettled'
  BY <1>10, HeadIsRequest, QueuedOfTail DEF Send, TaskOnly, Free
<1>11. ASSUME AssertFails
       PROVE  CallbackSettled'
  BY <1>11, QueueSame DEF AssertFails, TaskOnly
<1>12. ASSUME NEW r \in Request, NEW class \in Class, Receive(r, class)
       PROVE  CallbackSettled'
  BY <1>12, QueueSame DEF Receive, TokenMatches, TaskOnly
<1>13. ASSUME IoFails
       PROVE  CallbackSettled'
  BY <1>13, QueueSame DEF IoFails, TaskOnly
<1>14. ASSUME IoDone
       PROVE  CallbackSettled'
  BY <1>14, QueueSame DEF IoDone, TaskOnly
<1>15. ASSUME TakeAck
       PROVE  CallbackSettled'
  BY <1>15, QueueSame DEF TakeAck, TaskOnly, Free
<1>16. ASSUME FinishIoError
       PROVE  CallbackSettled'
  BY <1>16, QueueSame DEF FinishIoError, Finish, TaskOnly
<1>17. ASSUME FinishTimeout
       PROVE  CallbackSettled'
  <2> USE <1>17 DEF FinishTimeout, Finish, TaskOnly
  <2>1. cur \in Request /\ cur' = None /\ fate' = fate /\ type' = type
    OBVIOUS
  <2>2. \A r \in Request \ {cur} :
          told'[r] = told[r] /\ answer'[r] = answer[r] /\ timeout'[r] = timeout[r]
    OBVIOUS
  <2>3. HasCallback(cur) => told'[cur] = Append(told[cur], "TIMEOUT")
    OBVIOUS
  <2>4. HasCallback(cur) =>
          \/ Len(told'[cur]) = 1
          \/ /\ Len(told'[cur]) = 2
             /\ told'[cur][1] # "TIMEOUT" /\ told'[cur][2] = "TIMEOUT"
    BY <2>1, <2>3, ToldOnce DEF Status
  <2> HIDE <1>17
  <2> QED BY <2>1, <2>2, <2>4
<1>18. ASSUME FinishOk
       PROVE  CallbackSettled'
  BY <1>18, QueueSame DEF FinishOk, Finish, TaskOnly
<1>19. ASSUME StartSession
       PROVE  CallbackSettled'
  BY <1>19, QueueSame DEF StartSession, EnvironmentOnly
<1>20. ASSUME EndSession
       PROVE  CallbackSettled'
  BY <1>20, QueueSame DEF EndSession, EnvironmentOnly
<1>21. ASSUME SetRunning
       PROVE  CallbackSettled'
  BY <1>21, QueueSame DEF SetRunning, EnvironmentOnly
<1>22. ASSUME RegisterEventCallback
       PROVE  CallbackSettled'
  BY <1>22, QueueSame DEF RegisterEventCallback, EnvironmentOnly
<1>23. ASSUME NEW r \in Request, Lose(r)
       PROVE  CallbackSettled'
  BY <1>23, QueueSame DEF Lose, EnvironmentOnly
<1>24. ASSUME NEW counted \in BOOLEAN, Tick(counted)
       PROVE  CallbackSettled'
  BY <1>24, QueueSame DEF Tick, EnvironmentOnly, Down
<1>25. CASE UNCHANGED vars
  BY <1>25, QueueSame DEF vars
<1> HIDE DEF IInv, TypeOK, CallerTypeOK, TimeTypeOK, ObjectTypeOK, TaskTypeOK,
  HistoryTypeOK, OutcomeInv, callerVars, objectVars, taskVars, sessionVars, historyVars,
  PathInv, QueuedInv, CurInv, Fresh, Serving, Pending, FreshInv, AgeInv,
  ServeInv, ToldInv,
  CallbackSettled, Missed, HasCallback
<1> QED
  BY ApiBegins, <1>1, <1>2, <1>3, <1>4, <1>5, <1>6, <1>7, <1>8, <1>9,
     <1>10, <1>11, <1>12, <1>13, <1>14, <1>15, <1>16, <1>17, <1>18,
     <1>19, <1>20, <1>21, <1>22, <1>23, <1>24, <1>25
  DEF Next, Caller, CallerStep, Task, Environment

\* Every change of session_connected is announced to a listener.
LEMMA SaidStep ==
  ASSUME IInv, IInv', OutcomeInv, [Next]_vars PROVE SaidInv'
<1> USE NoneAssumption, ForeverAssumption
  DEF IInv, TypeOK, CallerTypeOK, TimeTypeOK, ObjectTypeOK, TaskTypeOK,
  HistoryTypeOK, OutcomeInv, callerVars, objectVars, taskVars, sessionVars, historyVars,
  SessionTypeOK, SaidInv, EventsMatch
<1>1. ASSUME NEW r \in Request, NEW op \in Type, NEW s \in BOOLEAN,
             NEW tmo \in Ticks, NEW copy \in BOOLEAN, Begin(r, op, s, tmo, copy)
      PROVE  SaidInv'
  BY <1>1 DEF Begin, Return, CallerOnly
<1>2. ASSUME NEW r \in Request, Enqueue(r)
      PROVE  SaidInv'
  BY <1>2 DEF Enqueue, Return
<1>3. ASSUME NEW r \in Request, EnqueueFails(r)
      PROVE  SaidInv'
  BY <1>3 DEF EnqueueFails, Return, CallerOnly, Free
<1>4. ASSUME NEW r \in Request, StartWait(r)
      PROVE  SaidInv'
  BY <1>4 DEF StartWait, CallerOnly
<1>5. ASSUME NEW r \in Request, StartWaitDeleted(r)
      PROVE  SaidInv'
  BY <1>5 DEF StartWaitDeleted, CallerOnly
<1>6. ASSUME NEW r \in Request, Wake(r)
      PROVE  SaidInv'
  BY <1>6 DEF Wake, CallerOnly
<1>7. ASSUME NEW r \in Request, GiveAck(r)
      PROVE  SaidInv'
  BY <1>7 DEF GiveAck, Return, CallerOnly
<1>8. ASSUME NEW r \in Request, Recycle(r)
      PROVE  SaidInv'
  BY <1>8 DEF Recycle
<1>9. ASSUME AgeOut
      PROVE  SaidInv'
  BY <1>9 DEF AgeOut, TaskOnly, Free
<1>10. ASSUME Send
       PROVE  SaidInv'
  BY <1>10 DEF Send, TaskOnly, Free
<1>11. ASSUME AssertFails
       PROVE  SaidInv'
  BY <1>11 DEF AssertFails, TaskOnly
<1>12. ASSUME NEW r \in Request, NEW class \in Class, Receive(r, class)
       PROVE  SaidInv'
  BY <1>12 DEF Receive, TokenMatches, TaskOnly
<1>13. ASSUME IoFails
       PROVE  SaidInv'
  BY <1>13 DEF IoFails, TaskOnly
<1>14. ASSUME IoDone
       PROVE  SaidInv'
  BY <1>14 DEF IoDone, TaskOnly
<1>15. ASSUME TakeAck
       PROVE  SaidInv'
  BY <1>15 DEF TakeAck, TaskOnly, Free
<1>16. ASSUME FinishIoError
       PROVE  SaidInv'
  BY <1>16 DEF FinishIoError, Finish, TaskOnly
<1>17. ASSUME FinishTimeout
       PROVE  SaidInv'
  BY <1>17 DEF FinishTimeout, Finish, TaskOnly, Disconnect, Tell
<1>18. ASSUME FinishOk
       PROVE  SaidInv'
  BY <1>18 DEF FinishOk, Finish, TaskOnly, Tell
<1>19. ASSUME StartSession
       PROVE  SaidInv'
  BY <1>19 DEF StartSession, EnvironmentOnly
<1>20. ASSUME EndSession
       PROVE  SaidInv'
  BY <1>20 DEF EndSession, EnvironmentOnly, Disconnect, Tell
<1>21. ASSUME SetRunning
       PROVE  SaidInv'
  BY <1>21 DEF SetRunning, EnvironmentOnly
<1>22. ASSUME RegisterEventCallback
       PROVE  SaidInv'
  BY <1>22 DEF RegisterEventCallback, EnvironmentOnly
<1>23. ASSUME NEW r \in Request, Lose(r)
       PROVE  SaidInv'
  BY <1>23 DEF Lose, EnvironmentOnly
<1>24. ASSUME NEW counted \in BOOLEAN, Tick(counted)
       PROVE  SaidInv'
  BY <1>24 DEF Tick, EnvironmentOnly, Down
<1>25. CASE UNCHANGED vars
  BY <1>25, QueueSame DEF vars
<1> HIDE DEF IInv, TypeOK, CallerTypeOK, TimeTypeOK, ObjectTypeOK, TaskTypeOK,
  HistoryTypeOK, OutcomeInv, callerVars, objectVars, taskVars, sessionVars, historyVars,
  SessionTypeOK, SaidInv, EventsMatch
<1> QED
  BY ApiBegins, <1>1, <1>2, <1>3, <1>4, <1>5, <1>6, <1>7, <1>8, <1>9,
     <1>10, <1>11, <1>12, <1>13, <1>14, <1>15, <1>16, <1>17, <1>18,
     <1>19, <1>20, <1>21, <1>22, <1>23, <1>24, <1>25
  DEF Next, Caller, CallerStep, Task, Environment

-----------------------------------------------------------------------------
\* Nothing has been told when the client has just been allocated.
LEMMA OutcomeInit == Init => OutcomeInv
BY ForeverAssumption
DEF Init, OutcomeInv, AgeInv, ServeInv, ToldInv, CallbackSettled, SaidInv, EventsMatch,
    Serving

\* No step breaks either invariant.
LEMMA OutcomeStep == IInv /\ OutcomeInv /\ [Next]_vars => IInv' /\ OutcomeInv'
BY IStep, AgeStep, ServeStep, ToldStep, SettledStep, SaidStep DEF OutcomeInv

\* Both invariants hold in every reachable state.
THEOREM OutcomeInvariant == Spec => [](IInv /\ OutcomeInv)
<1> QED BY IInit, OutcomeInit, OutcomeStep, PTL DEF Spec

\* Every request that was sent and completed had its callback told once, or of a
\* response and then of a timeout, or of nothing when its response came too late.
THEOREM CallbacksSettled == Spec => []CallbackSettled
<1>1. OutcomeInv => CallbackSettled
  BY DEF OutcomeInv
<1> QED BY <1>1, OutcomeInvariant, PTL

\* The last event an application was told is the state of the session.
THEOREM EventsTruthful == Spec => []EventsMatch
<1>1. OutcomeInv => EventsMatch
  BY DEF OutcomeInv, SaidInv
<1> QED BY <1>1, OutcomeInvariant, PTL

\* The session becomes connected only by a response to the request just completed.
THEOREM ConnectedByAnswer == Spec => ConnectedMeansAnswered
<1> DEFINE Step == ~connected /\ connected' => cur # None /\ answer[cur] # "none"
<1>1. ASSUME IInv, OutcomeInv, Next
      PROVE  Step
  <2>1. \/ connected' = connected
        \/ connected' = FALSE
        \/ FinishOk
    <3>1. ASSUME NEW r \in Request, CallerStep(r) \/ Recycle(r)
          PROVE  connected' = connected
      BY <3>1 DEF CallerStep, Recycle, Enqueue, EnqueueFails, StartWait,
                  StartWaitDeleted, Wake, GiveAck, CallerOnly, sessionVars
    <3>2. ASSUME NEW r \in Request, Empty(r) \/ ApiCall(r)
          PROVE  connected' = connected
      BY <3>2, ApiBegins DEF Begin, CallerOnly, sessionVars
    <3>3. ASSUME Task, ~FinishOk
          PROVE  connected' = connected \/ connected' = FALSE
      BY <3>3 DEF Task, AgeOut, Send, AssertFails, Receive, IoFails, IoDone, TakeAck,
                  FinishIoError, FinishTimeout, Disconnect, sessionVars
    <3>4. ASSUME Environment
          PROVE  connected' = connected \/ connected' = FALSE
      BY <3>4 DEF Environment, StartSession, EndSession, Disconnect, SetRunning,
                  RegisterEventCallback, Lose, Tick, sessionVars
    <3> QED BY <1>1, <3>1, <3>2, <3>3, <3>4 DEF Next, Caller
  <2>2. ASSUME FinishOk
        PROVE  cur \in Request /\ answer[cur] # "none"
    <3>1. cur \in Request /\ gotResponse
      BY <1>1, <2>2
      DEF FinishOk, Finish, IInv, PathInv, CurInv, Serving, OutcomeInv, ServeInv,
          TypeOK, TaskTypeOK
    <3> QED
      BY <1>1, <2>2, <3>1 DEF FinishOk, Finish, Serving, OutcomeInv, ServeInv
  <2> QED BY <2>1, <2>2, NoneAssumption
<1>2. IInv /\ OutcomeInv /\ [Next]_vars => IInv' /\ OutcomeInv'
  BY OutcomeStep
<1>3. Init => IInv /\ OutcomeInv
  BY IInit, OutcomeInit
<1>4. IInv /\ OutcomeInv /\ [Next]_vars => [Step]_vars
  BY <1>1
<1> QED BY <1>2, <1>3, <1>4, PTL DEF Spec, ConnectedMeansAnswered

-----------------------------------------------------------------------------
(* Nobody waits in vain. *)

\* A step of the caller of r, which leaves the coap task and the other calls alone.
LEMMA WaitCaller ==
  ASSUME WaitInv, NEW r \in Request, UNCHANGED <<tpc, cur>>, Queued' \subseteq Queued \cup {r},
         Queued \subseteq Queued',
         \A q \in Request \ {r} : /\ cpc'[q] = cpc[q] /\ handles'[q] = handles[q]
                                 /\ ack'[q] = ack[q] /\ bits'[q] = bits[q],
         tpc = "ack" => cur \in Request,
         tpc = "ack" /\ cur = r => ack'[r] \/ cpc'[r] = "woken",
         cpc'[r] \in {"sent", "waiting"} => Held(r)' \/ handles'[r] = "deleted",
         Held(r)' /\ handles'[r] = "live" => ack'[r] \/ InWait(r)'
  PROVE  WaitInv'
BY DEF WaitInv, NobodyWaitsInVain, Held, InWait

\* The handshake goes on: whoever waits is owed a step of the other side.
LEMMA WaitStep ==
  ASSUME IInv, IInv', WaitInv, [Next]_vars PROVE WaitInv'
<1> USE NoneAssumption, InputAssumption
  DEF IInv, TypeOK, CallerTypeOK, ObjectTypeOK, TaskTypeOK, HistoryTypeOK,
  callerVars, objectVars, taskVars, sessionVars, historyVars,
  PathInv, QueuedInv, CurInv, Fresh, Serving, Pending,
  FreshInv, ObjectInv, HandleInv, HandlesOwned, Held, InWait,
  WaitInv, NobodyWaitsInVain
<1>1. ASSUME NEW r \in Request, NEW op \in Type, NEW s \in BOOLEAN,
             NEW tmo \in Ticks, NEW copy \in BOOLEAN, Begin(r, op, s, tmo, copy)
      PROVE  WaitInv'
  <2>1. /\ UNCHANGED <<tpc, cur>> /\ Queued' = Queued /\ ~Held(r) /\ ~Held(r)'
        /\ tpc = "ack" => cur # r /\ cur \in Request
        /\ cpc'[r] \in {"called", "returned"}
    BY <1>1, QueueSame DEF Begin, Return, CallerOnly
  <2>2. \A q \in Request \ {r} : /\ cpc'[q] = cpc[q] /\ handles'[q] = handles[q]
                                /\ ack'[q] = ack[q] /\ bits'[q] = bits[q]
    BY <1>1 DEF Begin, Return
  <2>3. /\ tpc = "ack" /\ cur = r => ack'[r] \/ cpc'[r] = "woken"
        /\ cpc'[r] \in {"sent", "waiting"} => Held(r)' \/ handles'[r] = "deleted"
        /\ Held(r)' /\ handles'[r] = "live" => ack'[r] \/ InWait(r)'
    BY <2>1
  <2>4. /\ UNCHANGED <<tpc, cur>> /\ Queued' \subseteq Queued \cup {r}
        /\ Queued \subseteq Queued' /\ (tpc = "ack" => cur \in Request)
    BY <2>1
  <2> HIDE DEF IInv, Held, InWait, Fresh, Serving, WaitInv
  <2> QED BY <2>2, <2>3, <2>4, WaitCaller
<1>2. ASSUME NEW r \in Request, Enqueue(r)
      PROVE  WaitInv'
  <2>1. /\ UNCHANGED <<tpc, cur>> /\ Queued' = Queued \cup {r}
        /\ tpc = "ack" => cur # r /\ cur \in Request
        /\ cpc'[r] = IF sync[r] THEN "sent" ELSE "returned"
        /\ handles'[r] = "live" => sync[r]
    BY <1>2, QueuedOfAppend DEF Enqueue, Return
  <2>2. \A q \in Request \ {r} : /\ cpc'[q] = cpc[q] /\ handles'[q] = handles[q]
                                /\ ack'[q] = ack[q] /\ bits'[q] = bits[q]
    BY <1>2 DEF Enqueue, Return
  <2> QED BY <2>1, <2>2, WaitCaller
<1>3. ASSUME NEW r \in Request, EnqueueFails(r)
      PROVE  WaitInv'
  BY <1>3, QueueSame DEF EnqueueFails, Return, CallerOnly, Free
<1>4. ASSUME NEW r \in Request, StartWait(r)
      PROVE  WaitInv'
  BY <1>4, QueueSame DEF StartWait, CallerOnly
<1>5. ASSUME NEW r \in Request, StartWaitDeleted(r)
      PROVE  WaitInv'
  BY <1>5, QueueSame DEF StartWaitDeleted, CallerOnly
<1>6. ASSUME NEW r \in Request, Wake(r)
      PROVE  WaitInv'
  BY <1>6, QueueSame DEF Wake, CallerOnly
<1>7. ASSUME NEW r \in Request, GiveAck(r)
      PROVE  WaitInv'
  <2>1. /\ UNCHANGED <<tpc, cur, handles, bits>> /\ Queued' = Queued
        /\ cpc'[r] = "returned"
        /\ ack'[r] = (ack[r] \/ handles[r] = "live")
        /\ Held(r) => handles[r] = "live"
    BY <1>7, QueueSame DEF GiveAck, Return, CallerOnly, Life
  <2>2. \A q \in Request \ {r} : /\ cpc'[q] = cpc[q] /\ handles'[q] = handles[q]
                                /\ ack'[q] = ack[q] /\ bits'[q] = bits[q]
    BY <1>7 DEF GiveAck, Return
  <2>3. tpc = "ack" => cur \in Request
    OBVIOUS
  <2> QED BY <2>1, <2>2, <2>3, WaitCaller
<1>8. ASSUME NEW r \in Request, Recycle(r)
      PROVE  WaitInv'
  BY <1>8, QueueSame DEF Recycle
<1>9. ASSUME AgeOut
      PROVE  WaitInv'
  <2>1. PICK r \in Request :
          /\ Queued' = Queued \ {r} /\ r \in Queued /\ cur # r
          /\ handles' = Free(r, handles)
          /\ UNCHANGED <<tpc, cur, cpc, ack, bits>> /\ tpc = "recv"
    BY <1>9, QueuedOfTail, HeadIsRequest DEF AgeOut, TaskOnly
  <2>2. cpc[r] \in {"sent", "waiting"} => handles'[r] = "deleted"
    BY <2>1 DEF Free, Life
  <2>3. \A q \in Request \ {r} : handles'[q] = handles[q]
    BY <2>1 DEF Free
  <2>4. ~Held(r)'
    BY <2>1
  <2> HIDE <1>9
  <2>5. \A q \in Request \ {r} : Held(q)' = Held(q)
    BY <2>1
  <2> QED BY <2>1, <2>2, <2>3, <2>4, <2>5
<1>10. ASSUME Send
       PROVE  WaitInv'
  BY <1>10, QueuedOfTail, HeadIsRequest DEF Send, TaskOnly, Free
<1>11. ASSUME AssertFails
       PROVE  WaitInv'
  BY <1>11, QueueSame DEF AssertFails, TaskOnly
<1>12. ASSUME NEW r \in Request, NEW class \in Class, Receive(r, class)
       PROVE  WaitInv'
  BY <1>12, QueueSame DEF Receive, TokenMatches, TaskOnly
<1>13. ASSUME IoFails
       PROVE  WaitInv'
  BY <1>13, QueueSame DEF IoFails, TaskOnly
<1>14. ASSUME IoDone
       PROVE  WaitInv'
  <2>1. /\ tpc = "io" /\ cur \in Request /\ tpc' \in {"ack", "finish"}
        /\ UNCHANGED <<cur, cpc, ack, handles>> /\ Queued' = Queued
        /\ handles[cur] \in {"none", "live"}
    BY <1>14, QueueSame DEF IoDone, TaskOnly, Life
  <2>2. IF tpc' = "ack" THEN handles[cur] = "live" /\ bits'[cur] # "none"
                        ELSE handles[cur] = "none"
    BY <1>14, <2>1 DEF IoDone
  <2>3. \A q \in Request \ {cur} : Held(q)' = Held(q)
    BY <2>1
  <2> HIDE <1>14
  <2> QED BY <2>1, <2>2, <2>3
<1>15. ASSUME TakeAck
       PROVE  WaitInv'
  BY <1>15, QueueSame DEF TakeAck, TaskOnly, Free
<1>16. ASSUME FinishIoError
       PROVE  WaitInv'
  BY <1>16, QueueSame DEF FinishIoError, Finish, TaskOnly
<1>17. ASSUME FinishTimeout
       PROVE  WaitInv'
  BY <1>17, QueueSame DEF FinishTimeout, Finish, TaskOnly
<1>18. ASSUME FinishOk
       PROVE  WaitInv'
  BY <1>18, QueueSame DEF FinishOk, Finish, TaskOnly
<1>19. ASSUME StartSession
       PROVE  WaitInv'
  BY <1>19, QueueSame DEF StartSession, EnvironmentOnly
<1>20. ASSUME EndSession
       PROVE  WaitInv'
  BY <1>20, QueueSame DEF EndSession, EnvironmentOnly
<1>21. ASSUME SetRunning
       PROVE  WaitInv'
  BY <1>21, QueueSame DEF SetRunning, EnvironmentOnly
<1>22. ASSUME RegisterEventCallback
       PROVE  WaitInv'
  BY <1>22, QueueSame DEF RegisterEventCallback, EnvironmentOnly
<1>23. ASSUME NEW r \in Request, Lose(r)
       PROVE  WaitInv'
  BY <1>23, QueueSame DEF Lose, EnvironmentOnly
<1>24. ASSUME NEW counted \in BOOLEAN, Tick(counted)
       PROVE  WaitInv'
  BY <1>24, QueueSame DEF Tick, EnvironmentOnly
<1>25. CASE UNCHANGED vars
  BY <1>25, QueueSame DEF vars
<1> HIDE DEF IInv, TypeOK, CallerTypeOK, ObjectTypeOK, TaskTypeOK, HistoryTypeOK,
  callerVars, objectVars, taskVars, sessionVars, historyVars,
  PathInv, QueuedInv, CurInv, Fresh, Serving, Pending,
  FreshInv, ObjectInv, HandleInv, HandlesOwned, Held, InWait,
  WaitInv, NobodyWaitsInVain
<1> QED
  BY ApiBegins, <1>1, <1>2, <1>3, <1>4, <1>5, <1>6, <1>7, <1>8, <1>9,
     <1>10, <1>11, <1>12, <1>13, <1>14, <1>15, <1>16, <1>17, <1>18,
     <1>19, <1>20, <1>21, <1>22, <1>23, <1>24, <1>25
  DEF Next, Caller, CallerStep, Task, Environment


\* The coap task never waits for an acknowledgement that nobody will give, and a
\* caller never waits on an event group that nobody will set or delete.
THEOREM HandshakeGoesOn == Spec => []NobodyWaitsInVain
<1>1. Init => WaitInv
  BY NoneAssumption DEF Init, WaitInv, NobodyWaitsInVain, Held, Queued
<1>2. IInv /\ IInv' /\ WaitInv /\ [Next]_vars => WaitInv'
  BY WaitStep
<1>3. WaitInv => NobodyWaitsInVain
  BY DEF WaitInv
<1> QED BY <1>1, <1>2, <1>3, Invariant, PTL DEF Spec
=============================================================================
