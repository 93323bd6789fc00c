-------------------------- MODULE CoapClientProofs --------------------------
(***************************************************************************)
(* The client implements the request path, so that what is proved of       *)
(* CoapRequests holds of the whole client; and the invariants of the       *)
(* client's own state.                                                     *)
(***************************************************************************)
EXTENDS CoapClient, CoapServiceProofs, FiniteSetTheorems

-----------------------------------------------------------------------------
(* The client implements the request path. *)

\* A step of the coap task's outer loop is a step of the request path, or leaves
\* its variables alone.
LEMMA LifecycleIsStep ==
  ASSUME Live, OwnTypeOK, DormantInv, Lifecycle PROVE [Next]_vars
<1>1. ASSUME NEW r \in Request, CallerStep(r) \/ Empty(r)
      PROVE  Next
  BY <1>1 DEF Next, Caller
<1>2. CASE Reset \/ CreateSession \/ Restore \/ Cleanup
  BY <1>2 DEF Reset, CreateSession, Restore, Cleanup, Next, Environment
<1>3. CASE TakeRunSem \/ GiveRunSem \/ Loop \/ Delay
  BY <1>3 DEF TakeRunSem, GiveRunSem, Loop, Delay
<1>4. CASE Seed
  BY <1>1, <1>4, PingAssumption DEF Seed
<1>5. CASE EnqueueSeed
  <2>1. seed \in Request
    BY <1>5, PingAssumption DEF EnqueueSeed, Goto, DormantInv, OwnTypeOK
  <2> QED BY <1>1, <1>5, <2>1 DEF EnqueueSeed, CallerStep
<1>6. CASE Iterate
  BY <1>6 DEF Iterate, Next, Task
<1> QED BY <1>2, <1>3, <1>4, <1>5, <1>6 DEF Lifecycle

\* So is a step of the timer task, of the application or of what is outside.
LEMMA OthersAreSteps ==
  ASSUME Live, OwnTypeOK, Keepalive \/ Application \/ Outside PROVE [Next]_vars
<1>1. ASSUME NEW r \in Request, Caller(r) \/ Lose(r)
      PROVE  Next
  BY <1>1 DEF Next, Environment
<1>2. CASE OnKeepalive
  BY <1>1, <1>2, PingAssumption DEF OnKeepalive, Caller
<1>3. CASE EnqueueKeepalive
  <2>1. keepalive \in Request
    BY <1>3, PingAssumption DEF EnqueueKeepalive, OwnTypeOK
  <2> QED BY <1>1, <1>3, <2>1 DEF EnqueueKeepalive, Caller, CallerStep
<1>4. CASE Application
  <2>1. CASE \E r \in App : ApiCall(r) \/ CallerStep(r)
    BY <1>1, <2>1 DEF App, Caller
  <2>2. CASE RegisterEventCallback \/ CreateReturns
    BY <2>2 DEF CreateReturns, Next, Environment
  <2>3. CASE Start \/ Stop \/ Destroy
    BY <2>3 DEF Start, Stop, Destroy
  <2> QED BY <1>4, <2>1, <2>2, <2>3 DEF Application
<1>5. CASE Outside
  BY <1>1, <1>5 DEF Outside, Caller, Next, Environment
<1> QED BY <1>2, <1>3, <1>4, <1>5 DEF Keepalive

\* Every step of the client is one of the request path or none.
LEMMA ClientStep ==
  ASSUME OwnTypeOK, DormantInv, [LifeNext]_allVars PROVE [Next]_vars
<1>1. CASE LifeNext
  BY <1>1, LifecycleIsStep, OthersAreSteps DEF LifeNext
<1>2. CASE UNCHANGED allVars
  BY <1>2 DEF allVars
<1> QED BY <1>1, <1>2

-----------------------------------------------------------------------------
(* The invariants of the client's own state. *)

\* A call changes nothing of the coap task but the queue, and that at its end.
LEMMA CallsLeaveTask ==
  ASSUME NEW r \in Request, Empty(r) \/ ApiCall(r) \/ CallerStep(r) \/ Recycle(r)
  PROVE  /\ tpc' = tpc /\ isRunning' = isRunning
         /\ queue' = queue \/ queue' = Append(queue, r)
         /\ Empty(r) \/ ApiCall(r) => queue' = queue
<1>1. CASE Empty(r) \/ ApiCall(r)
  BY <1>1, ApiBegins DEF Begin, CallerOnly, taskVars
<1>2. CASE CallerStep(r) \/ Recycle(r)
  <2>1. tpc' = tpc /\ isRunning' = isRunning
        /\ (queue' = queue \/ queue' = Append(queue, r))
    BY <1>2 DEF CallerStep, Enqueue, EnqueueFails, StartWait, StartWaitDeleted, Wake,
       GiveAck, Recycle, CallerOnly, taskVars
  <2>2. Empty(r) \/ ApiCall(r) => queue' = queue
    BY ApiBegins DEF Begin, CallerOnly
  <2> QED BY <2>1, <2>2
<1> QED BY <1>1, <1>2

\* What is around the coap task leaves it alone, and makes the client run at most.
LEMMA OthersLeaveTask ==
  ASSUME OwnTypeOK, Keepalive \/ Application \/ Outside
  PROVE  /\ tpc' = tpc /\ seed' = seed
         /\ isRunning' = isRunning \/ isRunning'
         /\ lpc' \in {lpc, "deleted"}
<1>1. CASE OnKeepalive
  BY <1>1, CallsLeaveTask, PingAssumption DEF OnKeepalive
<1>2. CASE EnqueueKeepalive
  <2>1. keepalive \in Request /\ CallerStep(keepalive)
    BY <1>2, PingAssumption DEF EnqueueKeepalive, OwnTypeOK, CallerStep
  <2> QED BY <1>2, <2>1, CallsLeaveTask DEF EnqueueKeepalive
<1>3. CASE Application
  <2>1. ASSUME NEW r \in App, ApiCall(r) \/ CallerStep(r), UNCHANGED lifeVars
        PROVE  tpc' = tpc /\ isRunning' = isRunning /\ seed' = seed /\ lpc' = lpc
    BY <2>1, CallsLeaveTask DEF App, lifeVars
  <2>2. CASE RegisterEventCallback /\ created /\ UNCHANGED lifeVars
    BY <2>2 DEF RegisterEventCallback, lifeVars
  <2>3. CASE CreateReturns
    BY <2>3 DEF CreateReturns, SetRunning, vars, taskVars
  <2>4. CASE Start \/ Stop \/ Destroy
    BY <2>4 DEF Start, Stop, Destroy, vars, taskVars
  <2> QED BY <1>3, <2>1, <2>2, <2>3, <2>4 DEF Application
<1>4. CASE Outside
  <2>1. ASSUME NEW r \in Request, Recycle(r)
        PROVE  tpc' = tpc /\ isRunning' = isRunning
    BY <2>1, CallsLeaveTask
  <2> QED BY <1>4, <2>1 DEF Outside, Tick, Lose, EnvironmentOnly, lifeVars
<1> QED BY <1>1, <1>2, <1>3, <1>4 DEF Keepalive

\* The coap task runs, has a session and enqueues its EMPTY only where its loop
\* says so.
LEMMA DormantStep ==
  ASSUME OwnTypeOK, DormantInv, [LifeNext]_allVars PROVE DormantInv'
<1> USE NoneAssumption, PingAssumption
    DEF OwnTypeOK, DormantInv, LifePC, Goto, vars, taskVars
<1>1. CASE Reset
  BY <1>1 DEF Reset, SetRunning
<1>2. CASE TakeRunSem \/ GiveRunSem
  BY <1>2 DEF TakeRunSem, GiveRunSem
<1>3. CASE CreateSession
  BY <1>3 DEF CreateSession, SetRunning
<1>4. CASE Seed
  <2>1. ASSUME NEW p \in Ping, Empty(p)
        PROVE  tpc' = tpc /\ isRunning' = isRunning
    BY <2>1, CallsLeaveTask
  <2> QED BY <1>4, <2>1 DEF Seed
<1>5. CASE EnqueueSeed
  <2>1. seed \in Request /\ CallerStep(seed)
    BY <1>5 DEF EnqueueSeed, CallerStep
  <2>2. tpc' = tpc /\ isRunning' = isRunning
    BY <2>1, CallsLeaveTask
  <2> QED BY <1>5, <2>2 DEF EnqueueSeed
<1>6. CASE Restore
  BY <1>6 DEF Restore, StartSession
<1>7. CASE Loop
  BY <1>7 DEF Loop
<1>8. CASE Iterate
  <2>1. lpc' \in {"iter", "loop"} /\ lpc = "iter" /\ seed' = seed
    BY <1>8 DEF Iterate
  <2>2. isRunning' = isRunning
    BY <1>8 DEF Iterate, AgeOut, Send, AssertFails, Receive, IoFails, IoDone, TakeAck,
       FinishIoError, FinishTimeout, FinishOk, Finish, TaskOnly
  <2> QED BY <2>1, <2>2
<1>9. CASE Cleanup
  BY <1>9 DEF Cleanup, EndSession
<1>10. CASE Delay
  BY <1>10 DEF Delay
<1>11. CASE Keepalive \/ Application \/ Outside
  BY <1>11, OthersLeaveTask
<1>12. CASE UNCHANGED allVars
  BY <1>12 DEF allVars, lifeVars
<1> QED
  BY <1>1, <1>2, <1>3, <1>4, <1>5, <1>6, <1>7, <1>8, <1>9, <1>10, <1>11, <1>12
  DEF LifeNext, Lifecycle

\* The client's own variables keep their types.
LEMMA OwnTypeStep ==
  ASSUME OwnTypeOK, [LifeNext]_allVars PROVE OwnTypeOK'
<1> USE DEF OwnTypeOK, LifePC, Goto
<1>1. CASE Reset \/ TakeRunSem \/ GiveRunSem \/ CreateSession
  BY <1>1 DEF Reset, TakeRunSem, GiveRunSem, CreateSession
<1>2. CASE Seed \/ EnqueueSeed \/ Restore
  BY <1>2 DEF Seed, EnqueueSeed, Restore
<1>3. CASE Loop \/ Cleanup \/ Delay
  BY <1>3 DEF Loop, Cleanup, Delay
<1>4. CASE Iterate
  BY <1>4 DEF Iterate
<1>5. CASE Keepalive
  BY <1>5 DEF Keepalive, OnKeepalive, EnqueueKeepalive
<1>6. CASE Application \/ Outside
  BY <1>6 DEF Application, CreateReturns, Start, Stop, Destroy, Outside, lifeVars
<1>7. CASE UNCHANGED allVars
  BY <1>7 DEF allVars, lifeVars
<1> QED
  BY <1>1, <1>2, <1>3, <1>4, <1>5, <1>6, <1>7 DEF LifeNext, Lifecycle

\* Outside of Seed, OnKeepalive and the enqueueing that follows them, the set of
\* the client's own requests does not grow.
LEMMA PingsShrink ==
  ASSUME PingInv, Queued' \cap Ping \subseteq Queued,
         seed' \in {seed, None}, keepalive' \in {keepalive, None}
  PROVE  PingInv'
<1>1. Pings' \subseteq Pings
  BY DEF Pings
<1> QED BY <1>1 DEF PingInv

\* An EMPTY that is enqueued, or dropped, was one of the client's own already.
LEMMA PingEnqueued ==
  ASSUME IInv, PingInv, NEW p \in Ping, p \in {seed, keepalive},
         Enqueue(p) \/ EnqueueFails(p),
         seed' \in {seed, None}, keepalive' \in {keepalive, None}
  PROVE  PingInv'
<1>1. Queued' \subseteq Queued \cup {p}
  <2>1. CASE Enqueue(p)
    BY <2>1, QueuedOfAppend, PingAssumption DEF Enqueue, IInv, TypeOK, PathInv
  <2>2. CASE EnqueueFails(p)
    BY <2>2, QueueSame DEF EnqueueFails, CallerOnly
  <2> QED BY <2>1, <2>2
<1>2. p # None
  BY NoneAssumption, PingAssumption
<1>3. Pings' \subseteq Pings
  BY <1>1, <1>2 DEF Pings
<1> QED BY <1>3 DEF PingInv

\* A new EMPTY is prepared only when the queue is empty: there are at most this
\* one and the one that the other task is preparing.
LEMMA PingPrepared ==
  ASSUME NEW p \in Ping, queue = <<>>, queue' = queue, OwnTypeOK,
         \/ seed' = p /\ keepalive' = keepalive
         \/ keepalive' = p /\ seed' = seed
  PROVE  PingInv'
<1>1. Queued' = {}
  BY DEF Queued
<1>2. CASE seed' = p /\ keepalive' = keepalive
  <2>1. Pings' \subseteq {p, keepalive}
    BY <1>1, <1>2 DEF Pings
  <2> QED BY <2>1 DEF PingInv, OwnTypeOK
<1>3. CASE keepalive' = p /\ seed' = seed
  <2>1. Pings' \subseteq {p, seed}
    BY <1>1, <1>3 DEF Pings
  <2> QED BY <2>1 DEF PingInv, OwnTypeOK
<1> QED BY <1>2, <1>3

\* The client's own requests number two at most.
LEMMA PingStep ==
  ASSUME IInv, OwnTypeOK, DormantInv, PingInv, [LifeNext]_allVars
  PROVE  PingInv'
<1>1. CASE Seed
  <2>1. CASE UNCHANGED <<vars, seed, keepalive>>
    BY <2>1, QueueSame, PingsShrink DEF vars
  <2>2. CASE \E p \in Ping :
               queue = <<>> /\ Empty(p) /\ seed' = p /\ UNCHANGED keepalive
    BY <2>2, PingPrepared, CallsLeaveTask, PingAssumption
  <2> QED BY <1>1, <2>1, <2>2 DEF Seed
<1>2. CASE EnqueueSeed
  <2>1. seed \in Ping
    BY <1>2 DEF EnqueueSeed, Goto, DormantInv, OwnTypeOK
  <2> QED BY <1>2, <2>1, PingEnqueued DEF EnqueueSeed
<1>3. CASE OnKeepalive
  BY <1>3, PingPrepared, CallsLeaveTask, PingAssumption DEF OnKeepalive
<1>4. CASE EnqueueKeepalive
  <2>1. keepalive \in Ping
    BY <1>4 DEF EnqueueKeepalive, OwnTypeOK
  <2> QED BY <1>4, <2>1, PingEnqueued DEF EnqueueKeepalive
<1>5. CASE Iterate
  <2>1. queue' = queue \/ (queue # <<>> /\ queue' = Tail(queue))
    <3>1. ASSUME AgeOut \/ Send
          PROVE  queue # <<>> /\ queue' = Tail(queue)
      BY <3>1 DEF AgeOut, Send
    <3>2. ASSUME \E r \in Request, class \in Class : Receive(r, class)
          PROVE  queue' = queue
      BY <3>2 DEF Receive
    <3>3. ASSUME AssertFails \/ IoFails \/ IoDone \/ TakeAck
          PROVE  queue' = queue
      BY <3>3 DEF AssertFails, IoFails, IoDone, TakeAck
    <3>4. ASSUME FinishIoError \/ FinishTimeout \/ FinishOk
          PROVE  queue' = queue
      BY <3>4 DEF FinishIoError, FinishTimeout, FinishOk, Finish
    <3>5. ASSUME UNCHANGED vars
          PROVE  queue' = queue
      BY <3>5 DEF vars
    <3>6. \/ AgeOut \/ Send \/ UNCHANGED vars
          \/ \E r \in Request, class \in Class : Receive(r, class)
          \/ AssertFails \/ IoFails \/ IoDone \/ TakeAck
          \/ FinishIoError \/ FinishTimeout \/ FinishOk
      BY <1>5, Zenon DEF Iterate
    <3> QED BY <3>1, <3>2, <3>3, <3>4, <3>5, <3>6, Zenon
  <2>2. Queued' \subseteq Queued
    BY <2>1, QueueSame, QueuedOfTail DEF IInv, TypeOK, PathInv
  <2> QED BY <1>5, <2>2, PingsShrink DEF Iterate
<1>6. CASE Application
  <2>1. ASSUME NEW r \in App, ApiCall(r) \/ CallerStep(r)
        PROVE  Queued' \cap Ping \subseteq Queued
    <3>1. queue' = queue \/ queue' = Append(queue, r)
      BY <2>1, CallsLeaveTask DEF App
    <3>2. Queued' \subseteq Queued \cup {r}
      BY <3>1, QueueSame, QueuedOfAppend DEF IInv, TypeOK, PathInv, App
    <3> QED BY <3>2 DEF App
  <2>2. CASE \/ RegisterEventCallback /\ created /\ UNCHANGED lifeVars
             \/ CreateReturns \/ Start \/ Stop \/ Destroy
    <3>1. queue' = queue /\ seed' = seed /\ keepalive' = keepalive
      BY <2>2 DEF RegisterEventCallback, CreateReturns, SetRunning, EnvironmentOnly,
         Start, Stop, Destroy, vars, lifeVars
    <3> QED BY <3>1, QueueSame, PingsShrink
  <2> QED BY <1>6, <2>1, <2>2, PingsShrink DEF Application, lifeVars
<1>7. CASE \/ Reset \/ TakeRunSem \/ GiveRunSem \/ CreateSession \/ Restore \/ Loop
           \/ Cleanup \/ Delay \/ Outside \/ UNCHANGED allVars
  <2>1. queue' = queue /\ seed' = seed /\ keepalive' = keepalive
    BY <1>7 DEF Reset, TakeRunSem, GiveRunSem, CreateSession, Restore, Loop, Cleanup,
       Delay, Outside, Tick, Lose, Recycle, StartSession, EndSession, SetRunning,
       EnvironmentOnly, vars, lifeVars, allVars
  <2> QED BY <2>1, QueueSame, PingsShrink
<1> QED
  BY <1>1, <1>2, <1>3, <1>4, <1>5, <1>6, <1>7 DEF LifeNext, Lifecycle, Keepalive

\* A client that is being created is dormant and has no request.
LEMMA LifeStart == LifeInit => LifeInv
<1> SUFFICES ASSUME LifeInit PROVE LifeInv
  OBVIOUS
<1>1. IInv
  BY IInit DEF LifeInit
<1>2. OwnTypeOK
  BY DEF LifeInit, OwnTypeOK, LifePC
<1>3. DormantInv
  BY DEF LifeInit, Init, DormantInv
<1>4. Pings = {}
  BY DEF LifeInit, Init, Pings, Queued
<1>5. PingInv
  BY <1>4 DEF PingInv
<1> QED BY <1>1, <1>2, <1>3, <1>5 DEF LifeInv

\* No step of the client breaks its invariant, and each is one of the request path.
LEMMA LifeStep ==
  LifeInv /\ [LifeNext]_allVars => LifeInv' /\ [Next]_vars
<1> SUFFICES ASSUME LifeInv, [LifeNext]_allVars PROVE LifeInv' /\ [Next]_vars
  OBVIOUS
<1>1. IInv /\ OwnTypeOK /\ DormantInv /\ PingInv
  BY DEF LifeInv
<1>2. [Next]_vars
  BY <1>1, ClientStep
<1>3. IInv'
  BY <1>1, <1>2, IStep
<1> QED BY <1>1, <1>2, <1>3, OwnTypeStep, DormantStep, PingStep DEF LifeInv

\* The client keeps its invariant.
THEOREM LifeInvariant == LifeSpec => []LifeInv
<1> QED BY LifeStart, LifeStep, PTL DEF LifeSpec

\* The client implements the request path, whose theorems are therefore the
\* client's: start, stop, keepalive and destroy add nothing to what CoapRequests
\* allows its environment.
THEOREM ClientImplementsRequests == LifeSpec => ImplementsRequests
<1>1. LifeInit => Init
  BY DEF LifeInit
<1> QED BY <1>1, LifeStart, LifeStep, PTL DEF LifeSpec, ImplementsRequests, Spec

\* So the whole client implements the service, with its sessions, its keepalive and
\* its life cycle.
THEOREM ClientRefinement == LifeSpec => ImplementsService
BY Refinement, ClientImplementsRequests DEF ImplementsRequests

\* Every variable of the client keeps its type.
THEOREM LifeTypeCorrect == LifeSpec => []LifeTypeOK
<1>1. LifeInv => LifeTypeOK
  BY DEF LifeInv, LifeTypeOK, IInv
<1> QED BY <1>1, LifeInvariant, PTL

\* A client that says it does not run has no session and no request in hand.
THEOREM DormantWhenNotRunning == LifeSpec => []NotRunningMeansDormant
<1>1. LifeInv => NotRunningMeansDormant
  BY DEF LifeInv, DormantInv, IInv, PathInv, CurInv, Serving, NotRunningMeansDormant
<1> QED BY <1>1, LifeInvariant, PTL

\* The client's own requests never take more than two places of the queue.
THEOREM FewPings == LifeSpec => []PingsBounded
<1>1. ASSUME LifeInv
      PROVE  PingsBounded
  <2>1. PICK a, b \in Ping \cup {None} : Pings \subseteq {a, b}
    BY <1>1 DEF LifeInv, PingInv
  <2>2. IsFiniteSet({a}) /\ Cardinality({a}) = 1
    BY FS_Singleton
  <2>3. {a} \cup {b} = {a, b}
    OBVIOUS
  <2>4. IsFiniteSet({a, b}) /\ Cardinality({a, b}) <= 2
    BY <2>2, <2>3, FS_AddElement
  <2>5. Ping \cap Queued \in SUBSET {a, b}
    BY <2>1 DEF Pings
  <2>6. /\ IsFiniteSet(Ping \cap Queued)
        /\ Cardinality(Ping \cap Queued) <= Cardinality({a, b})
    BY <2>4, <2>5, FS_Subset
  <2> QED BY <2>4, <2>6, FS_CardinalityType DEF PingsBounded
<1> QED BY <1>1, LifeInvariant, PTL

-----------------------------------------------------------------------------
(* run_sem, when start is called only on a client that was stopped. *)

\* No step loses or duplicates run_sem.
LEMMA SemStep ==
  ASSUME ~StartWhenStarted, OwnTypeOK, SemInv, [LifeNext]_allVars
  PROVE  SemInv'
<1> USE DEF OwnTypeOK, LifePC, SemInv, RunSemConserved, Holds, Goto
<1>1. CASE Lifecycle /\ lpc # "deleted"
  <2>1. CASE \/ Reset \/ CreateSession \/ Seed \/ EnqueueSeed
             \/ Restore \/ Cleanup \/ Delay
    BY <1>1, <2>1
    DEF Reset, CreateSession, Seed, EnqueueSeed, Restore, Cleanup, Delay
  <2>2. CASE TakeRunSem \/ GiveRunSem \/ Loop
    BY <1>1, <2>2 DEF TakeRunSem, GiveRunSem, Loop
  <2>3. CASE Iterate
    BY <1>1, <2>3 DEF Iterate
  <2> QED BY <1>1, <2>1, <2>2, <2>3 DEF Lifecycle
<1>2. CASE Keepalive
  BY <1>2 DEF Keepalive, OnKeepalive, EnqueueKeepalive
<1>3. CASE Application \/ Outside
  BY <1>3 DEF Application, CreateReturns, Start, Stop, Destroy, Outside, lifeVars
<1>4. CASE UNCHANGED allVars
  BY <1>4 DEF allVars, lifeVars
<1> QED BY <1>1, <1>2, <1>3, <1>4 DEF LifeNext

\* If start is never called on a client that is started, run_sem can be had
\* exactly while the application wants the client to run: no stop is lost.
THEOREM NoLostStop ==
  ASSUME ~StartWhenStarted PROVE LifeSpec => []RunSemConserved
<1>1. LifeInit => SemInv
  BY DEF LifeInit, SemInv, RunSemConserved, Holds
<1>2. OwnTypeOK /\ SemInv /\ [LifeNext]_allVars => SemInv'
  BY SemStep
<1>3. LifeInv => OwnTypeOK
  BY DEF LifeInv
<1>4. SemInv => RunSemConserved
  BY DEF SemInv
<1> QED BY <1>1, <1>2, <1>3, <1>4, LifeInvariant, PTL DEF LifeSpec
=============================================================================
