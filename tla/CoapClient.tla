----------------------------- MODULE CoapClient -----------------------------
(***************************************************************************)
(* The life of a client: golioth_client_create, start, stop, destroy, the  *)
(* coap task's outer loop and the keepalive timer, around the request path *)
(* of CoapRequests, whose actions are the steps of one loop iteration.     *)
(*                                                                         *)
(* run_sem is a binary semaphore that is available while the client may    *)
(* run: the task takes it and gives it back once per iteration, stop takes *)
(* it and start gives it.                                                  *)
(***************************************************************************)
EXTENDS CoapRequests

CONSTANTS
  Ping,             \* identities of the client's own EMPTY requests
  StartWhenStarted, \* may start be called on a client that was not stopped?
  Destroys          \* may the application destroy the client?

ASSUME PingAssumption == Ping \subseteq Request
ASSUME LifeAssumption == StartWhenStarted \in BOOLEAN /\ Destroys \in BOOLEAN

VARIABLES
  lpc,       \* the coap task in its outer loop
  runSem,    \* run_sem is available
  created,   \* golioth_client_create has returned
  seed,      \* the EMPTY request the coap task is enqueueing
  keepalive, \* the EMPTY request the timer task is enqueueing
  asked      \* what the last successful start or stop asked for

lifeVars == <<lpc, runSem, created, seed, keepalive, asked>>
allVars == <<vars, lifeVars>>

App == Request \ Ping

\* "reset": the top of the loop; "wait", "giveback": at run_sem; "running":
\* is_running is set and the session created; "seed", "seeding": the first
\* EMPTY; "restore": reestablish_observations; "loop": the loop condition and
\* xSemaphoreTake(run_sem, 0); "peek": run_sem is held; "iter":
\* coap_io_loop_once; "cleanup", "delay"; "deleted": vTaskDelete by destroy.
LifePC == {"reset", "wait", "giveback", "running", "seed", "seeding", "restore",
           "loop", "peek", "iter", "cleanup", "delay", "deleted"}

OwnTypeOK ==
  /\ lpc \in LifePC
  /\ runSem \in BOOLEAN
  /\ created \in BOOLEAN
  /\ seed \in Ping \cup {None}
  /\ keepalive \in Ping \cup {None}
  /\ asked \in {"start", "stop"}

LifeTypeOK == TypeOK /\ OwnTypeOK

LifeInit ==
  /\ Init
  /\ lpc = "reset"
  /\ runSem = TRUE
  /\ created = FALSE
  /\ seed = None
  /\ keepalive = None
  /\ asked = "start"

-----------------------------------------------------------------------------
(* golioth_coap_client_task. *)

Goto(from, to) == lpc = from /\ lpc' = to

Reset ==
  /\ Goto("reset", "wait")
  /\ IF isRunning THEN SetRunning ELSE UNCHANGED vars
  /\ UNCHANGED <<runSem, created, seed, keepalive, asked>>

TakeRunSem ==
  /\ Goto("wait", "giveback")
  /\ runSem
  /\ runSem' = FALSE
  /\ UNCHANGED <<vars, created, seed, keepalive, asked>>

\* Mutant: run_sem is not given back in the I/O loop.
GiveRunSemOnce ==
  /\ \/ Goto("giveback", "running") /\ runSem' = TRUE
     \/ Goto("peek", "iter") /\ runSem' = runSem
  /\ UNCHANGED <<vars, created, seed, keepalive, asked>>

GiveRunSem ==
  /\ \/ Goto("giveback", "running")
     \/ Goto("peek", "iter")
  /\ runSem' = TRUE
  /\ UNCHANGED <<vars, created, seed, keepalive, asked>>

\* get_coap_dst_address: the name of the host is looked up for every session; the
\* lookup fails, or brings no address, or one of a family that is not supported.
DstAddress == {"address", "GOLIOTH_ERR_DNS_LOOKUP"}

\* is_running is set, and the context and the session are created, or one of
\* them fails.
CreateSession ==
  /\ \E dst \in DstAddress :
       \/ dst = "address" /\ Goto("running", "seed")
       \/ Goto("running", "cleanup")
  /\ IF isRunning THEN UNCHANGED vars ELSE SetRunning
  /\ UNCHANGED <<runSem, created, seed, keepalive, asked>>

\* The first request of a session is an EMPTY, unless requests are waiting.
Seed ==
  \/ /\ Goto("seed", "seeding")
     /\ queue = <<>>
     /\ \E p \in Ping : Empty(p) /\ seed' = p
     /\ UNCHANGED <<runSem, created, keepalive, asked>>
  \/ /\ Goto("seed", "restore")
     /\ queue # <<>>
     /\ UNCHANGED <<vars, runSem, created, seed, keepalive, asked>>

EnqueueSeed ==
  /\ Goto("seeding", "restore")
  /\ Enqueue(seed) \/ EnqueueFails(seed)
  /\ seed' = None
  /\ UNCHANGED <<runSem, created, keepalive, asked>>

Restore ==
  /\ Goto("restore", "loop")
  /\ StartSession
  /\ UNCHANGED <<runSem, created, seed, keepalive, asked>>

\* Mutant: run_sem is looked at between sessions only.
LoopUnchecked ==
  /\ \/ tpc = "ending" /\ Goto("loop", "cleanup")
     \/ tpc # "ending" /\ Goto("loop", "iter")
  /\ UNCHANGED <<vars, runSem, created, seed, keepalive, asked>>

\* while (!end_session) and the non-blocking xSemaphoreTake(run_sem, 0).
Loop ==
  /\ \/ /\ tpc = "ending" \/ ~runSem
        /\ Goto("loop", "cleanup")
        /\ runSem' = runSem
     \/ /\ tpc # "ending"
        /\ runSem
        /\ Goto("loop", "peek")
        /\ runSem' = FALSE
  /\ UNCHANGED <<vars, created, seed, keepalive, asked>>

\* coap_io_loop_once: an idle iteration, one that drops an old request, or one
\* that sends a request and completes it.
Iterate ==
  /\ lpc = "iter"
  /\ \/ /\ tpc = "recv" /\ queue = <<>>
        /\ \/ UNCHANGED vars
           \/ \E r \in Request, class \in Class : Receive(r, class)
        /\ lpc' = "loop"
     \/ AgeOut /\ lpc' = "loop"
     \/ Send /\ lpc' = lpc
     \/ AssertFails /\ lpc' = lpc
     \/ /\ Pending
        /\ \E r \in Request, class \in Class : Receive(r, class)
        /\ lpc' = lpc
     \/ (IoFails \/ IoDone \/ TakeAck) /\ lpc' = lpc
     \/ (FinishIoError \/ FinishTimeout \/ FinishOk) /\ lpc' = "loop"
  /\ UNCHANGED <<runSem, created, seed, keepalive, asked>>

Cleanup ==
  /\ Goto("cleanup", "delay")
  /\ IF tpc = "down" THEN UNCHANGED vars ELSE EndSession
  /\ UNCHANGED <<runSem, created, seed, keepalive, asked>>

Delay ==
  /\ Goto("delay", "reset")
  /\ UNCHANGED <<vars, runSem, created, seed, keepalive, asked>>

-----------------------------------------------------------------------------
(* The timer task: on_keepalive. *)

\* Mutant: the queue is not looked at.
OnKeepaliveAlways ==
  /\ created
  /\ keepalive = None
  /\ isRunning
  /\ \E p \in Ping : Empty(p) /\ keepalive' = p
  /\ UNCHANGED <<lpc, runSem, created, seed, asked>>

OnKeepalive ==
  /\ created
  /\ keepalive = None
  /\ isRunning /\ queue = <<>> /\ ~Pending
  /\ \E p \in Ping : Empty(p) /\ keepalive' = p
  /\ UNCHANGED <<lpc, runSem, created, seed, asked>>

EnqueueKeepalive ==
  /\ keepalive # None
  /\ Enqueue(keepalive) \/ EnqueueFails(keepalive)
  /\ keepalive' = None
  /\ UNCHANGED <<lpc, runSem, created, seed, asked>>

-----------------------------------------------------------------------------
(* The application. *)

\* The end of golioth_client_create, after the coap task was created.
CreateReturns ==
  /\ ~created
  /\ created' = TRUE
  /\ IF isRunning THEN UNCHANGED vars ELSE SetRunning
  /\ UNCHANGED <<lpc, runSem, seed, keepalive, asked>>

Start ==
  /\ created
  /\ StartWhenStarted \/ asked = "stop"
  /\ runSem' = TRUE      \* no effect when it is available already
  /\ asked' = "start"
  /\ UNCHANGED <<vars, lpc, created, seed, keepalive>>

\* Mutant: stop itself says that the client is not running.
StopAtOnce ==
  /\ created
  /\ runSem
  /\ runSem' = FALSE
  /\ asked' = "stop"
  /\ isRunning' = FALSE
  /\ UNCHANGED <<callerVars, age, wait, objectVars, queue, taskVars, sessionVars,
                 inFlight, historyVars, lpc, created, seed, keepalive>>

\* stop takes run_sem; without it within 100 ms it returns GOLIOTH_ERR_TIMEOUT
\* and has changed nothing.
Stop ==
  /\ created
  /\ runSem
  /\ runSem' = FALSE
  /\ asked' = "stop"
  /\ UNCHANGED <<vars, lpc, created, seed, keepalive>>

Quiet == \A r \in App : cpc[r] \in {"idle", "returned"}

\* The application may destroy a client that it is not using.
Destroy ==
  /\ Destroys
  /\ created
  /\ Quiet
  /\ lpc' = "deleted"
  /\ UNCHANGED <<vars, runSem, created, seed, keepalive, asked>>

Application ==
  \/ /\ created
     /\ \E r \in App : ApiCall(r) \/ CallerStep(r)
     /\ UNCHANGED lifeVars
  \/ RegisterEventCallback /\ created /\ UNCHANGED lifeVars
  \/ CreateReturns \/ Start \/ Stop \/ Destroy

Outside ==
  /\ \/ \E counted \in BOOLEAN : Tick(counted)
     \/ \E r \in Request : Lose(r) \/ Recycle(r)
  /\ UNCHANGED lifeVars

-----------------------------------------------------------------------------
Lifecycle ==
  \/ Reset \/ TakeRunSem \/ GiveRunSem \/ CreateSession \/ Seed \/ EnqueueSeed
  \/ Restore \/ Loop \/ Iterate \/ Cleanup \/ Delay

Keepalive == OnKeepalive \/ EnqueueKeepalive

LifeNext ==
  /\ Live /\ lpc # "deleted"
  /\ Lifecycle \/ Keepalive \/ Application \/ Outside

LifeSpec == LifeInit /\ [][LifeNext]_allVars

(***************************************************************************)
(* Fairness.  Every task that can run does run (the scheduler is           *)
(* preemptive and no task of the SDK spins), time passes, and a session    *)
(* that is tried again and again is created in the end.  Nothing is owed   *)
(* by the network or by the application beyond finishing a call it began.  *)
(***************************************************************************)
Up == Live /\ lpc # "deleted"

Fairness ==
  /\ WF_allVars(Up /\ Lifecycle)
  /\ SF_allVars(Up /\ CreateSession /\ lpc' = "seed")
  /\ WF_allVars(Up /\ EnqueueKeepalive)
  /\ WF_allVars(Up /\ CreateReturns)
  /\ WF_allVars(Up /\ Tick(TRUE) /\ UNCHANGED lifeVars)
  /\ \A r \in App : WF_allVars(Up /\ created /\ CallerStep(r) /\ UNCHANGED lifeVars)
  /\ \A p \in Ping : WF_allVars(Up /\ Recycle(p) /\ UNCHANGED lifeVars)

FairLifeSpec == LifeSpec /\ Fairness

-----------------------------------------------------------------------------
(* Properties. *)

\* The client implements the request path: every step of it is a step of
\* CoapRequests, whose environment is thereby shown to allow all that happens.
ImplementsRequests == Spec

\* run_sem is neither lost nor duplicated: it can be had, now or after the
\* task's give, exactly while the application wants the client to run.
RunSemConserved ==
  lpc # "deleted" =>
    ((asked = "start") <=> (runSem \/ lpc \in {"giveback", "peek"}))

\* When the client says it is not running, the coap task has no session, no
\* request on its stack and is not enqueueing one.
NotRunningMeansDormant ==
  created /\ ~isRunning => tpc = "down" /\ cur = None /\ seed = None

\* The client's own requests never take more than two places of the queue: one
\* of the coap task and one of the keepalive timer.
PingsBounded == Cardinality(Ping \cap Queued) <= 2

\* golioth_client_stop: the client enters a dormant state, with the task blocked
\* on run_sem, unless it is started again or destroyed.
StopTakesEffect ==
  (asked = "stop") ~> (lpc \in {"wait", "deleted"} \/ asked = "start")

\* A synchronous call with a timeout returns, whatever becomes of the client; one
\* without returns if in the end the client is left running, even if no answer
\* ever comes.
KeptRunning == <>[](asked = "start")

TimedCallReturns ==
  \A r \in App :
    (cpc[r] = "sent" /\ timeout[r] # Forever) ~> (cpc[r] = "returned")

ForeverCallReturns ==
  KeptRunning => \A r \in App : (cpc[r] = "sent") ~> (cpc[r] = "returned")

\* The coap task never waits for ever for a caller's acknowledgement.
TaskNotStuck == (tpc = "ack") ~> (tpc # "ack")

\* The inductive invariant behind RunSemConserved, NotRunningMeansDormant and
\* PingsBounded.
Holds == lpc \in {"giveback", "peek"}

\* The coap task gives run_sem back only while nobody else could have it.
SemInv == RunSemConserved /\ (Holds => ~runSem)

\* Where in its loop the coap task has a session, is enqueueing, is running.
DormantInv ==
  /\ lpc \notin {"loop", "peek", "iter", "cleanup", "deleted"} => tpc = "down"
  /\ lpc # "deleted" => (seed # None <=> lpc = "seeding")
  /\ lpc \notin {"reset", "wait", "giveback", "running", "deleted"} => isRunning
  /\ ~isRunning => tpc = "down" /\ seed = None

\* The client's own requests, queued or about to be.
Pings == (Ping \cap Queued) \cup ({seed, keepalive} \ {None})
PingInv == \E a, b \in Ping \cup {None} : Pings \subseteq {a, b}

LifeInv == IInv /\ OwnTypeOK /\ DormantInv /\ PingInv

\* What a test of the SDK expects: once the client was stopped, the disconnect
\* event has come and the client no longer runs, the request queue is empty.
StoppedMeansQueueEmpty ==
  created /\ asked = "stop" /\ said = "DISCONNECTED" /\ ~isRunning => queue = <<>>
=============================================================================
