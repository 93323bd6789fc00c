---------------------------- MODULE CoapRequests ----------------------------
(***************************************************************************)
(* The request path of golioth_coap_client.c: application tasks hand       *)
(* requests to the one task that may touch libcoap, through a bounded      *)
(* FreeRTOS queue, and synchronous callers wait on an event group that the *)
(* coap task sets and, after an acknowledgement, deletes.                  *)
(*                                                                         *)
(* A member of Request stands for one call and the request_msg it builds.  *)
(* Every call runs in a task of its own; an identity is recycled once      *)
(* nothing in the client or the network refers to it.  GET_BLOCK requests  *)
(* take the path of GET here.  The rest of the client (run_sem, start,     *)
(* stop, keepalive) is the environment: it starts and stops sessions and   *)
(* changes is_running.                                                     *)
(*                                                                         *)
(* Time is a set of countdowns that Tick decrements.  age[r] is            *)
(* (ageout_ms - now) + 1, never below 0: the test now > ageout_ms of the   *)
(* code is age[r] = 0.                                                     *)
(***************************************************************************)
EXTENDS Integers, Sequences, FiniteSets

CONSTANTS
  Request,          \* identities of calls
  None,             \* no request
  QueueMax,         \* CONFIG_GOLIOTH_COAP_REQUEST_QUEUE_MAX_ITEMS
  ResponseTimeout,  \* CONFIG_GOLIOTH_COAP_RESPONSE_TIMEOUT_S, in ticks
  MaxObs,           \* CONFIG_GOLIOTH_MAX_NUM_OBSERVATIONS
  Forever,          \* GOLIOTH_WAIT_FOREVER
  CallTimeout,      \* finite timeouts a synchronous caller may pass
  Operation,        \* the request types the callers use
  SyncChoice,       \* values of is_synchronous the callers use
  PayloadSize,      \* payload sizes given to golioth_coap_client_set
  Class,            \* classes of the server's responses
  Listens           \* whether the application registers an event callback

Type == {"EMPTY", "GET", "POST", "DELETE", "OBSERVE"}

ASSUME NoneAssumption == None \notin Request
ASSUME ForeverAssumption == Forever \notin Int
ASSUME QueueAssumption == QueueMax \in Nat \ {0}
ASSUME TimeoutAssumption == ResponseTimeout \in Nat /\ CallTimeout \subseteq Nat
ASSUME SlotAssumption == MaxObs \in Nat
ASSUME InputAssumption ==
  /\ Operation \subseteq Type
  /\ SyncChoice \subseteq BOOLEAN
  /\ PayloadSize \subseteq Nat
  /\ Class \subseteq {"2xx", "other"}
  /\ Listens \in BOOLEAN

Slot == 1..MaxObs

VARIABLES
  \* the callers, and the request_msg each of them built
  isRunning,   \* client->is_running
  cpc,         \* where the call of r stands
  type, sync, timeout,
  age,         \* ticks until r has aged out, plus 1; 0: it has
  wait,        \* ticks left in xEventGroupWaitBits
  seen,        \* the bits that xEventGroupWaitBits returned
  ret,         \* the status the call returned
  \* objects made by the caller and deleted by the coap task
  handles,     \* request_complete_event and request_complete_ack_sem
  bits,        \* value of the event group
  ack,         \* the ack semaphore has been given
  payload,     \* post.payload
  \* the coap task
  queue, tpc,
  cur,         \* the request_msg on the stack of coap_io_loop_once
  tleft,       \* timeout_ms - time_spent_waiting_ms
  gotResponse, ioError,
  slots,       \* client->observations
  connected,   \* client->session_connected
  listening,   \* client->event_callback is set
  \* the network
  inFlight,    \* requests whose answer may still arrive, any number of times
  \* history
  fate,        \* what the coap task did with r
  answer,      \* class of the response that matched r while it was pending
  told,        \* statuses passed to r's callback, in order
  said,        \* the last event passed to the event callback
  misused      \* requests whose handles were touched after their deletion

callerVars  == <<cpc, type, sync, timeout, seen, ret>>
objectVars  == <<handles, bits, ack, payload>>
taskVars    == <<tpc, cur, tleft, gotResponse, ioError>>
sessionVars == <<slots, connected, said, listening>>
historyVars == <<fate, answer, told, misused>>
vars == <<isRunning, callerVars, age, wait, objectVars, queue, taskVars,
          sessionVars, inFlight, historyVars>>

Ticks   == Nat \cup {Forever}
Bits    == {"none", "RECEIVED", "TIMEOUT"}
Life    == {"none", "live", "deleted"}
Status  == {"OK", "FAIL", "TIMEOUT"}
Result  == {"none", "OK", "TIMEOUT", "QUEUE_FULL", "INVALID_STATE", "MEM_ALLOC"}
Fate    == {"none", "sent", "aged", "failed"}
Event   == {"none", "CONNECTED", "DISCONNECTED"}
CallPC  == {"idle", "called", "sent", "waiting", "woken", "returned"}
TaskPC  == {"down", "recv", "io", "ack", "finish", "ending", "aborted"}

CallerTypeOK ==
  /\ cpc \in [Request -> CallPC]
  /\ type \in [Request -> Type]
  /\ sync \in [Request -> BOOLEAN]
  /\ timeout \in [Request -> Ticks]
  /\ seen \in [Request -> Bits]
  /\ ret \in [Request -> Result]

TimeTypeOK ==
  /\ age \in [Request -> Ticks]
  /\ wait \in [Request -> Ticks]

ObjectTypeOK ==
  /\ handles \in [Request -> Life]
  /\ bits \in [Request -> Bits]
  /\ ack \in [Request -> BOOLEAN]
  /\ payload \in [Request -> Life]

TaskTypeOK ==
  /\ tpc \in TaskPC
  /\ cur \in Request \cup {None}
  /\ tleft \in Nat
  /\ gotResponse \in BOOLEAN
  /\ ioError \in BOOLEAN

SessionTypeOK ==
  /\ slots \in [Slot -> Request \cup {None}]
  /\ connected \in BOOLEAN
  /\ said \in Event
  /\ listening \in BOOLEAN

HistoryTypeOK ==
  /\ fate \in [Request -> Fate]
  /\ answer \in [Request -> Class \cup {"none"}]
  /\ told \in [Request -> Seq(Status)]
  /\ misused \subseteq Request

TypeOK ==
  /\ isRunning \in BOOLEAN
  /\ CallerTypeOK
  /\ TimeTypeOK
  /\ ObjectTypeOK
  /\ queue \in Seq(Request)
  /\ TaskTypeOK
  /\ SessionTypeOK
  /\ inFlight \subseteq Request
  /\ HistoryTypeOK

Queued == {queue[i] : i \in 1..Len(queue)}
Observed == {slots[i] : i \in Slot} \ {None}
Pending == tpc = "io"       \* client->pending_req = cur, otherwise NULL

HasCallback(r) == type[r] \in {"GET", "POST", "DELETE"}
StatusOf(class) == IF class = "2xx" THEN "OK" ELSE "FAIL"
Down(x) == IF x = Forever \/ x = 0 THEN x ELSE x - 1
Min2(a, b) == IF a < b THEN a ELSE b

-----------------------------------------------------------------------------
Init ==
  /\ isRunning = FALSE
  /\ cpc = [r \in Request |-> "idle"]
  /\ type = [r \in Request |-> "EMPTY"]
  /\ sync = [r \in Request |-> FALSE]
  /\ timeout = [r \in Request |-> Forever]
  /\ age = [r \in Request |-> Forever]
  /\ wait = [r \in Request |-> Forever]
  /\ seen = [r \in Request |-> "none"]
  /\ ret = [r \in Request |-> "none"]
  /\ handles = [r \in Request |-> "none"]
  /\ bits = [r \in Request |-> "none"]
  /\ ack = [r \in Request |-> FALSE]
  /\ payload = [r \in Request |-> "none"]
  /\ queue = <<>>
  /\ tpc = "down"
  /\ cur = None
  /\ tleft = 0
  /\ gotResponse = FALSE
  /\ ioError = FALSE
  /\ slots = [i \in Slot |-> None]
  /\ connected = FALSE
  /\ listening = FALSE
  /\ inFlight = {}
  /\ fate = [r \in Request |-> "none"]
  /\ answer = [r \in Request |-> "none"]
  /\ told = [r \in Request |-> <<>>]
  /\ said = "none"
  /\ misused = {}

-----------------------------------------------------------------------------
(* The callers. *)

CallerOnly ==
  UNCHANGED <<isRunning, queue, taskVars, sessionVars, inFlight, fate, answer, told>>

Return(r, status) ==
  /\ cpc' = [cpc EXCEPT ![r] = "returned"]
  /\ ret' = [ret EXCEPT ![r] = status]

\* An API function up to the point where its request_msg is ready: the client
\* must run, a POST copies its payload (size 0: there is none), a synchronous
\* call makes its event group and semaphore.
Begin(r, op, s, tmo, copy) ==
  /\ cpc[r] = "idle"
  /\ op \in Operation
  /\ type' = [type EXCEPT ![r] = op]
  /\ sync' = [sync EXCEPT ![r] = s]
  /\ timeout' = [timeout EXCEPT ![r] = tmo]
  /\ \/ /\ ~isRunning
        /\ Return(r, "INVALID_STATE")
        /\ UNCHANGED <<age, objectVars>>
     \/ /\ isRunning
        /\ copy                     \* calloc fails
        /\ Return(r, "MEM_ALLOC")
        /\ UNCHANGED <<age, objectVars>>
     \/ /\ isRunning
        /\ cpc' = [cpc EXCEPT ![r] = "called"]
        /\ age' = [age EXCEPT ![r] = IF tmo = Forever THEN Forever ELSE tmo + 1]
        /\ payload' = [payload EXCEPT ![r] = IF copy THEN "live" ELSE "none"]
        /\ handles' = [handles EXCEPT ![r] = IF s THEN "live" ELSE "none"]
        /\ UNCHANGED <<ret, bits, ack>>
  /\ UNCHANGED <<wait, seen, misused>>
  /\ CallerOnly

\* Asynchronous calls and the synchronous ones of golioth_lightdb.h that pass
\* GOLIOTH_WAIT_FOREVER never age out.
Waits(s) == IF s THEN CallTimeout \cup {Forever} ELSE {Forever}

Empty(r) == Begin(r, "EMPTY", FALSE, Forever, FALSE)

Set(r) ==
  \E s \in SyncChoice, size \in PayloadSize : \E tmo \in Waits(s) :
    Begin(r, "POST", s, tmo, size > 0)

Delete(r) ==
  \E s \in SyncChoice : \E tmo \in Waits(s) : Begin(r, "DELETE", s, tmo, FALSE)

Get(r) ==
  \E s \in SyncChoice : \E tmo \in Waits(s) : Begin(r, "GET", s, tmo, FALSE)

ObserveAsync(r) == Begin(r, "OBSERVE", FALSE, Forever, FALSE)

\* Mutant: a synchronous call does not wait.
EnqueueAndReturn(r) ==
  /\ cpc[r] = "called"
  /\ Len(queue) < QueueMax
  /\ queue' = Append(queue, r)
  /\ Return(r, "OK")
  /\ UNCHANGED <<isRunning, type, sync, timeout, seen, age, wait, objectVars,
                 taskVars, sessionVars, inFlight, historyVars>>

\* xQueueSend with no wait finds room: an asynchronous call is done.
Enqueue(r) ==
  /\ cpc[r] = "called"
  /\ Len(queue) < QueueMax
  /\ queue' = Append(queue, r)
  /\ IF sync[r] THEN cpc' = [cpc EXCEPT ![r] = "sent"] /\ ret' = ret
                ELSE Return(r, "OK")
  /\ UNCHANGED <<isRunning, type, sync, timeout, seen, age, wait, objectVars,
                 taskVars, sessionVars, inFlight, historyVars>>

\* ... or it finds the queue full: the call frees what it allocated.
Free(r, life) == IF life[r] = "live" THEN [life EXCEPT ![r] = "deleted"] ELSE life

\* Mutant: the payload is not freed.
EnqueueFailsLeak(r) ==
  /\ cpc[r] = "called"
  /\ Len(queue) = QueueMax
  /\ handles' = Free(r, handles)
  /\ age' = [age EXCEPT ![r] = Forever]
  /\ Return(r, "QUEUE_FULL")
  /\ UNCHANGED <<type, sync, timeout, seen, wait, bits, ack, payload, misused>>
  /\ CallerOnly

EnqueueFails(r) ==
  /\ cpc[r] = "called"
  /\ Len(queue) = QueueMax
  /\ payload' = Free(r, payload)
  /\ handles' = Free(r, handles)
  /\ age' = [age EXCEPT ![r] = Forever]
  /\ Return(r, "QUEUE_FULL")
  /\ UNCHANGED <<type, sync, timeout, seen, wait, bits, ack, misused>>
  /\ CallerOnly

\* xEventGroupWaitBits is entered ...
StartWait(r) ==
  /\ cpc[r] = "sent"
  /\ handles[r] = "live"
  /\ cpc' = [cpc EXCEPT ![r] = "waiting"]
  /\ wait' = [wait EXCEPT ![r] = timeout[r]]
  /\ UNCHANGED <<type, sync, timeout, seen, ret, age, objectVars, misused>>
  /\ CallerOnly

\* ... on an event group that no longer exists: what it returns is undefined.
StartWaitDeleted(r) ==
  /\ cpc[r] = "sent"
  /\ handles[r] = "deleted"
  /\ cpc' = [cpc EXCEPT ![r] = "woken"]
  /\ \E b \in Bits : seen' = [seen EXCEPT ![r] = b]
  /\ misused' = misused \cup {r}
  /\ UNCHANGED <<type, sync, timeout, ret, age, wait, objectVars>>
  /\ CallerOnly

\* Mutant: the wait has no limit.
WakeOnBits(r) ==
  /\ cpc[r] = "waiting"
  /\ bits[r] # "none" \/ handles[r] = "deleted"
  /\ seen' = [seen EXCEPT ![r] = IF handles[r] = "live" THEN bits[r] ELSE "none"]
  /\ bits' = [bits EXCEPT ![r] = "none"]
  /\ cpc' = [cpc EXCEPT ![r] = "woken"]
  /\ wait' = [wait EXCEPT ![r] = Forever]
  /\ UNCHANGED <<type, sync, timeout, ret, age, handles, ack, payload, misused>>
  /\ CallerOnly

\* It returns the bits and clears them, or no bit when the time is up or when
\* vEventGroupDelete unblocks the waiter.
Wake(r) ==
  /\ cpc[r] = "waiting"
  /\ bits[r] # "none" \/ wait[r] = 0 \/ handles[r] = "deleted"
  /\ seen' = [seen EXCEPT ![r] = IF handles[r] = "live" THEN bits[r] ELSE "none"]
  /\ bits' = [bits EXCEPT ![r] = "none"]
  /\ cpc' = [cpc EXCEPT ![r] = "woken"]
  /\ wait' = [wait EXCEPT ![r] = Forever]
  /\ UNCHANGED <<type, sync, timeout, ret, age, handles, ack, payload, misused>>
  /\ CallerOnly

\* Mutant: a call that saw no bit returns without its acknowledgement.
GiveAckIfSeen(r) ==
  /\ cpc[r] = "woken"
  /\ IF handles[r] = "live" /\ seen[r] # "none"
       THEN ack' = [ack EXCEPT ![r] = TRUE]
       ELSE ack' = ack
  /\ Return(r, IF seen[r] = "RECEIVED" THEN "OK" ELSE "TIMEOUT")
  /\ UNCHANGED <<type, sync, timeout, seen, age, wait, handles, bits, payload, misused>>
  /\ CallerOnly

\* xSemaphoreGive on the ack semaphore, and the result of the call.
GiveAck(r) ==
  /\ cpc[r] = "woken"
  /\ IF handles[r] = "live"
       THEN ack' = [ack EXCEPT ![r] = TRUE] /\ misused' = misused
       ELSE ack' = ack /\ misused' = misused \cup {r}
  /\ Return(r, IF seen[r] = "RECEIVED" THEN "OK" ELSE "TIMEOUT")
  /\ UNCHANGED <<type, sync, timeout, seen, age, wait, handles, bits, payload>>
  /\ CallerOnly

\* Nothing refers to the call any more: its identity may serve another one.
Recycle(r) ==
  /\ cpc[r] = "returned"
  /\ r \notin Queued \cup Observed \cup inFlight \cup {cur}
  /\ cpc' = [cpc EXCEPT ![r] = "idle"]
  /\ type' = [type EXCEPT ![r] = "EMPTY"]
  /\ sync' = [sync EXCEPT ![r] = FALSE]
  /\ timeout' = [timeout EXCEPT ![r] = Forever]
  /\ seen' = [seen EXCEPT ![r] = "none"]
  /\ ret' = [ret EXCEPT ![r] = "none"]
  /\ handles' = [handles EXCEPT ![r] = "none"]
  /\ bits' = [bits EXCEPT ![r] = "none"]
  /\ ack' = [ack EXCEPT ![r] = FALSE]
  /\ payload' = [payload EXCEPT ![r] = "none"]
  /\ fate' = [fate EXCEPT ![r] = "none"]
  /\ answer' = [answer EXCEPT ![r] = "none"]
  /\ told' = [told EXCEPT ![r] = <<>>]
  /\ misused' = misused \ {r}
  /\ UNCHANGED <<isRunning, age, wait, queue, taskVars, sessionVars, inFlight>>

-----------------------------------------------------------------------------
(* The coap task: coap_io_loop_once and coap_response_handler. *)

TaskOnly == UNCHANGED <<isRunning, callerVars, wait>>

\* Mutant: the event group and the semaphore are not deleted.
AgeOutLeak ==
  /\ tpc = "recv"
  /\ queue # <<>>
  /\ LET r == Head(queue) IN
       /\ age[r] = 0
       /\ payload' = Free(r, payload)
       /\ age' = [age EXCEPT ![r] = Forever]
       /\ fate' = [fate EXCEPT ![r] = "aged"]
  /\ queue' = Tail(queue)
  /\ UNCHANGED <<handles, bits, ack, taskVars, sessionVars, inFlight, answer, told,
                 misused>>
  /\ TaskOnly

\* xQueueReceive returns a request whose ageout_ms has passed: it is dropped,
\* and its event group and semaphore are deleted at once.
AgeOut ==
  /\ tpc = "recv"
  /\ queue # <<>>
  /\ LET r == Head(queue) IN
       /\ age[r] = 0
       /\ payload' = Free(r, payload)
       /\ handles' = Free(r, handles)
       /\ age' = [age EXCEPT ![r] = Forever]
       /\ fate' = [fate EXCEPT ![r] = "aged"]
  /\ queue' = Tail(queue)
  /\ UNCHANGED <<bits, ack, taskVars, sessionVars, inFlight, answer, told, misused>>
  /\ TaskOnly

\* add_observation: the first free slot; when there is none nothing happens.
FreeSlots == {i \in Slot : slots[i] = None}
AddObservation(r) ==
  IF FreeSlots = {} THEN slots
  ELSE [slots EXCEPT ![CHOOSE i \in FreeSlots : \A j \in FreeSlots : i <= j] = r]

\* Mutant: one tick less.
TimeLeftShort(r) ==
  IF age[r] = Forever THEN ResponseTimeout ELSE Min2(ResponseTimeout, age[r] - 2)

\* timeout_ms: the response timeout, or what is left until the request ages out.
TimeLeft(r) ==
  IF age[r] = Forever THEN ResponseTimeout ELSE Min2(ResponseTimeout, age[r] - 1)

\* The golioth_coap_* functions: coap_new_pdu may fail, or the datagram be lost.
Transmit(r) == inFlight' \in {inFlight, inFlight \cup {r}}

\* The request is sent and becomes client->pending_req, to be answered before it
\* ages out.
Send ==
  /\ tpc = "recv"
  /\ queue # <<>>
  /\ LET r == Head(queue) IN
       /\ age[r] # 0
       /\ type[r] = "POST" => payload[r] # "none"
       /\ payload' = Free(r, payload)
       /\ slots' = IF type[r] = "OBSERVE" THEN AddObservation(r) ELSE slots
       /\ Transmit(r)
       /\ fate' = [fate EXCEPT ![r] = "sent"]
       /\ cur' = r
       /\ tleft' = TimeLeft(r)
  /\ queue' = Tail(queue)
  /\ tpc' = "io"
  /\ gotResponse' = FALSE
  /\ ioError' = FALSE
  /\ UNCHANGED <<age, handles, bits, ack, connected, said, listening, answer, told,
                 misused>>
  /\ TaskOnly

\* assert(request_msg.post.payload) fails on a POST of size 0: the device resets.
AssertFails ==
  /\ tpc = "recv"
  /\ queue # <<>>
  /\ age[Head(queue)] # 0
  /\ type[Head(queue)] = "POST"
  /\ payload[Head(queue)] = "none"
  /\ tpc' = "aborted"
  /\ UNCHANGED <<age, objectVars, queue, cur, tleft, gotResponse, ioError,
                 sessionVars, inFlight, historyVars>>
  /\ TaskOnly

\* Mutant: whatever arrives answers the pending request.
TokenIgnored(r) == TRUE

\* token_matches_request: the response to r is the one to the pending request.
TokenMatches(r) == cur = r

\* coap_io_process handles the response to r, in the wait for cur's response or
\* when the queue stayed empty.  Only the response to the pending request counts;
\* past ageout_ms it counts but its callback is not called.
Receive(r, class) ==
  /\ \/ Pending /\ ~gotResponse /\ ~ioError
     \/ tpc = "recv" /\ queue = <<>>
  /\ r \in inFlight
  /\ IF Pending /\ TokenMatches(r)
       THEN /\ gotResponse' = TRUE
            /\ answer' = [answer EXCEPT ![r] = class]
            /\ told' = IF HasCallback(cur) /\ age[cur] # 0
                         THEN [told EXCEPT ![cur] = Append(@, StatusOf(class))]
                         ELSE told
       ELSE UNCHANGED <<gotResponse, answer, told>>
  /\ UNCHANGED <<age, objectVars, queue, tpc, cur, tleft, ioError, sessionVars,
                 inFlight, fate, misused>>
  /\ TaskOnly

\* coap_io_process returns a negative number.
IoFails ==
  /\ Pending /\ ~gotResponse /\ ~ioError /\ tleft > 0
  /\ ioError' = TRUE
  /\ UNCHANGED <<age, objectVars, queue, tpc, cur, tleft, gotResponse,
                 sessionVars, inFlight, historyVars>>
  /\ TaskOnly

\* Mutant: only a response sets a bit.
IoDoneBitOnResponse ==
  /\ Pending
  /\ gotResponse \/ ioError \/ tleft = 0
  /\ IF handles[cur] = "none"
       THEN tpc' = "finish" /\ bits' = bits
       ELSE /\ tpc' = "ack"
            /\ bits' = IF gotResponse THEN [bits EXCEPT ![cur] = "RECEIVED"] ELSE bits
  /\ UNCHANGED <<age, handles, ack, payload, queue, cur, tleft, gotResponse,
                 ioError, sessionVars, inFlight, historyVars>>
  /\ TaskOnly

\* The wait is over: pending_req is cleared and a synchronous caller is told.
IoDone ==
  /\ Pending
  /\ gotResponse \/ ioError \/ tleft = 0
  /\ IF handles[cur] = "none"
       THEN tpc' = "finish" /\ bits' = bits
       ELSE /\ tpc' = "ack"
            /\ bits' = [bits EXCEPT ![cur] =
                           IF gotResponse THEN "RECEIVED" ELSE "TIMEOUT"]
  /\ UNCHANGED <<age, handles, ack, payload, queue, cur, tleft, gotResponse,
                 ioError, sessionVars, inFlight, historyVars>>
  /\ TaskOnly

\* Mutant: the semaphore is not awaited.
TakeAckAtOnce ==
  /\ tpc = "ack"
  /\ ack' = [ack EXCEPT ![cur] = FALSE]
  /\ handles' = Free(cur, handles)
  /\ tpc' = "finish"
  /\ UNCHANGED <<age, bits, payload, queue, cur, tleft, gotResponse, ioError,
                 sessionVars, inFlight, historyVars>>
  /\ TaskOnly

\* The caller has acknowledged: event group and semaphore are deleted.
TakeAck ==
  /\ tpc = "ack"
  /\ ack[cur]
  /\ ack' = [ack EXCEPT ![cur] = FALSE]
  /\ handles' = Free(cur, handles)
  /\ tpc' = "finish"
  /\ UNCHANGED <<age, bits, payload, queue, cur, tleft, gotResponse, ioError,
                 sessionVars, inFlight, historyVars>>
  /\ TaskOnly

\* The rest of coap_io_loop_once: an I/O error, a timeout (also when a response
\* came in the last of the time), or success.
Finish ==
  /\ tpc = "finish"
  /\ age' = [age EXCEPT ![cur] = Forever]
  /\ cur' = None
  /\ UNCHANGED <<objectVars, queue, gotResponse, ioError, slots, listening, inFlight,
                 answer, misused>>
  /\ TaskOnly

FinishIoError ==
  /\ Finish
  /\ ioError
  /\ tpc' = "ending"
  /\ fate' = [fate EXCEPT ![cur] = "failed"]
  /\ tleft' = 0
  /\ UNCHANGED <<connected, said, told>>

Tell(event) == said' = IF listening THEN event ELSE said

\* Mutant: no event.
DisconnectSilently == connected' = FALSE /\ said' = said

Disconnect ==
  /\ connected' = FALSE
  /\ IF connected THEN Tell("DISCONNECTED") ELSE said' = said

\* Mutant: the callback is not told.
FinishTimeoutSilently ==
  /\ Finish
  /\ ~ioError
  /\ tleft = 0
  /\ Disconnect
  /\ tpc' = "ending"
  /\ tleft' = 0
  /\ UNCHANGED <<told, fate>>

FinishTimeout ==
  /\ Finish
  /\ ~ioError
  /\ tleft = 0
  /\ told' = IF HasCallback(cur) THEN [told EXCEPT ![cur] = Append(@, "TIMEOUT")]
                                 ELSE told
  /\ Disconnect
  /\ tpc' = "ending"
  /\ tleft' = 0
  /\ UNCHANGED fate

\* Mutant: an I/O error is not looked at.
FinishOkAnyway ==
  /\ Finish
  /\ tleft > 0
  /\ connected' = TRUE
  /\ IF connected THEN said' = said ELSE Tell("CONNECTED")
  /\ tpc' = "recv"
  /\ tleft' = 0
  /\ UNCHANGED <<told, fate>>

FinishOk ==
  /\ Finish
  /\ ~ioError
  /\ tleft > 0
  /\ connected' = TRUE
  /\ IF connected THEN said' = said ELSE Tell("CONNECTED")
  /\ tpc' = "recv"
  /\ tleft' = 0
  /\ UNCHANGED <<told, fate>>

-----------------------------------------------------------------------------
(* The environment: sessions, is_running, the network and time. *)

EnvironmentOnly ==
  UNCHANGED <<callerVars, objectVars, queue, cur, gotResponse, ioError, historyVars>>

\* reestablish_observations: every observation is sent again, under a new token.
Reestablish == inFlight' = Observed

\* A session is up.
StartSession ==
  /\ tpc = "down"
  /\ tpc' = "recv"
  /\ Reestablish
  /\ UNCHANGED <<isRunning, age, wait, tleft, sessionVars>>
  /\ EnvironmentOnly

\* A session ends, after a failed iteration or between two of them.  What the
\* server still sends to the old session is lost.
EndSession ==
  /\ tpc \in {"recv", "ending"}
  /\ tpc' = "down"
  /\ Disconnect
  /\ inFlight' = {}
  /\ UNCHANGED <<isRunning, age, wait, tleft, slots, listening>>
  /\ EnvironmentOnly

\* The coap task changes is_running between sessions; golioth_client_create
\* sets it at some time.
SetRunning ==
  /\ isRunning => tpc = "down"
  /\ isRunning' = ~isRunning
  /\ UNCHANGED <<age, wait, tpc, tleft, sessionVars, inFlight>>
  /\ EnvironmentOnly

\* golioth_client_register_event_callback, with a callback that is not NULL.
RegisterEventCallback ==
  /\ Listens
  /\ listening' = TRUE
  /\ UNCHANGED <<isRunning, age, wait, tpc, tleft, slots, connected, said, inFlight>>
  /\ EnvironmentOnly

\* The network drops what is left of the answers to r.
Lose(r) ==
  /\ inFlight' = inFlight \ {r}
  /\ UNCHANGED <<isRunning, age, wait, tpc, tleft, sessionVars>>
  /\ EnvironmentOnly

\* A unit of time passes.  coap_io_loop_once counts the time that coap_io_process
\* says it took, not the time it spends between two calls of it.
Tick(counted) ==
  /\ age' = [r \in Request |-> Down(age[r])]
  /\ wait' = [r \in Request |-> Down(wait[r])]
  /\ tleft' = IF Pending /\ counted THEN Down(tleft) ELSE tleft
  /\ UNCHANGED <<isRunning, tpc, sessionVars, inFlight>>
  /\ EnvironmentOnly

-----------------------------------------------------------------------------
\* The functions an application calls; Empty is the client's own.
ApiCall(r) == Set(r) \/ Delete(r) \/ Get(r) \/ ObserveAsync(r)

\* What remains of a call once its request_msg is ready.
CallerStep(r) ==
  \/ Enqueue(r) \/ EnqueueFails(r)
  \/ StartWait(r) \/ StartWaitDeleted(r) \/ Wake(r) \/ GiveAck(r)

Caller(r) == Empty(r) \/ ApiCall(r) \/ CallerStep(r) \/ Recycle(r)

Task ==
  \/ AgeOut \/ Send \/ AssertFails
  \/ \E r \in Request, class \in Class : Receive(r, class)
  \/ IoFails \/ IoDone \/ TakeAck
  \/ FinishIoError \/ FinishTimeout \/ FinishOk

Environment ==
  \/ StartSession \/ EndSession \/ SetRunning \/ RegisterEventCallback
  \/ \E counted \in BOOLEAN : Tick(counted)
  \/ \E r \in Request : Lose(r)

\* A failed assertion resets the device: what follows is a new behaviour.
Live == tpc # "aborted"

Next ==
  /\ Live
  /\ \/ \E r \in Request : Caller(r)
     \/ Task
     \/ Environment

Spec == Init /\ [][Next]_vars

-----------------------------------------------------------------------------
(* Properties. *)

\* A copied payload belongs to the call until it is queued and to the queue
\* until the coap task handles it: it is neither leaked nor, while a POST still
\* needs it, freed.
PayloadOwned ==
  \A r \in Request :
    /\ payload[r] = "live" => cpc[r] = "called" \/ r \in Queued
    /\ r \in Queued => payload[r] # "deleted"

\* The coap task holds r: queued, or waiting for its response or its ack.
Held(r) == r \in Queued \/ (cur = r /\ tpc \in {"io", "ack"})

\* The event group and the semaphore of a synchronous call exist as long as the
\* coap task may use them, and no longer: none is leaked, and none is deleted
\* before the request left the queue and its caller was served.
HandlesOwned ==
  \A r \in Request :
    /\ handles[r] = "live" => cpc[r] = "called" \/ Held(r)
    /\ Held(r) => handles[r] # "deleted"

\* The handshake of the header: the coap task deletes the handles of a request
\* it has sent only after the caller is done with both of them.
HandshakeSafe ==
  \A r \in Request :
    fate[r] \in {"sent", "failed"} /\ handles[r] = "deleted" => cpc[r] = "returned"

\* A call touches its event group or semaphore after their deletion only if its
\* request aged out in the queue (AgeOut deletes them without the handshake).
MisuseOnlyAfterAgeOut == \A r \in misused : fate[r] = "aged"

\* Nobody waits for one who waits: the coap task waits for an acknowledgement only of
\* a caller that gave it, is about to, or finds a bit set when it waits; and a
\* caller waits for bits only while the coap task holds its request, or on an event
\* group whose deletion unblocks it.
NobodyWaitsInVain ==
  /\ tpc = "ack" =>
       \/ ack[cur] \/ cpc[cur] = "woken"
       \/ cpc[cur] \in {"sent", "waiting"} /\ bits[cur] # "none"
  /\ \A r \in Request :
       cpc[r] \in {"sent", "waiting"} => Held(r) \/ handles[r] = "deleted"

\* A synchronous call returns GOLIOTH_OK only if the server answered this very
\* request while it was pending, not a neighbour of it or an earlier use.
OkMeansAnswered ==
  \A r \in Request \ misused : sync[r] /\ ret[r] = "OK" => answer[r] # "none"

\* The callback missed a response that came after the request had aged out.
Missed(r) == told[r] = <<>> /\ answer[r] # "none" /\ timeout[r] # Forever

\* When the coap task is done with a request it has sent, without an I/O error, the
\* callback was told once, but for two cases: it was told a response and then a
\* timeout, or it missed a response that came after the request had aged out. In both
\* the code does what golioth_client.h and golioth_lightdb.h say it does not ("no
\* response received", a callback "on response or timeout"; GetterTruthful of LightDb
\* shows them); this says that there is no third case.
CallbackSettled ==
  \A r \in Request :
    HasCallback(r) /\ fate[r] = "sent" /\ cur # r =>
      \/ Len(told[r]) = 1
      \/ Len(told[r]) = 2 /\ told[r][1] # "TIMEOUT" /\ told[r][2] = "TIMEOUT"
      \/ Missed(r)

\* The application's last event tells whether the session is connected, at
\* whatever moment it registered its callback.
EventsMatch == said # "none" => (said = "CONNECTED") = connected

\* A session becomes connected only by the response to the request that the
\* coap task just completed.
ConnectedMeansAnswered ==
  [][~connected /\ connected' => cur # None /\ answer[cur] # "none"]_vars

-----------------------------------------------------------------------------
(* The inductive invariant behind these properties. *)

Serving == tpc \in {"io", "ack", "finish"}
Fresh(r) == cpc[r] \in {"idle", "called"}
InWait(r) == cpc[r] \in {"sent", "waiting", "woken"}

QueueDistinct == \A i, j \in 1..Len(queue) : queue[i] = queue[j] => i = j

\* A queued request was sent by its caller and not yet looked at.
QueuedInv == \A r \in Queued : ~Fresh(r) /\ fate[r] = "none" /\ cur # r

\* The coap task has a request on its stack exactly while it serves it.
CurInv ==
  IF Serving THEN cur \in Request /\ ~Fresh(cur) /\ fate[cur] = "sent"
             ELSE cur = None

\* Before it is queued, a request has left no trace.
FreshInv ==
  \A r \in Request :
    Fresh(r) => /\ fate[r] = "none"
                /\ answer[r] = "none"
                /\ ret[r] = "none"
                /\ seen[r] = "none"
                /\ bits[r] = "none"
                /\ ~ack[r]
                /\ r \notin misused

\* The handles of a call that has not returned exist, unless it aged out; they
\* are never deleted twice.
HandleInv ==
  \A r \in Request :
    /\ cpc[r] = "idle" => handles[r] = "none"
    /\ cpc[r] = "called" => (handles[r] = "live" <=> sync[r])
    /\ InWait(r) => handles[r] # "none" /\ sync[r]
    /\ handles[r] = "deleted" => cpc[r] = "returned" \/ fate[r] = "aged"
    /\ ack[r] => cpc[r] = "returned"
    /\ cpc[r] = "called" => handles[r] # "deleted"

PayloadInv ==
  \A r \in Request :
    /\ cpc[r] = "idle" => payload[r] = "none"
    /\ cpc[r] = "called" => payload[r] # "deleted"

\* A bit that says RECEIVED, wherever it is, stands for a response.
AnswerInv ==
  /\ tpc = "io" /\ gotResponse => answer[cur] # "none"
  /\ \A r \in Request \ misused :
       bits[r] = "RECEIVED" \/ seen[r] = "RECEIVED" => answer[r] # "none"

PathInv == QueueDistinct /\ QueuedInv /\ CurInv /\ FreshInv
ObjectInv == HandleInv /\ HandlesOwned /\ MisuseOnlyAfterAgeOut
ContentInv == PayloadInv /\ PayloadOwned
ReplyInv == AnswerInv /\ OkMeansAnswered

IInv == TypeOK /\ PathInv /\ ObjectInv /\ ContentInv /\ ReplyInv

(* And, on top of it, that nobody waits in vain: a caller of a request that the coap
   task still holds has given its acknowledgement or will. *)

WaitInv ==
  /\ NobodyWaitsInVain
  /\ \A r \in Request : Held(r) /\ handles[r] = "live" => ack[r] \/ InWait(r)

(* And what holds of callbacks and events. *)

\* Only a request on its way can age out, and only if its caller set a limit.
AgeInv ==
  \A r \in Request :
    /\ timeout[r] = Forever => age[r] = Forever
    /\ cpc[r] # "called" /\ r \notin Queued /\ cur # r => age[r] = Forever

\* Why the coap task stopped waiting.
ServeInv ==
  /\ Serving /\ gotResponse => answer[cur] # "none"
  /\ tpc \in {"ack", "finish"} => gotResponse \/ ioError \/ tleft = 0

\* What the callback has been told while the coap task serves its request.
ToldInv ==
  \A r \in Request :
    /\ fate[r] = "none" => told[r] = <<>> /\ answer[r] = "none"
    /\ cur = r /\ ~gotResponse => told[r] = <<>> /\ answer[r] = "none"
    /\ cur = r /\ gotResponse /\ HasCallback(r) =>
         \/ Len(told[r]) = 1 /\ told[r][1] # "TIMEOUT"
         \/ Missed(r)

\* An application that was told something is listening.
SaidInv == EventsMatch /\ (said # "none" => listening)

OutcomeInv == AgeInv /\ ServeInv /\ ToldInv /\ CallbackSettled /\ SaidInv

-----------------------------------------------------------------------------
(* What the documentation says and the code does not do. *)

\* The handles of a synchronous call are not used once they are deleted.
HandlesNotMisused == misused = {}
=============================================================================
