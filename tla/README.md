# Verification of the Golioth ESP-IDF SDK

This directory holds TLA+ models of `components/golioth_sdk`, the TLC
configurations that check them on small instances, and TLAPS proofs of their
main properties for every instance. File names below without a directory are
those of `components/golioth_sdk`; `client.c` is `golioth_coap_client.c`.

## 1. Inventory of the system

The SDK connects an ESP32 application to a cloud service over CoAP (libcoap,
over DTLS). libcoap is not thread safe, so one FreeRTOS task, the *coap task*,
owns the session; everything else goes through a queue of requests.

| Component | State it keeps | Operations | Talks to |
|---|---|---|---|
| Request path (`client.c`) | `request_queue`, `pending_req`, `is_running`, per-call event group, ack semaphore, copied payload | `golioth_coap_client_empty/set/delete/get/get_block/observe_async`, `coap_io_loop_once`, `coap_response_handler` | every other component calls it; it calls their callbacks from the coap task |
| Life cycle (`client.c`) | `run_sem`, `is_running`, `end_session`, `session_connected`, `keepalive_timer`, `event_callback` | `golioth_client_create/start/stop/destroy/register_event_callback`, `golioth_coap_client_task`, `on_keepalive` | application, timer task |
| Observations (`client.c`) | `observations[]`, tokens | `add_observation`, `reestablish_observations`, `notify_observers` | OTA, settings, RPC, LightDB observers |
| Block transfer (`client.c`, `golioth_ota.c`) | `block_token` | `golioth_coap_get_block`, `golioth_ota_get_block_sync`, `on_block_rcvd` | firmware update |
| OTA (`golioth_ota.c`) | `_state` | report state, parse manifest, get block | firmware update, request path |
| Firmware update (`golioth_fw_update.c`) | `_ota_manifest`, `_manifest_rcvd`, `_update_handle`, `_update_partition`, flash partitions | `fw_update_task`, `on_ota_manifest` | OTA, ESP-IDF `esp_ota_*` |
| Settings (`golioth_settings.c`) | registered callback, values in NVS | `golioth_settings_register_callback`, `on_settings` | observations, request path, NVS |
| RPC (`golioth_rpc.c`) | table of methods | `golioth_rpc_register`, `on_rpc` | observations, request path |
| LightDB, LightDB Stream (`golioth_lightdb.c`) | none | typed set/get/delete/observe wrappers, `on_payload` | request path |
| Log (`golioth_log.c`) | none | format a record and send it | request path |
| Statistics (`golioth_statistics.c`) | table of allocation counters | count an allocation or a free | everything |
| Time, status | none | clock, names | everything |

What is hard in it, and for which components:

* **Two owners of one object.** A synchronous call makes an event group and a
  semaphore in the caller's task; the coap task deletes them (request path).
* **Time.** A request has an age limit, a response limit and a waiting caller
  with a third clock; each can run out while the others act (request path).
* **A network** that loses, repeats and delays answers, with one pending request
  at a time that matches them by token (request path, block transfer).
* **A borrowed semaphore.** `run_sem` is taken and given back by the coap task in
  every iteration, and taken and given by stop and start (life cycle).
* **Checks made in one task and used later**: `is_running` and the queue's length
  in callers and in the timer task (life cycle); the OTA state in
  `on_ota_manifest` (firmware update).
* **A full queue or a full table**: requests, observations, RPC methods.
* **Tokens** that outlive what they were made for: the blocks of a download share
  one, observations get new ones in every session, and a PDU that cannot be made
  leaves an old one behind (observations, block transfer).
* **A stack frame given away**: the argument of `on_payload` is the frame of a
  synchronous getter, which may have returned (LightDB).
* **A table without a lock**: `golioth_rpc_register` and `on_rpc` (RPC).
* **Resets** while a new image is being verified (firmware update), or between a
  setting and the version of its document (settings).

The hazards are listed, at their lines and with the properties that watch them,
under `hazards` in `PROJECT.json`; those that no property can watch are in
section 8.

What makes each component correct:

* request path: no object is leaked or used after its deletion, a call returns
  OK only for its own answer, every callback is told what happened, every
  synchronous call returns;
* life cycle: start and stop take effect and none is lost, a client that says it
  does not run is dormant, its own requests do not starve the application's;
* observations: a notification reaches the callback registered for it, across
  sessions;
* block transfer and firmware update: the image that is booted is the image the
  manifest named, block by block; a handle is ended once; an image that cannot
  connect is rolled back;
* settings, RPC: what is reported to the cloud is what was done, and a version that
  is stored stands for settings that are stored (the code excepts values that NVS
  refuses and settings of unknown type: run `report`); what was registered is
  observed and served;
* LightDB getters: the status that is returned agrees with the caller's variable and
  with what the callback was told (the code departs from this in two ways, which the
  run `getter` shows and which are proved to be the only ones);
* statistics: allocations equal frees when nothing is allocated.

## 2. Plan

In this order, the most important behaviour first:

1. `CoapRequests` - the request path: every other component works through it.
2. `CoapRequestsProofs`, `CoapRequestsOutcome` - its proofs.
3. `CoapClient` - the life cycle around it; `CoapClientProofs` - its proofs, and
   that it implements `CoapRequests`.
4. `FwUpdate` - OTA state, manifest and firmware update; `SafeUpdate` - what it
   promises of the two partitions; `FwUpdateProofs`.
5. `RequestService` - what a caller is promised, as an abstract specification;
   `CoapService` - the refinement mapping; `CoapServiceProofs` - its proof.
6. `LightDb` - the LightDB and log functions over the request path, with the frames
   of the synchronous getters; `LightDbProofs`.
7. `CoapSession` - slots and tokens across sessions, notifications, the token of
   the blocks; `Channels` - what it promises to observers and to a download;
   `CoapSessionProofs`.
8. `CallbackQueue`, `Settings`, `Rpc`, and `Services`, which composes them;
   `ServicesProofs`.

All of it is written, checked and proved. What extends another module and so is
composed with it:

```
CoapRequests --+-- CoapClient
               +-- LightDb
               +-- CoapService --- INSTANCE --- RequestService
CallbackQueue --+-- Settings --+
                +-- Rpc -------+-- Services
CoapSession --- INSTANCE --- Channels
FwUpdate ------ INSTANCE --- SafeUpdate
```

The proofs build on each other in the same order: `CoapRequestsProofs`,
`CoapRequestsOutcome`, `CoapServiceProofs`, and on top of these `CoapClientProofs` and
`LightDbProofs`; `CoapSessionProofs`, `FwUpdateProofs` and `ServicesProofs` stand by
themselves. Still to be stated is an abstract specification of the settings and RPC
services; what else would come next is under "Not modelled" (section 8).

## 3. The modules and the code

**`CoapRequests`.** A member of `Request` is one call of the API together with
the `request_msg` it builds. Its variables are fields and locals of the code:

| Variable | Code |
|---|---|
| `isRunning`, `queue`, `slots`, `connected`, `listening` | `is_running`, `request_queue`, `observations[]`, `session_connected`, `event_callback` |
| `cpc`, `ret` | the program counter and the result of the call |
| `type`, `sync`, `timeout`, `payload` | fields of `request_msg`, parameters of the call |
| `age` | `ageout_ms` minus now, plus one: 0 says that now is past it |
| `handles`, `bits`, `ack` | `request_complete_event` and `request_complete_ack_sem`, the event group's bits, the semaphore |
| `tpc`, `cur`, `tleft`, `gotResponse`, `ioError` | the coap task: its place in `coap_io_loop_once`, `request_msg`, the remaining `timeout_ms`, `got_coap_response`, a negative result of `coap_io_process` |
| `inFlight` | the network: answers that may still arrive, any number of times |
| `fate`, `answer`, `told`, `said`, `misused` | history only |

Each API function is `Begin` (its checks and allocations) followed by `Enqueue`
or `EnqueueFails` and, if synchronous, `StartWait`, `Wake` and `GiveAck`. One
iteration of the coap task is `AgeOut`, or `Send`, `Receive` any number of times,
`IoDone`, `TakeAck` and one of the three `Finish` actions. The places between two
actions are those at which another task can act: the FreeRTOS calls.

**`CoapClient`** extends it. `lpc` is the place in `golioth_coap_client_task`
(lines 797-883); `Iterate` is one step of `CoapRequests`' task; `runSem` is
`run_sem`. `Start`, `Stop`, `Destroy`, `CreateReturns` are the public functions
and `OnKeepalive`, `EnqueueKeepalive` the timer callback, which looks first and
enqueues later. The client's own EMPTY requests are the members of `Ping`.

**`FwUpdate`** has two processes. `fpc` is the place in `fw_update_task` and the
functions it calls, `dl` the locals of `fw_update_download_and_write_flash`,
`main` the pointer `_main_component` (a place in the manifest, so that it shows
whatever the manifest has become), `handle` is `_update_handle`. `mpc` is the
place in `on_ota_manifest`, whose `memset` (`Clear`), parsing (`Fill`) and
`xSemaphoreGive` (`Give`) are steps of their own. `otaState`, `manifest` and
`rcvd` are shared. A synchronous report or block request is refused at once or
served when there is a session and the coap task is not in the callback. `image`,
`otadata` and `boot` are the flash, which alone survives a reset; `Bootloader`
starts a new image once and goes back when it was not confirmed. The calls that
confirm and roll back may fail, and their results are not looked at (`ConfirmFails`,
`RollbackFails`): the task goes on with the image still pending, and so it does when
`fw_update_is_pending_verify` cannot read the state. `unsettled` remembers that one of
these has failed since the reset. `unseen` tells what became of the manifest that was
accepted last: not yet examined, examined, or `"wiped"`, when the `memset` for a later
payload overwrote it before the task came to examine it.

**`RequestService`** is the promise of the request path: a call is refused or
accepted into a line, taken from it in order, dropped or served alone, its callback
told while it is served, and its caller given GOLIOTH_OK only for an answer.
**`CoapService`** maps the variables of `CoapRequests` to it: `state` is read off
the program counter, the queue and `cur` (`StateOf`), `line` is the queue, `heard`
is `told`. Handles, bits, the handshake, time and sessions have no image: their
steps are stutters. Its only escape is `state = "dropped"`: a caller whose request
aged out may be given anything, as `age_out` shows of the code.

**`SafeUpdate`** is what a careful owner of two partitions does: fetch a version into
the spare one, accept it, stage it, try it once, confirm it or go back, and not fetch
again over its own remains what was rolled back. `FwUpdate` maps its state to it:
`PhaseOf` reads the phase off the boot and OTA data and off the places between
`esp_ota_end` and `esp_ota_set_boot_partition`, `Wanted` is the version whose first
block is about to be written, and `blamed` says that the spare partition is marked
invalid. Tasks, manifests, reports and blocks have no image. What was rolled back is
known only by the header that the spare partition has: when a later download of
another version is interrupted, `header_valid` refuses that version from then on,
although it was never tried, and takes the one that failed again. `SafeUpdate` has
this too, in the guard of `Begin`; no document says otherwise.

**`LightDb`** extends `CoapRequests`. Each function of `golioth_lightdb.c` and
`golioth_log.c` is one call of the client (`SetInternal`, `SetJsonInternal`,
`PlainInternal`, `LogInternal`), under the guards that its arguments put on it.
`isNull`, `value` and `result` are `response.is_null`, the caller's variable and
the status of a synchronous getter, and `got` what its response brought; `ReceiveCall`
and `TimeoutCall` are the steps of the coap task that call `on_payload`, together with
what it writes: into the frame while `result` is not given, into what has become of it (`strayed`) after.
`crashed` says that the assertion of a number's conversion has failed.

**`CoapSession`** models the same coap task again, for the question that
`CoapRequests` answers by construction there: for whom is a datagram? Requests are
reduced to a queue with room for all and one `pending`, which is answered or ends
the session; what is kept is `observations[]` (`slotOf`, `slotToken`),
`block_token`, the token of the pending request, and datagrams with their tokens.
`Receive` is `coap_response_handler` with `notify_observers`; `Reestablish` draws
new tokens for the slots whose PDU could be made, and leaves the others theirs.
`block` and `waiting` are the loop of `fw_update_download_and_write_flash` around
`golioth_ota_get_block_sync`, without what it writes.

**`Channels`** is the promise behind it: an observer that is kept hears values its own
path has or had, and a download is given a block for each that it asks for, before it
goes on to the next. Sessions, slots, tokens and datagrams have no image. An observer
that was misled is mapped to one that heard a value no path ever has (`HeardBy`), so
that the refinement fails with it.

**`Settings`** and **`Rpc`** extend `CallbackQueue`: the queue as its free places
(`free`), and the callback in which the coap task is (`handler`). `Settings` has
one step per setting of a document (`OnSetting`), one for the version and one for
the report, so that a reset may fall between any two; NVS holds for each key the
run that stored it. `Rpc` has the five steps of `golioth_rpc_register` at which
another task may act, `_num_rpcs++` being two of them, against `on_rpc`, which
looks at one entry per step. **`Services`** runs both on one queue with other
traffic and resets.

The modules `MC...` add the symmetry sets and the manifests that TLC needs.
Operators marked *Mutant* are wrong variants of a definition, which no
specification uses: each shows that a property notices the mistake.

## 4. What the runs check

| Run | Instance | Shows |
|---|---|---|
| `requests` | `LightDb`: 2 calls (GET, POST, OBSERVE, synchronous or not), queue of 1, one observation slot, response timeout 2, call timeouts 1 and forever | objects are neither leaked nor deleted early, nobody waits for one who waits, answers, callbacks; beyond the two ways of `getter` there is none in which a callback is told too much or too little or a getter's status and variable disagree; what is written after a getter returned has a timeout as its cause |
| `client` | 1 application call and 3 pings, queue of 3, response timeout 1, stop, start and destroy | `run_sem` is conserved, a client that does not run is dormant, pings never take more than 2 places |
| `client_live` | 1 call and 1 ping, queue of 1, fair | a stop takes effect, synchronous calls return, the task is not stuck in the handshake; events match; every behaviour is one of `RequestService` |
| `fw` | 2 versions, 3 manifests (the running version; a new one in second place; one that breaks off), images of 1 and 2 blocks, 2 seconds to connect, fair | there is always an image to boot and one to go back to, the partitions change only as `SafeUpdate` allows, an accepted manifest is examined unless a later payload overwrote it, a served report protects the manifest, verification ends unless an `esp_ota` call fails in it, downloads end |
| `session` | 2 observations, 1 slot, 3 blocks, 2 values of a path, 6 tokens, fair | every behaviour is one of `Channels`: nobody is given what belongs to another, and blocks come one by one; the block that arrives is the one that was asked for, an observation is forgotten only when the table is full, and a remembered one catches up |
| `services` | 3 keys (one too long), 3 documents, 2 runs of `on_settings`, 1 reset, 2 methods, 1 registrar, queue of 1, fair | a stored version means stored settings but for those of unknown type or that NVS refused, the report is of all settings, calls meet only written entries and find every registered method, callbacks return |
| `age_out` | 2 synchronous GETs, queue of 1 | violated: a caller uses handles that were deleted by the age-out |
| `stopped` | pings only | violated: a request stays in the queue of a stopped client |
| `lost_stop` | `start` allowed on a started client, fair | violated: a stop is undone by the task's own give |
| `fw_same` | as `fw`, without fairness | violated: the running version is downloaded |
| `getter` | `LightDb`: 2 synchronous getters, queue of 2, response timeout 2, call timeouts 1 and forever | violated: one getter says `GOLIOTH_ERR_NULL` of a value it received and stored, its callback told of a response and then of a timeout; another says `GOLIOTH_OK` with its variable unset and its callback not called |
| `report` | as `services`, without fairness | violated: a report of a success is about settings that NVS refused, and names another version than the document's |

Why the bounds are enough. With two calls and a queue of one, a call is refused,
ages out behind another one, and has its answer arrive while the other is
pending; with a response timeout of two ticks a response comes before, at and
after the last moment, and a call timeout of one tick runs out in the queue, in
flight and during the handshake. Three pings are one more than the bound that is
claimed for them. In `fw`, an image of three units in blocks of two has a last
block that is not full, and a request, a block, a flash operation or the whole
device can fail at every step, and so can the calls that verify a new image. In
`session` two observations are one more than
there are slots; with three blocks an answer can be for the block before and the
one after; six tokens are as many as slots, block, pending request, server and
network can hold at once and one to spare, so that `Fresh` never stops a step that
the code can take. In `services` two runs overwrite each other's settings, one
reset cuts either of them off, and the queue of one is full when a report or an
answer is queued; `Int32Max` is 2, below the version of one document. What is
claimed beyond these instances is proved (section 7).

The six violations are listed under `findings` in `PROJECT.json`, each with the
sentences of the documentation that it contradicts. `GetterTruthful` and `ReportKept`
are disjunctions of two such sentences: a behaviour that violates one of them violates
both of its sentences, so that one run shows both.

`CHECK_DEADLOCK FALSE` is used in `client` alone: there the device may reset or
the client be destroyed. `LightDb` says `Reset` where an assertion has failed, and
the others exclude it.

## 5. Assumptions of the models

* libcoap is external: one call of `coap_io_process` takes time, handles one
  datagram, or fails; a PDU that cannot be made and a datagram that is lost are
  one choice (`Transmit`). A response may come late, several times or never,
  until its session ends.
* A GET_BLOCK request takes the path of GET in `CoapRequests`; its token is in
  `CoapSession`.
* Creating a queue, semaphore, event group or task does not fail; copying a
  payload may (`MEM_ALLOC`).
* A callback that is NULL is one that does nothing. Observers' callbacks are not
  part of the request path. Setting `session_connected` and calling the event
  callback are one step.
* `GOLIOTH_WAIT_FOREVER` makes `ageout_ms` so large that it never passes; the
  same holds of asynchronous calls.
* Time may pass without being counted by the coap task (`Tick(FALSE)`): the code
  counts only what `coap_io_process` says it took.
* A failed assertion resets the device. In `CoapRequests` and `CoapClient` that
  ends the behaviour; in `FwUpdate` it is a step, since flash survives.
* An identity is used again when nothing refers to the call (`Recycle`): this is
  of the model only, and keeps it finite.
* `CoapClient` lets the application call `start` on a started client only if
  `StartWhenStarted` is TRUE, and `destroy` only while no call is under way.
* In `FwUpdate` the partitions are those of two OTA slots, and rollback is enabled
  in the bootloader. `esp_ota_end` accepts an image only if the handle is open and
  all its blocks are of one component. `esp_ota_set_boot_partition` is not assumed
  to check the image again. The server answers with no bytes when asked for a
  component it does not know, under a Block2 option (`client.c:166` asserts that
  there is one). `golioth_fw_update_init` is called once per start. `esp_ota_begin`
  refuses while the image that runs is not confirmed
  (`ESP_ERR_OTA_ROLLBACK_INVALID_STATE`), and an `esp_ota_mark_...` call that fails
  leaves the OTA data as they were.
* In `CoapSession` a new token is one that nothing uses: `coap_session_new_token`
  counts up from a random number. A session that ends takes its datagrams and the
  server's observations with it. The server repeats its latest notification until it
  is acknowledged or the session ends; what is older may be lost.
  `Duplicates` says whether an answer may be delivered twice: it is FALSE in the
  run and a premise of `BlockMatches`, because the client does not compare block
  numbers and so leaves this to the message IDs of libcoap and to DTLS.
* In `LightDb` a wrapper that fails before it calls the client changes nothing, and
  is no step; a payload is null, a value, or too long for a number.
* In `Settings` and `Rpc` a payload that cannot be parsed is no step. A setting is
  not called `version`, which in the code shares its place in NVS with the version
  of the document. The `settings` of a document are an object: of an array the code
  would take the length of names that are NULL (`golioth_settings.c:152`). What NVS
  refused is remembered in `failed` and excepted from `VersionMeansStored` and
  `ReportTruthful`, since `save_to_nvs` only logs it; that the header says otherwise is
  what `report` shows.
* `golioth_rpc_register` writes an entry and then `_num_rpcs` with plain stores; the
  other task is taken to see them in that order, which the code does not enforce. A
  method may be registered again, and then the first entry serves it.
* The properties of `Rpc` are about registrations that do not overlap
  (`overlapped`). The module has the others: then two tasks can write one entry and
  `_num_rpcs` can pass the end of the table, which is what the premise is for.

## 6. Fairness

`FairLifeSpec` assumes that each task takes its steps when it can (weak fairness
of the coap task, of the timer's enqueue, of `golioth_client_create`'s return and
of each caller): the scheduler is preemptive, and every task of the SDK blocks in
a FreeRTOS call when it has nothing to do. Time passes. A session that is tried
again and again is created some time (strong fairness, because between two
attempts it is not enabled); nothing else is owed by the network, so that
`ForeverCallReturns` holds even if no answer ever comes: the response timeout
ends the wait. It needs the client to be left running, which is its premise. A
ping's identity is recycled some time.

`FairFwSpec` assumes the same of the two tasks, that the application starts the
update task after each reset, and that a request is served if there is a session
again and again: the queue is served in order, and `client_live` shows that the
task never stays with one request. `DownloadEnds` has the premise that sessions
exist again and again, since every request of the download waits without limit.
`VerifyResolves` is about a device on which the `esp_ota` calls that read, confirm or
roll back the pending image succeed (`~unsettled`): the code ignores their failures, and
then the image stays pending until a reset goes back from it.

`FairSpec` of `CoapSession` assumes that the coap task completes or gives up the
pending request and starts sessions (weak fairness), that it sends when it can again
and again (strong, because a session may end just before), and that a notification
of the latest value, repeated by the server, is received some time in a session that
carries it again and again. `ObserverCatchesUp` has the premise that from some time
on the observation is in the table and reaches the server in every session: a
datagram of `reestablish_observations` that is lost is not sent again in that
session. `ServicesFairSpec` assumes only that the coap task, once in a callback, goes
on.

## 7. What is proved

The proofs hold for any number of calls, observers, methods and documents, any
length of queue, of tables and of timeouts, and for any manifests, image sizes and
block size. They use only the assumptions named in the modules: `None` and `Forever`
are not requests and numbers, lengths and timeouts are naturals, the inputs are of
the types of the code, `Ping` is a subset of `Request`, tokens are positive numbers;
in `FwUpdate`, the running image has a version and "" is none
(`VersionAssumption`), a header fits into a block (`SizeAssumption`), and a manifest
is a sequence of components (`PayloadAssumption`).

*Safety of the request path* (`CoapRequestsProofs`). `HandlesOwned`,
`PayloadOwned`, `OkMeansAnswered` and `MisuseOnlyAfterAgeOut` are not inductive
alone: nothing in them says that a request is queued once, that the one on the coap
task's stack is not also queued, or that a call that has not returned still has its
handles. `IInv` adds `PathInv` (where a request is), `ObjectInv` (which handles
exist), `ContentInv` (payloads) and `ReplyInv` (a bit that says RECEIVED, in the
event group or in the caller's hands, stands for an answer). Each part is preserved
by every action, one lemma per part and one step per action.

*Outcomes* (`CoapRequestsOutcome`). Relative to `IInv`, `OutcomeInv` is
inductive: it records why the coap task stopped waiting (`ServeInv`), who can
still age out (`AgeInv`) and what was told so far (`ToldInv`), from which
`CallbackSettled`, `EventsMatch` and the action property `ConnectedMeansAnswered`
follow. `HandshakeGoesOn` is the safety behind the liveness properties of the
handshake: the coap task waits for an acknowledgement only if it was given or its
caller is awake or about to be woken by a bit that is set, and a caller waits only
while its request is held by the queue or the task, or its handles are deleted. It
needs `WaitInv`: the caller of a request that is held has given its acknowledgement or
is in one of the places where it will.

*Refinement* (`CoapServiceProofs`). `Refinement` shows that every step of
`CoapRequests` is a step of `RequestService` under the mapping of `CoapService`, or
a stutter. It needs `IInv`, `OutcomeInv` and `ReturnInv`: a caller that waits has no
result yet and its request is queued or was taken from the queue, and a call that
returned has a result. `ClientRefinement` (`CoapClientProofs`) carries it over to the whole client, and
`WrappersImplementService` (`LightDbProofs`) to the LightDB and log functions.

*The client* (`CoapClientProofs`). `LifeInv` adds to `IInv` where in its loop the
task has a session and is enqueueing (`DormantInv`), and that the pings queued or
about to be are among two identities (`PingInv`). `ClientImplementsRequests`
shows that every step of `CoapClient` is a step of `CoapRequests` or a stutter, so
what is proved of the request path holds of the client. `NoLostStop` proves
`RunSemConserved` from the assumption that `start` is called on a stopped client
only; `lost_stop` shows that it is needed.

*The wrappers* (`LightDbProofs`). `WrappersImplementRequests` shows that every step
of `LightDb` is a step of `CoapRequests` or a stutter. On top of the invariants that
this brings, `LdbInv` is inductive. `RetInv` says that a request the coap task still
has to handle was not refused, and `ResultInv` that a getter returned what its call
returned, but for a null; together with `OkMeansAnswered` they leave a getter whose
response is only now arriving no result but a timeout (`Awaiting`), which is why
nothing else can be overwritten after the return. `FrameInv` says that an answered
getter's frame holds a null or a value, unless `on_payload` was not called because
the request had aged out (`TooLate`).

*Sessions* (`CoapSessionProofs`). That no callback is given what concerns another
observation (`HeardOwn`) rests on `TokenInv`: no token of a slot
is, in the server or on the way, under anything but that slot's observation, nor is
it the token of the blocks; this survives a slot that keeps the token of an earlier
session, because that token was never given to anything else. `BlockMatches` rests on
`WaitInv` (the download has one request at a time) and `AnswerInv`: under the block
token there is on the way at most the answer to the pending request, because a
request without an answer ends the session and with it whatever was late.
`ForgottenOnlyWhenFull` is a part of the same invariant. `ChannelRefinement` shows that
every step is a step of `Channels` or a stutter: a datagram is heard by one observer,
is the block that is awaited, or is nobody's, and never two of these, which again is
`TokenInv`. It needs `SourceInv` besides: no datagram has a value that its path has not
had, and what is queued was asked for. Of `Channels` itself `ChannelHonest` is proved.

*Settings and RPC* (`ServicesProofs`). `VersionMeansStored` needs `RunInv` (the run
under way is the last one, so that later values only raise what NVS holds),
`StatusInv` and `StoredInv` (a setting that counts as a success so far is in NVS under
this run, was refused by it, or has an unknown type). `ReportTruthful` follows from
`StatusInv` and `StoredInv`. Both theorems carry the exceptions of the code, refusals by
NVS and unknown types. For RPC, `RegisterInv` says that the one registration under way has its entry written before `_num_rpcs` counts it,
`TableInv` that the counted entries are where the registered methods are, `LoopInv`
that `on_rpc` has passed no entry of its method, and `FirstInv` that methods without
an observed path are in the first registration or were refused. All are stated of
registrations that do not overlap, and type correctness of those that do as well.

*The firmware update* (`FwUpdateProofs`). `BootableAlways` and the first
half of `NoManifestMissed` follow from `FwInv`: the partition that runs stays accepted because only the other
one is written (`RunningInv`), and nothing at all while it is not confirmed, since then
`esp_ota_begin` refuses; the other becomes the boot partition only at the
end of a path that went through `esp_ota_end` (`TargetInv`); and the state says
DOWNLOADING only at the places of a download (`StateInv`). A report stands between
most of these places, so both are stated of where the task is or will go when its
report returns (`Heads`), which `AfterInv` bounds. `DownloadStable` rests on
`BarrierInv`: the coap task serves the report only outside the callback, and
after it the callback sees DOWNLOADING. The second half of
`NoManifestMissed` rests on `ExamineInv`, which follows an accepted manifest from the
give to the end of its examination, or until it is overwritten.
`UpdateRefinement` shows that every step is one of
`SafeUpdate` or a stutter. Beyond `FwInv` it needs `WriteInv`: the image that is written
was erased before its first block (the handle is open) and is not an accepted one. Of
`SafeUpdate` itself `UpdateRecoverable` is proved: whatever it allows, a reset finds an
accepted image in the slot that it starts, and a trial can be rolled back to one.

*Only model-checked*: all liveness properties (`StopTakesEffect`,
`TimedCallReturns`, `ForeverCallReturns`, `TaskNotStuck`, `VerifyResolves`,
`DownloadEnds`, `ObserverCatchesUp`, `CallbackReturns`) and the violations. Liveness
under fairness is out of the prover's reach. No other property is only checked; the
types of `LightDb` are only proved (`LdbTypes`).

## 8. Not modelled

* *Statistics* count allocations in a table that all tasks share without a lock, so
  that counts can be lost and two names written to one entry. They are a debugging
  aid, off by default, that no other component reads.
* *Time and status utilities* are the `Tick` of `CoapRequests` and names. The *port
  of libcoap* is vendored configuration. The *examples* and the *test application*
  use the API; what the latter expects was read for the findings.
* Conversions of payloads, JSON and CBOR, logging and paths appear only as far as a
  step depends on their result.
* A manifest with more components than its table has places (`golioth_ota.c:122`):
  `Payload` ranges over those that fit.

Hazards of the code that no property here can watch, because nothing in the
repository says what should happen or because their state is left out: requests that
are in the queue when `destroy` deletes it (`golioth_coap_client.c:998`); the event
callback and its argument, set in two steps (`:1437`), and the keepalive timer that
the coap task may reset before it is made (`:151`); a payload of no bytes, accepted and
then asserted against (`:661`); a block refused without a Block2
option (`:166`); the second end of an update handle (`golioth_fw_update.c:281`), a
component of no bytes (`:196`), a first block that is refused or shorter than the header
and fails the assertion of `:30`, a manifest that was accepted but is overwritten by a
payload that is then rejected (`golioth_ota.c:101`, `golioth_fw_update.c:270`), which is
lost until the cloud sends it again, an image that is left pending because confirming it
failed (`:77`), which can fetch no update and is rolled back at the next reset, the ignored
result of observing the manifest (`:324`) and a second `golioth_fw_update_init` (`:370`); numbers of more than 12 characters
(`golioth_lightdb.c:207`) and strings of one byte (`:469`); negative fractions that
are taken for whole numbers (`golioth_settings.c:174`), a setting that is called `version` (`:208`); and answers to RPC calls that find the
queue full (`golioth_rpc.c:132`). Where they are steps of a model (`AssertFails`,
`ConversionAsserts`, `HeaderAssertFails`, `ValidateAssertFails`, `Clear`, `ConfirmFails`,
`Ack`) the other properties
hold with them.
