------------------------------ MODULE FwUpdate ------------------------------
(***************************************************************************)
(* The firmware update of golioth_fw_update.c and the OTA state it shares  *)
(* with golioth_ota.c.  The fw_update task waits for a manifest, downloads *)
(* the "main" component block by block into the partition that does not    *)
(* run, validates it, makes it the boot partition and restarts; after the  *)
(* restart it confirms the new image or rolls it back.  The coap task runs *)
(* on_ota_manifest, which writes the manifest the fw_update task reads,    *)
(* and serves that task's synchronous requests, one thing at a time.       *)
(*                                                                         *)
(* External, and modelled from how the code uses them: the two partitions  *)
(* with their otadata, the esp_ota functions, the bootloader, and the      *)
(* request path, of which a caller sees that a request is refused at once  *)
(* or served in a session.  The components of a manifest are stored in one *)
(* step; clearing the manifest and filling it are two.                     *)
(***************************************************************************)
EXTENDS Integers, Sequences

CONSTANTS
  Version,      \* firmware versions
  FirstVersion, \* the one installed
  Payload,      \* what the server may send to the observer of the manifest
  BlockSize,    \* GOLIOTH_OTA_BLOCKSIZE, in units
  HeaderSize,   \* what header_valid reads of the first block
  VerifySecs    \* seconds a new image is given to connect

\* The empty string, which a manifest or an erased partition may have for a version.
NoVersion == ""
Label == Version \cup {NoVersion}

Component == [package : {"main", "other"}, version : Label, size : Nat]

\* A component as memset leaves it.
Blank == [package |-> "", version |-> NoVersion, size |-> 0]

ASSUME VersionAssumption == FirstVersion \in Version /\ NoVersion \notin Version
ASSUME SizeAssumption ==
  /\ BlockSize \in Nat \ {0}
  /\ HeaderSize \in 1..BlockSize
  /\ VerifySecs \in Nat \ {0}
\* components is what has been stored when parsing ends, well or not.
ASSUME PayloadAssumption ==
  Payload \subseteq [wellFormed : BOOLEAN, components : Seq(Component)]

NoPayload == [wellFormed |-> FALSE, components |-> <<>>]

Slot == {0, 1}
Other(s) == 1 - s

VARIABLES
  \* the fw_update task
  fpc,        \* where it is
  after,      \* where it goes after the report it waits for
  secs,       \* seconds_elapsed, 0 outside its block
  main,       \* _main_component: its place in the manifest, 0 for NULL
  dl,         \* the locals of fw_update_download_and_write_flash
  handle,     \* _update_handle: "none", "open", or "closed" by abort or end
  \* shared with the coap task
  otaState,   \* _state of golioth_ota.c
  manifest,   \* _ota_manifest
  rcvd,       \* the semaphore _manifest_rcvd
  \* the coap task
  session,    \* there is a session
  observing,  \* the observation of the manifest was enqueued
  mpc,        \* where on_ota_manifest is
  payload,    \* its argument
  \* flash
  image,      \* per partition: the version its header names, and whether
              \* esp_ota_end has accepted it since it was written
  otadata,    \* per partition: its state in otadata
  boot,       \* the boot partition
  running,    \* the partition that runs
  \* history
  unseen,     \* of the manifest accepted last: not examined ("yes"), or examined
              \* ("no"), or overwritten before it was examined ("wiped")
  announced,  \* the last report was served by the coap task
  unsettled   \* since the reset an esp_ota call that verifies the image has failed

fwVars == <<fpc, after, secs, main, dl, handle>>
coapVars == <<session, observing, mpc, payload>>
flash == <<image, otadata, boot, running, unsettled>>
ota == <<otaState, announced>>
vars == <<fwVars, ota, manifest, rcvd, coapVars, flash, unseen>>

\* "start" is the task's first step; "reporting" waits in a synchronous report.
FwPC == {"off", "start", "verify", "hello", "observe", "await", "find", "differs",
         "announce", "size", "block", "blocking", "header", "write", "compare",
         "failed", "validate", "change", "setboot", "restart", "reporting"}

\* sources (history) are the components whose blocks were written.
DownloadState ==
  [i : Nat, nblocks : Nat, written : Nat, nbytes : 0..BlockSize,
   asked : Component \cup {Blank}, sources : SUBSET (Component \cup {Blank})]

NoDownload == [i |-> 0, nblocks |-> 0, written |-> 0, nbytes |-> 0,
               asked |-> Blank, sources |-> {}]

Erased == [version |-> NoVersion, sealed |-> FALSE]
Target == Other(running)            \* esp_ota_get_next_update_partition(NULL)
Current == image[running].version   \* compiled into the application
At(k) == IF k \in DOMAIN manifest THEN manifest[k] ELSE Blank

TaskTypeOK ==
  /\ fpc \in FwPC /\ after \in FwPC
  /\ secs \in 0..VerifySecs
  /\ main \in Nat
  /\ dl \in DownloadState
  /\ handle \in {"none", "open", "closed"}

SharedTypeOK ==
  /\ otaState \in {"IDLE", "DOWNLOADING", "DOWNLOADED", "UPDATING"}
  /\ manifest \in Seq(Component)
  /\ rcvd \in BOOLEAN /\ session \in BOOLEAN /\ observing \in BOOLEAN
  /\ unseen \in {"no", "yes", "wiped"} /\ announced \in BOOLEAN
  /\ mpc \in {"idle", "clear", "fill", "give"}
  /\ payload \in Payload \cup {NoPayload}

FlashTypeOK ==
  /\ image \in [Slot -> [version : Label, sealed : BOOLEAN]]
  /\ otadata \in [Slot -> {"undefined", "new", "pending", "valid", "invalid"}]
  /\ boot \in Slot /\ running \in Slot
  /\ unsettled \in BOOLEAN

FwTypeOK == TaskTypeOK /\ SharedTypeOK /\ FlashTypeOK

FwInit ==
  /\ fpc = "off" /\ after = "off" /\ secs = 0 /\ main = 0
  /\ dl = NoDownload /\ handle = "none"
  /\ otaState = "IDLE" /\ announced = FALSE
  /\ manifest = <<>> /\ rcvd = FALSE
  /\ session = FALSE /\ observing = FALSE /\ mpc = "idle" /\ payload = NoPayload
  /\ image = [s \in Slot |->
                IF s = 0 THEN [version |-> FirstVersion, sealed |-> TRUE] ELSE Erased]
  /\ otadata = [s \in Slot |-> IF s = 0 THEN "valid" ELSE "undefined"]
  /\ boot = 0 /\ running = 0
  /\ unseen = "no" /\ unsettled = FALSE

-----------------------------------------------------------------------------
(* Resets and the bootloader. *)

\* A new image is started once, pending verification; when it is found pending
\* at the next reset, it is marked and the other partition is started.
Bootloader(data, b) ==
  LET s == IF data[b] = "pending" THEN Other(b) ELSE b IN
  /\ boot' = s /\ running' = s
  /\ otadata' = [data EXCEPT ![b] = IF @ = "new" THEN "pending"
                                    ELSE IF @ = "pending" THEN "invalid" ELSE @]

\* The state in RAM is lost.
LoseRAM ==
  /\ fpc' = "off" /\ after' = "off" /\ secs' = 0 /\ main' = 0
  /\ dl' = NoDownload /\ handle' = "none"
  /\ otaState' = "IDLE" /\ announced' = FALSE
  /\ manifest' = <<>> /\ rcvd' = FALSE
  /\ session' = FALSE /\ observing' = FALSE /\ mpc' = "idle" /\ payload' = NoPayload
  /\ unseen' = "no" /\ unsettled' = FALSE

Reboot == LoseRAM /\ Bootloader(otadata, boot) /\ UNCHANGED image

\* Power is lost or another part of the application fails, at any time.
Crash == Reboot

-----------------------------------------------------------------------------
(* on_ota_manifest and golioth_ota_payload_as_manifest, in the coap task. *)

\* Mutant: the state is not looked at.
OnManifestAlways(p) ==
  /\ session /\ observing /\ mpc = "idle"
  /\ mpc' = "clear" /\ payload' = p
  /\ UNCHANGED <<fwVars, ota, manifest, rcvd, session, observing, flash, unseen>>

\* A response other than OK, and any manifest while a download is in progress,
\* is ignored.
OnManifest(p) ==
  /\ session /\ observing /\ mpc = "idle"
  /\ otaState # "DOWNLOADING"
  /\ mpc' = "clear" /\ payload' = p
  /\ UNCHANGED <<fwVars, ota, manifest, rcvd, session, observing, flash, unseen>>

\* memset: a manifest that was accepted, and even given, may be overwritten here
\* before the task has examined it.
Clear ==
  /\ mpc = "clear"
  /\ manifest' = <<>>
  /\ unseen' = IF unseen = "yes" THEN "wiped" ELSE unseen
  /\ mpc' = "fill"
  /\ UNCHANGED <<fwVars, ota, rcvd, session, observing, payload, flash>>

Fill ==
  /\ mpc = "fill"
  /\ manifest' = payload.components
  /\ unseen' = IF payload.wellFormed THEN "yes" ELSE unseen
  /\ mpc' = IF payload.wellFormed THEN "give" ELSE "idle"
  /\ payload' = NoPayload
  /\ UNCHANGED <<fwVars, ota, rcvd, session, observing, flash>>

Give ==
  /\ mpc = "give"
  /\ rcvd' = TRUE
  /\ mpc' = "idle"
  /\ UNCHANGED <<fwVars, ota, manifest, session, observing, payload, flash, unseen>>

\* Sessions come and go between callbacks.
Connection ==
  /\ mpc = "idle"
  /\ session' = ~session
  /\ UNCHANGED <<fwVars, ota, manifest, rcvd, observing, mpc, payload, flash, unseen>>

-----------------------------------------------------------------------------
(* Reports: golioth_ota_report_state_sync, without a limit of time. *)

Goto(pc) == fpc' = pc /\ UNCHANGED after

\* The state is changed first; then the request is refused at once, or the task
\* waits for it.
Report(state, next) ==
  /\ otaState' = state
  /\ announced' = FALSE
  /\ Goto(next) \/ (fpc' = "reporting" /\ after' = next)

\* The coap task has served the report, whatever came of it.
Reported ==
  /\ fpc = "reporting"
  /\ session /\ mpc = "idle"
  /\ fpc' = after /\ after' = "off"
  /\ announced' = TRUE
  /\ UNCHANGED <<secs, main, dl, handle, otaState, manifest, rcvd, coapVars, flash,
                 unseen>>

ReportStep(from, state, next) ==
  /\ fpc = from
  /\ Report(state, next)
  /\ UNCHANGED <<secs, main, dl, handle, manifest, rcvd, coapVars, flash, unseen>>

-----------------------------------------------------------------------------
(* fw_update_task: verification of a new image. *)

\* golioth_fw_update_init, once per start of the application.
FwInitCall ==
  /\ fpc = "off"
  /\ Goto("start")
  /\ rcvd' = FALSE
  /\ UNCHANGED <<secs, main, dl, handle, ota, manifest, coapVars, flash, unseen>>

\* fw_update_is_pending_verify, which says no as well when it cannot read otadata.
StartTask ==
  /\ fpc = "start"
  /\ IF otadata[running] = "pending"
     THEN \/ Goto("verify") /\ UNCHANGED unsettled
          \/ Goto("hello") /\ unsettled' = TRUE
     ELSE Goto("hello") /\ UNCHANGED unsettled
  /\ UNCHANGED <<secs, main, dl, handle, ota, manifest, rcvd, coapVars, image, otadata,
                 boot, running, unseen>>

\* Mutant: one second too many, after which the test for the limit fails.
WaitOneSecondMore ==
  /\ fpc = "verify" /\ secs <= VerifySecs
  /\ secs' = secs + 1
  /\ UNCHANGED <<fpc, after, main, dl, handle, ota, manifest, rcvd, coapVars, flash,
                 unseen>>

\* Not connected: another second.
WaitToConnect ==
  /\ fpc = "verify" /\ secs < VerifySecs
  /\ secs' = secs + 1
  /\ UNCHANGED <<fpc, after, main, dl, handle, ota, manifest, rcvd, coapVars, flash,
                 unseen>>

\* Mutant: the image is confirmed only by the report.
ConfirmByReport ==
  /\ fpc = "verify" /\ secs < VerifySecs
  /\ session
  /\ Report("UPDATING", "hello")
  /\ secs' = 0
  /\ UNCHANGED <<main, dl, handle, manifest, rcvd, coapVars, flash, unseen>>

\* Connected in time: fw_update_cancel_rollback.
Confirm ==
  /\ fpc = "verify" /\ secs < VerifySecs
  /\ session
  /\ otadata' = [otadata EXCEPT ![running] = "valid"]
  /\ Report("UPDATING", "hello")
  /\ secs' = 0
  /\ UNCHANGED <<main, dl, handle, manifest, rcvd, coapVars, image, boot,
                 running, unsettled, unseen>>

\* The result of esp_ota_mark_app_valid_cancel_rollback is not looked at.
ConfirmFails ==
  /\ fpc = "verify" /\ secs < VerifySecs
  /\ session
  /\ unsettled' = TRUE
  /\ Report("UPDATING", "hello")
  /\ secs' = 0
  /\ UNCHANGED <<main, dl, handle, manifest, rcvd, coapVars, image, otadata, boot,
                 running, unseen>>

\* Too late: fw_update_rollback_and_reboot, to the image that ran before.
Rollback ==
  /\ fpc = "verify" /\ secs = VerifySecs
  /\ LoseRAM
  /\ Bootloader([otadata EXCEPT ![running] = "invalid"], Other(running))
  /\ UNCHANGED image

\* esp_ota_mark_app_invalid_rollback_and_reboot returns when it has failed.
RollbackFails ==
  /\ fpc = "verify" /\ secs = VerifySecs
  /\ unsettled' = TRUE
  /\ Goto("hello")
  /\ secs' = 0
  /\ UNCHANGED <<main, dl, handle, ota, manifest, rcvd, coapVars, image, otadata,
                 boot, running, unseen>>

Hello == ReportStep("hello", "IDLE", "observe")

\* The result of golioth_ota_observe_manifest_async is not looked at.
Observe ==
  /\ fpc = "observe"
  /\ observing' \in BOOLEAN
  /\ Goto("await")
  /\ UNCHANGED <<secs, main, dl, handle, ota, manifest, rcvd, session, mpc, payload,
                 flash, unseen>>

-----------------------------------------------------------------------------
(* fw_update_task: the loop over manifests. *)

Await ==
  /\ fpc = "await" /\ rcvd
  /\ rcvd' = FALSE
  /\ Goto("find")
  /\ UNCHANGED <<secs, main, dl, handle, ota, manifest, coapVars, flash, unseen>>

\* golioth_ota_find_component: the first component of the package.
Found(k) ==
  /\ k \in DOMAIN manifest /\ manifest[k].package = "main"
  /\ \A j \in DOMAIN manifest : j < k => manifest[j].package # "main"

\* fw_update_manifest_version_is_different, in two steps: the component is looked
\* up, and its version compared through the pointer.
Find ==
  /\ fpc = "find"
  /\ unseen' = IF unseen = "yes" THEN "no" ELSE unseen
  /\ \/ \E k \in DOMAIN manifest : Found(k) /\ main' = k /\ Goto("differs")
     \/ (\A k \in DOMAIN manifest : ~Found(k)) /\ main' = 0 /\ Goto("await")
  /\ UNCHANGED <<secs, dl, handle, ota, manifest, rcvd, coapVars, flash>>

Differs ==
  /\ fpc = "differs"
  /\ Goto(IF At(main).version = Current THEN "await" ELSE "announce")
  /\ UNCHANGED <<secs, main, dl, handle, ota, manifest, rcvd, coapVars, flash, unseen>>

-----------------------------------------------------------------------------
(* fw_update_download_and_write_flash. *)

Announce == ReportStep("announce", "DOWNLOADING", "size")

\* golioth_ota_size_to_nblocks.
SizeToNblocks(size) == (size + BlockSize - 1) \div BlockSize

Download(pc, d) ==
  /\ Goto(pc)
  /\ dl' = d
  /\ UNCHANGED <<secs, main, ota, manifest, rcvd, coapVars, otadata, boot, running,
                 unsettled, unseen>>

Size ==
  /\ fpc = "size"
  /\ Download("block", [NoDownload EXCEPT !.nblocks = SizeToNblocks(At(main).size)])
  /\ UNCHANGED <<handle, image>>

\* The next block is asked for, unless the request is refused at once.
GetBlock ==
  /\ fpc = "block" /\ dl.i < dl.nblocks
  /\ \/ Download("blocking", [dl EXCEPT !.asked = At(main), !.nbytes = 0])
     \/ Download("compare", dl)
  /\ UNCHANGED <<handle, image>>

AllBlocks ==
  /\ fpc = "block" /\ dl.i = dl.nblocks
  /\ Download("compare", dl)
  /\ UNCHANGED <<handle, image>>

\* The coap task has served the request: on_block_rcvd has copied n bytes (none
\* when the server refused, as it does a component it does not know), or the
\* request timed out.
BlockServed ==
  /\ fpc = "blocking" /\ session /\ mpc = "idle"
  /\ \/ \E n \in 0..(IF dl.asked = Blank THEN 0 ELSE BlockSize) :
          Download(IF dl.i = 0 THEN "header" ELSE "write", [dl EXCEPT !.nbytes = n])
     \/ Download("compare", dl)
  /\ UNCHANGED <<handle, image>>

\* header_valid: the version in the header of the first block against that in the
\* last partition that was rolled back.
KnownBad ==
  \E s \in Slot : otadata[s] = "invalid" /\ image[s].version = dl.asked.version

\* assert(nbytes >= header_size).
HeaderAssertFails ==
  /\ fpc = "header" /\ dl.nbytes < HeaderSize
  /\ Reboot

\* esp_ota_begin is not called for a version that is known to be bad, and does
\* nothing in an image that is not confirmed.
BeginRefused == KnownBad \/ otadata[running] = "pending"

\* Otherwise it erases the partition, or fails, when it may have begun to.
Header ==
  /\ fpc = "header" /\ dl.nbytes >= HeaderSize
  /\ \/ Download("compare", dl) /\ UNCHANGED <<handle, image>>
     \/ /\ ~BeginRefused
        /\ image' = [image EXCEPT ![Target] = Erased]
        /\ \/ Download("write", dl) /\ handle' = "open"
           \/ Download("compare", dl) /\ UNCHANGED handle

\* Mutant: the index is not advanced.
WriteAgain ==
  /\ fpc = "write"
  /\ Download("block", [dl EXCEPT !.nbytes = 0])
  /\ UNCHANGED <<handle, image>>

\* esp_ota_write, which may fail; the first block carries the header.
Write ==
  /\ fpc = "write"
  /\ \/ /\ Download("block", [dl EXCEPT !.i = @ + 1, !.written = @ + dl.nbytes,
                                        !.nbytes = 0, !.sources = @ \cup {dl.asked}])
        /\ image' = IF dl.i = 0
                    THEN [image EXCEPT ![Target].version = dl.asked.version] ELSE image
        /\ UNCHANGED handle
     \/ /\ Download("compare", dl)
        /\ handle' = "closed"
        /\ UNCHANGED image

\* Mutant: a failed download is not reported.
CompareSilently ==
  /\ fpc = "compare"
  /\ Goto(IF dl.written = At(main).size THEN "validate" ELSE "failed")
  /\ UNCHANGED <<secs, main, dl, handle, ota, manifest, rcvd, coapVars, flash, unseen>>

\* What was written against the size in the manifest.
Compare ==
  /\ fpc = "compare"
  /\ IF dl.written = At(main).size
     THEN Goto("validate") /\ UNCHANGED ota
     ELSE Report("IDLE", "failed")
  /\ UNCHANGED <<secs, main, dl, handle, manifest, rcvd, coapVars, flash, unseen>>

\* Mutant: what was received during the attempt is discarded.
FailedDiscards ==
  /\ fpc = "failed"
  /\ handle' = IF handle = "open" THEN "closed" ELSE handle
  /\ dl' = NoDownload
  /\ rcvd' = FALSE
  /\ Goto("await")
  /\ UNCHANGED <<secs, main, ota, manifest, coapVars, flash, unseen>>

\* esp_ota_abort and fw_update_end: the handle is ended if it was open.
Failed ==
  /\ fpc = "failed"
  /\ handle' = IF handle = "open" THEN "closed" ELSE handle
  /\ dl' = NoDownload
  /\ Goto("await")
  /\ UNCHANGED <<secs, main, ota, manifest, rcvd, coapVars, flash, unseen>>

-----------------------------------------------------------------------------
(* fw_update_validate, fw_update_change_boot_image and the restart. *)

\* assert(_update_handle).
ValidateAssertFails ==
  /\ fpc = "validate" /\ handle = "none"
  /\ Reboot

\* Mutant: the result of esp_ota_end is not looked at.
ValidateAnyway ==
  /\ fpc = "validate" /\ handle # "none"
  /\ handle' = "closed"
  /\ image' \in {image, [image EXCEPT ![Target].sealed = TRUE]}
  /\ Report("DOWNLOADED", "change")
  /\ UNCHANGED <<secs, main, dl, manifest, rcvd, coapVars, otadata, boot, running,
                 unsettled, unseen>>

\* esp_ota_end accepts the image of an open handle if it is whole, and all its
\* blocks belong to one component.
Validate ==
  /\ fpc = "validate" /\ handle # "none"
  /\ handle' = "closed"
  /\ \/ /\ handle = "open" /\ dl.sources = {dl.asked}
        /\ image' = [image EXCEPT ![Target].sealed = TRUE]
        /\ Report("DOWNLOADED", "change")
     \/ /\ UNCHANGED image
        /\ Report("IDLE", "failed")
  /\ UNCHANGED <<secs, main, dl, manifest, rcvd, coapVars, otadata, boot, running,
                 unsettled, unseen>>

Change == ReportStep("change", "UPDATING", "setboot")

\* esp_ota_set_boot_partition, or its failure.
SetBoot ==
  /\ fpc = "setboot"
  /\ \/ /\ boot' = Target
        /\ otadata' = [otadata EXCEPT ![Target] = "new"]
        /\ Goto("restart")
     \/ UNCHANGED <<boot, otadata>> /\ Goto("failed")
  /\ UNCHANGED <<secs, main, dl, handle, ota, manifest, rcvd, coapVars, image,
                 running, unsettled, unseen>>

\* After the countdown.
Restart == fpc = "restart" /\ Reboot

-----------------------------------------------------------------------------
CoapStep == Clear \/ Fill \/ Give

FwStep ==
  \/ FwInitCall \/ StartTask \/ WaitToConnect \/ Confirm \/ ConfirmFails \/ Rollback
  \/ RollbackFails \/ Hello
  \/ Observe \/ Await \/ Find \/ Differs \/ Announce \/ Size \/ GetBlock
  \/ AllBlocks \/ HeaderAssertFails \/ Header \/ Write \/ Compare \/ Failed
  \/ ValidateAssertFails \/ Validate \/ Change \/ SetBoot \/ Restart

Served == Reported \/ BlockServed

FwNext ==
  \/ Crash \/ Connection
  \/ \E p \in Payload : OnManifest(p)
  \/ CoapStep \/ FwStep \/ Served

FwSpec == FwInit /\ [][FwNext]_vars

(***************************************************************************)
(* Fairness: both tasks run when they can, the application calls           *)
(* golioth_fw_update_init after each restart, and a request is served if   *)
(* there is a session again and again: requests are taken in order in any  *)
(* session, and each is answered or given up (TaskNotStuck, CoapClient).   *)
(***************************************************************************)
FairFwSpec == FwSpec /\ WF_vars(CoapStep) /\ WF_vars(FwStep) /\ SF_vars(Served)

-----------------------------------------------------------------------------
(* The two partitions as SafeUpdate sees them. *)

\* Whether the task is at one of these places, or goes to one after a report.
Heads(pcs) == fpc \in pcs \/ (fpc = "reporting" /\ after \in pcs)

PhaseOf ==
  IF otadata[running] = "pending" THEN "trial"
  ELSE IF boot # running THEN "staged"
  ELSE IF Heads({"change", "setboot"}) THEN "accepted"
  ELSE "steady"

\* The first block is about to be written.
Wanted == IF fpc = "write" /\ dl.i = 0 THEN {dl.asked.version} ELSE {}

Update == INSTANCE SafeUpdate WITH
  Version <- Label,
  active <- running,
  phase  <- PhaseOf,
  holds  <- [s \in Slot |-> image[s].version],
  whole  <- {s \in Slot : image[s].sealed},
  wanted <- Wanted,
  blamed <- otadata[Target] = "invalid"

-----------------------------------------------------------------------------
(* Properties. *)

\* A reset at any time finds an image that esp_ota_end accepted in the boot
\* partition; and while that image is not confirmed, the other partition holds
\* one that is, to which the device can be rolled back.
BootableAlways ==
  /\ image[boot].sealed
  /\ otadata[boot] \in {"new", "pending"} =>
       otadata[Other(boot)] = "valid" /\ image[Other(boot)].sealed

\* When the task waits for a manifest it is not in the state in which on_ota_manifest
\* ignores them, and if none was given to it, it has examined the one accepted last,
\* unless on_ota_manifest itself overwrote that one with a payload it then rejected.
NoManifestMissed ==
  fpc = "await" =>
    /\ otaState # "DOWNLOADING"
    /\ ~rcvd /\ mpc = "idle" => unseen # "yes"

\* The inductive invariant behind BootableAlways and the first half of NoManifestMissed.

AfterInv ==
  fpc = "reporting" =>
    after \in {"hello", "observe", "size", "failed", "change", "setboot"}

\* The partition that runs holds an accepted image; while it is to be verified the
\* other one is what ran before.
RunningInv ==
  /\ image[running].sealed
  /\ otadata[running] \in {"valid", "pending"}
  /\ fpc = "verify" => otadata[running] = "pending"
  /\ otadata[running] = "pending" =>
       /\ handle # "open" /\ ~Heads({"change", "setboot", "restart"})
       /\ otadata[Target] = "valid" /\ image[Target].sealed

\* The other partition is booted next only after it was accepted.
TargetInv ==
  /\ Heads({"change", "setboot", "restart"}) => image[Target].sealed
  /\ IF fpc = "restart" THEN boot = Target /\ otadata[boot] = "new"
                        ELSE boot = running

\* Where the state says that a download is in progress.
StateInv ==
  otaState = "DOWNLOADING" =>
    Heads({"size", "block", "blocking", "header", "write", "compare", "validate"})

FwInv == FwTypeOK /\ AfterInv /\ RunningInv /\ TargetInv /\ StateInv

\* Once the coap task has served the report of a download, the manifest that the
\* download reads through _main_component stays as it is: the report is the barrier
\* between on_ota_manifest's look at the state and the download.
DownloadStable ==
  [][announced /\ otaState = "DOWNLOADING" /\ fpc' # "off" => manifest' = manifest]_vars

\* The inductive invariant behind DownloadStable: in a download whose report was
\* served, on_ota_manifest is past its writes.
BarrierInv == announced /\ otaState = "DOWNLOADING" => mpc \in {"idle", "give"}

\* The inductive invariant behind the second half of NoManifestMissed: an accepted
\* manifest that is still there is about to be given, or was given, or is being examined.
ExamineInv ==
  /\ unseen = "yes" => mpc = "give" \/ rcvd \/ fpc = "find"
  /\ fpc = "off" => ~observing /\ unseen = "no" /\ mpc = "idle"

\* Whatever resets, failed requests and refused reports come in between, all that
\* happens to the flash is what SafeUpdate allows.
ImplementsSafeUpdate == Update!Spec

\* What the mapping needs beyond FwInv: an image that is being written was erased
\* before its first block, and is not an accepted one.
WriteInv ==
  /\ handle = "open" => ~image[Target].sealed
  /\ fpc = "write" \/ (fpc \in {"block", "blocking"} /\ dl.i > 0) => handle = "open"

\* A new image does not stay pending: it is confirmed or rolled back, unless one of
\* the esp_ota calls that do this fails, whose results the code does not look at.
VerifyResolves ==
  \A s \in Slot : (otadata[s] = "pending") ~> (otadata[s] # "pending" \/ unsettled)

\* A download ends, and the task waits for the next manifest or the device
\* restarts, if there is a session again and again.
DownloadEnds ==
  []<>session => ((fpc = "size") ~> (fpc \in {"await", "off"}))

\* golioth_fw_update.h: manifests of the current version are ignored.
IgnoresCurrent == fpc = "blocking" => dl.asked.version # Current
=============================================================================
