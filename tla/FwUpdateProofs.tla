--------------------------- MODULE FwUpdateProofs ---------------------------
(***************************************************************************)
(* The firmware update keeps an image to start and one to go back to, and  *)
(* never waits for a manifest in the state in which manifests are ignored, *)
(* for every set of versions and manifests, block size and time limit.     *)
(***************************************************************************)
EXTENDS FwUpdate, TLAPS

-----------------------------------------------------------------------------
(* Facts about the data. *)

LEMMA ComponentType ==
  ASSUME NEW c \in Component \cup {Blank}
  PROVE  c.size \in Nat /\ c.version \in Label
<1>1. CASE c \in Component
  BY <1>1 DEF Component
<1>2. CASE c = Blank
  BY <1>2 DEF Blank, Label
<1> QED BY <1>1, <1>2

LEMMA ImageUpdate ==
  ASSUME NEW V, NEW v \in V, NEW s \in Slot, NEW b \in BOOLEAN,
         NEW im \in [Slot -> [version : V, sealed : BOOLEAN]]
  PROVE  /\ [im EXCEPT ![s].version = v] \in [Slot -> [version : V, sealed : BOOLEAN]]
         /\ [im EXCEPT ![s].sealed = b] \in [Slot -> [version : V, sealed : BOOLEAN]]
OBVIOUS

LEMMA AtType ==
  ASSUME manifest \in Seq(Component), NEW k
  PROVE  /\ At(k) \in Component \cup {Blank}
         /\ At(k).size \in Nat /\ At(k).version \in Label
<1>1. At(k) \in Component \cup {Blank}
  <2>1. CASE k \in DOMAIN manifest
    BY <2>1 DEF At
  <2>2. CASE k \notin DOMAIN manifest
    BY <2>2 DEF At
  <2> QED BY <2>1, <2>2
<1> QED BY <1>1, ComponentType

LEMMA OtherSlot ==
  ASSUME NEW s \in Slot
  PROVE  Other(s) \in Slot /\ Other(s) # s /\ Other(Other(s)) = s
<1>1. CASE s = 0
  BY <1>1 DEF Slot, Other
<1>2. CASE s = 1
  BY <1>2 DEF Slot, Other
<1> QED BY <1>1, <1>2 DEF Slot

LEMMA PayloadType ==
  ASSUME NEW p \in Payload \cup {NoPayload}
  PROVE  p.wellFormed \in BOOLEAN /\ p.components \in Seq(Component)
<1>1. CASE p \in Payload
  BY <1>1, PayloadAssumption
<1>2. CASE p = NoPayload
  BY <1>2 DEF NoPayload
<1> QED BY <1>1, <1>2

LEMMA SizeType ==
  ASSUME NEW size \in Nat PROVE SizeToNblocks(size) \in Nat
<1>1. size + BlockSize - 1 \in Nat /\ BlockSize \in Nat \ {0}
  BY SizeAssumption
<1> QED BY <1>1 DEF SizeToNblocks

\* The two updates of the locals of a download, over any sets.
LEMMA RecordUpdate ==
  ASSUME NEW C, NEW N, 0 \in N, NEW c \in C,
         NEW i \in Nat, NEW w \in Nat, NEW s \in SUBSET C,
         NEW d \in [i : Nat, nblocks : Nat, written : Nat, nbytes : N,
                    asked : C, sources : SUBSET C]
  PROVE  /\ [d EXCEPT !.asked = c, !.nbytes = 0] \in
              [i : Nat, nblocks : Nat, written : Nat, nbytes : N,
               asked : C, sources : SUBSET C]
         /\ [d EXCEPT !.i = i, !.written = w, !.nbytes = 0, !.sources = s] \in
              [i : Nat, nblocks : Nat, written : Nat, nbytes : N,
               asked : C, sources : SUBSET C]
OBVIOUS

LEMMA NoDownloadType == NoDownload \in DownloadState
BY SizeAssumption DEF NoDownload, DownloadState

-----------------------------------------------------------------------------
(* Types. *)

\* What a reset leaves of the state in RAM.
LEMMA ResetTypes ==
  ASSUME LoseRAM PROVE TaskTypeOK' /\ SharedTypeOK' /\ unsettled' \in BOOLEAN
<1>1. TaskTypeOK'
  BY SizeAssumption, NoDownloadType DEF LoseRAM, TaskTypeOK, FwPC
<1>2. SharedTypeOK'
  <2>1. <<>> \in Seq(Component)
    OBVIOUS
  <2> QED BY <2>1 DEF LoseRAM, SharedTypeOK
<1> QED BY <1>1, <1>2 DEF LoseRAM

LEMMA BootloaderTypes ==
  ASSUME NEW data \in [Slot -> {"undefined", "new", "pending", "valid", "invalid"}],
         NEW b \in Slot, Bootloader(data, b)
  PROVE  /\ otadata' \in [Slot -> {"undefined", "new", "pending", "valid", "invalid"}]
         /\ boot' \in Slot /\ running' \in Slot
BY DEF Bootloader, Slot, Other

LEMMA RebootTypes ==
  ASSUME FwTypeOK, Reboot PROVE FwTypeOK'
BY ResetTypes, BootloaderTypes DEF FwTypeOK, FlashTypeOK, Reboot

LEMMA RollbackTypes ==
  ASSUME FwTypeOK, Rollback PROVE FwTypeOK'
<1>1. [otadata EXCEPT ![running] = "invalid"] \in
        [Slot -> {"undefined", "new", "pending", "valid", "invalid"}]
  BY DEF FwTypeOK, FlashTypeOK
<1>2. Other(running) \in Slot
  BY OtherSlot DEF FwTypeOK, FlashTypeOK
<1> QED BY <1>1, <1>2, ResetTypes, BootloaderTypes DEF FwTypeOK, FlashTypeOK, Rollback

LEMMA TypeInit ==
  ASSUME FwInit PROVE FwTypeOK
<1>1. TaskTypeOK
  BY SizeAssumption, NoDownloadType DEF FwInit, TaskTypeOK, FwPC
<1>2. SharedTypeOK
  <2>1. <<>> \in Seq(Component)
    OBVIOUS
  <2> QED BY <2>1 DEF FwInit, SharedTypeOK
<1>3. FlashTypeOK
  BY VersionAssumption DEF FwInit, FlashTypeOK, Slot, Erased
<1> QED BY <1>1, <1>2, <1>3 DEF FwTypeOK

\* The actions that use Download.
LEMMA DownloadTypes ==
  ASSUME TaskTypeOK, NEW pc \in FwPC, NEW d \in DownloadState, Download(pc, d),
         handle' \in {"none", "open", "closed"}
  PROVE  TaskTypeOK'
BY DEF TaskTypeOK, Download, Goto

Downloading ==
  Size \/ GetBlock \/ AllBlocks \/ BlockServed \/ Header \/ Write

LEMMA DownloadingTypes ==
  ASSUME FwTypeOK, Downloading PROVE TaskTypeOK'
<1> USE DEF FwTypeOK
<1>1. dl \in DownloadState /\ At(main) \in Component \cup {Blank}
      /\ At(main).size \in Nat
  BY AtType DEF TaskTypeOK, SharedTypeOK
<1>2. /\ handle \in {"none", "open", "closed"}
      /\ {"block", "blocking", "compare", "header", "write"} \subseteq FwPC
  BY DEF TaskTypeOK, FwPC
<1>3. CASE Size
  <2>1. [NoDownload EXCEPT !.nblocks = SizeToNblocks(At(main).size)] \in DownloadState
    BY <1>1, SizeType, NoDownloadType DEF DownloadState
  <2> QED BY <1>2, <1>3, <2>1, DownloadTypes DEF Size
<1>4. CASE GetBlock
  <2>1. [dl EXCEPT !.asked = At(main), !.nbytes = 0] \in DownloadState
    <3>1. 0 \in 0..BlockSize
      BY SizeAssumption
    <3> QED BY <1>1, <3>1, RecordUpdate DEF DownloadState
  <2> QED BY <1>1, <1>2, <1>4, <2>1, DownloadTypes DEF GetBlock
<1>5. CASE AllBlocks
  BY <1>1, <1>2, <1>5, DownloadTypes DEF AllBlocks
<1>6. CASE BlockServed
  <2>1. ASSUME NEW n \in 0..BlockSize
        PROVE  [dl EXCEPT !.nbytes = n] \in DownloadState
    BY <1>1 DEF DownloadState
  <2>2. 0..(IF dl.asked = Blank THEN 0 ELSE BlockSize) \subseteq 0..BlockSize
    BY SizeAssumption
  <2> QED BY <1>1, <1>2, <1>6, <2>1, <2>2, DownloadTypes DEF BlockServed
<1>7. CASE Header
  BY <1>1, <1>2, <1>7, DownloadTypes DEF Header
<1>8. CASE Write
  <2>1. [dl EXCEPT !.i = @ + 1, !.written = @ + dl.nbytes,
                   !.nbytes = 0, !.sources = @ \cup {dl.asked}] \in DownloadState
    <3>1. 0 \in 0..BlockSize
      BY SizeAssumption
    <3>2. /\ dl.i + 1 \in Nat /\ dl.written + dl.nbytes \in Nat
          /\ dl.asked \in Component \cup {Blank}
          /\ dl.sources \cup {dl.asked} \in SUBSET (Component \cup {Blank})
      BY <1>1 DEF DownloadState
    <3> QED BY <1>1, <3>1, <3>2, RecordUpdate DEF DownloadState
  <2> QED BY <1>1, <1>2, <1>8, <2>1, DownloadTypes DEF Write
<1> QED BY <1>3, <1>4, <1>5, <1>6, <1>7, <1>8 DEF Downloading

\* The actions that report.
LEMMA ReportTypes ==
  ASSUME TaskTypeOK, NEW s \in {"IDLE", "DOWNLOADING", "DOWNLOADED", "UPDATING"},
         NEW next \in FwPC, Report(s, next)
  PROVE  /\ fpc' \in FwPC /\ after' \in FwPC
         /\ otaState' \in {"IDLE", "DOWNLOADING", "DOWNLOADED", "UPDATING"}
         /\ announced' \in BOOLEAN
BY DEF TaskTypeOK, Report, Goto, FwPC

Reporting ==
  Hello \/ Announce \/ Change \/ Confirm \/ ConfirmFails \/ Compare \/ Validate

LEMMA ReportingTypes ==
  ASSUME FwTypeOK, Reporting PROVE TaskTypeOK' /\ SharedTypeOK'
<1> USE DEF FwTypeOK
<1>0. {"hello", "observe", "size", "failed", "change", "setboot", "validate"}
        \subseteq FwPC
  BY DEF FwPC
<1>1. CASE Hello
  BY <1>0, <1>1, ReportTypes
     DEF Hello, ReportStep, TaskTypeOK, SharedTypeOK, coapVars
<1>2. CASE Announce
  BY <1>0, <1>2, ReportTypes
     DEF Announce, ReportStep, TaskTypeOK, SharedTypeOK, coapVars
<1>3. CASE Change
  BY <1>0, <1>3, ReportTypes
     DEF Change, ReportStep, TaskTypeOK, SharedTypeOK, coapVars
<1>4. CASE Confirm \/ ConfirmFails
  BY <1>0, <1>4, SizeAssumption, ReportTypes
     DEF Confirm, ConfirmFails, TaskTypeOK, SharedTypeOK, coapVars
<1>5. CASE Compare
  <2>1. CASE dl.written = At(main).size
    BY <1>0, <1>5, <2>1 DEF Compare, Goto, TaskTypeOK, SharedTypeOK, coapVars, ota
  <2>2. CASE dl.written # At(main).size
    BY <1>0, <1>5, <2>2, ReportTypes DEF Compare, TaskTypeOK, SharedTypeOK, coapVars
  <2> QED BY <2>1, <2>2
<1>6. CASE Validate
  BY <1>0, <1>6, ReportTypes DEF Validate, TaskTypeOK, SharedTypeOK, coapVars
<1> QED BY <1>1, <1>2, <1>3, <1>4, <1>5, <1>6 DEF Reporting

\* The other actions.
LEMMA OnManifestTypes ==
  ASSUME FwTypeOK, NEW p \in Payload, OnManifest(p) PROVE FwTypeOK'
BY DEF OnManifest, FwTypeOK, TaskTypeOK, SharedTypeOK, FlashTypeOK, fwVars, ota, flash

LEMMA CoapTypes ==
  ASSUME FwTypeOK, CoapStep \/ Connection PROVE TaskTypeOK' /\ SharedTypeOK'
<1> USE DEF FwTypeOK
<1>0. CoapStep \/ Connection => UNCHANGED fwVars
  BY DEF CoapStep, Clear, Fill, Give, Connection
<1>1. TaskTypeOK'
  BY <1>0 DEF TaskTypeOK, fwVars
<1>2. CASE Clear
  <2>1. <<>> \in Seq(Component)
    OBVIOUS
  <2> QED BY <1>1, <1>2, <2>1 DEF Clear, SharedTypeOK, ota
<1>3. CASE Fill
  <2>1. payload.wellFormed \in BOOLEAN /\ payload.components \in Seq(Component)
    BY PayloadType DEF SharedTypeOK
  <2> QED BY <1>1, <1>3, <2>1 DEF Fill, SharedTypeOK, ota
<1>4. CASE Give
  BY <1>1, <1>4 DEF Give, SharedTypeOK, ota
<1>5. CASE Connection
  BY <1>1, <1>5 DEF Connection, SharedTypeOK, ota
<1> QED BY <1>2, <1>3, <1>4, <1>5 DEF CoapStep

Moving ==
  \/ FwInitCall \/ StartTask \/ WaitToConnect \/ Observe \/ Await \/ Find
  \/ Differs \/ Failed \/ SetBoot \/ Reported \/ RollbackFails

LEMMA MovingTypes ==
  ASSUME FwTypeOK, Moving PROVE TaskTypeOK' /\ SharedTypeOK'
<1> USE DEF FwTypeOK, TaskTypeOK, SharedTypeOK, coapVars
<1>0. {"off", "start", "verify", "hello", "await", "find", "differs", "announce",
       "restart", "failed"} \subseteq FwPC
  BY DEF FwPC
<1>1. CASE FwInitCall
  BY <1>0, <1>1 DEF FwInitCall, Goto, ota
<1>2. CASE StartTask
  BY <1>0, <1>2 DEF StartTask, Goto, ota
<1>3. CASE WaitToConnect
  BY <1>3, SizeAssumption DEF WaitToConnect, ota
<1>4. CASE Observe
  BY <1>0, <1>4 DEF Observe, Goto, ota
<1>5. CASE Await
  BY <1>0, <1>5 DEF Await, Goto, ota
<1>6. CASE Find
  <2>1. DOMAIN manifest \subseteq Nat
    OBVIOUS
  <2>2. main' \in Nat /\ fpc' \in FwPC
    BY <1>0, <1>6, <2>1 DEF Find, Goto
  <2>3. UNCHANGED <<after, secs, dl, handle, otaState, announced, manifest, rcvd,
                    session, observing, mpc, payload>> /\ unseen' \in {"no", "yes", "wiped"}
    BY <1>6 DEF Find, Goto, ota
  <2> QED BY <2>2, <2>3
<1>7. CASE Differs
  BY <1>0, <1>7 DEF Differs, Goto, ota
<1>8. CASE Failed
  BY <1>0, <1>8, NoDownloadType DEF Failed, Goto, ota
<1>9. CASE SetBoot
  BY <1>0, <1>9 DEF SetBoot, Goto, ota
<1>10. CASE Reported
  BY <1>0, <1>10 DEF Reported
<1>11. CASE RollbackFails
  BY <1>0, <1>11, SizeAssumption DEF RollbackFails, Goto, ota
<1> QED BY <1>1, <1>2, <1>3, <1>4, <1>5, <1>6, <1>7, <1>8, <1>9, <1>10, <1>11 DEF Moving

\* What is not the flash's business leaves it alone.
LEMMA FlashKept ==
  ASSUME FwTypeOK, UNCHANGED flash PROVE FlashTypeOK'
BY DEF FwTypeOK, FlashTypeOK, flash

LEMMA FlashTypes ==
  ASSUME FwTypeOK, \/ StartTask \/ Confirm \/ ConfirmFails \/ RollbackFails
                   \/ Header \/ Write \/ Validate \/ SetBoot
  PROVE  FlashTypeOK'
<1> USE DEF FwTypeOK, FlashTypeOK
<1>0. /\ Target \in Slot
      /\ Erased \in [version : Label, sealed : BOOLEAN]
  BY OtherSlot DEF Target, Erased, Label
<1>1. CASE StartTask \/ Confirm \/ ConfirmFails \/ RollbackFails
  BY <1>1 DEF StartTask, Confirm, ConfirmFails, RollbackFails
<1>2. CASE Header
  BY <1>0, <1>2 DEF Header, Download
<1>3. CASE Write
  <2>1. dl.asked \in Component \cup {Blank}
    BY DEF TaskTypeOK, DownloadState
  <2>2. dl.asked.version \in Label
    BY <2>1, ComponentType
  <2>3. [image EXCEPT ![Target].version = dl.asked.version]
          \in [Slot -> [version : Label, sealed : BOOLEAN]]
    BY <1>0, <2>2, ImageUpdate
  <2> QED BY <1>3, <2>3 DEF Write, Download
<1>4. CASE Validate
  <2>1. [image EXCEPT ![Target].sealed = TRUE]
          \in [Slot -> [version : Label, sealed : BOOLEAN]]
    BY <1>0, ImageUpdate
  <2>2. image' \in [Slot -> [version : Label, sealed : BOOLEAN]]
    BY <1>4, <2>1 DEF Validate
  <2>3. UNCHANGED <<otadata, boot, running, unsettled>>
    BY <1>4 DEF Validate
  <2> QED BY <2>2, <2>3
<1>5. CASE SetBoot
  BY <1>0, <1>5 DEF SetBoot
<1> QED BY <1>1, <1>2, <1>3, <1>4, <1>5

LEMMA TypeStep ==
  ASSUME FwTypeOK, [FwNext]_vars PROVE FwTypeOK'
<1>1. CASE UNCHANGED vars
  <2>1. /\ UNCHANGED fwVars /\ UNCHANGED ota /\ UNCHANGED coapVars
        /\ UNCHANGED flash /\ UNCHANGED <<manifest, rcvd, unseen>>
    BY <1>1 DEF vars
  <2>2. TaskTypeOK'
    BY <2>1 DEF FwTypeOK, TaskTypeOK, fwVars
  <2>3. SharedTypeOK'
    BY <2>1 DEF FwTypeOK, SharedTypeOK, ota, coapVars
  <2> QED BY <2>1, <2>2, <2>3, FlashKept DEF FwTypeOK
<1>2. CASE Reboot \/ Rollback
  BY <1>2, RebootTypes, RollbackTypes
<1>3. CASE \E p \in Payload : OnManifest(p)
  BY <1>3, OnManifestTypes
<1>4. CASE CoapStep \/ Connection
  <2>1. UNCHANGED flash
    BY <1>4 DEF CoapStep, Clear, Fill, Give, Connection
  <2> QED BY <1>4, <2>1, CoapTypes, FlashKept DEF FwTypeOK
<1>5. CASE Moving
  <2>1. StartTask \/ SetBoot \/ RollbackFails \/ UNCHANGED flash
    BY <1>5 DEF Moving, FwInitCall, WaitToConnect, Observe, Await, Find, Differs, Failed,
                Reported
  <2> QED BY <1>5, <2>1, MovingTypes, FlashTypes, FlashKept DEF FwTypeOK
<1>6. CASE Reporting
  <2>1. Confirm \/ ConfirmFails \/ Validate \/ UNCHANGED flash
    BY <1>6 DEF Reporting, Hello, Announce, Change, Compare, ReportStep
  <2> QED BY <1>6, <2>1, ReportingTypes, FlashTypes, FlashKept DEF FwTypeOK
<1>7. CASE Downloading
  <2>1. SharedTypeOK'
    <3>1. UNCHANGED <<ota, manifest, rcvd, coapVars, unseen>>
      BY <1>7 DEF Downloading, Size, GetBlock, AllBlocks, BlockServed, Header, Write,
                  Download
    <3> QED BY <3>1 DEF FwTypeOK, SharedTypeOK, ota, coapVars
  <2>2. Header \/ Write \/ UNCHANGED flash
    BY <1>7 DEF Downloading, Size, GetBlock, AllBlocks, BlockServed, Download, flash
  <2> QED BY <1>7, <2>1, <2>2, DownloadingTypes, FlashTypes, FlashKept DEF FwTypeOK
<1> QED BY <1>1, <1>2, <1>3, <1>4, <1>5, <1>6, <1>7
  DEF FwNext, FwStep, Served, Crash, Restart, HeaderAssertFails, ValidateAssertFails,
      Moving, Reporting, Downloading

\* Every variable of the firmware update keeps its type.
THEOREM FwTypeCorrect == FwSpec => []FwTypeOK
<1> QED BY TypeInit, TypeStep, PTL DEF FwSpec

-----------------------------------------------------------------------------
(* There is always an image to start. *)

BootInv == AfterInv /\ RunningInv /\ TargetInv /\ StateInv

LEMMA BootInit ==
  ASSUME FwInit PROVE BootInv
BY DEF FwInit, BootInv, AfterInv, RunningInv, TargetInv, StateInv, Heads, Slot, Target,
       Other

\* A reset, wherever it comes, starts the boot partition, or the other one when the
\* new image was not confirmed.
LEMMA RebootBoot ==
  ASSUME FwTypeOK, BootInv, Reboot PROVE BootInv'
<1> USE OtherSlot DEF FwTypeOK, FlashTypeOK, BootInv, RunningInv, TargetInv, Target
<1>1. fpc' = "off" /\ otaState' = "IDLE" /\ handle' = "none" /\ image' = image
  BY DEF Reboot, LoseRAM
<1>2. AfterInv' /\ StateInv' /\ TargetInv'
  BY <1>1 DEF Reboot, Bootloader, AfterInv, StateInv, Heads
<1>3. RunningInv'
  <2>1. CASE otadata[boot] = "pending"
    BY <1>1, <2>1 DEF Reboot, Bootloader
  <2>2. CASE fpc = "restart"
    <3>1. /\ boot = Target /\ otadata[boot] = "new"
          /\ otadata[running] = "valid" /\ running # boot
      BY <2>2
    <3>2. /\ boot' = boot /\ running' = boot
          /\ otadata' = [otadata EXCEPT ![boot] = "pending"]
      BY <3>1 DEF Reboot, Bootloader
    <3> QED BY <1>1, <2>2, <3>1, <3>2 DEF Heads
  <2>3. CASE fpc # "restart" /\ otadata[boot] # "pending"
    BY <1>1, <2>3 DEF Reboot, Bootloader
  <2> QED BY <2>1, <2>2, <2>3
<1> QED BY <1>2, <1>3

LEMMA RollbackBoot ==
  ASSUME FwTypeOK, BootInv, Rollback PROVE BootInv'
<1> USE OtherSlot DEF FwTypeOK, FlashTypeOK, BootInv, RunningInv, TargetInv, Target
<1>1. fpc' = "off" /\ otaState' = "IDLE" /\ handle' = "none" /\ image' = image
  BY DEF Rollback, LoseRAM
<1>2. /\ boot' = Target /\ running' = Target
      /\ otadata' = [otadata EXCEPT ![running] = "invalid"]
  BY DEF Rollback, Bootloader
<1> QED BY <1>1, <1>2 DEF Rollback, AfterInv, StateInv, Heads

\* The coap task does not touch what these invariants are about.
LEMMA CoapBoot ==
  ASSUME BootInv, UNCHANGED <<fpc, after, handle, otaState, flash>> PROVE BootInv'
BY DEF BootInv, AfterInv, RunningInv, TargetInv, StateInv, Heads, Target, flash

\* A download writes to the other partition only.
LEMMA WriteBoot ==
  ASSUME FwTypeOK, BootInv, Header \/ Write PROVE BootInv'
<1>1. /\ fpc \in {"header", "write"} /\ fpc' \in {"block", "write", "compare"}
      /\ UNCHANGED <<otaState, otadata, boot, running>>
  BY DEF Header, Write, Download, Goto, ota
<1>2. image'[running] = image[running]
  BY OtherSlot DEF Header, Write, Target, FwTypeOK, FlashTypeOK
<1>3. otadata[running] = "pending" =>
        /\ image'[Target].sealed = image[Target].sealed
        /\ handle' = "open" => handle = "open"
  BY OtherSlot DEF Header, BeginRefused, Write, Download, Target, FwTypeOK, FlashTypeOK
<1> QED BY <1>1, <1>2, <1>3
  DEF BootInv, AfterInv, RunningInv, TargetInv, StateInv, Heads, Target

\* The steps of the task up to its wait for a manifest.
LEMMA StartBoot ==
  ASSUME FwTypeOK, BootInv,
         \/ FwInitCall \/ StartTask \/ WaitToConnect \/ Confirm \/ ConfirmFails
         \/ RollbackFails \/ Hello \/ Observe
  PROVE  BootInv'
<1> USE OtherSlot DEF FwTypeOK, FlashTypeOK, BootInv, AfterInv, RunningInv, TargetInv,
                      StateInv, Heads, Target, flash, ota, Goto
<1>1. CASE FwInitCall
  BY <1>1 DEF FwInitCall
<1>2. CASE StartTask
  BY <1>2 DEF StartTask
<1>3. CASE WaitToConnect
  BY <1>3 DEF WaitToConnect
<1>4. CASE Confirm \/ ConfirmFails \/ RollbackFails
  BY <1>4 DEF Confirm, ConfirmFails, RollbackFails, Report
<1>5. CASE Hello
  BY <1>5 DEF Hello, ReportStep, Report
<1>6. CASE Observe
  BY <1>6 DEF Observe
<1> QED BY <1>1, <1>2, <1>3, <1>4, <1>5, <1>6

\* From a manifest to the image it names.
LEMMA DownloadBoot ==
  ASSUME FwTypeOK, BootInv,
         \/ Await \/ Find \/ Differs \/ Announce \/ Size \/ GetBlock \/ AllBlocks
         \/ BlockServed \/ Compare \/ Failed
  PROVE  BootInv'
<1> USE DEF FwTypeOK, FlashTypeOK, BootInv, AfterInv, RunningInv, TargetInv, StateInv,
            Heads, Target, flash, ota, Goto, Download
<1>1. CASE Await
  BY <1>1 DEF Await
<1>2. CASE Find
  BY <1>2 DEF Find
<1>3. CASE Differs
  BY <1>3 DEF Differs
<1>4. CASE Announce
  BY <1>4 DEF Announce, ReportStep, Report
<1>5. CASE Size
  BY <1>5 DEF Size
<1>6. CASE GetBlock
  BY <1>6 DEF GetBlock
<1>7. CASE AllBlocks
  BY <1>7 DEF AllBlocks
<1>8. CASE BlockServed
  BY <1>8 DEF BlockServed
<1>9. CASE Compare
  BY <1>9 DEF Compare, Report
<1>10. CASE Failed
  BY <1>10 DEF Failed
<1> QED BY <1>1, <1>2, <1>3, <1>4, <1>5, <1>6, <1>7, <1>8, <1>9, <1>10

\* From a complete image to the restart, and what follows a served report.
LEMMA InstallBoot ==
  ASSUME FwTypeOK, BootInv, Validate \/ Change \/ SetBoot \/ Reported
  PROVE  BootInv'
<1> USE OtherSlot DEF FwTypeOK, FlashTypeOK, BootInv, AfterInv, RunningInv, TargetInv,
                      StateInv, Heads, Target, flash, ota, Goto
<1>1. CASE Validate
  BY <1>1 DEF Validate, Report
<1>2. CASE Change
  BY <1>2 DEF Change, ReportStep, Report
<1>3. CASE SetBoot
  BY <1>3 DEF SetBoot
<1>4. CASE Reported
  BY <1>4 DEF Reported
<1> QED BY <1>1, <1>2, <1>3, <1>4

LEMMA BootStep ==
  ASSUME FwTypeOK, BootInv, [FwNext]_vars PROVE BootInv'
<1>1. CASE (\E p \in Payload : OnManifest(p)) \/ CoapStep \/ Connection
  <2>1. UNCHANGED <<fpc, after, handle, otaState, flash>>
    BY <1>1 DEF OnManifest, CoapStep, Clear, Fill, Give, Connection, fwVars, ota
  <2> QED BY <2>1, CoapBoot
<1>2. CASE UNCHANGED vars
  BY <1>2, CoapBoot DEF vars, fwVars, ota
<1> QED BY <1>1, <1>2, RebootBoot, RollbackBoot, WriteBoot, StartBoot, DownloadBoot,
           InstallBoot
  DEF FwNext, FwStep, Served, Crash, Restart, HeaderAssertFails, ValidateAssertFails

\* The inductive invariant of the firmware update.
THEOREM FwInvariant == FwSpec => []FwInv
<1>1. FwInit => FwTypeOK /\ BootInv
  BY TypeInit, BootInit
<1>2. FwTypeOK /\ BootInv /\ [FwNext]_vars => (FwTypeOK /\ BootInv)'
  BY TypeStep, BootStep
<1>3. FwTypeOK /\ BootInv => FwInv
  BY DEF BootInv, FwInv
<1> QED BY <1>1, <1>2, <1>3, PTL DEF FwSpec

LEMMA Bootable ==
  ASSUME FwInv PROVE BootableAlways
<1> USE OtherSlot DEF FwInv, FwTypeOK, FlashTypeOK, RunningInv, TargetInv, Heads, Target
<1>1. CASE fpc = "restart"
  BY <1>1 DEF BootableAlways
<1>2. CASE fpc # "restart"
  BY <1>2 DEF BootableAlways
<1> QED BY <1>1, <1>2

\* A reset at any moment finds an accepted image in the boot partition, and a
\* confirmed one beside it while the first is not confirmed.
THEOREM AlwaysBootable == FwSpec => []BootableAlways
<1> QED BY FwInvariant, Bootable, PTL

-----------------------------------------------------------------------------
(* The report is the barrier between a manifest and a download. *)

LEMMA BarrierStep ==
  ASSUME BarrierInv, [FwNext]_vars PROVE BarrierInv'
<1> USE DEF BarrierInv
<1>1. CASE (\E p \in Payload : OnManifest(p)) \/ CoapStep \/ Connection
  BY <1>1 DEF OnManifest, CoapStep, Clear, Fill, Give, Connection, ota
<1>2. CASE UNCHANGED vars
  BY <1>2 DEF vars, ota, coapVars
<1>3. CASE Reboot \/ Rollback
  BY <1>3 DEF Reboot, Rollback, LoseRAM
<1>4. CASE Reported
  BY <1>4 DEF Reported, coapVars
<1>5. CASE Reporting
  BY <1>5 DEF Reporting, Hello, Announce, Change, Confirm, ConfirmFails, Compare,
              Validate,
              ReportStep, Report, coapVars, ota
<1>6. CASE Downloading
  BY <1>6 DEF Downloading, Size, GetBlock, AllBlocks, BlockServed, Header, Write,
              Download, coapVars, ota
<1>7. CASE Moving
  BY <1>4, <1>7 DEF Moving, FwInitCall, StartTask, WaitToConnect, Observe, Await, Find,
              Differs, Failed, SetBoot, RollbackFails, coapVars, ota
<1> QED BY <1>1, <1>2, <1>3, <1>4, <1>5, <1>6, <1>7
  DEF FwNext, FwStep, Served, Crash, Restart, HeaderAssertFails, ValidateAssertFails,
      Moving, Reporting, Downloading

\* Once the report of a download was served, the manifest it works on is stable.
THEOREM StableManifest == FwSpec => DownloadStable
<1>1. FwInit => BarrierInv
  BY DEF FwInit, BarrierInv
<1>2. ASSUME BarrierInv, [FwNext]_vars
      PROVE  [announced /\ otaState = "DOWNLOADING" /\ fpc' # "off"
                => manifest' = manifest]_vars
  <2>1. CASE CoapStep
    BY <1>2, <2>1 DEF BarrierInv, CoapStep, Clear, Fill, Give
  <2>2. CASE (\E p \in Payload : OnManifest(p)) \/ Connection \/ Reported
    BY <2>2 DEF OnManifest, Connection, Reported
  <2>3. CASE UNCHANGED vars
    BY <2>3
  <2>4. CASE Reboot \/ Rollback
    BY <2>4 DEF Reboot, Rollback, LoseRAM
  <2>5. CASE Reporting
    BY <2>5 DEF Reporting, Hello, Announce, Change, Confirm, ConfirmFails, Compare,
              Validate,
                ReportStep
  <2>6. CASE Downloading
    BY <2>6 DEF Downloading, Size, GetBlock, AllBlocks, BlockServed, Header, Write,
                Download
  <2>7. CASE Moving
    BY <2>2, <2>7 DEF Moving, FwInitCall, StartTask, WaitToConnect, Observe, Await,
                Find, Differs, Failed, SetBoot, RollbackFails
  <2> QED BY <1>2, <2>1, <2>2, <2>3, <2>4, <2>5, <2>6, <2>7
    DEF FwNext, FwStep, Served, Crash, Restart, HeaderAssertFails,
        ValidateAssertFails, Moving, Reporting, Downloading
<1> QED BY <1>1, <1>2, BarrierStep, PTL DEF FwSpec, DownloadStable

-----------------------------------------------------------------------------
(* No accepted manifest is forgotten. *)

LEMMA ExamineStep ==
  ASSUME FwTypeOK, AfterInv, ExamineInv, [FwNext]_vars PROVE ExamineInv'
<1> USE DEF ExamineInv
<1>0. mpc \in {"idle", "clear", "fill", "give"}
  BY DEF FwTypeOK, SharedTypeOK
<1>1. CASE (\E p \in Payload : OnManifest(p)) \/ CoapStep \/ Connection
  BY <1>0, <1>1 DEF OnManifest, CoapStep, Clear, Fill, Give, Connection, fwVars
<1>2. CASE UNCHANGED vars
  BY <1>2 DEF vars, fwVars, coapVars
<1>3. CASE Reboot \/ Rollback
  BY <1>3 DEF Reboot, Rollback, LoseRAM
<1>4. CASE FwInitCall \/ Await
  BY <1>4 DEF FwInitCall, Await, Goto, coapVars
<1>5. CASE Find
  BY <1>5 DEF Find, Goto, coapVars
<1>6. CASE Observe
  BY <1>6 DEF Observe, Goto
<1>7. CASE \/ StartTask \/ WaitToConnect \/ Differs \/ Failed \/ SetBoot \/ Reported
           \/ RollbackFails
  <2>1. fpc # "find" /\ fpc' # "off" /\ UNCHANGED <<rcvd, mpc, unseen, observing>>
    BY <1>7 DEF AfterInv, StartTask, WaitToConnect, Differs, Failed, SetBoot, Reported,
                RollbackFails, Goto, coapVars
  <2> QED BY <2>1
<1>8. CASE Reporting
  <2>1. fpc # "find" /\ fpc' # "off" /\ UNCHANGED <<rcvd, mpc, unseen, observing>>
    BY <1>8 DEF Reporting, Hello, Announce, Change, Confirm, ConfirmFails, Compare,
              Validate,
                ReportStep, Report, Goto, coapVars
  <2> QED BY <2>1
<1>9. CASE Downloading
  <2>1. fpc # "find" /\ fpc' # "off" /\ UNCHANGED <<rcvd, mpc, unseen, observing>>
    BY <1>9 DEF Downloading, Size, GetBlock, AllBlocks, BlockServed, Header, Write,
                Download, Goto, coapVars
  <2> QED BY <2>1
<1> QED BY <1>1, <1>2, <1>3, <1>4, <1>5, <1>6, <1>7, <1>8, <1>9
  DEF FwNext, FwStep, Served, Crash, Restart, HeaderAssertFails, ValidateAssertFails,
      Reporting, Downloading

\* The task never waits for a manifest in the state in which they are ignored; and
\* when it waits with nothing given to it, it has examined the manifest accepted last,
\* unless that one was overwritten by a payload that was then rejected.
THEOREM NoManifestForgotten == FwSpec => []NoManifestMissed
<1>1. FwInit => ExamineInv
  BY DEF FwInit, ExamineInv
<1>2. FwInv /\ ExamineInv /\ [FwNext]_vars => ExamineInv'
  BY ExamineStep DEF FwInv
<1>3. FwInv /\ ExamineInv => NoManifestMissed
  BY DEF FwInv, StateInv, Heads, ExamineInv, NoManifestMissed
<1> QED BY <1>1, <1>2, <1>3, FwInvariant, PTL DEF FwSpec

-----------------------------------------------------------------------------
(* The flash is handled as SafeUpdate says. *)

\* What is being written was erased before its first block.
LEMMA WriteStep ==
  ASSUME FwInv, WriteInv, [FwNext]_vars PROVE WriteInv'
<1> USE OtherSlot DEF FwInv, FwTypeOK, FlashTypeOK, WriteInv, Target
<1>1. CASE UNCHANGED <<fpc, dl, handle, image, running>>
  BY <1>1
<1>2. CASE Reboot \/ Rollback
  BY <1>2 DEF Reboot, Rollback, LoseRAM
<1>3. CASE Size \/ GetBlock \/ AllBlocks \/ BlockServed
  <2>1. UNCHANGED <<handle, image, running>>
    BY <1>3 DEF Size, GetBlock, AllBlocks, BlockServed, Download
  <2>2. fpc' = "write" \/ (fpc' \in {"block", "blocking"} /\ dl'.i > 0) => handle = "open"
    <3>1. dl \in DownloadState
      BY DEF TaskTypeOK
    <3>2. CASE Size
      BY <3>2, SizeAssumption DEF Size, Download, Goto, NoDownload
    <3>3. CASE GetBlock \/ AllBlocks
      BY <3>1, <3>3 DEF GetBlock, AllBlocks, Download, Goto, DownloadState
    <3>4. CASE BlockServed
      <4>1. fpc = "blocking" /\ fpc' \in {"header", "write", "compare"}
        BY <3>4 DEF BlockServed, Download, Goto
      <4>2. fpc' = "write" => dl.i # 0
        BY <3>4 DEF BlockServed, Download, Goto
      <4>3. dl.i \in Nat
        BY <3>1 DEF DownloadState
      <4> QED BY <4>1, <4>2, <4>3
    <3> QED BY <1>3, <3>2, <3>3, <3>4
  <2> QED BY <2>1, <2>2
<1>4. CASE Header
  <2>1. /\ fpc = "header" /\ fpc' \in {"write", "compare"} /\ running' = running
        /\ fpc' = "write" => handle' = "open"
    BY <1>4 DEF Header, Download, Goto
  <2>2. handle' = "open" => ~image'[Target].sealed
    BY <1>4 DEF Header, Download, Erased
  <2> QED BY <2>1, <2>2
<1>5. CASE Write
  <2>1. fpc = "write" /\ fpc' \in {"block", "compare"} /\ running' = running
    BY <1>5 DEF Write, Download, Goto
  <2>2. fpc' = "block" => handle' = handle
    BY <1>5 DEF Write, Download, Goto
  <2>3. handle' = "open" => handle = "open" /\ image'[Target].sealed = image[Target].sealed
    BY <1>5 DEF Write, Download, Goto
  <2> QED BY <2>1, <2>2, <2>3
<1>6. CASE Reporting
  <2>1. /\ running' = running
        /\ fpc' \notin {"write", "block", "blocking"}
    BY <1>6 DEF Reporting, Hello, Announce, Change, Confirm, ConfirmFails, Compare,
              Validate,
                ReportStep, Report, Goto, flash
  <2>2. handle' = "open" => handle = "open" /\ image' = image
    BY <1>6 DEF Reporting, Hello, Announce, Change, Confirm, ConfirmFails, Compare,
              Validate,
                ReportStep, flash
  <2> QED BY <2>1, <2>2
<1>7. CASE Moving
  <2>1. /\ UNCHANGED <<image, running>>
        /\ fpc' \notin {"write", "block", "blocking"}
    BY <1>7 DEF AfterInv, Moving, FwInitCall, StartTask, WaitToConnect, Observe, Await,
                Find, Differs, Failed, SetBoot, RollbackFails, Reported, Goto, flash
  <2>2. handle' = "open" => handle = "open"
    BY <1>7 DEF Moving, FwInitCall, StartTask, WaitToConnect, Observe, Await, Find,
                Differs, Failed, SetBoot, RollbackFails, Reported
  <2> QED BY <2>1, <2>2
<1>8. CASE (\E p \in Payload : OnManifest(p)) \/ CoapStep \/ Connection \/ UNCHANGED vars
  BY <1>1, <1>8
  DEF OnManifest, CoapStep, Clear, Fill, Give, Connection, vars, fwVars, flash
<1> QED BY <1>2, <1>3, <1>4, <1>5, <1>6, <1>7, <1>8
  DEF FwNext, FwStep, Served, Crash, Restart, HeaderAssertFails, ValidateAssertFails,
      Reporting, Moving

\* Between verification and the restart into the next image, the image that runs is the
\* one to start, and is confirmed unless its confirmation failed.
LEMMA Steady ==
  ASSUME FwInv, fpc \notin {"off", "start", "verify", "restart"}
  PROVE  /\ boot = running
         /\ IF otadata[running] = "pending"
              THEN /\ PhaseOf = "trial" /\ handle # "open"
                   /\ ~Heads({"change", "setboot"})
              ELSE /\ otadata[running] = "valid"
                   /\ PhaseOf = IF Heads({"change", "setboot"}) THEN "accepted" ELSE "steady"
BY DEF FwInv, RunningInv, TargetInv, PhaseOf, Heads

\* Steps that SafeUpdate does not see.
LEMMA UpdateSilent ==
  ASSUME UNCHANGED <<image, otadata, boot, running>>,
         Heads({"change", "setboot"})' = Heads({"change", "setboot"}), Wanted' = Wanted
  PROVE  UNCHANGED Update!updateVars
BY DEF PhaseOf, Target, Update!updateVars

LEMMA UpdateInit ==
  ASSUME FwInit PROVE Update!Init
<1>1. running = 0 /\ fpc = "off" /\ boot = 0 /\ otadata[0] = "valid"
  BY DEF FwInit, Slot
<1>2. otadata[Target] = "undefined"
  BY <1>1 DEF FwInit, Slot, Target, Other
<1>3. PhaseOf = "steady" /\ Wanted = {}
  BY <1>1 DEF PhaseOf, Wanted, Heads
<1>4. [s \in Slot |-> image[s].version]
        = [s \in Slot |-> IF s = 0 THEN FirstVersion ELSE NoVersion]
  BY DEF FwInit, Erased
<1>5. {s \in Slot : image[s].sealed} = {0}
  BY DEF FwInit, Erased, Slot
<1> QED BY <1>1, <1>2, <1>3, <1>4, <1>5 DEF Update!Init, Update!Slot, Slot

\* A reset: of an image on trial, of one that is about to be tried, of the one that
\* runs.
LEMMA RebootIsReset ==
  ASSUME FwInv, Reboot PROVE Update!Reset
<1> USE OtherSlot DEF FwInv, FwTypeOK, FlashTypeOK, RunningInv, TargetInv, Target
<1>1. /\ fpc' = "off" /\ image' = image
      /\ Bootloader(otadata, boot)
  BY DEF Reboot, LoseRAM
<1>2. /\ Wanted' = {} /\ boot' = running' /\ running \in Slot /\ ~Heads({"change", "setboot"})'
      /\ Other(running) = 1 - running
  BY <1>1 DEF Wanted, Bootloader, Heads, Other
<1>3. CASE otadata[running] = "pending"
  <2>1. boot = running
    BY <1>3
  <2>2. /\ running' = Target /\ otadata' = [otadata EXCEPT ![running] = "invalid"]
    BY <1>1, <1>3, <2>1 DEF Bootloader
  <2>3. PhaseOf = "trial" /\ PhaseOf' = "steady"
    BY <1>2, <1>3, <2>2 DEF PhaseOf
  <2>4. otadata'[Target'] = "invalid"
    BY <1>2, <2>2
  <2> QED BY <1>1, <1>2, <2>2, <2>3, <2>4 DEF Update!Reset, Update!Spare
<1>4. CASE boot # running
  <2>1. fpc = "restart" /\ boot = Target /\ otadata[Target] = "new" /\ otadata[running] = "valid"
    BY <1>4
  <2>2. /\ running' = Target /\ otadata' = [otadata EXCEPT ![Target] = "pending"]
    BY <1>1, <2>1 DEF Bootloader
  <2>3. PhaseOf = "staged" /\ PhaseOf' = "trial"
    BY <1>2, <1>4, <2>1, <2>2 DEF PhaseOf
  <2>4. otadata'[Target'] # "invalid" /\ otadata[Target] # "invalid"
    BY <1>2, <2>1, <2>2
  <2> QED BY <1>1, <1>2, <2>2, <2>3, <2>4 DEF Update!Reset, Update!Spare
<1>5. CASE boot = running /\ otadata[running] = "valid"
  <2>1. running' = running /\ otadata' = otadata
    BY <1>1, <1>5 DEF Bootloader
  <2>2. PhaseOf \in {"steady", "accepted"} /\ PhaseOf' = "steady"
    BY <1>2, <1>5, <2>1 DEF PhaseOf
  <2>3. (otadata'[Target'] = "invalid") = (otadata[Target] = "invalid")
    BY <2>1
  <2> QED BY <1>1, <1>2, <2>1, <2>2, <2>3 DEF Update!Reset, Update!Spare
<1> QED BY <1>3, <1>4, <1>5

LEMMA RollbackIsReset ==
  ASSUME FwInv, Rollback PROVE Update!Reset
<1> USE OtherSlot DEF FwInv, FwTypeOK, FlashTypeOK, RunningInv, TargetInv, Target
<1>1. /\ fpc = "verify" /\ fpc' = "off" /\ image' = image
      /\ Bootloader([otadata EXCEPT ![running] = "invalid"], Other(running))
      /\ otadata[running] = "pending" /\ otadata[Target] = "valid"
  BY DEF Rollback, LoseRAM
<1>2. /\ running' = Target /\ boot' = Target
      /\ otadata' = [otadata EXCEPT ![running] = "invalid"]
  BY <1>1 DEF Bootloader
<1>3. /\ Wanted' = {} /\ PhaseOf = "trial" /\ PhaseOf' = "steady"
      /\ Other(running) = 1 - running
  BY <1>1, <1>2 DEF Wanted, PhaseOf, Heads, Other
<1>4. otadata'[Target'] = "invalid"
  BY <1>2
<1> QED BY <1>1, <1>2, <1>3, <1>4 DEF Update!Reset, Update!Spare

\* Confirm: the trial ends well.
LEMMA ConfirmIsConfirm ==
  ASSUME FwInv, Confirm PROVE Update!Confirm
<1> USE OtherSlot DEF FwInv, FwTypeOK, FlashTypeOK, RunningInv, TargetInv, Target
<1>1. /\ fpc = "verify" /\ fpc' \in {"hello", "reporting"}
      /\ fpc' = "reporting" => after' = "hello"
      /\ otadata' = [otadata EXCEPT ![running] = "valid"]
      /\ UNCHANGED <<image, boot, running>>
      /\ otadata[running] = "pending" /\ otadata[Target] = "valid" /\ boot = running
  BY DEF Confirm, Report, Goto
<1>2. PhaseOf = "trial" /\ PhaseOf' = "steady" /\ Wanted = {} /\ Wanted' = {}
  BY <1>1 DEF PhaseOf, Wanted, Heads
<1>3. otadata'[Target'] = "valid"
  BY <1>1
<1> QED BY <1>1, <1>2, <1>3 DEF Update!Confirm

\* Header: the spare partition is erased for the version that is asked for, unless
\* that is on record as rolled back.
LEMMA HeaderIsBegin ==
  ASSUME FwInv, Header
  PROVE  (\E v \in Label : Update!Begin(v)) \/ UNCHANGED Update!updateVars
<1> USE OtherSlot DEF FwInv, FwTypeOK, FlashTypeOK
<1>1. /\ fpc = "header" /\ fpc' \in {"write", "compare"}
      /\ UNCHANGED <<otadata, boot, running>> /\ dl' = dl
  BY DEF Header, Download, Goto
<1>2. /\ PhaseOf' = PhaseOf /\ Wanted = {} /\ boot = running
      /\ otadata[running] # "pending" => PhaseOf = "steady" /\ otadata[running] = "valid"
  BY <1>1, Steady DEF PhaseOf, Wanted, Heads
<1>3. dl.asked.version \in Label
  <2>1. dl.asked \in Component \cup {Blank}
    BY DEF TaskTypeOK, DownloadState
  <2> QED BY <2>1, ComponentType
<1>4. /\ Target \in Slot /\ Target # running /\ Slot = {running, Target}
      /\ Target' = Target /\ Target = Update!Spare
  BY <1>1 DEF Target, Slot, Other, Update!Spare
<1>5. Wanted' \in {{dl.asked.version}, {}}
  BY <1>1 DEF Wanted
<1>6. CASE image' = image /\ fpc' = "compare"
  <2>1. Wanted' = {}
    BY <1>6 DEF Wanted
  <2> QED BY <1>1, <1>2, <1>6, <2>1 DEF Target, Update!updateVars
<1>7. CASE ~BeginRefused /\ image' = [image EXCEPT ![Target] = Erased]
  <2>1. otadata[Target] = "invalid" => image[Target].version # dl.asked.version
    BY <1>4, <1>7, Zenon DEF BeginRefused, KnownBad
  <2>2. [s \in Slot |-> image'[s].version]
          = [[s \in Slot |-> image[s].version] EXCEPT ![Target] = NoVersion]
    BY <1>4, <1>7 DEF Erased
  <2>3. {s \in Slot : image'[s].sealed} = {running}
    BY <1>4, <1>7 DEF Erased, RunningInv
  <2>4. (otadata'[Target'] = "invalid") = (otadata[Target] = "invalid")
    BY <1>1, <1>4
  <2>5. [s \in Slot |-> image[s].version][Target] = image[Target].version
    BY <1>4
  <2>6. PhaseOf = "steady" /\ otadata[running] = "valid"
    BY <1>2, <1>7 DEF BeginRefused
  <2>7. Update!Begin(dl.asked.version)
    BY <1>1, <1>2, <1>4, <1>5, <2>1, <2>2, <2>3, <2>4, <2>5, <2>6 DEF Update!Begin
  <2> QED BY <1>3, <2>7, Zenon DEF Update!Begin
<1>8. \/ image' = image /\ fpc' = "compare"
      \/ ~BeginRefused /\ image' = [image EXCEPT ![Target] = Erased]
  BY DEF Header, Download, Goto
<1> QED BY <1>6, <1>7, <1>8

\* Write: with the first block the spare partition names the version.
LEMMA WriteIsName ==
  ASSUME FwInv, WriteInv, Write
  PROVE  Update!Name \/ Update!GiveUp \/ UNCHANGED Update!updateVars
<1> USE OtherSlot DEF FwInv, FwTypeOK, FlashTypeOK
<1>1. /\ fpc = "write" /\ fpc' \in {"block", "compare"}
      /\ UNCHANGED <<otadata, boot, running>>
  BY DEF Write, Download, Goto
<1>2. /\ PhaseOf = "steady" /\ PhaseOf' = "steady" /\ Wanted' = {} /\ boot = running
      /\ otadata[running] = "valid"
  BY <1>1, Steady DEF WriteInv, PhaseOf, Wanted, Heads
<1>3. Target \in Slot /\ Target' = Target /\ Target = Update!Spare
  BY <1>1 DEF Target, Slot, Other, Update!Spare
<1>4. CASE image' = [image EXCEPT ![Target].version = dl.asked.version] /\ dl.i = 0
  <2>1. [s \in Slot |-> image'[s].version]
          = [[s \in Slot |-> image[s].version] EXCEPT ![Target] = dl.asked.version]
    BY <1>3, <1>4
  <2>2. {s \in Slot : image'[s].sealed} = {s \in Slot : image[s].sealed}
    BY <1>3, <1>4
  <2>3. Wanted = {dl.asked.version}
    BY <1>1, <1>4 DEF Wanted
  <2>4. Target \notin {s \in Slot : image[s].sealed}
    BY <1>1 DEF WriteInv
  <2> QED BY <1>1, <1>2, <1>3, <2>1, <2>2, <2>3, <2>4 DEF Update!Name
<1>5. CASE image' = image
  BY <1>1, <1>2, <1>3, <1>5 DEF Update!GiveUp
<1>6. \/ image' = image
      \/ image' = [image EXCEPT ![Target].version = dl.asked.version] /\ dl.i = 0
  BY DEF Write, Download
<1> QED BY <1>4, <1>5, <1>6

\* Validate: an image is accepted, which was not one before.
LEMMA ValidateIsAccept ==
  ASSUME FwInv, WriteInv, Validate
  PROVE  Update!Accept \/ UNCHANGED Update!updateVars
<1> USE OtherSlot DEF FwInv, FwTypeOK, FlashTypeOK
<1>1. fpc = "validate" /\ UNCHANGED <<otadata, boot, running>>
  BY DEF Validate
<1>2. /\ Wanted = {} /\ boot = running
      /\ IF otadata[running] = "pending" THEN PhaseOf = "trial" /\ handle # "open"
           ELSE PhaseOf = "steady" /\ otadata[running] = "valid"
  BY <1>1, Steady DEF Wanted, Heads
<1>3. /\ Target \in Slot /\ Target # running /\ Slot = {running, Target}
      /\ Target' = Target /\ Target = Update!Spare
  BY <1>1 DEF Target, Slot, Other, Update!Spare
<1>4. CASE handle = "open" /\ image' = [image EXCEPT ![Target].sealed = TRUE]
           /\ Report("DOWNLOADED", "change")
  <2>1. PhaseOf' = "accepted" /\ Wanted' = {}
    BY <1>1, <1>2, <1>4 DEF Report, Goto, PhaseOf, Wanted, Heads
  <2>2. [s \in Slot |-> image'[s].version] = [s \in Slot |-> image[s].version]
    BY <1>3, <1>4
  <2>3. {s \in Slot : image'[s].sealed} = Slot
    BY <1>3, <1>4 DEF RunningInv
  <2>4. Target \notin {s \in Slot : image[s].sealed}
    BY <1>4 DEF WriteInv
  <2>5. Slot = Update!Slot
    BY DEF Slot, Update!Slot
  <2>6. PhaseOf = "steady" /\ otadata[running] = "valid"
    BY <1>2, <1>4
  <2> QED BY <1>1, <1>2, <1>3, <2>1, <2>2, <2>3, <2>4, <2>5, <2>6 DEF Update!Accept
<1>5. CASE UNCHANGED image /\ Report("IDLE", "failed")
  <2>1. PhaseOf' = PhaseOf /\ Wanted' = {}
    BY <1>1, <1>2, <1>5 DEF Report, Goto, PhaseOf, Wanted, Heads
  <2> QED BY <1>1, <1>2, <1>3, <1>5, <2>1 DEF Update!updateVars
<1> QED BY <1>4, <1>5 DEF Validate

\* SetBoot: the accepted image is the next to run, or is forgone.
LEMMA SetBootIsStage ==
  ASSUME FwInv, SetBoot
  PROVE  Update!Stage \/ Update!Forgo
<1> USE OtherSlot DEF FwInv, FwTypeOK, FlashTypeOK
<1>1. /\ fpc = "setboot" /\ fpc' \in {"restart", "failed"}
      /\ UNCHANGED <<image, running, after>> /\ Target' = Target
  BY DEF SetBoot, Goto, Target
<1>2. /\ PhaseOf = "accepted" /\ Wanted = {} /\ Wanted' = {} /\ boot = running
      /\ otadata[running] = "valid"
  BY <1>1, Steady DEF PhaseOf, Wanted, Heads
<1>3. Target \in Slot /\ Target # running /\ running \in Slot
  BY DEF Target, Slot, Other
<1>4. CASE boot' = Target /\ otadata' = [otadata EXCEPT ![Target] = "new"]
  <2>1. otadata'[running] = "valid" /\ otadata'[Target] = "new"
    BY <1>2, <1>3, <1>4
  <2>2. PhaseOf' = "staged"
    BY <1>1, <1>3, <1>4, <2>1 DEF PhaseOf
  <2>3. (otadata'[Target'] = "invalid") = FALSE
    BY <1>1, <2>1
  <2> QED BY <1>1, <1>2, <2>2, <2>3 DEF Update!Stage
<1>5. CASE UNCHANGED <<boot, otadata>> /\ fpc' = "failed"
  <2>1. PhaseOf' = "steady"
    BY <1>1, <1>2, <1>5 DEF PhaseOf, Heads
  <2> QED BY <1>1, <1>2, <1>5, <2>1 DEF Update!Forgo
<1> QED BY <1>4, <1>5 DEF SetBoot, Goto

\* The steps that leave the flash alone and do not take the task past a download.
Unseen ==
  \/ \E p \in Payload : OnManifest(p)
  \/ CoapStep \/ Connection
  \/ FwInitCall \/ StartTask \/ WaitToConnect \/ Hello \/ Observe \/ Await \/ Find
  \/ Differs \/ Announce \/ Size \/ GetBlock \/ AllBlocks \/ BlockServed \/ Compare
  \/ Failed \/ Change \/ Reported \/ ConfirmFails \/ RollbackFails \/ UNCHANGED vars

LEMMA UnseenIsSilent ==
  ASSUME FwInv, Unseen PROVE UNCHANGED Update!updateVars
<1> USE DEF FwInv, AfterInv, Heads, Wanted
<1> SUFFICES /\ UNCHANGED <<image, otadata, boot, running>>
             /\ Heads({"change", "setboot"})' = Heads({"change", "setboot"})
             /\ Wanted' = Wanted
  BY UpdateSilent
<1>1. CASE UNCHANGED <<fpc, after, dl, flash>>
  BY <1>1 DEF flash
<1>2. CASE FwInitCall \/ StartTask \/ Hello \/ Observe \/ Await \/ Find \/ Differs
           \/ Announce \/ Compare \/ Failed \/ Change \/ ConfirmFails \/ RollbackFails
  BY <1>2 DEF FwInitCall, StartTask, Hello, Observe, Await, Find, Differs, Announce,
              Compare, Failed, Change, ConfirmFails, RollbackFails, ReportStep, Report,
              Goto, flash
<1>3. CASE Size \/ GetBlock \/ AllBlocks
  BY <1>3 DEF Size, GetBlock, AllBlocks, Download, Goto, flash
<1>4. CASE BlockServed
  <2>1. /\ fpc = "blocking" /\ after' = after
        /\ UNCHANGED <<image, otadata, boot, running>>
        /\ fpc' \in {"header", "write", "compare"}
        /\ fpc' = "write" => dl.i # 0 /\ dl'.i = dl.i
    <3>1. dl \in DownloadState
      BY DEF FwTypeOK, TaskTypeOK
    <3> QED BY <1>4, <3>1 DEF BlockServed, Download, Goto, flash, DownloadState
  <2> QED BY <2>1
<1>5. CASE Reported
  BY <1>5 DEF Reported, flash
<1>6. CASE (\E p \in Payload : OnManifest(p)) \/ CoapStep \/ Connection
           \/ WaitToConnect \/ UNCHANGED vars
  BY <1>1, <1>6
  DEF OnManifest, CoapStep, Clear, Fill, Give, Connection, WaitToConnect, vars, fwVars
<1> QED BY <1>2, <1>3, <1>4, <1>5, <1>6 DEF Unseen

LEMMA UpdateStep ==
  ASSUME FwInv, WriteInv, [FwNext]_vars PROVE [Update!Next]_Update!updateVars
<1>1. CASE Unseen
  BY <1>1, UnseenIsSilent
<1>2. CASE Reboot
  BY <1>2, RebootIsReset DEF Update!Next
<1>3. CASE Rollback
  BY <1>3, RollbackIsReset DEF Update!Next
<1>4. CASE Confirm
  BY <1>4, ConfirmIsConfirm DEF Update!Next
<1>5. CASE Header
  BY <1>5, HeaderIsBegin, Zenon DEF Update!Next
<1>6. CASE Write
  BY <1>6, WriteIsName DEF Update!Next
<1>7. CASE Validate
  BY <1>7, ValidateIsAccept DEF Update!Next
<1>8. CASE SetBoot
  BY <1>8, SetBootIsStage DEF Update!Next
<1> QED BY <1>1, <1>2, <1>3, <1>4, <1>5, <1>6, <1>7, <1>8
  DEF FwNext, FwStep, Served, Crash, Restart, HeaderAssertFails, ValidateAssertFails,
      Unseen

\* Through crashes, failed requests and refused reports, what golioth_fw_update.c
\* does to the partitions is a behaviour of SafeUpdate.
THEOREM UpdateRefinement == FwSpec => ImplementsSafeUpdate
<1>1. FwInit => Update!Init
  BY UpdateInit
<1>2. FwInit => WriteInv
  BY DEF FwInit, WriteInv
<1>3. FwInv /\ WriteInv /\ [FwNext]_vars => WriteInv'
  BY WriteStep
<1>4. FwInv /\ WriteInv /\ [FwNext]_vars => [Update!Next]_Update!updateVars
  BY UpdateStep
<1> QED BY <1>1, <1>2, <1>3, <1>4, FwInvariant, PTL
  DEF FwSpec, ImplementsSafeUpdate, Update!Spec

\* SafeUpdate is safe: a reset finds an accepted image in the slot it starts, and
\* a trial can be rolled back to one.
THEOREM UpdateRecoverable == Update!Spec => []Update!Recoverable
<1> DEFINE Inv == /\ Update!Recoverable
                  /\ running \in Slot
                  /\ PhaseOf \in {"steady", "accepted", "staged", "trial"}
                  /\ PhaseOf = "accepted" => {s \in Slot : image[s].sealed} = Slot
<1>1. Update!Init => Inv
  BY DEF Update!Init, Update!Recoverable, Slot
<1>2. ASSUME Inv, [Update!Next]_Update!updateVars PROVE Inv'
  <2>1. /\ running \in {0, 1} /\ Slot = {0, 1} /\ Update!Slot = {0, 1}
        /\ Update!Spare = 1 - running
    BY <1>2 DEF Slot, Update!Slot, Update!Spare
  <2> USE <1>2, <2>1 DEF Update!Recoverable
  <2>2. CASE \E v \in Label : Update!Begin(v)
    BY <2>2 DEF Update!Begin
  <2>3. CASE Update!Name
    BY <2>3 DEF Update!Name
  <2>4. CASE Update!GiveUp
    BY <2>4 DEF Update!GiveUp
  <2>5. CASE Update!Accept
    BY <2>5 DEF Update!Accept
  <2>6. CASE Update!Forgo \/ Update!Stage \/ Update!Confirm
    BY <2>6 DEF Update!Forgo, Update!Stage, Update!Confirm
  <2>7. CASE Update!Reset
    BY <2>7 DEF Update!Reset
  <2>8. CASE UNCHANGED Update!updateVars
    BY <2>8 DEF Update!updateVars
  <2> QED BY <2>2, <2>3, <2>4, <2>5, <2>6, <2>7, <2>8 DEF Update!Next
<1>3. Inv => Update!Recoverable
  OBVIOUS
<1> QED BY <1>1, <1>2, <1>3, PTL DEF Update!Spec
=============================================================================
