--------------------------- MODULE ServicesProofs ---------------------------
(***************************************************************************)
(* Proofs about the settings and RPC services, for every set of documents, *)
(* methods and registering tasks and every length of the queue and of the  *)
(* table.  The inductive invariant is ServicesTypeOK with SettingsInv and  *)
(* RpcInv; a step of one service leaves the other's part alone but for the *)
(* handler that the coap task is in.                                       *)
(***************************************************************************)
EXTENDS Services, SequenceTheorems, TLAPS

ServicesInv == ServicesTypeOK /\ SettingsInv /\ RpcInv

LEMMA RpcStart == RpcInit => RpcTypeOK /\ (handler # "rpc" => RpcInv)
<1> SUFFICES ASSUME RpcInit PROVE RpcTypeOK /\ (handler # "rpc" => RpcInv)
  OBVIOUS
<1>1. /\ rpc \in [Registrar -> {"out", "write", "read", "count", "check"}]
      /\ name \in [Registrar -> Method \cup {NoMethod}]
      /\ table \in [Index -> Method \cup {NoMethod}]
      /\ \A t \in Registrar : rpc[t] = "out"
  BY DEF RpcInit, RpcBoot
<1>2. entry \in [Registrar -> Index] /\ count \in [Registrar -> Nat]
  BY RpcAssumption, SMT DEF RpcInit, RpcBoot, Index
<1>3. RpcTypeOK BY <1>1, <1>2 DEF RpcInit, RpcTypeOK
<1>4. handler # "rpc" => RpcInv
  BY <1>1, RpcAssumption, SMT
  DEF RpcInit, RpcInv, RegisterInv, TableInv, LoopInv, FirstInv, Registering, Index
<1> QED BY <1>3, <1>4

\* The same of the state after a reset.
LEMMA RpcRestart == (RpcInit => RpcTypeOK /\ (handler # "rpc" => RpcInv))'
BY RpcStart, PTL

LEMMA InitInv == ServicesInit => ServicesInv
<1>1. ServicesInit => ServicesTypeOK
  <2>1. QueueInit => QueueTypeOK
    BY QueueAssumption DEF QueueInit, QueueTypeOK
  <2>2. SettingsInit => SettingsTypeOK
    <3> SUFFICES ASSUME SettingsInit PROVE SettingsTypeOK
      OBVIOUS
    <3>1. MaxRuns \in Nat /\ MaxResets \in Nat /\ "SUCCESS" \in Verdict
      BY SettingsAssumption
    <3>2. nvs \in [NvsKey -> 0..MaxRuns] BY <3>1, SMT DEF SettingsInit
    <3>3. runDoc \in Seq(Document) /\ outcomes \in Seq(Outcome) /\ run = 0
      BY EmptySeq DEF SettingsInit, run
    <3>4. resets \in 0..MaxResets /\ run <= MaxRuns /\ next \in Nat
      BY <3>1, <3>3, SMT DEF SettingsInit
    <3> QED BY <3>1, <3>2, <3>3, <3>4, Zenon DEF SettingsInit, SettingsTypeOK, Status
  <2> QED BY <2>1, <2>2, RpcStart DEF ServicesInit, ServicesTypeOK
<1>2. ServicesInit => SettingsInv
  BY SMT DEF ServicesInit, QueueInit, SettingsInit, SettingsInv, RunInv, StatusInv, StoredInv,
         VersionMeansStored, run, NvsKey
<1>3. ServicesInit => RpcInv BY RpcStart DEF ServicesInit, QueueInit
<1> QED BY <1>1, <1>2, <1>3 DEF ServicesInv

-----------------------------------------------------------------------------
(* What one service sees of the other. *)

LEMMA QueueStep ==
  ASSUME QueueTypeOK, NEW ok \in Tries, Put(ok)
  PROVE  free' \in 0..QueueMax
<1>1. QueueMax \in Nat /\ free \in 0..QueueMax BY QueueAssumption DEF QueueTypeOK
<1>2. CASE free > 0 BY <1>1, <1>2 DEF Put
<1>3. CASE ~(free > 0) BY <1>1, <1>3 DEF Tries, Put
<1> QED BY <1>2, <1>3

LEMMA SettingsFrame ==
  ASSUME SettingsInv, SettingsTypeOK, UNCHANGED settingsVars,
         handler' = "settings" => handler = "settings"
  PROVE  SettingsInv' /\ SettingsTypeOK'
<1>1. SettingsTypeOK' BY DEF SettingsTypeOK, settingsVars, handlerVars, run
<1>2. RunInv' /\ StatusInv' /\ StoredInv'
  BY DEF SettingsInv, RunInv, StatusInv, StoredInv, Applied, settingsVars, handlerVars, run
<1>3. VersionMeansStored'
  BY DEF SettingsInv, VersionMeansStored, settingsVars, handlerVars
<1> QED BY <1>1, <1>2, <1>3 DEF SettingsInv

LEMMA RpcFrame ==
  ASSUME RpcInv, RpcTypeOK, UNCHANGED rpcVars, handler' = "rpc" => handler = "rpc"
  PROVE  RpcInv' /\ RpcTypeOK'
<1> USE DEF rpcVars, registerVars, onRpcVars
<1>1. RpcTypeOK' BY DEF RpcTypeOK
<1>2. RpcInv'
  BY DEF RpcInv, RegisterInv, TableInv, LoopInv, FirstInv, Registering
<1> QED BY <1>1, <1>2

-----------------------------------------------------------------------------
(* The steps of the settings service. *)

LEMMA RunType == ASSUME SettingsTypeOK PROVE run \in 0..MaxRuns
BY LenProperties DEF SettingsTypeOK, run

LEMMA SettingType ==
  ASSUME NEW d \in Document, NEW i \in 1..Len(d.settings)
  PROVE  Len(d.settings) \in Nat /\ d.settings[i].key \in Key
<1>1. d.settings \in Seq([key : Key, kind : Kind]) BY SettingsAssumption
<1>2. Len(d.settings) \in Nat BY <1>1, LenProperties
<1>3. d.settings[i] \in [key : Key, kind : Kind] BY <1>1, ElementOfSeq
<1> QED BY <1>2, <1>3

LEMMA RegisterSettingsStep ==
  ASSUME ServicesTypeOK, SettingsInv, RegisterSettings
  PROVE  QueueTypeOK' /\ SettingsTypeOK' /\ SettingsInv'
<1>1. QueueTypeOK'
  BY QueueStep DEF ServicesTypeOK, RegisterSettings, QueueTypeOK
<1>2. SettingsTypeOK'
  BY DEF ServicesTypeOK, SettingsTypeOK, RegisterSettings, handlerVars, run, Tries
<1>3. SettingsInv'
  BY DEF SettingsInv, RunInv, StatusInv, StoredInv, VersionMeansStored, Applied,
         RegisterSettings, handlerVars, run
<1> QED BY <1>1, <1>2, <1>3

LEMMA OnSettingsStep ==
  ASSUME ServicesTypeOK, SettingsInv, NEW d \in Document, OnSettings(d)
  PROVE  QueueTypeOK' /\ SettingsTypeOK' /\ SettingsInv'
<1> USE DEF OnSettings, Enter, Idle
<1>1. runDoc \in Seq(Document) /\ Len(runDoc) \in Nat
  BY LenProperties DEF ServicesTypeOK, SettingsTypeOK
<1>2. /\ runDoc' \in Seq(Document)
      /\ Len(runDoc') = Len(runDoc) + 1
      /\ runDoc'[Len(runDoc) + 1] = d
      /\ \A i \in 1..Len(runDoc) : runDoc'[i] = runDoc[i]
  BY <1>1, AppendProperties
<1>3. QueueTypeOK' BY DEF ServicesTypeOK, QueueTypeOK, Service
<1>4. SettingsTypeOK'
  BY <1>1, <1>2, SettingsAssumption, SMT
  DEF ServicesTypeOK, SettingsTypeOK, run, Status
<1>5. Len(d.settings) \in Nat BY SettingsAssumption, LenProperties
<1>6. RunInv'
  <2>1. \A k \in NvsKey : nvs'[k] <= run'
    BY <1>1, <1>2, SMT DEF SettingsInv, RunInv, run, ServicesTypeOK, SettingsTypeOK
  <2> QED BY <2>1, <1>1, <1>2, <1>5, SMT DEF RunInv, run
<1>7. StatusInv' /\ StoredInv' BY DEF StatusInv, StoredInv
<1>8. VersionMeansStored'
  <2>1. nvs["version"] \in Nat /\ nvs["version"] <= Len(runDoc)
    BY SettingsAssumption DEF SettingsInv, RunInv, run, ServicesTypeOK, SettingsTypeOK, NvsKey
  <2>2. nvs["version"] > 0 => runDoc'[nvs["version"]] = runDoc[nvs["version"]]
    BY <2>1, <1>1, <1>2
  <2> QED BY <2>2 DEF SettingsInv, VersionMeansStored
<1> QED BY <1>3, <1>4, <1>6, <1>7, <1>8 DEF SettingsInv

\* The run that is under way, and the place in its document.
LEMMA InRun ==
  ASSUME ServicesTypeOK, SettingsInv, handler = "settings"
  PROVE  /\ run \in 1..MaxRuns
         /\ doc \in Document /\ doc = runDoc[run]
         /\ Len(doc.settings) \in Nat
         /\ next \in 1..Len(doc.settings) + 2
         /\ outcomes \in Seq(Outcome) /\ Len(outcomes) \in Nat
         /\ Len(outcomes) = IF next <= Len(doc.settings) THEN next - 1 ELSE Len(doc.settings)
<1>1. run \in 0..MaxRuns /\ MaxRuns \in Nat
  BY RunType, SettingsAssumption DEF ServicesTypeOK
<1>2. doc \in Document BY DEF SettingsInv, RunInv
<1>3. Len(doc.settings) \in Nat BY <1>2, SettingsAssumption, LenProperties
<1>4. outcomes \in Seq(Outcome) /\ Len(outcomes) \in Nat
  BY LenProperties DEF ServicesTypeOK, SettingsTypeOK
<1> QED BY <1>1, <1>2, <1>3, <1>4 DEF SettingsInv, RunInv

\* Storing the value of a setting replaces what an earlier run stored, if anything.
LEMMA SaveStep ==
  ASSUME ServicesTypeOK, SettingsInv, handler = "settings",
         NEW k \in NvsKey, SaveToNvs(k), UNCHANGED runDoc
  PROVE  /\ nvs' \in [NvsKey -> 0..MaxRuns] /\ failed' \subseteq Run \X NvsKey
         /\ \A j \in NvsKey : nvs'[j] <= run' /\ nvs[j] <= nvs'[j]
         /\ \A j \in NvsKey : j # k => nvs'[j] = nvs[j]
         /\ failed \subseteq failed'
         /\ nvs'[k] = run \/ <<run, k>> \in failed'
         /\ nvs'[k] = run \/ nvs' = nvs
<1>1. run \in 1..MaxRuns /\ run' = run /\ MaxRuns \in Nat
  BY InRun, SettingsAssumption DEF run
<1>2. nvs \in [NvsKey -> 0..MaxRuns] /\ failed \subseteq Run \X NvsKey
  BY DEF ServicesTypeOK, SettingsTypeOK
<1>3. \A j \in NvsKey : nvs[j] <= run BY DEF SettingsInv, RunInv
<1>4. CASE nvs' = [nvs EXCEPT ![k] = run] /\ failed' = failed
  BY <1>1, <1>2, <1>3, <1>4
<1>5. CASE nvs' = nvs /\ failed' = failed \cup {<<run, k>>}
  BY <1>1, <1>2, <1>3, <1>5 DEF Run
<1> QED BY <1>4, <1>5 DEF SaveToNvs

\* A setting is noted with its outcome, and stored if that is a success.
LEMMA HandleStep ==
  ASSUME ServicesTypeOK, SettingsInv, handler = "settings",
         NEW s, s.key \in Key, HandleSetting(s)
  PROVE  \E o \in Outcome :
           /\ Note(o)
           /\ \/ /\ NotSaved
                 /\ Done(o) => /\ s.key \notin LongKey
                               /\ o = "skipped" /\ TypeOf(s.kind) = "UNKNOWN"
              \/ o \in Verdict /\ o # "SUCCESS" /\ NotSaved
              \/ o = "SUCCESS" /\ s.key \notin LongKey /\ SaveToNvs(s.key)
<1>1. CASE s.key \in LongKey
  BY <1>1 DEF HandleSetting, Outcome, Status, Done
<1>2. CASE s.key \notin LongKey /\ TypeOf(s.kind) = "UNKNOWN"
  BY <1>2 DEF HandleSetting, Outcome, Status, Done
<1>3. CASE s.key \notin LongKey /\ TypeOf(s.kind) # "UNKNOWN"
  <2>1. PICK verdict \in Verdict :
          /\ Note(verdict)
          /\ IF verdict = "SUCCESS" THEN SaveToNvs(s.key) ELSE NotSaved
    BY <1>3 DEF HandleSetting
  <2> QED BY <1>3, <2>1 DEF Outcome, Status
<1> QED BY <1>1, <1>2, <1>3

LEMMA NoteStep ==
  ASSUME ServicesTypeOK, SettingsInv, handler = "settings", NEW o \in Outcome, Note(o)
  PROVE  /\ outcomes' \in Seq(Outcome) /\ Len(outcomes') = Len(outcomes) + 1
         /\ outcomes'[Len(outcomes) + 1] = o
         /\ \A i \in 1..Len(outcomes) : outcomes'[i] = outcomes[i]
         /\ status' \in Status
<1>1. outcomes' \in Seq(Outcome) /\ Len(outcomes') = Len(outcomes) + 1
  BY InRun, AppendProperties DEF Note
<1>2. /\ outcomes'[Len(outcomes) + 1] = o
      /\ \A i \in 1..Len(outcomes) : outcomes'[i] = outcomes[i]
  BY InRun, AppendProperties DEF Note
<1>3. status' \in Status
  BY DEF Note, Outcome, ServicesTypeOK, SettingsTypeOK
<1> QED BY <1>1, <1>2, <1>3

\* While nothing is stored under "version", what it stands for stays stored.
LEMMA VersionStep ==
  ASSUME ServicesTypeOK, SettingsInv, UNCHANGED runDoc, nvs'["version"] = nvs["version"],
         \A j \in NvsKey : nvs[j] <= nvs'[j] /\ nvs'[j] \in Nat,
         failed \subseteq failed'
  PROVE  VersionMeansStored'
<1> DEFINE n == nvs["version"]
<1> SUFFICES ASSUME n > 0, NEW i \in 1..Len(runDoc[n].settings)
             PROVE  LET s == runDoc[n].settings[i] IN
                      /\ s.key \notin LongKey
                      /\ Storable(s) => nvs'[s.key] >= n \/ <<n, s.key>> \in failed'
  BY DEF VersionMeansStored, Storable
<1> DEFINE s == runDoc[n].settings[i]
<1>1. n \in Nat /\ n <= run /\ runDoc \in Seq(Document)
  BY SettingsAssumption DEF ServicesTypeOK, SettingsTypeOK, SettingsInv, RunInv, NvsKey
<1>2. runDoc[n] \in Document
  BY <1>1, ElementOfSeq, LenProperties DEF run
<1>3. s.key \in NvsKey BY <1>2, SettingType DEF NvsKey
<1>4. nvs[s.key] \in Nat /\ nvs'[s.key] \in Nat /\ nvs[s.key] <= nvs'[s.key]
  BY <1>3, SettingsAssumption DEF ServicesTypeOK, SettingsTypeOK
<1>5. s.key \notin LongKey /\ (Storable(s) => nvs[s.key] >= n \/ <<n, s.key>> \in failed)
  BY DEF SettingsInv, VersionMeansStored
<1> QED BY <1>1, <1>4, <1>5

LEMMA OnSettingStep ==
  ASSUME ServicesTypeOK, SettingsInv, OnSetting
  PROVE  QueueTypeOK' /\ SettingsTypeOK' /\ SettingsInv'
<1> DEFINE s == doc.settings[next]
<1>0. /\ handler = "settings" /\ next \in 1..Len(doc.settings) /\ HandleSetting(s)
      /\ next' = next + 1
      /\ UNCHANGED <<free, handler, initialized, observed, doc, resets, runDoc, refused>>
  BY DEF OnSetting, queueVars
<1>1. /\ run \in 1..MaxRuns /\ doc \in Document /\ doc = runDoc[run]
      /\ Len(doc.settings) \in Nat /\ next \in 1..Len(doc.settings)
      /\ outcomes \in Seq(Outcome) /\ Len(outcomes) = next - 1
  BY <1>0, InRun
<1>2. s.key \in Key /\ s.key \in NvsKey /\ s.key # "version"
  BY <1>1, SettingType, SettingsAssumption DEF NvsKey
<1> HIDE DEF s
<1>3. PICK o \in Outcome :
        /\ Note(o)
        /\ \/ /\ NotSaved
              /\ Done(o) => /\ s.key \notin LongKey
                            /\ o = "skipped" /\ TypeOf(s.kind) = "UNKNOWN"
           \/ o \in Verdict /\ o # "SUCCESS" /\ NotSaved
           \/ o = "SUCCESS" /\ s.key \notin LongKey /\ SaveToNvs(s.key)
  BY <1>0, <1>2, HandleStep
<1>4. /\ outcomes' \in Seq(Outcome) /\ Len(outcomes') = next
      /\ outcomes'[next] = o
      /\ \A i \in 1..(next - 1) : outcomes'[i] = outcomes[i]
      /\ status' \in Status
  BY <1>0, <1>1, <1>3, NoteStep
<1>5. /\ nvs' \in [NvsKey -> 0..MaxRuns] /\ failed' \subseteq Run \X NvsKey
      /\ \A j \in NvsKey : nvs'[j] <= run' /\ nvs[j] <= nvs'[j]
      /\ nvs'["version"] = nvs["version"]
      /\ failed \subseteq failed'
  <2>1. CASE NotSaved
    BY <1>0, <2>1 DEF NotSaved, ServicesTypeOK, SettingsTypeOK, SettingsInv, RunInv, run
  <2>2. CASE SaveToNvs(s.key)
    BY <1>0, <1>2, <2>2, SaveStep DEF NvsKey
  <2> QED BY <1>3, <2>1, <2>2
<1>6. Done(o) =>
        /\ s.key \notin LongKey
        /\ \/ o = "SUCCESS" /\ (nvs'[s.key] = run \/ <<run, s.key>> \in failed')
           \/ o = "skipped" /\ TypeOf(s.kind) = "UNKNOWN"
  <2>1. "skipped" \notin Verdict BY SettingsAssumption
  <2>2. CASE o = "SUCCESS" /\ s.key \notin LongKey /\ SaveToNvs(s.key)
    <3>1. nvs'[s.key] = run \/ <<run, s.key>> \in failed'
      BY <1>0, <1>2, <2>2, SaveStep
    <3> QED BY <2>2, <3>1
  <2> QED BY <1>3, <2>1, <2>2 DEF Done
<1>7. QueueTypeOK' BY <1>0 DEF ServicesTypeOK, QueueTypeOK
<1>8. SettingsTypeOK'
  <2>1. next' \in Nat BY <1>0
  <2> QED BY <1>0, <1>4, <1>5, <2>1 DEF ServicesTypeOK, SettingsTypeOK, run
<1>9. RunInv'
  BY <1>0, <1>1, <1>4, <1>5 DEF RunInv, run
<1>10. StatusInv'
  <2>1. CASE Done(o)
    <3>1. status' = status BY <1>3, <2>1 DEF Note, Done
    <3> QED BY <1>0, <1>1, <1>4, <2>1, <3>1 DEF SettingsInv, StatusInv
  <2>2. CASE ~Done(o)
    <3>1. status' = o /\ o # "SUCCESS" BY <1>3, <2>2 DEF Note, Done
    <3> QED BY <1>1, <1>4, <3>1 DEF StatusInv
  <2> QED BY <2>1, <2>2
<1>11. StoredInv'
  <2> SUFFICES ASSUME NEW i \in 1..next, Done(outcomes'[i])
               PROVE  doc.settings[i].key \notin LongKey /\ Applied(i)'
    BY <1>0, <1>4 DEF StoredInv
  <2>0. /\ run' = run /\ doc' = doc
        /\ nvs'[doc.settings[i].key] = nvs[doc.settings[i].key]
             \/ nvs'[doc.settings[i].key] = run
    <3>1. i \in 1..Len(doc.settings) BY <1>1
    <3>2. doc.settings[i].key \in NvsKey BY <1>1, <3>1, SettingType DEF NvsKey
    <3>3. CASE NotSaved BY <1>0, <3>3 DEF NotSaved, run
    <3>4. CASE SaveToNvs(s.key) BY <1>0, <1>2, <3>2, <3>4, SaveStep DEF run
    <3> QED BY <1>3, <3>3, <3>4
  <2>1. CASE i = next
    BY <1>0, <1>4, <1>6, <2>0, <2>1 DEF s, Applied
  <2>2. CASE i # next
    <3>1. i \in 1..(next - 1) /\ outcomes'[i] = outcomes[i] BY <1>1, <1>4, <2>2
    <3>2. doc.settings[i].key \notin LongKey /\ Applied(i)
      BY <1>0, <1>1, <3>1 DEF SettingsInv, StoredInv
    <3> QED BY <1>5, <2>0, <3>1, <3>2 DEF Applied
  <2> QED BY <2>1, <2>2
<1>12. VersionMeansStored'
  BY <1>0, <1>5, SettingsAssumption, VersionStep
<1> QED BY <1>7, <1>8, <1>9, <1>10, <1>11, <1>12 DEF SettingsInv

LEMMA SaveVersionStep ==
  ASSUME ServicesTypeOK, SettingsInv, SaveVersion
  PROVE  QueueTypeOK' /\ SettingsTypeOK' /\ SettingsInv'
<1>0. /\ handler = "settings" /\ next = Len(doc.settings) + 1
      /\ IF status = "SUCCESS" THEN SaveToNvs("version") ELSE NotSaved
      /\ next' = next + 1
      /\ UNCHANGED <<free, handler, initialized, observed, doc, status, outcomes, resets,
                     runDoc, refused>>
  BY DEF SaveVersion, queueVars
<1>1. /\ run \in 1..MaxRuns /\ doc \in Document /\ doc = runDoc[run]
      /\ Len(doc.settings) \in Nat /\ Len(outcomes) = Len(doc.settings)
  BY <1>0, InRun
<1>2. "version" \in NvsKey /\ "version" \notin Key BY SettingsAssumption DEF NvsKey
<1>3. /\ nvs' \in [NvsKey -> 0..MaxRuns] /\ failed' \subseteq Run \X NvsKey
      /\ \A j \in NvsKey : nvs'[j] <= run' /\ nvs[j] <= nvs'[j]
      /\ \A j \in Key : nvs'[j] = nvs[j]
      /\ failed \subseteq failed'
  <2>1. CASE NotSaved
    BY <1>0, <2>1 DEF NotSaved, ServicesTypeOK, SettingsTypeOK, SettingsInv, RunInv, run
  <2>2. CASE SaveToNvs("version")
    BY <1>0, <1>2, <2>2, SaveStep DEF NvsKey
  <2> QED BY <1>0, <2>1, <2>2
<1>4. QueueTypeOK' BY <1>0 DEF ServicesTypeOK, QueueTypeOK
<1>5. SettingsTypeOK'
  <2>1. next' \in Nat BY <1>0, <1>1
  <2> QED BY <1>0, <1>3, <2>1 DEF ServicesTypeOK, SettingsTypeOK, run
<1>6. RunInv' /\ StatusInv'
  BY <1>0, <1>1, <1>3 DEF SettingsInv, RunInv, StatusInv, run
<1>7. StoredInv'
  <2> SUFFICES ASSUME NEW i \in 1..Len(outcomes), Done(outcomes[i])
               PROVE  doc.settings[i].key \notin LongKey /\ Applied(i)'
    BY <1>0 DEF StoredInv
  <2>1. doc.settings[i].key \in Key BY <1>1, SettingType
  <2>2. doc.settings[i].key \notin LongKey /\ Applied(i)
    BY <1>0 DEF SettingsInv, StoredInv
  <2> QED BY <1>0, <1>3, <2>1, <2>2 DEF Applied, run
<1>8. VersionMeansStored'
  <2>1. CASE nvs'["version"] = nvs["version"]
    <3>1. \A j \in NvsKey : nvs'[j] \in Nat BY <1>3, SettingsAssumption
    <3> QED BY <1>0, <1>3, <2>1, <3>1, VersionStep
  <2>2. CASE nvs'["version"] # nvs["version"]
    <3>1. status = "SUCCESS" /\ nvs'["version"] = run
      <4>1. ~NotSaved BY <2>2 DEF NotSaved
      <4>2. status = "SUCCESS" /\ SaveToNvs("version") BY <1>0, <4>1
      <4> QED BY <1>0, <1>2, <2>2, <4>2, SaveStep
    <3> SUFFICES ASSUME NEW i \in 1..Len(doc.settings)
                 PROVE  LET t == doc.settings[i] IN
                          /\ t.key \notin LongKey
                          /\ Storable(t) => nvs'[t.key] >= run \/ <<run, t.key>> \in failed'
      BY <1>0, <1>1, <3>1 DEF VersionMeansStored, Storable
    <3>2. Done(outcomes[i]) BY <1>0, <1>1, <3>1 DEF SettingsInv, StatusInv
    <3>3. doc.settings[i].key \notin LongKey /\ Applied(i)
      BY <1>0, <1>1, <3>2 DEF SettingsInv, StoredInv
    <3>4. doc.settings[i].key \in Key BY <1>1, SettingType
    <3> QED BY <1>1, <1>3, <3>3, <3>4 DEF Applied, Storable
  <2> QED BY <2>1, <2>2
<1> QED BY <1>4, <1>5, <1>6, <1>7, <1>8 DEF SettingsInv

LEMMA SendStatusReportStep ==
  ASSUME ServicesTypeOK, SettingsInv, SendStatusReport
  PROVE  QueueTypeOK' /\ SettingsTypeOK' /\ SettingsInv'
<1> USE DEF SendStatusReport, Leave
<1>1. QueueTypeOK' BY QueueStep DEF ServicesTypeOK, QueueTypeOK
<1>2. SettingsTypeOK'
  BY SettingsAssumption, EmptySeq DEF ServicesTypeOK, SettingsTypeOK, run, Status
<1>3. RunInv' /\ StatusInv' /\ StoredInv'
  BY DEF SettingsInv, RunInv, StatusInv, StoredInv, run
<1>4. VersionMeansStored' BY DEF SettingsInv, VersionMeansStored
<1> QED BY <1>1, <1>2, <1>3, <1>4 DEF SettingsInv

LEMMA ResetSettingsStep ==
  ASSUME ServicesTypeOK, SettingsInv, ResetSettings, handler' = "none"
  PROVE  SettingsTypeOK' /\ SettingsInv'
<1> USE DEF ResetSettings
<1>1. SettingsTypeOK'
  <2>1. resets' \in 0..MaxResets
    BY SettingsAssumption DEF ServicesTypeOK, SettingsTypeOK
  <2>2. outcomes' \in Seq(Outcome) /\ status' \in Status
    BY SettingsAssumption, EmptySeq DEF Status
  <2> QED BY <2>1, <2>2 DEF ServicesTypeOK, SettingsTypeOK, run
<1>2. RunInv' /\ StatusInv' /\ StoredInv'
  BY DEF SettingsInv, RunInv, StatusInv, StoredInv, run
<1>3. VersionMeansStored' BY DEF SettingsInv, VersionMeansStored
<1> QED BY <1>1, <1>2, <1>3 DEF SettingsInv

-----------------------------------------------------------------------------
(* The steps of the RPC service. *)

LEMMA RegisterStep ==
  ASSUME ServicesTypeOK, RpcInv, NEW t \in Registrar, NEW m \in Method, Register(t, m)
  PROVE  RpcTypeOK' /\ RpcInv'
<1> USE DEF Register, Move, onRpcVars, queueVars
<1>1. num \in Nat /\ MaxMethods \in Nat /\ num \in Index
  BY RpcAssumption DEF ServicesTypeOK, RpcTypeOK, Index
<1>2. RpcTypeOK'
  BY <1>1 DEF ServicesTypeOK, RpcTypeOK
<1>3. RpcInv'
  <2> SUFFICES ASSUME ~overlapped'
               PROVE  (RegisterInv /\ TableInv /\ LoopInv /\ FirstInv /\ ~wild /\ ~missed)'
    BY DEF RpcInv
  <2>1. ~overlapped /\ \A u \in Registrar : rpc[u] = "out"
    OBVIOUS
  <2>2. RegisterInv /\ TableInv /\ LoopInv /\ FirstInv /\ ~wild /\ ~missed
    BY <2>1 DEF RpcInv
  <2>3. RegisterInv'
    BY <1>1, <2>1 DEF RegisterInv, Registering, ServicesTypeOK, RpcTypeOK
  <2>4. FirstInv' BY <2>1, <2>2 DEF FirstInv
  <2> QED BY <2>2, <2>3, <2>4 DEF TableInv, LoopInv
<1> QED BY <1>2, <1>3

LEMMA WriteEntryStep ==
  ASSUME ServicesTypeOK, RpcInv, NEW t \in Registrar, WriteEntry(t)
  PROVE  RpcTypeOK' /\ RpcInv'
<1> USE DEF WriteEntry, Move, onRpcVars, queueVars
<1>1. RpcTypeOK'
  BY DEF ServicesTypeOK, RpcTypeOK
<1>2. RpcInv'
  <2> SUFFICES ASSUME ~overlapped'
               PROVE  (RegisterInv /\ TableInv /\ LoopInv /\ FirstInv /\ ~wild /\ ~missed)'
    BY DEF RpcInv
  <2>1. RegisterInv /\ TableInv /\ LoopInv /\ FirstInv /\ ~wild /\ ~missed
    BY DEF RpcInv
  <2>2. /\ entry[t] = num /\ name[t] \in Method /\ entry[t] \in Index /\ num \in Nat
        /\ \A u \in Registrar : u # t => rpc[u] = "out"
    BY <2>1 DEF RegisterInv, Registering, ServicesTypeOK, RpcTypeOK
  <2>3. table'[entry[t]] = name[t] /\ \A i \in Index : i < num => table'[i] = table[i]
    BY <2>2 DEF ServicesTypeOK, RpcTypeOK, Index
  <2>4. RegisterInv'
    BY <2>1, <2>2, <2>3 DEF RegisterInv, Registering, ServicesTypeOK, RpcTypeOK
  <2>5. TableInv' BY <2>1, <2>3 DEF TableInv
  <2>6. LoopInv'
    BY <2>1, <2>2, <2>3 DEF LoopInv, ServicesTypeOK, RpcTypeOK, Index
  <2>7. FirstInv'
    <3>1. ~(\E u \in Registrar : rpc[u] = "check") BY <2>2
    <3> QED BY <2>1, <3>1 DEF FirstInv
  <2> QED BY <2>1, <2>4, <2>5, <2>6, <2>7
<1> QED BY <1>1, <1>2

LEMMA ReadCountStep ==
  ASSUME ServicesTypeOK, RpcInv, NEW t \in Registrar, ReadCount(t)
  PROVE  RpcTypeOK' /\ RpcInv'
<1> USE DEF ReadCount, Move, onRpcVars, queueVars
<1>1. RpcTypeOK'
  BY DEF ServicesTypeOK, RpcTypeOK
<1>2. RpcInv'
  <2> SUFFICES ASSUME ~overlapped'
               PROVE  (RegisterInv /\ TableInv /\ LoopInv /\ FirstInv /\ ~wild /\ ~missed)'
    BY DEF RpcInv
  <2>1. RegisterInv /\ TableInv /\ LoopInv /\ FirstInv /\ ~wild /\ ~missed
    BY DEF RpcInv
  <2>2. \A u \in Registrar : u # t => rpc[u] = "out"
    BY <2>1 DEF RegisterInv, Registering
  <2>3. RegisterInv'
    BY <2>1, <2>2 DEF RegisterInv, Registering, ServicesTypeOK, RpcTypeOK
  <2>4. TableInv' /\ LoopInv' BY <2>1 DEF TableInv, LoopInv
  <2>5. FirstInv' BY <2>1, <2>2 DEF FirstInv
  <2> QED BY <2>1, <2>3, <2>4, <2>5
<1> QED BY <1>1, <1>2

LEMMA WriteCountStep ==
  ASSUME ServicesTypeOK, RpcInv, NEW t \in Registrar, WriteCount(t)
  PROVE  RpcTypeOK' /\ RpcInv'
<1> USE DEF WriteCount, Move, onRpcVars, queueVars
<1>1. RpcTypeOK'
  BY DEF ServicesTypeOK, RpcTypeOK
<1>2. RpcInv'
  <2> SUFFICES ASSUME ~overlapped'
               PROVE  (RegisterInv /\ TableInv /\ LoopInv /\ FirstInv /\ ~wild /\ ~missed)'
    BY DEF RpcInv
  <2>1. RegisterInv /\ TableInv /\ LoopInv /\ FirstInv /\ ~wild /\ ~missed
    BY DEF RpcInv
  <2>2. /\ count[t] = num /\ entry[t] = num /\ entry[t] \in Index /\ num \in Nat
        /\ name[t] \in Method /\ table[entry[t]] = name[t]
        /\ \A u \in Registrar : u # t => rpc[u] = "out"
    BY <2>1 DEF RegisterInv, Registering, ServicesTypeOK, RpcTypeOK
  <2>3. num' = num + 1 /\ rpc'[t] = "check" BY <2>2 DEF ServicesTypeOK, RpcTypeOK
  <2>4. RegisterInv'
    BY <2>1, <2>2, <2>3 DEF RegisterInv, Registering, ServicesTypeOK, RpcTypeOK
  <2>5. TableInv'
    <3>1. num' <= MaxMethods BY <2>2, <2>3, RpcAssumption DEF Index
    <3>2. \A i \in Index : i < num' => i < num \/ i = num BY <2>2, <2>3 DEF Index
    <3>3. \A i \in Index : i < num => i < num' BY <2>2, <2>3 DEF Index
    <3> QED BY <2>1, <2>2, <3>1, <3>2, <3>3, RpcAssumption DEF TableInv
  <2>6. LoopInv'
    <3>1. index <= num => index <= num'
      BY <2>2, <2>3 DEF ServicesTypeOK, RpcTypeOK
    <3> QED BY <2>1, <3>1 DEF LoopInv
  <2>7. FirstInv'
    <3>1. CASE num = 0 BY <2>3, <3>1 DEF FirstInv
    <3>2. CASE num > 0
      <4>1. rpcObserved \/ rpcRefused BY <2>1, <2>2, <3>2 DEF FirstInv
      <4> QED BY <4>1 DEF FirstInv
    <3> QED BY <2>2, <3>1, <3>2
  <2> QED BY <2>1, <2>4, <2>5, <2>6, <2>7
<1> QED BY <1>1, <1>2

LEMMA CheckCountStep ==
  ASSUME ServicesTypeOK, RpcInv, NEW t \in Registrar, CheckCount(t)
  PROVE  QueueTypeOK' /\ RpcTypeOK' /\ RpcInv'
<1> USE DEF onRpcVars
<1>1. /\ rpc[t] = "check" /\ rpc' = [rpc EXCEPT ![t] = "out"]
      /\ name' = [name EXCEPT ![t] = NoMethod]
      /\ entry' = [entry EXCEPT ![t] = 0]
      /\ count' = [count EXCEPT ![t] = 0]
      /\ UNCHANGED <<handler, table, num, onRpcVars, overlapped, wild, missed>>
  BY DEF CheckCount, CheckCountIn, Move
<1>2. PICK seen \in {count[t] + 1, num} :
        IF seen = 1
          THEN \E ok \in Tries :
                 /\ Put(ok)
                 /\ rpcObserved' = (rpcObserved \/ ok)
                 /\ rpcRefused' = (rpcRefused \/ ~ok)
                 /\ registered' = IF ok THEN registered \cup {name[t]} ELSE registered
          ELSE /\ registered' = registered \cup {name[t]}
               /\ UNCHANGED <<free, rpcObserved, rpcRefused>>
  BY DEF CheckCount, CheckCountIn
<1>3. /\ free' \in 0..QueueMax
      /\ rpcObserved' \in BOOLEAN /\ rpcRefused' \in BOOLEAN
      /\ registered' \in {registered, registered \cup {name[t]}}
      /\ registered \subseteq registered'
      /\ seen = 1 => rpcObserved' \/ rpcRefused'
      /\ rpcObserved => rpcObserved'
      /\ rpcRefused => rpcRefused'
  <2>1. QueueTypeOK BY DEF ServicesTypeOK
  <2>2. CASE seen = 1
    <3>1. PICK ok \in Tries :
            /\ Put(ok)
            /\ rpcObserved' = (rpcObserved \/ ok)
            /\ rpcRefused' = (rpcRefused \/ ~ok)
            /\ registered' = IF ok THEN registered \cup {name[t]} ELSE registered
      BY <1>2, <2>2
    <3>2. free' \in 0..QueueMax BY <2>1, <3>1, QueueStep
    <3> QED BY <3>1, <3>2
  <2>3. CASE seen # 1
    BY <1>2, <2>1, <2>3 DEF QueueTypeOK, ServicesTypeOK, RpcTypeOK
  <2> QED BY <2>2, <2>3
<1>4. QueueTypeOK' BY <1>1, <1>3 DEF ServicesTypeOK, QueueTypeOK
<1>5. ASSUME overlapped PROVE RpcInv'
  BY <1>1, <1>5 DEF RpcInv
<1>6. ASSUME ~overlapped PROVE RpcInv'
  <2>1. RegisterInv /\ TableInv /\ LoopInv /\ FirstInv /\ ~wild /\ ~missed
    BY <1>6 DEF RpcInv
  <2>2. /\ num = entry[t] + 1 /\ seen = num /\ entry[t] \in Index /\ num \in Nat
        /\ name[t] \in Method /\ table[entry[t]] = name[t]
        /\ \A u \in Registrar : u # t => rpc[u] = "out"
    BY <1>1, <2>1 DEF RegisterInv, Registering, ServicesTypeOK, RpcTypeOK
  <2>3. rpc'[t] = "out" /\ \A u \in Registrar : rpc'[u] = "out"
    BY <1>1, <2>2 DEF ServicesTypeOK, RpcTypeOK
  <2>4. RegisterInv' BY <2>3 DEF RegisterInv, Registering
  <2>5. TableInv'
    <3>1. entry[t] < num BY <2>2 DEF Index
    <3> QED BY <1>1, <1>3, <2>1, <2>2, <3>1 DEF TableInv
  <2>6. LoopInv' BY <1>1, <1>3, <2>1 DEF LoopInv
  <2>7. FirstInv'
    <3>1. CASE num = 1 BY <1>3, <2>2, <3>1 DEF FirstInv
    <3>2. CASE num # 1
      BY <1>1, <1>3, <2>1, <3>2 DEF FirstInv
    <3> QED BY <3>1, <3>2
  <2> QED BY <1>1, <2>1, <2>4, <2>5, <2>6, <2>7 DEF RpcInv
<1>7. RpcTypeOK'
  <2>1. 0 \in Index BY RpcAssumption DEF Index
  <2>2. registered' \subseteq Method
    BY <1>1, <1>3 DEF ServicesTypeOK, RpcTypeOK
  <2> QED BY <1>1, <1>3, <2>1, <2>2 DEF ServicesTypeOK, RpcTypeOK
<1> QED BY <1>4, <1>5, <1>6, <1>7

LEMMA OnRpcStep ==
  ASSUME ServicesTypeOK, RpcInv, NEW m \in Method, OnRpc(m)
  PROVE  QueueTypeOK' /\ RpcTypeOK' /\ RpcInv'
<1> USE DEF OnRpc, Enter, registerVars
<1>1. QueueTypeOK' BY DEF ServicesTypeOK, QueueTypeOK, Service
<1>2. RpcTypeOK' BY DEF ServicesTypeOK, RpcTypeOK
<1>3. num \in Nat BY DEF ServicesTypeOK, RpcTypeOK
<1>4. RpcInv'
  BY <1>3, SMT DEF RpcInv, RegisterInv, TableInv, LoopInv, FirstInv, Registering, Index
<1> QED BY <1>1, <1>2, <1>4

LEMMA CompareStep ==
  ASSUME ServicesTypeOK, RpcInv, Compare
  PROVE  QueueTypeOK' /\ RpcTypeOK' /\ RpcInv'
<1> USE DEF Compare, registerVars, queueVars
<1>1. QueueTypeOK' BY DEF ServicesTypeOK, QueueTypeOK
<1>2. index \in Nat /\ num \in Nat BY DEF ServicesTypeOK, RpcTypeOK
<1>3. RpcTypeOK'
  <2>1. index' \in Nat BY <1>2
  <2>2. wild' \in BOOLEAN OBVIOUS
  <2> QED BY <2>1, <2>2 DEF ServicesTypeOK, RpcTypeOK
<1>4. ASSUME overlapped PROVE RpcInv' BY <1>4 DEF RpcInv
<1>5. ASSUME ~overlapped PROVE RpcInv'
  <2>1. RegisterInv /\ TableInv /\ LoopInv /\ FirstInv /\ ~wild /\ ~missed
    BY <1>5 DEF RpcInv
  <2>2. index \in Index /\ table[index] # NoMethod /\ table[index] # call
    BY <1>2, <2>1, RpcAssumption DEF TableInv, Index
  <2>3. RegisterInv' /\ TableInv' /\ FirstInv'
    BY <2>1 DEF RegisterInv, TableInv, FirstInv, Registering
  <2>4. LoopInv'
    <3>1. \A i \in Index : i < index' => i < index \/ i = index BY <1>2 DEF Index
    <3> QED BY <1>2, <2>1, <2>2, <3>1 DEF LoopInv
  <2> QED BY <2>1, <2>2, <2>3, <2>4 DEF RpcInv
<1> QED BY <1>1, <1>3, <1>4, <1>5

LEMMA AckStep ==
  ASSUME ServicesTypeOK, RpcInv, Ack, missed' \in BOOLEAN,
         ~overlapped => missed' = missed
  PROVE  QueueTypeOK' /\ RpcTypeOK' /\ RpcInv'
<1> USE DEF Ack, Leave, registerVars
<1>1. QueueTypeOK' BY QueueStep DEF ServicesTypeOK, QueueTypeOK
<1>2. RpcTypeOK' BY DEF ServicesTypeOK, RpcTypeOK
<1>3. RpcInv'
  BY DEF RpcInv, RegisterInv, TableInv, LoopInv, FirstInv, Registering
<1> QED BY <1>1, <1>2, <1>3

\* A method that was registered before the call is among the entries passed.
LEMMA UnavailableStep ==
  ASSUME ServicesTypeOK, RpcInv, Unavailable
  PROVE  QueueTypeOK' /\ RpcTypeOK' /\ RpcInv'
<1>1. missed' \in BOOLEAN BY DEF Unavailable
<1>2. ASSUME ~overlapped PROVE missed' = missed
  <2>1. TableInv /\ LoopInv BY <1>2 DEF RpcInv
  <2>2. handler = "rpc" /\ index >= num /\ index \in Nat /\ num \in Nat
    BY DEF Unavailable, Ack, Leave, ServicesTypeOK, RpcTypeOK
  <2>3. index = num BY <2>1, <2>2 DEF LoopInv
  <2>4. call \notin known BY <2>1, <2>2, <2>3 DEF TableInv, LoopInv
  <2> QED BY <2>4 DEF Unavailable, ServicesTypeOK, RpcTypeOK
<1> QED BY <1>1, <1>2, AckStep DEF Unavailable

-----------------------------------------------------------------------------
(* The steps of both. *)

LEMMA SettingsNextStep ==
  ASSUME ServicesInv, SettingsNext, UNCHANGED rpcVars
  PROVE  ServicesInv'
<1> USE DEF ServicesInv
<1>1. ServicesTypeOK /\ SettingsInv /\ RpcInv /\ RpcTypeOK BY DEF ServicesTypeOK
<1>2. QueueTypeOK' /\ SettingsTypeOK' /\ SettingsInv'
  <2>1. CASE RegisterSettings BY <1>1, <2>1, RegisterSettingsStep
  <2>2. CASE \E d \in Document : OnSettings(d) BY <1>1, <2>2, OnSettingsStep
  <2>3. CASE OnSetting BY <1>1, <2>3, OnSettingStep
  <2>4. CASE SaveVersion BY <1>1, <2>4, SaveVersionStep
  <2>5. CASE SendStatusReport BY <1>1, <2>5, SendStatusReportStep
  <2> QED BY <2>1, <2>2, <2>3, <2>4, <2>5 DEF SettingsNext
<1>3. handler' = "rpc" => handler = "rpc"
  BY DEF SettingsNext, RegisterSettings, OnSettings, Enter, OnSetting, SaveVersion,
         SendStatusReport, Leave, queueVars
<1>4. RpcInv' /\ RpcTypeOK' BY <1>1, <1>3, RpcFrame
<1> QED BY <1>2, <1>4 DEF ServicesTypeOK

LEMMA RpcNextStep ==
  ASSUME ServicesInv, RpcNext, UNCHANGED settingsVars
  PROVE  ServicesInv'
<1> USE DEF ServicesInv
<1>1. ServicesTypeOK /\ SettingsInv /\ RpcInv /\ SettingsTypeOK /\ QueueTypeOK
  BY DEF ServicesTypeOK
<1>2. QueueTypeOK' /\ RpcTypeOK' /\ RpcInv'
  <2>1. ASSUME NEW t \in Registrar,
               (\E m \in Method : Register(t, m)) \/ WriteEntry(t) \/ ReadCount(t)
                 \/ WriteCount(t)
        PROVE  QueueTypeOK' /\ RpcTypeOK' /\ RpcInv'
    <3>1. QueueTypeOK'
      BY <1>1, <2>1
      DEF QueueTypeOK, Register, WriteEntry, ReadCount, WriteCount, queueVars
    <3> QED
      BY <1>1, <2>1, <3>1, RegisterStep, WriteEntryStep, ReadCountStep, WriteCountStep
  <2>2. CASE \E t \in Registrar : CheckCount(t) BY <1>1, <2>2, CheckCountStep
  <2>3. CASE \E m \in Method : OnRpc(m) BY <1>1, <2>3, OnRpcStep
  <2>4. CASE Compare BY <1>1, <2>4, CompareStep
  <2>5. CASE Dispatch
    <3>1. Ack /\ missed' = missed BY <2>5 DEF Dispatch
    <3> QED BY <1>1, <3>1, AckStep DEF ServicesTypeOK, RpcTypeOK
  <2>6. CASE Unavailable BY <1>1, <2>6, UnavailableStep
  <2> QED BY <2>1, <2>2, <2>3, <2>4, <2>5, <2>6 DEF RpcNext
<1>3. handler' = "settings" => handler = "settings"
  BY DEF RpcNext, Register, WriteEntry, ReadCount, WriteCount, CheckCount, CheckCountIn,
         OnRpc, Enter, Compare, Dispatch, Unavailable, Ack, Leave, queueVars
<1>4. SettingsInv' /\ SettingsTypeOK' BY <1>1, <1>3, SettingsFrame
<1> QED BY <1>2, <1>4 DEF ServicesTypeOK

LEMMA NextInv == ServicesInv /\ [ServicesNext]_servicesVars => ServicesInv'
<1> SUFFICES ASSUME ServicesInv, [ServicesNext]_servicesVars PROVE ServicesInv'
  OBVIOUS
<1>1. /\ ServicesTypeOK /\ SettingsInv /\ RpcInv
      /\ QueueTypeOK /\ SettingsTypeOK /\ RpcTypeOK
  BY DEF ServicesInv, ServicesTypeOK
<1>2. ASSUME UNCHANGED <<settingsVars, rpcVars>>, UNCHANGED handler
      PROVE  SettingsTypeOK' /\ SettingsInv' /\ RpcTypeOK' /\ RpcInv'
  BY <1>1, <1>2, SettingsFrame, RpcFrame
<1>3. CASE SettingsNext /\ UNCHANGED rpcVars BY <1>3, SettingsNextStep
<1>4. CASE RpcNext /\ UNCHANGED settingsVars BY <1>4, RpcNextStep
<1>5. CASE OtherTraffic
  <2>1. UNCHANGED handler /\ UNCHANGED <<settingsVars, rpcVars>>
    BY <1>5 DEF OtherTraffic, OtherRequest, TakeRequest
  <2>2. QueueTypeOK'
    <3>1. CASE OtherRequest
      BY <1>1, <3>1, QueueStep DEF OtherRequest, QueueTypeOK
    <3>2. CASE TakeRequest
      BY <1>1, <3>2, QueueAssumption DEF TakeRequest, QueueTypeOK
    <3> QED BY <1>5, <3>1, <3>2 DEF OtherTraffic
  <2> QED BY <1>2, <2>1, <2>2 DEF ServicesInv, ServicesTypeOK
<1>6. CASE Reset
  <2>1. QueueTypeOK' BY <1>6, QueueAssumption DEF Reset, QueueTypeOK
  <2>2. SettingsTypeOK' /\ SettingsInv' BY <1>1, <1>6, ResetSettingsStep DEF Reset
  <2>3. RpcInit' BY <1>6 DEF Reset, ResetRpc, RpcInit, RpcBoot, Index
  <2>4. RpcTypeOK' /\ RpcInv' BY <1>6, <2>3, RpcRestart DEF Reset
  <2> QED BY <2>1, <2>2, <2>4 DEF ServicesInv, ServicesTypeOK
<1>7. CASE UNCHANGED servicesVars
  <2>1. UNCHANGED queueVars /\ UNCHANGED <<settingsVars, rpcVars>>
    BY <1>7 DEF servicesVars
  <2> QED BY <1>1, <1>2, <2>1 DEF ServicesInv, ServicesTypeOK, QueueTypeOK, queueVars
<1> QED BY <1>3, <1>4, <1>5, <1>6, <1>7 DEF ServicesNext

-----------------------------------------------------------------------------
(* Theorems. *)

\* The inductive invariant, from the code of both services.
THEOREM ServicesInvariant == ServicesSpec => []ServicesInv
BY InitInv, NextInv, PTL DEF ServicesSpec

\* Every variable of the two services keeps its type, and the queue its bounds.
THEOREM ServicesTypes == ServicesSpec => []ServicesTypeOK
<1>1. ServicesInv => ServicesTypeOK BY DEF ServicesInv
<1> QED BY <1>1, ServicesInvariant, PTL

\* A version that on_settings stored stands for the settings of its document that have
\* a type and that NVS did not refuse, wherever resets cut the runs.
THEOREM VersionIsStored == ServicesSpec => []VersionMeansStored
<1>1. ServicesInv => VersionMeansStored BY DEF ServicesInv, SettingsInv
<1> QED BY <1>1, ServicesInvariant, PTL

\* The status that send_status_report queues is a failure that a setting had, or every
\* setting was accepted by the application and then stored or refused by NVS, or passed
\* over for its type.
THEOREM ReportsAreTruthful == ServicesSpec => []ReportTruthful
<1>1. ServicesInv => ReportTruthful
  <2> SUFFICES ASSUME ServicesInv, Reporting PROVE ReportTruthful
    BY DEF ReportTruthful
  <2>1. ServicesTypeOK /\ SettingsInv /\ handler = "settings"
    BY DEF ServicesInv, Reporting
  <2>2. Len(outcomes) = Len(doc.settings)
    BY <2>1, InRun DEF Reporting
  <2>3. status = "SUCCESS" => \A i \in 1..Len(outcomes) : Applied(i)
    BY <2>1 DEF SettingsInv, StatusInv, StoredInv
  <2>4. status # "SUCCESS" => \E i \in 1..Len(outcomes) : outcomes[i] = status
    BY <2>1 DEF SettingsInv, StatusInv
  <2> QED BY <2>2, <2>3, <2>4 DEF ReportTruthful, StatusReport
<1> QED BY <1>1, ServicesInvariant, PTL

\* on_rpc compares only with entries that golioth_rpc_register has written.
THEOREM DispatchIsSafe == ServicesSpec => []DispatchSafe
<1>1. ServicesInv => DispatchSafe BY DEF ServicesInv, RpcInv, DispatchSafe
<1> QED BY <1>1, ServicesInvariant, PTL

\* on_rpc finds every method whose registration returned before the call.
THEOREM RegisteredAreServed == ServicesSpec => []RegisteredIsServed
<1>1. ServicesInv => RegisteredIsServed BY DEF ServicesInv, RpcInv, RegisteredIsServed
<1> QED BY <1>1, ServicesInvariant, PTL

\* Only a refused request leaves registered methods without an observation.
THEOREM MethodsAreObserved == ServicesSpec => []MethodsObserved
<1>1. ServicesInv => MethodsObserved
  BY DEF ServicesInv, RpcInv, FirstInv, MethodsObserved
<1> QED BY <1>1, ServicesInvariant, PTL
=============================================================================
