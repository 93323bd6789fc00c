------------------------------ MODULE Settings ------------------------------
(***************************************************************************)
(* golioth_settings.c: the registration of the application's callback, and *)
(* on_settings, which the coap task runs when the cloud sends a document   *)
(* of settings.  It hands each setting to the callback, stores what the    *)
(* callback accepts, stores the version of the document if nothing failed, *)
(* and reports one status for all of them.  The device may reset at any    *)
(* time; the non-volatile storage (NVS) survives.                          *)
(*                                                                         *)
(* A payload that is no document (no JSON, no version, no settings) is     *)
(* ignored: it is no step.  Runs of on_settings are numbered, and what NVS *)
(* holds is named by the run that stored it.                               *)
(***************************************************************************)
EXTENDS CallbackQueue

CONSTANTS
  Key,         \* names of settings
  LongKey,     \* those of more than 15 characters
  Document,    \* [version |-> Nat, settings |-> Seq([key, kind])]
  Verdict,     \* statuses the application's callback returns
  Int32Max,    \* the largest value of cJSON's valueint
  MaxRuns,     \* bound on the runs of on_settings
  MaxResets,   \* bound on the resets
  NoDoc

Kind == {"string", "bool", "whole", "fraction", "negative fraction", "other"}
Value == {"STRING", "BOOL", "FLOAT", "INT", "UNKNOWN"}

ASSUME SettingsAssumption ==
  /\ LongKey \subseteq Key
  /\ \A d \in Document :
       /\ d.version \in Nat
       /\ d.settings \in Seq([key : Key, kind : Kind])
  /\ "SUCCESS" \in Verdict /\ "skipped" \notin Verdict
  /\ "version" \notin Key
  /\ NoDoc \notin Document
  /\ Int32Max \in Nat /\ MaxRuns \in Nat /\ MaxResets \in Nat

Status == Verdict \cup {"KEY_NOT_VALID"}
Outcome == Status \cup {"skipped"}
NvsKey == Key \cup {"version"}
Run == 1..MaxRuns

VARIABLES
  \* RAM
  initialized,   \* _golioth_settings.initialized, and its callback is set
  observed,      \* the observation of the settings path was queued
  doc, next,     \* the document in on_settings, the place in it
  status,        \* cumulative_status
  \* NVS
  nvs,           \* the run that stored each key; 0: none
  \* history
  resets,
  runDoc,        \* the document of each run
  outcomes,      \* what became of each setting of this run
  failed,        \* <<run, key>>: NVS refused
  refused        \* the request to observe the path was refused

handlerVars == <<doc, next, status, outcomes>>
settingsVars == <<initialized, observed, handlerVars, nvs, resets, runDoc, failed,
                  refused>>

run == Len(runDoc)

SettingsTypeOK ==
  /\ initialized \in BOOLEAN
  /\ observed \in BOOLEAN
  /\ doc \in Document \cup {NoDoc}
  /\ next \in Nat
  /\ status \in Status
  /\ nvs \in [NvsKey -> 0..MaxRuns]
  /\ resets \in 0..MaxResets
  /\ runDoc \in Seq(Document) /\ run <= MaxRuns
  /\ outcomes \in Seq(Outcome)
  /\ failed \subseteq Run \X NvsKey
  /\ refused \in BOOLEAN

SettingsInit ==
  /\ initialized = FALSE
  /\ observed = FALSE
  /\ doc = NoDoc
  /\ next = 0
  /\ status = "SUCCESS"
  /\ nvs = [k \in NvsKey |-> 0]
  /\ resets = 0
  /\ runDoc = <<>>
  /\ outcomes = <<>>
  /\ failed = {}
  /\ refused = FALSE

-----------------------------------------------------------------------------
\* golioth_settings_register_callback: marked as done before the path is observed.
\* A second call, also after a refused observation, is not allowed.
RegisterSettings ==
  /\ ~initialized
  /\ initialized' = TRUE
  /\ \E ok \in Tries :
       /\ Put(ok)
       /\ observed' = ok
       /\ refused' = ~ok
  /\ UNCHANGED <<handler, handlerVars, nvs, resets, runDoc, failed>>

\* on_settings begins.
OnSettings(d) ==
  /\ observed
  /\ run < MaxRuns
  /\ Enter("settings")
  /\ doc' = d
  /\ next' = 1
  /\ status' = "SUCCESS"
  /\ outcomes' = <<>>
  /\ runDoc' = Append(runDoc, d)
  /\ UNCHANGED <<free, initialized, observed, nvs, resets, failed, refused>>

\* The type that on_settings finds: a number is a FLOAT if its fractional part is
\* greater than epsilon, which that of a negative number never is.
TypeOf(kind) ==
  CASE kind = "string"   -> "STRING"
    [] kind = "bool"     -> "BOOL"
    [] kind = "fraction" -> "FLOAT"
    [] kind \in {"whole", "negative fraction"} -> "INT"
    [] OTHER -> "UNKNOWN"

\* save_to_nvs: whatever fails in it is only logged.
SaveToNvs(key) ==
  \/ nvs' = [nvs EXCEPT ![key] = run] /\ failed' = failed
  \/ nvs' = nvs /\ failed' = failed \cup {<<run, key>>}

NotSaved == UNCHANGED <<nvs, failed>>

\* Mutant: the status is that of the last setting.
NoteLast(outcome) ==
  /\ outcomes' = Append(outcomes, outcome)
  /\ status' = IF outcome = "skipped" THEN status ELSE outcome

\* cumulative_status is the last failure.
Note(outcome) ==
  /\ outcomes' = Append(outcomes, outcome)
  /\ status' = IF outcome \in {"SUCCESS", "skipped"} THEN status ELSE outcome

HandleSetting(s) ==
  IF s.key \in LongKey THEN Note("KEY_NOT_VALID") /\ NotSaved
  ELSE IF TypeOf(s.kind) = "UNKNOWN" THEN Note("skipped") /\ NotSaved
  ELSE \E verdict \in Verdict :
         /\ Note(verdict)
         /\ IF verdict = "SUCCESS" THEN SaveToNvs(s.key) ELSE NotSaved

\* One turn of the loop over the settings.
OnSetting ==
  /\ handler = "settings"
  /\ next \in 1..Len(doc.settings)
  /\ HandleSetting(doc.settings[next])
  /\ next' = next + 1
  /\ UNCHANGED <<queueVars, initialized, observed, doc, resets, runDoc, refused>>

\* Mutant: the version is stored whatever became of the settings.
SaveVersionAlways ==
  /\ handler = "settings"
  /\ next = Len(doc.settings) + 1
  /\ SaveToNvs("version")
  /\ next' = next + 1
  /\ UNCHANGED <<queueVars, initialized, observed, doc, status, outcomes, resets, runDoc,
                 refused>>

SaveVersion ==
  /\ handler = "settings"
  /\ next = Len(doc.settings) + 1
  /\ IF status = "SUCCESS" THEN SaveToNvs("version") ELSE NotSaved
  /\ next' = next + 1
  /\ UNCHANGED <<queueVars, initialized, observed, doc, status, outcomes, resets, runDoc,
                 refused>>

\* version->valueint, which cJSON saturates.
AsInt32(version) == IF version > Int32Max THEN Int32Max ELSE version

Reporting == handler = "settings" /\ next = Len(doc.settings) + 2
StatusReport == [version |-> AsInt32(doc.version), error_code |-> status]

\* send_status_report: StatusReport is queued, or lost when it is refused.
SendStatusReport ==
  /\ Reporting
  /\ Leave("settings")
  /\ \E ok \in Tries : Put(ok)
  /\ doc' = NoDoc
  /\ next' = 0
  /\ status' = "SUCCESS"
  /\ outcomes' = <<>>
  /\ UNCHANGED <<initialized, observed, nvs, resets, runDoc, failed, refused>>

\* What a reset leaves.
ResetSettings ==
  /\ resets < MaxResets
  /\ resets' = resets + 1
  /\ initialized' = FALSE
  /\ observed' = FALSE
  /\ doc' = NoDoc
  /\ next' = 0
  /\ status' = "SUCCESS"
  /\ outcomes' = <<>>
  /\ refused' = FALSE
  /\ UNCHANGED <<nvs, runDoc, failed>>

SettingsNext ==
  \/ RegisterSettings
  \/ \E d \in Document : OnSettings(d)
  \/ OnSetting \/ SaveVersion \/ SendStatusReport

-----------------------------------------------------------------------------
(* Properties. *)

Storable(s) == s.key \notin LongKey /\ TypeOf(s.kind) # "UNKNOWN"

\* If NVS holds the version of a document then it holds every setting of it, or a
\* later value of that setting, wherever resets cut the runs; excepted are settings of
\* unknown type, which have no value to store, and values that NVS refused.
VersionMeansStored ==
  LET n == nvs["version"] IN
  n > 0 =>
    \A i \in 1..Len(runDoc[n].settings) :
      LET s == runDoc[n].settings[i] IN
        /\ s.key \notin LongKey
        /\ Storable(s) => nvs[s.key] >= n \/ <<n, s.key>> \in failed

\* What the code calls a success of the i-th setting: the application accepted it and
\* NVS holds its value or refused it, or it is of unknown type and was passed over.
Applied(i) ==
  LET s == doc.settings[i] IN
  \/ outcomes[i] = "SUCCESS" /\ (nvs[s.key] = run \/ <<run, s.key>> \in failed)
  \/ outcomes[i] = "skipped" /\ TypeOf(s.kind) = "UNKNOWN"

\* The status that the cloud is told is about all settings of the document: a failure
\* is one that a setting really had, and after a success none failed. Of a success
\* that the header takes to mean "stored in NVS" (SuccessMeansStored below) what NVS
\* refused and settings of unknown type are the only exceptions.
ReportTruthful ==
  Reporting =>
    /\ Len(outcomes) = Len(doc.settings)
    /\ IF StatusReport.error_code = "SUCCESS"
         THEN \A i \in 1..Len(outcomes) : Applied(i)
         ELSE \E i \in 1..Len(outcomes) : outcomes[i] = StatusReport.error_code

-----------------------------------------------------------------------------
(* The inductive invariant behind them. *)

Done(outcome) == outcome \in {"SUCCESS", "skipped"}

\* The run that is under way is the last one.
RunInv ==
  /\ \A k \in NvsKey : nvs[k] <= run
  /\ handler = "settings" =>
       /\ run > 0 /\ doc \in Document /\ doc = runDoc[run]
       /\ next \in 1..Len(doc.settings) + 2
       /\ Len(outcomes) = IF next <= Len(doc.settings) THEN next - 1 ELSE Len(doc.settings)

\* The status is that of one of the settings that failed, if any did.
StatusInv ==
  handler = "settings" =>
    IF status = "SUCCESS" THEN \A i \in 1..Len(outcomes) : Done(outcomes[i])
                          ELSE \E i \in 1..Len(outcomes) : outcomes[i] = status

\* What became of the settings of this run is what storage says.
StoredInv ==
  handler = "settings" =>
    \A i \in 1..Len(outcomes) :
      Done(outcomes[i]) => doc.settings[i].key \notin LongKey /\ Applied(i)

SettingsInv == RunInv /\ StatusInv /\ StoredInv /\ VersionMeansStored

(* What the documentation says and the code does not do. *)

\* golioth_settings.h: GOLIOTH_SETTINGS_SUCCESS is "applied successfully to the device,
\* stored in NVS".
SuccessMeansStored ==
  Reporting /\ StatusReport.error_code = "SUCCESS" =>
    \A i \in 1..Len(doc.settings) : nvs[doc.settings[i].key] = run

\* golioth_settings.c: the report names the version of the document it is about.
ReportNamesVersion ==
  Reporting /\ StatusReport.error_code = "SUCCESS" => StatusReport.version = doc.version

\* Of these two sentences every report of a success keeps at least one: a report that
\* violates this shows that the code does what neither says.
ReportKept == SuccessMeansStored \/ ReportNamesVersion
=============================================================================
