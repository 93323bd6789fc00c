----------------------------- MODULE SafeUpdate -----------------------------
(***************************************************************************)
(* What golioth_fw_update.c promises of the two partitions, without tasks, *)
(* manifests, blocks or reports: a new image goes to the spare partition   *)
(* and never over the one that runs; it is started only after it was       *)
(* accepted, and on trial once; it is then confirmed, or the one before it *)
(* runs again; and what was rolled back is not fetched again over its own  *)
(* remains.  The device may reset at any time.                             *)
(***************************************************************************)
EXTENDS Naturals

CONSTANTS Version, NoVersion, FirstVersion

Slot == {0, 1}

VARIABLES
  active,   \* the slot that runs
  phase,    \* "steady", "accepted", "staged": the spare slot is next; "trial"
  holds,    \* the version each slot names
  whole,    \* the slots whose image was accepted
  wanted,   \* the version that is fetched, until the spare slot names it
  blamed    \* the spare slot is on record as rolled back

updateVars == <<active, phase, holds, whole, wanted, blamed>>

Spare == 1 - active

Init ==
  /\ active = 0
  /\ phase = "steady"
  /\ holds = [s \in Slot |-> IF s = 0 THEN FirstVersion ELSE NoVersion]
  /\ whole = {0}
  /\ wanted = {}
  /\ blamed = FALSE

\* The spare slot is erased, for v or in vain.
Begin(v) ==
  /\ phase = "steady"
  /\ blamed => holds[Spare] # v
  /\ holds' = [holds EXCEPT ![Spare] = NoVersion]
  /\ whole' = {active}
  /\ wanted' \in {{v}, {}}
  /\ UNCHANGED <<active, phase, blamed>>

Name ==
  /\ phase = "steady"
  /\ Spare \notin whole
  /\ \E v \in wanted : holds' = [holds EXCEPT ![Spare] = v]
  /\ wanted' = {}
  /\ UNCHANGED <<active, phase, whole, blamed>>

GiveUp == wanted' = {} /\ UNCHANGED <<active, phase, holds, whole, blamed>>

Accept ==
  /\ phase = "steady"
  /\ Spare \notin whole
  /\ wanted = {}
  /\ phase' = "accepted"
  /\ whole' = Slot
  /\ UNCHANGED <<active, holds, wanted, blamed>>

Forgo ==
  /\ phase = "accepted"
  /\ phase' = "steady"
  /\ UNCHANGED <<active, holds, whole, wanted, blamed>>

Stage ==
  /\ phase = "accepted"
  /\ phase' = "staged"
  /\ blamed' = FALSE
  /\ UNCHANGED <<active, holds, whole, wanted>>

Confirm ==
  /\ phase = "trial"
  /\ phase' = "steady"
  /\ UNCHANGED <<active, holds, whole, wanted, blamed>>

\* A reset: what is staged is tried, what was on trial has failed.
Reset ==
  /\ active' = IF phase \in {"staged", "trial"} THEN Spare ELSE active
  /\ phase' = IF phase = "staged" THEN "trial" ELSE "steady"
  /\ blamed' = (blamed \/ phase = "trial")
  /\ wanted' = {}
  /\ UNCHANGED <<holds, whole>>

Next ==
  \/ \E v \in Version : Begin(v)
  \/ Name \/ GiveUp \/ Accept \/ Forgo \/ Stage \/ Confirm \/ Reset

Spec == Init /\ [][Next]_updateVars

\* At every moment the slot that a reset starts holds an accepted image, and so does
\* the one to which a trial can be rolled back.
Recoverable ==
  /\ active \in whole
  /\ phase \in {"staged", "trial"} => whole = Slot
=============================================================================
