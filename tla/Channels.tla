------------------------------ MODULE Channels ------------------------------
(***************************************************************************)
(* What golioth_coap_client.c promises to those who observe a path or      *)
(* download an image, without sessions, tokens, slots or datagrams: an     *)
(* observer that is kept hears values that its own path has or had, and    *)
(* nothing else; a download is given the block it asked for, once, and     *)
(* only then goes on to the next one.  Only a network that delivers an     *)
(* answer twice can give it another block.                                 *)
(***************************************************************************)
EXTENDS Integers

CONSTANTS
  Observer,   \* those who observe
  NumBlocks,  \* blocks of an image
  MaxVal,     \* values of a path: 0..MaxVal
  Faulty      \* whether the network may deliver an answer twice

VARIABLES
  asked,   \* observers that asked
  kept,    \* those whose observation is kept from session to session
  value,   \* the value of each observer's path
  heard,   \* what its callback was given
  block,   \* the block the download is at
  phase,   \* "idle", "asked" or "given"
  wrong    \* it was given another block than it asked for

observerVars == <<asked, kept, value, heard>>
downloadVars == <<block, phase, wrong>>
channelVars == <<observerVars, downloadVars>>

Init ==
  /\ asked = {}
  /\ kept = {}
  /\ value = [o \in Observer |-> 0]
  /\ heard = [o \in Observer |-> {}]
  /\ block = 0
  /\ phase = "idle"
  /\ wrong = FALSE

Ask(o) ==
  /\ o \notin asked
  /\ asked' = asked \cup {o}
  /\ UNCHANGED <<kept, value, heard, downloadVars>>

Keep(o) ==
  /\ o \in asked
  /\ kept' = kept \cup {o}
  /\ UNCHANGED <<asked, value, heard, downloadVars>>

Change(o) ==
  /\ value[o] < MaxVal
  /\ value' = [value EXCEPT ![o] = @ + 1]
  /\ UNCHANGED <<asked, kept, heard, downloadVars>>

\* Values may be missed, repeated and late.
Hear(o) ==
  /\ o \in kept
  /\ \E v \in 0..value[o] : heard' = [heard EXCEPT ![o] = @ \cup {v}]
  /\ UNCHANGED <<asked, kept, value, downloadVars>>

AskBlock ==
  /\ phase = "idle"
  /\ phase' = "asked"
  /\ UNCHANGED <<observerVars, block, wrong>>

GiveBlock ==
  /\ phase = "asked"
  /\ phase' = "given"
  /\ wrong' \in IF Faulty THEN {wrong, TRUE} ELSE {wrong}
  /\ UNCHANGED <<observerVars, block>>

Proceed ==
  /\ phase = "given"
  /\ phase' = "idle"
  /\ block' = (block + 1) % NumBlocks
  /\ UNCHANGED <<observerVars, wrong>>

\* Without an answer the download asks again, or begins again.
Retry ==
  /\ phase = "asked"
  /\ phase' = "idle"
  /\ block' \in {0, block}
  /\ UNCHANGED <<observerVars, wrong>>

Next ==
  \/ \E o \in Observer : Ask(o) \/ Keep(o) \/ Change(o) \/ Hear(o)
  \/ AskBlock \/ GiveBlock \/ Proceed \/ Retry

Spec == Init /\ [][Next]_channelVars

\* An observer never hears what its path has not had yet, hears nothing unless its
\* observation is kept, and is kept only if it asked; without a fault of the network
\* no wrong block is given.
Honest ==
  /\ \A o \in Observer :
       /\ heard[o] \subseteq 0..value[o]
       /\ heard[o] # {} => o \in kept
  /\ kept \subseteq asked
  /\ ~Faulty => ~wrong
=============================================================================
