---------------------------- MODULE CoapSession ----------------------------
(***************************************************************************)
(* Tokens across sessions, in golioth_coap_client.c: how the coap task     *)
(* decides for whom a datagram is.  Observations are remembered in a table *)
(* and sent again in every session; the blocks of a download share one     *)
(* token, which is kept in the client.                                     *)
(*                                                                         *)
(* Each member of Observer stands for one call of                          *)
(* golioth_coap_client_observe_async, with a path and a callback of its    *)
(* own; Block stands for a task that downloads an image block by block     *)
(* (golioth_ota_get_block_sync).  The request path is reduced to a queue   *)
(* with room for all of them and to one pending request, which is answered *)
(* or ends the session.                                                    *)
(*                                                                         *)
(* A token of coap_session_new_token is one that nothing uses: it counts   *)
(* up from a random number that is drawn in every session.                 *)
(***************************************************************************)
EXTENDS Integers, Sequences, FiniteSets

CONSTANTS
  Observer,     \* calls of observe_async
  Block,        \* the downloading task
  None,
  MaxObs,       \* CONFIG_GOLIOTH_MAX_NUM_OBSERVATIONS
  NumBlocks,    \* blocks of an image
  MaxVal,       \* values of a path that is observed: 0..MaxVal
  Token,        \* tokens, positive numbers
  Duplicates    \* whether the network may deliver an answer twice

NoToken == 0    \* token_len = 0: no PDU was made

ASSUME PartyAssumption == Block \notin Observer /\ None \notin Observer \cup {Block}
ASSUME CountAssumption == MaxObs \in Nat /\ NumBlocks \in Nat \ {0} /\ MaxVal \in Nat
ASSUME TokenAssumption == Token \subseteq Nat \ {0}
ASSUME NetworkAssumption == Duplicates \in BOOLEAN

Slot == 1..MaxObs
Party == Observer \cup {Block}

VARIABLES
  \* the callers
  asked,       \* observers that have called observe_async
  block,       \* the block the download is at
  waiting,     \* it waits in golioth_coap_client_get_block
  mid,         \* tells its last two requests apart, as a message ID does
  \* the client
  up,          \* there is a session
  queue,       \* request_queue
  pending,     \* pending_req: whose it is, or None
  token,       \* its token
  got,         \* got_response
  slotOf,      \* client->observations: whose each slot is, or None
  slotToken,   \* and the token it was last sent with
  blockToken,  \* client->block_token
  \* the server and the network
  value,       \* the current value of each observer's path
  watch,       \* <<token, observer>>: whom the server notifies
  net,         \* datagrams on their way to the client
  \* history
  heard,       \* values an observer's callback was given
  misled,      \* observers whose callback was given something else
  badBlock     \* the download was given another block than it asked for

callerVars == <<asked, block, waiting, mid>>
tableVars  == <<slotOf, slotToken>>
serverVars == <<value, watch, net>>
historyVars == <<heard, misled, badBlock>>
vars == <<callerVars, up, queue, pending, token, got, tableVars, blockToken,
          serverVars, historyVars>>

Val == 0..MaxVal
Datagram ==
  [tok : Token, about : Observer, val : Val]
    \cup [tok : Token, about : {Block}, val : 0..NumBlocks - 1, mid : 0..1]

SessionTypeOK ==
  /\ asked \subseteq Observer
  /\ block \in 0..NumBlocks - 1
  /\ waiting \in BOOLEAN
  /\ mid \in 0..1
  /\ up \in BOOLEAN
  /\ queue \in Seq(Party)
  /\ pending \in Party \cup {None}
  /\ token \in Token \cup {NoToken}
  /\ got \in BOOLEAN
  /\ slotOf \in [Slot -> Observer \cup {None}]
  /\ slotToken \in [Slot -> Token \cup {NoToken}]
  /\ blockToken \in Token \cup {NoToken}
  /\ value \in [Observer -> Val]
  /\ watch \subseteq Token \X Observer
  /\ net \subseteq Datagram
  /\ heard \in [Observer -> SUBSET Val]
  /\ misled \subseteq Observer
  /\ badBlock \in BOOLEAN

Init ==
  /\ asked = {}
  /\ block = 0
  /\ waiting = FALSE
  /\ mid = 0
  /\ up = FALSE
  /\ queue = <<>>
  /\ pending = None
  /\ token = NoToken
  /\ got = FALSE
  /\ slotOf = [i \in Slot |-> None]
  /\ slotToken = [i \in Slot |-> NoToken]
  /\ blockToken = NoToken
  /\ value = [o \in Observer |-> 0]
  /\ watch = {}
  /\ net = {}
  /\ heard = [o \in Observer |-> {}]
  /\ misled = {}
  /\ badBlock = FALSE

-----------------------------------------------------------------------------
(* The callers. *)

Observe(o) ==
  /\ o \notin asked
  /\ asked' = asked \cup {o}
  /\ queue' = Append(queue, o)
  /\ UNCHANGED <<block, waiting, mid, up, pending, token, got, tableVars, blockToken,
                 serverVars, historyVars>>

AskBlock ==
  /\ ~waiting
  /\ waiting' = TRUE
  /\ mid' = 1 - mid
  /\ queue' = Append(queue, Block)
  /\ UNCHANGED <<asked, block, up, pending, token, got, tableVars, blockToken,
                 serverVars, historyVars>>

-----------------------------------------------------------------------------
(* The coap task sends requests. *)

Used ==
  {token, blockToken} \cup {slotToken[i] : i \in Slot}
    \cup {w[1] : w \in watch} \cup {m.tok : m \in net}
Fresh == Token \ Used
UsedSlots == {i \in Slot : slotOf[i] # None}
FreeSlots == Slot \ UsedSlots
First(S) == CHOOSE i \in S : \A j \in S : i <= j

\* Mutant: the last slot is never used.
AddObservationShort(o, t) ==
  LET free == FreeSlots \ {MaxObs} IN
  IF free = {} THEN UNCHANGED tableVars
  ELSE /\ slotOf' = [slotOf EXCEPT ![First(free)] = o]
       /\ slotToken' = [slotToken EXCEPT ![First(free)] = t]

\* add_observation: into the first free slot; when there is none, nothing is
\* remembered.
AddObservation(o, t) ==
  IF FreeSlots = {} THEN UNCHANGED tableVars
  ELSE /\ slotOf' = [slotOf EXCEPT ![First(FreeSlots)] = o]
       /\ slotToken' = [slotToken EXCEPT ![First(FreeSlots)] = t]

\* A PDU is made or not, and the datagram reaches the server or not.
Outcome == {[made |-> FALSE, arrives |-> FALSE],
            [made |-> TRUE, arrives |-> FALSE], [made |-> TRUE, arrives |-> TRUE]}

TakeRequest(r, t) ==
  /\ up
  /\ pending = None
  /\ queue # <<>>
  /\ r = Head(queue)
  /\ queue' = Tail(queue)
  /\ pending' = r
  /\ token' = t
  /\ got' = FALSE
  /\ UNCHANGED <<callerVars, up, value, historyVars>>

\* GOLIOTH_COAP_REQUEST_OBSERVE: sent, and remembered in any case.  The server's
\* answer is the current value.
SendObserve(o, out) ==
  LET t == IF out.made THEN First(Fresh) ELSE NoToken IN
  /\ Fresh # {}
  /\ TakeRequest(o, t)
  /\ AddObservation(o, t)
  /\ IF out.arrives
       THEN /\ watch' = watch \cup {<<t, o>>}
            /\ net' = net \cup {[tok |-> t, about |-> o, val |-> value[o]]}
       ELSE UNCHANGED <<watch, net>>
  /\ UNCHANGED blockToken

\* GOLIOTH_COAP_REQUEST_GET_BLOCK: the first block has a token of its own, which
\* is kept for the others.
BlockTokenFor(out) ==
  IF ~out.made THEN NoToken ELSE IF block = 0 THEN First(Fresh) ELSE blockToken

SendBlock(out) ==
  LET t == BlockTokenFor(out) IN
  /\ Fresh # {}
  /\ TakeRequest(Block, t)
  /\ blockToken' = IF out.made /\ block = 0 THEN t ELSE blockToken
  /\ net' = IF out.arrives /\ t # NoToken
              THEN net \cup {[tok |-> t, about |-> Block, val |-> block, mid |-> mid]}
              ELSE net
  /\ UNCHANGED <<tableVars, watch>>

-----------------------------------------------------------------------------
(* The coap task receives. *)

\* notify_observers: the slots whose token is that of the datagram.
Addressees(m) == {i \in UsedSlots : slotToken[i] = m.tok}
Told(m) == {slotOf[i] : i \in Addressees(m)}

\* coap_response_handler for a datagram, in the wait for the pending request's
\* response or when there is nothing to send.
Receive(m) ==
  /\ up
  /\ m \in net
  /\ IF pending = None THEN queue = <<>> ELSE ~got
  /\ net' \in {net \ {m}} \cup (IF Duplicates THEN {net} ELSE {})
  /\ LET matches == pending # None /\ token = m.tok IN
       /\ got' = (got \/ matches)
       /\ badBlock' = (badBlock \/ (matches /\ pending = Block
                                     /\ ~(m.about = Block /\ m.val = block)))
  /\ heard' = [o \in Observer |->
                 IF o \in Told(m) /\ m.about = o THEN heard[o] \cup {m.val} ELSE heard[o]]
  /\ misled' = misled \cup {o \in Told(m) : m.about # o}
  /\ UNCHANGED <<callerVars, up, queue, pending, token, tableVars, blockToken,
                 value, watch>>

\* Mutant: the last block is not noticed.
CompleteCallerPastEnd ==
  IF pending = Block
    THEN /\ waiting' = FALSE
         /\ block' \in IF got THEN {block + 1} ELSE {0, block}
    ELSE UNCHANGED <<block, waiting>>

\* A synchronous caller of a block returns: it goes on with the next one, or,
\* after a timeout, asks again or begins again.
CompleteCaller ==
  IF pending = Block
    THEN /\ waiting' = FALSE
         /\ block' \in IF got THEN {(block + 1) % NumBlocks} ELSE {0, block}
    ELSE UNCHANGED <<block, waiting>>

\* The response has come.
Complete ==
  /\ pending # None
  /\ got
  /\ CompleteCaller
  /\ pending' = None
  /\ token' = NoToken
  /\ got' = FALSE
  /\ UNCHANGED <<asked, mid, up, queue, tableVars, blockToken, serverVars,
                 historyVars>>

CloseSession ==
  /\ up' = FALSE
  /\ watch' = {}
  /\ net' = {}

\* Mutant: the session is kept after a timeout.
GiveUpKeepSession ==
  /\ pending # None
  /\ CompleteCaller
  /\ pending' = None
  /\ token' = NoToken
  /\ got' = FALSE
  /\ UNCHANGED <<asked, mid, up, queue, tableVars, blockToken, serverVars,
                 historyVars>>

\* The time is up, perhaps with the response, or there is an I/O error: the
\* session ends.
GiveUp ==
  /\ pending # None
  /\ CompleteCaller
  /\ pending' = None
  /\ token' = NoToken
  /\ got' = FALSE
  /\ CloseSession
  /\ UNCHANGED <<asked, mid, queue, tableVars, blockToken, value, historyVars>>

\* golioth_client_stop ends it between two requests.
EndSession ==
  /\ up
  /\ pending = None
  /\ CloseSession
  /\ UNCHANGED <<callerVars, queue, pending, token, got, tableVars, blockToken,
                 value, historyVars>>

\* The tokens of a new session for the slots in S, all different.
Renewal(S) == {f \in [S -> Fresh] : \A i, j \in S : f[i] = f[j] => i = j}

\* Mutant: the slots keep the tokens of the last session.
ReestablishOldToken(made, arrive) ==
  /\ Renewal(made) # {}
  /\ LET f == CHOOSE g \in Renewal(made) : TRUE IN
       /\ slotToken' = slotToken
       /\ watch' = {<<f[i], slotOf[i]>> : i \in arrive}
       /\ net' = {[tok |-> f[i], about |-> slotOf[i], val |-> value[slotOf[i]]]
                    : i \in arrive}

\* Mutant: the tokens of every session begin with the same number.
ReestablishUnseeded(made, arrive) ==
  /\ MaxObs < Cardinality(Token)
  /\ LET f == [i \in made |-> Cardinality({j \in made : j <= i})] IN
       /\ slotToken' = [i \in Slot |-> IF i \in made THEN f[i] ELSE slotToken[i]]
       /\ watch' = {<<f[i], slotOf[i]>> : i \in arrive}
       /\ net' = {[tok |-> f[i], about |-> slotOf[i], val |-> value[slotOf[i]]]
                    : i \in arrive}

\* reestablish_observations: a PDU is made for the slots in made, the others keep
\* the token of an earlier session; the requests of those in arrive reach the
\* server, which answers with the current values.
Reestablish(made, arrive) ==
  /\ Renewal(made) # {}
  /\ LET f == CHOOSE g \in Renewal(made) : TRUE IN
       /\ slotToken' = [i \in Slot |-> IF i \in made THEN f[i] ELSE slotToken[i]]
       /\ watch' = {<<f[i], slotOf[i]>> : i \in arrive}
       /\ net' = {[tok |-> f[i], about |-> slotOf[i], val |-> value[slotOf[i]]]
                    : i \in arrive}

StartSession ==
  /\ ~up
  /\ up' = TRUE
  /\ \E made \in SUBSET UsedSlots : \E arrive \in SUBSET made :
       Reestablish(made, arrive)
  /\ UNCHANGED <<callerVars, queue, pending, token, got, slotOf, blockToken, value,
                 historyVars>>

-----------------------------------------------------------------------------
(* The server and the network. *)

\* The value of a path changes; whoever watches it is notified.
Update(o) ==
  /\ value[o] < MaxVal
  /\ value' = [value EXCEPT ![o] = @ + 1]
  /\ net' = net \cup {[tok |-> w[1], about |-> o, val |-> value[o] + 1]
                        : w \in {x \in watch : x[2] = o}}
  /\ UNCHANGED <<callerVars, up, queue, pending, token, got, tableVars, blockToken,
                 watch, historyVars>>

\* A datagram is lost, unless it is a notification of the latest value, which the
\* server repeats until it is acknowledged or the session ends.
Lose(m) ==
  /\ m \in net
  /\ m.about \in Observer => m.val # value[m.about]
  /\ net' = net \ {m}
  /\ UNCHANGED <<callerVars, up, queue, pending, token, got, tableVars, blockToken,
                 value, watch, historyVars>>

Send == \E out \in Outcome : SendBlock(out) \/ \E o \in Observer : SendObserve(o, out)

Next ==
  \/ \E o \in Observer : Observe(o) \/ Update(o)
  \/ AskBlock
  \/ Send
  \/ \E m \in net : Receive(m) \/ Lose(m)
  \/ Complete \/ GiveUp \/ EndSession \/ StartSession

Spec == Init /\ [][Next]_vars

\* The latest value on its way to o is received.
HearLatest(o) == \E m \in net : m.about = o /\ m.val = value[o] /\ Receive(m)

\* The coap task and the network are fair; the server repeats what it has to say.
FairSpec ==
  /\ Spec
  /\ SF_vars(Send) /\ WF_vars(Complete) /\ WF_vars(GiveUp) /\ WF_vars(StartSession)
  /\ \A o \in Observer : SF_vars(HearLatest(o))

-----------------------------------------------------------------------------
(* The observers and the download as Channels sees them. *)

Remembered(o) == \E i \in Slot : slotOf[i] = o
Kept == {o \in Observer : Remembered(o)}

\* What an observer heard, with one value that its path never has if it heard of
\* something else.
HeardBy(o) == heard[o] \cup (IF o \in misled THEN {MaxVal + 1} ELSE {})

\* How far the download is with its block.
Phase ==
  IF ~waiting THEN "idle" ELSE IF pending = Block /\ got THEN "given" ELSE "asked"

Channel == INSTANCE Channels WITH
  kept   <- Kept,
  heard  <- [o \in Observer |-> HeardBy(o)],
  phase  <- Phase,
  wrong  <- badBlock,
  Faulty <- Duplicates

-----------------------------------------------------------------------------
(* Properties. *)

\* In whatever order sessions, failures to make a PDU and late datagrams come, an
\* observer hears only what its own path has or had, and a download is given what it
\* asks for, block after block.
ImplementsChannels == Channel!Spec

\* The download gets the block it asked for: a late answer cannot pass for the
\* next block, although all blocks have one token, because a request without an
\* answer ends the session.
BlockMatches == ~Duplicates => ~badBlock

\* An observation is forgotten only if the table was full when it was sent, and
\* then it still is.
ForgottenOnlyWhenFull ==
  \A o \in asked :
    \/ Remembered(o)
    \/ \E i \in 1..Len(queue) : queue[i] = o
    \/ FreeSlots = {}

Watched(o) == \E w \in watch : w[2] = o

\* If a remembered observation reaches the server in every session, from some time
\* on, its callback is again and again up to date, however often the session ends.
ObserverCatchesUp ==
  \A o \in Observer :
    <>[](Remembered(o) /\ (up => Watched(o))) => []<>(value[o] \in heard[o])

-----------------------------------------------------------------------------
(* The inductive invariant behind the safety properties. *)

\* A callback was given only what concerns its own observation.
HeardOwn == misled = {}

\* A token in use tells whose it is: the server notifies, and the network carries,
\* under the token of a slot only what concerns that slot's observation.
TokenInv ==
  /\ \A w \in watch, i \in UsedSlots : slotToken[i] = w[1] => slotOf[i] = w[2]
  /\ \A m \in net, i \in UsedSlots : slotToken[i] = m.tok => slotOf[i] = m.about
  /\ blockToken # NoToken => \A i \in Slot : slotToken[i] # blockToken
  /\ \A w \in watch : w[1] # blockToken

\* The download has one request at a time.
WaitInv ==
  /\ \A i, j \in 1..Len(queue) : queue[i] = Block /\ queue[j] = Block => i = j
  /\ \A i \in 1..Len(queue) : queue[i] = Block => waiting /\ pending # Block
  /\ pending = Block => waiting

\* On the way under the block token is nothing but the answer to the pending request.
AnswerInv ==
  /\ pending = Block => token \in {NoToken, blockToken}
  /\ ~Duplicates =>
       /\ ~badBlock
       /\ \A m \in net : m.tok = blockToken =>
            /\ pending = Block /\ ~got /\ token = blockToken
            /\ m = [tok |-> blockToken, about |-> Block, val |-> block, mid |-> mid]

\* Nothing comes from a later time or from an observer that did not ask.
SourceInv ==
  /\ \A m \in net : m.about \in Observer => m.val <= value[m.about]
  /\ \A i \in 1..Len(queue) : queue[i] \in Observer => queue[i] \in asked

SessionInv == HeardOwn /\ TokenInv /\ WaitInv /\ AnswerInv /\ ForgottenOnlyWhenFull
=============================================================================
