------------------------- MODULE CoapSessionProofs -------------------------
(***************************************************************************)
(* Proofs about tokens across sessions, for any number of observations,    *)
(* slots, blocks and tokens.  A token that is drawn is one that nothing    *)
(* uses, so that a slot, a watch of the server and a datagram that carry   *)
(* the same token concern the same observation (TokenInv); the block token *)
(* is drawn once for a whole download, so that its safety rests on the     *)
(* download's having one request at a time and on the end of the session   *)
(* after a request without an answer (WaitInv, AnswerInv).                 *)
(***************************************************************************)
EXTENDS CoapSession, SequenceTheorems, WellFoundedInduction, TLAPS

Inv == SessionTypeOK /\ SessionInv

-----------------------------------------------------------------------------
(* Choices. *)

LEMMA FirstIn ==
  ASSUME NEW S, S \subseteq Nat, S # {}
  PROVE  First(S) \in S
<1> DEFINE R == {p \in Nat \X Nat : p[1] < p[2]}
<1>1. IsWellFoundedOn(R, Nat)
  <2>1. R = OpToRel(<, Nat) BY Zenon DEF OpToRel
  <2> QED BY <2>1, NatLessThanWellFounded
<1>2. PICK i \in S : \A j \in S : ~(<<j, i>> \in R)
  <2> HIDE DEF R
  <2> QED BY <1>1, WFMin
<1>3. ASSUME NEW j \in S PROVE i <= j
  <2>1. <<j, i>> \in Nat \X Nat /\ <<j, i>>[1] = j /\ <<j, i>>[2] = i
    OBVIOUS
  <2>2. ~(<<j, i>>[1] < <<j, i>>[2]) BY <1>2, <2>1, Zenon
  <2> QED BY <2>1, <2>2
<1> QED BY <1>3 DEF First

LEMMA FreshToken ==
  ASSUME Fresh # {}
  PROVE  /\ First(Fresh) \in Token /\ First(Fresh) # NoToken
         /\ First(Fresh) \notin Used
<1>1. Fresh \subseteq Nat BY TokenAssumption DEF Fresh
<1>2. First(Fresh) \in Fresh BY <1>1, FirstIn
<1> QED BY <1>2, TokenAssumption DEF Fresh, NoToken

LEMMA FreeSlot ==
  ASSUME FreeSlots # {}
  PROVE  First(FreeSlots) \in Slot /\ slotOf[First(FreeSlots)] = None
<1>1. FreeSlots \subseteq Nat BY CountAssumption DEF FreeSlots, Slot
<1>2. First(FreeSlots) \in FreeSlots BY <1>1, FirstIn
<1> QED BY <1>2 DEF FreeSlots, UsedSlots

LEMMA QueueTail ==
  ASSUME queue \in Seq(Party), queue # <<>>, queue' = Tail(queue)
  PROVE  /\ queue' \in Seq(Party)
         /\ Len(queue) \in Nat /\ 1 \in 1..Len(queue)
         /\ Head(queue) = queue[1] /\ Head(queue) \in Party
         /\ \A i \in 1..Len(queue') : i + 1 \in 1..Len(queue) /\ queue'[i] = queue[i + 1]
         /\ \A i \in 1..Len(queue) : i # 1 => i - 1 \in 1..Len(queue')
<1>1. queue' \in Seq(Party) /\ Len(queue') = Len(queue) - 1 BY HeadTailProperties
<1>2. Len(queue) \in Nat /\ Len(queue) # 0 BY LenProperties, EmptySeq
<1>3. \A i \in 1..Len(queue') : queue'[i] = queue[i + 1]
  BY <1>1, <1>2, HeadTailProperties
<1>4. Head(queue) = queue[1] /\ Head(queue) \in Party BY HeadTailProperties
<1> QED BY <1>1, <1>2, <1>3, <1>4

LEMMA QueueAppend ==
  ASSUME queue \in Seq(Party), NEW r \in Party, queue' = Append(queue, r)
  PROVE  /\ queue' \in Seq(Party) /\ Len(queue) \in Nat
         /\ Len(queue') = Len(queue) + 1 /\ queue'[Len(queue) + 1] = r
         /\ \A i \in 1..Len(queue) : queue'[i] = queue[i]
BY AppendProperties, LenProperties

\* None is nobody, and the download is no observer.
LEMMA Parties ==
  /\ Block \notin Observer /\ None \notin Observer /\ None # Block
  /\ Party = Observer \cup {Block} /\ NoToken \notin Token
BY PartyAssumption, TokenAssumption DEF Party, NoToken

LEMMA InitInv == Init => Inv
<1> SUFFICES ASSUME Init PROVE Inv
  OBVIOUS
<1> USE DEF Init
<1>1. SessionTypeOK
  <2>1. slotOf \in [Slot -> Observer \cup {None}] /\ slotToken \in [Slot -> Token \cup {NoToken}]
    OBVIOUS
  <2>2. value \in [Observer -> Val] BY CountAssumption DEF Val
  <2>3. queue \in Seq(Party) BY EmptySeq
  <2>4. block \in 0..NumBlocks - 1 BY CountAssumption
  <2>5. heard \in [Observer -> SUBSET Val] OBVIOUS
  <2>6. mid \in 0..1 OBVIOUS
  <2> QED BY <2>1, <2>2, <2>3, <2>4, <2>5, <2>6, Zenon DEF SessionTypeOK
<1>2. HeardOwn /\ ForgottenOnlyWhenFull BY DEF HeardOwn, ForgottenOnlyWhenFull
<1>3. TokenInv BY DEF TokenInv
<1>4. WaitInv
  <2>1. Len(queue) = 0 BY EmptySeq
  <2> QED BY <2>1, Parties DEF WaitInv
<1>5. AnswerInv BY Parties DEF AnswerInv
<1> QED BY <1>1, <1>2, <1>3, <1>4, <1>5 DEF Inv, SessionInv

-----------------------------------------------------------------------------
(* The callers. *)

LEMMA ObserveStep ==
  ASSUME Inv, NEW o \in Observer, Observe(o)
  PROVE  Inv'
<1> USE DEF Observe, tableVars, serverVars, historyVars
<1>0. SessionTypeOK /\ SessionInv /\ o \in Party BY Parties DEF Inv
<1>1. /\ queue' \in Seq(Party) /\ Len(queue) \in Nat
      /\ Len(queue') = Len(queue) + 1 /\ queue'[Len(queue) + 1] = o
      /\ \A i \in 1..Len(queue) : queue'[i] = queue[i]
  BY <1>0, QueueAppend DEF SessionTypeOK
<1>2. SessionTypeOK' BY <1>0, <1>1 DEF SessionTypeOK
<1>3. HeardOwn' /\ TokenInv' /\ AnswerInv'
  BY <1>0 DEF SessionInv, HeardOwn, TokenInv, AnswerInv, UsedSlots
<1>4. WaitInv'
  <2>1. \A i \in 1..Len(queue') : queue'[i] = Block => i \in 1..Len(queue) /\ queue[i] = Block
    BY <1>1, Parties
  <2> QED BY <1>0, <1>1, <2>1 DEF SessionInv, WaitInv
<1>5. ForgottenOnlyWhenFull'
  <2> SUFFICES ASSUME NEW p \in asked'
               PROVE  \/ Remembered(p)
                      \/ \E i \in 1..Len(queue') : queue'[i] = p
                      \/ FreeSlots = {}
    BY DEF ForgottenOnlyWhenFull, Remembered, FreeSlots, UsedSlots
  <2>1. CASE p = o BY <1>1, <2>1
  <2>2. CASE p \in asked BY <1>0, <1>1, <2>2 DEF SessionInv, ForgottenOnlyWhenFull
  <2> QED BY <2>1, <2>2
<1> QED BY <1>2, <1>3, <1>4, <1>5 DEF Inv, SessionInv

LEMMA AskBlockStep ==
  ASSUME Inv, AskBlock
  PROVE  Inv'
<1> USE DEF AskBlock, tableVars, serverVars, historyVars
<1>0. SessionTypeOK /\ SessionInv /\ Block \in Party BY Parties DEF Inv
<1>1. /\ queue' \in Seq(Party) /\ Len(queue) \in Nat
      /\ Len(queue') = Len(queue) + 1 /\ queue'[Len(queue) + 1] = Block
      /\ \A i \in 1..Len(queue) : queue'[i] = queue[i]
  BY <1>0, QueueAppend DEF SessionTypeOK
<1>2. mid' \in 0..1 BY <1>0 DEF SessionTypeOK
<1>3. SessionTypeOK' BY <1>0, <1>1, <1>2 DEF SessionTypeOK
<1>4. pending # Block /\ \A i \in 1..Len(queue) : queue[i] # Block
  BY <1>0 DEF SessionInv, WaitInv
<1>5. HeardOwn' /\ TokenInv' BY <1>0 DEF SessionInv, HeardOwn, TokenInv, UsedSlots
<1>6. AnswerInv' BY <1>0, <1>4 DEF SessionInv, AnswerInv
<1>7. WaitInv'
  <2>1. \A i \in 1..Len(queue') : queue'[i] = Block => i = Len(queue) + 1
    BY <1>1, <1>4
  <2> QED BY <1>4, <2>1 DEF WaitInv
<1>8. ForgottenOnlyWhenFull'
  BY <1>0, <1>1
  DEF SessionInv, ForgottenOnlyWhenFull, Remembered, FreeSlots, UsedSlots
<1> QED BY <1>3, <1>5, <1>6, <1>7, <1>8 DEF Inv, SessionInv

-----------------------------------------------------------------------------
(* The coap task sends. *)

LEMMA TakeStep ==
  ASSUME Inv, NEW r \in Party, NEW t \in Token \cup {NoToken}, TakeRequest(r, t)
  PROVE  /\ queue' \in Seq(Party)
         /\ WaitInv'
         /\ \A p \in asked' :
              \/ p = r
              \/ Remembered(p)
              \/ \E i \in 1..Len(queue') : queue'[i] = p
              \/ FreeSlots = {}
         /\ r = Block => waiting
<1> USE DEF TakeRequest, callerVars, historyVars
<1>0. SessionTypeOK /\ SessionInv /\ queue \in Seq(Party) BY DEF Inv, SessionTypeOK
<1>1. /\ queue' \in Seq(Party)
      /\ Len(queue) \in Nat /\ 1 \in 1..Len(queue)
      /\ r = queue[1]
      /\ \A i \in 1..Len(queue') : i + 1 \in 1..Len(queue) /\ queue'[i] = queue[i + 1]
      /\ \A i \in 1..Len(queue) : i # 1 => i - 1 \in 1..Len(queue')
  BY <1>0, QueueTail
<1>2. WaitInv BY <1>0 DEF SessionInv
<1>3. r = Block => waiting BY <1>1, <1>2 DEF WaitInv
<1>4. \A i \in 1..Len(queue') : queue'[i] = Block => r # Block /\ waiting
  BY <1>1, <1>2 DEF WaitInv
<1>5. \A i, j \in 1..Len(queue') : queue'[i] = Block /\ queue'[j] = Block => i = j
  <2> SUFFICES ASSUME NEW i \in 1..Len(queue'), NEW j \in 1..Len(queue'),
                      queue'[i] = Block, queue'[j] = Block
               PROVE  i = j
    OBVIOUS
  <2>1. i + 1 = j + 1 BY <1>1, <1>2 DEF WaitInv
  <2> QED BY <2>1
<1>6. WaitInv' BY <1>3, <1>4, <1>5 DEF WaitInv
<1>7. ASSUME NEW p \in asked'
      PROVE  \/ p = r
             \/ Remembered(p)
             \/ \E i \in 1..Len(queue') : queue'[i] = p
             \/ FreeSlots = {}
  <2>1. CASE \E i \in 1..Len(queue) : queue[i] = p
    <3>1. PICK i \in 1..Len(queue) : queue[i] = p BY <2>1
    <3>2. CASE i = 1 BY <1>1, <3>1, <3>2
    <3>3. CASE i # 1
      <4>1. i - 1 \in 1..Len(queue') /\ (i - 1) + 1 = i BY <1>1, <3>3
      <4>2. queue'[i - 1] = p BY <1>1, <3>1, <4>1
      <4> QED BY <4>1, <4>2
    <3> QED BY <3>2, <3>3
  <2>2. CASE ~(\E i \in 1..Len(queue) : queue[i] = p)
    BY <1>0, <2>2 DEF SessionInv, ForgottenOnlyWhenFull
  <2> QED BY <2>1, <2>2
<1> QED BY <1>1, <1>3, <1>6, <1>7

\* What a fresh token is not.
LEMMA NotUsed ==
  ASSUME NEW t, t \notin Used
  PROVE  /\ t # token /\ t # blockToken
         /\ \A i \in Slot : slotToken[i] # t
         /\ \A w \in watch : w[1] # t
         /\ \A m \in net : m.tok # t
BY DEF Used

LEMMA SendObserveStep ==
  ASSUME Inv, NEW o \in Observer, NEW out \in Outcome, SendObserve(o, out)
  PROVE  Inv'
<1> DEFINE t == IF out.made THEN First(Fresh) ELSE NoToken
<1>0. SessionTypeOK /\ SessionInv /\ o \in Party /\ o # None /\ o # Block
  BY Parties DEF Inv
<1>1. /\ Fresh # {} /\ TakeRequest(o, t) /\ AddObservation(o, t)
      /\ IF out.arrives
           THEN /\ watch' = watch \cup {<<t, o>>}
                /\ net' = net \cup {[tok |-> t, about |-> o, val |-> value[o]]}
           ELSE UNCHANGED <<watch, net>>
      /\ UNCHANGED blockToken
  BY DEF SendObserve
<1>2. t \in Token \cup {NoToken} /\ (out.arrives => t \in Token) /\ (t # NoToken => t \notin Used)
  <2>1. out.arrives => out.made BY DEF Outcome
  <2> QED BY <1>1, <2>1, FreshToken
<1> HIDE DEF t
<1>3. /\ queue' \in Seq(Party) /\ WaitInv'
      /\ \A p \in asked' :
           p = o \/ Remembered(p) \/ (\E i \in 1..Len(queue') : queue'[i] = p) \/ FreeSlots = {}
  BY <1>0, <1>1, <1>2, TakeStep
<1>4. /\ pending' = o /\ token' = t /\ got' = FALSE
      /\ UNCHANGED <<asked, block, waiting, mid, up, value, heard, misled, badBlock>>
  BY <1>1 DEF TakeRequest, callerVars, historyVars
<1>5. \/ FreeSlots = {} /\ UNCHANGED <<slotOf, slotToken>>
      \/ \E i \in Slot : /\ slotOf[i] = None
                         /\ slotOf' = [slotOf EXCEPT ![i] = o]
                         /\ slotToken' = [slotToken EXCEPT ![i] = t]
  BY <1>1, FreeSlot DEF AddObservation, tableVars
<1>6. SessionTypeOK'
  <2>1. slotOf' \in [Slot -> Observer \cup {None}] /\ slotToken' \in [Slot -> Token \cup {NoToken}]
    BY <1>0, <1>2, <1>5 DEF SessionTypeOK
  <2>2. watch' \subseteq Token \X Observer BY <1>0, <1>1, <1>2 DEF SessionTypeOK
  <2>3. net' \subseteq Datagram
    <3>1. out.arrives => [tok |-> t, about |-> o, val |-> value[o]] \in Datagram
      BY <1>0, <1>2 DEF SessionTypeOK, Datagram
    <3> QED BY <1>0, <1>1, <3>1 DEF SessionTypeOK
  <2> QED BY <1>0, <1>1, <1>2, <1>3, <1>4, <2>1, <2>2, <2>3 DEF SessionTypeOK
<1>7. \A i \in Slot :
        \/ slotOf'[i] = slotOf[i] /\ slotToken'[i] = slotToken[i]
        \/ slotOf'[i] = o /\ slotToken'[i] = t
  BY <1>0, <1>5 DEF SessionTypeOK
<1>8. TokenInv'
  <2>1. TokenInv BY <1>0 DEF SessionInv
  <2>2. t # NoToken => /\ t # blockToken
                       /\ \A i \in Slot : slotToken[i] # t
                       /\ \A w \in watch : w[1] # t
                       /\ \A m \in net : m.tok # t
    BY <1>2, NotUsed
  <2>3. \A w \in watch : w[1] # NoToken BY <1>0, Parties DEF SessionTypeOK
  <2>4. \A m \in net : m.tok # NoToken BY <1>0, Parties DEF SessionTypeOK, Datagram
  <2>5. out.arrives => t # NoToken BY <1>2, Parties
  <2>6. ASSUME NEW w \in watch', NEW i \in Slot, slotOf'[i] # None, slotToken'[i] = w[1]
        PROVE  slotOf'[i] = w[2]
    <3>1. CASE w \in watch
      BY <1>7, <2>1, <2>2, <2>3, <2>6, <3>1 DEF TokenInv, UsedSlots
    <3>2. CASE out.arrives /\ w = <<t, o>>
      BY <1>7, <2>2, <2>5, <2>6, <3>2
    <3> QED BY <1>1, <3>1, <3>2
  <2>7. ASSUME NEW m \in net', NEW i \in Slot, slotOf'[i] # None, slotToken'[i] = m.tok
        PROVE  slotOf'[i] = m.about
    <3>1. CASE m \in net
      BY <1>7, <2>1, <2>2, <2>4, <2>7, <3>1 DEF TokenInv, UsedSlots
    <3>2. CASE out.arrives /\ m = [tok |-> t, about |-> o, val |-> value[o]]
      BY <1>7, <2>2, <2>5, <2>7, <3>2
    <3> QED BY <1>1, <3>1, <3>2
  <2>8. blockToken' # NoToken => \A i \in Slot : slotToken'[i] # blockToken'
    BY <1>1, <1>7, <2>1, <2>2 DEF TokenInv
  <2>9. \A w \in watch' : w[1] # blockToken'
    BY <1>1, <2>1, <2>2, <2>5 DEF TokenInv
  <2> QED BY <2>6, <2>7, <2>8, <2>9 DEF TokenInv, UsedSlots
<1>9. AnswerInv'
  <2>1. AnswerInv /\ pending = None BY <1>0, <1>1 DEF SessionInv, TakeRequest
  <2>2. out.arrives => t # blockToken BY <1>2, NotUsed, Parties
  <2>3. ASSUME ~Duplicates PROVE \A m \in net' : m.tok # blockToken
    <3>1. \A m \in net : m.tok # blockToken BY <2>1, <2>3, Parties DEF AnswerInv
    <3> QED BY <1>1, <2>2, <3>1
  <2> QED BY <1>0, <1>1, <1>4, <2>1, <2>3 DEF AnswerInv
<1>10. HeardOwn' BY <1>0, <1>4 DEF SessionInv, HeardOwn
<1>11. ForgottenOnlyWhenFull'
  <2> SUFFICES ASSUME NEW p \in asked'
               PROVE  \/ Remembered(p)'
                      \/ \E i \in 1..Len(queue') : queue'[i] = p
                      \/ FreeSlots' = {}
    BY DEF ForgottenOnlyWhenFull, Remembered
  <2>1. FreeSlots = {} => FreeSlots' = {}
    BY <1>0, <1>7 DEF FreeSlots, UsedSlots
  <2>2. \A i \in Slot : slotOf[i] # None => slotOf'[i] = slotOf[i]
    BY <1>0, <1>5 DEF SessionTypeOK
  <2>3. CASE p = o
    <3>1. CASE FreeSlots = {} BY <2>1, <3>1
    <3>2. CASE FreeSlots # {}
      <4>1. PICK i \in Slot : slotOf' = [slotOf EXCEPT ![i] = o] BY <1>5, <3>2
      <4> QED BY <1>0, <2>3, <4>1 DEF SessionTypeOK, Remembered
    <3> QED BY <3>1, <3>2
  <2>4. CASE Remembered(p)
    <3>1. p # None BY <1>0, <1>4, Parties DEF SessionTypeOK
    <3> QED BY <2>2, <2>4, <3>1 DEF Remembered
  <2> QED BY <1>3, <2>1, <2>3, <2>4
<1> QED BY <1>3, <1>6, <1>8, <1>9, <1>10, <1>11 DEF Inv, SessionInv

LEMMA SendBlockStep ==
  ASSUME Inv, NEW out \in Outcome, SendBlock(out)
  PROVE  Inv'
<1> DEFINE t == BlockTokenFor(out)
           d == [tok |-> t, about |-> Block, val |-> block, mid |-> mid]
<1>0. SessionTypeOK /\ SessionInv /\ Block \in Party BY Parties DEF Inv
<1>1. /\ Fresh # {} /\ TakeRequest(Block, t)
      /\ blockToken' = IF out.made /\ block = 0 THEN t ELSE blockToken
      /\ net' = IF out.arrives /\ t # NoToken THEN net \cup {d} ELSE net
      /\ UNCHANGED <<slotOf, slotToken, watch>>
  BY DEF SendBlock, tableVars
<1>2. /\ t \in Token \cup {NoToken}
      /\ t # NoToken => t = blockToken'
      /\ blockToken' = blockToken \/ (blockToken' \in Token /\ blockToken' \notin Used)
  BY <1>0, <1>1, FreshToken DEF BlockTokenFor, SessionTypeOK
<1> HIDE DEF t
<1>3. /\ queue' \in Seq(Party) /\ WaitInv'
      /\ \A p \in asked' :
           p = Block \/ Remembered(p) \/ (\E i \in 1..Len(queue') : queue'[i] = p)
             \/ FreeSlots = {}
  BY <1>0, <1>1, <1>2, TakeStep
<1>4. /\ pending = None /\ pending' = Block /\ token' = t /\ got' = FALSE
      /\ UNCHANGED <<asked, block, waiting, mid, up, value, heard, misled, badBlock>>
  BY <1>1 DEF TakeRequest, callerVars, historyVars
<1>5. SessionTypeOK'
  <2>1. net' \subseteq Datagram
    <3>1. t # NoToken => d \in Datagram BY <1>0, <1>2 DEF SessionTypeOK, Datagram
    <3> QED BY <1>0, <1>1, <3>1 DEF SessionTypeOK
  <2>2. blockToken' \in Token \cup {NoToken} BY <1>0, <1>2 DEF SessionTypeOK
  <2> QED BY <1>0, <1>1, <1>2, <1>3, <1>4, <2>1, <2>2 DEF SessionTypeOK
<1>6. blockToken' # NoToken => /\ \A i \in Slot : slotToken[i] # blockToken'
      /\ \A w \in watch : w[1] # blockToken'
  BY <1>0, <1>2, NotUsed DEF SessionInv, TokenInv
<1>7. TokenInv'
  <2>1. TokenInv BY <1>0 DEF SessionInv
  <2>2. ASSUME NEW m \in net', NEW i \in Slot, slotOf[i] # None, slotToken[i] = m.tok
        PROVE  slotOf[i] = m.about
    <3>1. CASE m \in net BY <2>1, <2>2, <3>1 DEF TokenInv, UsedSlots
    <3>2. CASE t # NoToken /\ m = d BY <1>2, <1>6, <2>2, <3>2
    <3> QED BY <1>1, <3>1, <3>2
  <2>3. \A w \in watch : w[1] # blockToken'
    <3>1. \A w \in watch : w[1] # NoToken BY <1>0, Parties DEF SessionTypeOK
    <3> QED BY <1>6, <3>1
  <2> QED BY <1>1, <1>6, <2>1, <2>2, <2>3 DEF TokenInv, UsedSlots
<1>8. AnswerInv'
  <2>1. AnswerInv BY <1>0 DEF SessionInv
  <2>2. ASSUME ~Duplicates, NEW m \in net', m.tok = blockToken'
        PROVE  t # NoToken /\ m = d
    <3>1. m \notin net
      <4>1. blockToken' = blockToken => m \notin net
        BY <1>4, <2>1, <2>2, Parties DEF AnswerInv
      <4>2. blockToken' \notin Used => m \notin net BY <2>2 DEF Used
      <4> QED BY <1>2, <4>1, <4>2
    <3> QED BY <1>1, <3>1
  <2>3. ASSUME ~Duplicates PROVE ~badBlock' BY <1>4, <2>1, <2>3 DEF AnswerInv
  <2> QED BY <1>2, <1>4, <2>2, <2>3 DEF AnswerInv
<1>9. HeardOwn' BY <1>0, <1>4 DEF SessionInv, HeardOwn
<1>10. ForgottenOnlyWhenFull'
  BY <1>0, <1>1, <1>3, <1>4, Parties
  DEF ForgottenOnlyWhenFull, Remembered, FreeSlots, UsedSlots, SessionTypeOK
<1> QED BY <1>3, <1>5, <1>7, <1>8, <1>9, <1>10 DEF Inv, SessionInv

-----------------------------------------------------------------------------
(* The coap task receives. *)

LEMMA ReceiveStep ==
  ASSUME Inv, NEW m \in net, Receive(m)
  PROVE  Inv'
<1> DEFINE matches == pending # None /\ token = m.tok
<1>0. SessionTypeOK /\ SessionInv BY DEF Inv
<1>1. /\ IF pending = None THEN queue = <<>> ELSE ~got
      /\ net' \subseteq net
      /\ ~Duplicates => net' = net \ {m}
      /\ got' = (got \/ matches)
      /\ badBlock' = (badBlock \/ (matches /\ pending = Block
                                    /\ ~(m.about = Block /\ m.val = block)))
      /\ heard' = [o \in Observer |->
                    IF o \in Told(m) /\ m.about = o THEN heard[o] \cup {m.val} ELSE heard[o]]
      /\ misled' = misled \cup {o \in Told(m) : m.about # o}
      /\ UNCHANGED <<asked, block, waiting, mid, up, queue, pending, token, slotOf, slotToken,
                     blockToken, value, watch>>
  BY DEF Receive, callerVars, tableVars
<1> HIDE DEF matches
<1>2. \A o \in Told(m) : o \in Observer /\ m.about = o
  <2> SUFFICES ASSUME NEW i \in UsedSlots, slotToken[i] = m.tok
               PROVE  slotOf[i] \in Observer /\ m.about = slotOf[i]
    BY DEF Told, Addressees
  <2> QED BY <1>0 DEF SessionInv, TokenInv, UsedSlots, SessionTypeOK
<1>3. m.tok \in Token /\ (m.about \in Observer => m.val \in Val)
  BY <1>0, Parties DEF SessionTypeOK, Datagram
<1>4. SessionTypeOK'
  <2>1. heard' \in [Observer -> SUBSET Val] BY <1>0, <1>1, <1>3 DEF SessionTypeOK
  <2>2. misled' \subseteq Observer BY <1>0, <1>1, <1>2 DEF SessionTypeOK
  <2>3. got' \in BOOLEAN /\ badBlock' \in BOOLEAN BY <1>1
  <2>4. net' \subseteq Datagram BY <1>0, <1>1 DEF SessionTypeOK
  <2> QED BY <1>0, <1>1, <2>1, <2>2, <2>3, <2>4, Zenon DEF SessionTypeOK
<1>5. HeardOwn' BY <1>0, <1>1, <1>2 DEF SessionInv, HeardOwn
<1>6. TokenInv' BY <1>0, <1>1 DEF SessionInv, TokenInv, UsedSlots
<1>7. WaitInv' BY <1>0, <1>1 DEF SessionInv, WaitInv
<1>8. AnswerInv'
  <2>1. AnswerInv BY <1>0 DEF SessionInv
  <2>2. ASSUME ~Duplicates, NEW n \in net', n.tok = blockToken PROVE n \in net /\ n # m
    BY <1>1, <2>2
  <2>3. ASSUME ~Duplicates, NEW n \in net', n.tok = blockToken
        PROVE  /\ pending = Block /\ ~got /\ token = blockToken /\ ~matches
               /\ n = [tok |-> blockToken, about |-> Block, val |-> block, mid |-> mid]
    <3>1. /\ pending = Block /\ ~got /\ token = blockToken
          /\ n = [tok |-> blockToken, about |-> Block, val |-> block, mid |-> mid]
      BY <2>1, <2>2, <2>3 DEF AnswerInv
    <3>2. m.tok = blockToken => m = n BY <2>1, <2>3, <3>1 DEF AnswerInv
    <3> QED BY <2>2, <2>3, <3>1, <3>2 DEF matches
  <2>4. ASSUME ~Duplicates PROVE ~badBlock'
    <3>1. ASSUME matches, pending = Block PROVE m.about = Block /\ m.val = block
      <4>1. token # NoToken BY <1>3, <3>1, Parties DEF matches
      <4>2. m.tok = blockToken BY <2>1, <3>1, <4>1 DEF AnswerInv, matches
      <4>3. m = [tok |-> blockToken, about |-> Block, val |-> block, mid |-> mid]
        BY <2>1, <2>4, <4>2 DEF AnswerInv
      <4> QED BY <4>3
    <3>2. ~badBlock BY <2>1, <2>4 DEF AnswerInv
    <3> QED BY <1>1, <3>1, <3>2
  <2> QED BY <1>1, <2>1, <2>3, <2>4 DEF AnswerInv
<1>9. ForgottenOnlyWhenFull'
  BY <1>0, <1>1
  DEF SessionInv, ForgottenOnlyWhenFull, Remembered, FreeSlots, UsedSlots
<1> QED BY <1>4, <1>5, <1>6, <1>7, <1>8, <1>9 DEF Inv, SessionInv

\* A request ends with its response, or with the session.
LEMMA FinishStep ==
  ASSUME Inv, CompleteCaller, pending # None, pending' = None, token' = NoToken, got' = FALSE,
         UNCHANGED <<asked, mid, queue, slotOf, slotToken, blockToken, value, heard, misled,
                     badBlock>>,
         up' \in BOOLEAN,
         watch' \subseteq watch, net' \subseteq net,
         got \/ net' = {}
  PROVE  Inv'
<1>0. SessionTypeOK /\ SessionInv BY DEF Inv
<1>1. /\ pending # Block => UNCHANGED <<block, waiting>>
      /\ block' \in 0..NumBlocks - 1 /\ waiting' \in BOOLEAN
  <2>1. CASE pending = Block /\ got
    <3>1. block \in Nat /\ NumBlocks \in Nat \ {0} BY <1>0, CountAssumption DEF SessionTypeOK
    <3>2. (block + 1) % NumBlocks \in 0..NumBlocks - 1 BY <3>1
    <3> QED BY <2>1, <3>2 DEF CompleteCaller
  <2>2. CASE pending = Block /\ ~got
    <3>1. 0 \in 0..NumBlocks - 1 /\ block \in 0..NumBlocks - 1
      BY <1>0, CountAssumption DEF SessionTypeOK
    <3>2. waiting' = FALSE /\ block' \in {0, block} BY <2>2 DEF CompleteCaller
    <3> QED BY <2>2, <3>1, <3>2
  <2>3. CASE pending # Block BY <1>0, <2>3 DEF CompleteCaller, SessionTypeOK
  <2> QED BY <2>1, <2>2, <2>3
<1>2. SessionTypeOK'
  <2>1. net' \subseteq Datagram /\ watch' \subseteq Token \X Observer
    BY <1>0 DEF SessionTypeOK
  <2> QED BY <1>0, <1>1, <2>1, Zenon DEF SessionTypeOK
<1>3. HeardOwn' /\ TokenInv'
  BY <1>0 DEF SessionInv, HeardOwn, TokenInv, UsedSlots
<1>4. WaitInv' BY <1>0, <1>1, Parties DEF SessionInv, WaitInv
<1>5. AnswerInv'
  <2>1. ASSUME ~Duplicates PROVE ~badBlock /\ \A m \in net' : m.tok # blockToken
    BY <1>0, <2>1 DEF SessionInv, AnswerInv
  <2> QED BY <2>1, Parties DEF AnswerInv
<1>6. ForgottenOnlyWhenFull'
  BY <1>0 DEF SessionInv, ForgottenOnlyWhenFull, Remembered, FreeSlots, UsedSlots
<1> QED BY <1>2, <1>3, <1>4, <1>5, <1>6 DEF Inv, SessionInv

LEMMA CompleteStep == ASSUME Inv, Complete PROVE Inv'
<1> USE DEF Complete, tableVars, serverVars, historyVars
<1>1. up' \in BOOLEAN BY DEF Inv, SessionTypeOK
<1> QED BY <1>1, FinishStep

LEMMA GiveUpStep == ASSUME Inv, GiveUp PROVE Inv'
BY FinishStep DEF GiveUp, CloseSession, tableVars, historyVars

LEMMA EndSessionStep ==
  ASSUME Inv, EndSession
  PROVE  Inv'
<1> USE DEF EndSession, CloseSession, callerVars, tableVars, historyVars
<1>0. SessionTypeOK /\ SessionInv BY DEF Inv
<1>1. SessionTypeOK' BY <1>0 DEF SessionTypeOK
<1>2. HeardOwn' /\ TokenInv' /\ WaitInv' /\ AnswerInv' /\ ForgottenOnlyWhenFull'
  BY <1>0
  DEF SessionInv, HeardOwn, TokenInv, WaitInv, AnswerInv, ForgottenOnlyWhenFull, Remembered,
      FreeSlots, UsedSlots
<1> QED BY <1>1, <1>2 DEF Inv, SessionInv

LEMMA StartSessionStep ==
  ASSUME Inv, StartSession
  PROVE  Inv'
<1> USE DEF callerVars, historyVars
<1>0. SessionTypeOK /\ SessionInv BY DEF Inv
<1>a. PICK made \in SUBSET UsedSlots : \E arrive \in SUBSET made : Reestablish(made, arrive)
  BY DEF StartSession
<1>1. PICK arrive \in SUBSET made : Reestablish(made, arrive) BY <1>a
<1> DEFINE f == CHOOSE g \in Renewal(made) : TRUE
           answer(i) == [tok |-> f[i], about |-> slotOf[i], val |-> value[slotOf[i]]]
<1>2. f \in Renewal(made) BY <1>1 DEF Reestablish
<1>3. /\ slotToken' = [i \in Slot |-> IF i \in made THEN f[i] ELSE slotToken[i]]
      /\ watch' = {<<f[i], slotOf[i]>> : i \in arrive}
      /\ net' = {answer(i) : i \in arrive}
      /\ up' = TRUE
      /\ UNCHANGED <<asked, block, waiting, mid, queue, pending, token, got, slotOf,
                     blockToken, value, heard, misled, badBlock>>
  BY <1>1 DEF Reestablish, StartSession
<1>4. f \in [made -> Fresh] /\ \A i, j \in made : f[i] = f[j] => i = j
  BY <1>2 DEF Renewal
<1> HIDE DEF f
<1>5. \A i \in made : /\ f[i] \in Token /\ f[i] # blockToken
                      /\ \A j \in Slot : slotToken[j] # f[i]
                      /\ i \in Slot /\ slotOf[i] \in Observer
  BY <1>0, <1>4, NotUsed DEF Fresh, UsedSlots, SessionTypeOK
<1>6. SessionTypeOK'
  <2>1. slotToken' \in [Slot -> Token \cup {NoToken}]
    BY <1>0, <1>3, <1>5 DEF SessionTypeOK
  <2>2. watch' \subseteq Token \X Observer BY <1>3, <1>5
  <2>3. net' \subseteq Datagram
    <3>1. \A i \in arrive : answer(i) \in Datagram
      BY <1>0, <1>5 DEF SessionTypeOK, Datagram
    <3> QED BY <1>3, <3>1
  <2> QED BY <1>0, <1>3, <2>1, <2>2, <2>3 DEF SessionTypeOK
<1>7. \A i \in Slot : \A j \in arrive : slotToken'[i] = f[j] => i = j
  BY <1>3, <1>4, <1>5
<1>8. TokenInv'
  <2>1. \A w \in watch', i \in UsedSlots : slotToken'[i] = w[1] => slotOf[i] = w[2]
    BY <1>3, <1>7 DEF UsedSlots
  <2>2. \A m \in net', i \in UsedSlots : slotToken'[i] = m.tok => slotOf[i] = m.about
    BY <1>3, <1>7 DEF UsedSlots
  <2>3. blockToken # NoToken => \A i \in Slot : slotToken'[i] # blockToken
    BY <1>0, <1>3, <1>5 DEF SessionInv, TokenInv
  <2>4. \A w \in watch' : w[1] # blockToken BY <1>3, <1>5
  <2> QED BY <1>3, <2>1, <2>2, <2>3, <2>4 DEF TokenInv, UsedSlots
<1>9. AnswerInv'
  <2>1. \A m \in net' : m.tok # blockToken BY <1>3, <1>5
  <2> QED BY <1>0, <1>3, <2>1 DEF SessionInv, AnswerInv
<1>10. HeardOwn' /\ WaitInv' /\ ForgottenOnlyWhenFull'
  BY <1>0, <1>3
  DEF SessionInv, HeardOwn, WaitInv, ForgottenOnlyWhenFull, Remembered, FreeSlots, UsedSlots
<1> QED BY <1>6, <1>8, <1>9, <1>10 DEF Inv, SessionInv

-----------------------------------------------------------------------------
(* The server and the network. *)

LEMMA UpdateStep ==
  ASSUME Inv, NEW o \in Observer, Update(o)
  PROVE  Inv'
<1> USE DEF Update, callerVars, tableVars, historyVars
<1> DEFINE note(w) == [tok |-> w[1], about |-> o, val |-> value[o] + 1]
<1>0. SessionTypeOK /\ SessionInv BY DEF Inv
<1>1. net' = net \cup {note(w) : w \in {x \in watch : x[2] = o}}
  OBVIOUS
<1>2. value[o] + 1 \in Val BY <1>0, CountAssumption DEF SessionTypeOK, Val
<1>3. SessionTypeOK'
  <2>1. value' \in [Observer -> Val] BY <1>0, <1>2 DEF SessionTypeOK
  <2>2. \A w \in watch : note(w) \in Datagram BY <1>0, <1>2 DEF SessionTypeOK, Datagram
  <2>3. net' \subseteq Datagram BY <1>0, <1>1, <2>2 DEF SessionTypeOK
  <2> QED BY <1>0, <2>1, <2>3 DEF SessionTypeOK
<1>4. \A m \in net' : m \in net \/ \E w \in watch : w[2] = o /\ m.tok = w[1] /\ m.about = o
  BY <1>1
<1>5. TokenInv' BY <1>0, <1>4 DEF SessionInv, TokenInv, UsedSlots
<1>6. AnswerInv' BY <1>0, <1>4 DEF SessionInv, AnswerInv, TokenInv
<1>7. HeardOwn' /\ WaitInv' /\ ForgottenOnlyWhenFull'
  BY <1>0
  DEF SessionInv, HeardOwn, WaitInv, ForgottenOnlyWhenFull, Remembered, FreeSlots, UsedSlots
<1> QED BY <1>3, <1>5, <1>6, <1>7 DEF Inv, SessionInv

LEMMA LoseStep ==
  ASSUME Inv, NEW m \in net, Lose(m)
  PROVE  Inv'
<1> USE DEF Lose, callerVars, tableVars, historyVars
<1>0. SessionTypeOK /\ SessionInv BY DEF Inv
<1>1. SessionTypeOK' BY <1>0 DEF SessionTypeOK
<1>2. HeardOwn' /\ TokenInv' /\ WaitInv' /\ AnswerInv' /\ ForgottenOnlyWhenFull'
  BY <1>0
  DEF SessionInv, HeardOwn, TokenInv, WaitInv, AnswerInv, ForgottenOnlyWhenFull, Remembered,
      FreeSlots, UsedSlots
<1> QED BY <1>1, <1>2 DEF Inv, SessionInv

-----------------------------------------------------------------------------

LEMMA NextInv == Inv /\ [Next]_vars => Inv'
<1> SUFFICES ASSUME Inv, [Next]_vars PROVE Inv'
  OBVIOUS
<1>1. CASE \E o \in Observer : Observe(o) \/ Update(o) BY <1>1, ObserveStep, UpdateStep
<1>2. CASE AskBlock BY <1>2, AskBlockStep
<1>3. CASE Send BY <1>3, SendBlockStep, SendObserveStep DEF Send
<1>4. CASE \E m \in net : Receive(m) \/ Lose(m) BY <1>4, ReceiveStep, LoseStep
<1>5. CASE Complete BY <1>5, CompleteStep
<1>6. CASE GiveUp BY <1>6, GiveUpStep
<1>7. CASE EndSession BY <1>7, EndSessionStep
<1>8. CASE StartSession BY <1>8, StartSessionStep
<1>9. CASE UNCHANGED vars
  <2> USE <1>9 DEF vars, callerVars, tableVars, serverVars, historyVars
  <2>1. SessionTypeOK /\ SessionInv BY DEF Inv
  <2>2. SessionTypeOK' BY <2>1 DEF SessionTypeOK
  <2>3. HeardOwn' /\ TokenInv' /\ WaitInv' /\ AnswerInv' /\ ForgottenOnlyWhenFull'
    BY <2>1
    DEF SessionInv, HeardOwn, TokenInv, WaitInv, AnswerInv, ForgottenOnlyWhenFull, Remembered,
        FreeSlots, UsedSlots
  <2> QED BY <2>2, <2>3 DEF Inv, SessionInv
<1> QED BY <1>1, <1>2, <1>3, <1>4, <1>5, <1>6, <1>7, <1>8, <1>9 DEF Next

\* The inductive invariant, from the code that draws, keeps and matches tokens.
THEOREM SessionInvariant == Spec => []Inv
BY InitInv, NextInv, PTL DEF Spec

\* Every variable of the session keeps its type.
THEOREM SessionTypes == Spec => []SessionTypeOK
<1>1. Inv => SessionTypeOK BY DEF Inv
<1> QED BY <1>1, SessionInvariant, PTL

\* golioth_coap_client_get_block gets the block that it asked for, although all blocks
\* of a download have one token, if the network delivers nothing twice.
THEOREM BlocksMatch == Spec => []BlockMatches
<1>1. Inv => BlockMatches BY DEF Inv, SessionInv, AnswerInv, BlockMatches
<1> QED BY <1>1, SessionInvariant, PTL

\* add_observation forgets an observation only when the table is full.
THEOREM ObservationsAreKept == Spec => []ForgottenOnlyWhenFull
<1>1. Inv => ForgottenOnlyWhenFull BY DEF Inv, SessionInv
<1> QED BY <1>1, SessionInvariant, PTL

-----------------------------------------------------------------------------
(* The sessions implement Channels. *)

LEMMA SourceStep ==
  ASSUME Inv, Inv', SourceInv, [Next]_vars
  PROVE  SourceInv'
<1> USE DEF SourceInv, callerVars, tableVars, serverVars, historyVars
<1>0. SessionTypeOK BY DEF Inv
<1>1. ASSUME NEW o \in Observer, Observe(o) PROVE SourceInv'
  <2>1. /\ Len(queue) \in Nat /\ Len(queue') = Len(queue) + 1 /\ queue'[Len(queue) + 1] = o
        /\ \A i \in 1..Len(queue) : queue'[i] = queue[i]
    BY <1>0, <1>1, QueueAppend, Parties DEF Observe, SessionTypeOK
  <2>2. asked' = asked \cup {o} /\ net' = net /\ value' = value BY <1>1 DEF Observe
  <2> QED BY <2>1, <2>2
<1>2. CASE AskBlock
  <2>1. /\ Len(queue) \in Nat /\ Len(queue') = Len(queue) + 1
        /\ queue'[Len(queue) + 1] = Block
        /\ \A i \in 1..Len(queue) : queue'[i] = queue[i]
    BY <1>0, <1>2, QueueAppend, Parties DEF AskBlock, SessionTypeOK
  <2>2. asked' = asked /\ net' = net /\ value' = value BY <1>2 DEF AskBlock
  <2> QED BY <2>1, <2>2, Parties
<1>3. ASSUME NEW o \in Observer, Update(o) PROVE SourceInv'
  <2>1. queue' = queue /\ asked' = asked BY <1>3 DEF Update
  <2>2. value \in [Observer -> Nat] /\ value' = [value EXCEPT ![o] = @ + 1]
    BY <1>0, <1>3, CountAssumption DEF SessionTypeOK, Val, Update
  <2>3. \A m \in net' :
          m \in net \/ (m.about = o /\ m.val = value[o] + 1)
    BY <1>3 DEF Update
  <2>4. \A m \in net : m.about \in Observer => m.val \in Nat
    BY <1>0, Parties, CountAssumption DEF SessionTypeOK, Datagram, Val
  <2> QED BY <2>1, <2>2, <2>3, <2>4
<1>4. ASSUME NEW r \in Party, NEW t, TakeRequest(r, t)
      PROVE  /\ value' = value /\ asked' = asked
             /\ \A i \in 1..Len(queue') : queue'[i] \in Observer => queue'[i] \in asked'
  <2>1. /\ \A i \in 1..Len(queue') : i + 1 \in 1..Len(queue) /\ queue'[i] = queue[i + 1]
        /\ asked' = asked
    BY <1>0, <1>4, QueueTail DEF TakeRequest, SessionTypeOK
  <2> QED BY <1>4, <2>1 DEF TakeRequest
<1>5. ASSUME NEW out \in Outcome, SendBlock(out) PROVE SourceInv'
  <2>1. \E t : TakeRequest(Block, t) BY <1>5 DEF SendBlock
  <2>2. \A m \in net' : m \in net \/ m.about = Block BY <1>5 DEF SendBlock
  <2> QED BY <1>4, <2>1, <2>2, Parties
<1>6. ASSUME NEW o \in Observer, NEW out \in Outcome, SendObserve(o, out) PROVE SourceInv'
  <2>1. \E t : TakeRequest(o, t) BY <1>6 DEF SendObserve
  <2>2. \A m \in net' : m \in net \/ (m.about = o /\ m.val = value[o])
    BY <1>6 DEF SendObserve
  <2>3. value[o] \in Nat BY <1>0, CountAssumption DEF SessionTypeOK, Val
  <2> QED BY <1>4, <2>1, <2>2, <2>3, Parties
<1>7. CASE StartSession
  <2>1. PICK made \in SUBSET UsedSlots : \E arrive \in SUBSET made : Reestablish(made, arrive)
    BY <1>7 DEF StartSession
  <2>2. PICK arrive \in SUBSET made : Reestablish(made, arrive) BY <2>1
  <2>3. \A m \in net' : \E i \in arrive : m.about = slotOf[i] /\ m.val = value[slotOf[i]]
    BY <2>2 DEF Reestablish
  <2>4. \A i \in arrive : slotOf[i] \in Observer
    BY <1>0, <2>1, <2>2 DEF SessionTypeOK, UsedSlots
  <2>5. \A o \in Observer : value[o] \in Nat BY <1>0, CountAssumption DEF SessionTypeOK, Val
  <2> QED BY <1>7, <2>3, <2>4, <2>5 DEF StartSession
<1>8. CASE \/ \E m \in net : Receive(m) \/ Lose(m)
           \/ Complete \/ GiveUp \/ EndSession \/ UNCHANGED vars
  BY <1>8 DEF Receive, Lose, Complete, GiveUp, EndSession, CloseSession, vars
<1> QED BY <1>1, <1>2, <1>3, <1>5, <1>6, <1>7, <1>8 DEF Next, Send

LEMMA HeardMapped ==
  ASSUME Inv, Inv'
  PROVE  /\ [o \in Observer |-> HeardBy(o)] = heard
         /\ [o \in Observer |-> HeardBy(o)]' = heard'
<1>1. heard \in [Observer -> SUBSET Val] /\ misled = {}
  BY DEF Inv, SessionInv, HeardOwn, SessionTypeOK
<1>2. heard' \in [Observer -> SUBSET Val] /\ misled' = {}
  BY DEF Inv, SessionInv, HeardOwn, SessionTypeOK
<1>3. [o \in Observer |-> HeardBy(o)] = heard BY <1>1 DEF HeardBy
<1>4. [o \in Observer |-> HeardBy(o)]' = heard' BY <1>2 DEF HeardBy
<1> QED BY <1>3, <1>4

\* A step that no observer and no download notices.
LEMMA ChannelSilent ==
  ASSUME Inv, Inv', UNCHANGED <<asked, Kept, value, heard, block, Phase, badBlock>>
  PROVE  UNCHANGED Channel!channelVars
<1>1. [o \in Observer |-> HeardBy(o)]' = [o \in Observer |-> HeardBy(o)]
  BY HeardMapped
<1> QED BY <1>1 DEF Channel!channelVars, Channel!observerVars, Channel!downloadVars

LEMMA ReceiveIsHear ==
  ASSUME Inv, Inv', SourceInv, NEW m \in net, Receive(m)
  PROVE  [Channel!Next]_(Channel!channelVars)
<1> DEFINE matches == pending # None /\ token = m.tok
<1>0. SessionTypeOK /\ TokenInv /\ AnswerInv /\ WaitInv BY DEF Inv, SessionInv
<1>1. /\ IF pending = None THEN queue = <<>> ELSE ~got
      /\ got' = (got \/ matches)
      /\ badBlock' = (badBlock \/ (matches /\ pending = Block
                                    /\ ~(m.about = Block /\ m.val = block)))
      /\ heard' = [o \in Observer |->
                    IF o \in Told(m) /\ m.about = o THEN heard[o] \cup {m.val} ELSE heard[o]]
      /\ UNCHANGED <<asked, block, waiting, mid, up, queue, pending, token, slotOf, slotToken,
                     blockToken, value, watch>>
  BY DEF Receive, callerVars, tableVars
<1> HIDE DEF matches
<1>2. Kept' = Kept BY <1>1 DEF Kept, Remembered
<1>3. heard \in [Observer -> SUBSET Val] BY <1>0 DEF SessionTypeOK
<1>4. CASE matches /\ pending = Block
  <2>1. m.tok # NoToken BY <1>0, Parties DEF SessionTypeOK, Datagram
  <2>2. m.tok = blockToken BY <1>0, <1>4, <2>1 DEF matches, AnswerInv
  <2>3. Told(m) = {} BY <1>0, <2>1, <2>2 DEF TokenInv, Told, Addressees, UsedSlots
  <2>4. heard' = heard BY <1>1, <1>3, <2>3
  <2>5. waiting /\ ~got BY <1>0, <1>1, <1>4, Parties DEF WaitInv
  <2>6. Phase = "asked" /\ Phase' = "given" BY <1>1, <1>4, <2>5 DEF Phase
  <2>7. badBlock' \in IF Duplicates THEN {badBlock, TRUE} ELSE {badBlock}
    <3>1. badBlock \in BOOLEAN BY <1>0 DEF SessionTypeOK
    <3>2. ~Duplicates => ~badBlock /\ ~badBlock' BY DEF Inv, SessionInv, AnswerInv
    <3> QED BY <1>1, <3>1, <3>2, NetworkAssumption
  <2> QED BY <1>1, <1>2, <2>4, <2>6, <2>7, HeardMapped
    DEF Channel!Next, Channel!GiveBlock, Channel!observerVars
<1>5. CASE ~(matches /\ pending = Block)
  <2>1. Phase' = Phase /\ badBlock' = badBlock
    <3>1. (pending = Block /\ got') = (pending = Block /\ got) BY <1>1, <1>5
    <3>2. badBlock \in BOOLEAN BY <1>0 DEF SessionTypeOK
    <3> QED BY <1>1, <1>5, <3>1, <3>2 DEF Phase
  <2>2. CASE m.about \in Told(m)
    <3>1. PICK i \in Slot : slotOf[i] = m.about /\ m.about # None
      BY <2>2 DEF Told, Addressees, UsedSlots
    <3>2. m.about \in Kept BY <1>0, <3>1 DEF Kept, Remembered, SessionTypeOK
    <3>3. m.about \in Observer BY <3>2 DEF Kept
    <3>4. m.val \in 0..value[m.about]
      BY <1>0, <3>3, Parties, CountAssumption DEF SourceInv, SessionTypeOK, Datagram, Val
    <3>5. heard' = [heard EXCEPT ![m.about] = @ \cup {m.val}] BY <1>1, <1>3, <2>2, <3>3
    <3>6. Channel!Hear(m.about)
      BY <1>1, <1>2, <2>1, <3>2, <3>4, <3>5, HeardMapped
      DEF Channel!Hear, Channel!downloadVars
    <3> QED BY <3>3, <3>6, Zenon DEF Channel!Next
  <2>3. CASE m.about \notin Told(m)
    <3>1. heard' = heard BY <1>1, <1>3, <2>3
    <3> QED BY <1>1, <1>2, <2>1, <3>1, ChannelSilent
  <2> QED BY <2>2, <2>3
<1> QED BY <1>4, <1>5

\* The end of a request: of a block that was given, of one that was not, or of an
\* observation, which nobody notices.
LEMMA FinishIsProceed ==
  ASSUME Inv, Inv', CompleteCaller, pending # None, pending' = None,
         UNCHANGED <<asked, slotOf, value, heard, badBlock>>
  PROVE  [Channel!Next]_(Channel!channelVars)
<1>0. WaitInv BY DEF Inv, SessionInv
<1>1. Kept' = Kept BY DEF Kept, Remembered
<1>2. CASE pending = Block
  <2>1. waiting /\ ~waiting' BY <1>0, <1>2 DEF WaitInv, CompleteCaller
  <2>2. Phase = (IF got THEN "given" ELSE "asked") /\ Phase' = "idle"
    BY <1>2, <2>1 DEF Phase
  <2>3. block' \in IF got THEN {(block + 1) % NumBlocks} ELSE {0, block}
    BY <1>2 DEF CompleteCaller
  <2>4. CASE got
    BY <1>1, <2>2, <2>3, <2>4, HeardMapped
    DEF Channel!Next, Channel!Proceed, Channel!observerVars
  <2>5. CASE ~got
    BY <1>1, <2>2, <2>3, <2>5, HeardMapped
    DEF Channel!Next, Channel!Retry, Channel!observerVars
  <2> QED BY <2>4, <2>5
<1>3. CASE pending # Block
  <2>1. UNCHANGED <<block, waiting>> BY <1>3 DEF CompleteCaller
  <2>2. Phase' = Phase BY <1>3, <2>1, Parties DEF Phase
  <2> QED BY <1>1, <2>1, <2>2, ChannelSilent
<1> QED BY <1>2, <1>3

LEMMA ChannelStep ==
  ASSUME Inv, Inv', SourceInv, [Next]_vars
  PROVE  [Channel!Next]_(Channel!channelVars)
<1> USE DEF callerVars, tableVars, serverVars, historyVars
<1>0. SessionTypeOK /\ WaitInv BY DEF Inv, SessionInv
<1>1. ASSUME NEW o \in Observer, Observe(o) PROVE [Channel!Next]_(Channel!channelVars)
  <2>1. Kept' = Kept /\ Phase' = Phase BY <1>1 DEF Observe, Kept, Remembered, Phase
  <2>2. Channel!Ask(o)
    BY <1>1, <2>1, HeardMapped DEF Observe, Channel!Ask, Channel!downloadVars
  <2> QED BY <2>2, Zenon DEF Channel!Next
<1>2. ASSUME NEW o \in Observer, Update(o) PROVE [Channel!Next]_(Channel!channelVars)
  <2>1. Kept' = Kept /\ Phase' = Phase BY <1>2 DEF Update, Kept, Remembered, Phase
  <2>2. Channel!Change(o)
    BY <1>2, <2>1, HeardMapped DEF Update, Channel!Change, Channel!downloadVars
  <2> QED BY <2>2, Zenon DEF Channel!Next
<1>3. CASE AskBlock
  <2>1. Phase = "idle" /\ Phase' = "asked" BY <1>0, <1>3 DEF AskBlock, WaitInv, Phase
  <2>2. Kept' = Kept BY <1>3 DEF AskBlock, Kept, Remembered
  <2> QED BY <1>3, <2>1, <2>2, HeardMapped
    DEF AskBlock, Channel!Next, Channel!AskBlock, Channel!observerVars
<1>4. ASSUME NEW r \in Party, NEW t, TakeRequest(r, t)
      PROVE  /\ Phase' = Phase
             /\ UNCHANGED <<asked, value, heard, block, badBlock>>
             /\ r \in Observer /\ SourceInv => r \in asked
  <2>1. /\ pending = None /\ got' = FALSE
        /\ UNCHANGED <<asked, value, heard, block, waiting, badBlock>>
    BY <1>4 DEF TakeRequest
  <2>2. Phase' = Phase BY <2>1, Parties DEF Phase
  <2>3. 1 \in 1..Len(queue) /\ queue[1] = r
    BY <1>0, <1>4, QueueTail DEF TakeRequest, SessionTypeOK
  <2> QED BY <2>1, <2>2, <2>3 DEF SourceInv
<1>5. ASSUME NEW out \in Outcome, SendBlock(out) PROVE [Channel!Next]_(Channel!channelVars)
  <2>1. \E t : TakeRequest(Block, t) BY <1>5 DEF SendBlock
  <2>2. Kept' = Kept BY <1>5 DEF SendBlock, Kept, Remembered
  <2> QED BY <1>4, <2>1, <2>2, Parties, ChannelSilent
<1>6. ASSUME NEW o \in Observer, NEW out \in Outcome, SendObserve(o, out)
      PROVE  [Channel!Next]_(Channel!channelVars)
  <2>1. /\ Phase' = Phase /\ UNCHANGED <<asked, value, heard, block, badBlock>>
        /\ o \in asked
    <3>1. \E t : TakeRequest(o, t) BY <1>6 DEF SendObserve
    <3> QED BY <1>4, <3>1, Parties
  <2>2. \/ slotOf' = slotOf
        \/ \E i \in Slot : slotOf[i] = None /\ slotOf' = [slotOf EXCEPT ![i] = o]
    BY <1>6, FreeSlot DEF SendObserve, AddObservation
  <2>3. CASE slotOf' = slotOf
    <3>1. Kept' = Kept BY <2>3 DEF Kept, Remembered
    <3> QED BY <2>1, <3>1, ChannelSilent
  <2>4. CASE \E i \in Slot : slotOf[i] = None /\ slotOf' = [slotOf EXCEPT ![i] = o]
    <3>1. PICK i \in Slot : slotOf[i] = None /\ slotOf' = [slotOf EXCEPT ![i] = o] BY <2>4
    <3>2. /\ slotOf'[i] = o
          /\ \A j \in Slot \ {i} : slotOf'[j] = slotOf[j]
      BY <1>0, <3>1 DEF SessionTypeOK
    <3>3. Kept' = Kept \cup {o} BY <3>1, <3>2, Parties DEF Kept, Remembered
    <3>4. Channel!Keep(o)
      BY <2>1, <3>3, HeardMapped DEF Channel!Keep, Channel!downloadVars
    <3> QED BY <3>4, Zenon DEF Channel!Next
  <2> QED BY <2>2, <2>3, <2>4
<1>7. CASE Complete \/ GiveUp
  BY <1>7, FinishIsProceed DEF Complete, GiveUp
<1>8. CASE \/ \E m \in net : Lose(m)
           \/ EndSession \/ StartSession \/ UNCHANGED vars
  <2>1. UNCHANGED <<asked, slotOf, value, heard, block, waiting, pending, got, badBlock>>
    BY <1>8 DEF Lose, EndSession, StartSession, vars
  <2>2. Kept' = Kept /\ Phase' = Phase BY <2>1 DEF Kept, Remembered, Phase
  <2> QED BY <2>1, <2>2, ChannelSilent
<1>9. CASE \E m \in net : Receive(m)
  BY <1>9, ReceiveIsHear
<1> QED BY <1>1, <1>2, <1>3, <1>5, <1>6, <1>7, <1>8, <1>9 DEF Next, Send

\* For any number of observers, slots, blocks and tokens, what observers hear and
\* downloads are given is a behaviour of Channels: sessions, tokens that are drawn
\* again, late and lost datagrams cannot be told from it.
THEOREM ChannelRefinement == Spec => ImplementsChannels
<1>1. Init => Channel!Init
  <2> SUFFICES ASSUME Init PROVE Channel!Init
    OBVIOUS
  <2>1. Kept = {} BY Parties DEF Init, Kept, Remembered
  <2>2. Phase = "idle" BY DEF Init, Phase
  <2>3. [o \in Observer |-> HeardBy(o)] = [o \in Observer |-> {}] BY DEF Init, HeardBy
  <2> QED BY <2>1, <2>2, <2>3 DEF Init, Channel!Init
<1>2. Init => SourceInv
  <2>1. Init => Len(queue) = 0 BY EmptySeq DEF Init
  <2> QED BY <2>1 DEF Init, SourceInv
<1>3. Inv /\ Inv' /\ SourceInv /\ [Next]_vars => SourceInv'
  BY SourceStep
<1>4. Inv /\ Inv' /\ SourceInv /\ [Next]_vars => [Channel!Next]_(Channel!channelVars)
  BY ChannelStep
<1> QED BY <1>1, <1>2, <1>3, <1>4, SessionInvariant, PTL
  DEF Spec, ImplementsChannels, Channel!Spec

\* Channels is honest: whoever hears a value has asked and is kept, what is heard is
\* what the path has or had, and only a network that delivers twice confuses blocks.
THEOREM ChannelHonest == Channel!Spec => []Channel!Honest
<1> DEFINE Sound == Channel!Honest /\ value \in [Observer -> Nat]
<1>1. Channel!Init => Sound
  BY DEF Channel!Init, Channel!Honest
<1>2. ASSUME Sound, [Channel!Next]_(Channel!channelVars) PROVE Sound'
  <2> USE <1>2 DEF Channel!Honest, Channel!observerVars, Channel!downloadVars
  <2>1. CASE \E o \in Observer : Channel!Ask(o) \/ Channel!Keep(o)
    BY <2>1 DEF Channel!Ask, Channel!Keep
  <2>2. CASE \E o \in Observer : Channel!Change(o)
    BY <2>2 DEF Channel!Change
  <2>3. CASE \E o \in Observer : Channel!Hear(o)
    <3> DEFINE H == [o \in Observer |-> HeardBy(o)]
    <3>1. PICK o \in Observer : Channel!Hear(o) BY <2>3
    <3>2. PICK v \in 0..value[o] : H' = [H EXCEPT ![o] = H[o] \cup {v}]
      BY <3>1, Zenon DEF Channel!Hear
    <3>3. UNCHANGED <<asked, Kept, value, Channel!downloadVars>> /\ o \in Kept
      BY <3>1 DEF Channel!Hear
    <3>4. \A p \in Observer : H'[p] = IF p = o THEN H[p] \cup {v} ELSE H[p]
      BY <3>2
    <3> HIDE DEF H
    <3>5. \A p \in Observer : H'[p] \subseteq 0..value'[p] /\ (H'[p] # {} => p \in Kept')
      BY <3>3, <3>4 DEF H
    <3> QED BY <3>3, <3>5 DEF H
  <2>4. CASE Channel!AskBlock \/ Channel!Proceed \/ Channel!Retry
    BY <2>4 DEF Channel!AskBlock, Channel!Proceed, Channel!Retry
  <2>5. CASE Channel!GiveBlock
    BY <2>5 DEF Channel!GiveBlock
  <2>6. CASE UNCHANGED Channel!channelVars
    BY <2>6 DEF Channel!channelVars
  <2> QED BY <2>1, <2>2, <2>3, <2>4, <2>5, <2>6 DEF Channel!Next
<1>3. Sound => Channel!Honest
  OBVIOUS
<1> QED BY <1>1, <1>2, <1>3, PTL DEF Channel!Spec
=============================================================================
