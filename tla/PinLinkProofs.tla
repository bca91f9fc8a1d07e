---------------------------- MODULE PinLinkProofs ----------------------------
(***************************************************************************)
(* What the link between the owner of the pins and the rest of the cabinet *)
(* keeps, proved for any number of alerts, connections and messages on     *)
(* their way.                                                              *)
(*                                                                         *)
(* An alert that is up is told by the first message that carries its       *)
(* identity, or it is in torn; the three threads of the owner, each with a *)
(* message half made in its hand, can break that only by sealing a state   *)
(* of before the alert with its identity.  That an alert is announced once *)
(* is a fact about order: identities leave and arrive in the order of the  *)
(* alerts until one is sent behind a newer one.                            *)
(***************************************************************************)
EXTENDS PinLink, TLAPS

-----------------------------------------------------------------------------
\* The inductive invariant.

\* Identities follow the alerts: none is anywhere before it is minted.
IdsAreMinted ==
  /\ episode = IF at["reflex"] = "mint" THEN rises - 1 ELSE rises
  /\ (latch \/ at["reflex"] = "mint") => rises > 0
  /\ delivered <= episode /\ newest <= episode
  /\ \A i \in DOMAIN queue : queue[i].id <= episode
  /\ \A p \in Pushers : hand[p].id <= episode /\ hand[p].rises <= rises

\* The reader lives with its connection, and pushes to it.
ReaderIsConnected ==
  /\ ~up => session < MaxInputs
  /\ at["reader"] # "idle" => up
  /\ up /\ at["reader"] # "subscribe" => subscribed
  /\ at["reader"] \in {"seal", "send"} => hand["reader"].to = session

\* A state without the latch, in the hand of a thread while an alert is up, is of before
\* the alert; once it carries its identity, the alert is torn.
HandsAreOld ==
  latch => \A p \in Pushers :
    /\ at[p] = "seal" => hand[p].latch \/ hand[p].rises < rises
    /\ at[p] = "send" /\ hand[p].id = rises => hand[p].latch \/ rises \in torn

Tells(m) == m.id = rises /\ (m.kind = "rise" \/ (m.kind = "state" /\ m.latch))
OnItsWay == \E i \in DOMAIN queue : Tells(queue[i])
Known == got[rises] > 0 \/ rises \in torn

\* Nothing brings the identity of an alert that is up before a message that tells it.
ToldFirst ==
  latch /\ ~Known =>
    /\ delivered # rises
    /\ \A i \in DOMAIN queue : queue[i].id = rises => \E j \in 1..i : Tells(queue[j])
    /\ said /\ at["reflex"] # "mint" => OnItsWay

\* While there is a subscriber, an alert that has been sent is known or will be: the
\* message is on its way or the reader is about to push the state.
TellingIsOwed ==
  latch /\ subscribed /\ at["reflex"] \notin {"mint", "rise"} =>
    \/ Known \/ OnItsWay
    \/ at["reader"] \in {"look", "seal"}
    \/ at["reader"] = "send" /\ hand["reader"].id = rises

\* Until something is sent behind a newer identity, identities arrive in order and none
\* beyond the last delivered has been announced.
InOrder ==
  ~behind =>
    /\ delivered <= newest
    /\ \A i \in DOMAIN queue :
         /\ delivered <= queue[i].id /\ queue[i].id <= newest
         /\ \A j \in 1..i : queue[j].id <= queue[i].id
    /\ \A n \in Ids : got[n] <= 1 /\ (got[n] > 0 => n <= delivered)

IInv ==
  /\ TypeOK /\ IdsAreMinted /\ ReaderIsConnected
  /\ HandsAreOld /\ ToldFirst /\ TellingIsOwed /\ InOrder

-----------------------------------------------------------------------------
\* Sequences, one message at a time.

\* The queue with a message more.
LEMMA Appended ==
  ASSUME NEW q \in Seq(Message), NEW m \in Message
  PROVE  /\ Append(q, m) \in Seq(Message) /\ Len(Append(q, m)) = Len(q) + 1
         /\ DOMAIN q = 1..Len(q) /\ DOMAIN Append(q, m) = 1..(Len(q) + 1) /\ Len(q) \in Nat
         /\ \A i \in 1..Len(q) : Append(q, m)[i] = q[i]
         /\ Append(q, m)[Len(q) + 1] = m
  OBVIOUS

\* The queue without its first message.
LEMMA Tailed ==
  ASSUME NEW q \in Seq(Message), q # <<>>
  PROVE  /\ Tail(q) \in Seq(Message) /\ Len(Tail(q)) = Len(q) - 1
         /\ DOMAIN q = 1..Len(q) /\ DOMAIN Tail(q) = 1..(Len(q) - 1) /\ Len(q) \in Nat \ {0}
         /\ \A i \in 1..(Len(q) - 1) : Tail(q)[i] = q[i + 1]
         /\ Head(q) = q[1] /\ q[1] \in Message
  OBVIOUS

\* What the messages are.
LEMMA Messages ==
  ASSUME NEW m \in Message
  PROVE  /\ m.id \in Nat /\ m.id <= MaxRises /\ m.kind \in {"state", "rise", "other"}
         /\ m.kind = "state" => m.latch \in BOOLEAN
  BY BoundsAssumption DEF Message, Ids

\* The empty queue.
LEMMA Emptied == <<>> \in Seq(Message) /\ Len(<<>>) = 0 /\ DOMAIN <<>> = {}
  OBVIOUS

\* What the threads have in their hands.
Hand == [latch : BOOLEAN, rises : 0..MaxRises, id : 0..MaxRises, to : 0..MaxInputs]

\* What the threads of the owner have in their hands.
LEMMA Hands ==
  ASSUME TypeOK
  PROVE  /\ hand \in [Pushers -> Hand]
         /\ \A p \in Pushers : /\ hand[p] \in Hand /\ hand[p].latch \in BOOLEAN
                               /\ hand[p].rises \in Nat /\ hand[p].id \in Nat
  BY BoundsAssumption DEF TypeOK, Hand

\* What the variables are, as the steps use it.
Places == {"idle", "leaving", "subscribe", "mint", "rise", "other", "look", "seal", "send"}

Shapes ==
  /\ MaxRises \in Nat /\ rises \in Nat /\ episode \in Nat /\ delivered \in Nat
  /\ newest \in Nat /\ session \in Nat
  /\ episode <= rises /\ rises <= MaxRises /\ newest <= MaxRises /\ delivered <= MaxRises
  /\ got \in [1..MaxRises -> Nat] /\ torn \subseteq 1..MaxRises
  /\ latch \in BOOLEAN /\ said \in BOOLEAN /\ behind \in BOOLEAN /\ subscribed \in BOOLEAN
  /\ Len(queue) \in Nat /\ DOMAIN queue = 1..Len(queue)
  /\ \A i \in 1..Len(queue) : queue[i] \in Message /\ queue[i].id \in Nat
  /\ at \in [Pushers -> Places] /\ hand \in [Pushers -> Hand]
  /\ \A p \in Pushers :
       /\ hand[p].latch \in BOOLEAN /\ hand[p].rises \in Nat
       /\ hand[p].id \in Nat /\ hand[p].id <= MaxRises

\* The shapes of the state, as the steps need them.
LEMMA ShapesAre == TypeOK => Shapes
<1> SUFFICES ASSUME TypeOK PROVE Shapes
  OBVIOUS
<1>1. queue \in Seq(Message) /\ Len(queue) \in Nat /\ DOMAIN queue = 1..Len(queue)
  BY DEF TypeOK
<1>2. \A i \in 1..Len(queue) : queue[i] \in Message
  BY <1>1
<1>3. \A i \in 1..Len(queue) : queue[i] \in Message /\ queue[i].id \in Nat
  BY <1>2, Messages
<1>4. hand \in [Pushers -> Hand]
  BY Hands
<1>5. \A p \in Pushers :
        /\ hand[p].latch \in BOOLEAN /\ hand[p].rises \in Nat
        /\ hand[p].id \in Nat /\ hand[p].id <= MaxRises
  BY <1>4, BoundsAssumption DEF Hand
<1>6. at \in [Pushers -> Places]
  BY DEF TypeOK, Places
<1>7. /\ MaxRises \in Nat /\ rises \in Nat /\ episode \in Nat /\ delivered \in Nat
      /\ newest \in Nat /\ session \in Nat
      /\ episode <= rises /\ rises <= MaxRises /\ newest <= MaxRises /\ delivered <= MaxRises
      /\ got \in [1..MaxRises -> Nat] /\ torn \subseteq 1..MaxRises
      /\ latch \in BOOLEAN /\ said \in BOOLEAN /\ behind \in BOOLEAN /\ subscribed \in BOOLEAN
  BY BoundsAssumption DEF TypeOK, Ids
<1>8. QED
  BY <1>1, <1>3, <1>4, <1>5, <1>6, <1>7 DEF Shapes

-----------------------------------------------------------------------------
\* The steps.

\* Before the first alert there is nothing to tell.
LEMMA Begins == Init => IInv
<1> SUFFICES ASSUME Init PROVE IInv
  OBVIOUS
<1>1. /\ hand \in [Pushers -> Hand]
      /\ \A p \in Pushers : hand[p].id = 0 /\ hand[p].rises = 0
  BY BoundsAssumption DEF Init, Hand, NoHand
<1>2. at \in [Pushers -> Places] /\ \A p \in Pushers : at[p] = "idle"
  BY DEF Init, Places
<1>3. got \in [Ids -> Nat] /\ \A n \in Ids : got[n] = 0
  BY DEF Init
<1>4. rises = 0 /\ episode = 0 /\ other = 0 /\ session = 0 /\ newest = 0 /\ delivered = 0
  BY DEF Init
<1>5. latch = FALSE /\ up = FALSE /\ subscribed = FALSE /\ torn = {}
  BY DEF Init
<1>6. queue \in Seq(Message) /\ Len(queue) = 0 /\ DOMAIN queue = {}
  BY DEF Init
<1>7. TypeOK
  <2>1. /\ rises \in 0..MaxRises /\ episode \in 0..rises /\ newest \in 0..MaxRises
        /\ other \in 0..MaxInputs /\ session \in 0..MaxInputs /\ Len(queue) <= MaxQueue
    BY <1>4, <1>6, BoundsAssumption
  <2>2. /\ behind \in BOOLEAN /\ said \in BOOLEAN /\ mute \in BOOLEAN
        /\ cache \in {{}, {TRUE}, {FALSE}}
    BY DEF Init
  <2>3. QED
    BY <1>1, <1>2, <1>3, <1>4, <1>5, <1>6, <2>1, <2>2 DEF TypeOK, Hand
<1>8. IdsAreMinted /\ ReaderIsConnected
  BY <1>1, <1>2, <1>4, <1>5, <1>6, BoundsAssumption DEF IdsAreMinted, ReaderIsConnected, Pushers
<1>9. InOrder
  BY <1>3, <1>4, <1>6 DEF InOrder
<1>10. QED
  BY <1>5, <1>7, <1>8, <1>9 DEF IInv, HandsAreOld, ToldFirst, TellingIsOwed

\* A new alert is not told yet, and no identity of its own is anywhere.
LEMMA RiseStep ==
  ASSUME IInv, Rise
  PROVE  IInv'
<1> USE DEF IInv
<1>0. Shapes
  BY ShapesAre
<1>1. /\ latch' = TRUE /\ rises' = rises + 1 /\ rises < MaxRises
      /\ UNCHANGED <<episode, other, hand, subscribed, cache, delivered, got>>
      /\ UNCHANGED <<up, session, queue, newest, behind, torn, said, mute>>
  BY DEF Rise, clientVars, linkVars, history
<1>2. /\ at["reflex"] = "idle" /\ at'["reflex"] = "mint" /\ at' \in [Pushers -> Places]
      /\ \A p \in Pushers \ {"reflex"} : at'[p] = at[p]
  BY <1>0 DEF Rise, Goto, Shapes, Pushers, Places
<1>3. episode = rises /\ rises \in Nat
  BY <1>0, <1>2 DEF IdsAreMinted, Shapes
<1>4. TypeOK'
  <2>1. rises' \in 0..MaxRises /\ episode' \in 0..rises'
    BY <1>0, <1>1, <1>3 DEF Shapes
  <2>2. QED
    BY <1>1, <1>2, <2>1 DEF TypeOK, Places
<1>5. IdsAreMinted'
  <2>1. episode' = rises' - 1 /\ rises' > 0
    BY <1>1, <1>3
  <2>2. \A p \in Pushers : hand'[p].id <= episode' /\ hand'[p].rises <= rises'
    BY <1>0, <1>1 DEF IdsAreMinted, Shapes
  <2>3. /\ delivered' <= episode' /\ newest' <= episode'
        /\ \A i \in DOMAIN queue' : queue'[i].id <= episode'
    BY <1>1 DEF IdsAreMinted
  <2>4. QED
    BY <1>2, <2>1, <2>2, <2>3 DEF IdsAreMinted
<1>6. ReaderIsConnected'
  BY <1>1, <1>2 DEF ReaderIsConnected, Pushers
<1>7. HandsAreOld'
  <2>1. \A p \in Pushers : hand[p].rises < rises' /\ hand[p].id # rises'
    BY <1>0, <1>1, <1>3 DEF IdsAreMinted, Shapes
  <2>2. QED
    BY <1>1, <2>1 DEF HandsAreOld
<1>8. ToldFirst'
  <2>1. delivered' # rises' /\ \A i \in DOMAIN queue : queue[i].id # rises'
    BY <1>0, <1>1, <1>3 DEF IdsAreMinted, Shapes
  <2>2. QED
    BY <1>1, <1>2, <2>1 DEF ToldFirst
<1>9. TellingIsOwed'
  BY <1>2 DEF TellingIsOwed
<1>10. InOrder'
  BY <1>1 DEF InOrder
<1>11. QED
  BY <1>4, <1>5, <1>6, <1>7, <1>8, <1>9, <1>10

\* The other inputs of the receiver tell of no alert.
LEMMA OpenOrTestStep ==
  ASSUME IInv, OpenOrTest
  PROVE  IInv'
<1> USE BoundsAssumption DEF IInv, ownerVars, serverVars, clientVars, linkVars, history
<1>1. TypeOK'
  <2>1. other' \in 0..MaxInputs
    BY DEF OpenOrTest, TypeOK, IdsAreMinted, ReaderIsConnected, Goto, Budget, Ids
  <2>2. at' \in [Pushers -> {"idle", "leaving", "subscribe", "mint", "rise", "other",
                              "look", "seal", "send"}]
    BY DEF OpenOrTest, TypeOK, Goto
  <2>3. QED
    BY <2>1, <2>2 DEF OpenOrTest, TypeOK
<1>2. IdsAreMinted'
  BY DEF OpenOrTest, IdsAreMinted, Goto
<1>3. ReaderIsConnected'
  BY DEF OpenOrTest, ReaderIsConnected, Goto
<1>4. HandsAreOld'
  BY DEF OpenOrTest, HandsAreOld, Goto
<1>5. ToldFirst'
  BY DEF OpenOrTest, ToldFirst, OnItsWay, Known, Tells
<1>6. TellingIsOwed'
  BY DEF OpenOrTest, TellingIsOwed, OnItsWay, Known, Tells, Goto
<1>7. InOrder'
  BY DEF OpenOrTest, InOrder
<1>8. QED
  BY <1>1, <1>2, <1>3, <1>4, <1>5, <1>6, <1>7

\* The identity of the alert is minted before anything carries it.
LEMMA MintStep ==
  ASSUME IInv, Mint
  PROVE  IInv'
<1> USE BoundsAssumption DEF IInv, ownerVars, serverVars, clientVars, linkVars, history
<1>1. TypeOK'
  <2>1. rises' \in 0..MaxRises /\ episode' \in 0..rises'
    BY DEF Mint, TypeOK
  <2>2. at' \in [Pushers -> {"idle", "leaving", "subscribe", "mint", "rise", "other",
                              "look", "seal", "send"}]
    BY DEF Mint, TypeOK, Goto
  <2>4. QED
    BY <2>1, <2>2 DEF Mint, TypeOK
<1>2. IdsAreMinted'
  <2>1. episode' = rises /\ at'["reflex"] = "rise" /\ episode <= rises
    BY DEF Mint, Goto, TypeOK, Pushers
  <2>2. UNCHANGED <<latch, rises, delivered, newest, queue, hand>>
    BY DEF Mint
  <2>3. Shapes
    BY ShapesAre
  <2>4. /\ delivered' <= rises /\ newest' <= rises
        /\ \A i \in DOMAIN queue' : queue'[i].id <= rises
    BY <2>1, <2>2, <2>3 DEF IdsAreMinted, Shapes
  <2>5. \A p \in Pushers : hand'[p].id <= rises /\ hand'[p].rises <= rises
    BY <2>1, <2>2, <2>3 DEF IdsAreMinted, Shapes
  <2>6. latch' => rises' > 0
    BY <2>2 DEF IdsAreMinted
  <2>7. QED
    BY <2>1, <2>2, <2>4, <2>5, <2>6 DEF IdsAreMinted
<1>3. ReaderIsConnected'
  BY DEF Mint, ReaderIsConnected, Goto
<1>4. HandsAreOld'
  BY DEF Mint, HandsAreOld, Goto
<1>5. ToldFirst'
  BY DEF Mint, ToldFirst, Known, Tells
<1>6. TellingIsOwed'
  BY DEF Mint, TellingIsOwed, Goto
<1>7. InOrder'
  BY DEF Mint, InOrder
<1>8. QED
  BY <1>1, <1>2, <1>3, <1>4, <1>5, <1>6, <1>7

\* A message more on its way, told from the point of view of the invariant.
LEMMA Grown ==
  ASSUME TypeOK, NEW m \in Message, queue' = Append(queue, m), Len(queue) < MaxQueue,
         rises' = rises
  PROVE  /\ queue' \in Seq(Message) /\ Len(queue') <= MaxQueue
         /\ DOMAIN queue' = DOMAIN queue \cup {Len(queue) + 1}
         /\ DOMAIN queue' \subseteq Nat
         /\ \A i \in DOMAIN queue : i < Len(queue) + 1 /\ queue'[i] = queue[i]
         /\ queue'[Len(queue) + 1] = m
         /\ OnItsWay \/ Tells(m) => OnItsWay'
<1>1. /\ queue \in Seq(Message) /\ MaxQueue \in Nat
  BY BoundsAssumption DEF TypeOK
<1>3. /\ queue' \in Seq(Message) /\ Len(queue') <= MaxQueue
  BY <1>1
<1>5. OnItsWay \/ Tells(m) => OnItsWay'
  BY DEF OnItsWay, Tells
<1>6. QED
  BY <1>3, <1>5

\* The event is sent first to whoever is subscribed: it tells the alert.
LEMMA SendEventStep ==
  ASSUME IInv, SendEvent
  PROVE  IInv'
<1> USE DEF IInv
<1>0. Shapes
  BY ShapesAre
<1> DEFINE m == [kind |-> at["reflex"], id |-> episode]
           last == Len(queue) + 1
<1>1. /\ at["reflex"] \in {"rise", "other"} /\ at' = [at EXCEPT !["reflex"] = "look"]
      /\ UNCHANGED <<latch, rises, episode, other, hand, up, subscribed, session>>
      /\ UNCHANGED <<cache, delivered, got, behind, mute>>
  BY DEF SendEvent, Goto, ownerVars, clientVars
<1>2. episode = rises /\ m \in Message /\ m.id = episode /\ m.kind = at["reflex"]
  BY <1>0, <1>1 DEF IdsAreMinted, Shapes, Message, Ids
<1>4. CASE subscribed
  <2>1. /\ queue' = Append(queue, m) /\ Len(queue) < MaxQueue
        /\ newest' = episode /\ said' = TRUE
        /\ torn' = IF at["reflex"] = "other" /\ ~said /\ episode \notin {0, delivered}
                     THEN torn \cup {episode} ELSE torn
    BY <1>4 DEF SendEvent
  <2>2. /\ queue' \in Seq(Message) /\ Len(queue') <= MaxQueue
        /\ DOMAIN queue' = DOMAIN queue \cup {last} /\ DOMAIN queue' \subseteq Nat
        /\ \A i \in DOMAIN queue : i < last /\ queue'[i] = queue[i]
        /\ queue'[last] = m
        /\ OnItsWay \/ Tells(m) => OnItsWay'
    BY <1>1, <1>2, <2>1, Grown
  <2>3. torn \subseteq torn' /\ torn' \subseteq Ids /\ newest' \in 0..MaxRises
    BY <1>0, <2>1 DEF Shapes, Ids
  <2>4. TypeOK'
    BY <1>1, <2>1, <2>2, <2>3 DEF TypeOK
  <2>5. IdsAreMinted'
    <3>1. \A i \in DOMAIN queue' : queue'[i].id <= episode
      BY <1>0, <1>2, <2>2 DEF IdsAreMinted, Shapes
    <3>2. newest' <= episode /\ at["reflex"] # "mint" /\ at'["reflex"] # "mint"
      BY <1>0, <1>1, <2>1 DEF Shapes, Pushers
    <3>3. QED
      BY <1>1, <3>1, <3>2 DEF IdsAreMinted
  <2>6. ReaderIsConnected'
    BY <1>1 DEF ReaderIsConnected
  <2>7. HandsAreOld'
    BY <1>1, <2>3 DEF HandsAreOld
  <2>8. latch /\ ~Known' => ~Known /\ OnItsWay'
    <3>1. ~Known' => ~Known
      BY <1>1, <2>3 DEF Known
    <3>2. latch /\ ~Known' /\ at["reflex"] = "rise" => Tells(m)
      BY <1>2 DEF Tells
    <3>3. latch /\ ~Known' /\ at["reflex"] = "other" => OnItsWay
      BY <1>1, <2>1 DEF Known, ToldFirst, IdsAreMinted
    <3>4. QED
      BY <1>1, <2>2, <3>1, <3>2, <3>3
  <2>9. ToldFirst'
    <3> SUFFICES ASSUME latch, ~Known'
                 PROVE  /\ delivered # rises
                        /\ \A i \in DOMAIN queue' : queue'[i].id = rises
                             => \E j \in 1..i : Tells(queue'[j])
                        /\ OnItsWay'
      BY <1>1 DEF ToldFirst, Tells
    <3>1. ~Known /\ OnItsWay' /\ delivered # rises
      BY <2>8 DEF ToldFirst
    <3>2. ASSUME NEW i \in DOMAIN queue, queue[i].id = rises
          PROVE  \E j \in 1..i : Tells(queue'[j])
      <4>1. PICK j \in 1..i : Tells(queue[j])
        BY <3>1, <3>2 DEF ToldFirst
      <4>2. DOMAIN queue = 1..Len(queue) /\ Len(queue) \in Nat
        BY <1>0 DEF Shapes
      <4>3. j \in DOMAIN queue
        BY <4>2
      <4>4. queue'[j] = queue[j]
        BY <2>2, <4>3
      <4>5. QED
        BY <4>1, <4>4
    <3>3. \E j \in 1..last : Tells(queue'[j])
      BY <1>1, <2>2, <3>1 DEF OnItsWay, Tells
    <3>4. QED
      BY <2>2, <3>1, <3>2, <3>3
  <2>10. TellingIsOwed'
    BY <1>1, <2>8 DEF TellingIsOwed
  <2>11. InOrder'
    BY <1>1, <1>2, <2>1, <2>2 DEF InOrder, IdsAreMinted, Shapes
  <2>12. QED
    BY <2>4, <2>5, <2>6, <2>7, <2>9, <2>10, <2>11
<1>5. CASE ~subscribed
  <2>1. UNCHANGED <<queue, newest, said, torn>>
    BY <1>5 DEF SendEvent
  <2>2. TypeOK'
    BY <1>1, <2>1 DEF TypeOK
  <2>3. (IdsAreMinted /\ ReaderIsConnected)'
    BY <1>1, <2>1 DEF IdsAreMinted, ReaderIsConnected
  <2>4. (HandsAreOld /\ ToldFirst /\ InOrder)'
    BY <1>1, <2>1 DEF HandsAreOld, ToldFirst, InOrder, OnItsWay, Tells, Known
  <2>5. TellingIsOwed'
    BY <1>1, <1>5 DEF TellingIsOwed
  <2>6. QED
    BY <2>2, <2>3, <2>4, <2>5
<1>6. QED
  BY <1>4, <1>5

\* A snapshot taken with the alert up has the latch.
LEMMA LookStep ==
  ASSUME IInv, NEW p \in Pushers, Look(p)
  PROVE  IInv'
<1> USE DEF IInv
<1>0. Shapes
  BY ShapesAre
<1> DEFINE h == [latch |-> latch, rises |-> rises, id |-> 0,
                 to |-> IF p = "emitter" THEN 0 ELSE session]
<1>1. /\ UNCHANGED <<latch, rises, episode, other, subscribed, cache, delivered, got>>
      /\ UNCHANGED <<up, session, queue, newest, behind, torn, said, mute>>
  BY DEF Look, ownerVars, clientVars, linkVars, history
<1>2. /\ at[p] = "look" /\ at' \in [Pushers -> Places]
      /\ \A q \in Pushers \ {p} : at'[q] = at[q]
      /\ at'[p] \in {"idle", "leaving", "seal"} /\ (at'[p] = "seal" <=> subscribed)
  BY <1>0 DEF Look, Goto, Shapes, Places
<1>3. h \in Hand /\ h.latch = latch /\ h.rises = rises /\ h.id = 0
  <2>1. session \in 0..MaxInputs /\ 0 \in 0..MaxInputs
    BY BoundsAssumption DEF TypeOK
  <2>2. QED
    BY <1>0, <2>1 DEF Hand, Shapes
<1>4. /\ hand' \in [Pushers -> Hand] /\ \A q \in Pushers \ {p} : hand'[q] = hand[q]
      /\ hand'[p] = IF subscribed THEN h ELSE hand[p]
  BY <1>0, <1>3 DEF Look, Shapes
<1>5. TypeOK'
  BY <1>1, <1>2, <1>4 DEF TypeOK, Hand, Places
<1>6. IdsAreMinted'
  <2>1. \A q \in Pushers : hand'[q].id <= episode /\ hand'[q].rises <= rises
    BY <1>0, <1>4 DEF IdsAreMinted, Shapes
  <2>2. at'["reflex"] = "mint" <=> at["reflex"] = "mint"
    BY <1>2 DEF Pushers
  <2>3. QED
    BY <1>1, <2>1, <2>2 DEF IdsAreMinted
<1>7. ReaderIsConnected'
  BY <1>1, <1>2, <1>4 DEF ReaderIsConnected, Pushers
<1>8. HandsAreOld'
  BY <1>1, <1>2, <1>4 DEF HandsAreOld
<1>9. (ToldFirst /\ InOrder)'
  BY <1>1, <1>2 DEF ToldFirst, InOrder, OnItsWay, Tells, Known, Pushers
<1>10. TellingIsOwed'
  BY <1>1, <1>2, <1>4 DEF TellingIsOwed, OnItsWay, Tells, Known, Pushers
<1>11. QED
  BY <1>5, <1>6, <1>7, <1>8, <1>9, <1>10

\* A seal adds the identity of now; on a snapshot of before the alert, it tears it.
LEMMA SealStep ==
  ASSUME IInv, NEW p \in Pushers, Seal(p)
  PROVE  IInv'
<1> USE DEF IInv
<1>0. Shapes
  BY ShapesAre
<1> DEFINE h == [hand[p] EXCEPT !.id = episode, !.rises = 0]
<1>1. /\ UNCHANGED <<latch, rises, episode, other, subscribed, cache, delivered, got>>
      /\ UNCHANGED <<up, session, queue, newest, behind, said, mute>>
      /\ torn' = IF ~hand[p].latch /\ episode > hand[p].rises THEN torn \cup {episode} ELSE torn
  BY DEF Seal, ownerVars, clientVars, linkVars
<1>2. /\ at[p] = "seal" /\ at' \in [Pushers -> Places] /\ at'[p] = "send"
      /\ \A q \in Pushers \ {p} : at'[q] = at[q]
  BY <1>0 DEF Seal, Goto, Shapes, Places
<1>3. /\ h \in Hand /\ h.latch = hand[p].latch /\ h.rises = 0 /\ h.id = episode
      /\ h.to = hand[p].to
  <2>1. hand[p] \in Hand /\ episode \in 0..MaxRises /\ 0 \in 0..MaxRises
    BY <1>0 DEF Shapes
  <2>2. QED
    BY <2>1 DEF Hand
<1>4. hand' \in [Pushers -> Hand] /\ hand' = [hand EXCEPT ![p] = h]
  BY <1>0, <1>3 DEF Seal, Shapes
<1>5. torn \subseteq torn' /\ torn' \subseteq Ids
  BY <1>0, <1>1 DEF Ids, Shapes
<1>6. TypeOK'
  BY <1>1, <1>2, <1>4, <1>5 DEF TypeOK, Hand
<1>7. IdsAreMinted'
  <2>1. \A q \in Pushers : hand'[q].id <= episode /\ hand'[q].rises <= rises
    BY <1>0, <1>4 DEF IdsAreMinted, Shapes
  <2>2. at'["reflex"] = "mint" <=> at["reflex"] = "mint"
    BY <1>2 DEF Pushers
  <2>3. QED
    BY <1>1, <2>1, <2>2 DEF IdsAreMinted
<1>8. ReaderIsConnected'
  BY <1>1, <1>2, <1>4 DEF ReaderIsConnected, Pushers
<1>9. HandsAreOld'
  <2> SUFFICES ASSUME latch, NEW q \in Pushers
               PROVE  /\ at'[q] = "seal" => hand'[q].latch \/ hand'[q].rises < rises
                      /\ at'[q] = "send" /\ hand'[q].id = rises => hand'[q].latch \/ rises \in torn'
    BY <1>1 DEF HandsAreOld
  <2>1. CASE q = p
    BY <1>1, <1>2, <1>4 DEF HandsAreOld
  <2>2. CASE q # p
    BY <1>2, <1>4, <1>5, <2>2 DEF HandsAreOld
  <2>3. QED
    BY <2>1, <2>2
<1>10. (ToldFirst /\ InOrder)'
  BY <1>1, <1>2 DEF ToldFirst, InOrder, OnItsWay, Tells, Known, Pushers
<1>11. TellingIsOwed'
  <2>1. at'["reflex"] \notin {"mint", "rise"} =>
          at["reflex"] \notin {"mint", "rise"} /\ episode = rises
    BY <1>2 DEF IdsAreMinted, Pushers
  <2>2. /\ at'["reader"] # at["reader"] => at'["reader"] = "send" /\ hand'["reader"].id = episode
        /\ at'["reader"] = at["reader"] => hand'["reader"] = hand["reader"]
    BY <1>2, <1>4 DEF Pushers
  <2>3. QED
    BY <1>1, <2>1, <2>2 DEF TellingIsOwed, OnItsWay, Tells, Known
<1>12. QED
  BY <1>6, <1>7, <1>8, <1>9, <1>10, <1>11

\* What is sent keeps the order of identities, unless it is sent behind a newer one.
LEMMA SendStep ==
  ASSUME IInv, NEW p \in Pushers, Send(p)
  PROVE  IInv'
<1> USE DEF IInv
<1>0. Shapes
  BY ShapesAre
<1> DEFINE m == [kind |-> "state", latch |-> hand[p].latch, id |-> hand[p].id]
           last == Len(queue) + 1
           sends == subscribed /\ (p = "emitter" \/ hand[p].to = session)
<1>1. /\ UNCHANGED <<latch, rises, episode, other, subscribed, cache, delivered, got>>
      /\ UNCHANGED <<up, session, torn, mute>>
  BY DEF Send, ownerVars, clientVars
<1>2. /\ at[p] = "send" /\ at' \in [Pushers -> Places]
      /\ at'[p] \in {"look", "idle"} /\ (p # "emitter" => at'[p] = "idle")
      /\ \A q \in Pushers \ {p} : at'[q] = at[q]
  BY <1>0 DEF Send, Goto, Rest, Shapes, Places
<1>3. NoHand \in Hand /\ NoHand.id = 0 /\ NoHand.rises = 0
  BY BoundsAssumption DEF NoHand, Hand
<1>4. /\ hand' \in [Pushers -> Hand] /\ hand'[p] = NoHand
      /\ \A q \in Pushers \ {p} : hand'[q] = hand[q]
  BY <1>0, <1>3 DEF Send, Shapes
<1>5. m \in Message /\ m.id = hand[p].id /\ m.kind = "state" /\ m.latch = hand[p].latch
  BY <1>0 DEF Message, Ids, Shapes
<1>6. ReaderIsConnected'
  BY <1>1, <1>2, <1>4 DEF ReaderIsConnected, Pushers
<1>7. HandsAreOld'
  BY <1>1, <1>2, <1>4 DEF HandsAreOld
<1>8. \A q \in Pushers : hand'[q].id <= episode /\ hand'[q].rises <= rises
  BY <1>0, <1>3, <1>4 DEF IdsAreMinted, Shapes
<1>9. /\ at'["reflex"] = "mint" <=> at["reflex"] = "mint"
      /\ at'["reflex"] \notin {"mint", "rise"} => at["reflex"] \notin {"mint", "rise"}
  BY <1>2 DEF Pushers
<1>10. CASE sends
  <2>1. /\ queue' = Append(queue, m) /\ Len(queue) < MaxQueue
        /\ behind' = (behind \/ hand[p].id < newest)
        /\ newest' = IF hand[p].id > newest THEN hand[p].id ELSE newest
        /\ said' = (said \/ hand[p].id = episode)
    BY <1>10 DEF Send
  <2>2. /\ queue' \in Seq(Message) /\ Len(queue') <= MaxQueue
        /\ DOMAIN queue' = DOMAIN queue \cup {last} /\ DOMAIN queue' \subseteq Nat
        /\ \A i \in DOMAIN queue : i < last /\ queue'[i] = queue[i]
        /\ queue'[last] = m
        /\ OnItsWay \/ Tells(m) => OnItsWay'
    BY <1>1, <1>5, <2>1, Grown
  <2>3. /\ newest' \in 0..MaxRises /\ newest' <= episode /\ newest <= newest'
        /\ m.id <= episode /\ m.id <= newest'
    BY <1>0, <2>1 DEF IdsAreMinted, Shapes
  <2>4. behind' \in BOOLEAN /\ said' \in BOOLEAN
    BY <2>1
  <2>5. TypeOK'
    BY <1>1, <1>2, <1>4, <2>2, <2>3, <2>4 DEF TypeOK, Hand, Places
  <2>6. IdsAreMinted'
    BY <1>1, <1>8, <1>9, <2>2, <2>3 DEF IdsAreMinted
  <2>7. latch /\ ~Known /\ hand[p].id = rises => Tells(m)
    BY <1>2 DEF HandsAreOld, Known, Tells
  <2>8. Known' = Known
    BY <1>1 DEF Known
  <2>9. ToldFirst'
    <3> SUFFICES ASSUME latch, ~Known
                 PROVE  /\ delivered # rises
                        /\ \A i \in DOMAIN queue' : queue'[i].id = rises
                             => \E j \in 1..i : Tells(queue'[j])
                        /\ said' /\ at'["reflex"] # "mint" => OnItsWay'
      BY <1>1, <2>8 DEF ToldFirst, Tells
    <3>1. delivered # rises
      BY DEF ToldFirst
    <3>2. ASSUME NEW i \in DOMAIN queue, queue[i].id = rises
          PROVE  \E j \in 1..i : Tells(queue'[j])
      <4>1. PICK j \in 1..i : Tells(queue[j])
        BY <3>2 DEF ToldFirst
      <4>2. j \in DOMAIN queue
        BY <1>0 DEF Shapes
      <4>3. QED
        BY <2>2, <4>1, <4>2
    <3>3. m.id = rises => Tells(queue'[last]) /\ last \in 1..last
      BY <2>2, <2>7
    <3>4. said' /\ at'["reflex"] # "mint" => OnItsWay'
      BY <1>9, <2>1, <2>2, <2>7 DEF ToldFirst, IdsAreMinted
    <3>5. QED
      BY <2>2, <3>1, <3>2, <3>3, <3>4
  <2>10. TellingIsOwed'
    <3>1. at["reader"] \in {"look", "seal"} => at'["reader"] = at["reader"]
      BY <1>2 DEF Pushers
    <3>2. /\ p # "reader" => at'["reader"] = at["reader"] /\ hand'["reader"] = hand["reader"]
      BY <1>2, <1>4 DEF Pushers
    <3>3. latch /\ ~Known /\ p = "reader" /\ hand["reader"].id = rises => OnItsWay'
      BY <2>2, <2>7
    <3>4. QED
      BY <1>1, <1>9, <2>2, <2>8, <3>1, <3>2, <3>3 DEF TellingIsOwed
  <2>11. InOrder'
    <3> SUFFICES ASSUME ~behind'
                 PROVE  /\ delivered <= newest'
                        /\ \A i \in DOMAIN queue' :
                             /\ delivered <= queue'[i].id /\ queue'[i].id <= newest'
                             /\ \A j \in 1..i : queue'[j].id <= queue'[i].id
                        /\ \A n \in Ids : got[n] <= 1 /\ (got[n] > 0 => n <= delivered)
      BY <1>1 DEF InOrder
    <3>1. ~behind /\ ~(hand[p].id < newest)
      BY <2>1
    <3>2. newest <= m.id /\ newest' = m.id
      BY <1>0, <2>1, <3>1 DEF Shapes
    <3>3. \A i \in DOMAIN queue :
            /\ i \in DOMAIN queue' /\ queue'[i] = queue[i] /\ queue[i].id \in Nat
            /\ delivered <= queue[i].id /\ queue[i].id <= newest
            /\ \A j \in 1..i : j \in DOMAIN queue /\ queue[j].id <= queue[i].id
      BY <1>0, <2>2, <3>1 DEF InOrder, Shapes
    <3>4. ASSUME NEW i \in DOMAIN queue
          PROVE  /\ delivered <= queue'[i].id /\ queue'[i].id <= newest'
                 /\ \A j \in 1..i : queue'[j].id <= queue'[i].id
      <4>1. i \in DOMAIN queue /\ \A j \in 1..i : queue'[j] = queue[j] /\ queue[j].id <= queue[i].id
        BY <3>3
      <4>2. delivered <= queue[i].id /\ queue[i].id <= newest /\ queue[i].id \in Nat
        BY <3>3
      <4>3. /\ queue'[i] = queue[i] /\ delivered \in Nat /\ newest \in Nat /\ newest' \in Nat
            /\ newest <= newest'
        BY <1>0, <2>3, <3>3 DEF Shapes
      <4>4. QED
        BY <4>1, <4>2, <4>3
    <3>5. /\ delivered <= queue'[last].id /\ queue'[last].id <= newest'
          /\ \A j \in 1..last : queue'[j].id <= queue'[last].id
      <4>1. queue'[last].id = m.id /\ m.id \in Nat /\ delivered <= m.id
        BY <1>0, <2>2, <3>1 DEF InOrder, Shapes
      <4>2. \A j \in 1..last : j = last \/ j \in DOMAIN queue
        OBVIOUS
      <4>3. \A j \in DOMAIN queue : queue'[j].id <= m.id
        BY <1>0, <3>2, <3>3 DEF Shapes
      <4>4. QED
        BY <3>2, <4>1, <4>2, <4>3
    <3>6. QED
      BY <2>2, <3>1, <3>4, <3>5, <3>2 DEF InOrder
  <2>12. QED
    BY <1>6, <1>7, <2>5, <2>6, <2>9, <2>10, <2>11
<1>11. CASE ~sends
  <2>1. UNCHANGED <<queue, newest, behind, said>>
    BY <1>11 DEF Send
  <2>2. TypeOK'
    <3>1. hand' \in [Pushers -> [latch : BOOLEAN, rises : 0..MaxRises, id : 0..MaxRises,
                                 to : 0..MaxInputs]]
      BY <1>4 DEF Hand
    <3>2. QED
      BY <1>1, <1>2, <2>1, <3>1 DEF TypeOK, Places
  <2>3. IdsAreMinted'
    BY <1>1, <1>8, <1>9, <2>1 DEF IdsAreMinted
  <2>4. (ToldFirst /\ InOrder)'
    <3>1. Known' = Known /\ OnItsWay' = OnItsWay
      BY <1>1, <2>1 DEF Known, OnItsWay, Tells
    <3>2. ToldFirst'
      BY <1>1, <1>9, <2>1, <3>1 DEF ToldFirst, Tells
    <3>3. InOrder'
      BY <1>1, <2>1 DEF InOrder
    <3>4. QED
      BY <3>2, <3>3
  <2>5. subscribed => p # "reader"
    BY <1>2, <1>11 DEF ReaderIsConnected
  <2>6. TellingIsOwed'
    BY <1>1, <1>2, <1>4, <2>1, <2>5 DEF TellingIsOwed, OnItsWay, Tells, Known, Pushers
  <2>7. QED
    BY <1>6, <1>7, <2>2, <2>3, <2>4, <2>6
<1>12. QED
  BY <1>10, <1>11

\* The last turn of an emitter without subscribers.
LEMMA EmitterEndsStep ==
  ASSUME IInv, EmitterEnds
  PROVE  IInv'
<1> USE BoundsAssumption DEF IInv, ownerVars, serverVars, clientVars, linkVars, history
<1>1. TypeOK'
  BY DEF EmitterEnds, TypeOK, Goto
<1>2. IdsAreMinted'
  BY DEF EmitterEnds, IdsAreMinted, Goto
<1>3. ReaderIsConnected'
  BY DEF EmitterEnds, ReaderIsConnected, Goto
<1>4. HandsAreOld'
  BY DEF EmitterEnds, HandsAreOld, Goto
<1>5. ToldFirst'
  BY DEF EmitterEnds, ToldFirst, OnItsWay, Known, Tells, Goto
<1>6. TellingIsOwed'
  BY DEF EmitterEnds, TellingIsOwed, OnItsWay, Known, Tells, Goto
<1>7. InOrder'
  BY DEF EmitterEnds, InOrder
<1>8. QED
  BY <1>1, <1>2, <1>3, <1>4, <1>5, <1>6, <1>7

\* A new connection begins with nothing on its way.
LEMMA ConnectStep ==
  ASSUME IInv, Connect
  PROVE  IInv'
<1> USE BoundsAssumption DEF IInv, ownerVars, serverVars, clientVars, linkVars, history
<1>1. TypeOK'
  <2>1. at' \in [Pushers -> {"idle", "leaving", "subscribe", "mint", "rise", "other",
                              "look", "seal", "send"}]
    BY DEF Connect, TypeOK, Goto
  <2>2. session' \in 0..MaxInputs
    BY DEF Connect, TypeOK, IdsAreMinted, ReaderIsConnected, Goto, Ids
  <2>4. QED
    BY <2>1, <2>2 DEF Connect, TypeOK
<1>2. IdsAreMinted'
  BY DEF Connect, IdsAreMinted, Goto
<1>3. ReaderIsConnected'
  BY DEF Connect, ReaderIsConnected, TypeOK, Goto, Pushers
<1>4. HandsAreOld'
  BY DEF Connect, HandsAreOld, Goto
<1>5. ToldFirst'
  BY DEF Connect, ToldFirst, OnItsWay, Known, Tells, Goto
<1>6. TellingIsOwed'
  BY DEF Connect, TellingIsOwed, ReaderIsConnected, OnItsWay, Known, Tells, Goto
<1>7. InOrder'
  BY DEF Connect, InOrder
<1>8. QED
  BY <1>1, <1>2, <1>3, <1>4, <1>5, <1>6, <1>7

\* A subscription is followed by the push of the state.
LEMMA SubscribeStep ==
  ASSUME IInv, Subscribe
  PROVE  IInv'
<1> USE BoundsAssumption DEF IInv, ownerVars, serverVars, clientVars, linkVars, history
<1>1. TypeOK'
  BY DEF Subscribe, TypeOK, ReaderIsConnected
<1>2. IdsAreMinted'
  BY DEF Subscribe, IdsAreMinted, TypeOK, Pushers
<1>3. ReaderIsConnected'
  BY DEF Subscribe, ReaderIsConnected, TypeOK, Pushers
<1>4. HandsAreOld'
  BY DEF Subscribe, HandsAreOld, TypeOK
<1>5. ToldFirst'
  BY DEF Subscribe, ToldFirst, TypeOK, OnItsWay, Known, Tells, Pushers
<1>6. TellingIsOwed'
  BY DEF Subscribe, TellingIsOwed, TypeOK, Pushers
<1>7. InOrder'
  BY DEF Subscribe, InOrder
<1>8. QED
  BY <1>1, <1>2, <1>3, <1>4, <1>5, <1>6, <1>7

\* The operator puts the alert down.
LEMMA ResetStep ==
  ASSUME IInv, Reset
  PROVE  IInv'
<1> USE BoundsAssumption DEF IInv, ownerVars, serverVars, clientVars, linkVars, history
<1>1. TypeOK'
  BY DEF Reset, TypeOK, Goto
<1>2. IdsAreMinted'
  BY DEF Reset, IdsAreMinted, Goto
<1>3. ReaderIsConnected'
  BY DEF Reset, ReaderIsConnected, Goto
<1>4. HandsAreOld'
  BY DEF Reset, HandsAreOld
<1>5. ToldFirst'
  BY DEF Reset, ToldFirst
<1>6. TellingIsOwed'
  BY DEF Reset, TellingIsOwed
<1>7. InOrder'
  BY DEF Reset, InOrder
<1>8. QED
  BY <1>1, <1>2, <1>3, <1>4, <1>5, <1>6, <1>7

\* What was on its way is lost; who comes back subscribes again.
LEMMA DropStep ==
  ASSUME IInv, Drop
  PROVE  IInv'
<1> USE DEF IInv
<1>0. Shapes
  BY ShapesAre
<1>1. /\ up' = FALSE /\ subscribed' = FALSE /\ queue' = <<>> /\ cache' = {} /\ said' = FALSE
      /\ UNCHANGED <<latch, rises, episode, other, session, delivered, got>>
      /\ UNCHANGED <<newest, behind, torn, mute>>
  BY DEF Drop, ownerVars
<1>2. /\ at'["reader"] = "idle" /\ at' \in [Pushers -> Places]
      /\ \A p \in Pushers \ {"reader"} : at'[p] = at[p]
  BY <1>0 DEF Drop, Goto, Shapes, Pushers, Places
<1>3. /\ NoHand \in Hand /\ NoHand.id = 0 /\ NoHand.rises = 0
  BY BoundsAssumption DEF NoHand, Hand
<1>4. /\ hand' \in [Pushers -> Hand] /\ hand'["reader"] = NoHand
      /\ \A p \in Pushers \ {"reader"} : hand'[p] = hand[p]
  BY <1>0, <1>3 DEF Drop, Shapes, Pushers
<1>5. TypeOK'
  <2>1. queue' \in Seq(Message) /\ Len(queue') <= MaxQueue
    BY <1>1, Emptied, BoundsAssumption
  <2>2. QED
    BY <1>1, <1>2, <1>4, <2>1 DEF TypeOK, Hand, Places
<1>6. IdsAreMinted'
  <2>1. \A p \in Pushers : hand'[p].id <= episode /\ hand'[p].rises <= rises
    BY <1>0, <1>3, <1>4 DEF IdsAreMinted, Shapes
  <2>2. at'["reflex"] = at["reflex"]
    BY <1>2 DEF Pushers
  <2>3. DOMAIN queue' = {}
    BY <1>1
  <2>4. QED
    BY <1>1, <2>1, <2>2, <2>3 DEF IdsAreMinted
<1>7. ReaderIsConnected'
  <2>1. session < MaxInputs
    BY BoundsAssumption DEF Drop, Budget, TypeOK
  <2>2. QED
    BY <1>1, <1>2, <2>1 DEF ReaderIsConnected
<1>8. HandsAreOld'
  BY <1>1, <1>2, <1>4 DEF HandsAreOld
<1>9. ToldFirst'
  BY <1>1 DEF ToldFirst, Known
<1>10. TellingIsOwed'
  BY <1>1 DEF TellingIsOwed
<1>11. InOrder'
  BY <1>1 DEF InOrder
<1>12. QED
  BY <1>5, <1>6, <1>7, <1>8, <1>9, <1>10, <1>11

\* What the client does with a message: it announces an identity it had not delivered.
LEMMA HandleStep ==
  ASSUME IInv, Handle
  PROVE  IInv'
<1> USE DEF IInv
<1>0. Shapes
  BY ShapesAre
<1> DEFINE m == Head(queue)
<1>1. /\ queue # <<>> /\ queue' = Tail(queue)
      /\ UNCHANGED <<latch, rises, episode, other, at, hand, subscribed, up, session>>
      /\ UNCHANGED <<newest, behind, torn, said, mute>>
  BY DEF Handle, ownerVars, serverVars, history
<1>2. /\ queue' \in Seq(Message) /\ Len(queue') = Len(queue) - 1
      /\ DOMAIN queue = 1..Len(queue) /\ DOMAIN queue' = 1..(Len(queue) - 1)
      /\ Len(queue) \in Nat \ {0}
      /\ \A i \in DOMAIN queue' : queue'[i] = queue[i + 1]
      /\ m = queue[1] /\ m \in Message
  <2>1. queue \in Seq(Message)
    BY DEF TypeOK
  <2>2. QED
    BY <1>1, <2>1
<1>3. /\ m.id \in Nat /\ m.id <= MaxRises /\ m.kind \in {"state", "rise", "other"}
      /\ m.kind = "state" => m.latch \in BOOLEAN
  BY <1>2, Messages
<1> HIDE DEF m
<1>4. /\ delivered' = IF m.id = 0 THEN delivered ELSE m.id
      /\ \/ got' = got
         \/ m.id \notin {0, delivered} /\ got' = [got EXCEPT ![m.id] = @ + 1]
      /\ m.id \notin {0, delivered} /\ Tells(m) => got' = [got EXCEPT ![m.id] = @ + 1]
      /\ cache' \in {{}, {TRUE}, {FALSE}}
  <2>1. CASE TakeState(m)
    <3>1. cache' \in {{TRUE}, {FALSE}}
      BY <1>3, <2>1 DEF TakeState
    <3>2. QED
      BY <2>1, <3>1 DEF TakeState, Announce, Tells
  <2>2. CASE TakeEvent(m)
    <3>1. \/ got' = got
          \/ m.id \notin {0, delivered} /\ got' = [got EXCEPT ![m.id] = @ + 1]
      <4>1. CASE m.id = 0
        <5> DEFINE same == [got EXCEPT ![0] = @ + 1]
        <5>1. got \in [1..MaxRises -> Nat] /\ 0 \notin 1..MaxRises
          BY <1>0 DEF Shapes
        <5>2. same \in [1..MaxRises -> Nat] /\ \A n \in 1..MaxRises : same[n] = got[n]
          BY <5>1
        <5>3. same = got
          BY <5>2
        <5>4. QED
          BY <2>2, <5>3 DEF TakeEvent, Announce
      <4>2. CASE m.id # 0
        BY <2>2, <4>2 DEF TakeEvent, Announce
      <4>3. QED
        BY <4>1, <4>2
    <3>2. QED
      BY <2>2, <3>1 DEF TakeEvent, Announce, Tells, TypeOK
  <2>3. QED
    BY <2>1, <2>2 DEF Handle, m
<1>5. /\ got' \in [Ids -> Nat] /\ delivered' \in {0} \cup Ids
      /\ \A n \in Ids : /\ n # m.id => got'[n] = got[n]
                        /\ got[n] \in Nat /\ got'[n] \in {got[n], got[n] + 1}
                        /\ n = m.id /\ got' # got => n # delivered /\ got'[n] = got[n] + 1
  <2>1. got \in [Ids -> Nat] /\ delivered \in {0} \cup Ids
    BY DEF TypeOK
  <2>2. CASE got' = got
    BY <1>3, <1>4, <2>1, <2>2 DEF Ids
  <2>3. CASE m.id \notin {0, delivered} /\ got' = [got EXCEPT ![m.id] = @ + 1]
    <3>1. m.id \in Ids
      BY <1>3, <2>3 DEF Ids
    <3>3. QED
      BY <1>4, <2>1, <3>1
  <2>4. QED
    BY <1>4, <2>2, <2>3
<1>6. TypeOK'
  <2>1. Len(queue') <= MaxQueue
    BY <1>2, BoundsAssumption DEF TypeOK
  <2>2. QED
    BY <1>1, <1>2, <1>4, <1>5, <2>1 DEF TypeOK
<1>7. IdsAreMinted'
  <2>1. m.id <= episode /\ delivered' <= episode
    BY <1>2, <1>4 DEF IdsAreMinted
  <2>2. \A i \in DOMAIN queue' : queue'[i].id <= episode
    BY <1>2 DEF IdsAreMinted
  <2>3. QED
    BY <1>1, <2>1, <2>2 DEF IdsAreMinted
<1>8. (ReaderIsConnected /\ HandsAreOld)'
  BY <1>1 DEF ReaderIsConnected, HandsAreOld
<1>9. latch => rises \in Ids
  BY <1>0 DEF IdsAreMinted, Shapes, Ids
<1>10. latch /\ Known => Known'
  BY <1>1, <1>5, <1>9 DEF Known
<1>11. latch /\ m.id = rises => Known'
  <2> SUFFICES ASSUME latch, m.id = rises, ~Known PROVE got'[rises] > 0
    BY <1>1, <1>10 DEF Known
  <2>1. Tells(m) /\ m.id \notin {0, delivered}
    <3>1. delivered # rises /\ rises # 0
      BY <1>9 DEF ToldFirst, Ids
    <3>2. 1 \in DOMAIN queue /\ queue[1].id = rises
      BY <1>2
    <3>3. PICK j \in 1..1 : Tells(queue[j])
      BY <3>2 DEF ToldFirst
    <3>4. QED
      BY <1>2, <3>1, <3>3
  <2>2. got' = [got EXCEPT ![rises] = @ + 1]
    BY <1>4, <2>1
  <2>3. QED
    BY <1>0, <1>9, <2>2 DEF Shapes, Ids
<1>12. \A i \in DOMAIN queue : i = 1 \/ (i - 1 \in DOMAIN queue' /\ queue'[i - 1] = queue[i])
  BY <1>2
<1>13. latch /\ ~Known' => ~Known /\ m.id # rises /\ (OnItsWay => OnItsWay')
  <2>1. latch /\ ~Known' => ~Known /\ m.id # rises
    BY <1>10, <1>11
  <2>2. ASSUME m.id # rises, NEW i \in DOMAIN queue, Tells(queue[i])
        PROVE  i - 1 \in DOMAIN queue' /\ Tells(queue'[i - 1])
    BY <1>2, <1>12, <2>2 DEF Tells
  <2>3. ASSUME m.id # rises, OnItsWay PROVE OnItsWay'
    BY <1>1, <2>2, <2>3 DEF OnItsWay, Tells
  <2>4. QED
    BY <2>1, <2>3
<1>14. ToldFirst'
  <2> SUFFICES ASSUME latch, ~Known'
               PROVE  /\ delivered' # rises
                      /\ \A i \in DOMAIN queue' : queue'[i].id = rises
                           => \E j \in 1..i : Tells(queue'[j])
                      /\ said /\ at["reflex"] # "mint" => OnItsWay'
    BY <1>1 DEF ToldFirst, Tells
  <2>1. delivered' # rises
    BY <1>4, <1>13 DEF ToldFirst
  <2>2. ASSUME NEW i \in DOMAIN queue', queue'[i].id = rises
        PROVE  \E j \in 1..i : Tells(queue'[j])
    <3>1. PICK j \in 1..(i + 1) : Tells(queue[j])
      BY <1>2, <1>13, <2>2 DEF ToldFirst
    <3>2. j # 1 /\ j \in DOMAIN queue
      BY <1>2, <1>13, <3>1 DEF Tells
    <3>3. j - 1 \in 1..i /\ queue'[j - 1] = queue[j]
      BY <1>2, <3>2
    <3>4. QED
      BY <3>1, <3>3
  <2>3. said /\ at["reflex"] # "mint" => OnItsWay'
    BY <1>13 DEF ToldFirst
  <2>4. QED
    BY <2>1, <2>2, <2>3
<1>15. TellingIsOwed'
  BY <1>1, <1>13 DEF TellingIsOwed
<1>16. InOrder'
  <2> SUFFICES ASSUME ~behind
               PROVE  /\ delivered' <= newest
                      /\ \A i \in DOMAIN queue' :
                           /\ delivered' <= queue'[i].id /\ queue'[i].id <= newest
                           /\ \A j \in 1..i : queue'[j].id <= queue'[i].id
                      /\ \A n \in Ids : got'[n] <= 1 /\ (got'[n] > 0 => n <= delivered')
    BY <1>1 DEF InOrder
  <2>1. delivered <= m.id /\ m.id <= newest /\ delivered' = m.id
    <3>1. delivered <= m.id /\ m.id <= newest
      BY <1>2 DEF InOrder
    <3>2. QED
      BY <1>0, <1>4, <3>1 DEF Shapes
  <2>2. \A i \in DOMAIN queue' :
          /\ i + 1 \in DOMAIN queue /\ 1 \in 1..(i + 1)
          /\ \A j \in 1..i : j \in DOMAIN queue' /\ j + 1 \in 1..(i + 1)
    BY <1>2
  <2>3. \A i \in DOMAIN queue' :
          /\ delivered' <= queue'[i].id /\ queue'[i].id <= newest
          /\ \A j \in 1..i : queue'[j].id <= queue'[i].id
    BY <1>2, <2>1, <2>2 DEF InOrder
  <2>4. /\ delivered \in Nat /\ m.id \in Nat /\ delivered <= delivered' /\ delivered' = m.id
        /\ got \in [Ids -> Nat]
    BY <1>3, <2>1 DEF TypeOK, Ids
  <2>5. ASSUME NEW n \in Ids
        PROVE  got'[n] <= 1 /\ (got'[n] > 0 => n <= delivered')
    <3>1. got[n] <= 1 /\ (got[n] > 0 => n <= delivered) /\ n \in Nat /\ got[n] \in Nat
      BY <1>5 DEF InOrder, Ids
    <3>2. CASE n # m.id \/ got' = got
      <4>1. got'[n] = got[n]
        BY <1>4, <2>4, <3>2
      <4>2. QED
        BY <2>4, <3>1, <4>1
    <3>3. CASE n = m.id /\ got' # got
      <4>1. got'[n] = got[n] + 1 /\ n # delivered /\ n # 0
        BY <1>4, <2>4, <3>3
      <4>2. QED
        BY <2>4, <3>1, <3>3, <4>1
    <3>4. QED
      BY <3>2, <3>3
  <2>6. QED
    BY <2>1, <2>3, <2>5
<1>17. QED
  BY <1>6, <1>7, <1>8, <1>14, <1>15, <1>16

\* No step of any thread breaks the invariant.
LEMMA IInvStep == IInv /\ [Next]_vars => IInv'
<1> SUFFICES ASSUME IInv, [Next]_vars PROVE IInv'
  OBVIOUS
<1>1. CASE UNCHANGED vars
  <2>1. UNCHANGED <<ownerVars, serverVars, clientVars, linkVars, history>>
    BY <1>1 DEF vars
  <2>2. TypeOK'
    BY <2>1 DEF ownerVars, serverVars, clientVars, linkVars, history, IInv, TypeOK
  <2>3. (IdsAreMinted /\ ReaderIsConnected /\ HandsAreOld)'
    BY <2>1 DEF ownerVars, serverVars, clientVars, linkVars, history, IInv, IdsAreMinted,
                ReaderIsConnected, HandsAreOld
  <2>4. (ToldFirst /\ TellingIsOwed /\ InOrder)'
    BY <2>1 DEF ownerVars, serverVars, clientVars, linkVars, history, IInv, ToldFirst,
                TellingIsOwed, InOrder, OnItsWay, Tells, Known
  <2>5. QED
    BY <2>2, <2>3, <2>4 DEF IInv
<1>2. CASE Rise \/ OpenOrTest \/ Mint \/ SendEvent
  BY <1>2, RiseStep, OpenOrTestStep, MintStep, SendEventStep
<1>3. CASE \E p \in Pushers : Push(p)
  BY <1>3, LookStep, SealStep, SendStep DEF Push
<1>4. CASE EmitterEnds \/ Subscribe \/ Connect \/ Reset \/ Drop \/ Handle
  BY <1>4, EmitterEndsStep, SubscribeStep, ConnectStep, ResetStep, DropStep, HandleStep
<1>5. QED
  BY <1>1, <1>2, <1>3, <1>4 DEF Next, Reflex, Emitter, Reader, Pushers

-----------------------------------------------------------------------------
\* The theorems.

\* The inductive invariant holds.
THEOREM Invariance == Spec => []IInv
<1>1. QED
  BY Begins, IInvStep, PTL DEF Spec

\* TypeOK: identities, hands and messages are what the code's are.
THEOREM Typing == Spec => []TypeOK
<1>1. IInv => TypeOK
  BY DEF IInv
<1>2. QED
  BY <1>1, Invariance, PTL

\* AnnouncedUnlessTorn, what _reconciliar_episodio promises: of an alert that is up, the
\* client believes it delivered only what it announced, unless the alert is in torn.
THEOREM DeliveredWasAnnounced == Spec => []AnnouncedUnlessTorn
<1>1. IInv => AnnouncedUnlessTorn
  BY DEF IInv, AnnouncedUnlessTorn, DeliveredIsAnnounced, ToldFirst, Known
<1>2. QED
  BY <1>1, Invariance, PTL

\* OncePerAlert: the last identity delivered is memory enough to announce an alert once,
\* over any number of connections, while nothing is sent behind a newer identity.
THEOREM AlertsAreAnnouncedOnce == Spec => []OncePerAlert
<1>1. IInv => OncePerAlert
  BY DEF IInv, OncePerAlert, InOrder
<1>2. QED
  BY <1>1, Invariance, PTL

\* AlertIsAnnounced: an alert that is up has been announced, or is torn, once the client
\* has read everything and the threads of the owner rest, wherever connections broke.
THEOREM AlertsSurviveTheLink == Spec => []AlertIsAnnounced
<1>1. IInv => AlertIsAnnounced
  BY DEF IInv, AlertIsAnnounced, Settled, TellingIsOwed, Known, OnItsWay
<1>2. QED
  BY <1>1, Invariance, PTL

=============================================================================
