----------------------------- MODULE DrillProofs ------------------------------
(***************************************************************************)
(* The real alert wins over the drill, and the cloud is told the truth of  *)
(* how a drill ended, for every set of drills and alarms and every         *)
(* combination of inputs.                                                  *)
(***************************************************************************)
EXTENDS Drill, FiniteSetTheorems, TLAPS

-----------------------------------------------------------------------------
\* The inductive invariant.

Has(t, step) == \E i \in DOMAIN agenda[t] : agenda[t][i] = step

\* The abort a thread is to tell is next on its agenda, but for the voice it quiets.
TellsComeFirst ==
  \A t \in Threads : \A i \in DOMAIN agenda[t] :
    agenda[t][i] = "tell" =>
      telling[t] # None /\ \A j \in 1..i - 1 : agenda[t][j] \in {"quiet", "stop"}
TellsAreNoted == \A t \in Threads : telling[t] # None => Has(t, "tell")

\* Each abort is told once, and only aborts are.
ToldOnce ==
  /\ \A t \in Threads : telling[t] # None => fate[telling[t]] = "aborted" /\ told[telling[t]] = 0
  /\ \A t, u \in Threads : telling[t] # None /\ telling[t] = telling[u] => t = u
  /\ \A d \in Drills : told[d] > 0 => fate[d] = "aborted" /\ told[d] = 1

\* What has not come yet has left nothing behind.
UnusedIsFresh ==
  /\ \A i \in left \cap Threads : Idle(i)
  /\ \A d \in left \cap Drills : fate[d] = "new"

\* A timer runs for the live drill; its callback, once called, waits on its thread.
TimersAreTheirs ==
  \A d \in Drills :
    /\ fate[d] \in {"new", "checked"} => timer[d] = "none"
    /\ timer[d] = "armed" => Live(d)
    /\ timer[d] \in {"none", "armed"} => Idle(d)
LapseIsFired ==
  \A t \in Threads : \A i \in DOMAIN agenda[t] :
    agenda[t][i] = "lapse" => i = 1 /\ t \in Drills /\ timer[t] = "fired"

\* A callback that waits is of the live drill or haunts it.
OldTimersHaunt ==
  /\ \A d, e \in Drills : timer[d] = "fired" /\ Live(e) /\ d # e => e \in haunted
  /\ \A d \in Drills : fate[d] = "lapsed" => timer[d] = "spent" \/ d \in haunted

\* While an alert is up, a drill that was not caught by it has its abort on the way.
AbortIsOwed ==
  \A a \in alert \ {"order"}, d \in Drills :
    fate[d] \in {"checked", "active"} /\ d \notin caught => fate[d] = "active" /\ Has(a, "abort")

IInv ==
  /\ TypeOK
  /\ TellsComeFirst /\ TellsAreNoted /\ ToldOnce
  /\ UnusedIsFresh /\ TimersAreTheirs /\ LapseIsFired
  /\ OldTimersHaunt /\ AbortIsOwed

-----------------------------------------------------------------------------
\* Agendas.

\* What a step leaves of an agenda: more, and then what there was after the head.
LEMMA AfterAStep ==
  ASSUME TypeOK, NEW t \in Threads, ~Idle(t), NEW more \in Seq(Steps), Then(t, more)
  PROVE  /\ agenda' \in [Threads -> Seq(Steps)]
         /\ \A u \in Threads \ {t} : agenda'[u] = agenda[u]
         /\ Len(more) \in Nat /\ DOMAIN more = 1..Len(more)
         /\ 1 \in DOMAIN agenda[t] /\ agenda[t][1] = Head(agenda[t])
         /\ \A i \in DOMAIN agenda'[t] :
              \/ i \in DOMAIN more /\ agenda'[t][i] = more[i]
              \/ /\ i > Len(more) /\ i - Len(more) + 1 \in DOMAIN agenda[t]
                 /\ agenda'[t][i] = agenda[t][i - Len(more) + 1]
         /\ \A i \in DOMAIN agenda[t] \ {1} :
              /\ i - 1 + Len(more) \in DOMAIN agenda'[t]
              /\ agenda'[t][i - 1 + Len(more)] = agenda[t][i]
         /\ \A i \in DOMAIN more : i \in DOMAIN agenda'[t] /\ agenda'[t][i] = more[i]
<1> DEFINE old == agenda[t]
           new == more \o Tail(old)
<1>1. agenda \in [Threads -> Seq(Steps)] /\ old \in Seq(Steps) /\ old # <<>>
  BY DEF TypeOK, Idle
<1>2. agenda' = [agenda EXCEPT ![t] = new]
  BY DEF Then
<1>3. agenda'[t] = new /\ \A u \in Threads \ {t} : agenda'[u] = agenda[u]
  BY <1>1, <1>2
<1> HIDE DEF old
<1>4. /\ Len(old) \in Nat \ {0} /\ DOMAIN old = 1..Len(old) /\ old[1] = Head(old)
      /\ Tail(old) \in Seq(Steps) /\ Len(Tail(old)) = Len(old) - 1
      /\ \A i \in 1..(Len(old) - 1) : Tail(old)[i] = old[i + 1]
  BY <1>1
<1>5. Len(more) \in Nat /\ DOMAIN more = 1..Len(more)
  OBVIOUS
<1>6. /\ new \in Seq(Steps) /\ DOMAIN new = 1..(Len(more) + Len(old) - 1)
      /\ \A i \in 1..Len(more) : new[i] = more[i]
      /\ \A i \in 1..(Len(old) - 1) : new[Len(more) + i] = Tail(old)[i]
  BY <1>4, <1>5
<1> HIDE DEF new
<1>7. agenda' \in [Threads -> Seq(Steps)]
  BY <1>1, <1>2, <1>6
<1>8. ASSUME NEW i \in DOMAIN new, i \notin DOMAIN more
      PROVE  i > Len(more) /\ i - Len(more) + 1 \in DOMAIN old /\ new[i] = old[i - Len(more) + 1]
  <2> DEFINE j == i - Len(more)
  <2>1. j \in 1..(Len(old) - 1) /\ i = Len(more) + j /\ i \in Nat
    BY <1>4, <1>5, <1>6, <1>8
  <2> HIDE DEF j
  <2>2. new[i] = old[j + 1] /\ j + 1 \in DOMAIN old
    BY <1>4, <1>6, <2>1
  <2>3. i > Len(more)
    BY <1>5, <2>1
  <2>4. QED
    BY <2>2, <2>3 DEF j
<1>9. ASSUME NEW i \in DOMAIN old \ {1}
      PROVE  i - 1 + Len(more) \in DOMAIN new /\ new[i - 1 + Len(more)] = old[i]
  <2> DEFINE j == i - 1
  <2>1. j \in 1..(Len(old) - 1) /\ i = j + 1
    BY <1>4
  <2> HIDE DEF j
  <2>2. new[Len(more) + j] = old[i] /\ Len(more) + j \in DOMAIN new
    BY <1>4, <1>5, <1>6, <2>1
  <2>3. Len(more) + j = i - 1 + Len(more)
    BY <1>4, <1>5 DEF j
  <2>4. QED
    BY <2>2, <2>3
<1>10. \A i \in DOMAIN more : i \in DOMAIN new
  BY <1>4, <1>5, <1>6
<1>11. QED
  BY <1>3, <1>4, <1>5, <1>6, <1>7, <1>8, <1>9, <1>10 DEF old

\* The threads and the inputs are told apart.
LEMMA Names ==
  /\ Callers \subseteq Threads /\ Drills \subseteq Threads /\ Alarms \ {"order"} \subseteq Callers
  /\ Drills \cap Callers = {} /\ None \notin Drills /\ "order" \notin Drills /\ None \notin Callers
  BY DrillsAssumption, AlarmsAssumption DEF Threads, Callers, None

\* Some generation is in nobody's hand.
LEMMA AGenerationIsFree ==
  ASSUME heard \in [Threads -> Nat]
  PROVE  FreshGen \in Nat
<1> DEFINE n == Cardinality(Threads)
           held == {heard[t] : t \in Threads}
<1>1. IsFiniteSet(Threads) /\ n \in Nat
  <2>1. \A S, x : IsFiniteSet(S) => IsFiniteSet(S \cup {x})
    BY FS_AddElement
  <2>2. Callers = (((((({} \cup {"command"}) \cup {"panel"}) \cup {"sasmex"}) \cup {"tier"})
                     \cup {"quorum"}) \cup {"silence"}) \cup {"watcher"}
    BY DEF Callers
  <2>3. IsFiniteSet(Callers)
    BY <2>1, <2>2, FS_EmptySet
  <2>4. QED
    BY <2>3, DrillsAssumption, FS_Union, FS_CardinalityType DEF Threads
<1>2. /\ IsFiniteSet(held) /\ Cardinality(held) <= n /\ Cardinality(held) \in Nat
  <2>1. heard \in Surjection(Threads, held)
    BY DEF Surjection
  <2>2. QED
    BY <1>1, <2>1, FS_Surjection, FS_CardinalityType
<1>3. IsFiniteSet(1..n + 1) /\ Cardinality(1..n + 1) = n + 1
  BY <1>1, FS_Interval
<1>4. ~(1..n + 1 \subseteq held)
  <2> SUFFICES ASSUME 1..n + 1 \subseteq held PROVE FALSE
    OBVIOUS
  <2>1. Cardinality(1..n + 1) <= Cardinality(held)
    BY <1>2, FS_Subset
  <2>2. QED
    BY <1>1, <1>2, <1>3, <2>1
<1>5. \E g \in 1..n + 1 : \A t \in Threads : heard[t] # g
  BY <1>4
<1>6. FreshGen \in 1..n + 1
  BY <1>5 DEF FreshGen
<1>7. QED
  BY <1>1, <1>6

\* What a step leaves on the agendas, as the invariant sees it.
LEMMA Onward ==
  ASSUME IInv, NEW t \in Threads, ~Idle(t), NEW more \in Seq(Steps), Then(t, more),
         \A i \in DOMAIN more : more[i] # "lapse"
  PROVE  /\ agenda' \in [Threads -> Seq(Steps)]
         /\ \A u \in Threads \ {t} : agenda'[u] = agenda[u]
         /\ \A u \in Threads \ {t} : \A step : Has(u, step)' = Has(u, step)
         /\ Has(t, Head(agenda[t]))
         /\ \A step : Has(t, step) => step = Head(agenda[t]) \/ Has(t, step)'
         /\ \A step : Has(t, step)' => Has(t, step) \/ \E i \in DOMAIN more : more[i] = step
         /\ \A i \in DOMAIN more : Has(t, more[i])'
         /\ ~Has(t, "lapse")'
<1>0. TypeOK /\ LapseIsFired
  BY DEF IInv
<1>1. /\ agenda' \in [Threads -> Seq(Steps)]
      /\ \A u \in Threads \ {t} : agenda'[u] = agenda[u]
      /\ 1 \in DOMAIN agenda[t] /\ agenda[t][1] = Head(agenda[t])
      /\ \A i \in DOMAIN agenda'[t] :
           \/ i \in DOMAIN more /\ agenda'[t][i] = more[i]
           \/ /\ i > Len(more) /\ i - Len(more) + 1 \in DOMAIN agenda[t]
              /\ agenda'[t][i] = agenda[t][i - Len(more) + 1]
      /\ \A i \in DOMAIN agenda[t] \ {1} :
           /\ i - 1 + Len(more) \in DOMAIN agenda'[t]
           /\ agenda'[t][i - 1 + Len(more)] = agenda[t][i]
      /\ \A i \in DOMAIN more : i \in DOMAIN agenda'[t] /\ agenda'[t][i] = more[i]
      /\ Len(more) \in Nat
  BY <1>0, AfterAStep
<1>2. \A u \in Threads \ {t} : \A step : Has(u, step)' = Has(u, step)
  BY <1>1 DEF Has
<1>3. /\ Has(t, Head(agenda[t]))
      /\ \A step : Has(t, step) => step = Head(agenda[t]) \/ Has(t, step)'
      /\ \A step : Has(t, step)' => Has(t, step) \/ \E i \in DOMAIN more : more[i] = step
      /\ \A i \in DOMAIN more : Has(t, more[i])'
  <2>1. Has(t, Head(agenda[t])) /\ \A i \in DOMAIN more : Has(t, more[i])'
    BY <1>1 DEF Has
  <2>2. ASSUME NEW step, Has(t, step), step # Head(agenda[t])
        PROVE  Has(t, step)'
    <3>1. PICK i \in DOMAIN agenda[t] \ {1} : agenda[t][i] = step
      BY <1>1, <2>2 DEF Has
    <3>2. QED
      BY <1>1, <3>1 DEF Has
  <2>3. ASSUME NEW step, Has(t, step)'
        PROVE  Has(t, step) \/ \E i \in DOMAIN more : more[i] = step
    BY <1>1, <2>3 DEF Has
  <2>4. QED
    BY <2>1, <2>2, <2>3
<1>4. ASSUME NEW i \in DOMAIN agenda'[t]
      PROVE  agenda'[t][i] # "lapse"
  <2>1. CASE i \in DOMAIN more /\ agenda'[t][i] = more[i]
    BY <2>1
  <2>2. CASE /\ i > Len(more) /\ i - Len(more) + 1 \in DOMAIN agenda[t]
             /\ agenda'[t][i] = agenda[t][i - Len(more) + 1]
    <3>1. i \in Nat
      BY <1>1
    <3>2. i - Len(more) + 1 # 1
      BY <1>1, <2>2, <3>1
    <3>3. QED
      BY <1>0, <2>2, <3>2 DEF LapseIsFired
  <2>3. QED
    BY <1>1, <2>1, <2>2
<1>5. ~Has(t, "lapse")'
  BY <1>4 DEF Has
<1>6. QED
  BY <1>1, <1>2, <1>3, <1>5

\* The abort to be told stays first, through the steps that quiet the voice.
LEMMA OnwardTells ==
  ASSUME IInv, NEW t \in Threads, ~Idle(t), NEW more \in Seq(Steps), Then(t, more),
         Head(agenda[t]) # "tell", \A i \in DOMAIN more : more[i] \notin {"lapse", "tell"},
         Head(agenda[t]) \in {"quiet", "stop"} => \A i \in DOMAIN more : more[i] = "stop",
         UNCHANGED telling
  PROVE  TellsComeFirst' /\ TellsAreNoted'
<1>0. TypeOK /\ TellsComeFirst /\ TellsAreNoted
  BY DEF IInv
<1>1. /\ \A u \in Threads \ {t} : agenda'[u] = agenda[u]
      /\ 1 \in DOMAIN agenda[t] /\ agenda[t][1] = Head(agenda[t])
      /\ \A i \in DOMAIN agenda'[t] :
           \/ i \in DOMAIN more /\ agenda'[t][i] = more[i]
           \/ /\ i > Len(more) /\ i - Len(more) + 1 \in DOMAIN agenda[t]
              /\ agenda'[t][i] = agenda[t][i - Len(more) + 1]
      /\ Len(more) \in Nat
      /\ agenda' \in [Threads -> Seq(Steps)]
  BY <1>0, AfterAStep
<1>2. agenda[t] \in Seq(Steps) /\ agenda'[t] \in Seq(Steps)
  BY <1>0, <1>1 DEF TypeOK
<1>3. TellsComeFirst'
  <2> SUFFICES ASSUME NEW u \in Threads, NEW i \in DOMAIN agenda'[u], agenda'[u][i] = "tell"
               PROVE  telling[u] # None /\ \A j \in 1..i - 1 : agenda'[u][j] \in {"quiet", "stop"}
    BY DEF TellsComeFirst
  <2>1. CASE u # t
    BY <1>0, <1>1, <2>1 DEF TellsComeFirst
  <2>2. CASE u = t
    <3> DEFINE k == i - Len(more) + 1
    <3>1. i > Len(more) /\ k \in DOMAIN agenda[t] /\ agenda[t][k] = "tell"
      BY <1>1, <2>2
    <3>2. i \in Nat /\ DOMAIN agenda'[t] = 1..Len(agenda'[t]) /\ Len(agenda'[t]) \in Nat
          /\ DOMAIN agenda[t] = 1..Len(agenda[t]) /\ Len(agenda[t]) \in Nat
      BY <1>2, <2>2
    <3>3. telling[t] # None /\ \A j \in 1..k - 1 : agenda[t][j] \in {"quiet", "stop"}
      BY <1>0, <3>1 DEF TellsComeFirst
    <3>4. Head(agenda[t]) \in {"quiet", "stop"}
      BY <1>1, <3>1, <3>2, <3>3
    <3>5. ASSUME NEW j \in 1..i - 1
          PROVE  agenda'[t][j] \in {"quiet", "stop"}
      <4>1. j \in DOMAIN agenda'[t]
        BY <2>2, <3>2
      <4>2. j - Len(more) + 1 \in DOMAIN agenda[t] => j - Len(more) + 1 \in 1..k - 1
        BY <1>1, <3>2
      <4>3. QED
        BY <1>1, <3>3, <3>4, <4>1, <4>2
    <3>6. QED
      BY <2>2, <3>3, <3>5
  <2>3. QED
    BY <2>1, <2>2
<1>4. TellsAreNoted'
  <2>1. /\ \A step : Has(t, step) => step = Head(agenda[t]) \/ Has(t, step)'
        /\ \A u \in Threads \ {t} : Has(u, "tell")' = Has(u, "tell")
    BY Onward
  <2>2. QED
    BY <1>0, <2>1 DEF TellsAreNoted
<1>5. QED
  BY <1>3, <1>4

\* A thread whose next step is not of telling has nothing to tell.
LEMMA NothingToTell ==
  ASSUME IInv, NEW t \in Threads, Idle(t) \/ Head(agenda[t]) \notin {"tell", "quiet", "stop"}
  PROVE  ~Has(t, "tell") /\ telling[t] = None
<1>1. agenda[t] \in Seq(Steps)
  BY DEF IInv, TypeOK
<1>2. ASSUME NEW i \in DOMAIN agenda[t], agenda[t][i] = "tell"
      PROVE  FALSE
  <2>1. ~Idle(t) /\ i \in Nat /\ i >= 1 /\ agenda[t][1] = Head(agenda[t])
    BY <1>1 DEF Idle
  <2>2. i = 1 \/ agenda[t][1] \in {"quiet", "stop"}
    BY <1>2, <2>1 DEF IInv, TellsComeFirst
  <2>3. QED
    BY <1>2, <2>1, <2>2
<1>3. QED
  BY <1>2 DEF Has, IInv, TellsAreNoted

\* What the agendas are when a thread begins.
LEMMA Beginning ==
  ASSUME IInv, NEW t \in Threads, Idle(t), NEW steps \in Seq(Steps), Begin(t, steps),
         \A i \in DOMAIN steps : steps[i] # "tell", UNCHANGED telling
  PROVE  /\ agenda' \in [Threads -> Seq(Steps)]
         /\ agenda'[t] = steps /\ \A u \in Threads \ {t} : agenda'[u] = agenda[u]
         /\ \A step : ~Has(t, step)
         /\ \A u \in Threads \ {t} : \A step : Has(u, step)' = Has(u, step)
         /\ TellsComeFirst' /\ TellsAreNoted'
<1>1. /\ agenda' \in [Threads -> Seq(Steps)]
      /\ agenda'[t] = steps /\ \A u \in Threads \ {t} : agenda'[u] = agenda[u]
  BY DEF IInv, TypeOK, Begin
<1>2. \A step : ~Has(t, step)
  BY DEF Has, Idle
<1>3. \A u \in Threads \ {t} : \A step : Has(u, step)' = Has(u, step)
  BY <1>1 DEF Has
<1>4. TellsComeFirst'
  BY <1>1 DEF IInv, TellsComeFirst
<1>5. TellsAreNoted'
  BY <1>2, <1>3 DEF IInv, TellsAreNoted
<1>6. QED
  BY <1>1, <1>2, <1>3, <1>4, <1>5

\* A step that ends nothing of a drill and owes nobody leaves the invariant alone.
LEMMA CalmStep ==
  ASSUME IInv, TypeOK', NEW t \in Threads, ~Idle(t), NEW more \in Seq(Steps), Then(t, more),
         Head(agenda[t]) \notin {"lapse", "abort", "tell"},
         \A i \in DOMAIN more : more[i] \notin {"lapse", "tell"},
         Head(agenda[t]) \in {"quiet", "stop"} => \A i \in DOMAIN more : more[i] = "stop",
         UNCHANGED <<fate, timer, alert, left, telling, told, caught, haunted>>
  PROVE  IInv'
<1>0. TypeOK /\ ToldOnce /\ UnusedIsFresh /\ TimersAreTheirs /\ LapseIsFired
      /\ OldTimersHaunt /\ AbortIsOwed
  BY DEF IInv
<1>1. /\ \A u \in Threads \ {t} : agenda'[u] = agenda[u]
      /\ \A u \in Threads \ {t} : \A step : Has(u, step)' = Has(u, step)
      /\ Has(t, "abort") => Has(t, "abort")'
      /\ ~Has(t, "lapse")'
  BY Onward
<1>2. TellsComeFirst' /\ TellsAreNoted'
  BY OnwardTells
<1>3. ToldOnce'
  BY <1>0 DEF ToldOnce
<1>4. UnusedIsFresh'
  BY <1>0, <1>1 DEF UnusedIsFresh, Idle
<1>5. TimersAreTheirs'
  BY <1>0, <1>1, Names DEF TimersAreTheirs, Idle, Live
<1>6. LapseIsFired'
  BY <1>0, <1>1 DEF LapseIsFired, Has
<1>7. OldTimersHaunt'
  BY <1>0 DEF OldTimersHaunt, Live
<1>8. AbortIsOwed'
  <2>1. alert \ {"order"} \subseteq Threads
    BY <1>0, Names DEF TypeOK
  <2>2. QED
    BY <1>0, <1>1, <2>1 DEF AbortIsOwed
<1>9. QED
  BY <1>2, <1>3, <1>4, <1>5, <1>6, <1>7, <1>8 DEF IInv

\* So does a thread that begins, when it had nothing to do and drills are not its own.
LEMMA CalmBegin ==
  ASSUME IInv, TypeOK', NEW t \in Callers, Idle(t), t \notin left', NEW steps \in Seq(Steps),
         Begin(t, steps), \A i \in DOMAIN steps : steps[i] \notin {"lapse", "tell"},
         left' \subseteq left, UNCHANGED <<fate, timer, alert, telling, told, caught, haunted>>
  PROVE  IInv'
<1>0. TypeOK /\ ToldOnce /\ UnusedIsFresh /\ TimersAreTheirs /\ LapseIsFired
      /\ OldTimersHaunt /\ AbortIsOwed
  BY DEF IInv
<1>1. t \in Threads /\ t \notin Drills
  BY Names
<1>2. /\ agenda'[t] = steps /\ \A u \in Threads \ {t} : agenda'[u] = agenda[u]
      /\ \A step : ~Has(t, step)
      /\ \A u \in Threads \ {t} : \A step : Has(u, step)' = Has(u, step)
      /\ TellsComeFirst' /\ TellsAreNoted'
  BY <1>1, Beginning
<1>3. ToldOnce'
  BY <1>0 DEF ToldOnce
<1>4. UnusedIsFresh'
  BY <1>0, <1>2 DEF UnusedIsFresh, Idle
<1>5. TimersAreTheirs'
  BY <1>0, <1>1, <1>2, Names DEF TimersAreTheirs, Idle, Live
<1>6. LapseIsFired'
  BY <1>0, <1>2 DEF LapseIsFired
<1>7. OldTimersHaunt'
  BY <1>0 DEF OldTimersHaunt, Live
<1>8. AbortIsOwed'
  <2>1. alert \ {"order"} \subseteq Threads
    BY <1>0, Names DEF TypeOK
  <2>2. QED
    BY <1>0, <1>2, <2>1 DEF AbortIsOwed
<1>9. QED
  BY <1>2, <1>3, <1>4, <1>5, <1>6, <1>7, <1>8 DEF IInv

\* And what no thread has on its agenda.
LEMMA CalmElsewhere ==
  ASSUME IInv, TypeOK', alert' \subseteq alert,
         UNCHANGED <<agenda, fate, timer, left, telling, told, caught, haunted>>
  PROVE  IInv'
<1>1. TellsComeFirst' /\ TellsAreNoted' /\ ToldOnce'
  BY DEF IInv, TellsComeFirst, TellsAreNoted, ToldOnce, Has
<1>2. UnusedIsFresh' /\ TimersAreTheirs' /\ LapseIsFired' /\ OldTimersHaunt'
  BY DEF IInv, UnusedIsFresh, TimersAreTheirs, LapseIsFired, OldTimersHaunt, Idle, Live
<1>3. AbortIsOwed'
  BY DEF IInv, AbortIsOwed, Has
<1>4. QED
  BY <1>1, <1>2, <1>3 DEF IInv

-----------------------------------------------------------------------------
\* The steps of the voice.

\* The types of what a step of the voice leaves alone.
LEMMA VoiceTypes ==
  ASSUME TypeOK, agenda' \in [Threads -> Seq(Steps)], heard' \in [Threads -> Nat],
         jack' \in {None, "simulacro", "sismo"}, mixed' \in BOOLEAN,
         mark' \in [kind : {None, "simulacro", "sismo"}, gen : Nat],
         silenced' \in BOOLEAN, left' \subseteq left,
         UNCHANGED <<drillVars, alert, telling, told, history>>
  PROVE  TypeOK'
  BY DEF TypeOK, drillVars, history, Live

\* Pieces of an agenda.
LEMMA Pieces ==
  /\ <<>> \in Seq(Steps) /\ DOMAIN <<>> = {}
  /\ \A s \in Steps : <<s>> \in Seq(Steps) /\ DOMAIN <<s>> = {1} /\ <<s>>[1] = s
  /\ \A s, u \in Steps : /\ <<s, u>> \in Seq(Steps) /\ DOMAIN <<s, u>> = {1, 2}
                         /\ <<s, u>>[1] = s /\ <<s, u>>[2] = u
  /\ \A s, u, v \in Steps : /\ <<s, u, v>> \in Seq(Steps) /\ DOMAIN <<s, u, v>> = {1, 2, 3}
                            /\ <<s, u, v>>[1] = s /\ <<s, u, v>>[2] = u /\ <<s, u, v>>[3] = v
<1>1. <<>> \in Seq(Steps) /\ DOMAIN <<>> = {}
  OBVIOUS
<1>2. \A s \in Steps : <<s>> \in Seq(Steps) /\ DOMAIN <<s>> = {1} /\ <<s>>[1] = s
  OBVIOUS
<1>3. \A s, u \in Steps : /\ <<s, u>> \in Seq(Steps) /\ DOMAIN <<s, u>> = {1, 2}
                           /\ <<s, u>>[1] = s /\ <<s, u>>[2] = u
  OBVIOUS
<1>4. \A s, u, v \in Steps :
        /\ <<s, u, v>> \in Seq(Steps) /\ DOMAIN <<s, u, v>> = {1, 2, 3}
        /\ <<s, u, v>>[1] = s /\ <<s, u, v>>[2] = u /\ <<s, u, v>>[3] = v
  OBVIOUS
<1>5. QED
  BY <1>1, <1>2, <1>3, <1>4

\* The voice is let through, or not.
LEMMA GateStep ==
  ASSUME IInv, NEW t \in Threads, Gate(t)
  PROVE  IInv'
<1>1. /\ TypeOK /\ ~Idle(t) /\ Head(agenda[t]) = "gate"
      /\ UNCHANGED <<drillVars, voiceVars, cabinetVars, heard, telling, told, history>>
  BY DEF IInv, Gate, At
<1>2. PICK more \in {<<>>, <<"sound", "mark">>} : Then(t, more)
  BY DEF Gate
<1>3. more \in Seq(Steps) /\ \A i \in DOMAIN more : more[i] \in {"sound", "mark"}
  <2>1. {"sound", "mark"} \subseteq Steps
    BY DEF Steps
  <2>2. CASE more = <<>>
    BY <2>2, Pieces
  <2>3. CASE more = <<"sound", "mark">>
    BY <2>1, <2>3, Pieces
  <2>4. QED
    BY <2>2, <2>3
<1>4. TypeOK'
  BY <1>1, <1>2, <1>3, AfterAStep, VoiceTypes DEF TypeOK, voiceVars, cabinetVars
<1>5. QED
  BY <1>1, <1>2, <1>3, <1>4, CalmStep DEF drillVars, cabinetVars, history

\* The player starts.
LEMMA SoundStep ==
  ASSUME IInv, NEW t \in Threads, Sound(t)
  PROVE  IInv'
<1>1. /\ TypeOK /\ ~Idle(t) /\ Head(agenda[t]) = "sound" /\ Then(t, <<>>)
      /\ jack' \in {"simulacro", "sismo"} /\ mixed' \in BOOLEAN
      /\ UNCHANGED <<drillVars, mark, cabinetVars, heard, telling, told, history>>
  BY DEF IInv, Sound, At, Kind, TypeOK
<1>2. TypeOK'
  BY <1>1, Pieces, AfterAStep, VoiceTypes DEF TypeOK, cabinetVars
<1>3. QED
  BY <1>1, <1>2, Pieces, CalmStep DEF drillVars, cabinetVars, history

\* What plays is noted.
LEMMA MarkStep ==
  ASSUME IInv, NEW t \in Threads, Mark(t)
  PROVE  IInv'
<1>1. /\ TypeOK /\ ~Idle(t) /\ Head(agenda[t]) = "mark" /\ Then(t, <<>>)
      /\ mark' = [kind |-> Kind(t), gen |-> FreshGen]
      /\ UNCHANGED <<drillVars, jack, mixed, cabinetVars, heard, telling, told, history>>
  BY DEF IInv, Mark, At
<1>2. mark' \in [kind : {None, "simulacro", "sismo"}, gen : Nat]
  BY <1>1, AGenerationIsFree DEF Kind, TypeOK
<1>3. TypeOK'
  BY <1>1, <1>2, Pieces, AfterAStep, VoiceTypes DEF TypeOK, cabinetVars
<1>4. QED
  BY <1>1, <1>3, Pieces, CalmStep DEF drillVars, cabinetVars, history

\* The mark is read before the player is stopped.
LEMMA QuietStep ==
  ASSUME IInv, NEW t \in Threads, Quiet(t)
  PROVE  IInv'
<1>1. /\ TypeOK /\ ~Idle(t) /\ Head(agenda[t]) = "quiet"
      /\ UNCHANGED <<drillVars, voiceVars, cabinetVars, telling, told, history>>
  BY DEF IInv, Quiet, At
<1>2. PICK more \in {<<>>, <<"stop">>} : Then(t, more)
  BY DEF Quiet
<1>3. more \in Seq(Steps) /\ \A i \in DOMAIN more : more[i] = "stop"
  <2>1. "stop" \in Steps
    BY DEF Steps
  <2>2. CASE more = <<>>
    BY <2>2, Pieces
  <2>3. CASE more = <<"stop">>
    BY <2>1, <2>3, Pieces
  <2>4. QED
    BY <2>2, <2>3
<1>4. heard' \in [Threads -> Nat]
  BY <1>1 DEF Quiet, TypeOK
<1>5. TypeOK'
  BY <1>1, <1>2, <1>3, <1>4, AfterAStep, VoiceTypes DEF TypeOK, voiceVars, cabinetVars
<1>6. QED
  BY <1>1, <1>2, <1>3, <1>5, CalmStep DEF drillVars, cabinetVars, history

\* The player is stopped.
LEMMA StopPlayerStep ==
  ASSUME IInv, NEW t \in Threads, StopPlayer(t)
  PROVE  IInv'
<1>1. /\ TypeOK /\ ~Idle(t) /\ Head(agenda[t]) = "stop" /\ Then(t, <<>>) /\ jack' = None
      /\ UNCHANGED <<drillVars, mixed, cabinetVars, telling, told, history>>
  BY DEF IInv, StopPlayer, At
<1>2. /\ mark' \in [kind : {None, "simulacro", "sismo"}, gen : Nat]
      /\ heard' \in [Threads -> Nat]
  BY <1>1 DEF StopPlayer, TypeOK
<1>3. TypeOK'
  BY <1>1, <1>2, Pieces, AfterAStep, VoiceTypes DEF TypeOK, cabinetVars
<1>4. QED
  BY <1>1, <1>3, Pieces, CalmStep DEF drillVars, cabinetVars, history

\* The button stops the player...
LEMMA HushStep ==
  ASSUME IInv, Hush
  PROVE  IInv'
<1>1. /\ "silence" \in Threads
      /\ TypeOK /\ ~Idle("silence") /\ Head(agenda["silence"]) = "hush"
      /\ Then("silence", <<>>) /\ jack' = None
      /\ UNCHANGED <<drillVars, mark, mixed, cabinetVars, heard, telling, told, history>>
  BY DEF IInv, Hush, At, Threads, Callers
<1>2. TypeOK'
  BY <1>1, Pieces, AfterAStep, VoiceTypes DEF TypeOK, cabinetVars
<1>3. QED
  BY <1>1, <1>2, Pieces, CalmStep DEF drillVars, cabinetVars, history

\* ...and clears the mark.
LEMMA WipeStep ==
  ASSUME IInv, Wipe
  PROVE  IInv'
<1>1. /\ "silence" \in Threads
      /\ TypeOK /\ ~Idle("silence") /\ Head(agenda["silence"]) = "wipe"
      /\ Then("silence", <<>>)
      /\ UNCHANGED <<drillVars, jack, mixed, cabinetVars, heard, telling, told, history>>
  BY DEF IInv, Wipe, At, Threads, Callers
<1>2. mark' \in [kind : {None, "simulacro", "sismo"}, gen : Nat]
  BY <1>1 DEF Wipe, TypeOK
<1>3. TypeOK'
  BY <1>1, <1>2, Pieces, AfterAStep, VoiceTypes DEF TypeOK, cabinetVars
<1>4. QED
  BY <1>1, <1>3, Pieces, CalmStep DEF drillVars, cabinetVars, history

\* The watcher cuts the voice of a drill, or clears its mark.
LEMMA LookStep ==
  ASSUME IInv, Look
  PROVE  IInv'
<1>1. /\ "watcher" \in Threads
      /\ TypeOK /\ ~Idle("watcher") /\ Head(agenda["watcher"]) = "look"
      /\ UNCHANGED <<drillVars, jack, mixed, cabinetVars, telling, told, history>>
  BY DEF IInv, Look, At, Threads, Callers
<1>2. PICK more \in {<<>>, <<"stop">>} : Then("watcher", more)
  BY DEF Look
<1>3. more \in Seq(Steps) /\ \A i \in DOMAIN more : more[i] = "stop"
  <2>1. "stop" \in Steps
    BY DEF Steps
  <2>2. CASE more = <<>>
    BY <2>2, Pieces
  <2>3. CASE more = <<"stop">>
    BY <2>1, <2>3, Pieces
  <2>4. QED
    BY <2>2, <2>3
<1>4. /\ mark' \in [kind : {None, "simulacro", "sismo"}, gen : Nat]
      /\ heard' \in [Threads -> Nat]
  BY <1>1 DEF Look, TypeOK
<1>5. TypeOK'
  BY <1>1, <1>2, <1>3, <1>4, AfterAStep, VoiceTypes DEF TypeOK, cabinetVars
<1>6. QED
  BY <1>1, <1>2, <1>3, <1>5, CalmStep DEF drillVars, cabinetVars, history

\* The watcher begins a turn that has something to cut.
LEMMA WatchStep ==
  ASSUME IInv, Watch
  PROVE  IInv'
<1>1. /\ "watcher" \in Callers /\ TypeOK /\ Idle("watcher") /\ Begin("watcher", <<"look">>)
      /\ UNCHANGED <<drillVars, voiceVars, cabinetVars, heard, telling, told, history>>
  BY DEF IInv, Watch, Callers
<1>2. <<"look">> \in Seq(Steps) /\ \A i \in DOMAIN <<"look">> : <<"look">>[i] = "look"
  BY Pieces DEF Steps
<1>3. "watcher" \notin left
  BY <1>1, DrillsAssumption, AlarmsAssumption DEF TypeOK
<1>4. agenda' \in [Threads -> Seq(Steps)]
  BY <1>1, <1>2 DEF TypeOK, Begin
<1>5. TypeOK'
  BY <1>1, <1>4, VoiceTypes DEF TypeOK, voiceVars, cabinetVars
<1>6. QED
  BY <1>1, <1>2, <1>3, <1>5, CalmBegin DEF drillVars, cabinetVars, history

\* Somebody plays the voice of the drill from the panel.
LEMMA PanelVoiceStep ==
  ASSUME IInv, PanelVoice
  PROVE  IInv'
<1>1. /\ "panel" \in Callers \cap Threads /\ TypeOK /\ "panel" \in left /\ left' = left \ {"panel"}
      /\ Begin("panel", <<"gate">>)
      /\ UNCHANGED <<drillVars, voiceVars, alert, silenced, heard, telling, told, history>>
  BY DEF IInv, PanelVoice, Input, Callers, Threads
<1>2. <<"gate">> \in Seq(Steps) /\ \A i \in DOMAIN <<"gate">> : <<"gate">>[i] = "gate"
  BY Pieces DEF Steps
<1>3. Idle("panel")
  BY <1>1 DEF IInv, UnusedIsFresh
<1>4. agenda' \in [Threads -> Seq(Steps)]
  BY <1>1, <1>2 DEF TypeOK, Begin
<1>5. TypeOK'
  BY <1>1, <1>4, VoiceTypes DEF TypeOK, voiceVars
<1>6. QED
  BY <1>1, <1>2, <1>3, <1>5, CalmBegin DEF drillVars, history

\* The silence button is pressed.
LEMMA SilenceStep ==
  ASSUME IInv, Silence
  PROVE  IInv'
<1> DEFINE steps == <<"hush", "wipe">>
<1>1. /\ "silence" \in Callers \cap Threads /\ TypeOK /\ "silence" \in left
      /\ left' = left \ {"silence"} /\ silenced' = TRUE /\ Begin("silence", steps)
      /\ UNCHANGED <<drillVars, voiceVars, alert, heard, telling, told, history>>
  BY DEF IInv, Silence, Input, Callers, Threads
<1>2. steps \in Seq(Steps) /\ \A i \in DOMAIN steps : steps[i] \in {"hush", "wipe"}
  BY Pieces DEF Steps
<1> HIDE DEF steps
<1>3. Idle("silence")
  BY <1>1 DEF IInv, UnusedIsFresh
<1>4. agenda' \in [Threads -> Seq(Steps)]
  BY <1>1, <1>2 DEF TypeOK, Begin
<1>5. TypeOK'
  BY <1>1, <1>4, VoiceTypes DEF TypeOK, voiceVars
<1>6. QED
  BY <1>1, <1>2, <1>3, <1>5, CalmBegin DEF drillVars, history

\* An alert is closed, a sound ends, the watcher finds it ended.
LEMMA RestStep ==
  ASSUME IInv, Reset \/ SoundEnds \/ Tidy
  PROVE  IInv'
<1>1. TypeOK /\ alert' \subseteq alert
  BY DEF IInv, Reset, SoundEnds, Tidy, cabinetVars
<1>2. UNCHANGED <<agenda, fate, timer, left, telling, told, caught, haunted>>
  BY DEF Reset, SoundEnds, Tidy, drillVars, cabinetVars, threadVars, history
<1>3. TypeOK'
  BY <1>1 DEF TypeOK, Reset, SoundEnds, Tidy, drillVars, voiceVars, cabinetVars, threadVars,
              history, Live
<1>4. QED
  BY <1>1, <1>2, <1>3, CalmElsewhere

-----------------------------------------------------------------------------
\* The steps of the drill.

\* The command thread is nobody's input.
LEMMA CommandIsApart ==
  ASSUME TypeOK
  PROVE  "command" \in Threads /\ "command" \notin Drills /\ "command" \notin left
         /\ "command" \notin Alarms
  BY DrillsAssumption, AlarmsAssumption DEF TypeOK, Threads, Callers

\* The alarms up are threads, but for an order.
LEMMA AlarmsAreThreads ==
  ASSUME TypeOK
  PROVE  alert \ {"order"} \subseteq Threads
  BY Names DEF TypeOK

\* A drill is new when its order comes, and refused over an alert.
LEMMA CheckStep ==
  ASSUME IInv, NEW d \in Drills, Check(d)
  PROVE  IInv'
<1>0. TypeOK /\ ToldOnce /\ UnusedIsFresh /\ TimersAreTheirs /\ LapseIsFired
      /\ OldTimersHaunt /\ AbortIsOwed
  BY DEF IInv
<1>1. /\ Idle("command") /\ d \in left /\ left' = left \ {d} /\ telling' = telling
      /\ UNCHANGED <<shown, timer, jack, mark, mixed, alert, silenced, heard, told>>
      /\ UNCHANGED <<caught, haunted>>
  BY DEF Check, Input, voiceVars, history
<1>2. fate[d] = "new" /\ timer[d] = "none"
  BY <1>0, <1>1 DEF UnusedIsFresh, TimersAreTheirs
<1>3. /\ fate' = [fate EXCEPT ![d] = fate'[d]]
      /\ fate'[d] \in {"checked", "refused"} /\ (fate'[d] = "checked" => alert = {})
      /\ \A e \in Drills \ {d} : fate'[e] = fate[e]
  BY <1>0 DEF Check, TypeOK
<1>4. /\ agenda' \in [Threads -> Seq(Steps)] /\ TellsComeFirst' /\ TellsAreNoted'
      /\ \A u \in Threads \ {"command"} : agenda'[u] = agenda[u]
      /\ ~Has("command", "lapse")'
  <2>1. <<"start">> \in Seq(Steps) /\ \A i \in DOMAIN <<"start">> : <<"start">>[i] = "start"
    BY Pieces DEF Steps
  <2>2. CASE UNCHANGED agenda
    BY <1>0, <1>1, <2>2 DEF IInv, TypeOK, TellsComeFirst, TellsAreNoted, Has, Idle
  <2>3. CASE Begin("command", <<"start">>)
    <3>1. /\ agenda' \in [Threads -> Seq(Steps)] /\ TellsComeFirst' /\ TellsAreNoted'
          /\ agenda'["command"] = <<"start">>
          /\ \A u \in Threads \ {"command"} : agenda'[u] = agenda[u]
      BY <1>0, <1>1, <2>1, <2>3, CommandIsApart, Beginning
    <3>2. QED
      BY <2>1, <3>1 DEF Has
  <2>4. QED
    BY <2>2, <2>3 DEF Check
<1>5. TypeOK'
  <2>1. fate' \in [Drills -> {"new", "checked", "refused", "active", "replaced",
                              "stopped", "lapsed", "aborted"}]
    BY <1>0, <1>3 DEF TypeOK
  <2>2. \A e \in Drills : Live(e)' => Live(e)
    BY <1>3 DEF Live
  <2>3. QED
    BY <1>0, <1>1, <1>4, <2>1, <2>2 DEF TypeOK
<1>6. ToldOnce'
  BY <1>0, <1>1, <1>2, <1>3 DEF ToldOnce, TypeOK
<1>7. UnusedIsFresh'
  BY <1>0, <1>1, <1>3, <1>4, CommandIsApart DEF UnusedIsFresh, Idle
<1>8. TimersAreTheirs'
  BY <1>0, <1>1, <1>2, <1>3, <1>4, CommandIsApart, Names DEF TimersAreTheirs, Idle, Live
<1>9. LapseIsFired'
  BY <1>0, <1>1, <1>4 DEF LapseIsFired, Has
<1>10. OldTimersHaunt'
  BY <1>0, <1>1, <1>3 DEF OldTimersHaunt, Live
<1>11. AbortIsOwed'
  <2>1. \A a \in alert \ {"order"} : Has(a, "abort")' = Has(a, "abort")
    BY <1>0, <1>4, AlarmsAreThreads, CommandIsApart DEF Has, TypeOK
  <2>2. QED
    BY <1>0, <1>1, <1>3, <2>1 DEF AbortIsOwed
<1>12. QED
  BY <1>4, <1>5, <1>6, <1>7, <1>8, <1>9, <1>10, <1>11 DEF IInv

\* A drill starts over whatever drill there was; a callback that waits haunts it.
LEMMA StartStep ==
  ASSUME IInv, NEW d \in Drills, Start(d)
  PROVE  IInv'
<1>0. TypeOK /\ ToldOnce /\ UnusedIsFresh /\ TimersAreTheirs /\ LapseIsFired
      /\ OldTimersHaunt /\ AbortIsOwed
  BY DEF IInv
<1>1. /\ ~Idle("command") /\ Head(agenda["command"]) = "start" /\ Then("command", <<"gate">>)
      /\ fate[d] = "checked" /\ shown' = d
      /\ UNCHANGED <<jack, mark, mixed, alert, silenced, left, heard, telling, told, caught>>
  BY DEF Start, At, voiceVars, cabinetVars
<1>2. timer[d] = "none" /\ Idle(d)
  BY <1>0, <1>1 DEF TimersAreTheirs
<1>3. /\ fate'[d] = "active"
      /\ \A e \in Drills \ {d} : fate'[e] = IF Live(e) THEN "replaced" ELSE fate[e]
      /\ fate' \in [Drills -> {"new", "checked", "refused", "active", "replaced",
                               "stopped", "lapsed", "aborted"}]
  BY <1>0 DEF Start, TypeOK
<1>4. /\ timer'[d] = "armed"
      /\ \A e \in Drills \ {d} : timer'[e] = IF timer[e] = "armed" THEN "off" ELSE timer[e]
      /\ timer' \in [Drills -> {"none", "armed", "off", "fired", "spent"}]
  BY <1>0 DEF Start, Cancelled, TypeOK
<1>5. /\ haunted \subseteq haunted' /\ haunted' \subseteq Drills
      /\ \A e \in Drills : timer[e] = "fired" => d \in haunted'
  BY <1>0 DEF Start, TypeOK
<1>6. /\ agenda' \in [Threads -> Seq(Steps)]
      /\ \A u \in Threads \ {"command"} : agenda'[u] = agenda[u]
      /\ \A u \in Threads \ {"command"} : \A step : Has(u, step)' = Has(u, step)
      /\ ~Has("command", "lapse")' /\ TellsComeFirst' /\ TellsAreNoted'
  <2>1. <<"gate">> \in Seq(Steps) /\ \A i \in DOMAIN <<"gate">> : <<"gate">>[i] = "gate"
    BY Pieces DEF Steps
  <2>2. "command" \in Threads /\ UNCHANGED telling
    BY <1>0, <1>1, CommandIsApart
  <2>3. TellsComeFirst' /\ TellsAreNoted'
    BY <1>1, <2>1, <2>2, OnwardTells
  <2>4. QED
    BY <1>1, <2>1, <2>2, <2>3, Onward
<1>7. TypeOK'
  <2>1. \A e \in Drills : Live(e)' => shown' = e
    BY <1>1, <1>3 DEF Live
  <2>2. QED
    BY <1>0, <1>1, <1>3, <1>4, <1>5, <1>6, <2>1 DEF TypeOK
<1>8. ToldOnce'
  <2>1. \A e \in Drills : fate[e] = "aborted" => fate'[e] = "aborted"
    BY <1>1, <1>3 DEF Live
  <2>2. QED
    BY <1>0, <1>1, <2>1 DEF ToldOnce, TypeOK
<1>9. UnusedIsFresh'
  <2>1. \A e \in Drills : fate[e] = "new" => fate'[e] = "new"
    BY <1>1, <1>3 DEF Live
  <2>2. QED
    BY <1>0, <1>1, <1>6, <2>1, CommandIsApart DEF UnusedIsFresh, Idle
<1>10. TimersAreTheirs'
  <2>1. \A e \in Drills : agenda'[e] = agenda[e]
    BY <1>0, <1>6, CommandIsApart, Names
  <2>2. QED
    BY <1>0, <1>2, <1>3, <1>4, <2>1 DEF TimersAreTheirs, Idle, Live
<1>11. LapseIsFired'
  BY <1>0, <1>2, <1>4, <1>6 DEF LapseIsFired, Has
<1>12. OldTimersHaunt'
  BY <1>0, <1>3, <1>4, <1>5 DEF OldTimersHaunt, Live
<1>13. AbortIsOwed'
  <2>1. \A a \in alert \ {"order"}, e \in Drills : fate[e] = "checked" => e \in caught
    BY <1>0 DEF AbortIsOwed
  <2>2. \A e \in Drills : fate'[e] \in {"checked", "active"} => fate[e] = "checked"
    BY <1>1, <1>3 DEF Live
  <2>3. QED
    BY <1>1, <2>1, <2>2 DEF AbortIsOwed
<1>14. QED
  BY <1>6, <1>7, <1>8, <1>9, <1>10, <1>11, <1>12, <1>13 DEF IInv

\* The order to stop ends the drill it is for.
LEMMA StopDrillStep ==
  ASSUME IInv, NEW d \in Drills, StopDrill(d)
  PROVE  IInv'
<1>0. TypeOK /\ ToldOnce /\ UnusedIsFresh /\ TimersAreTheirs /\ LapseIsFired
      /\ OldTimersHaunt /\ AbortIsOwed
  BY DEF IInv
<1>1. /\ Idle("command") /\ Begin("command", <<"quiet">>) /\ shown = d /\ Live(d)
      /\ UNCHANGED <<shown, jack, mark, mixed, alert, silenced, left, heard, telling, told>>
      /\ UNCHANGED <<caught, haunted>>
  BY DEF StopDrill, voiceVars, cabinetVars, history
<1>2. /\ fate'[d] = "stopped" /\ \A e \in Drills \ {d} : fate'[e] = fate[e] /\ ~Live(e)
      /\ fate' \in [Drills -> {"new", "checked", "refused", "active", "replaced",
                               "stopped", "lapsed", "aborted"}]
  BY <1>0, <1>1 DEF StopDrill, TypeOK
<1>3. /\ \A e \in Drills : timer'[e] = IF timer[e] = "armed" THEN "off" ELSE timer[e]
      /\ timer' \in [Drills -> {"none", "armed", "off", "fired", "spent"}]
  BY <1>0 DEF StopDrill, Cancelled, TypeOK
<1>4. /\ agenda' \in [Threads -> Seq(Steps)]
      /\ \A u \in Threads \ {"command"} : agenda'[u] = agenda[u]
      /\ ~Has("command", "lapse")' /\ TellsComeFirst' /\ TellsAreNoted'
  <2>1. <<"quiet">> \in Seq(Steps) /\ \A i \in DOMAIN <<"quiet">> : <<"quiet">>[i] = "quiet"
    BY Pieces DEF Steps
  <2>2. /\ agenda' \in [Threads -> Seq(Steps)] /\ TellsComeFirst' /\ TellsAreNoted'
        /\ agenda'["command"] = <<"quiet">>
        /\ \A u \in Threads \ {"command"} : agenda'[u] = agenda[u]
    BY <1>0, <1>1, <2>1, CommandIsApart, Beginning
  <2>3. QED
    BY <2>1, <2>2 DEF Has
<1>5. TypeOK'
  <2>1. \A e \in Drills : ~Live(e)'
    BY <1>2 DEF Live
  <2>2. QED
    BY <1>0, <1>1, <1>2, <1>3, <1>4, <2>1 DEF TypeOK
<1>6. ToldOnce'
  BY <1>0, <1>1, <1>2 DEF ToldOnce, TypeOK, Live
<1>7. UnusedIsFresh'
  BY <1>0, <1>1, <1>2, <1>4, CommandIsApart DEF UnusedIsFresh, Idle, Live
<1>8. TimersAreTheirs'
  <2>1. \A e \in Drills : agenda'[e] = agenda[e]
    BY <1>0, <1>4, CommandIsApart, Names
  <2>2. QED
    BY <1>0, <1>2, <1>3, <2>1 DEF TimersAreTheirs, Idle, Live
<1>9. LapseIsFired'
  BY <1>0, <1>3, <1>4 DEF LapseIsFired, Has
<1>10. OldTimersHaunt'
  BY <1>0, <1>1, <1>2, <1>3 DEF OldTimersHaunt, Live
<1>11. AbortIsOwed'
  <2>1. \A a \in alert \ {"order"}, e \in Drills : fate[e] = "checked" => e \in caught
    BY <1>0 DEF AbortIsOwed
  <2>2. \A e \in Drills : fate'[e] \in {"checked", "active"} => fate[e] = "checked"
    BY <1>0, <1>2 DEF Live, TypeOK
  <2>3. QED
    BY <1>1, <2>1, <2>2 DEF AbortIsOwed
<1>12. QED
  BY <1>4, <1>5, <1>6, <1>7, <1>8, <1>9, <1>10, <1>11 DEF IInv

\* The timer of the live drill calls back, on a thread of its own.
LEMMA TimerFiresStep ==
  ASSUME IInv, NEW d \in Drills, TimerFires(d)
  PROVE  IInv'
<1>0. TypeOK /\ ToldOnce /\ UnusedIsFresh /\ TimersAreTheirs /\ LapseIsFired
      /\ OldTimersHaunt /\ AbortIsOwed
  BY DEF IInv
<1>1. /\ timer[d] = "armed" /\ Begin(d, <<"lapse">>) /\ Live(d) /\ Idle(d) /\ d \in Threads
      /\ UNCHANGED <<fate, shown, jack, mark, mixed, alert, silenced, left, heard, telling, told>>
      /\ UNCHANGED <<caught, haunted>>
  BY <1>0, Names DEF TimerFires, voiceVars, cabinetVars, history, TimersAreTheirs
<1>2. /\ timer'[d] = "fired" /\ \A e \in Drills \ {d} : timer'[e] = timer[e]
      /\ timer' \in [Drills -> {"none", "armed", "off", "fired", "spent"}]
  BY <1>0 DEF TimerFires, TypeOK
<1>3. /\ <<"lapse">> \in Seq(Steps)
      /\ \A i \in DOMAIN <<"lapse">> : i = 1 /\ <<"lapse">>[i] = "lapse"
  BY Pieces DEF Steps
<1>4. /\ agenda' \in [Threads -> Seq(Steps)] /\ TellsComeFirst' /\ TellsAreNoted'
      /\ agenda'[d] = <<"lapse">>
      /\ \A u \in Threads \ {d} : agenda'[u] = agenda[u]
  BY <1>1, <1>3, Beginning
<1>5. TypeOK'
  BY <1>0, <1>1, <1>2, <1>4 DEF TypeOK, Live
<1>6. ToldOnce'
  BY <1>0, <1>1 DEF ToldOnce
<1>7. UnusedIsFresh'
  <2>1. d \notin left
    BY <1>0, <1>1 DEF UnusedIsFresh, Live
  <2>2. QED
    BY <1>0, <1>1, <1>4, <2>1 DEF UnusedIsFresh, Idle
<1>8. TimersAreTheirs'
  BY <1>0, <1>1, <1>2, <1>4, Names DEF TimersAreTheirs, Idle, Live
<1>9. LapseIsFired'
  BY <1>0, <1>2, <1>3, <1>4 DEF LapseIsFired
<1>10. OldTimersHaunt'
  <2>1. \A e \in Drills : Live(e) => e = d
    BY <1>0, <1>1 DEF TypeOK
  <2>2. QED
    BY <1>0, <1>1, <1>2, <2>1 DEF OldTimersHaunt, Live
<1>11. AbortIsOwed'
  <2>1. \A a \in alert \ {"order"} : a # d /\ Has(a, "abort")' = Has(a, "abort")
    BY <1>0, <1>4, AlarmsAreThreads, Names DEF Has, TypeOK
  <2>2. QED
    BY <1>0, <1>1, <2>1 DEF AbortIsOwed
<1>12. QED
  BY <1>4, <1>5, <1>6, <1>7, <1>8, <1>9, <1>10, <1>11 DEF IInv

\* A callback ends the drill there is, which it haunts if it is not its own.
LEMMA LapseStep ==
  ASSUME IInv, NEW d \in Drills, Lapse(d)
  PROVE  IInv'
<1>0. TypeOK /\ ToldOnce /\ UnusedIsFresh /\ TimersAreTheirs /\ LapseIsFired
      /\ OldTimersHaunt /\ AbortIsOwed
  BY DEF IInv
<1>1. /\ ~Idle(d) /\ Head(agenda[d]) = "lapse" /\ d \in Threads
      /\ UNCHANGED <<shown, jack, mark, mixed, alert, silenced, left, heard, telling, told>>
      /\ UNCHANGED <<caught, haunted>>
  BY Names DEF Lapse, At, voiceVars, cabinetVars, history
<1>2. PICK more \in {<<>>, <<"quiet">>} : Then(d, more)
  BY DEF Lapse
<1>3. more \in Seq(Steps) /\ \A i \in DOMAIN more : more[i] = "quiet"
  <2>1. "quiet" \in Steps
    BY DEF Steps
  <2>2. CASE more = <<>>
    BY <2>2, Pieces
  <2>3. CASE more = <<"quiet">>
    BY <2>1, <2>3, Pieces
  <2>4. QED
    BY <2>2, <2>3
<1>4. /\ agenda' \in [Threads -> Seq(Steps)] /\ TellsComeFirst' /\ TellsAreNoted'
      /\ \A u \in Threads \ {d} : agenda'[u] = agenda[u]
      /\ \A u \in Threads \ {d} : \A step : Has(u, step)' = Has(u, step)
      /\ ~Has(d, "lapse")' /\ Has(d, "lapse")
  <2>1. TellsComeFirst' /\ TellsAreNoted'
    BY <1>1, <1>2, <1>3, OnwardTells
  <2>2. QED
    BY <1>1, <1>2, <1>3, <2>1, Onward
<1>5. timer[d] = "fired"
  BY <1>0, <1>1, <1>4 DEF LapseIsFired, Has
<1>6. /\ timer'[d] = "spent"
      /\ \A e \in Drills \ {d} : timer'[e] = IF timer[e] = "armed" THEN "off" ELSE timer[e]
      /\ timer' \in [Drills -> {"none", "armed", "off", "fired", "spent"}]
  BY <1>0 DEF Lapse, Cancelled, TypeOK
<1>7. /\ \A e \in Drills : fate'[e] = IF Live(e) THEN "lapsed" ELSE fate[e]
      /\ fate' \in [Drills -> {"new", "checked", "refused", "active", "replaced",
                               "stopped", "lapsed", "aborted"}]
  <2>1. CASE ActiveDrill
    <3>1. shown \in Drills /\ fate' = [fate EXCEPT ![shown] = "lapsed"]
      BY <1>0, <2>1 DEF Lapse, ActiveDrill, TypeOK
    <3>2. \A e \in Drills : Live(e) <=> e = shown
      BY <1>0, <2>1 DEF ActiveDrill, TypeOK
    <3>3. QED
      BY <1>0, <3>1, <3>2 DEF TypeOK
  <2>2. CASE ~ActiveDrill
    <3>1. fate' = fate /\ \A e \in Drills : ~Live(e)
      BY <1>0, <2>2, Names DEF Lapse, ActiveDrill, TypeOK
    <3>2. QED
      BY <1>0, <3>1 DEF TypeOK
  <2>3. QED
    BY <2>1, <2>2
<1>8. TypeOK'
  <2>1. \A e \in Drills : ~Live(e)'
    BY <1>7 DEF Live
  <2>2. QED
    BY <1>0, <1>1, <1>4, <1>6, <1>7, <2>1 DEF TypeOK
<1>9. ToldOnce'
  BY <1>0, <1>1, <1>7 DEF ToldOnce, TypeOK, Live
<1>10. UnusedIsFresh'
  BY <1>0, <1>1, <1>4, <1>7 DEF UnusedIsFresh, Idle, Live
<1>11. TimersAreTheirs'
  <2>1. \A e \in Drills \ {d} : agenda'[e] = agenda[e]
    BY <1>4, Names
  <2>2. QED
    BY <1>0, <1>5, <1>6, <1>7, <2>1 DEF TimersAreTheirs, Idle, Live
<1>12. LapseIsFired'
  BY <1>0, <1>4, <1>6 DEF LapseIsFired, Has
<1>13. OldTimersHaunt'
  <2>1. \A e \in Drills : fate'[e] # "active"
    BY <1>7 DEF Live
  <2>2. \A e \in Drills : fate'[e] = "lapsed" => timer'[e] = "spent" \/ e \in haunted
    BY <1>0, <1>5, <1>6, <1>7 DEF OldTimersHaunt
  <2>3. QED
    BY <1>1, <2>1, <2>2 DEF OldTimersHaunt, Live
<1>14. AbortIsOwed'
  <2>1. \A a \in alert \ {"order"}, e \in Drills : fate[e] = "checked" => e \in caught
    BY <1>0 DEF AbortIsOwed
  <2>2. \A e \in Drills : fate'[e] \in {"checked", "active"} => fate[e] = "checked"
    BY <1>7 DEF Live
  <2>3. QED
    BY <1>1, <2>1, <2>2 DEF AbortIsOwed
<1>15. QED
  BY <1>4, <1>8, <1>9, <1>10, <1>11, <1>12, <1>13, <1>14 DEF IInv

\* An alert has its aborts on the agenda; a drill between its check and its start is caught.
LEMMA RiseStep ==
  ASSUME IInv, NEW a \in Alarms, Rise(a)
  PROVE  IInv'
<1>0. TypeOK /\ ToldOnce /\ UnusedIsFresh /\ TimersAreTheirs /\ LapseIsFired
      /\ OldTimersHaunt /\ AbortIsOwed
  BY DEF IInv
<1>1. /\ a \in left /\ left' = left \ {a} /\ alert' = alert \cup {a} /\ silenced' = FALSE
      /\ caught' = caught \cup {d \in Drills : fate[d] = "checked"}
      /\ UNCHANGED <<fate, shown, timer, jack, mark, mixed, heard, telling, told, haunted>>
  BY DEF Rise, Input, drillVars, voiceVars
<1>2. /\ agenda' \in [Threads -> Seq(Steps)] /\ TellsComeFirst' /\ TellsAreNoted'
      /\ \A u \in Threads \ {a} : agenda'[u] = agenda[u]
      /\ a # "order" => a \in Threads /\ ~Has(a, "lapse")' /\ Has(a, "abort")'
  <2>1. CASE a = "order"
    <3>1. agenda' = agenda
      BY <2>1 DEF Rise
    <3>2. QED
      BY <1>0, <1>1, <2>1, <3>1 DEF IInv, TypeOK, TellsComeFirst, TellsAreNoted, Has
  <2>2. CASE a # "order"
    <3> DEFINE steps == Follows(a)
    <3>1. a \in {"sasmex", "tier", "quorum"} /\ a \in Threads
      BY <2>2, AlarmsAssumption, Names
    <3>2. steps \in {<<"gate", "abort", "abort">>, <<"gate", "abort">>, <<"abort">>}
      BY <3>1 DEF Follows
    <3>3. Begin(a, steps) /\ Idle(a)
      BY <1>0, <1>1, <2>2, <3>1 DEF Rise, UnusedIsFresh
    <3> HIDE DEF steps
    <3>4. /\ steps \in Seq(Steps) /\ \A i \in DOMAIN steps : steps[i] \in {"gate", "abort"}
          /\ \E i \in DOMAIN steps : steps[i] = "abort"
      <4>1. "gate" \in Steps /\ "abort" \in Steps
        BY DEF Steps
      <4>2. CASE steps = <<"gate", "abort", "abort">>
        BY <4>1, <4>2, Pieces
      <4>3. CASE steps = <<"gate", "abort">>
        BY <4>1, <4>3, Pieces
      <4>4. CASE steps = <<"abort">>
        BY <4>1, <4>4, Pieces
      <4>5. QED
        BY <3>2, <4>2, <4>3, <4>4
    <3>5. /\ agenda' \in [Threads -> Seq(Steps)] /\ TellsComeFirst' /\ TellsAreNoted'
          /\ agenda'[a] = steps /\ \A u \in Threads \ {a} : agenda'[u] = agenda[u]
      BY <1>1, <3>1, <3>3, <3>4, Beginning
    <3>6. QED
      BY <3>1, <3>4, <3>5 DEF Has
  <2>3. QED
    BY <2>1, <2>2
<1>3. TypeOK'
  BY <1>0, <1>1, <1>2 DEF TypeOK, Live
<1>4. ToldOnce'
  BY <1>0, <1>1 DEF ToldOnce
<1>5. UnusedIsFresh'
  BY <1>0, <1>1, <1>2 DEF UnusedIsFresh, Idle
<1>6. TimersAreTheirs'
  <2>1. a \notin Drills
    BY Names
  <2>2. \A e \in Drills : agenda'[e] = agenda[e]
    BY <1>2, <2>1, Names
  <2>3. QED
    BY <1>0, <1>1, <2>2 DEF TimersAreTheirs, Idle, Live
<1>7. LapseIsFired'
  <2>1. \A u \in Threads : u = a => ~Has(u, "lapse")'
    BY DrillsAssumption, <1>2 DEF Threads, Callers
  <2>2. QED
    BY <1>0, <1>1, <1>2, <2>1 DEF LapseIsFired, Has
<1>8. OldTimersHaunt'
  BY <1>0, <1>1 DEF OldTimersHaunt, Live
<1>9. AbortIsOwed'
  <2>1. \A b \in alert \ {"order", a} : Has(b, "abort")' = Has(b, "abort")
    BY <1>0, <1>2, AlarmsAreThreads DEF Has
  <2>2. QED
    BY <1>0, <1>1, <1>2, <2>1 DEF AbortIsOwed
<1>10. QED
  BY <1>2, <1>3, <1>4, <1>5, <1>6, <1>7, <1>8, <1>9 DEF IInv

\* An abort ends the drill there is, which from then on is to be told, by this thread.
LEMMA AbortStep ==
  ASSUME IInv, NEW t \in Threads, Abort(t)
  PROVE  IInv'
<1>0. TypeOK /\ TellsComeFirst /\ TellsAreNoted /\ ToldOnce /\ UnusedIsFresh
      /\ TimersAreTheirs /\ LapseIsFired /\ OldTimersHaunt /\ AbortIsOwed
  BY DEF IInv
<1>1. /\ ~Idle(t) /\ Head(agenda[t]) = "abort"
      /\ UNCHANGED <<shown, jack, mark, mixed, alert, silenced, left, heard, told>>
      /\ UNCHANGED <<caught, haunted>>
  BY DEF Abort, At, voiceVars, cabinetVars, history
<1>2. ~Has(t, "tell") /\ telling[t] = None
  BY <1>1, NothingToTell
<1>3. CASE ActiveDrill
  <2> DEFINE more == <<"quiet", "tell">>
  <2>1. more \in Seq(Steps) /\ DOMAIN more = {1, 2} /\ more[1] = "quiet" /\ more[2] = "tell"
    BY Pieces DEF Steps
  <2>2. Then(t, more) /\ telling' = [telling EXCEPT ![t] = shown] /\ timer' = Cancelled
        /\ fate' = [fate EXCEPT ![shown] = "aborted"]
    BY <1>3 DEF Abort, End
  <2> HIDE DEF more
  <2>3. /\ shown \in Drills /\ fate[shown] = "active"
        /\ \A e \in Drills \ {shown} : ~Live(e) /\ fate'[e] = fate[e]
        /\ fate'[shown] = "aborted"
        /\ fate' \in [Drills -> {"new", "checked", "refused", "active", "replaced",
                                 "stopped", "lapsed", "aborted"}]
    BY <1>0, <1>3, <2>2 DEF ActiveDrill, TypeOK, Live
  <2>4. /\ \A e \in Drills : timer'[e] = IF timer[e] = "armed" THEN "off" ELSE timer[e]
        /\ timer' \in [Drills -> {"none", "armed", "off", "fired", "spent"}]
    BY <1>0, <2>2 DEF Cancelled, TypeOK
  <2>5. /\ telling'[t] = shown /\ \A u \in Threads \ {t} : telling'[u] = telling[u]
        /\ telling' \in [Threads -> Drills \cup {None}] /\ shown # None
    BY <1>0, <2>2, <2>3, Names DEF TypeOK
  <2>6. /\ agenda' \in [Threads -> Seq(Steps)]
        /\ \A u \in Threads \ {t} : agenda'[u] = agenda[u]
        /\ \A u \in Threads \ {t} : \A step : Has(u, step)' = Has(u, step)
        /\ ~Has(t, "lapse")' /\ Has(t, "tell")'
    BY <1>1, <2>1, <2>2, Onward
  <2>7. TellsComeFirst'
    <3>1. ASSUME NEW i \in DOMAIN agenda'[t], agenda'[t][i] = "tell"
          PROVE  i = 2 /\ agenda'[t][1] = "quiet"
      BY <1>0, <1>2, <2>1, <2>2, <1>1, <3>1, AfterAStep DEF Has
    <3>2. \A i \in DOMAIN agenda'[t] : agenda'[t][i] = "tell"
            => \A j \in 1..i - 1 : agenda'[t][j] \in {"quiet", "stop"}
      BY <3>1
    <3>3. QED
      BY <1>0, <2>5, <2>6, <3>2 DEF TellsComeFirst
  <2>8. TellsAreNoted'
    BY <1>0, <2>5, <2>6 DEF TellsAreNoted
  <2>9. ToldOnce'
    <3>1. told[shown] = 0
      <4>1. told[shown] \in Nat /\ ~(told[shown] > 0)
        BY <1>0, <2>3 DEF ToldOnce, TypeOK
      <4>2. QED
        BY <4>1
    <3>2. \A u \in Threads : telling[u] # shown
      BY <1>0, <2>3, <2>5 DEF ToldOnce
    <3>3. \A e \in Drills : fate[e] = "aborted" => fate'[e] = "aborted"
      BY <2>3
    <3>4. \A u \in Threads : telling[u] # None => fate[telling[u]] = "aborted" /\ told[telling[u]] = 0
      BY <1>0 DEF ToldOnce
    <3>5. \A u \in Threads : telling[u] \in Drills \cup {None}
      BY <1>0 DEF TypeOK
    <3>6. \A u \in Threads : telling'[u] # None
            => fate'[telling'[u]] = "aborted" /\ told'[telling'[u]] = 0
      <4>1. fate'[telling'[t]] = "aborted" /\ told'[telling'[t]] = 0
        BY <1>1, <2>3, <2>5, <3>1
      <4>2. QED
        BY <1>1, <2>5, <3>3, <3>4, <3>5, <4>1
    <3>7. \A u, v \in Threads : telling'[u] # None /\ telling'[u] = telling'[v] => u = v
      <4>1. \A u, v \in Threads : telling[u] # None /\ telling[u] = telling[v] => u = v
        BY <1>0 DEF ToldOnce
      <4>2. QED
        BY <2>5, <3>2, <4>1
    <3>8. \A e \in Drills : told'[e] > 0 => fate'[e] = "aborted" /\ told'[e] = 1
      BY <1>0, <1>1, <3>3 DEF ToldOnce
    <3>9. QED
      BY <3>6, <3>7, <3>8 DEF ToldOnce
  <2>10. TypeOK'
    <3>1. \A e \in Drills : ~Live(e)'
      BY <2>3 DEF Live
    <3>2. QED
      BY <1>0, <1>1, <2>3, <2>4, <2>5, <2>6, <3>1 DEF TypeOK
  <2>11. UnusedIsFresh'
    BY <1>0, <1>1, <2>3, <2>6 DEF UnusedIsFresh, Idle
  <2>12. TimersAreTheirs'
    <3>1. \A e \in Drills : Idle(e) => Idle(e)'
      BY <1>1, <2>6, Names DEF Idle
    <3>2. QED
      BY <1>0, <2>3, <2>4, <3>1 DEF TimersAreTheirs, Live
  <2>13. LapseIsFired'
    BY <1>0, <2>4, <2>6 DEF LapseIsFired, Has
  <2>14. OldTimersHaunt'
    BY <1>0, <1>1, <2>3, <2>4 DEF OldTimersHaunt, Live
  <2>15. AbortIsOwed'
    <3>1. \A a \in alert \ {"order"}, e \in Drills : fate[e] = "checked" => e \in caught
      BY <1>0 DEF AbortIsOwed
    <3>2. \A e \in Drills : fate'[e] \in {"checked", "active"} => fate[e] = "checked"
      BY <2>3 DEF Live
    <3>3. QED
      BY <1>1, <3>1, <3>2 DEF AbortIsOwed
  <2>16. QED
    BY <2>7, <2>8, <2>9, <2>10, <2>11, <2>12, <2>13, <2>14, <2>15 DEF IInv
<1>4. CASE ~ActiveDrill
  <2>1. Then(t, <<>>) /\ UNCHANGED <<fate, timer, telling>>
    BY <1>4 DEF Abort
  <2>2. \A e \in Drills : ~Live(e)
    BY <1>0, <1>4, Names DEF ActiveDrill, TypeOK
  <2>3. /\ agenda' \in [Threads -> Seq(Steps)]
        /\ \A u \in Threads \ {t} : agenda'[u] = agenda[u]
        /\ ~Has(t, "lapse")' /\ TellsComeFirst' /\ TellsAreNoted'
    <3>1. TellsComeFirst' /\ TellsAreNoted'
      BY <1>1, <2>1, Pieces, OnwardTells
    <3>2. QED
      BY <1>1, <2>1, <3>1, Pieces, Onward
  <2>4. TypeOK'
    BY <1>0, <1>1, <2>1, <2>3 DEF TypeOK, Live
  <2>5. ToldOnce' /\ OldTimersHaunt'
    BY <1>0, <1>1, <2>1 DEF ToldOnce, OldTimersHaunt, Live
  <2>6. UnusedIsFresh'
    BY <1>0, <1>1, <2>1, <2>3 DEF UnusedIsFresh, Idle
  <2>7. TimersAreTheirs'
    <3>1. \A e \in Drills : Idle(e) => Idle(e)'
      BY <1>1, <2>3, Names DEF Idle
    <3>2. QED
      BY <1>0, <2>1, <3>1 DEF TimersAreTheirs, Live
  <2>8. LapseIsFired'
    BY <1>0, <2>1, <2>3 DEF LapseIsFired, Has
  <2>9. AbortIsOwed'
    BY <1>0, <1>1, <2>1, <2>2 DEF AbortIsOwed, Live
  <2>10. QED
    BY <2>3, <2>4, <2>5, <2>6, <2>7, <2>8, <2>9 DEF IInv
<1>5. QED
  BY <1>3, <1>4

\* Telling is done once.
LEMMA TellStep ==
  ASSUME IInv, NEW t \in Threads, Tell(t)
  PROVE  IInv'
<1>0. TypeOK /\ TellsComeFirst /\ TellsAreNoted /\ ToldOnce /\ UnusedIsFresh
      /\ TimersAreTheirs /\ LapseIsFired /\ OldTimersHaunt /\ AbortIsOwed
  BY DEF IInv
<1>1. /\ ~Idle(t) /\ Head(agenda[t]) = "tell" /\ Then(t, <<>>)
      /\ told' = [told EXCEPT ![telling[t]] = @ + 1]
      /\ telling' = [telling EXCEPT ![t] = None]
      /\ UNCHANGED <<fate, shown, timer, jack, mark, mixed, alert, silenced, left, heard>>
      /\ UNCHANGED <<caught, haunted>>
  BY DEF Tell, At, drillVars, voiceVars, cabinetVars, history
<1>2. /\ agenda' \in [Threads -> Seq(Steps)]
      /\ \A u \in Threads \ {t} : agenda'[u] = agenda[u]
      /\ \A u \in Threads \ {t} : \A step : Has(u, step)' = Has(u, step)
      /\ Has(t, "abort") => Has(t, "abort")'
      /\ ~Has(t, "lapse")'
  BY <1>1, Pieces, Onward
<1>3. 1 \in DOMAIN agenda[t] /\ agenda[t][1] = "tell"
  BY <1>0, <1>1, Pieces, AfterAStep
<1>4. telling[t] \in Drills /\ told[telling[t]] = 0 /\ fate[telling[t]] = "aborted"
  BY <1>0, <1>3 DEF TellsComeFirst, ToldOnce, TypeOK
<1>5. /\ \A e \in Drills : told'[e] = IF e = telling[t] THEN 1 ELSE told[e]
      /\ told' \in [Drills -> Nat]
  BY <1>0, <1>1, <1>4 DEF TypeOK
<1>6. /\ telling'[t] = None /\ \A u \in Threads \ {t} : telling'[u] = telling[u]
      /\ telling' \in [Threads -> Drills \cup {None}]
  BY <1>0, <1>1 DEF TypeOK
<1>7. ~Has(t, "tell")'
  <2>1. ASSUME NEW i \in DOMAIN agenda[t] \ {1}
        PROVE  agenda[t][i] # "tell"
    <3>1. agenda[t] \in Seq(Steps)
      BY <1>0 DEF TypeOK
    <3>2. 1 \in 1..i - 1
      BY <3>1
    <3>3. QED
      BY <1>0, <1>3, <3>2 DEF TellsComeFirst
  <2>2. ASSUME NEW i \in DOMAIN agenda'[t]
        PROVE  agenda'[t][i] # "tell"
    <3> DEFINE none == <<>>
    <3>1. none \in Seq(Steps) /\ DOMAIN none = {} /\ Len(none) = 0 /\ Then(t, none)
      BY <1>1, Pieces
    <3> HIDE DEF none
    <3>2. \/ i \in DOMAIN none /\ agenda'[t][i] = none[i]
          \/ /\ i > Len(none) /\ i - Len(none) + 1 \in DOMAIN agenda[t]
             /\ agenda'[t][i] = agenda[t][i - Len(none) + 1]
      <4>1. TypeOK /\ t \in Threads /\ ~Idle(t) /\ Then(t, none) /\ none \in Seq(Steps)
        BY <1>0, <1>1, <3>1
      <4>2. \A j \in DOMAIN agenda'[t] :
              \/ j \in DOMAIN none /\ agenda'[t][j] = none[j]
              \/ /\ j > Len(none) /\ j - Len(none) + 1 \in DOMAIN agenda[t]
                 /\ agenda'[t][j] = agenda[t][j - Len(none) + 1]
        BY <4>1, AfterAStep
      <4>3. QED
        BY <4>2
    <3>3. i \in Nat
      BY <1>2
    <3>4. i > 0 /\ i - Len(none) + 1 = i + 1 /\ i + 1 # 1
      BY <3>1, <3>2, <3>3
    <3>5. QED
      BY <2>1, <3>1, <3>2, <3>4
  <2>3. QED
    BY <2>2 DEF Has
<1>8. TellsComeFirst'
  BY <1>0, <1>2, <1>6, <1>7 DEF TellsComeFirst, Has
<1>9. TellsAreNoted'
  BY <1>0, <1>2, <1>6 DEF TellsAreNoted
<1>10. ToldOnce'
  BY <1>0, <1>1, <1>4, <1>5, <1>6, Names DEF ToldOnce
<1>11. TypeOK'
  BY <1>0, <1>1, <1>2, <1>5, <1>6 DEF TypeOK, Live
<1>12. UnusedIsFresh'
  BY <1>0, <1>1, <1>2 DEF UnusedIsFresh, Idle
<1>13. TimersAreTheirs'
  <2>1. \A e \in Drills : Idle(e) => Idle(e)'
    BY <1>1, <1>2, Names DEF Idle
  <2>2. QED
    BY <1>0, <1>1, <2>1 DEF TimersAreTheirs, Live
<1>14. LapseIsFired'
  BY <1>0, <1>1, <1>2 DEF LapseIsFired, Has
<1>15. OldTimersHaunt'
  BY <1>0, <1>1 DEF OldTimersHaunt, Live
<1>16. AbortIsOwed'
  BY <1>0, <1>1, <1>2, AlarmsAreThreads DEF AbortIsOwed
<1>17. QED
  BY <1>8, <1>9, <1>10, <1>11, <1>12, <1>13, <1>14, <1>15, <1>16 DEF IInv

-----------------------------------------------------------------------------
\* The invariant of every behaviour.

\* It holds before anything comes.
LEMMA Begins ==
  Init => IInv
<1> SUFFICES ASSUME Init PROVE IInv
  OBVIOUS
<1>1. TypeOK
  <2>1. left \subseteq Alarms \cup Drills \cup {"panel", "silence"}
    BY InputsAssumption DEF Init
  <2>2. agenda \in [Threads -> Seq(Steps)]
    BY Pieces DEF Init
  <2>3. QED
    BY <2>1, <2>2 DEF Init, TypeOK, Live
<1>2. \A t \in Threads : agenda[t] = <<>> /\ DOMAIN agenda[t] = {} /\ telling[t] = None
  BY Pieces DEF Init
<1>3. TellsComeFirst /\ TellsAreNoted /\ LapseIsFired
  BY <1>2 DEF TellsComeFirst, TellsAreNoted, LapseIsFired
<1>4. ToldOnce
  BY <1>2 DEF Init, ToldOnce
<1>5. UnusedIsFresh /\ TimersAreTheirs
  BY <1>2, Names DEF Init, UnusedIsFresh, TimersAreTheirs, Idle
<1>6. OldTimersHaunt /\ AbortIsOwed
  BY DEF Init, OldTimersHaunt, AbortIsOwed, Live
<1>7. QED
  BY <1>1, <1>3, <1>4, <1>5, <1>6 DEF IInv

\* A step of a thread, whichever is next on its agenda.
LEMMA ThreadStep ==
  ASSUME IInv, NEW t \in Threads, Step(t)
  PROVE  IInv'
<1>1. CASE Abort(t)
  BY <1>1, AbortStep
<1>2. CASE Tell(t)
  BY <1>2, TellStep
<1>3. CASE Gate(t)
  BY <1>3, GateStep
<1>4. CASE Sound(t)
  BY <1>4, SoundStep
<1>5. CASE Mark(t)
  BY <1>5, MarkStep
<1>6. CASE Quiet(t)
  BY <1>6, QuietStep
<1>7. CASE StopPlayer(t)
  BY <1>7, StopPlayerStep
<1>8. QED
  BY <1>1, <1>2, <1>3, <1>4, <1>5, <1>6, <1>7 DEF Step

\* A thread that has work.
LEMMA WorkerStep ==
  ASSUME IInv, Worker
  PROVE  IInv'
<1>1. /\ "command" \in Threads /\ "panel" \in Threads /\ Drills \subseteq Threads
      /\ Alarms \ {"order"} \subseteq Threads
  BY Names DEF Callers
<1>2. CASE \E d \in Drills : Start(d)
  BY <1>2, StartStep
<1>3. CASE Step("command")
  BY <1>1, <1>3, ThreadStep
<1>4. CASE Hush
  BY <1>4, HushStep
<1>5. CASE Wipe
  BY <1>5, WipeStep
<1>6. CASE Step("panel")
  BY <1>1, <1>6, ThreadStep
<1>7. ASSUME NEW d \in Drills, Timer(d)
      PROVE  IInv'
  <2>1. CASE TimerFires(d)
    BY <2>1, TimerFiresStep
  <2>2. CASE Lapse(d)
    BY <2>2, LapseStep
  <2>3. CASE Step(d)
    BY <1>1, <2>3, ThreadStep
  <2>4. QED
    BY <1>7, <2>1, <2>2, <2>3 DEF Timer
<1>8. ASSUME NEW a \in Alarms \ {"order"}, Step(a)
      PROVE  IInv'
  BY <1>1, <1>8, ThreadStep
<1>9. QED
  BY <1>2, <1>3, <1>4, <1>5, <1>6, <1>7, <1>8 DEF Worker, Command, Button

\* A turn of the 20 Hz watcher.
LEMMA WatcherStep ==
  ASSUME IInv, Watcher
  PROVE  IInv'
<1>1. CASE Tidy
  BY <1>1, RestStep
<1>2. CASE Watch
  BY <1>2, WatchStep
<1>3. CASE Look
  BY <1>3, LookStep
<1>4. CASE Step("watcher")
  <2>1. "watcher" \in Threads
    BY Names DEF Callers
  <2>2. QED
    BY <1>4, <2>1, ThreadStep
<1>5. QED
  BY <1>1, <1>2, <1>3, <1>4 DEF Watcher

\* Every step keeps the invariant.
LEMMA GoesOn ==
  IInv /\ [Next]_vars => IInv'
<1> SUFFICES ASSUME IInv, [Next]_vars PROVE IInv'
  OBVIOUS
<1>1. ASSUME NEW d \in Drills, Check(d) \/ StopDrill(d)
      PROVE  IInv'
  BY <1>1, CheckStep, StopDrillStep
<1>2. ASSUME NEW a \in Alarms, Rise(a)
      PROVE  IInv'
  BY <1>2, RiseStep
<1>3. CASE Reset \/ SoundEnds
  BY <1>3, RestStep
<1>4. CASE PanelVoice \/ Silence
  BY <1>4, PanelVoiceStep, SilenceStep
<1>5. CASE Worker \/ Watcher
  BY <1>5, WorkerStep, WatcherStep
<1>6. CASE UNCHANGED vars
  <2>1. UNCHANGED <<agenda, fate, shown, timer, jack, mark, mixed, alert, silenced, left>>
    BY <1>6 DEF vars, drillVars, voiceVars, cabinetVars, threadVars
  <2>2. UNCHANGED <<heard, telling, told, caught, haunted>>
    BY <1>6 DEF vars, threadVars, history
  <2>3. TypeOK'
    BY <2>1, <2>2 DEF IInv, TypeOK, Live
  <2>4. QED
    BY <2>1, <2>2, <2>3, CalmElsewhere
<1>7. QED
  BY <1>1, <1>2, <1>3, <1>4, <1>5, <1>6 DEF Next

\* Every state of every behaviour satisfies the inductive invariant: what each
\* thread, timer and alert has yet to do with the drill is on its agenda.
THEOREM Invariance ==
  Spec => []IInv
BY Begins, GoesOn, PTL DEF Spec

\* The real alert wins: once a SASMEX alert, an instrumental tier or a quorum has run
\* its aborts (RealEvents, abort_drill), no drill is active, unless the alert came
\* between start_drill's reading of the alert and its lock.
THEOREM RealAlertWins ==
  Spec => []RealWins
<1>1. IInv => RealWins
  <2> SUFFICES ASSUME IInv, NEW a \in alert \ {"order"}, Idle(a), NEW d \in Drills, Live(d)
               PROVE  d \in caught
    BY DEF RealWins, IInv
  <2>1. agenda[a] = <<>>
    BY DEF Idle
  <2>2. ~Has(a, "abort")
    BY <2>1, Pieces DEF Has
  <2>3. QED
    BY <2>2 DEF IInv, AbortIsOwed, Live
<1>2. QED
  BY <1>1, Invariance, PTL

\* A drill ends by a window only at the end of its own (_on_window_end), unless an old
\* callback was already waiting when it started; and the cloud is told of an abort once,
\* and of no other end.
THEOREM DrillEndsAsTold ==
  Spec => []EndsAsTold
<1>1. IInv => EndsAsTold
  BY DEF IInv, EndsAsTold, OldTimersHaunt, ToldOnce
<1>2. QED
  BY <1>1, Invariance, PTL

=============================================================================
