---------------------------- MODULE EpisodeProofs ----------------------------
(***************************************************************************)
(* The life of an episode for every set of threads and tiers and any       *)
(* number of identities: protection is held until a silence that nothing   *)
(* disturbed, and an opening the cloud heard of is followed by its         *)
(* closing.  Then, for a cabinet whose packets come by one thread and      *)
(* whose operator does not touch the alert: one identity per episode, one  *)
(* tracker followed by engine and cloud, one episode per earthquake.       *)
(***************************************************************************)
EXTENDS Episode, TLAPS

\* What alerts has an identity; an episode is open exactly when it has a tier,
\* and a degradation of the sensors opens none.
Named(e) == (e.id = NoId <=> e.tier = "normal") /\ e.tier # "manual_only"
AlertsAreNamed ==
  /\ \A t \in Threads : dec[t].tier # "normal" => dec[t].id # NoId
  /\ Named([tier |-> tier, id |-> id]) /\ Named(file)

\* A transition is held only between observe() and its publication.
TransitionsAreFresh ==
  \A t \in Threads :
    /\ pc[t] # "observed" => out[t] = Nothing
    /\ out[t].new # "normal" => out[t].id # NoId

\* A clock that runs has seen no shaking.
ClockIsClean == quiet # "none" => ~disturbed

\* Whoever was told of x, or is about to be, will be told of its end.
Owed(x) ==
  \/ x \in closed \/ x = id
  \/ \E t \in Threads : out[t] = [id |-> x, new |-> "normal"]
OpeningsAreOwed ==
  /\ \A x \in opened : Owed(x)
  /\ \A t \in Threads : out[t].new # "normal" => Owed(out[t].id)

\* A disk that takes every write holds the episode that is open.
FileIsTheEpisode == ~DiskFails /\ id # NoId => file = [tier |-> tier, id |-> id]

IInv ==
  /\ TypeOK /\ AlertsAreNamed /\ TransitionsAreFresh /\ ClockIsClean
  /\ FileIsTheEpisode /\ (crashes = 0 => OpeningsAreOwed)

-----------------------------------------------------------------------------
\* The ranks are numbers; only the shakings are above normal.
LEMMA Ranks ==
  /\ \A t \in Tier : Rank(t) \in -1..3 /\ (t # "manual_only" => Rank(t) >= 0)
  /\ \A t \in Tier \ {"normal", "manual_only"} : Rank(t) > 0
  /\ Rank("normal") = 0 /\ Rank("manual_only") = -1
  BY DEF Rank, Tier

\* What observe() does, by cases: the cap, a rise, nothing, the silence.
LEMMA ObserveCases ==
  ASSUME TypeOK, NEW t \in Threads, Observe(t)
  PROVE  \/ id # NoId /\ (old \/ (quiet = "complete" /\ read[t] = "down")) /\ Close(t)
         \/ Rank(dec[t].tier) > Rank(tier) /\ OpenOrEscalate(t)
         \/ /\ Rank(dec[t].tier) <= Rank(tier) /\ (dec[t].tier # "normal" \/ id = NoId)
            /\ NothingToSay(t)
         \/ id # NoId /\ dec[t].tier = "normal" /\ Wait(t)
<1>1. dec[t].tier \in Tier /\ Rank(dec[t].tier) \in Int /\ Rank(tier) \in Int
  BY Ranks DEF TypeOK, Decision
<1>2. CASE id # NoId /\ old
  BY <1>2 DEF Observe
<1>3. CASE ~(id # NoId /\ old) /\ Rank(dec[t].tier) > Rank(tier)
  BY <1>1, <1>3 DEF Observe
<1>4. CASE /\ ~(id # NoId /\ old) /\ Rank(dec[t].tier) <= Rank(tier)
           /\ dec[t].tier # "normal" \/ id = NoId
  BY <1>1, <1>4 DEF Observe
<1>5. CASE /\ ~(id # NoId /\ old) /\ Rank(dec[t].tier) <= Rank(tier)
           /\ dec[t].tier = "normal" /\ id # NoId
  BY <1>1, <1>5 DEF Observe
<1>6. QED
  BY <1>1, <1>2, <1>3, <1>4, <1>5

\* Nothing is open and nothing has been told.
LEMMA Begins == Init => IInv
<1> SUFFICES ASSUME Init PROVE IInv
  OBVIOUS
<1> USE DEF Init
<1>1. TypeOK
  <2>1. NoFile \in Episodes /\ NoDecision \in Decision /\ Nothing \in Transition
    BY DEF NoDecision, Nothing, NoFile, Decision, Transition, Episodes, Tier
  <2>2. /\ engine \in Id \cup {NoId} /\ minted \in 0..MaxIds /\ tier \in Tier
        /\ id \in Id \cup {NoId} /\ crashes \in 0..MaxCrashes /\ cloudTier \in Tier
    BY BoundsAssumption DEF Tier
  <2>4. QED
    BY <2>1, <2>2 DEF TypeOK
<1>2. AlertsAreNamed /\ TransitionsAreFresh /\ ClockIsClean /\ FileIsTheEpisode /\ OpeningsAreOwed
  BY DEF AlertsAreNamed, Named, TransitionsAreFresh, ClockIsClean, FileIsTheEpisode,
         OpeningsAreOwed, NoDecision, Nothing, NoFile
<1>3. QED
  BY <1>1, <1>2 DEF IInv

\* observe() itself, whichever its case.
LEMMA ObserveStep ==
  ASSUME IInv, NEW t \in Threads, Observe(t)
  PROVE  IInv'
<1> USE DEF IInv
<1>0. /\ pc[t] = "read" /\ out[t] = Nothing /\ dec[t] \in Decision
      /\ pc' = [pc EXCEPT ![t] = "observed"]
      /\ UNCHANGED <<minted, cabinetVars, dec, read, cloudVars, crashes>>
  BY DEF Observe, Step, TransitionsAreFresh, TypeOK
<1>1. CASE id # NoId /\ Close(t)
  <2>1. TypeOK'
    <3>1. /\ engine' \in Id \cup {NoId} /\ minted' \in 0..MaxIds /\ crashes' \in 0..MaxCrashes
          /\ tier' \in Tier /\ id' \in Id \cup {NoId} /\ file' \in Episodes
          /\ quiet' \in {"none", "running", "complete"} /\ panel' \in {"idle", "half"}
      BY <1>0, <1>1 DEF Close, Save, NoFile, cabinetVars, TypeOK, Episodes, Tier
    <3>2. (old \in BOOLEAN /\ disturbed \in BOOLEAN /\ latched \in BOOLEAN /\ testMode \in BOOLEAN)'
      BY <1>0, <1>1 DEF Close, cabinetVars, TypeOK
    <3>3. /\ pc' \in [Threads -> {"idle", "reflex", "decided", "acted", "read", "observed", "announce"}]
          /\ read' \in [Threads -> {"unknown", "up", "down"}]
      BY <1>0 DEF TypeOK
    <3>4. dec' \in [Threads -> Decision] /\ out' \in [Threads -> Transition]
      BY <1>0, <1>1 DEF Close, TypeOK, Transition, Tier
    <3>5. /\ announced' \subseteq Id /\ opened' \subseteq Id /\ closed' \subseteq Id
          /\ cloudTier' \in Tier
      BY <1>0 DEF cloudVars, TypeOK
    <3>6. QED
      BY <3>1, <3>2, <3>3, <3>4, <3>5 DEF TypeOK
  <2>2. AlertsAreNamed'
    BY <1>0, <1>1 DEF Close, Save, NoFile, AlertsAreNamed, Named, NoFile
  <2>3. TransitionsAreFresh'
    BY <1>0, <1>1 DEF Close, TransitionsAreFresh, TypeOK
  <2>4. ClockIsClean'
    BY <1>1 DEF Close, ClockIsClean
  <2>5. FileIsTheEpisode'
    BY <1>1 DEF Close, FileIsTheEpisode
  <2>6. (crashes = 0 => OpeningsAreOwed)'
    BY <1>0, <1>1 DEF Close, cloudVars, OpeningsAreOwed, Owed, TypeOK, Nothing
  <2>7. QED
    BY <2>1, <2>2, <2>3, <2>4, <2>5, <2>6
<1>2. CASE Rank(dec[t].tier) > Rank(tier) /\ OpenOrEscalate(t)
  <2>0. dec[t].tier \notin {"normal", "manual_only"} /\ dec[t].id # NoId
    BY <1>2, Ranks DEF AlertsAreNamed, Named, TypeOK
  <2>1. TypeOK'
    <3>1. /\ engine' \in Id \cup {NoId} /\ minted' \in 0..MaxIds /\ crashes' \in 0..MaxCrashes
          /\ tier' \in Tier /\ id' \in Id \cup {NoId} /\ file' \in Episodes
          /\ quiet' \in {"none", "running", "complete"} /\ panel' \in {"idle", "half"}
      BY <1>0, <1>2 DEF OpenOrEscalate, Save, cabinetVars, TypeOK, Decision, Episodes
    <3>2. (old \in BOOLEAN /\ disturbed \in BOOLEAN /\ latched \in BOOLEAN /\ testMode \in BOOLEAN)'
      BY <1>0, <1>2 DEF OpenOrEscalate, cabinetVars, TypeOK
    <3>3. /\ pc' \in [Threads -> {"idle", "reflex", "decided", "acted", "read", "observed", "announce"}]
          /\ read' \in [Threads -> {"unknown", "up", "down"}]
      BY <1>0 DEF TypeOK
    <3>4. dec' \in [Threads -> Decision] /\ out' \in [Threads -> Transition]
      BY <1>0, <1>2 DEF OpenOrEscalate, TypeOK, Decision, Transition
    <3>5. /\ announced' \subseteq Id /\ opened' \subseteq Id /\ closed' \subseteq Id
          /\ cloudTier' \in Tier
      BY <1>0 DEF cloudVars, TypeOK
    <3>6. QED
      BY <3>1, <3>2, <3>3, <3>4, <3>5 DEF TypeOK
  <2>2. AlertsAreNamed'
    BY <1>0, <1>2, <2>0 DEF OpenOrEscalate, Save, AlertsAreNamed, Named
  <2>3. TransitionsAreFresh'
    BY <1>0, <1>2, <2>0 DEF OpenOrEscalate, TransitionsAreFresh, TypeOK
  <2>4. ClockIsClean'
    BY <1>2 DEF OpenOrEscalate, ClockIsClean
  <2>5. FileIsTheEpisode'
    BY <1>2 DEF OpenOrEscalate, Save, FileIsTheEpisode
  <2>6. (crashes = 0 => OpeningsAreOwed)'
    <3>1. ASSUME crashes = 0, NEW x, x # NoId, Owed(x)
          PROVE  Owed(x)'
      <4>1. id # NoId => id' = id
        BY <1>2 DEF OpenOrEscalate
      <4>2. ASSUME NEW u \in Threads, out[u] = [id |-> x, new |-> "normal"]
            PROVE  out'[u] = out[u]
        BY <1>0, <1>2, <3>1, <4>2 DEF OpenOrEscalate, Nothing
      <4>3. QED
        BY <1>0, <3>1, <4>1, <4>2 DEF Owed, cloudVars
    <3>2. \A x \in opened : x # NoId
      BY DEF TypeOK, Id, NoId
    <3>3. out' = [out EXCEPT ![t] = [id |-> id', new |-> tier']]
      BY <1>2 DEF OpenOrEscalate
    <3>4. ASSUME crashes = 0, NEW u \in Threads, out'[u].new # "normal",
                 NEW x, x = out'[u].id
          PROVE  Owed(x)'
      <4>1. CASE u = t
        BY <3>3, <3>4, <4>1 DEF TypeOK, Owed
      <4>2. CASE u # t
        BY <3>1, <3>3, <3>4, <4>2 DEF OpeningsAreOwed, TransitionsAreFresh
      <4>3. QED
        BY <4>1, <4>2
    <3>5. QED
      BY <1>0, <3>1, <3>2, <3>4 DEF OpeningsAreOwed, cloudVars
  <2>7. QED
    BY <2>1, <2>2, <2>3, <2>4, <2>5, <2>6
<1>3. CASE NothingToSay(t) \/ Wait(t)
  <2>1. TypeOK'
    <3>1. /\ engine' \in Id \cup {NoId} /\ minted' \in 0..MaxIds /\ crashes' \in 0..MaxCrashes
          /\ tier' \in Tier /\ id' \in Id \cup {NoId} /\ file' \in Episodes
          /\ quiet' \in {"none", "running", "complete"} /\ panel' \in {"idle", "half"}
      BY <1>0, <1>3 DEF NothingToSay, Wait, Silent, cabinetVars, TypeOK
    <3>2. (old \in BOOLEAN /\ disturbed \in BOOLEAN /\ latched \in BOOLEAN /\ testMode \in BOOLEAN)'
      BY <1>0, <1>3 DEF NothingToSay, Wait, Silent, cabinetVars, TypeOK
    <3>3. /\ pc' \in [Threads -> {"idle", "reflex", "decided", "acted", "read", "observed", "announce"}]
          /\ read' \in [Threads -> {"unknown", "up", "down"}]
      BY <1>0 DEF TypeOK
    <3>4. dec' \in [Threads -> Decision] /\ out' \in [Threads -> Transition]
      BY <1>0, <1>3 DEF NothingToSay, Wait, TypeOK
    <3>5. /\ announced' \subseteq Id /\ opened' \subseteq Id /\ closed' \subseteq Id
          /\ cloudTier' \in Tier
      BY <1>0 DEF cloudVars, TypeOK
    <3>6. QED
      BY <3>1, <3>2, <3>3, <3>4, <3>5 DEF TypeOK
  <2>2. AlertsAreNamed'
    BY <1>0, <1>3 DEF NothingToSay, Wait, Silent, AlertsAreNamed
  <2>3. TransitionsAreFresh'
    BY <1>0, <1>3 DEF NothingToSay, Wait, TransitionsAreFresh
  <2>4. ClockIsClean'
    BY <1>3 DEF NothingToSay, Wait, ClockIsClean
  <2>5. FileIsTheEpisode'
    BY <1>3 DEF NothingToSay, Wait, Silent, FileIsTheEpisode
  <2>6. (crashes = 0 => OpeningsAreOwed)'
    BY <1>0, <1>3 DEF NothingToSay, Wait, Silent, cloudVars, OpeningsAreOwed, Owed
  <2>7. QED
    BY <2>1, <2>2, <2>3, <2>4, <2>5, <2>6
<1>4. QED
  BY <1>1, <1>2, <1>3, ObserveCases

\* The other steps of the threads, the operator, time and power.
LEMMA IInvStep == IInv /\ [Next]_vars => IInv'
<1> SUFFICES ASSUME IInv, [Next]_vars PROVE IInv'
  OBVIOUS
<1> USE DEF IInv
<1>1. ASSUME NEW level \in GroundTiers, "seedlink" \in Threads, EvaluateFeatures(level)
      PROVE  IInv'
  <2>1. TypeOK'
    <3>1. /\ engine' \in Id \cup {NoId} /\ minted' \in 0..MaxIds
          /\ level # "normal" => engine' \in Id
      BY <1>1, BoundsAssumption DEF EvaluateFeatures, Emit, TypeOK, engineVars, Id
    <3>2. dec' \in [Threads -> Decision]
      BY <1>1, <3>1, TiersAssumption DEF EvaluateFeatures, Emit, TypeOK, NoDecision,
                                         Decision
    <3>3. pc' \in [Threads -> {"idle", "reflex", "decided", "acted", "read", "observed", "announce"}]
      BY <1>1 DEF EvaluateFeatures, Step, TypeOK
    <3>4. QED
      BY <1>1, <3>1, <3>2, <3>3 DEF EvaluateFeatures, TypeOK, trackerVars, cabinetVars, cloudVars
  <2>2. AlertsAreNamed'
    BY <1>1 DEF EvaluateFeatures, Emit, trackerVars, AlertsAreNamed, TypeOK, NoDecision,
                NoId
  <2>3. TransitionsAreFresh'
    BY <1>1 DEF EvaluateFeatures, Step, TransitionsAreFresh
  <2>4. ClockIsClean'
    BY <1>1 DEF EvaluateFeatures, trackerVars, ClockIsClean
  <2>5. FileIsTheEpisode'
    BY <1>1 DEF EvaluateFeatures, trackerVars, FileIsTheEpisode
  <2>6. (crashes = 0 => OpeningsAreOwed)'
    BY <1>1 DEF EvaluateFeatures, trackerVars, cloudVars, OpeningsAreOwed, Owed
  <2>7. QED
    BY <2>1, <2>2, <2>3, <2>4, <2>5, <2>6
<1>2. ASSUME "sasmex" \in Threads, SasmexReflex
      PROVE  IInv'
  <2>1. TypeOK'
    BY <1>2 DEF SasmexReflex, Step, engineVars, trackerVars, cloudVars, TypeOK
  <2>2. AlertsAreNamed'
    BY <1>2 DEF SasmexReflex, trackerVars, AlertsAreNamed
  <2>3. TransitionsAreFresh'
    BY <1>2 DEF SasmexReflex, Step, TransitionsAreFresh
  <2>4. ClockIsClean'
    BY <1>2 DEF SasmexReflex, trackerVars, ClockIsClean
  <2>5. FileIsTheEpisode'
    BY <1>2 DEF SasmexReflex, trackerVars, FileIsTheEpisode
  <2>6. (crashes = 0 => OpeningsAreOwed)'
    BY <1>2 DEF SasmexReflex, trackerVars, cloudVars, OpeningsAreOwed, Owed
  <2>7. QED
    BY <2>1, <2>2, <2>3, <2>4, <2>5, <2>6
<1>3. ASSUME "sasmex" \in Threads, EvaluateSasmex
      PROVE  IInv'
  <2>1. TypeOK'
    BY <1>3, BoundsAssumption DEF EvaluateSasmex, Step, Emit, trackerVars, cabinetVars,
                                  cloudVars, TypeOK, Decision, Id, Tier, NoId
  <2>2. AlertsAreNamed'
    BY <1>3 DEF EvaluateSasmex, Emit, trackerVars, AlertsAreNamed, TypeOK, NoId
  <2>3. TransitionsAreFresh'
    BY <1>3 DEF EvaluateSasmex, Step, TransitionsAreFresh
  <2>4. ClockIsClean'
    BY <1>3 DEF EvaluateSasmex, trackerVars, ClockIsClean
  <2>5. FileIsTheEpisode'
    BY <1>3 DEF EvaluateSasmex, trackerVars, FileIsTheEpisode
  <2>6. (crashes = 0 => OpeningsAreOwed)'
    BY <1>3 DEF EvaluateSasmex, trackerVars, cloudVars, OpeningsAreOwed, Owed
  <2>7. QED
    BY <2>1, <2>2, <2>3, <2>4, <2>5, <2>6
<1>4. ASSUME NEW t \in Threads, NEW linkDown \in BOOLEAN, Act(t, linkDown)
      PROVE  IInv'
  <2>1. TypeOK'
    <3>1. /\ engine' \in Id \cup {NoId} /\ minted' \in 0..MaxIds /\ crashes' \in 0..MaxCrashes
          /\ tier' \in Tier /\ id' \in Id \cup {NoId} /\ file' \in Episodes
          /\ quiet' \in {"none", "running", "complete"} /\ panel' \in {"idle", "half"}
      BY <1>4 DEF Act, engineVars, trackerVars, TypeOK
    <3>2. (old \in BOOLEAN /\ disturbed \in BOOLEAN /\ latched \in BOOLEAN /\ testMode \in BOOLEAN)'
      BY <1>4 DEF Act, trackerVars, TypeOK
    <3>3. /\ pc' \in [Threads -> {"idle", "reflex", "decided", "acted", "read", "observed", "announce"}]
          /\ read' \in [Threads -> {"unknown", "up", "down"}]
      BY <1>4 DEF Act, TypeOK
    <3>4. dec' \in [Threads -> Decision] /\ out' \in [Threads -> Transition]
      BY <1>4 DEF Act, NoDecision, Actuates, TypeOK, Decision, Tier
    <3>5. /\ announced' \subseteq Id /\ opened' \subseteq Id /\ closed' \subseteq Id
          /\ cloudTier' \in Tier
      BY <1>4 DEF Act, cloudVars, TypeOK
    <3>6. QED
      BY <3>1, <3>2, <3>3, <3>4, <3>5 DEF TypeOK
  <2>2. AlertsAreNamed'
    BY <1>4 DEF Act, NoDecision, Actuates, trackerVars, AlertsAreNamed, TypeOK,
                NoDecision
  <2>3. TransitionsAreFresh'
    BY <1>4 DEF Act, TransitionsAreFresh, TypeOK
  <2>4. ClockIsClean'
    BY <1>4 DEF Act, trackerVars, ClockIsClean
  <2>5. FileIsTheEpisode'
    BY <1>4 DEF Act, trackerVars, FileIsTheEpisode
  <2>6. (crashes = 0 => OpeningsAreOwed)'
    BY <1>4 DEF Act, trackerVars, cloudVars, OpeningsAreOwed, Owed
  <2>7. QED
    BY <2>1, <2>2, <2>3, <2>4, <2>5, <2>6
<1>5. ASSUME NEW t \in Threads, NEW linkDown \in BOOLEAN, ReadLatch(t, linkDown)
      PROVE  IInv'
  <2>1. TypeOK'
    BY <1>5 DEF ReadLatch, Step, engineVars, trackerVars, cabinetVars, cloudVars, TypeOK
  <2>2. AlertsAreNamed'
    BY <1>5 DEF ReadLatch, trackerVars, AlertsAreNamed
  <2>3. TransitionsAreFresh'
    BY <1>5 DEF ReadLatch, Step, TransitionsAreFresh
  <2>4. ClockIsClean'
    BY <1>5 DEF ReadLatch, trackerVars, ClockIsClean
  <2>5. FileIsTheEpisode'
    BY <1>5 DEF ReadLatch, trackerVars, FileIsTheEpisode
  <2>6. (crashes = 0 => OpeningsAreOwed)'
    BY <1>5 DEF ReadLatch, trackerVars, cloudVars, OpeningsAreOwed, Owed
  <2>7. QED
    BY <2>1, <2>2, <2>3, <2>4, <2>5, <2>6
<1>6. ASSUME NEW t \in Threads, PublishTransition(t)
      PROVE  IInv'
  <2>1. TypeOK'
    <3>1. /\ engine' \in Id \cup {NoId} /\ minted' \in 0..MaxIds /\ crashes' \in 0..MaxCrashes
          /\ tier' \in Tier /\ id' \in Id \cup {NoId} /\ file' \in Episodes
          /\ quiet' \in {"none", "running", "complete"} /\ panel' \in {"idle", "half"}
      BY <1>6 DEF PublishTransition, engineVars, trackerVars, cabinetVars, TypeOK
    <3>2. (old \in BOOLEAN /\ disturbed \in BOOLEAN /\ latched \in BOOLEAN /\ testMode \in BOOLEAN)'
      BY <1>6 DEF PublishTransition, trackerVars, cabinetVars, TypeOK
    <3>3. /\ pc' \in [Threads -> {"idle", "reflex", "decided", "acted", "read", "observed", "announce"}]
          /\ read' \in [Threads -> {"unknown", "up", "down"}]
      BY <1>6 DEF PublishTransition, Step, TypeOK
    <3>4. dec' \in [Threads -> Decision] /\ out' \in [Threads -> Transition]
      BY <1>6 DEF PublishTransition, TypeOK, Transition, Nothing, Tier
    <3>5. /\ announced' \subseteq Id /\ opened' \subseteq Id /\ closed' \subseteq Id
          /\ cloudTier' \in Tier
      <4>1. out[t] \in Transition /\ (out[t].new # "normal" => out[t].id # NoId)
        BY DEF TypeOK, TransitionsAreFresh
      <4>2. out[t] # Nothing => out[t].id \in Id
        BY <4>1 DEF Transition, Nothing
      <4>3. QED
        BY <1>6, <4>2 DEF PublishTransition, TypeOK, Transition
    <3>6. QED
      BY <3>1, <3>2, <3>3, <3>4, <3>5 DEF TypeOK
  <2>2. AlertsAreNamed'
    BY <1>6 DEF PublishTransition, trackerVars, AlertsAreNamed
  <2>3. TransitionsAreFresh'
    BY <1>6 DEF PublishTransition, Step, TransitionsAreFresh, TypeOK, Nothing
  <2>4. ClockIsClean'
    BY <1>6 DEF PublishTransition, trackerVars, ClockIsClean
  <2>5. FileIsTheEpisode'
    BY <1>6 DEF PublishTransition, trackerVars, FileIsTheEpisode
  <2>6. (crashes = 0 => OpeningsAreOwed)'
    BY <1>6 DEF PublishTransition, trackerVars, OpeningsAreOwed, Owed, Nothing
  <2>7. QED
    BY <2>1, <2>2, <2>3, <2>4, <2>5, <2>6
<1>7. ASSUME NEW t \in Threads, Announce(t)
      PROVE  IInv'
  <2>1. TypeOK'
    <3>1. /\ engine' \in Id \cup {NoId} /\ minted' \in 0..MaxIds /\ crashes' \in 0..MaxCrashes
          /\ tier' \in Tier /\ id' \in Id \cup {NoId} /\ file' \in Episodes
          /\ quiet' \in {"none", "running", "complete"} /\ panel' \in {"idle", "half"}
      BY <1>7 DEF Announce, engineVars, trackerVars, cabinetVars, TypeOK
    <3>2. (old \in BOOLEAN /\ disturbed \in BOOLEAN /\ latched \in BOOLEAN /\ testMode \in BOOLEAN)'
      BY <1>7 DEF Announce, trackerVars, cabinetVars, TypeOK
    <3>3. /\ pc' \in [Threads -> {"idle", "reflex", "decided", "acted", "read", "observed", "announce"}]
          /\ read' \in [Threads -> {"unknown", "up", "down"}]
      BY <1>7 DEF Announce, Step, TypeOK
    <3>4. dec' \in [Threads -> Decision] /\ out' \in [Threads -> Transition]
      BY <1>7 DEF Announce, NoDecision, TypeOK, Decision, Tier
    <3>5. /\ announced' \subseteq Id /\ opened' \subseteq Id /\ closed' \subseteq Id
          /\ cloudTier' \in Tier
      BY <1>7 DEF Announce, AlertsAreNamed, TypeOK, Decision
    <3>6. QED
      BY <3>1, <3>2, <3>3, <3>4, <3>5 DEF TypeOK
  <2>2. AlertsAreNamed'
    BY <1>7 DEF Announce, NoDecision, trackerVars, AlertsAreNamed, NoDecision
  <2>3. TransitionsAreFresh'
    BY <1>7 DEF Announce, Step, TransitionsAreFresh
  <2>4. ClockIsClean'
    BY <1>7 DEF Announce, trackerVars, ClockIsClean
  <2>5. FileIsTheEpisode'
    BY <1>7 DEF Announce, trackerVars, FileIsTheEpisode
  <2>6. (crashes = 0 => OpeningsAreOwed)'
    BY <1>7 DEF Announce, trackerVars, OpeningsAreOwed, Owed
  <2>7. QED
    BY <2>1, <2>2, <2>3, <2>4, <2>5, <2>6
<1>8. ASSUME SilenceCompletes
      PROVE  IInv'
  <2>1. TypeOK'
    BY <1>8 DEF SilenceCompletes, engineVars, cabinetVars, threadVars, cloudVars, TypeOK
  <2>2. AlertsAreNamed'
    BY <1>8 DEF SilenceCompletes, threadVars, AlertsAreNamed
  <2>3. TransitionsAreFresh'
    BY <1>8 DEF SilenceCompletes, threadVars, TransitionsAreFresh
  <2>4. ClockIsClean'
    BY <1>8 DEF SilenceCompletes, ClockIsClean
  <2>5. FileIsTheEpisode'
    BY <1>8 DEF SilenceCompletes, FileIsTheEpisode
  <2>6. (crashes = 0 => OpeningsAreOwed)'
    BY <1>8 DEF SilenceCompletes, threadVars, cloudVars, OpeningsAreOwed, Owed
  <2>7. QED
    BY <2>1, <2>2, <2>3, <2>4, <2>5, <2>6
<1>9. ASSUME EpisodeOutlivesCap
      PROVE  IInv'
  <2>1. TypeOK'
    BY <1>9 DEF EpisodeOutlivesCap, engineVars, cabinetVars, threadVars, cloudVars,
                TypeOK
  <2>2. AlertsAreNamed'
    BY <1>9 DEF EpisodeOutlivesCap, threadVars, AlertsAreNamed
  <2>3. TransitionsAreFresh'
    BY <1>9 DEF EpisodeOutlivesCap, threadVars, TransitionsAreFresh
  <2>4. ClockIsClean'
    BY <1>9 DEF EpisodeOutlivesCap, ClockIsClean
  <2>5. FileIsTheEpisode'
    BY <1>9 DEF EpisodeOutlivesCap, FileIsTheEpisode
  <2>6. (crashes = 0 => OpeningsAreOwed)'
    BY <1>9 DEF EpisodeOutlivesCap, threadVars, cloudVars, OpeningsAreOwed, Owed
  <2>7. QED
    BY <2>1, <2>2, <2>3, <2>4, <2>5, <2>6
<1>10. ASSUME SwitchTestMode
      PROVE  IInv'
  <2>1. TypeOK'
    BY <1>10 DEF SwitchTestMode, engineVars, trackerVars, threadVars, cloudVars, TypeOK
  <2>2. AlertsAreNamed'
    BY <1>10 DEF SwitchTestMode, trackerVars, threadVars, AlertsAreNamed
  <2>3. TransitionsAreFresh'
    BY <1>10 DEF SwitchTestMode, threadVars, TransitionsAreFresh
  <2>4. ClockIsClean'
    BY <1>10 DEF SwitchTestMode, trackerVars, ClockIsClean
  <2>5. FileIsTheEpisode'
    BY <1>10 DEF SwitchTestMode, trackerVars, FileIsTheEpisode
  <2>6. (crashes = 0 => OpeningsAreOwed)'
    BY <1>10 DEF SwitchTestMode, trackerVars, threadVars, cloudVars, OpeningsAreOwed,
                 Owed
  <2>7. QED
    BY <2>1, <2>2, <2>3, <2>4, <2>5, <2>6
<1>11. ASSUME ResetCabinet
      PROVE  IInv'
  <2>1. TypeOK'
    <3>1. /\ engine' \in Id \cup {NoId} /\ minted' \in 0..MaxIds /\ crashes' \in 0..MaxCrashes
          /\ tier' \in Tier /\ id' \in Id \cup {NoId} /\ file' \in Episodes
          /\ quiet' \in {"none", "running", "complete"} /\ panel' \in {"idle", "half"}
      BY <1>11 DEF ResetCabinet, engineVars, trackerVars, TypeOK
    <3>2. (old \in BOOLEAN /\ disturbed \in BOOLEAN /\ latched \in BOOLEAN /\ testMode \in BOOLEAN)'
      BY <1>11 DEF ResetCabinet, trackerVars, TypeOK
    <3>3. /\ pc' \in [Threads -> {"idle", "reflex", "decided", "acted", "read", "observed", "announce"}]
          /\ read' \in [Threads -> {"unknown", "up", "down"}]
      BY <1>11 DEF ResetCabinet, threadVars, TypeOK
    <3>4. dec' \in [Threads -> Decision] /\ out' \in [Threads -> Transition]
      BY <1>11 DEF ResetCabinet, threadVars, TypeOK
    <3>5. /\ announced' \subseteq Id /\ opened' \subseteq Id /\ closed' \subseteq Id
          /\ cloudTier' \in Tier
      BY <1>11 DEF ResetCabinet, cloudVars, TypeOK
    <3>6. QED
      BY <3>1, <3>2, <3>3, <3>4, <3>5 DEF TypeOK
  <2>2. AlertsAreNamed'
    BY <1>11 DEF ResetCabinet, trackerVars, threadVars, AlertsAreNamed
  <2>3. TransitionsAreFresh'
    BY <1>11 DEF ResetCabinet, threadVars, TransitionsAreFresh
  <2>4. ClockIsClean'
    BY <1>11 DEF ResetCabinet, trackerVars, ClockIsClean
  <2>5. FileIsTheEpisode'
    BY <1>11 DEF ResetCabinet, trackerVars, FileIsTheEpisode
  <2>6. (crashes = 0 => OpeningsAreOwed)'
    BY <1>11 DEF ResetCabinet, trackerVars, threadVars, cloudVars, OpeningsAreOwed, Owed
  <2>7. QED
    BY <2>1, <2>2, <2>3, <2>4, <2>5, <2>6
<1>12. ASSUME ResetRules
      PROVE  IInv'
  <2>1. TypeOK'
    BY <1>12 DEF ResetRules, trackerVars, threadVars, cloudVars, TypeOK
  <2>2. AlertsAreNamed'
    BY <1>12 DEF ResetRules, trackerVars, threadVars, AlertsAreNamed
  <2>3. TransitionsAreFresh'
    BY <1>12 DEF ResetRules, threadVars, TransitionsAreFresh
  <2>4. ClockIsClean'
    BY <1>12 DEF ResetRules, trackerVars, ClockIsClean
  <2>5. FileIsTheEpisode'
    BY <1>12 DEF ResetRules, trackerVars, FileIsTheEpisode
  <2>6. (crashes = 0 => OpeningsAreOwed)'
    BY <1>12 DEF ResetRules, trackerVars, threadVars, cloudVars, OpeningsAreOwed, Owed
  <2>7. QED
    BY <2>1, <2>2, <2>3, <2>4, <2>5, <2>6
<1>13. ASSUME Restart
      PROVE  IInv'
  <2>1. TypeOK'
    <3>1. /\ engine' \in Id \cup {NoId} /\ minted' \in 0..MaxIds /\ crashes' \in 0..MaxCrashes
          /\ tier' \in Tier /\ id' \in Id \cup {NoId} /\ file' \in Episodes
          /\ quiet' \in {"none", "running", "complete"} /\ panel' \in {"idle", "half"}
      BY <1>13, BoundsAssumption DEF Restart, NoFile, TypeOK, Episodes, Tier
    <3>2. (old \in BOOLEAN /\ disturbed \in BOOLEAN /\ latched \in BOOLEAN /\ testMode \in BOOLEAN)'
      BY <1>13 DEF Restart, TypeOK
    <3>3. /\ pc' \in [Threads -> {"idle", "reflex", "decided", "acted", "read", "observed", "announce"}]
          /\ read' \in [Threads -> {"unknown", "up", "down"}]
      BY <1>13 DEF Restart
    <3>4. dec' \in [Threads -> Decision] /\ out' \in [Threads -> Transition]
      BY <1>13 DEF Restart, NoDecision, Decision, Transition, Nothing, Tier
    <3>5. /\ announced' \subseteq Id /\ opened' \subseteq Id /\ closed' \subseteq Id
          /\ cloudTier' \in Tier
      BY <1>13 DEF Restart, cloudVars, TypeOK
    <3>6. QED
      BY <3>1, <3>2, <3>3, <3>4, <3>5 DEF TypeOK
  <2>2. AlertsAreNamed'
    BY <1>13 DEF Restart, NoFile, NoDecision, AlertsAreNamed, Named, NoDecision, NoFile
  <2>3. TransitionsAreFresh'
    BY <1>13 DEF Restart, TransitionsAreFresh, Nothing
  <2>4. ClockIsClean'
    BY <1>13 DEF Restart, ClockIsClean
  <2>5. FileIsTheEpisode'
    BY <1>13 DEF Restart, NoFile, FileIsTheEpisode, NoFile, TypeOK, Episodes
  <2>6. (crashes = 0 => OpeningsAreOwed)'
    BY <1>13 DEF Restart, TypeOK
  <2>7. QED
    BY <2>1, <2>2, <2>3, <2>4, <2>5, <2>6
<1>14. CASE UNCHANGED vars
  BY <1>14 DEF vars, engineVars, trackerVars, cabinetVars, threadVars, cloudVars, TypeOK,
         AlertsAreNamed, TransitionsAreFresh, ClockIsClean, FileIsTheEpisode, OpeningsAreOwed, Owed
<1>15. QED
  BY <1>1, <1>2, <1>3, <1>4, <1>5, <1>6, <1>7, <1>8, <1>9, <1>10, <1>11, <1>12, <1>13, <1>14, ObserveStep
  DEF Next, SeedLink, Sasmex, Pass

\* What every reachable state satisfies: an alert has an identity, a transition is held
\* only until it is published, and until a power cut openings are owed their closing.
THEOREM Invariance == Spec => []IInv
  BY Begins, IInvStep, PTL DEF Spec

\* Type correctness, for any threads, tiers, power cuts and identities.
THEOREM Typing == Spec => []TypeOK
<1>1. IInv => TypeOK
  BY DEF IInv
<1>2. QED
  BY <1>1, Invariance, PTL

\* While nobody cuts the power, no closing is lost between the tracker and the
\* cloud, whatever the two threads interleave (supervisor.py _act_and_publish).
THEOREM ClosingsArriveOrAreOwed == Spec => [](crashes = 0 => ClosingIsNotLost)
<1>1. IInv => (crashes = 0 => ClosingIsNotLost)
  BY DEF IInv, OpeningsAreOwed, Owed, ClosingIsNotLost
<1>2. QED
  BY <1>1, Invariance, PTL

\* An open episode changes in two ways: observe() and a power cut.
LEMMA WhoMovesTheEpisode ==
  ASSUME TypeOK, [Next]_vars
  PROVE  UNCHANGED <<tier, id>> \/ Restart \/ \E t \in Threads : Observe(t)
  BY DEF Next, SeedLink, Sasmex, Pass, EvaluateFeatures, SasmexReflex, EvaluateSasmex, Act,
         ReadLatch, PublishTransition, Announce, SilenceCompletes, EpisodeOutlivesCap,
         SwitchTestMode, ResetCabinet, ResetRules, trackerVars, vars

\* Protection is held until a silence without a shaking or a latch, by a disk that
\* takes its writes or without power cuts: an escalation the disk refused is
\* undone by the cut (rules/episode.py observe, _guardar).
THEOREM ProtectionIsHeld ==
  ASSUME ~DiskFails \/ MaxCrashes = 0
  PROVE  Spec => HeldUntilSilence
<1> DEFINE Held ==
      id # NoId =>
        /\ id' = id /\ tier' # tier => Rank(tier') > Rank(tier)
        /\ id' = NoId /\ ~old /\ crashes' = crashes => quiet = "complete" /\ ~disturbed
<1>1. ASSUME IInv, [Next]_vars
      PROVE  Held
  <2>1. TypeOK /\ ClockIsClean /\ FileIsTheEpisode
    BY <1>1 DEF IInv
  <2>2. CASE UNCHANGED <<tier, id>>
    BY <2>2
  <2>3. CASE Restart
    <3>1. ~DiskFails /\ crashes' # crashes
      BY <2>1, <2>3 DEF Restart, TypeOK
    <3>2. id # NoId /\ id' = id => tier' = tier
      <4>1. PICK kept \in {file, NoFile} : tier' = kept.tier /\ id' = kept.id
        BY <2>3 DEF Restart
      <4>2. CASE id # NoId /\ id' = id
        <5>1. kept = file /\ file = [tier |-> tier, id |-> id]
          <6>0. NoFile.id = NoId
            BY DEF NoFile
          <6>1. kept # NoFile
            BY <4>1, <4>2, <6>0
          <6>2. QED
            BY <2>1, <3>1, <4>2, <6>1 DEF FileIsTheEpisode
        <5>2. QED
          BY <4>1, <5>1
      <4>3. QED
        BY <4>2
    <3>3. QED
      BY <3>1, <3>2
  <2>4. ASSUME NEW t \in Threads, Observe(t)
        PROVE  Held
    <3>1. CASE Close(t) /\ (old \/ (quiet = "complete" /\ read[t] = "down"))
      BY <2>1, <3>1 DEF Close, ClockIsClean
    <3>2. CASE Rank(dec[t].tier) > Rank(tier) /\ OpenOrEscalate(t)
      BY <3>2 DEF OpenOrEscalate
    <3>3. CASE NothingToSay(t) \/ Wait(t)
      BY <3>3 DEF NothingToSay, Wait, Silent
    <3>4. QED
      BY <2>1, <2>4, <3>1, <3>2, <3>3, ObserveCases
  <2>5. QED
    BY <1>1, <2>1, <2>3, <2>4, WhoMovesTheEpisode
<1>2. QED
  BY <1>1, Invariance, PTL DEF Spec, HeldUntilSilence

-----------------------------------------------------------------------------
\* One thread, no operator.
Alone == Threads = {"seedlink"} /\ Operator = FALSE
me == "seedlink"

\* The identity of an alert on its way is the engine's, and once observed the
\* episode's; an episode that closed left the engine without any.
OneName ==
  /\ panel = "idle"
  /\ id # NoId => engine = id
  /\ dec[me].tier # "normal" =>
       IF pc[me] \in {"decided", "acted", "read"} THEN dec[me].id = engine
       ELSE id # NoId => dec[me].id = id

\* The latch that was read is the latch.
LatchIsRead == pc[me] = "read" /\ read[me] = "down" => ~latched

\* What the cloud last heard, or is about to hear, is the tier.
CloudFollows ==
  crashes = 0 => tier = IF out[me] = Nothing THEN cloudTier ELSE out[me].new

AloneInv == OneName /\ LatchIsRead /\ CloudFollows

\* Nothing that was announced or closed is open again.
MintedBefore ==
  /\ \A x \in announced \cup closed \cup {engine, id, file.id} : x <= minted
  /\ dec[me].id <= minted /\ out[me].id <= minted
NotReused ==
  /\ id = NoId /\ engine # NoId => engine \notin announced \cup closed
  /\ pc[me] \in {"observed", "announce"} /\ dec[me].tier # "normal" /\ id = NoId => engine = NoId
  /\ out[me] # Nothing /\ out[me].new = "normal" => id = NoId /\ engine = NoId
NotDegraded == dec[me].tier # "manual_only"
QuakeInv == MintedBefore /\ NotReused /\ NotDegraded

-----------------------------------------------------------------------------
\* Every step of the one thread, of time and of power keeps its invariant.
LEMMA AloneBegins == ASSUME Alone, Init PROVE AloneInv /\ QuakeInv
<1>1. me \in Threads
  BY DEF Alone, me
<1>2. AloneInv
  BY <1>1 DEF Init, AloneInv, OneName, LatchIsRead, CloudFollows
<1>3. QuakeInv
  BY <1>1 DEF Init, QuakeInv, MintedBefore, NotReused, NotDegraded, NoDecision, Nothing,
              NoFile, NoId
<1>4. QED
  BY <1>2, <1>3

\* Each step of the one thread, of time and of power keeps one name for the episode.
LEMMA AloneStep ==
  ASSUME Alone, IInv, AloneInv, [Next]_vars
  PROVE  AloneInv'
<1> USE DEF AloneInv
<1>0. /\ me \in Threads /\ TypeOK /\ AlertsAreNamed /\ TransitionsAreFresh
      /\ \A level \in GroundTiers : level \in Tier
  BY TiersAssumption DEF Alone, me, IInv
<1>1. ASSUME NEW level \in GroundTiers, EvaluateFeatures(level)
      PROVE  AloneInv'
  BY <1>0, <1>1
     DEF EvaluateFeatures, Step, Emit, engineVars, trackerVars, cabinetVars, cloudVars,
         NoDecision, OneName, LatchIsRead, CloudFollows, TypeOK, me
<1>2. ASSUME NEW linkDown \in BOOLEAN, Act(me, linkDown)
      PROVE  AloneInv'
  BY <1>0, <1>2 DEF Act, NoDecision, engineVars, trackerVars, cloudVars, OneName,
                    LatchIsRead, CloudFollows, TypeOK
<1>3. ASSUME NEW linkDown \in BOOLEAN, ReadLatch(me, linkDown)
      PROVE  AloneInv'
  BY <1>0, <1>3 DEF ReadLatch, Step, engineVars, trackerVars, cabinetVars, cloudVars,
                    OneName, LatchIsRead, CloudFollows, TypeOK
<1>4. ASSUME Observe(me)
      PROVE  AloneInv'
  <2>0. /\ pc[me] = "read" /\ out[me] = Nothing /\ pc'[me] = "observed"
        /\ UNCHANGED <<minted, cabinetVars, dec, read, cloudVars, crashes>>
    BY <1>0, <1>4 DEF Observe, Step, TransitionsAreFresh, TypeOK
  <2>1. CASE id # NoId /\ Close(me)
    BY <1>0, <2>0, <2>1 DEF Close, Nothing, TypeOK, cabinetVars, OneName, LatchIsRead,
                            CloudFollows
  <2>2. CASE Rank(dec[me].tier) > Rank(tier) /\ OpenOrEscalate(me)
    <3>0. dec[me].tier \notin {"normal", "manual_only"}
      BY <1>0, <2>2, Ranks DEF AlertsAreNamed, Named, TypeOK
    <3>1. QED
      BY <1>0, <2>0, <2>2, <3>0 DEF OpenOrEscalate, Nothing, TypeOK, cabinetVars,
                                    OneName, LatchIsRead, CloudFollows
  <2>3. CASE /\ Rank(dec[me].tier) <= Rank(tier) /\ (dec[me].tier # "normal" \/ id = NoId)
             /\ NothingToSay(me)
    <3>1. QED
      BY <2>0, <2>3 DEF NothingToSay, Silent, cabinetVars, cloudVars, OneName,
                        LatchIsRead, CloudFollows
  <2>4. CASE Wait(me) /\ id # NoId
    BY <2>0, <2>4 DEF Wait, Silent, cabinetVars, cloudVars, OneName, LatchIsRead,
                      CloudFollows
  <2>5. QED
    BY <1>0, <1>4, <2>1, <2>2, <2>3, <2>4, ObserveCases
<1>5. ASSUME PublishTransition(me)
      PROVE  AloneInv'
  BY <1>5 DEF PublishTransition, Step, engineVars, trackerVars, cabinetVars, OneName,
              LatchIsRead, CloudFollows
<1>6. ASSUME Announce(me)
      PROVE  AloneInv'
  BY <1>0, <1>6 DEF Announce, NoDecision, engineVars, trackerVars, cabinetVars, OneName,
                    LatchIsRead, CloudFollows, TypeOK
<1>7. ASSUME SilenceCompletes \/ EpisodeOutlivesCap \/ SwitchTestMode \/ UNCHANGED vars
      PROVE  AloneInv'
  BY <1>7
     DEF SilenceCompletes, EpisodeOutlivesCap, SwitchTestMode, engineVars, cabinetVars,
         trackerVars, threadVars, cloudVars, vars, OneName, LatchIsRead, CloudFollows
<1>8. ASSUME Restart
      PROVE  AloneInv'
  BY <1>0, <1>8 DEF Restart, NoDecision, OneName, LatchIsRead, CloudFollows, TypeOK
<1>9. QED
  BY <1>0, <1>1, <1>2, <1>3, <1>4, <1>5, <1>6, <1>7, <1>8
     DEF Next, SeedLink, Sasmex, Pass, Alone, OneName, ResetCabinet, ResetRules

\* And, where no sensor degrades, no identity that closed is ever reused.
LEMMA QuakeStep ==
  ASSUME Alone, "manual_only" \notin GroundTiers, IInv, AloneInv, QuakeInv, [Next]_vars
  PROVE  QuakeInv'
<1> USE DEF QuakeInv
<1>0. /\ me \in Threads /\ TypeOK /\ AlertsAreNamed /\ TransitionsAreFresh
      /\ \A level \in GroundTiers : level \in Tier
  BY TiersAssumption DEF Alone, me, IInv
<1>1. ASSUME NEW level \in GroundTiers, EvaluateFeatures(level)
      PROVE  QuakeInv'
  <2>0. /\ minted \in Nat /\ engine \in Nat /\ engine <= minted
        /\ \A x \in announced \cup closed \cup {id, file.id, out[me].id} : x \in Nat /\ x <= minted
    BY <1>0 DEF TypeOK, MintedBefore, Id, NoId, Episodes, Transition
  <2>1. /\ minted' \in Nat /\ engine' <= minted' /\ minted <= minted'
        /\ engine' # engine => engine' > minted
    BY <1>1, <2>0 DEF EvaluateFeatures, Emit, engineVars
  <2>2. dec'[me] = IF level = "normal" THEN NoDecision ELSE [tier |-> level, id |-> engine']
    BY <1>0, <1>1 DEF EvaluateFeatures, Emit, TypeOK, me
  <2>3. MintedBefore'
    BY <1>1, <2>0, <2>1, <2>2
       DEF EvaluateFeatures, MintedBefore, trackerVars, cloudVars, NoDecision, NoId
  <2>4. id = NoId /\ engine' # NoId => engine' \notin announced \cup closed
    BY <2>0, <2>1 DEF NotReused
  <2>5. pc'[me] = "decided" /\ out[me] = Nothing
    BY <1>0, <1>1 DEF EvaluateFeatures, Step, TypeOK, TransitionsAreFresh, me
  <2>6. NotReused' /\ NotDegraded'
    BY <1>1, <2>2, <2>4, <2>5 DEF EvaluateFeatures, NoDecision, trackerVars, cloudVars,
                                  NotReused, NotDegraded
  <2>7. QED
    BY <2>3, <2>6
<1>2. ASSUME NEW linkDown \in BOOLEAN, Act(me, linkDown)
      PROVE  QuakeInv'
  BY <1>0, <1>2 DEF Act, NoDecision, engineVars, trackerVars, cloudVars, MintedBefore,
                    NotReused, NotDegraded, TypeOK, TransitionsAreFresh, Nothing
<1>3. ASSUME NEW linkDown \in BOOLEAN, ReadLatch(me, linkDown)
      PROVE  QuakeInv'
  BY <1>3 DEF ReadLatch, Step, engineVars, trackerVars, cloudVars, MintedBefore,
              NotReused, NotDegraded
<1>4. ASSUME Observe(me)
      PROVE  QuakeInv'
  <2>0. /\ pc[me] = "read" /\ out[me] = Nothing /\ pc'[me] = "observed"
        /\ UNCHANGED <<minted, cabinetVars, dec, read, cloudVars, crashes>>
    BY <1>0, <1>4 DEF Observe, Step, TransitionsAreFresh, TypeOK
  <2>1. CASE id # NoId /\ Close(me)
    BY <1>0, <2>0, <2>1 DEF Close, Save, NoFile, NoId, TypeOK, cloudVars, MintedBefore,
                            NotReused, NotDegraded
  <2>2. CASE Rank(dec[me].tier) > Rank(tier) /\ OpenOrEscalate(me)
    <3>0. dec[me].tier \notin {"normal", "manual_only"}
      BY <1>0, <2>2, Ranks DEF AlertsAreNamed, Named, TypeOK
    <3>1. QED
      BY <1>0, <2>0, <2>2, <3>0 DEF OpenOrEscalate, Save, cloudVars, AlertsAreNamed,
                                    MintedBefore, NotReused, NotDegraded
  <2>3. CASE /\ Rank(dec[me].tier) <= Rank(tier) /\ (dec[me].tier # "normal" \/ id = NoId)
             /\ NothingToSay(me)
    <3>0. id = NoId /\ dec[me].tier # "normal" => dec[me].tier = "manual_only"
      BY <1>0, <2>3, Ranks DEF AlertsAreNamed, Named, TypeOK, Decision
    <3>1. QED
      BY <2>0, <2>3, <3>0 DEF NothingToSay, Silent, cloudVars, MintedBefore, NotReused,
                              NotDegraded
  <2>4. CASE Wait(me) /\ id # NoId
    BY <2>0, <2>4 DEF Wait, Silent, cloudVars, MintedBefore, NotReused, NotDegraded
  <2>5. QED
    BY <1>0, <1>4, <2>1, <2>2, <2>3, <2>4, ObserveCases
<1>5. ASSUME PublishTransition(me)
      PROVE  QuakeInv'
  BY <1>0, <1>5 DEF PublishTransition, Step, engineVars, trackerVars, Nothing,
                    MintedBefore, NotReused, NotDegraded, TypeOK, NoId, Nothing
<1>6. ASSUME Announce(me)
      PROVE  QuakeInv'
  BY <1>0, <1>6 DEF Announce, Step, NoDecision, engineVars, trackerVars, MintedBefore,
                    NotReused, NotDegraded, TransitionsAreFresh, Nothing
<1>7. ASSUME SilenceCompletes \/ EpisodeOutlivesCap \/ SwitchTestMode \/ UNCHANGED vars
      PROVE  QuakeInv'
  BY <1>7
     DEF SilenceCompletes, EpisodeOutlivesCap, SwitchTestMode, engineVars, trackerVars,
         threadVars, cloudVars, vars, MintedBefore, NotReused, NotDegraded
<1>8. ASSUME Restart
      PROVE  QuakeInv'
  BY <1>0, <1>8 DEF Restart, NoFile, NoDecision, Nothing, cloudVars, MintedBefore,
                    NotReused, NotDegraded, TypeOK, NoId, Nothing
<1>9. QED
  BY <1>0, <1>1, <1>2, <1>3, <1>4, <1>5, <1>6, <1>7, <1>8
     DEF Next, SeedLink, Sasmex, Pass, Alone, AloneInv, OneName, ResetCabinet,
         ResetRules

\* What holds besides in a cabinet with one thread and no reset from the panel: one name,
\* a latch that is as it was read, a cloud that follows.
THEOREM AloneInvariance == ASSUME Alone PROVE Spec => [](IInv /\ AloneInv)
<1>1. Init => IInv /\ AloneInv
  BY Begins, AloneBegins
<1>2. IInv /\ AloneInv /\ [Next]_vars => (IInv /\ AloneInv)'
  BY IInvStep, AloneStep
<1>3. QED
  BY <1>1, <1>2, PTL DEF Spec

\* By one thread, with no reset from the panel, the incident that is announced is
\* the one the tracker closes (rules/__init__.py _episode_event_id).
THEOREM AnnouncedIsTheEpisode == ASSUME Alone PROVE Spec => []OneIdentity
<1>1. AloneInv => OneIdentity
  BY DEF AloneInv, OneName, OneIdentity, Alone, me
<1>2. QED
  BY <1>1, AloneInvariance, PTL

\* Engine and cloud follow the one tracker, the engine across restarts.
THEOREM AllFollowTheTracker == ASSUME Alone PROVE Spec => []TrackerIsFollowed
<1>1. AloneInv => TrackerIsFollowed
  BY DEF AloneInv, OneName, CloudFollows, TrackerIsFollowed, Alone, me
<1>2. QED
  BY <1>1, AloneInvariance, PTL

\* Where sensors do not degrade, two earthquakes are two incidents and one
\* earthquake is one, but for power cuts.
THEOREM QuakesAreEpisodes ==
  ASSUME Alone, "manual_only" \notin GroundTiers
  PROVE  Spec => OneEpisodePerQuake
<1> DEFINE One ==
      crashes' = crashes =>
        /\ id = NoId /\ id' # NoId => id' \notin announced \cup closed
        /\ id # NoId /\ id' = NoId /\ ~old => ~latched
<1>1. Init => IInv /\ AloneInv /\ QuakeInv
  BY Begins, AloneBegins
<1>2. IInv /\ AloneInv /\ QuakeInv /\ [Next]_vars => (IInv /\ AloneInv /\ QuakeInv)'
  BY IInvStep, AloneStep, QuakeStep
<1>3. ASSUME IInv, AloneInv, QuakeInv, [Next]_vars
      PROVE  One
  <2>1. me \in Threads /\ TypeOK /\ AlertsAreNamed
    BY <1>3 DEF Alone, me, IInv
  <2>2. CASE Restart
    BY <2>2 DEF Restart
  <2>3. CASE Observe(me)
    <3>1. CASE Close(me) /\ (old \/ (quiet = "complete" /\ read[me] = "down"))
      BY <1>3, <2>3, <3>1 DEF AloneInv, LatchIsRead, Observe, Step, Close
    <3>2. CASE Rank(dec[me].tier) > Rank(tier) /\ OpenOrEscalate(me)
      <4>1. dec[me].tier # "normal"
        BY <2>1, <3>2, Ranks DEF AlertsAreNamed, Named, TypeOK
      <4>2. QED
        BY <1>3, <2>3, <3>2, <4>1 DEF OpenOrEscalate, AloneInv, OneName, QuakeInv,
                                      NotReused, Observe, Step
    <3>3. CASE NothingToSay(me) \/ Wait(me)
      BY <3>3 DEF NothingToSay, Wait, Silent
    <3>4. QED
      BY <2>1, <2>3, <3>1, <3>2, <3>3, ObserveCases
  <2>4. QED
    BY <1>3, <2>1, <2>2, <2>3, WhoMovesTheEpisode DEF Alone
<1>4. QED
  BY <1>1, <1>2, <1>3, PTL DEF Spec, OneEpisodePerQuake
=============================================================================
