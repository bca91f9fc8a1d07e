------------------------------- MODULE Episode --------------------------------
(***************************************************************************)
(* The identity and the life of an alert episode.                          *)
(*                                                                         *)
(* Three objects of edge/takab_edge hold a part of it: RuleEngine mints    *)
(* the identity (rules/__init__.py), EpisodeTracker decides when the       *)
(* episode opens, escalates and ends, and persists it (rules/episode.py),  *)
(* and the supervisor drives both from two threads, SeedLink's and the     *)
(* WR-1 callback's (supervisor.py).  The tracker is locked and the engine  *)
(* is locked, the pass of a decision from one to the other is not, so each *)
(* thread goes through the steps of _act_and_publish one at a time.        *)
(*                                                                         *)
(* Durations are abstracted: the silence clock, once running, may complete *)
(* at any moment, and an open episode may outlive its cap at any moment,   *)
(* which covers every episode_quiet_s, episode_max_s and clock.            *)
(***************************************************************************)
EXTENDS Integers, FiniteSets

CONSTANTS
  Threads,        (* subset of {"seedlink", "sasmex"}                    *)
  GroundTiers,    (* tiers decide() may return for the ground motion     *)
  Instrumental,   (* the site's opt-in: thresholds command relays        *)
  Operator,       (* the operator may close the alert from the panel     *)
  DiskFails,      (* writing episodio.json may fail (full disk)          *)
  MaxCrashes,     (* bound: power cuts                                   *)
  MaxIds          (* bound: identities minted                            *)

Tier == {"normal", "watch", "restricted", "evacuate", "manual_only"}

NoId == 0
Id   == 1..MaxIds

ASSUME ThreadsAssumption == Threads \subseteq {"seedlink", "sasmex"}
ASSUME TiersAssumption == "normal" \in GroundTiers /\ GroundTiers \subseteq Tier
ASSUME FlagsAssumption == Instrumental \in BOOLEAN /\ Operator \in BOOLEAN
                                /\ DiskFails \in BOOLEAN
ASSUME BoundsAssumption == MaxCrashes \in Nat /\ MaxIds \in Nat

VARIABLES
  engine,      (* RuleEngine._event_id                                   *)
  minted,      (* how many identities new_event_id has given             *)
  tier, id,    (* EpisodeTracker._tier, ._event_id                       *)
  quiet,       (* its silence clock: not running, running, complete      *)
  old,         (* the open episode has outlived max_s                    *)
  file,        (* episodio.json                                          *)
  latched,     (* the cabinet's alert_latched                            *)
  testMode,    (* WR-1 test window armed                                 *)
  panel,       (* an operator's close, between its two calls             *)
  pc,          (* where each thread is in _act_and_publish               *)
  dec,         (* the decision each thread carries                       *)
  read,        (* what it read of the latch                              *)
  out,         (* the transition observe() returned to it                *)
  crashes,
  announced,   (* history: identities of the published LocalEvents       *)
  opened,      (* history: identities of published openings              *)
  closed,      (* history: identities of published closings              *)
  cloudTier,   (* history: new_tier of the last published transition     *)
  disturbed    (* history: shaking or latch seen since the clock started *)

engineVars  == <<engine, minted>>
trackerVars == <<tier, id, quiet, old, file, disturbed>>
cabinetVars == <<latched, testMode, panel>>
threadVars  == <<pc, dec, read, out>>
cloudVars   == <<announced, opened, closed, cloudTier>>
vars == <<engineVars, trackerVars, cabinetVars, threadVars, cloudVars, crashes>>

\* _rango: manual_only is a degradation of the sensors, not a shaking.
Rank(t) ==
  CASE t = "normal" -> 0 [] t = "watch" -> 1 [] t = "restricted" -> 2
    [] t = "evacuate" -> 3 [] OTHER -> -1

Decision   == [tier : Tier, id : Id \cup {NoId}]
NoDecision == [tier |-> "normal", id |-> NoId]

Transition == [id : Id \cup {NoId}, new : Tier]
Nothing    == [id |-> NoId, new |-> "normal"]

Episodes == [tier : Tier, id : Id \cup {NoId}]
NoFile   == [tier |-> "normal", id |-> NoId]

Step(t, from, to) == pc[t] = from /\ pc' = [pc EXCEPT ![t] = to]

Init ==
  /\ engine = NoId /\ minted = 0
  /\ tier = "normal" /\ id = NoId
  /\ quiet = "none" /\ old = FALSE /\ disturbed = FALSE
  /\ file = NoFile
  /\ latched = FALSE /\ testMode = FALSE /\ panel = "idle"
  /\ pc = [t \in Threads |-> "idle"]
  /\ dec = [t \in Threads |-> NoDecision]
  /\ read = [t \in Threads |-> "unknown"]
  /\ out = [t \in Threads |-> Nothing]
  /\ crashes = 0
  /\ announced = {} /\ opened = {} /\ closed = {} /\ cloudTier = "normal"

-----------------------------------------------------------------------------
(***************************************************************************)
(* RuleEngine.                                                             *)
(***************************************************************************)

\* Mutant of Emit: every alert mints an identity.
Mutant_MintsAlways(t, level) ==
  IF level = "normal"
  THEN /\ dec' = [dec EXCEPT ![t] = NoDecision]
       /\ UNCHANGED engineVars
  ELSE /\ minted < MaxIds
       /\ engine' = minted + 1 /\ minted' = minted + 1
       /\ dec' = [dec EXCEPT ![t] = [tier |-> level, id |-> engine']]

\* _emit with _episode_event_id: a normal decision has an identity of its own,
\* any other shares the episode's, minted if there is none.
Emit(t, level) ==
  IF level = "normal"
  THEN /\ dec' = [dec EXCEPT ![t] = NoDecision]
       /\ UNCHANGED engineVars
  ELSE /\ engine # NoId \/ minted < MaxIds
       /\ engine' = IF engine = NoId THEN minted + 1 ELSE engine
       /\ minted' = IF engine = NoId THEN minted + 1 ELSE minted
       /\ dec' = [dec EXCEPT ![t] = [tier |-> level, id |-> engine']]

\* A packet gave a feature and evaluate_features a tier.
EvaluateFeatures(level) ==
  /\ Step("seedlink", "idle", "decided")
  /\ Emit("seedlink", level)
  /\ UNCHANGED <<trackerVars, cabinetVars, read, out, cloudVars, crashes>>

\* The reflex latches inside the pin owner; its observer runs afterwards.
SasmexReflex ==
  /\ Step("sasmex", "idle", "reflex")
  /\ latched' = TRUE
  /\ UNCHANGED <<engineVars, trackerVars, testMode, panel, dec, read, out,
                 cloudVars, crashes>>

EvaluateSasmex ==
  /\ Step("sasmex", "reflex", "decided")
  /\ Emit("sasmex", "evacuate")
  /\ UNCHANGED <<trackerVars, cabinetVars, read, out, cloudVars, crashes>>

-----------------------------------------------------------------------------
(***************************************************************************)
(* The rest of _act_and_publish, one step per point where the other thread *)
(* or the operator can come in between.                                    *)
(***************************************************************************)
Actuates(t) ==
  /\ t = "sasmex" \/ Instrumental
  /\ dec[t].tier \in {"restricted", "evacuate"}

\* Relays first; then the test window keeps everything from the cloud, unless
\* it could not be read (linkDown), in which case it is published.
Act(t, linkDown) ==
  /\ pc[t] = "decided"
  /\ latched' = (latched \/ Actuates(t))
  /\ IF testMode /\ ~linkDown
     THEN /\ pc' = [pc EXCEPT ![t] = "idle"]
          /\ dec' = [dec EXCEPT ![t] = NoDecision]
     ELSE /\ pc' = [pc EXCEPT ![t] = "acted"]
          /\ UNCHANGED dec
  /\ UNCHANGED <<engineVars, trackerVars, testMode, panel, read, out,
                 cloudVars, crashes>>

\* The latch is read here and used in the next step.
ReadLatch(t, linkDown) ==
  /\ Step(t, "acted", "read")
  /\ read' = [read EXCEPT ![t] = IF linkDown THEN "unknown"
                                 ELSE IF latched THEN "up" ELSE "down"]
  /\ UNCHANGED <<engineVars, trackerVars, cabinetVars, dec, out, cloudVars,
                 crashes>>

Silent == UNCHANGED <<tier, id, old, file, engine>>

\* _guardar: a disk that refuses the write leaves the previous file.
Save(state) ==
  \/ file' = state
  \/ DiskFails /\ file' = file

\* Mutants of Close: the closing travels under the identity of the decision that
\* closes; the engine keeps the identity.
Mutant_ClosesUnderDecision(t) ==
  /\ tier' = "normal" /\ id' = NoId
  /\ quiet' = "none" /\ old' = FALSE /\ disturbed' = FALSE
  /\ Save(NoFile)
  /\ engine' = NoId
  /\ out' = [out EXCEPT ![t] = [id |-> dec[t].id, new |-> "normal"]]

Mutant_KeepsIdentity(t) ==
  /\ tier' = "normal" /\ id' = NoId
  /\ quiet' = "none" /\ old' = FALSE /\ disturbed' = FALSE
  /\ Save(NoFile)
  /\ UNCHANGED engine
  /\ out' = [out EXCEPT ![t] = [id |-> id, new |-> "normal"]]

\* _cerrar: the only end of an episode, and it retires the engine's identity.
Close(t) ==
  /\ tier' = "normal" /\ id' = NoId
  /\ quiet' = "none" /\ old' = FALSE /\ disturbed' = FALSE
  /\ Save(NoFile)
  /\ engine' = NoId
  /\ out' = [out EXCEPT ![t] = [id |-> id, new |-> "normal"]]

\* Mutant of OpenOrEscalate: only the opening is published.
Mutant_EscalatesInSilence(t) ==
  /\ tier' = dec[t].tier
  /\ id' = IF id = NoId THEN dec[t].id ELSE id
  /\ old' = IF id = NoId THEN FALSE ELSE old
  /\ quiet' = "none" /\ disturbed' = FALSE
  /\ Save([tier |-> tier', id |-> id'])
  /\ out' = IF id = NoId THEN [out EXCEPT ![t] = [id |-> id', new |-> tier']]
                          ELSE out
  /\ UNCHANGED engine

OpenOrEscalate(t) ==
  /\ tier' = dec[t].tier
  /\ id' = IF id = NoId THEN dec[t].id ELSE id
  /\ old' = IF id = NoId THEN FALSE ELSE old
  /\ quiet' = "none" /\ disturbed' = FALSE
  /\ Save([tier |-> tier', id |-> id'])
  /\ out' = [out EXCEPT ![t] = [id |-> id', new |-> tier']]
  /\ UNCHANGED engine

\* Mutant of NothingToSay: a shaking below the tier does not stop the clock.
Mutant_ClockGoesOn(t) ==
  /\ disturbed' = (disturbed \/ dec[t].tier # "normal")
  /\ UNCHANGED <<quiet, out>>
  /\ Silent

\* A decision below the episode's tier, or normal with no episode.
NothingToSay(t) ==
  /\ quiet' = IF dec[t].tier # "normal" THEN "none" ELSE quiet
  /\ disturbed' = (disturbed \/ dec[t].tier # "normal")
  /\ UNCHANGED out
  /\ Silent

\* _quizas_cerrar before the silence is complete.
Wait(t) ==
  /\ quiet' = IF read[t] # "down" THEN "none"
              ELSE IF quiet = "none" THEN "running" ELSE quiet
  /\ disturbed' = (read[t] # "down" \/ (quiet # "none" /\ disturbed))
  /\ UNCHANGED out
  /\ Silent

\* Mutants of Observe: a lower tier replaces the episode's; there is no cap; the
\* latch is not consulted once the clock has completed.
Mutant_TakesAnyTier(t) ==
  /\ Step(t, "read", "observed")
  /\ CASE id # NoId /\ old -> Close(t)
       [] ~(id # NoId /\ old) /\ Rank(dec[t].tier) \notin {0, Rank(tier)} ->
            OpenOrEscalate(t)
       [] OTHER -> IF read[t] = "down" /\ quiet = "complete"
                   THEN Close(t) ELSE Wait(t)
  /\ UNCHANGED <<minted, cabinetVars, dec, read, cloudVars, crashes>>

Mutant_NoCap(t) ==
  /\ Step(t, "read", "observed")
  /\ CASE Rank(dec[t].tier) > Rank(tier) -> OpenOrEscalate(t)
       [] Rank(dec[t].tier) <= Rank(tier)
            /\ (dec[t].tier # "normal" \/ id = NoId) -> NothingToSay(t)
       [] OTHER -> IF read[t] = "down" /\ quiet = "complete"
                   THEN Close(t) ELSE Wait(t)
  /\ UNCHANGED <<minted, cabinetVars, dec, read, cloudVars, crashes>>

Mutant_IgnoresLatch(t) ==
  /\ Step(t, "read", "observed")
  /\ CASE id # NoId /\ old -> Close(t)
       [] ~(id # NoId /\ old) /\ Rank(dec[t].tier) > Rank(tier) ->
            OpenOrEscalate(t)
       [] ~(id # NoId /\ old) /\ Rank(dec[t].tier) <= Rank(tier)
            /\ (dec[t].tier # "normal" \/ id = NoId) -> NothingToSay(t)
       [] OTHER -> IF quiet = "complete" THEN Close(t) ELSE Wait(t)
  /\ UNCHANGED <<minted, cabinetVars, dec, read, cloudVars, crashes>>

\* EpisodeTracker.observe, whole, under its lock.
Observe(t) ==
  /\ Step(t, "read", "observed")
  /\ CASE id # NoId /\ old -> Close(t)
       [] ~(id # NoId /\ old) /\ Rank(dec[t].tier) > Rank(tier) ->
            OpenOrEscalate(t)
       [] ~(id # NoId /\ old) /\ Rank(dec[t].tier) <= Rank(tier)
            /\ (dec[t].tier # "normal" \/ id = NoId) -> NothingToSay(t)
       [] OTHER -> IF read[t] = "down" /\ quiet = "complete"
                   THEN Close(t) ELSE Wait(t)
  /\ UNCHANGED <<minted, cabinetVars, dec, read, cloudVars, crashes>>

\* Mutant of PublishTransition: a normal decision returns before publishing.
Mutant_NormalSaysNothing(t) ==
  /\ Step(t, "observed", "announce")
  /\ IF out[t] = Nothing \/ dec[t].tier = "normal"
     THEN UNCHANGED <<opened, closed, cloudTier>>
     ELSE /\ cloudTier' = out[t].new
          /\ opened' = opened \cup {out[t].id}
          /\ UNCHANGED closed
  /\ out' = [out EXCEPT ![t] = Nothing]
  /\ UNCHANGED <<engineVars, trackerVars, cabinetVars, dec, read, announced,
                 crashes>>

\* cloud.publish of the transition, outside every lock.
PublishTransition(t) ==
  /\ Step(t, "observed", "announce")
  /\ IF out[t] = Nothing
     THEN UNCHANGED <<opened, closed, cloudTier>>
     ELSE /\ cloudTier' = out[t].new
          /\ opened' = opened \cup (IF out[t].new = "normal" THEN {} ELSE {out[t].id})
          /\ closed' = closed \cup (IF out[t].new = "normal" THEN {out[t].id} ELSE {})
  /\ out' = [out EXCEPT ![t] = Nothing]
  /\ UNCHANGED <<engineVars, trackerVars, cabinetVars, dec, read, announced,
                 crashes>>

\* The LocalEvent that opens an incident; a normal decision publishes none.
Announce(t) ==
  /\ Step(t, "announce", "idle")
  /\ announced' = announced \cup (IF dec[t].tier = "normal" THEN {} ELSE {dec[t].id})
  /\ dec' = [dec EXCEPT ![t] = NoDecision]
  /\ read' = [read EXCEPT ![t] = "unknown"]
  /\ UNCHANGED <<engineVars, trackerVars, cabinetVars, out, opened, closed,
                 cloudTier, crashes>>

-----------------------------------------------------------------------------
(***************************************************************************)
(* Time, the operator, the test window and power.                          *)
(***************************************************************************)
SilenceCompletes ==
  /\ quiet = "running"
  /\ quiet' = "complete"
  /\ UNCHANGED <<engineVars, tier, id, old, file, disturbed, cabinetVars,
                 threadVars, cloudVars, crashes>>

EpisodeOutlivesCap ==
  /\ id # NoId
  /\ ~old
  /\ old' = TRUE
  /\ UNCHANGED <<engineVars, tier, id, quiet, file, disturbed, cabinetVars,
                 threadVars, cloudVars, crashes>>

\* Armed or disarmed from the panel, or expired.
SwitchTestMode ==
  /\ testMode' = ~testMode
  /\ UNCHANGED <<engineVars, trackerVars, latched, panel, threadVars,
                 cloudVars, crashes>>

\* reset_alert, first call: the pin owner drops the latch.
ResetCabinet ==
  /\ Operator
  /\ panel = "idle"
  /\ panel' = "half"
  /\ latched' = FALSE
  /\ UNCHANGED <<engineVars, trackerVars, testMode, threadVars, cloudVars,
                 crashes>>

\* Second call, RuleEngine.reset: the engine forgets its identity.
ResetRules ==
  /\ panel = "half"
  /\ panel' = "idle"
  /\ engine' = NoId
  /\ UNCHANGED <<minted, trackerVars, latched, testMode, threadVars,
                 cloudVars, crashes>>

\* Mutant of Restart: the engine does not adopt the restored episode.
Mutant_RestartForgets ==
  /\ crashes < MaxCrashes
  /\ crashes' = crashes + 1
  /\ tier' = file.tier /\ id' = file.id /\ engine' = NoId
  /\ old' = FALSE /\ quiet' = "none" /\ disturbed' = FALSE
  /\ latched' \in {latched, FALSE}
  /\ testMode' = FALSE /\ panel' = "idle"
  /\ pc' = [t \in Threads |-> "idle"]
  /\ dec' = [t \in Threads |-> NoDecision]
  /\ read' = [t \in Threads |-> "unknown"]
  /\ out' = [t \in Threads |-> Nothing]
  /\ UNCHANGED <<minted, file, cloudVars>>

\* Power cut and boot: the tracker restores its file, or discards one that is
\* too old or unreadable; the engine adopts what was restored; the pin owner
\* comes back with or without the latch.
Restart ==
  /\ crashes < MaxCrashes
  /\ crashes' = crashes + 1
  /\ \E kept \in {file, NoFile} :
       tier' = kept.tier /\ id' = kept.id /\ engine' = kept.id
  /\ old' = FALSE
  /\ quiet' = "none" /\ disturbed' = FALSE
  /\ latched' \in {latched, FALSE}
  /\ testMode' = FALSE
  /\ panel' = "idle"
  /\ pc' = [t \in Threads |-> "idle"]
  /\ dec' = [t \in Threads |-> NoDecision]
  /\ read' = [t \in Threads |-> "unknown"]
  /\ out' = [t \in Threads |-> Nothing]
  /\ UNCHANGED <<minted, file, cloudVars>>

-----------------------------------------------------------------------------
Pass(t) ==
  \/ \E linkDown \in BOOLEAN : Act(t, linkDown) \/ ReadLatch(t, linkDown)
  \/ Observe(t) \/ PublishTransition(t) \/ Announce(t)

SeedLink ==
  /\ "seedlink" \in Threads
  /\ Pass("seedlink") \/ \E level \in GroundTiers : EvaluateFeatures(level)

Sasmex ==
  /\ "sasmex" \in Threads
  /\ Pass("sasmex") \/ SasmexReflex \/ EvaluateSasmex

Next ==
  \/ SeedLink \/ Sasmex
  \/ SilenceCompletes \/ EpisodeOutlivesCap
  \/ SwitchTestMode \/ ResetCabinet \/ ResetRules \/ Restart

Spec == Init /\ [][Next]_vars

(***************************************************************************)
(* Packets arrive every second and the thread that takes one finishes with *)
(* it; a callback that has started ends; time passes.                      *)
(***************************************************************************)
Fairness ==
  /\ WF_vars(SeedLink)
  /\ WF_vars("sasmex" \in Threads /\ (Pass("sasmex") \/ EvaluateSasmex))
  /\ WF_vars(EpisodeOutlivesCap)

FairSpec == Spec /\ Fairness

-----------------------------------------------------------------------------
TypeOK ==
  /\ engine \in Id \cup {NoId} /\ minted \in 0..MaxIds
  /\ tier \in Tier /\ id \in Id \cup {NoId}
  /\ quiet \in {"none", "running", "complete"}
  /\ old \in BOOLEAN /\ disturbed \in BOOLEAN
  /\ file \in Episodes
  /\ latched \in BOOLEAN /\ testMode \in BOOLEAN /\ panel \in {"idle", "half"}
  /\ pc \in [Threads -> {"idle", "reflex", "decided", "acted", "read",
                         "observed", "announce"}]
  /\ dec \in [Threads -> Decision]
  /\ read \in [Threads -> {"unknown", "up", "down"}]
  /\ out \in [Threads -> Transition]
  /\ crashes \in 0..MaxCrashes
  /\ announced \subseteq Id /\ opened \subseteq Id /\ closed \subseteq Id
  /\ cloudTier \in Tier

\* Silence is CONTINUOUS: an episode younger than its cap is closed only when
\* no decision but normal and no latch (or an unreadable one) was observed since
\* the clock started.  Until then its tier only rises: no order of two threads, and
\* no decision of a calmer ground, takes protection back.
HeldUntilSilence ==
  [][ id # NoId =>
        /\ id' = id /\ tier' # tier => Rank(tier') > Rank(tier)
        /\ id' = NoId /\ ~old /\ crashes' = crashes => quiet = "complete" /\ ~disturbed ]_vars

\* An opening that crossed to the cloud is followed by a closing: it has been
\* published, it is on its way, or the tracker still owes it.
ClosingIsNotLost ==
  /\ TypeOK
  /\ \A x \in opened : \/ x \in closed
                       \/ x = id
                       \/ \E t \in Threads : out[t] = [id |-> x, new |-> "normal"]

\* An episode whose latch is never taken off does not last for ever, and the cloud
\* hears of its end: whoever was told to evacuate is told it is over.  Only a power
\* cut may keep it from them.
ClosingReachesCloud ==
  <>[]~testMode => \A x \in Id : (x \in opened) ~> (x \in closed \/ crashes > 0)

\* The episode has ONE identity: the incident a thread is about to announce is
\* the one the tracker will close.
OneIdentity ==
  \A t \in Threads : pc[t] = "announce" /\ dec[t].tier # "normal" /\ id # NoId
                      => dec[t].id = id

\* One tracker, followed by both its readers: while an episode is open the engine
\* mints no other identity, across restarts too, and what the cloud last heard is the
\* tracker's tier, once nothing is on its way.
TrackerIsFollowed ==
  /\ id # NoId => engine = id
  /\ crashes = 0 /\ (\A t \in Threads : out[t] = Nothing) => cloudTier = tier

\* A new episode is a new event: its identity was neither announced nor closed
\* before (two real earthquakes are two incidents).  And one earthquake is not two:
\* with the latch up the crisis is alive by definition, and only the cap ends it.
OneEpisodePerQuake ==
  [][ crashes' = crashes =>
        /\ id = NoId /\ id' # NoId => id' \notin announced \cup closed
        /\ id # NoId /\ id' = NoId /\ ~old => ~latched ]_vars

=============================================================================
