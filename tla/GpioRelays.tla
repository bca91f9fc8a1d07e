------------------------------ MODULE GpioRelays ------------------------------
(***************************************************************************)
(* The owner of the cabinet's pins: edge/takab_edge/gpio (GpioController). *)
(*                                                                         *)
(* One object, one re-entrant lock, many threads: the WR-1 contact, two    *)
(* push buttons, the LAN panel, the rule engine, the two self-test workers *)
(* and two threading.Timers.  Everything a caller does under the lock is   *)
(* one action; what it does before taking the lock or after releasing it   *)
(* is an action of its own, because another thread may run in between.     *)
(*                                                                         *)
(* The electrical state is never commanded directly: independent demands   *)
(* are set or withdrawn and each affected channel is recomputed from all   *)
(* of them (_desired_energized, _apply).  The self-test pulses are the one *)
(* exception: they write the relay and not the bookkeeping.                *)
(***************************************************************************)
EXTENDS Naturals

CONSTANTS
  Siren, Strobe,  (* the two channels of the SASMEX reflex               *)
  Protectors,     (* the other relay channels: gas, lift, door retainers *)
  Failsafe,       (* declared fail-safe mode of every relay channel      *)
  Batches,        (* sets of channels that one order may name            *)
  Testers,        (* threads that may run a cabinet or actuation test    *)
  NoChannel,      (* a tester that holds no pulse                        *)
  MaxLate         (* bound: timer callbacks waiting for the lock at once *)

Channel == {Siren, Strobe} \cup Protectors
Reflex  == {Siren, Strobe}
Audible == {Siren}

FailSafeMode == {"NORMALLY_OPEN", "NORMALLY_CLOSED", "FAIL_CLOSE"}

ASSUME ChannelAssumption ==
  /\ Siren # Strobe
  /\ Reflex \cap Protectors = {}
  /\ NoChannel \notin Channel

ASSUME FailsafeAssumption == Failsafe \in [Channel -> FailSafeMode]

ASSUME BatchesAssumption == Batches \subseteq SUBSET Channel

ASSUME MaxLateAssumption == MaxLate \in Nat

VARIABLES
  \* Demands (the only thing callers change).
  latched,        (* _sasmex_latched                                     *)
  silenced,       (* _audible_silenced                                   *)
  sirenTest,      (* _siren_test_active                                  *)
  actuationTest,  (* _actuation_test_active                              *)
  demand,         (* _rules_demand, absent keys read as FALSE            *)
  safed,          (* _safed                                              *)
  \* Electrical layer.
  energized,      (* _energized                                          *)
  known,          (* keys of _energized                                  *)
  wired,          (* _relays holds the devices (all of them or none)     *)
  relay,          (* level of each output pin                            *)
  \* Timers and worker threads.
  armed,          (* _test_timer, _actuation_test_timer still running    *)
  late,           (* fired callbacks that still wait for the lock        *)
  job,            (* what each tester is running                         *)
  todo,           (* channels its loop has not reached                   *)
  pulsing,        (* channel it is holding in protection                 *)
  \* Environment and process.
  contact,        (* the WR-1 dry contact                                *)
  pressed,        (* a press handler is waiting for the lock             *)
  intent,         (* what the silence button decided before the lock     *)
  phase,          (* life of this process                                *)
  answered        (* history: the operator reset since the closure       *)

demands   == <<latched, silenced, sirenTest, actuationTest, demand, safed>>
electric  == <<energized, known, wired, relay>>
workers   == <<job, todo, pulsing>>
timing    == <<armed, late>>
inputs    == <<contact, pressed, intent, answered>>
vars      == <<demands, electric, workers, timing, inputs, phase>>

TimerKind == {"siren", "actuation"}

(***************************************************************************)
(* Pure part: from the demands to the level of a channel.                  *)
(***************************************************************************)
NormalEnergized(mode) == mode \in {"NORMALLY_CLOSED", "FAIL_CLOSE"}
ActiveEnergized(mode) == ~NormalEnergized(mode)

Normal(c) == NormalEnergized(Failsafe[c])
Active(c) == ActiveEnergized(Failsafe[c])

AlertDemand(c) == (latched /\ c \in Reflex) \/ demand[c]

TestHold(c) == actuationTest /\ c \in Reflex

Protective(c) ==
  IF c \in Audible
  THEN (AlertDemand(c) /\ ~silenced) \/ sirenTest \/ TestHold(c)
  ELSE AlertDemand(c) \/ TestHold(c)

DesiredEnergized(c) ==
  /\ ~safed
  /\ IF Protective(c) THEN Active(c) ELSE Normal(c)

\* _apply on every channel of cs, with the demands this step leaves behind.
Apply(cs) ==
  /\ energized' = [c \in Channel |-> IF c \in cs THEN DesiredEnergized(c)'
                                                 ELSE energized[c]]
  /\ known' = known \cup cs
  /\ relay' = [c \in Channel |-> IF wired /\ c \in cs THEN DesiredEnergized(c)'
                                                      ELSE relay[c]]
  /\ UNCHANGED wired

AnyDemand == \E c \in Channel : demand[c]

\* The guard of both tests: an alert or an ordered protection is alive.
ProtectionAlive == latched \/ safed \/ AnyDemand

-----------------------------------------------------------------------------
(***************************************************************************)
(* Life of the process.                                                    *)
(***************************************************************************)
Init ==
  /\ latched = FALSE /\ silenced = FALSE /\ safed = FALSE
  /\ sirenTest = FALSE /\ actuationTest = FALSE
  /\ demand = [c \in Channel |-> FALSE]
  /\ energized = [c \in Channel |-> FALSE]
  /\ known = {}
  /\ wired = FALSE
  /\ relay = [c \in Channel |-> FALSE]
  /\ armed = [k \in TimerKind |-> FALSE]
  /\ late = [k \in TimerKind |-> 0]
  /\ job = [t \in Testers |-> "idle"]
  /\ todo = [t \in Testers |-> {}]
  /\ pulsing = [t \in Testers |-> NoChannel]
  /\ contact = FALSE /\ pressed = FALSE /\ answered = FALSE
  /\ intent = "none"
  /\ phase = "off"

\* _arrancar_hardware, first half: every relay at its normal level.
BuildRelays ==
  /\ phase = "off"
  /\ phase' = "built"
  /\ wired' = TRUE
  /\ known' = Channel
  /\ energized' = [c \in Channel |-> Normal(c)]
  /\ relay' = [c \in Channel |-> Normal(c)]
  /\ UNCHANGED <<demands, workers, timing, inputs>>

\* Second half: contact and push buttons get their handlers.
ArmButtons ==
  /\ phase = "built"
  /\ phase' = "armed"
  /\ UNCHANGED <<demands, electric, workers, timing, inputs>>

\* The reflex proper, shared by the edge of the contact and by the seed.
LatchAndSound ==
  /\ latched' = TRUE
  /\ silenced' = FALSE
  /\ UNCHANGED <<sirenTest, actuationTest, demand, safed>>
  /\ Apply(Reflex)

\* Mutant of SeedFromHeldContact: the boot waits for an edge.
Mutant_SeedWaitsForEdge ==
  /\ phase = "armed"
  /\ phase' = "up"
  /\ UNCHANGED <<demands, electric, workers, timing, inputs>>

\* After the service door opens: the level of the contact, not an edge.
SeedFromHeldContact ==
  /\ phase = "armed"
  /\ phase' = "up"
  /\ IF contact THEN LatchAndSound ELSE UNCHANGED <<demands, electric>>
  /\ UNCHANGED <<workers, timing, inputs>>

\* Closed devices give their pins back: inputs, so nothing is energised.
PinsReleased ==
  /\ energized' = [c \in Channel |-> FALSE]
  /\ known' = {}
  /\ wired' = FALSE
  /\ relay' = [c \in Channel |-> FALSE]

\* _apagar_hardware_locked: safe state first, then the devices close.
PowerDown ==
  /\ safed' = TRUE
  /\ UNCHANGED <<latched, silenced, sirenTest, actuationTest, demand>>
  /\ PinsReleased

\* A start that failed half way: same power-down, no timer is cancelled.
RescueFailedStart ==
  /\ phase \in {"built", "armed"}
  /\ phase' = "failed"
  /\ PowerDown
  /\ UNCHANGED <<workers, timing, inputs>>

OnStop ==
  /\ phase = "up"
  /\ phase' = "stopped"
  /\ PowerDown
  /\ armed' = [k \in TimerKind |-> FALSE]
  /\ UNCHANGED <<late, workers, inputs>>

\* The process ends (after a stop) or is killed: nothing survives in memory.
ProcessEnds ==
  /\ phase # "off"
  /\ phase' = "off"
  /\ latched' = FALSE /\ silenced' = FALSE /\ safed' = FALSE
  /\ sirenTest' = FALSE /\ actuationTest' = FALSE
  /\ demand' = [c \in Channel |-> FALSE]
  /\ PinsReleased
  /\ armed' = [k \in TimerKind |-> FALSE]
  /\ late' = [k \in TimerKind |-> 0]
  /\ job' = [t \in Testers |-> "idle"]
  /\ todo' = [t \in Testers |-> {}]
  /\ pulsing' = [t \in Testers |-> NoChannel]
  /\ pressed' = FALSE /\ intent' = "none" /\ answered' = FALSE
  /\ UNCHANGED contact

-----------------------------------------------------------------------------
(***************************************************************************)
(* The WR-1 contact and the silence button.                                *)
(***************************************************************************)
HandlersArmed == phase \in {"armed", "up"}

ContactCloses ==
  /\ ~contact
  /\ contact' = TRUE
  /\ pressed' = (pressed \/ HandlersArmed)
  /\ answered' = FALSE
  /\ UNCHANGED <<demands, electric, workers, timing, intent, phase>>

\* The release handler changes nothing here: the alert stays latched.
ContactOpens ==
  /\ contact
  /\ contact' = FALSE
  /\ UNCHANGED <<demands, electric, workers, timing, pressed, intent,
                 answered, phase>>

DispatchSasmex ==
  /\ pressed
  /\ pressed' = FALSE
  /\ LatchAndSound
  /\ UNCHANGED <<workers, timing, contact, intent, answered, phase>>

SetSilence(b) ==
  /\ silenced' = b
  /\ UNCHANGED <<latched, sirenTest, actuationTest, demand, safed>>
  /\ Apply(Audible)

\* The button toggles what it read OUTSIDE the lock.
SilenceButton ==
  /\ HandlersArmed
  /\ intent = "none"
  /\ intent' = IF silenced THEN "rearm" ELSE "silence"
  /\ UNCHANGED <<demands, electric, workers, timing, contact, pressed,
                 answered, phase>>

SilenceButtonApplies ==
  /\ intent # "none"
  /\ intent' = "none"
  /\ SetSilence(intent = "silence")
  /\ UNCHANGED <<workers, timing, contact, pressed, answered, phase>>

\* Panel and signed-command threads outlive the stop of this module.
Served == phase \in {"up", "stopped"}

SilenceAudibles(b) ==
  /\ Served
  /\ SetSilence(b)
  /\ UNCHANGED <<workers, timing, inputs, phase>>

-----------------------------------------------------------------------------
(***************************************************************************)
(* Tests.  Cancelling a Timer does not stop a callback that has already    *)
(* fired and waits for the lock: such callbacks are counted in late.       *)
(***************************************************************************)
RunSirenTest ==
  /\ Served \/ HandlersArmed
  /\ sirenTest' = TRUE
  /\ UNCHANGED <<latched, silenced, actuationTest, demand, safed>>
  /\ Apply({Siren})
  /\ armed' = [armed EXCEPT !["siren"] = TRUE]
  /\ UNCHANGED <<late, workers, inputs, phase>>

TimerFires(k) ==
  /\ armed[k]
  /\ late[k] < MaxLate
  /\ armed' = [armed EXCEPT ![k] = FALSE]
  /\ late' = [late EXCEPT ![k] = @ + 1]
  /\ UNCHANGED <<demands, electric, workers, inputs, phase>>

\* Mutant of EndSirenTest: it switches the siren off instead of recomputing.
Mutant_EndSwitchesOff ==
  /\ late["siren"] > 0
  /\ late' = [late EXCEPT !["siren"] = @ - 1]
  /\ sirenTest' = FALSE
  /\ energized' = [energized EXCEPT ![Siren] = ~Active(Siren)]
  /\ relay' = [relay EXCEPT ![Siren] = ~Active(Siren)]
  /\ UNCHANGED <<latched, silenced, actuationTest, demand, safed, known,
                 wired, armed, workers, inputs, phase>>

EndSirenTest ==
  /\ late["siren"] > 0
  /\ late' = [late EXCEPT !["siren"] = @ - 1]
  /\ sirenTest' = FALSE
  /\ UNCHANGED <<latched, silenced, actuationTest, demand, safed>>
  /\ Apply({Siren})
  /\ UNCHANGED <<armed, workers, inputs, phase>>

\* Mutant of EndActuationTest: the siren is left as the test put it.
Mutant_EndForgetsSiren ==
  /\ late["actuation"] > 0
  /\ late' = [late EXCEPT !["actuation"] = @ - 1]
  /\ actuationTest' = FALSE
  /\ UNCHANGED <<latched, silenced, sirenTest, demand, safed>>
  /\ Apply(Reflex \ Audible)
  /\ UNCHANGED <<armed, workers, inputs, phase>>

EndActuationTest ==
  /\ late["actuation"] > 0
  /\ late' = [late EXCEPT !["actuation"] = @ - 1]
  /\ actuationTest' = FALSE
  /\ UNCHANGED <<latched, silenced, sirenTest, demand, safed>>
  /\ Apply(Reflex)
  /\ UNCHANGED <<armed, workers, inputs, phase>>

StartSelfTest(t) ==
  /\ Served
  /\ job[t] = "idle"
  /\ job' = [job EXCEPT ![t] = "self_test"]
  /\ todo' = [todo EXCEPT ![t] = Channel \ Audible]
  /\ UNCHANGED <<demands, electric, timing, pulsing, inputs, phase>>

StartActuationTest(t) ==
  /\ Served
  /\ job[t] = "idle"
  /\ ~ProtectionAlive
  /\ silenced' = FALSE
  /\ actuationTest' = TRUE
  /\ UNCHANGED <<latched, sirenTest, demand, safed>>
  /\ Apply(Reflex)
  /\ armed' = [armed EXCEPT !["actuation"] = TRUE]
  /\ job' = [job EXCEPT ![t] = "actuation"]
  /\ todo' = [todo EXCEPT ![t] = Protectors]
  /\ UNCHANGED <<late, pulsing, inputs, phase>>

\* Mutant of Refused: the self-test ignores the safe state.
Mutant_RefusedUnlessSafe(t) ==
  IF job[t] = "self_test" THEN latched \/ AnyDemand ELSE latched \/ safed

\* What makes each loop give up instead of pulsing the next channel.
Refused(t) == IF job[t] = "self_test" THEN ProtectionAlive
                                      ELSE latched \/ safed

PulseRefused(t) ==
  /\ pulsing[t] = NoChannel
  /\ todo[t] # {}
  /\ Refused(t)
  /\ job' = [job EXCEPT ![t] = "idle"]
  /\ todo' = [todo EXCEPT ![t] = {}]
  /\ UNCHANGED <<demands, electric, timing, pulsing, inputs, phase>>

\* The pulse writes the relay and leaves _energized alone.
PulseStarts(t, c) ==
  /\ pulsing[t] = NoChannel
  /\ c \in todo[t]
  /\ ~Refused(t)
  /\ todo' = [todo EXCEPT ![t] = @ \ {c}]
  /\ IF wired
     THEN /\ relay' = [relay EXCEPT ![c] = Active(c)]
          /\ pulsing' = [pulsing EXCEPT ![t] = c]
     ELSE UNCHANGED <<relay, pulsing>>
  /\ UNCHANGED <<demands, energized, known, wired, timing, job, inputs, phase>>

\* Mutant of PulseEnds: back to the normal level, whatever was demanded since.
Mutant_PulseRestoresNormal(t) ==
  /\ pulsing[t] # NoChannel
  /\ relay' = [relay EXCEPT ![pulsing[t]] = wired /\ Normal(pulsing[t])]
  /\ pulsing' = [pulsing EXCEPT ![t] = NoChannel]
  /\ job' = [job EXCEPT ![t] = IF wired THEN @ ELSE "idle"]
  /\ todo' = [todo EXCEPT ![t] = IF wired THEN @ ELSE {}]
  /\ UNCHANGED <<demands, energized, known, wired, timing, inputs, phase>>

\* Back by recomputation; reading back a closed device ends the thread.
PulseEnds(t) ==
  /\ pulsing[t] # NoChannel
  /\ UNCHANGED demands
  /\ Apply({pulsing[t]})
  /\ pulsing' = [pulsing EXCEPT ![t] = NoChannel]
  /\ job' = [job EXCEPT ![t] = IF wired THEN @ ELSE "idle"]
  /\ todo' = [todo EXCEPT ![t] = IF wired THEN @ ELSE {}]
  /\ UNCHANGED <<timing, inputs, phase>>

TestReturns(t) ==
  /\ job[t] # "idle"
  /\ pulsing[t] = NoChannel
  /\ todo[t] = {}
  /\ job' = [job EXCEPT ![t] = "idle"]
  /\ UNCHANGED <<demands, electric, timing, todo, pulsing, inputs, phase>>

-----------------------------------------------------------------------------
(***************************************************************************)
(* Protection ordered by the rules, safe state and the operator's reset.   *)
(***************************************************************************)

\* Mutant of ApplyDemands: the released channels are not recomputed.
Mutant_BatchForgetsReleases(on, off) ==
  /\ Served
  /\ on \cup off # {}
  /\ on \cup off \subseteq known
  /\ demand' = [c \in Channel |-> (c \in on) \/ (demand[c] /\ c \notin off)]
  /\ silenced' = (silenced /\ ~\E c \in on \cap Audible : ~demand[c])
  /\ UNCHANGED <<latched, sirenTest, actuationTest, safed>>
  /\ Apply(on)
  /\ UNCHANGED <<workers, timing, inputs, phase>>

\* One batch under one lock.  A channel without _energized entry is refused, and
\* alone (Orders): the rest of the batch is applied.
ApplyDemands(on, off) ==
  /\ Served
  /\ on \cup off # {}
  /\ on \cup off \subseteq known
  /\ demand' = [c \in Channel |-> (c \in on) \/ (demand[c] /\ c \notin off)]
  /\ silenced' = (silenced /\ ~\E c \in on \cap Audible : ~demand[c])
  /\ UNCHANGED <<latched, sirenTest, actuationTest, safed>>
  /\ Apply(on \cup off)
  /\ UNCHANGED <<workers, timing, inputs, phase>>

DriveAllSafe ==
  /\ Served
  /\ safed' = TRUE
  /\ UNCHANGED <<latched, silenced, sirenTest, actuationTest, demand>>
  /\ Apply(Channel)
  /\ UNCHANGED <<workers, timing, inputs, phase>>

\* Mutant of Reset: the timers are cancelled, the tests they end are not.
Mutant_ResetKeepsTests ==
  /\ Served
  /\ latched' = FALSE /\ silenced' = FALSE /\ safed' = FALSE
  /\ demand' = [c \in Channel |-> FALSE]
  /\ armed' = [k \in TimerKind |-> FALSE]
  /\ UNCHANGED <<sirenTest, actuationTest>>
  /\ Apply(Channel)
  /\ answered' = TRUE
  /\ UNCHANGED <<late, workers, contact, pressed, intent, phase>>

Reset ==
  /\ Served
  /\ latched' = FALSE
  /\ silenced' = FALSE
  /\ sirenTest' = FALSE
  /\ actuationTest' = FALSE
  /\ demand' = [c \in Channel |-> FALSE]
  /\ safed' = FALSE
  /\ armed' = [k \in TimerKind |-> FALSE]
  /\ Apply(Channel)
  /\ answered' = TRUE
  /\ UNCHANGED <<late, workers, contact, pressed, intent, phase>>

-----------------------------------------------------------------------------
Lifecycle ==
  BuildRelays \/ ArmButtons \/ SeedFromHeldContact \/ RescueFailedStart
  \/ OnStop \/ ProcessEnds

Inputs ==
  ContactCloses \/ ContactOpens \/ DispatchSasmex \/ SilenceButton
  \/ SilenceButtonApplies \/ (\E b \in BOOLEAN : SilenceAudibles(b))

Timers ==
  RunSirenTest \/ EndSirenTest \/ EndActuationTest
  \/ \E k \in TimerKind : TimerFires(k)

Tester(t) ==
  StartSelfTest(t) \/ StartActuationTest(t) \/ PulseRefused(t) \/ PulseEnds(t)
  \/ TestReturns(t) \/ \E c \in Channel : PulseStarts(t, c)

Orders ==
  DriveAllSafe \/ Reset
  \/ \E on, off \in Batches \cup {{}} :
       on \cap off = {} /\ ApplyDemands(on \cap known, off \cap known)

Next == Lifecycle \/ Inputs \/ Timers \/ Orders \/ \E t \in Testers : Tester(t)

Spec == Init /\ [][Next]_vars

-----------------------------------------------------------------------------
(***************************************************************************)
(* Correctness.                                                            *)
(***************************************************************************)

\* Every variable stays within its type, stated group by group.
DemandsOK ==
  /\ latched \in BOOLEAN /\ silenced \in BOOLEAN /\ safed \in BOOLEAN
  /\ sirenTest \in BOOLEAN /\ actuationTest \in BOOLEAN
  /\ demand \in [Channel -> BOOLEAN]

ElectricOK ==
  /\ energized \in [Channel -> BOOLEAN]
  /\ known \in SUBSET Channel
  /\ wired \in BOOLEAN
  /\ relay \in [Channel -> BOOLEAN]

WorkersOK ==
  /\ job \in [Testers -> {"idle", "self_test", "actuation"}]
  /\ todo \in [Testers -> SUBSET Channel]
  /\ pulsing \in [Testers -> Channel \cup {NoChannel}]

TimingOK ==
  /\ armed \in [TimerKind -> BOOLEAN]
  /\ late \in [TimerKind -> 0..MaxLate]

InputsOK ==
  /\ contact \in BOOLEAN /\ pressed \in BOOLEAN /\ answered \in BOOLEAN
  /\ intent \in {"none", "silence", "rearm"}
  /\ phase \in {"off", "built", "armed", "up", "stopped", "failed"}

TypeOK == DemandsOK /\ ElectricOK /\ WorkersOK /\ TimingOK /\ InputsOK

\* The bookkeeping of a wired cabinet is what its demands call for, in every
\* interleaving: no caller changes a demand and forgets a channel it moves.
BookkeepingIsCurrent ==
  wired => /\ known = Channel
           /\ \A c \in Channel : energized[c] = DesiredEnergized(c)

\* A pin differs from the bookkeeping only while a self-test holds it, then only
\* towards protection, and never in the safe state (run_cabinet_self_test and
\* run_local_actuation_test).
PulseExplains(c) ==
  /\ relay[c] = Active(c)
  /\ ~safed
  /\ \E t \in Testers : pulsing[t] = c

PinsFollowBookkeeping ==
  wired => \A c \in Channel : relay[c] = energized[c] \/ PulseExplains(c)

\* The cabinet is coherent: the demands, the bookkeeping and the pins say the same,
\* whoever changed a demand last and whatever test was in flight.
CabinetIsCoherent == TypeOK /\ BookkeepingIsCurrent /\ PinsFollowBookkeeping

\* No timer, self-test, button or second order ever lowers a relay that a live
\* alert needs: only the operator's silence (siren alone) or the safe state do.
LiveAlertIsProtected ==
  wired => \A c \in Channel :
             AlertDemand(c) /\ ~safed /\ (c \in Audible => ~silenced)
               => relay[c] = Active(c)

\* The forced safe state is durable against everything but reset(): no relay is
\* energised by a pulse in flight, a timer, a new alert or a new order.
SafeStateIsDark == wired /\ safed => \A c \in Channel : ~relay[c]

\* siren_reason never reaches its "a state that should not exist" branch.
SirenSounding == (Siren \in known /\ energized[Siren]) = Active(Siren)
SirenHasReason ==
  wired /\ SirenSounding =>
    latched \/ demand[Siren] \/ safed \/ sirenTest \/ actuationTest

\* A test that sounds the siren always has a timer or a callback that will end
\* it, however tests are renewed, raced by stale callbacks or reset.
TestHasAnEnd ==
  wired => /\ sirenTest => armed["siren"] \/ late["siren"] > 0
           /\ actuationTest =>
                armed["actuation"] \/ late["actuation"] > 0

\* SPOF-02: once the process is up, a contact that is closed has been latched,
\* whenever it closed (before the boot, between two boot steps, after), unless
\* the operator reset since or the press handler is about to run.
HeldContactIsLatched ==
  phase = "up" /\ contact /\ ~answered /\ ~pressed => latched

=============================================================================
