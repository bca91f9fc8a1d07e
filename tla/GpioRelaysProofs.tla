--------------------------- MODULE GpioRelaysProofs ---------------------------
(***************************************************************************)
(* What TLAPS proves about the pin owner: of its relays, for every set of  *)
(* channels, every fail-safe profile, any number of self-test threads and  *)
(* every family of orders; and of which process it is, for every set of    *)
(* processes and lines.  The two specifications share no variable.         *)
(***************************************************************************)
EXTENDS GpioRelays, PinOwnership, TLAPS

(***************************************************************************)
(* Typing, one group of variables at a time.                               *)
(***************************************************************************)

\* Recomputing channels keeps the electrical layer typed.
LEMMA ApplyTypes ==
  ASSUME ElectricOK, NEW cs \in SUBSET Channel, Apply(cs)
  PROVE  ElectricOK'
<1>1. \A c \in Channel : DesiredEnergized(c)' \in BOOLEAN
  BY DEF DesiredEnergized
<1> QED BY <1>1 DEF Apply, ElectricOK

\* No step takes a demand out of its type.
LEMMA DemandsStep == ASSUME DemandsOK, [Next]_vars PROVE DemandsOK'
<1> USE DEF DemandsOK
<1>1. CASE UNCHANGED demands
  BY <1>1 DEF demands
<1>2. CASE Lifecycle
  BY <1>1, <1>2 DEF Lifecycle, BuildRelays, ArmButtons, SeedFromHeldContact,
     LatchAndSound, RescueFailedStart, OnStop, PowerDown, ProcessEnds, demands
<1>3. CASE Inputs
  BY <1>1, <1>3 DEF Inputs, ContactCloses, ContactOpens, DispatchSasmex,
     LatchAndSound, SilenceButton, SilenceButtonApplies, SetSilence, SilenceAudibles
<1>4. CASE Timers
  BY <1>1, <1>4 DEF Timers, RunSirenTest, TimerFires, EndSirenTest, EndActuationTest
<1>5. CASE Orders
  <2>1. ASSUME NEW on, NEW off, ApplyDemands(on, off) PROVE DemandsOK'
    BY <2>1 DEF ApplyDemands
  <2>2. CASE DriveAllSafe \/ Reset
    BY <2>2 DEF DriveAllSafe, Reset
  <2> QED BY <1>5, <2>1, <2>2 DEF Orders
<1>6. ASSUME NEW t \in Testers, Tester(t) PROVE DemandsOK'
  BY <1>1, <1>6 DEF Tester, StartSelfTest, StartActuationTest, PulseRefused,
     PulseStarts, PulseEnds, TestReturns
<1> QED BY <1>1, <1>2, <1>3, <1>4, <1>5, <1>6 DEF Next, vars, demands

\* No step takes a relay or the bookkeeping out of its type.
LEMMA ElectricStep ==
  ASSUME ElectricOK, WorkersOK, [Next]_vars PROVE ElectricOK'
<1>1. CASE UNCHANGED electric
  BY <1>1 DEF electric, ElectricOK
<1>2. ASSUME NEW cs \in SUBSET Channel, Apply(cs) PROVE ElectricOK'
  BY <1>2, ApplyTypes, ElectricOK
<1>3. Reflex \in SUBSET Channel /\ Audible \in SUBSET Channel
      /\ {Siren} \in SUBSET Channel
  BY DEF Reflex, Audible, Channel
<1>4. CASE Lifecycle
  <2>1. CASE BuildRelays
    BY <2>1 DEF BuildRelays, ElectricOK, Normal, NormalEnergized
  <2>2. CASE SeedFromHeldContact
    BY <2>2, <1>1, <1>2, <1>3 DEF SeedFromHeldContact, LatchAndSound, electric
  <2>3. ASSUME PinsReleased PROVE ElectricOK'
    BY <2>3 DEF PinsReleased, ElectricOK
  <2> QED BY <1>1, <1>4, <2>1, <2>2, <2>3 DEF Lifecycle, ArmButtons,
             RescueFailedStart, OnStop, PowerDown, ProcessEnds, electric
<1>5. CASE Inputs
  BY <1>1, <1>2, <1>3, <1>5 DEF Inputs, ContactCloses, ContactOpens,
     DispatchSasmex, LatchAndSound, SilenceButton, SilenceButtonApplies,
     SetSilence, SilenceAudibles
<1>6. CASE Timers
  BY <1>1, <1>2, <1>3, <1>6 DEF Timers, RunSirenTest, TimerFires, EndSirenTest,
     EndActuationTest
<1>7. CASE Orders
  <2>1. ASSUME NEW on \in SUBSET Channel, NEW off \in SUBSET Channel,
               ApplyDemands(on, off)
        PROVE ElectricOK'
    <3>1. on \cup off \in SUBSET Channel
      OBVIOUS
    <3> QED BY <3>1, <2>1, <1>2 DEF ApplyDemands
  <2>2. \A b \in Batches \cup {{}} : b \cap known \in SUBSET Channel
    BY BatchesAssumption
  <2> QED BY <1>2, <1>7, <2>1, <2>2 DEF Orders, DriveAllSafe, Reset
<1>8. ASSUME NEW t \in Testers, Tester(t) PROVE ElectricOK'
  <2>1. CASE PulseEnds(t)
    <3>1. {pulsing[t]} \in SUBSET Channel
      BY <2>1 DEF PulseEnds, WorkersOK
    <3> QED BY <3>1, <2>1, <1>2 DEF PulseEnds
  <2>2. ASSUME NEW c \in Channel, PulseStarts(t, c) PROVE ElectricOK'
    BY <2>2 DEF PulseStarts, ElectricOK, Active, ActiveEnergized
  <2> QED BY <1>1, <1>2, <1>3, <1>8, <2>1, <2>2 DEF Tester, StartSelfTest,
             StartActuationTest, PulseRefused, TestReturns
<1> QED BY <1>1, <1>4, <1>5, <1>6, <1>7, <1>8 DEF Next, vars, electric

\* No step takes a self-test thread out of its type.
LEMMA WorkersStep == ASSUME WorkersOK, [Next]_vars PROVE WorkersOK'
<1>1. CASE UNCHANGED workers
  BY <1>1 DEF workers, WorkersOK
<1>2. CASE Lifecycle
  <2>1. CASE ProcessEnds
    BY <2>1 DEF ProcessEnds, WorkersOK
  <2> QED BY <1>1, <1>2, <2>1 DEF Lifecycle, BuildRelays, ArmButtons,
             SeedFromHeldContact, RescueFailedStart, OnStop
<1>3. CASE Inputs
  BY <1>1, <1>3 DEF Inputs, ContactCloses, ContactOpens, DispatchSasmex,
     SilenceButton, SilenceButtonApplies, SilenceAudibles
<1>4. CASE Timers
  BY <1>1, <1>4 DEF Timers, RunSirenTest, TimerFires, EndSirenTest, EndActuationTest
<1>5. CASE Orders
  BY <1>1, <1>5 DEF Orders, ApplyDemands, DriveAllSafe, Reset
<1>6. ASSUME NEW t \in Testers, Tester(t) PROVE WorkersOK'
  <2>1. CASE StartSelfTest(t) \/ StartActuationTest(t)
    BY <2>1 DEF StartSelfTest, StartActuationTest, WorkersOK, Channel
  <2>2. CASE PulseRefused(t) \/ TestReturns(t)
    BY <2>2 DEF PulseRefused, TestReturns, WorkersOK
  <2>3. CASE PulseEnds(t)
    BY <2>3 DEF PulseEnds, WorkersOK
  <2>4. ASSUME NEW c \in Channel, PulseStarts(t, c) PROVE WorkersOK'
    BY <2>4 DEF PulseStarts, WorkersOK
  <2> QED BY <1>6, <2>1, <2>2, <2>3, <2>4 DEF Tester
<1> QED BY <1>1, <1>2, <1>3, <1>4, <1>5, <1>6 DEF Next, vars, workers

\* The two timers are accounted for separately, within the bound.
LEMMA TimingStep == ASSUME TimingOK, [Next]_vars PROVE TimingOK'
<1> USE MaxLateAssumption DEF TimerKind
<1>1. CASE UNCHANGED timing
  BY <1>1 DEF timing, TimingOK
<1>2. CASE Lifecycle
  <2>1. CASE ProcessEnds
    BY <2>1 DEF ProcessEnds, TimingOK
  <2>2. CASE OnStop
    BY <2>2 DEF OnStop, TimingOK
  <2> QED BY <1>1, <1>2, <2>1, <2>2 DEF Lifecycle, BuildRelays, ArmButtons,
             SeedFromHeldContact, RescueFailedStart
<1>3. CASE Inputs
  BY <1>1, <1>3 DEF Inputs, ContactCloses, ContactOpens, DispatchSasmex,
     SilenceButton, SilenceButtonApplies, SilenceAudibles
<1>4. CASE Timers
  <2>1. CASE RunSirenTest
    BY <2>1 DEF RunSirenTest, TimingOK
  <2>2. CASE EndSirenTest \/ EndActuationTest
    BY <2>2 DEF EndSirenTest, EndActuationTest, TimingOK
  <2>3. ASSUME NEW k \in TimerKind, TimerFires(k) PROVE TimingOK'
    BY <2>3 DEF TimerFires, TimingOK
  <2> QED BY <1>4, <2>1, <2>2, <2>3 DEF Timers
<1>5. CASE Orders
  <2>1. CASE Reset
    BY <2>1 DEF Reset, TimingOK
  <2> QED BY <1>1, <1>5, <2>1 DEF Orders, ApplyDemands, DriveAllSafe
<1>6. ASSUME NEW t \in Testers, Tester(t) PROVE TimingOK'
  <2>1. CASE StartActuationTest(t)
    BY <2>1 DEF StartActuationTest, TimingOK
  <2> QED BY <1>1, <1>6, <2>1 DEF Tester, StartSelfTest, PulseRefused,
             PulseStarts, PulseEnds, TestReturns
<1> QED BY <1>1, <1>2, <1>3, <1>4, <1>5, <1>6 DEF Next, vars, timing

\* The contact, the handlers and the phase of the process stay typed.
LEMMA InputsStep == ASSUME InputsOK, [Next]_vars PROVE InputsOK'
<1> USE DEF InputsOK
<1>1. CASE UNCHANGED <<inputs, phase>>
  BY <1>1 DEF inputs
<1>2. CASE Lifecycle
  BY <1>2 DEF Lifecycle, BuildRelays, ArmButtons, SeedFromHeldContact,
     RescueFailedStart, OnStop, ProcessEnds, inputs
<1>3. CASE Inputs
  BY <1>1, <1>3 DEF Inputs, ContactCloses, ContactOpens, DispatchSasmex,
     SilenceButton, SilenceButtonApplies, SilenceAudibles, HandlersArmed
<1>4. CASE Timers
  BY <1>1, <1>4 DEF Timers, RunSirenTest, TimerFires, EndSirenTest, EndActuationTest
<1>5. CASE Orders
  BY <1>1, <1>5 DEF Orders, ApplyDemands, DriveAllSafe, Reset
<1>6. ASSUME NEW t \in Testers, Tester(t) PROVE InputsOK'
  BY <1>1, <1>6 DEF Tester, StartSelfTest, StartActuationTest, PulseRefused,
     PulseStarts, PulseEnds, TestReturns
<1> QED BY <1>1, <1>2, <1>3, <1>4, <1>5, <1>6 DEF Next, vars

\* Every variable of the pin owner keeps its type in every reachable state.
THEOREM Typing == Spec => []TypeOK
<1>1. Init => TypeOK
  <2> SUFFICES ASSUME Init PROVE TypeOK
    OBVIOUS
  <2>1. DemandsOK /\ ElectricOK
    BY DEF Init, DemandsOK, ElectricOK
  <2>2. WorkersOK /\ InputsOK
    BY DEF Init, WorkersOK, InputsOK
  <2>3. TimingOK
    <3>1. 0 \in 0..MaxLate
      BY MaxLateAssumption
    <3> QED BY <3>1 DEF Init, TimingOK
  <2> QED BY <2>1, <2>2, <2>3 DEF TypeOK
<1>2. TypeOK /\ [Next]_vars => TypeOK'
  BY DemandsStep, ElectricStep, WorkersStep, TimingStep, InputsStep DEF TypeOK
<1> QED BY <1>1, <1>2, PTL DEF Spec

-----------------------------------------------------------------------------
(***************************************************************************)
(* The relays: the bookkeeping is what the demands call for, and a pin     *)
(* leaves it only towards protection.                                      *)
(***************************************************************************)

\* A process that is not running left no demand, timer or thread behind: the
\* controller is built anew by every process (part of the inductive invariant).
OffIsFresh ==
  phase = "off" =>
    /\ ~latched /\ ~silenced /\ ~safed /\ ~sirenTest /\ ~actuationTest
    /\ \A c \in Channel : ~demand[c]
    /\ \A k \in TimerKind : ~armed[k] /\ late[k] = 0
    /\ \A t \in Testers :
         job[t] = "idle" /\ todo[t] = {} /\ pulsing[t] = NoChannel
    /\ ~pressed /\ ~answered /\ intent = "none"

\* Only ProcessEnds reaches a process that is off, and it leaves nothing behind.
LEMMA FreshStep == ASSUME OffIsFresh, TypeOK, [Next]_vars PROVE OffIsFresh'
<1> SUFFICES ASSUME phase' = "off" PROVE OffIsFresh'
  BY DEF OffIsFresh
<1>1. CASE ProcessEnds
  BY <1>1 DEF ProcessEnds, OffIsFresh
<1>2. CASE phase = "off" /\ UNCHANGED <<demands, workers, timing, pressed, intent, answered>>
  BY <1>2 DEF OffIsFresh, demands, workers, timing
<1>3. CASE Lifecycle
  BY <1>1, <1>3 DEF Lifecycle, BuildRelays, ArmButtons, SeedFromHeldContact,
     RescueFailedStart, OnStop
<1>4. CASE Inputs
  <2>1. CASE ContactCloses
    BY <2>1 DEF ContactCloses, HandlersArmed, OffIsFresh, demands, workers, timing
  <2>2. CASE ContactOpens
    BY <2>2, <1>2 DEF ContactOpens
  <2> QED BY <1>4, <2>1, <2>2 DEF Inputs, DispatchSasmex, SilenceButton,
             SilenceButtonApplies, SilenceAudibles, HandlersArmed, Served, OffIsFresh
<1>5. CASE Timers
  <2>1. phase = "off"
    BY <1>5 DEF Timers, RunSirenTest, TimerFires, EndSirenTest, EndActuationTest
  <2>2. \A k \in TimerKind : ~armed[k] /\ late[k] = 0
    BY <2>1 DEF OffIsFresh
  <2>3. ~(late["siren"] > 0) /\ ~(late["actuation"] > 0)
    BY <2>2 DEF TimerKind
  <2> QED BY <1>5, <2>1, <2>2, <2>3 DEF Timers, RunSirenTest, TimerFires,
             EndSirenTest, EndActuationTest, Served, HandlersArmed
<1>6. CASE Orders
  BY <1>6 DEF Orders, ApplyDemands, DriveAllSafe, Reset, Served
<1>7. ASSUME NEW t \in Testers, Tester(t) PROVE OffIsFresh'
  BY <1>7 DEF Tester, StartSelfTest, StartActuationTest, PulseRefused,
     PulseStarts, PulseEnds, TestReturns, Served, OffIsFresh
<1>8. CASE UNCHANGED vars
  BY <1>2, <1>8 DEF vars, inputs
<1> QED BY <1>3, <1>4, <1>5, <1>6, <1>7, <1>8 DEF Next

Coherent == BookkeepingIsCurrent /\ PinsFollowBookkeeping

\* A step that recomputes the channels whose demands it moves keeps the
\* cabinet coherent, if no pulse ends elsewhere.
LEMMA ApplyKeepsCoherence ==
  ASSUME Coherent, ElectricOK, NEW cs \in SUBSET Channel, Apply(cs),
         \A c \in Channel \ cs : DesiredEnergized(c)' = DesiredEnergized(c),
         safed' => safed \/ cs = Channel,
         \A t \in Testers : pulsing'[t] = pulsing[t] \/ pulsing[t] \in cs
  PROVE  Coherent'
<1> SUFFICES ASSUME wired' PROVE Coherent'
  BY DEF Coherent, BookkeepingIsCurrent, PinsFollowBookkeeping
<1>1. wired /\ known' = Channel
  BY DEF Apply, Coherent, BookkeepingIsCurrent
<1>2. ASSUME NEW c \in Channel PROVE energized'[c] = DesiredEnergized(c)'
  BY <1>1 DEF Apply, Coherent, BookkeepingIsCurrent
<1>3. ASSUME NEW c \in cs PROVE relay'[c] = energized'[c]
  BY <1>1 DEF Apply
<1>4. ASSUME NEW c \in Channel \ cs
      PROVE  relay'[c] = energized'[c] \/ PulseExplains(c)'
  <2>1. relay'[c] = relay[c] /\ energized'[c] = energized[c]
    BY DEF Apply
  <2>2. \A t \in Testers : pulsing[t] = c => pulsing'[t] = c
    OBVIOUS
  <2> QED BY <1>1, <2>1, <2>2 DEF Coherent, PinsFollowBookkeeping, PulseExplains, Active
<1> QED BY <1>1, <1>2, <1>3, <1>4
        DEF Coherent, BookkeepingIsCurrent, PinsFollowBookkeeping, Active

\* A step that moves neither the demands nor the electrical layer keeps it too.
LEMMA IdleKeepsCoherence ==
  ASSUME Coherent, UNCHANGED <<demands, electric>>,
         \A t \in Testers : pulsing'[t] = pulsing[t] \/ pulsing[t] = NoChannel
  PROVE  Coherent'
<1>1. \A c \in Channel : DesiredEnergized(c)' = DesiredEnergized(c)
  BY DEF demands, DesiredEnergized, Protective, AlertDemand, TestHold
<1>2. \A c \in Channel : (\E t \in Testers : pulsing[t] = c)
                           => \E t \in Testers : pulsing'[t] = c
  BY ChannelAssumption
<1> QED BY <1>1, <1>2
        DEF Coherent, BookkeepingIsCurrent, PinsFollowBookkeeping,
            PulseExplains, Active, electric, demands

\* Every action keeps the cabinet coherent.
LEMMA CoherenceStep ==
  ASSUME Coherent, TypeOK, OffIsFresh, [Next]_vars
  PROVE  Coherent'
<1> USE DEF TypeOK
<1> DEFINE Quiet == \A t \in Testers : pulsing'[t] = pulsing[t]
<1>1. ASSUME UNCHANGED <<demands, electric>>, Quiet PROVE Coherent'
  BY <1>1, IdleKeepsCoherence
<1>2. ASSUME NEW cs \in SUBSET Channel, Apply(cs), Quiet,
             \A c \in Channel \ cs : DesiredEnergized(c)' = DesiredEnergized(c),
             safed' => safed \/ cs = Channel
      PROVE  Coherent'
  BY <1>2, ApplyKeepsCoherence
<1>3. ASSUME PinsReleased PROVE Coherent'
  BY <1>3 DEF PinsReleased, Coherent, BookkeepingIsCurrent, PinsFollowBookkeeping
<1>4. Reflex \in SUBSET Channel /\ Audible \in SUBSET Channel
      /\ {Siren} \in SUBSET Channel /\ Audible = {Siren} /\ Siren \in Reflex
  BY DEF Reflex, Audible, Channel
<1>5. ASSUME UNCHANGED <<demands, electric, workers>> PROVE Coherent'
  BY <1>1, <1>5 DEF workers
<1>6. ASSUME LatchAndSound, Quiet PROVE Coherent'
  <2>1. \A c \in Channel \ Reflex : DesiredEnergized(c)' = DesiredEnergized(c)
    BY <1>4, <1>6 DEF LatchAndSound, DesiredEnergized, Protective, AlertDemand, TestHold
  <2> QED BY <1>2, <1>4, <1>6, <2>1 DEF LatchAndSound
<1>7. ASSUME NEW b, SetSilence(b), Quiet PROVE Coherent'
  <2>1. \A c \in Channel \ Audible : DesiredEnergized(c)' = DesiredEnergized(c)
    BY <1>7 DEF SetSilence, DesiredEnergized, Protective, AlertDemand, TestHold
  <2> QED BY <1>2, <1>4, <1>7, <2>1 DEF SetSilence
<1>8. CASE Lifecycle
  <2>1. CASE BuildRelays
    <3>1. \A c \in Channel : ~Protective(c)' /\ ~safed'
      BY <2>1 DEF BuildRelays, OffIsFresh, demands, Protective, AlertDemand,
         TestHold
    <3>2. \A c \in Channel : energized'[c] = Normal(c) /\ relay'[c] = Normal(c)
      BY <2>1 DEF BuildRelays
    <3>3. ASSUME NEW c \in Channel PROVE DesiredEnergized(c)' = Normal(c)
      <4>1. Normal(c) \in BOOLEAN
        BY DEF Normal, NormalEnergized
      <4>2. DesiredEnergized(c)' <=> Normal(c)
        BY <3>1 DEF DesiredEnergized
      <4>3. DesiredEnergized(c)' \in BOOLEAN
        BY DEF DesiredEnergized
      <4> QED BY <4>1, <4>2, <4>3
    <3> QED BY <2>1, <3>2, <3>3 DEF BuildRelays, Coherent, BookkeepingIsCurrent,
               PinsFollowBookkeeping
  <2>2. CASE ArmButtons
    BY <2>2, <1>5 DEF ArmButtons
  <2>3. CASE SeedFromHeldContact
    BY <2>3, <1>5, <1>6 DEF SeedFromHeldContact, workers
  <2>4. CASE RescueFailedStart \/ OnStop \/ ProcessEnds
    BY <2>4, <1>3 DEF RescueFailedStart, OnStop, PowerDown, ProcessEnds
  <2> QED BY <1>8, <2>1, <2>2, <2>3, <2>4 DEF Lifecycle
<1>9. CASE Inputs
  <2>1. CASE ContactCloses \/ ContactOpens \/ SilenceButton
    BY <2>1, <1>5 DEF ContactCloses, ContactOpens, SilenceButton
  <2>2. CASE DispatchSasmex
    BY <2>2, <1>6 DEF DispatchSasmex, workers
  <2>3. CASE SilenceButtonApplies
    BY <2>3, <1>7 DEF SilenceButtonApplies, workers
  <2>4. ASSUME NEW b \in BOOLEAN, SilenceAudibles(b) PROVE Coherent'
    BY <2>4, <1>7 DEF SilenceAudibles, workers
  <2> QED BY <1>9, <2>1, <2>2, <2>3, <2>4 DEF Inputs
<1>10. CASE Timers
  <2>1. CASE RunSirenTest \/ EndSirenTest
    <3>1. \A c \in Channel \ {Siren} : DesiredEnergized(c)' = DesiredEnergized(c)
      BY <2>1, <1>4 DEF RunSirenTest, EndSirenTest, DesiredEnergized,
         Protective, AlertDemand, TestHold
    <3> QED BY <2>1, <3>1, <1>2, <1>4 DEF RunSirenTest, EndSirenTest, workers
  <2>2. CASE EndActuationTest
    <3>1. \A c \in Channel \ Reflex : DesiredEnergized(c)' = DesiredEnergized(c)
      BY <2>2, <1>4 DEF EndActuationTest, DesiredEnergized, Protective,
         AlertDemand, TestHold
    <3> QED BY <2>2, <3>1, <1>2, <1>4 DEF EndActuationTest, workers
  <2>3. ASSUME NEW k \in TimerKind, TimerFires(k) PROVE Coherent'
    BY <2>3, <1>5 DEF TimerFires
  <2> QED BY <1>10, <2>1, <2>2, <2>3 DEF Timers
<1>11. CASE Orders
  <2>1. CASE DriveAllSafe \/ Reset
    BY <2>1, <1>2 DEF DriveAllSafe, Reset, workers
  <2>2. ASSUME NEW on \in SUBSET Channel, NEW off \in SUBSET Channel,
               ApplyDemands(on, off)
        PROVE  Coherent'
    <3>1. on \cup off \in SUBSET Channel
      OBVIOUS
    <3>2. ASSUME NEW c \in Channel \ (on \cup off)
          PROVE  DesiredEnergized(c)' = DesiredEnergized(c)
      <4>1. demand'[c] = demand[c]
        BY <2>2 DEF ApplyDemands, DemandsOK
      <4>2. c \in Audible => silenced' = silenced
        BY <2>2, <3>2, <1>4 DEF ApplyDemands, DemandsOK
      <4> QED BY <2>2, <4>1, <4>2 DEF ApplyDemands, DesiredEnergized,
                 Protective, AlertDemand, TestHold
    <3> QED BY <2>2, <3>1, <3>2, <1>2 DEF ApplyDemands, workers
  <2>3. \A b \in Batches \cup {{}} : b \cap known \in SUBSET Channel
    BY BatchesAssumption
  <2> QED BY <1>11, <2>1, <2>2, <2>3 DEF Orders
<1>12. ASSUME NEW t \in Testers, Tester(t) PROVE Coherent'
  <2>1. CASE StartSelfTest(t) \/ PulseRefused(t) \/ TestReturns(t)
    BY <2>1, <1>1 DEF StartSelfTest, PulseRefused, TestReturns
  <2>2. CASE StartActuationTest(t)
    <3>1. \A c \in Channel \ Reflex : DesiredEnergized(c)' = DesiredEnergized(c)
      BY <2>2, <1>4 DEF StartActuationTest, DesiredEnergized, Protective,
         AlertDemand, TestHold
    <3> QED BY <2>2, <3>1, <1>2, <1>4 DEF StartActuationTest
  <2>3. CASE PulseEnds(t)
    <3>1. {pulsing[t]} \in SUBSET Channel
      BY <2>3 DEF PulseEnds, WorkersOK
    <3>2. \A c \in Channel : DesiredEnergized(c)' = DesiredEnergized(c)
      BY <2>3 DEF PulseEnds, demands, DesiredEnergized, Protective,
         AlertDemand, TestHold
    <3>3. \A u \in Testers : pulsing'[u] = pulsing[u] \/ pulsing[u] \in {pulsing[t]}
      BY <2>3 DEF PulseEnds, WorkersOK
    <3> QED BY <2>3, <3>1, <3>2, <3>3, ApplyKeepsCoherence DEF PulseEnds, demands
  <2>4. ASSUME NEW d \in Channel, PulseStarts(t, d) PROVE Coherent'
    <3>1. CASE ~wired
      BY <2>4, <3>1, <1>1 DEF PulseStarts, electric
    <3>2. CASE wired
      <4>1. \A c \in Channel : DesiredEnergized(c)' = DesiredEnergized(c)
        BY <2>4 DEF PulseStarts, demands, DesiredEnergized, Protective,
           AlertDemand, TestHold
      <4>2. relay'[d] = Active(d) /\ pulsing'[t] = d
        BY <2>4, <3>2 DEF PulseStarts, ElectricOK, WorkersOK
      <4>3. \A c \in Channel \ {d} : relay'[c] = relay[c]
        BY <2>4, <3>2 DEF PulseStarts, ElectricOK
      <4>4. \A u \in Testers \ {t} : pulsing'[u] = pulsing[u]
        BY <2>4, <3>2 DEF PulseStarts, WorkersOK
      <4>5. pulsing[t] = NoChannel /\ ~safed /\ ~safed'
        BY <2>4 DEF PulseStarts, Refused, ProtectionAlive, demands
      <4>6. \A c \in Channel : (\E u \in Testers : pulsing[u] = c)
                                 => \E u \in Testers : pulsing'[u] = c
        BY <4>4, <4>5, ChannelAssumption
      <4>7. wired' = wired /\ known' = known /\ energized' = energized
        BY <2>4 DEF PulseStarts
      <4> QED BY <4>1, <4>2, <4>3, <4>5, <4>6, <4>7
              DEF Coherent, BookkeepingIsCurrent, PinsFollowBookkeeping,
                  PulseExplains, Active
    <3> QED BY <3>1, <3>2
  <2> QED BY <1>12, <2>1, <2>2, <2>3, <2>4 DEF Tester
<1>13. CASE UNCHANGED vars
  BY <1>5, <1>13 DEF vars
<1> QED BY <1>8, <1>9, <1>10, <1>11, <1>12, <1>13 DEF Next

\* In every reachable state the bookkeeping of a wired cabinet is exactly what
\* its demands call for, and a pin departs from it only inside a self-test pulse
\* and only towards protection.
THEOREM Coherence == Spec => []CabinetIsCoherent
<1>1. Init => OffIsFresh /\ Coherent
  BY DEF Init, OffIsFresh, Coherent, BookkeepingIsCurrent, PinsFollowBookkeeping,
     TimerKind
<1>2. TypeOK /\ OffIsFresh /\ Coherent /\ [Next]_vars => OffIsFresh' /\ Coherent'
  BY FreshStep, CoherenceStep
<1>3. TypeOK /\ Coherent => CabinetIsCoherent
  BY DEF Coherent, CabinetIsCoherent
<1> QED BY <1>1, <1>2, <1>3, Typing, PTL DEF Spec

\* A relay that a live alert needs is in its protective state: nothing but the
\* operator's silence (siren alone) or the safe state can lower it.
THEOREM AlertKeepsProtection == Spec => []LiveAlertIsProtected
<1>1. CabinetIsCoherent => LiveAlertIsProtected
  BY DEF CabinetIsCoherent, BookkeepingIsCurrent, PinsFollowBookkeeping, LiveAlertIsProtected,
     PulseExplains, DesiredEnergized, Protective, Active, ActiveEnergized, Normal
<1> QED BY <1>1, Coherence, PTL

\* The siren never sounds without one of the reasons siren_reason knows.
THEOREM SirenIsExplained == Spec => []SirenHasReason
<1>1. CabinetIsCoherent => SirenHasReason
  BY DEF CabinetIsCoherent, BookkeepingIsCurrent, SirenHasReason, SirenSounding, DesiredEnergized,
     Protective, AlertDemand, TestHold, Active, ActiveEnergized, Normal,
     Channel, Reflex, Audible
<1> QED BY <1>1, Coherence, PTL

\* The safe state is durable: no pulse, timer, alert or order energises a relay
\* before reset().
THEOREM SafeStateHolds == Spec => []SafeStateIsDark
<1>1. CabinetIsCoherent => SafeStateIsDark
  BY DEF CabinetIsCoherent, BookkeepingIsCurrent, PinsFollowBookkeeping, SafeStateIsDark,
     PulseExplains, DesiredEnergized
<1> QED BY <1>1, Coherence, PTL

-----------------------------------------------------------------------------
(***************************************************************************)
(* Tests end, and a held contact is never missed.                          *)
(***************************************************************************)

\* Whatever sounds the siren for a test has a timer or a late callback that
\* will end it, in every order of renewals, cancellations and resets.
THEOREM TestsAlwaysEnd == Spec => []TestHasAnEnd
<1>1. Init => TestHasAnEnd
  BY DEF Init, TestHasAnEnd
<1>2. TypeOK /\ OffIsFresh /\ TestHasAnEnd /\ [Next]_vars => TestHasAnEnd'
  <2> SUFFICES ASSUME TypeOK, OffIsFresh, TestHasAnEnd, [Next]_vars
               PROVE  TestHasAnEnd'
    OBVIOUS
  <2> USE DEF TypeOK, TimingOK, TimerKind
  <2>1. ASSUME UNCHANGED <<wired, sirenTest, actuationTest, timing>>
        PROVE  TestHasAnEnd'
    BY <2>1 DEF TestHasAnEnd, timing
  <2>2. CASE Lifecycle
    <3>1. CASE BuildRelays
      BY <3>1 DEF BuildRelays, OffIsFresh, TestHasAnEnd, demands
    <3>2. CASE ArmButtons \/ SeedFromHeldContact
      BY <3>2, <2>1 DEF ArmButtons, SeedFromHeldContact, LatchAndSound, Apply,
         demands, electric
    <3>3. CASE RescueFailedStart \/ OnStop \/ ProcessEnds
      BY <3>3 DEF RescueFailedStart, OnStop, ProcessEnds, PowerDown,
         PinsReleased, TestHasAnEnd
    <3> QED BY <2>2, <3>1, <3>2, <3>3 DEF Lifecycle
  <2>3. CASE Inputs
    BY <2>3, <2>1 DEF Inputs, ContactCloses, ContactOpens, DispatchSasmex,
       LatchAndSound, SilenceButton, SilenceButtonApplies, SetSilence,
       SilenceAudibles, Apply, demands, electric
  <2>4. CASE Timers
    <3>1. CASE RunSirenTest
      BY <3>1 DEF RunSirenTest, Apply, TestHasAnEnd
    <3>2. CASE EndSirenTest
      BY <3>2 DEF EndSirenTest, Apply, TestHasAnEnd
    <3>3. CASE EndActuationTest
      BY <3>3 DEF EndActuationTest, Apply, TestHasAnEnd
    <3>4. ASSUME NEW k \in TimerKind, TimerFires(k) PROVE TestHasAnEnd'
      BY <3>4, MaxLateAssumption DEF TimerFires, TestHasAnEnd, demands, electric
    <3> QED BY <2>4, <3>1, <3>2, <3>3, <3>4 DEF Timers
  <2>5. CASE Orders
    BY <2>5, <2>1 DEF Orders, DriveAllSafe, Reset, ApplyDemands, Apply, TestHasAnEnd
  <2>6. ASSUME NEW t \in Testers, Tester(t) PROVE TestHasAnEnd'
    <3>1. CASE StartActuationTest(t)
      BY <3>1 DEF StartActuationTest, Apply, TestHasAnEnd
    <3> QED BY <2>6, <2>1, <3>1 DEF Tester, StartSelfTest, PulseRefused,
               PulseStarts, PulseEnds, TestReturns, Apply, demands, electric
  <2>7. CASE UNCHANGED vars
    BY <2>7, <2>1 DEF vars, demands, electric
  <2> QED BY <2>2, <2>3, <2>4, <2>5, <2>6, <2>7 DEF Next
<1>3. Init => OffIsFresh
  BY DEF Init, OffIsFresh, TimerKind
<1>4. TypeOK /\ OffIsFresh /\ [Next]_vars => OffIsFresh'
  BY FreshStep
<1> QED BY <1>1, <1>2, <1>3, <1>4, Typing, PTL DEF Spec

\* SPOF-02: no closure of the contact falls between the steps of a boot.
THEOREM NoClosureIsMissed == Spec => []HeldContactIsLatched
<1>1. Init => HeldContactIsLatched
  BY DEF Init, HeldContactIsLatched
<1>2. TypeOK /\ HeldContactIsLatched /\ [Next]_vars => HeldContactIsLatched'
  <2> SUFFICES ASSUME TypeOK, HeldContactIsLatched, [Next]_vars
               PROVE  HeldContactIsLatched'
    OBVIOUS
  <2> USE DEF HeldContactIsLatched
  <2>1. ASSUME phase' = phase, UNCHANGED <<contact, answered, pressed, latched>>
        PROVE  HeldContactIsLatched'
    BY <2>1
  <2>2. CASE Lifecycle
    BY <2>2 DEF Lifecycle, BuildRelays, ArmButtons, SeedFromHeldContact,
       LatchAndSound, RescueFailedStart, OnStop, ProcessEnds, inputs
  <2>3. CASE Inputs
    BY <2>1, <2>3 DEF Inputs, ContactCloses, ContactOpens, DispatchSasmex,
       LatchAndSound, SilenceButton, SilenceButtonApplies, SetSilence,
       SilenceAudibles, HandlersArmed, demands, inputs
  <2>4. CASE Timers
    BY <2>1, <2>4 DEF Timers, RunSirenTest, TimerFires, EndSirenTest,
       EndActuationTest, demands, inputs
  <2>5. CASE Orders
    BY <2>1, <2>5 DEF Orders, ApplyDemands, DriveAllSafe, Reset, inputs
  <2>6. ASSUME NEW t \in Testers, Tester(t) PROVE HeldContactIsLatched'
    BY <2>1, <2>6 DEF Tester, StartSelfTest, StartActuationTest, PulseRefused,
       PulseStarts, PulseEnds, TestReturns, demands, inputs
  <2>7. CASE UNCHANGED vars
    BY <2>1, <2>7 DEF vars, demands, inputs
  <2> QED BY <2>2, <2>3, <2>4, <2>5, <2>6, <2>7 DEF Next
<1> QED BY <1>1, <1>2, Typing, PTL DEF Spec

-----------------------------------------------------------------------------
(***************************************************************************)
(* Which process the pin owner is (PinOwnership), for every set of         *)
(* processes and every set of pins: never two governors, and the service   *)
(* socket is always the owner's.                                           *)
(*                                                                         *)
(* The properties speak of lines and of the socket; what carries them is   *)
(* the flock.  The strengthening says where in its life a process holds it *)
(* and where it can be bound to the socket.                                *)
(***************************************************************************)
Owning == {"claimed", "built", "serving", "up", "closing", "safe", "broken"}

OwnersHoldTheLock == \A p \in Process : pc[p] \in Owning => lock = p

ServersAreReady == \A p \in Process : door = p => pc[p] \in {"serving", "up"}

OwnInv == OwnerTypeOK /\ OwnersHoldTheLock /\ ServersAreReady

\* At power-up nothing is open and nobody holds anything.
LEMMA OwnStart ==
  OwnerInit => OwnInv
  BY NobodyAssumption DEF OwnerInit, OwnInv, OwnerTypeOK, Steps, OwnersHoldTheLock, Owning,
     ServersAreReady

\* One step of one process, on the types and on how far each process has got.
LEMMA OwnStepTypes ==
  ASSUME OwnInv, [OwnerNext]_ownerVars
  PROVE  OwnerTypeOK'
  <1> SUFFICES ASSUME OwnerNext PROVE OwnerTypeOK'
    BY DEF OwnInv, OwnerTypeOK, ownerVars
  <1> USE NobodyAssumption DEF OwnInv, OwnerTypeOK, Steps, Goes
  <1> PICK p \in Process :
        \/ Launch(p) \/ Claim(p) \/ ClaimRefused(p)
        \/ \E l \in Pin : OpenLine(p, l)
        \/ HardwareReady(p)
        \/ \E b \in BOOLEAN : OpenDoor(p, b)
        \/ Seeded(p)
        \/ CloseDoor(p) \/ CloseLines(p) \/ CloseLinesFails(p) \/ Release(p) \/ Dies(p)
    BY DEF OwnerNext
  <1>1. CASE Launch(p) BY <1>1 DEF Launch
  <1>2. CASE Claim(p) BY <1>2 DEF Claim
  <1>3. CASE ClaimRefused(p) BY <1>3 DEF ClaimRefused
  <1>4. CASE \E l \in Pin : OpenLine(p, l) BY <1>4 DEF OpenLine
  <1>5. CASE HardwareReady(p) BY <1>5 DEF HardwareReady
  <1>6. CASE \E b \in BOOLEAN : OpenDoor(p, b) BY <1>6 DEF OpenDoor
  <1>7. CASE Seeded(p) BY <1>7 DEF Seeded
  <1>8. CASE CloseDoor(p) BY <1>8 DEF CloseDoor
  <1>9. CASE CloseLines(p) BY <1>9 DEF CloseLines
  <1>10. CASE CloseLinesFails(p) BY <1>10 DEF CloseLinesFails
  <1>11. CASE Release(p) BY <1>11 DEF Release
  <1>12. CASE Dies(p) BY <1>12 DEF Dies
  <1> QED BY <1>1, <1>2, <1>3, <1>4, <1>5, <1>6, <1>7, <1>8, <1>9, <1>10, <1>11, <1>12

\* The same step, on who holds the lock and who can be at the socket.
LEMMA OwnStep ==
  ASSUME OwnInv, [OwnerNext]_ownerVars
  PROVE  OwnersHoldTheLock' /\ ServersAreReady'
  <1> SUFFICES ASSUME OwnerNext PROVE OwnersHoldTheLock' /\ ServersAreReady'
    BY DEF OwnInv, OwnersHoldTheLock, ServersAreReady, ownerVars
  <1> USE NobodyAssumption DEF OwnInv, OwnerTypeOK, Steps, Goes, OwnersHoldTheLock, Owning, ServersAreReady
  <1> PICK p \in Process :
        \/ Launch(p) \/ Claim(p) \/ ClaimRefused(p)
        \/ \E l \in Pin : OpenLine(p, l)
        \/ HardwareReady(p)
        \/ \E b \in BOOLEAN : OpenDoor(p, b)
        \/ Seeded(p)
        \/ CloseDoor(p) \/ CloseLines(p) \/ CloseLinesFails(p) \/ Release(p) \/ Dies(p)
    BY DEF OwnerNext
  <1>1. CASE Launch(p) BY <1>1 DEF Launch
  <1>2. CASE Claim(p) BY <1>2 DEF Claim
  <1>3. CASE ClaimRefused(p) BY <1>3 DEF ClaimRefused
  <1>4. CASE \E l \in Pin : OpenLine(p, l) BY <1>4 DEF OpenLine
  <1>5. CASE HardwareReady(p) BY <1>5 DEF HardwareReady
  <1>6. CASE \E b \in BOOLEAN : OpenDoor(p, b) BY <1>6 DEF OpenDoor
  <1>7. CASE Seeded(p) BY <1>7 DEF Seeded
  <1>8. CASE CloseDoor(p) BY <1>8 DEF CloseDoor
  <1>9. CASE CloseLines(p) BY <1>9 DEF CloseLines
  <1>10. CASE CloseLinesFails(p) BY <1>10 DEF CloseLinesFails
  <1>11. CASE Release(p) BY <1>11 DEF Release
  <1>12. CASE Dies(p) BY <1>12 DEF Dies
  <1> QED BY <1>1, <1>2, <1>3, <1>4, <1>5, <1>6, <1>7, <1>8, <1>9, <1>10, <1>11, <1>12

\* So the invariant holds at every point of every start, stop, rescue and kill.
LEMMA OwnInductive ==
  OwnerSpec => []OwnInv
  <1>1. OwnerInit => OwnInv
    BY OwnStart
  <1>2. OwnInv /\ [OwnerNext]_ownerVars => OwnInv'
    BY OwnStepTypes, OwnStep DEF OwnInv
  <1> QED BY <1>1, <1>2, PTL DEF OwnerSpec

\* How far each process has got is what it has built (_on_start, _on_stop).
THEOREM OwnTyping ==
  OwnerSpec => []OwnerTypeOK
  <1>1. OwnInv => OwnerTypeOK BY DEF OwnInv
  <1> QED BY OwnInductive, <1>1, PTL

\* Two processes never govern pins at once: an open line means the lock, or a
\* close that failed (_acquire_pin_ownership, _release_pin_ownership).
THEOREM NeverTwoGovernors ==
  OwnerSpec => []OneGovernor
  <1>1. OwnInv => OneGovernor
    <2> SUFFICES ASSUME OwnInv, NEW p \in Process, NEW q \in Process,
                        p # q, lines[p] # {}, lines[q] # {},
                        pc[p] # "crippled", pc[q] # "crippled"
                 PROVE FALSE
      BY DEF OneGovernor
    <2>1. pc[p] \in Owning /\ pc[q] \in Owning
      BY DEF OwnInv, OwnerTypeOK, Steps, Owning
    <2> QED BY <2>1 DEF OwnInv, OwnersHoldTheLock
  <1> QED BY OwnInductive, <1>1, PTL

\* Whoever answers at the socket owns the lock and every line (PinLinkServer,
\* arrancar_servidor_de_pines, detener_servidor_de_pines).
THEOREM TheDoorIsTheOwners ==
  OwnerSpec => []DoorIsTheOwners
  <1>1. OwnInv => DoorIsTheOwners
    BY DEF OwnInv, OwnerTypeOK, OwnersHoldTheLock, Owning, ServersAreReady, DoorIsTheOwners
  <1> QED BY OwnInductive, <1>1, PTL

\* And the process that has just built its lines finds the socket free.
THEOREM TheSuccessorCanServe ==
  OwnerSpec => []SuccessorFindsDoor
  <1>1. OwnInv => SuccessorFindsDoor
    BY DEF OwnInv, OwnerTypeOK, OwnersHoldTheLock, Owning, ServersAreReady, SuccessorFindsDoor
  <1> QED BY OwnInductive, <1>1, PTL

=============================================================================
