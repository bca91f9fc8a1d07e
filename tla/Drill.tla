-------------------------------- MODULE Drill --------------------------------
(***************************************************************************)
(* The drill of the cabinet (edge drill/__init__.py) and its voice on the  *)
(* jack (edge audio/__init__.py).  "LO REAL GANA": a drill is refused over *)
(* an alert, an alert aborts it, and the jack must not say "this is a      *)
(* drill" with an alert up.  The orders of the cloud, the panel, the       *)
(* threads that bring an alert, the silence button, the 20 Hz watcher and  *)
(* the timer of each drill all work on two small pieces of state under two *)
(* different locks, and on a player that has a third.                      *)
(*                                                                         *)
(* A thread is the agenda of the steps it has yet to take, each one atomic *)
(* in the code.  Left out: the siren and the music on the jack, a player   *)
(* that refuses to die, a siren test (it refuses and cuts as an alert      *)
(* does, and aborts nothing, like an order), and the stop of the module.   *)
(***************************************************************************)
EXTENDS Naturals, Sequences, FiniteSets

CONSTANTS
  Drills,  \* identities of drill orders
  Alarms,  \* what may bring an alert: "sasmex", "tier", "quorum", "order"
  Inputs   \* bound: the drills, alarms and buttons that one behaviour may have

None == "none"
Callers == {"command", "panel", "sasmex", "tier", "quorum", "silence", "watcher"}

ASSUME DrillsAssumption ==
  IsFiniteSet(Drills) /\ Drills \cap (Callers \cup {"order", None}) = {}
ASSUME AlarmsAssumption == Alarms \subseteq {"sasmex", "tier", "quorum", "order"}
ASSUME InputsAssumption == \A i \in Inputs : i \subseteq Alarms \cup Drills \cup {"panel", "silence"}

VARIABLES
  alert,     \* alarms whose alert is up in the cabinet
  silenced,  \* audible channels silenced by the operator
  fate,      \* what became of each drill
  shown,     \* the drill in DrillController._state, None before the first
  timer,     \* its threading.Timer
  jack,      \* what the voice player is playing
  mark,      \* what AudioModule believes it plays, with its generation
  agenda,    \* the steps each thread has yet to take
  heard,     \* generation a thread read before it stops the player
  telling,   \* drill whose abort a thread is to tell the cloud
  told,      \* acknowledgements of an abort, per drill
  left,      \* inputs yet to come: drills, alarms and buttons, once each
  caught,    \* history: drills with an alert between their check and their start
  haunted,   \* history: drills that started with an old timer's callback waiting
  mixed      \* history: a voice started while another voice had yet to be noted

drillVars == <<fate, shown, timer>>
voiceVars == <<jack, mark, mixed>>
cabinetVars == <<alert, silenced, left>>
threadVars == <<agenda, heard, telling>>
history == <<caught, haunted>>
vars == <<drillVars, voiceVars, cabinetVars, threadVars, told, history>>

Threads == Callers \cup Drills

Live(d) == fate[d] = "active"
Steps == {"start", "gate", "sound", "mark", "abort", "tell", "quiet", "stop", "hush",
          "wipe", "look", "lapse"}

TypeOK ==
  /\ alert \subseteq Alarms /\ silenced \in BOOLEAN
  /\ fate \in [Drills -> {"new", "checked", "refused", "active", "replaced",
                          "stopped", "lapsed", "aborted"}]
  /\ shown \in Drills \cup {None}
  /\ \A d \in Drills : Live(d) => shown = d
  /\ timer \in [Drills -> {"none", "armed", "off", "fired", "spent"}]
  /\ jack \in {None, "simulacro", "sismo"}
  /\ mark \in [kind : {None, "simulacro", "sismo"}, gen : Nat]
  /\ agenda \in [Threads -> Seq(Steps)]
  /\ heard \in [Threads -> Nat]
  /\ telling \in [Threads -> Drills \cup {None}]
  /\ told \in [Drills -> Nat]
  /\ left \subseteq Alarms \cup Drills \cup {"panel", "silence"}
  /\ caught \subseteq Drills /\ haunted \subseteq Drills /\ mixed \in BOOLEAN

Init ==
  /\ alert = {} /\ silenced = FALSE /\ left \in Inputs
  /\ fate = [d \in Drills |-> "new"] /\ shown = None
  /\ timer = [d \in Drills |-> "none"]
  /\ jack = None /\ mark = [kind |-> None, gen |-> 0] /\ mixed = FALSE
  /\ agenda = [t \in Threads |-> <<>>]
  /\ heard = [t \in Threads |-> 0]
  /\ telling = [t \in Threads |-> None]
  /\ told = [d \in Drills |-> 0]
  /\ caught = {} /\ haunted = {}

-----------------------------------------------------------------------------
Idle(t) == agenda[t] = <<>>
At(t, step) == ~Idle(t) /\ Head(agenda[t]) = step

\* t begins; or has taken its step, which leaves it the steps in more.
Begin(t, steps) == agenda' = [agenda EXCEPT ![t] = steps]
Then(t, more) == agenda' = [agenda EXCEPT ![t] = more \o Tail(@)]

\* Cancelling a Timer whose callback has been called does nothing.
Cancelled == [d \in Drills |-> IF timer[d] = "armed" THEN "off" ELSE timer[d]]

\* A drill, an alarm or a button.
Input(i) ==
  /\ i \in left
  /\ left' = left \ {i}

-----------------------------------------------------------------------------
(* The signed orders, one at a time.                                       *)

\* Which order comes first does not matter.
FreshDrill == CHOOSE d \in Drills : d \in left

\* Mutant of Check: only an alert that came by the contact is looked at.
Mutant_OnlySasmex(d) ==
  /\ Idle("command") /\ Input(d) /\ d = FreshDrill
  /\ IF "sasmex" \notin alert
       THEN fate' = [fate EXCEPT ![d] = "checked"] /\ Begin("command", <<"start">>)
       ELSE fate' = [fate EXCEPT ![d] = "refused"] /\ UNCHANGED agenda
  /\ UNCHANGED <<shown, timer, voiceVars, alert, silenced, heard, telling, told, history>>

\* start_drill up to its lock: the alert it reads is of before.
Check(d) ==
  /\ Idle("command") /\ Input(d) /\ d = FreshDrill
  /\ IF alert = {}
       THEN fate' = [fate EXCEPT ![d] = "checked"] /\ Begin("command", <<"start">>)
       ELSE fate' = [fate EXCEPT ![d] = "refused"] /\ UNCHANGED agenda
  /\ UNCHANGED <<shown, timer, voiceVars, alert, silenced, heard, telling, told, history>>

\* Mutant of Start: the drill there was stays active.
Mutant_Beside(d) ==
  /\ At("command", "start") /\ fate[d] = "checked"
  /\ fate' = [fate EXCEPT ![d] = "active"]
  /\ shown' = d
  /\ timer' = [Cancelled EXCEPT ![d] = "armed"]
  /\ haunted' = IF \E e \in Drills : timer[e] = "fired" THEN haunted \cup {d} ELSE haunted
  /\ Then("command", <<"gate">>)
  /\ UNCHANGED <<voiceVars, cabinetVars, heard, telling, told, caught>>

\* Mutant of Start: the timer of the drill there was is not cancelled.
Mutant_OldTimer(d) ==
  /\ At("command", "start") /\ fate[d] = "checked"
  /\ fate' = [e \in Drills |-> IF e = d THEN "active" ELSE IF Live(e) THEN "replaced" ELSE fate[e]]
  /\ shown' = d
  /\ timer' = [timer EXCEPT ![d] = "armed"]
  /\ haunted' = IF \E e \in Drills : timer[e] = "fired" THEN haunted \cup {d} ELSE haunted
  /\ Then("command", <<"gate">>)
  /\ UNCHANGED <<voiceVars, cabinetVars, heard, telling, told, caught>>

\* Mutant of Start: the timer is not started.
Mutant_NoWindow(d) ==
  /\ At("command", "start") /\ fate[d] = "checked"
  /\ fate' = [e \in Drills |-> IF e = d THEN "active" ELSE IF Live(e) THEN "replaced" ELSE fate[e]]
  /\ shown' = d
  /\ timer' = Cancelled
  /\ haunted' = IF \E e \in Drills : timer[e] = "fired" THEN haunted \cup {d} ELSE haunted
  /\ Then("command", <<"gate">>)
  /\ UNCHANGED <<voiceVars, cabinetVars, heard, telling, told, caught>>

\* start_drill under its lock, over whatever drill there was.
Start(d) ==
  /\ At("command", "start") /\ fate[d] = "checked"
  /\ fate' = [e \in Drills |-> IF e = d THEN "active" ELSE IF Live(e) THEN "replaced" ELSE fate[e]]
  /\ shown' = d
  /\ timer' = [Cancelled EXCEPT ![d] = "armed"]
  /\ haunted' = IF \E e \in Drills : timer[e] = "fired" THEN haunted \cup {d} ELSE haunted
  /\ Then("command", <<"gate">>)
  /\ UNCHANGED <<voiceVars, cabinetVars, heard, telling, told, caught>>

\* The active drill ends as what under the lock; then t goes on with more.
End(t, what, more) ==
  /\ fate' = [fate EXCEPT ![shown] = what]
  /\ timer' = Cancelled
  /\ Then(t, more)

ActiveDrill == shown # None /\ Live(shown)

\* drill_stop: one for another drill, or for none, is acknowledged and no more.
StopDrill(d) ==
  /\ Idle("command") /\ shown = d /\ Live(d)
  /\ fate' = [fate EXCEPT ![d] = "stopped"]
  /\ timer' = Cancelled
  /\ Begin("command", <<"quiet">>)
  /\ UNCHANGED <<shown, voiceVars, cabinetVars, heard, telling, told, history>>

-----------------------------------------------------------------------------
(* The window.                                                             *)

TimerFires(d) ==
  /\ timer[d] = "armed"
  /\ timer' = [timer EXCEPT ![d] = "fired"]
  /\ Begin(d, <<"lapse">>)
  /\ UNCHANGED <<fate, shown, voiceVars, cabinetVars, heard, telling, told, history>>

\* _on_window_end names no drill: it ends the one there is.
Lapse(d) ==
  /\ At(d, "lapse")
  /\ timer' = [Cancelled EXCEPT ![d] = "spent"]
  /\ IF ActiveDrill
       THEN fate' = [fate EXCEPT ![shown] = "lapsed"] /\ Then(d, <<"quiet">>)
       ELSE UNCHANGED fate /\ Then(d, <<>>)
  /\ UNCHANGED <<shown, voiceVars, cabinetVars, heard, telling, told, history>>

-----------------------------------------------------------------------------
(* The alert.  The pin owner, or whoever ordered the siren, has acted      *)
(* before anyone here hears of it.                                         *)

\* SASMEX: its tier voices and aborts, and then the drill's own callback aborts; an
\* instrumental tier that evacuates: the same, once.  A quorum aborts from a thread
\* of its own; an order to the siren does not.  Both come as signed orders do.
Follows(a) ==
  CASE a = "sasmex" -> <<"gate", "abort", "abort">>
    [] a = "tier"   -> <<"gate", "abort">>
    [] a = "quorum" -> <<"abort">>
    [] a = "order"  -> <<>>

Rise(a) ==
  /\ Input(a)
  /\ a \in {"quorum", "order"} => Idle("command")
  /\ alert' = alert \cup {a} /\ silenced' = FALSE
  /\ caught' = caught \cup {d \in Drills : fate[d] = "checked"}
  /\ IF a = "order" THEN UNCHANGED agenda ELSE Begin(a, Follows(a))
  /\ UNCHANGED <<drillVars, voiceVars, heard, telling, told, haunted>>

\* CERRAR ALERTA.
Reset ==
  /\ alert # {}
  /\ alert' = {} /\ silenced' = FALSE
  /\ UNCHANGED <<drillVars, voiceVars, left, threadVars, told, history>>

\* Mutant of Abort: the callback is not forgotten with the abort.
Mutant_TellsAgain(t) ==
  /\ At(t, "abort")
  /\ IF shown # None /\ fate[shown] \in {"active", "aborted"}
       THEN /\ End(t, "aborted", <<"quiet", "tell">>)
            /\ telling' = [telling EXCEPT ![t] = shown]
       ELSE Then(t, <<>>) /\ UNCHANGED <<fate, timer, telling>>
  /\ UNCHANGED <<shown, voiceVars, cabinetVars, heard, told, history>>

Abort(t) ==
  /\ At(t, "abort")
  /\ IF ActiveDrill
       THEN /\ End(t, "aborted", <<"quiet", "tell">>)
            /\ telling' = [telling EXCEPT ![t] = shown]
       ELSE Then(t, <<>>) /\ UNCHANGED <<fate, timer, telling>>
  /\ UNCHANGED <<shown, voiceVars, cabinetVars, heard, told, history>>

\* The second acknowledgement of drill_start, outside every lock.
Tell(t) ==
  /\ At(t, "tell")
  /\ told' = [told EXCEPT ![telling[t]] = @ + 1]
  /\ telling' = [telling EXCEPT ![t] = None]
  /\ Then(t, <<>>)
  /\ UNCHANGED <<drillVars, voiceVars, cabinetVars, heard, history>>

-----------------------------------------------------------------------------
(* The voice.                                                              *)

Kind(t) == IF t \in {"sasmex", "tier"} THEN "sismo" ELSE "simulacro"
Blocks == alert # {} \/ silenced

PanelVoice ==
  /\ Input("panel")
  /\ Begin("panel", <<"gate">>)
  /\ UNCHANGED <<drillVars, voiceVars, alert, silenced, heard, telling, told, history>>

\* _play before the player: the drill yields to an alert, both to the silence.
Gate(t) ==
  /\ At(t, "gate")
  /\ Then(t, IF (IF Kind(t) = "sismo" THEN silenced ELSE Blocks)
               THEN <<>> ELSE <<"sound", "mark">>)
  /\ UNCHANGED <<drillVars, voiceVars, cabinetVars, heard, telling, told, history>>

Sound(t) ==
  /\ At(t, "sound")
  /\ jack' = Kind(t)
  /\ mixed' = (mixed \/ \E u \in Threads : At(u, "mark") \/ At(u, "wipe"))
  /\ Then(t, <<>>)
  /\ UNCHANGED <<drillVars, mark, cabinetVars, heard, telling, told, history>>

\* The generation is a counter, and all that matters is that nobody holds it yet.
FreshGen == CHOOSE g \in 1..Cardinality(Threads) + 1 : \A t \in Threads : heard[t] # g

Mark(t) ==
  /\ At(t, "mark")
  /\ mark' = [kind |-> Kind(t), gen |-> FreshGen]
  /\ Then(t, <<>>)
  /\ UNCHANGED <<drillVars, jack, mixed, cabinetVars, heard, telling, told, history>>

SoundEnds ==
  /\ jack # None
  /\ jack' = None
  /\ UNCHANGED <<drillVars, mark, mixed, cabinetVars, threadVars, told, history>>

\* stop_simulacro reads the mark...
Quiet(t) ==
  /\ At(t, "quiet")
  /\ IF mark.kind = "simulacro"
       THEN heard' = [heard EXCEPT ![t] = mark.gen] /\ Then(t, <<"stop">>)
       ELSE UNCHANGED heard /\ Then(t, <<>>)
  /\ UNCHANGED <<drillVars, voiceVars, cabinetVars, telling, told, history>>

\* ...stops the player, whatever it plays by now, and clears the mark it read, if
\* it is still that one.  (The mark a moment later is the mark of now: a voice that
\* has yet to be noted notes it anyway, and one already noted has another gen.)
StopPlayer(t) ==
  /\ At(t, "stop")
  /\ jack' = None
  /\ mark' = IF mark.gen = heard[t] THEN [mark EXCEPT !.kind = None] ELSE mark
  /\ heard' = [heard EXCEPT ![t] = 0]
  /\ Then(t, <<>>)
  /\ UNCHANGED <<drillVars, mixed, cabinetVars, telling, told, history>>

\* The silence button: stop_playback clears the mark whatever it is.
Silence ==
  /\ Input("silence")
  /\ ~silenced /\ silenced' = TRUE
  /\ Begin("silence", <<"hush", "wipe">>)
  /\ UNCHANGED <<drillVars, voiceVars, alert, heard, telling, told, history>>

Hush ==
  /\ At("silence", "hush")
  /\ jack' = None
  /\ Then("silence", <<>>)
  /\ UNCHANGED <<drillVars, mark, mixed, cabinetVars, heard, telling, told, history>>

Wipe ==
  /\ At("silence", "wipe")
  /\ mark' = [mark EXCEPT !.kind = None]
  /\ Then("silence", <<>>)
  /\ UNCHANGED <<drillVars, jack, mixed, cabinetVars, heard, telling, told, history>>

\* A turn of the watcher that finds nothing to cut may find the voice ended.
Tidy ==
  /\ Idle("watcher") /\ mark.kind = "simulacro" /\ jack = None
  /\ mark' = [mark EXCEPT !.kind = None]
  /\ UNCHANGED <<drillVars, jack, mixed, cabinetVars, threadVars, told, history>>

\* Mutant of Watch: the watcher sees to the silence and leaves the alert to the drill.
Mutant_OnlySilence ==
  /\ Idle("watcher") /\ silenced
  /\ Begin("watcher", <<"look">>)
  /\ UNCHANGED <<drillVars, voiceVars, cabinetVars, heard, telling, told, history>>

\* A turn whose reading of the cabinet has something to cut...
Watch ==
  /\ Idle("watcher") /\ Blocks
  /\ Begin("watcher", <<"look">>)
  /\ UNCHANGED <<drillVars, voiceVars, cabinetVars, heard, telling, told, history>>

\* ...and _reconcile_voz with that reading.
Look ==
  /\ At("watcher", "look")
  /\ IF mark.kind = "simulacro" /\ jack # None
       THEN /\ heard' = [heard EXCEPT !["watcher"] = mark.gen]
            /\ Then("watcher", <<"stop">>)
            /\ UNCHANGED mark
       ELSE /\ mark' = IF mark.kind = "simulacro" THEN [mark EXCEPT !.kind = None] ELSE mark
            /\ Then("watcher", <<>>)
            /\ UNCHANGED heard
  /\ UNCHANGED <<drillVars, jack, mixed, cabinetVars, telling, told, history>>

-----------------------------------------------------------------------------
Step(t) ==
  \/ Abort(t) \/ Tell(t) \/ Gate(t) \/ Sound(t) \/ Mark(t) \/ Quiet(t) \/ StopPlayer(t)
Command == (\E d \in Drills : Start(d)) \/ Step("command")
Button == Hush \/ Wipe
Timer(d) == TimerFires(d) \/ Lapse(d) \/ Step(d)

Worker ==
  \/ Command \/ Button \/ Step("panel")
  \/ \E d \in Drills : Timer(d)
  \/ \E a \in Alarms \ {"order"} : Step(a)

Watcher == Tidy \/ Watch \/ Look \/ Step("watcher")

Next ==
  \/ \E d \in Drills : Check(d) \/ StopDrill(d)
  \/ \E a \in Alarms : Rise(a)
  \/ Reset \/ PanelVoice \/ Silence \/ SoundEnds
  \/ Worker \/ Watcher

Spec == Init /\ [][Next]_vars

\* The watcher turns for ever, timers fire, and the threads that have begun go on:
\* each has a few steps, so it is enough that one of them is not left for ever.
\* Nobody has to give an order, raise or close an alert, and a sound may not end.
Fairness == WF_vars(Worker) /\ WF_vars(Watcher)

FairSpec == Spec /\ Fairness

-----------------------------------------------------------------------------
\* The real thing wins: with an alert whose thread has been through its aborts, no
\* drill is active, unless that alert came between a start's reading and its lock.
\* (With the types of the state.)
RealWins ==
  /\ TypeOK
  /\ \A a \in alert \ {"order"} :
       Idle(a) => \A d \in Drills : Live(d) => d \in caught

\* A drill ends by a window only at the end of its own, unless an older timer's
\* callback was already waiting when it started; and the cloud is told of an abort,
\* once, and of no other end.
EndsAsTold ==
  \A d \in Drills :
    /\ fate[d] = "lapsed" => timer[d] = "spent" \/ d \in haunted
    /\ told[d] > 0 => fate[d] = "aborted" /\ told[d] = 1

\* Every drill ends, and one cut short is told to the cloud.
DrillIsSettled ==
  \A d \in Drills :
    Live(d) ~> ~Live(d) /\ (fate[d] = "aborted" => told[d] = 1)

\* With an alert up the jack does not go on saying that this is a drill, unless
\* two voices were started at once.
VoiceYields ==
  (alert # {} /\ jack = "simulacro") ~> (alert = {} \/ jack # "simulacro" \/ mixed)

\* What the comments of audio promise and the code does not: nobody but the operator
\* cuts the voice of an earthquake.
SismoIsNotCut ==
  [][jack = "sismo" /\ jack' = None =>
       agenda' = agenda \/ agenda'["silence"] # agenda["silence"]]_vars

=============================================================================
