------------------------------- MODULE Notify -------------------------------
(***************************************************************************)
(* The notices of one incident: the pass of the notification worker        *)
(* (api notify/orchestrator.py) over notification_jobs, and what changes   *)
(* under it: the ingest that raises the incident, the correlation that     *)
(* links it, whoever closes it, and the demonstration mode of the client   *)
(* (api demo_mode.py).                                                     *)
(*                                                                         *)
(* A pass is one transaction under an advisory lock.  It plans the jobs of *)
(* a new incident, those of one that got worse, and then sends what is     *)
(* due: messages leave one by one and their outcome is saved with the      *)
(* commit, or lost with the pass.                                          *)
(*                                                                         *)
(* The cascade has a channel with a duplicate guard (sms, and whatsapp     *)
(* like it) and one without (email).  Left out: panic incidents, the mail  *)
(* and push of single actions, the parallel mail of a critical incident,   *)
(* the windows of an hour and a day that bound what a pass looks at, the   *)
(* deadline of a job, recipients and texts, delivery receipts.             *)
(***************************************************************************)
EXTENDS Naturals, FiniteSets

CONSTANTS
  Cascades,      \* sets of channels a site may have configured
  MaxAttempts,   \* notify_max_attempts
  MaxAsks,       \* bound: times somebody asks for the demonstration mode
  MaxSlips       \* bound: passes that die before their commit, and guards that lapse

Channel == {"sms", "email"}
\* CASCADE_ORDER, and then the pushes
Before(i, k) == \/ i = "sms" /\ k # "sms"
                \/ i = "email" /\ k \in {"push", "evac"}
                \/ i = "push" /\ k = "evac"

ASSUME NotifyAssumption ==
  /\ Cascades \subseteq SUBSET Channel
  /\ MaxAttempts \in Nat \ {0}
  /\ MaxAsks \in Nat /\ MaxSlips \in Nat

\* The push of the incident, and that of the order to evacuate.
Push == {"push", "evac"}
Job == Channel \cup Push
Guarded == {"sms"}                               \* inflight_until, state.py

VARIABLES
  configured, \* channels of the cascade of the site
  incident,   \* its row
  demo,       \* row of demo_mode, within its window
  asking,     \* a request for it has seen no open incident
  asks,
  db,         \* rows of notification_jobs, as committed
  tx,         \* as the pass sees them; off: it has deleted the row of demo_mode
  phase,      \* progress of the pass
  texts,      \* history: messages that left by sms
  raced,      \* history: the mode was granted after the incident appeared
  slips       \* history: passes that died and guards that lapsed

demoVars == <<demo, asking, asks, raced>>
passVars == <<db, tx, phase, texts, slips>>
vars == <<configured, incident, demoVars, passVars>>

Status == {"none", "pending", "sent", "failed", "skipped", "simulated", "blocked"}
Rows == [status : [Job -> Status], due : SUBSET Job, tries : [Job -> 0..MaxAttempts],
         guard : SUBSET Guarded, order : BOOLEAN, off : BOOLEAN]
\* What is known of the incident: the first step of a lone cabinet, its second
\* (SEVERIDADES_DE_DISPARO), or an authority that orders out (autoriza_evacuacion).
Level == {"watch", "warning", "order"}
Incident == [state : {"none", "open", "closed"}, opened : {"local", "sasmex", "quorum"},
             level : Level]

TypeOK ==
  /\ configured \in Cascades
  /\ incident \in Incident
  /\ demo \in BOOLEAN /\ asking \in BOOLEAN /\ raced \in BOOLEAN
  /\ db \in Rows /\ tx \in Rows
  /\ phase \in {"idle", "enqueue", "upgrade", "escalate", "dispatch"}
  /\ texts \in Nat /\ asks \in 0..MaxAsks /\ slips \in 0..MaxSlips

Init ==
  /\ configured \in Cascades
  /\ incident = [state |-> "none", opened |-> "local", level |-> "watch"]
  /\ demo = FALSE /\ asking = FALSE /\ asks = 0 /\ raced = FALSE
  /\ db = [status |-> [j \in Job |-> "none"], due |-> {}, tries |-> [j \in Job |-> 0],
           guard |-> {}, order |-> FALSE, off |-> FALSE]
  /\ tx = db
  /\ phase = "idle"
  /\ texts = 0 /\ slips = 0

-----------------------------------------------------------------------------
(* The incident. *)

\* A local_event, or the fail-open of a site out of reach, opens it.
Open ==
  /\ incident.state = "none"
  /\ \E o \in {"local", "sasmex", "quorum"}, l \in Level :
       /\ o # "local" <=> l = "order"
       /\ incident' = [incident EXCEPT !.state = "open", !.opened = o, !.level = l]
  /\ UNCHANGED <<configured, demoVars, passVars>>

\* A later local_event of the same episode only raises, and raises a closed one too.
Raise ==
  /\ incident.state # "none" /\ incident.level # "order"
  /\ \E l \in {"warning", "order"} : incident' = [incident EXCEPT !.level = l]
  /\ incident' # incident
  /\ UNCHANGED <<configured, demoVars, passVars>>

\* The quorum of the network links it to an event with nodes enough.
Corroborate ==
  /\ incident.state = "open" /\ incident.level # "order"
  /\ incident' = [incident EXCEPT !.level = "order"]
  /\ UNCHANGED <<configured, demoVars, passVars>>

Close ==
  /\ incident.state = "open"
  /\ incident' = [incident EXCEPT !.state = "closed"]
  /\ UNCHANGED <<configured, demoVars, passVars>>

-----------------------------------------------------------------------------
(* The demonstration mode. *)

\* hay_incidente_abierto, read before the row is written.
Ask ==
  /\ ~asking /\ asks < MaxAsks /\ incident.state # "open"
  /\ asking' = TRUE /\ asks' = asks + 1
  /\ UNCHANGED <<configured, incident, demo, raced, passVars>>

\* The row, once no pass holds the one before.
Grant ==
  /\ asking /\ ~tx.off
  /\ demo' = TRUE /\ asking' = FALSE
  /\ raced' = (raced \/ incident.state # "none")
  /\ UNCHANGED <<configured, incident, asks, passVars>>

\* By hand, or because its window ended.
DemoEnds ==
  /\ demo /\ ~tx.off
  /\ demo' = FALSE
  /\ UNCHANGED <<configured, incident, asking, asks, raced, passVars>>

-----------------------------------------------------------------------------
(* Planning. *)

HasJobs(r) == \E j \in Job : r.status[j] # "none"
Cascaded == IF incident.opened = "quorum" THEN {} ELSE Channel

\* push_target_for: a lone cabinet in its first step wakes nobody, and there may be no
\* phone registered when the plan looks.
IncidentPush == {{}} \cup IF incident.level # "watch" THEN {{"push"}} ELSE {}

\* The first channel is due at once and each of the others after its step, unless the
\* incident comes late; the notices of a quorum are all due at once.
FirstDue == IF Cascaded = {} THEN {Job} ELSE {Job, Job \ {"email"}}

\* ON CONFLICT DO NOTHING: a job there is stays as it is.
Insert(r, jobs, due) ==
  LET new == {j \in jobs : r.status[j] = "none"} IN
  [r EXCEPT !.status = [j \in Job |-> IF j \in new THEN "pending" ELSE @[j]],
            !.due = @ \cup (new \cap due)]

\* The worker, woken or by its poll, takes the advisory lock.
Begin ==
  /\ phase = "idle"
  /\ phase' = "enqueue" /\ tx' = db
  /\ UNCHANGED <<configured, incident, demoVars, db, texts, slips>>

\* Mutant of Enqueue: an incident does not end the demonstration.
Mutant_KeepsDemo ==
  /\ phase = "enqueue" /\ phase' = "upgrade"
  /\ tx' = IF incident.state = "open" /\ ~HasJobs(tx)
           THEN [Insert(tx, configured, Job) EXCEPT !.order = incident.level = "order"]
           ELSE tx
  /\ UNCHANGED <<configured, incident, demoVars, db, texts, slips>>

\* An open incident without jobs ends the demonstration, and then gets its jobs. The row
\* of the push records the order there was (target.autoriza).
Enqueue ==
  /\ phase = "enqueue" /\ phase' = "upgrade"
  /\ IF incident.state = "open" /\ ~HasJobs(tx)
       THEN \E push \in IncidentPush, due \in FirstDue :
              tx' = [Insert(tx, configured \cup push, due)
                       EXCEPT !.off = demo, !.order = incident.level = "order"]
       ELSE UNCHANGED tx
  /\ UNCHANGED <<configured, incident, demoVars, db, texts, slips>>

\* A local one that reached the step of the brigade after its first pass.
Upgrade ==
  /\ phase = "upgrade" /\ phase' = "escalate"
  /\ IF /\ incident.state = "open"
        /\ incident.level # "order" /\ HasJobs(tx)
       THEN \E push \in IncidentPush : tx' = Insert(tx, push, Job)
       ELSE UNCHANGED tx
  /\ UNCHANGED <<configured, incident, demoVars, db, texts, slips>>

\* Mutant of Escalates: only a building that got a push is told again.
Mutant_OnlyAfterPush(r) == r.status["push"] # "none" /\ ~r.order

\* _ESCALATION_CANDIDATES_SQL: what the building was told did not order it out.
Escalates(r) ==
  \/ r.status["push"] # "none" /\ ~r.order
  \/ r.status["push"] = "none" /\ incident.opened = "local" /\ HasJobs(r)

Escalate ==
  /\ phase = "escalate" /\ phase' = "dispatch"
  /\ tx' = IF /\ incident.state = "open"
              /\ incident.level = "order" /\ Escalates(tx) /\ tx.status["evac"] = "none"
           THEN Insert(tx, {"evac"}, Job)
           ELSE tx
  /\ UNCHANGED <<configured, incident, demoVars, db, texts, slips>>

-----------------------------------------------------------------------------
(* Sending. *)

DueJobs(r) == {j \in r.due : r.status[j] = "pending"}

Behind(r, j) == {k \in Cascaded : j \in Cascaded /\ Before(j, k) /\ r.status[k] = "pending"}
Advance(r, j) == [r EXCEPT !.due = @ \cup Behind(r, j)]
\* A settled job needs its attempts no longer (the row keeps them).
Ends(r, j, s) == [r EXCEPT !.status[j] = s, !.tries[j] = IF s = "failed" THEN @ ELSE 0]
Pending(r) == {j \in Job : r.status[j] = "pending"}
SkipCascade(r) ==
  [r EXCEPT !.status = [j \in Job |-> IF j \in Cascaded \cap Pending(r) THEN "skipped" ELSE @[j]],
            !.tries = [j \in Job |-> IF j \in Cascaded \cap Pending(r) THEN 0 ELSE @[j]]]

\* Mutant of Fail: the next channel waits for its step.
Mutant_NoHurry(r, j) ==
  LET more == [r EXCEPT !.tries[j] = @ + 1] IN
  IF Behind(r, j) = {} /\ more.tries[j] < MaxAttempts
    THEN [more EXCEPT !.due = @ \ {j}]
    ELSE Ends(more, j, "failed")

\* _fail: the next channel now, or the same one later.
Fail(r, j) ==
  LET more == [r EXCEPT !.tries[j] = @ + 1] IN
  IF Behind(r, j) = {} /\ more.tries[j] < MaxAttempts
    THEN [more EXCEPT !.due = @ \ {j}]
    ELSE Ends(Advance(more, j), j, "failed")

\* Mutant of Remember: only what the provider accepted is remembered.
Mutant_ForgetsUnsure(r, j, outcome) ==
  IF j \in Guarded /\ outcome = "accepted" THEN [r EXCEPT !.guard = @ \cup {j}] ELSE r

\* The guard remembers what may be on its way; a refusal is not.
Remember(r, j, outcome) ==
  IF j \in Guarded /\ outcome # "refused" THEN [r EXCEPT !.guard = @ \cup {j}] ELSE r

DemoOn == demo /\ ~tx.off

\* One by one, by due_at: the channels in their order; the pushes touch no other job. (A
\* row selected with another that settles it is skipped, as it is already.)
Turn(j) ==
  /\ phase = "dispatch" /\ j \in DueJobs(tx)
  /\ \A k \in DueJobs(tx) : ~Before(k, j)
  /\ UNCHANGED <<configured, incident, demoVars, db, phase, slips>>

Block(j) ==
  /\ Turn(j) /\ DemoOn
  /\ tx' = Ends(Advance(tx, j), j, "blocked")
  /\ UNCHANGED texts

Simulate(j) ==
  /\ Turn(j) /\ ~DemoOn
  /\ tx' = Ends(Advance(tx, j), j, "simulated")
  /\ UNCHANGED texts

\* A push to a site without phones: settled, no retry.
NoPhones(j) ==
  /\ Turn(j) /\ ~DemoOn /\ j \in Push
  /\ tx' = Ends([tx EXCEPT !.tries[j] = @ + 1], j, "failed")
  /\ UNCHANGED texts

\* A message that may be on its way already: not sent, and it counts as a failure.
Duplicate(j) ==
  /\ Turn(j) /\ ~DemoOn /\ j \in tx.guard
  /\ tx' = Fail(tx, j)
  /\ UNCHANGED texts

\* Accepted, refused, or nobody knows: then it may have left or not.
Send(j) ==
  /\ Turn(j) /\ ~DemoOn /\ j \notin tx.guard
  /\ \E outcome \in {"accepted", "refused", "unsure"}, left \in 0..1 :
       /\ outcome = "accepted" /\ j \in Guarded => left = 1
       /\ outcome = "refused" \/ j \notin Guarded => left = 0
       /\ texts' = IF j = "sms" THEN texts + left ELSE texts
       /\ LET told == Remember(tx, j, outcome) IN
          tx' = IF outcome # "accepted" THEN Fail(told, j)
                ELSE IF j \in Cascaded THEN SkipCascade(Ends(told, j, "sent"))
                ELSE Ends(told, j, "sent")

Dispatch == \E j \in Job :
  Block(j) \/ Simulate(j) \/ NoPhones(j) \/ Duplicate(j) \/ Send(j)

Commit ==
  /\ phase = "dispatch" /\ DueJobs(tx) = {}
  /\ db' = [tx EXCEPT !.off = FALSE] /\ tx' = db'
  /\ demo' = DemoOn
  /\ phase' = "idle"
  /\ UNCHANGED <<configured, incident, asking, asks, raced, texts, slips>>

\* The process dies, the connection drops or a provider raises: what left, left.
Cut ==
  /\ phase # "idle" /\ slips < MaxSlips
  /\ slips' = slips + 1
  /\ phase' = "idle" /\ tx' = db
  /\ UNCHANGED <<configured, incident, demoVars, db, texts>>

\* Time: the step of a channel or the wait of a retry is over, in the order of the plan.
FallsDue(j) ==
  /\ phase = "idle" /\ db.status[j] = "pending" /\ j \notin db.due
  /\ \A k \in Cascaded : j \in Cascaded /\ Before(k, j) /\ db.status[k] = "pending" => k \in db.due
  /\ db' = [db EXCEPT !.due = @ \cup {j}] /\ tx' = db'
  /\ UNCHANGED <<configured, incident, demoVars, phase, texts, slips>>

\* Time: the provider will no longer deliver what it queued.
GuardLapses(j) ==
  /\ phase = "idle" /\ j \in db.guard /\ slips < MaxSlips
  /\ db' = [db EXCEPT !.guard = @ \ {j}] /\ tx' = db'
  /\ slips' = slips + 1
  /\ UNCHANGED <<configured, incident, demoVars, phase, texts>>

Wait == \E j \in Job : FallsDue(j)
Pass == Begin \/ Enqueue \/ Upgrade \/ Escalate \/ Dispatch \/ Commit

Next ==
  \/ Open \/ Raise \/ Corroborate \/ Close
  \/ Ask \/ Grant \/ DemoEnds
  \/ Pass \/ Cut
  \/ Wait \/ \E j \in Job : GuardLapses(j)

Spec == Init /\ [][Next]_vars

\* The worker polls for ever, and what waits falls due however many passes come before
\* (time does not stop, and the model lets it pass only between them).
Fairness == WF_vars(Pass) /\ SF_vars(Wait)
FairSpec == Spec /\ Fairness

-----------------------------------------------------------------------------
Silent == {"failed", "simulated", "blocked"}

\* The cascade drops no voice: a channel is skipped only if another one told somebody,
\* what counts as told left, after a channel that told nobody the next one does not
\* wait, and the last voice is given up only after all its attempts (orchestrator.py
\* :2194, _fail, _simulate and _blocked_by_demo).
NoVoiceIsDropped ==
  /\ TypeOK
  /\ \A j \in Job :
       /\ db.status[j] = "skipped" => \E k \in Cascaded \ {j} : db.status[k] = "sent"
       /\ j \in Guarded /\ db.status[j] = "sent" => texts > 0
       /\ db.status[j] \in Silent => \A k \in Behind(db, j) : k \in db.due \/ db.tries[k] > 0
       /\ db.status[j] = "failed" =>
            \/ db.tries[j] = MaxAttempts
            \/ j \in Push
            \/ j \in Cascaded /\ \E k \in Cascaded : Before(j, k) /\ db.status[k] # "none"

\* One voice of the cascade is enough, and on a channel with a guard the incident leaves
\* twice only if a pass died before its commit, which takes the guard with it, or the
\* guard lapsed (state.py:44, twilio.py:441).
TwiceOnlyIfCut ==
  /\ texts <= 1 + slips
  /\ Cardinality({j \in Cascaded : db.status[j] = "sent"}) <= 1

\* The demonstration mode blocks no notice of a real incident, unless it was granted to a
\* request that looked before the incident opened, or after it was closed (demo_mode.py:161).
BlockedOnlyByRace == (\E j \in Job : db.status[j] = "blocked") => raced

\* A building that got any notice of what a lone cabinet opened is told the order to
\* evacuate when it comes, or the push is tried to the end: whatever was planned before,
\* and though a pass dies halfway (orchestrator.py:380, :1105).
Told(j) == db.status[j] \notin {"none", "pending"}
OrderSettled == Told("evac") \/ (db.order /\ Told("push"))
EvacuationIsTold ==
  [](incident.state = "open" /\ incident.level = "order" /\ incident.opened = "local"
       /\ HasJobs(db)
     => <>(incident.state = "closed" \/ OrderSettled))
=============================================================================
