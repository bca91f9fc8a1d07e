------------------------------ MODULE Commands ------------------------------
(***************************************************************************)
(* The life of a signed command: the request that signs and publishes it   *)
(* (api commands/service.py, routers/drills.py), the cabinet that verifies *)
(* and runs it (edge dispatch/, security/, drill/), and the worker that    *)
(* takes its acknowledgement or lets it expire (api ingest/handlers.py,    *)
(* commands/sync.py).  One command per cabinet: either each is issued by a *)
(* request of its own, or they are the drill_start of one drill, issued by *)
(* one request, and then a cabinet may cut its drill short, which it tells *)
(* by a second acknowledgement.                                            *)
(*                                                                         *)
(* The two queues repeat and reorder.  Left out: what an order does to the *)
(* relays (GpioRelays), rate limits and keys beyond their refusal, and     *)
(* updates, whose acknowledgement says only that the order was accepted.   *)
(***************************************************************************)
EXTENDS Naturals, FiniteSets

CONSTANTS
  Orders,        \* commands
  MaxRestarts    \* bound: cabinets that restart, once each

ASSUME OrdersAssumption == MaxRestarts \in Nat

VARIABLES
  together,  \* the orders are one drill, a choice made at the start
  row,       \* row of commands: its status, and what the request did to it
  linked,    \* drill_sites.command_id: commands the drill knows to be its own
  drill,     \* row of drills
  aborted,   \* drill_sites.aborted_at
  inbox,     \* commands on their way to their cabinet
  acks,      \* acknowledgements on their way, or in the cabinet's spool
  nonces,    \* nonces the cabinet remembers, in memory
  stage,     \* the dispatcher: done with it and yet to acknowledge
  playing,   \* the drill controller
  ran,       \* history: times the order was carried out
  denied,    \* history: orders carried out of which the cabinet said they failed
  restarted, \* cabinets that have restarted
  early,     \* history: orders of which an acknowledgement met no row
  cut        \* history: sites that cut their drill short

cloudVars == <<together, row, linked, drill, aborted>>
netVars == <<inbox, acks>>
edgeVars == <<nonces, stage, playing, ran, denied, restarted, cut>>
vars == <<cloudVars, netVars, edgeVars, early>>

Final == {"acked", "rejected", "expired"}
Ack == [cmd : Orders, kind : {"done", "refused", "aborted"}]

\* The orders that belong to the drill.
Drill == IF together THEN Orders ELSE {}

TypeOK ==
  /\ together \in BOOLEAN
  /\ row \in [Orders -> {"new", "unsaved", "undone", "pending"} \cup Final]
  /\ linked \subseteq Drill /\ aborted \subseteq linked
  /\ drill \in {"none", "open", "stopped", "aborted", "undone"}
  /\ inbox \subseteq Orders /\ acks \subseteq Ack
  /\ nonces \subseteq Orders
  /\ stage \in [Orders -> {"idle", "done", "refused"}]
  /\ playing \in [Orders -> {"no", "yes", "aborting"}]
  /\ ran \in [Orders -> 0..2]
  /\ denied \subseteq Orders \ Drill
  /\ restarted \subseteq Orders
  /\ early \subseteq Orders /\ cut \subseteq Drill

Init ==
  /\ together \in BOOLEAN
  /\ row = [c \in Orders |-> "new"]
  /\ linked = {} /\ drill = "none" /\ aborted = {}
  /\ inbox = {} /\ acks = {}
  /\ nonces = {}
  /\ stage = [c \in Orders |-> "idle"]
  /\ playing = [c \in Orders |-> "no"]
  /\ ran = [c \in Orders |-> 0]
  /\ denied = {} /\ restarted = {}
  /\ early = {} /\ cut = {}

-----------------------------------------------------------------------------
(* The request.  Its transaction holds the rows it inserted until it ends, *)
(* after everything has been published.                                    *)

\* The commands of the request that issues c.
Request(c) == IF c \in Drill THEN Drill ELSE {c}

Issue(c) ==
  /\ row[c] = "new"
  /\ row' = [row EXCEPT ![c] = "unsaved"]
  /\ linked' = linked \cup ({c} \cap Drill)
  /\ inbox' = inbox \cup {c}
  /\ UNCHANGED <<together, drill, aborted, acks, edgeVars, early>>

\* Refused before the insert: rate limit, demonstration, no gateway, no key.
IssueRefused(c) ==
  /\ row[c] = "new"
  /\ row' = [row EXCEPT ![c] = "undone"]
  /\ UNCHANGED <<together, linked, drill, aborted, netVars, edgeVars, early>>

\* PublishError, also raised by a connection that broke after the broker took
\* it.  A lone request rolls back; the drill's swallows the error, and the row
\* it inserted stays in its transaction without being the drill's.
PublishFails(c) ==
  /\ row[c] = "new"
  /\ inbox' \in {inbox, inbox \cup {c}}
  /\ row' = [row EXCEPT ![c] = IF c \in Drill THEN "unsaved" ELSE "undone"]
  /\ UNCHANGED <<together, linked, drill, aborted, acks, edgeVars, early>>

SaveAs(c, status) ==
  row' = [d \in Orders |->
            IF d \in Request(c) /\ row[d] \in {"new", "unsaved"} THEN status[row[d]] ELSE row[d]]

Commit(c) ==
  /\ \A d \in Request(c) : row[d] # "new"
  /\ IF c \in Drill THEN drill = "none" ELSE row[c] = "unsaved"
  /\ SaveAs(c, [unsaved |-> "pending", new |-> "new"])
  /\ drill' = IF c \in Drill THEN "open" ELSE drill
  /\ UNCHANGED <<together, linked, aborted, netVars, edgeVars, early>>

\* The process dies or the database refuses: nothing was issued, says the cloud.
RollBack(c) ==
  /\ \E d \in Request(c) : row[d] = "unsaved"
  /\ SaveAs(c, [unsaved |-> "undone", new |-> "undone"])
  /\ linked' = linked \ Request(c)
  /\ drill' = IF c \in Drill THEN "undone" ELSE drill
  /\ UNCHANGED <<together, aborted, netVars, edgeVars, early>>

\* The console stops the drill; its drill_stop are commands of their own, and
\* what they do at a cabinet is a DrillEnds.
StopDrill ==
  /\ drill = "open"
  /\ drill' = "stopped"
  /\ UNCHANGED <<together, row, linked, aborted, netVars, edgeVars, early>>

-----------------------------------------------------------------------------
(* The cabinet. *)

\* Mutant of Receive: the nonce is looked up and not remembered.
Mutant_ForgetsNonce(c) ==
  /\ c \in inbox /\ stage[c] = "idle"
  /\ c \notin nonces
  /\ inbox' \in {inbox, inbox \ {c}}
  /\ stage' = [stage EXCEPT ![c] = "done"]
  /\ ran' = [ran EXCEPT ![c] = @ + 1]
  /\ UNCHANGED <<cloudVars, acks, nonces, playing, denied, restarted, cut, early>>

\* Refused before anything moves: commands disabled, channel or drill missing.
Refused(c) ==
  /\ stage' = [stage EXCEPT ![c] = "refused"]
  /\ UNCHANGED <<ran, playing, denied>>

\* Mutant of CarriedOut: an order that failed leaves nothing to answer.
Mutant_FailureIsSilent(c, answer) ==
  /\ answer = "done" \/ c \notin Drill
  /\ stage' = [stage EXCEPT ![c] = IF answer = "done" THEN answer ELSE "idle"]
  /\ ran' = [ran EXCEPT ![c] = @ + 1]
  /\ denied' = IF answer = "done" THEN denied ELSE denied \cup {c}
  /\ playing' = [playing EXCEPT ![c] = IF c \in Drill THEN "yes" ELSE "no"]

\* The relays moved, the self test ran or the drill started.  Of relays it
\* may still be told that they failed: the link to the process of the pins
\* did not answer in time, or one of the relays did not follow.
CarriedOut(c, answer) ==
  /\ answer = "done" \/ c \notin Drill
  /\ stage' = [stage EXCEPT ![c] = answer]
  /\ ran' = [ran EXCEPT ![c] = @ + 1]
  /\ denied' = IF answer = "done" THEN denied ELSE denied \cup {c}
  /\ playing' = [playing EXCEPT ![c] = IF c \in Drill THEN "yes" ELSE "no"]

\* verify_command accepts, and the dispatcher carries the order out or
\* refuses it.  The broker keeps the message until the callback returns, or
\* longer when its acknowledgement is lost; self_test returns at once.
Receive(c) ==
  /\ c \in inbox /\ stage[c] = "idle"
  /\ c \notin nonces
  /\ nonces' = nonces \cup {c}
  /\ inbox' \in {inbox, inbox \ {c}}
  /\ Refused(c) \/ \E answer \in {"done", "refused"} : CarriedOut(c, answer)
  /\ UNCHANGED <<cloudVars, acks, restarted, cut, early>>

\* A nonce seen, or a signature out of its window, which may pass at any time
\* and is never within it again: dropped without a word, with its copies.
Drop(c) ==
  /\ c \in inbox /\ stage[c] = "idle"
  /\ inbox' = inbox \ {c}
  /\ UNCHANGED <<cloudVars, acks, edgeVars, early>>

\* Mutant of Acknowledge: the answer tells what plays now.
Mutant_AnswersPresent(c) ==
  /\ stage[c] # "idle"
  /\ acks' = acks \cup {[cmd |-> c, kind |->
                 IF c \in Drill /\ playing[c] # "yes" THEN "refused" ELSE stage[c]]}
  /\ stage' = [stage EXCEPT ![c] = "idle"]
  /\ UNCHANGED <<cloudVars, inbox, nonces, playing, ran, denied, restarted, cut, early>>

Acknowledge(c) ==
  /\ stage[c] # "idle"
  /\ acks' = acks \cup {[cmd |-> c, kind |-> stage[c]]}
  /\ stage' = [stage EXCEPT ![c] = "idle"]
  /\ UNCHANGED <<cloudVars, inbox, nonces, playing, ran, denied, restarted, cut, early>>

\* The real alert wins: the drill is cut, and then the cloud is told.
Abort(c) ==
  /\ playing[c] = "yes"
  /\ playing' = [playing EXCEPT ![c] = "aborting"]
  /\ cut' = cut \cup {c}
  /\ UNCHANGED <<cloudVars, netVars, nonces, stage, ran, denied, restarted, early>>

TellAbort(c) ==
  /\ playing[c] = "aborting"
  /\ playing' = [playing EXCEPT ![c] = "no"]
  /\ acks' = acks \cup {[cmd |-> c, kind |-> "aborted"]}
  /\ UNCHANGED <<cloudVars, inbox, nonces, stage, ran, denied, restarted, cut, early>>

\* The window of the drill ends, or a drill_stop: nobody is told.
DrillEnds(c) ==
  /\ playing[c] = "yes"
  /\ playing' = [playing EXCEPT ![c] = "no"]
  /\ UNCHANGED <<cloudVars, netVars, nonces, stage, ran, denied, restarted, cut, early>>

\* Nonces, drill and what was being done are memory; what was published is
\* durable (CloudSpool), and so is what the broker holds.  Before it has
\* taken the command a restart changes nothing.
Restart(c) ==
  /\ c \in nonces
  /\ c \notin restarted /\ Cardinality(restarted) < MaxRestarts
  /\ restarted' = restarted \cup {c}
  /\ nonces' = nonces \ {c}
  /\ stage' = [stage EXCEPT ![c] = "idle"]
  /\ playing' = [playing EXCEPT ![c] = "no"]
  /\ UNCHANGED <<cloudVars, netVars, ran, denied, cut, early>>

-----------------------------------------------------------------------------
(* The workers. *)

\* Mutant of MayPlay: who has not answered does not play.
Mutant_OnlyAcked(status, c) == status[c] = "acked"

\* Mutant of AbortSite: any command marks a site.
Mutant_MarksAny(c, status) ==
  /\ aborted' = aborted \cup {c}
  /\ UNCHANGED drill

\* _abortar_simulacro, of a command that is now acked: the site is marked, and
\* the drill closed if no site is left that may be playing it.
MayPlay(status, c) == status[c] \in {"pending", "acked"}

AbortSite(c, status) ==
  /\ aborted' = aborted \cup ({c} \cap linked)
  /\ drill' = IF /\ c \in linked \ aborted /\ drill = "open"
                 /\ ~\E d \in linked \ aborted' : MayPlay(status, d)
              THEN "aborted" ELSE drill

\* Mutant of Answered: a negative answer is taken for a late one.
Mutant_AnyAnswer(a) ==
  IF row[a.cmd] = "pending" THEN [row EXCEPT ![a.cmd] = "acked"] ELSE row

\* Mutant of Answered: the update does not look at the status.
Mutant_Unconditional(a) ==
  IF row[a.cmd] \in Final \cup {"pending"}
  THEN [row EXCEPT ![a.cmd] = IF a.kind = "refused" THEN "rejected" ELSE "acked"]
  ELSE row

\* handle_command_ack: only a pending row changes.
Answered(a) ==
  IF row[a.cmd] = "pending"
  THEN [row EXCEPT ![a.cmd] = IF a.kind = "refused" THEN "rejected" ELSE "acked"]
  ELSE row

\* Mutant of TakeAck: an abort counts only on a row that was acked before.
Mutant_AbortIsSecond(a, repeated) ==
  /\ a \in acks
  /\ acks' = IF repeated THEN acks ELSE acks \ {a}
  /\ row' = Answered(a)
  /\ IF a.kind = "aborted" /\ row[a.cmd] = "acked"
     THEN AbortSite(a.cmd, row')
     ELSE UNCHANGED <<aborted, drill>>
  /\ early' = IF row[a.cmd] \in {"new", "unsaved", "undone"}
              THEN early \cup {a.cmd} ELSE early
  /\ UNCHANGED <<together, linked, inbox, edgeVars>>

\* An abort counts on a row that is, or becomes, acked: it may overtake the
\* acknowledgement of the start.  A nonce without a row is turned away.
TakeAck(a, repeated) ==
  /\ a \in acks
  /\ acks' = IF repeated THEN acks ELSE acks \ {a}
  /\ row' = Answered(a)
  /\ IF a.kind = "aborted" /\ row'[a.cmd] = "acked"
     THEN AbortSite(a.cmd, row')
     ELSE UNCHANGED <<aborted, drill>>
  /\ early' = IF row[a.cmd] \in {"new", "unsaved", "undone"}
              THEN early \cup {a.cmd} ELSE early
  /\ UNCHANGED <<together, linked, inbox, edgeVars>>

\* The sync worker, or the next command of the site, once expires_at is past:
\* the two clocks differ and the cabinet's window says nothing of it.
Expire(c) ==
  /\ row[c] = "pending"
  /\ row' = [row EXCEPT ![c] = "expired"]
  /\ UNCHANGED <<together, linked, drill, aborted, netVars, edgeVars, early>>

-----------------------------------------------------------------------------
Cloud(c) ==
  \/ Issue(c) \/ IssueRefused(c) \/ PublishFails(c) \/ Commit(c) \/ RollBack(c)
  \/ Expire(c)

Cabinet(c) ==
  \/ Receive(c) \/ Drop(c) \/ Acknowledge(c) \/ Restart(c)

Controller(c) == Abort(c) \/ TellAbort(c) \/ DrillEnds(c)

Next ==
  \/ \E c \in Orders : Cloud(c) \/ Cabinet(c)
  \/ \E c \in Drill : Controller(c)
  \/ \E a \in Ack : TakeAck(a, TRUE) \/ TakeAck(a, FALSE)
  \/ StopDrill

Spec == Init /\ [][Next]_vars

-----------------------------------------------------------------------------
(* A signed order is carried out once, however often the broker repeats    *)
(* it: only a restart, which forgets the nonces, can run it again          *)
(* (security/__init__.py:86-93).  And the console says that it was carried *)
(* out only if it was (handlers.py:929).  (With the types of the state.)   *)
OnceAndAckedMeansRan ==
  /\ TypeOK
  /\ \A c \in Orders :
       /\ ran[c] <= IF c \in restarted THEN 2 ELSE 1
       /\ row[c] = "acked" => ran[c] > 0

(* An answered or expired command never changes again, whatever comes late *)
(* or twice (handlers.py:872-876).                                         *)
NeverRevives == [][\A c \in Orders : row[c] \in Final => row'[c] = row[c]]_row

(* Nothing more will come of c. *)
Quiet(c) ==
  /\ c \notin inbox /\ stage[c] = "idle"
  /\ \A a \in acks : a.cmd # c

(* An order the cabinet carried out is not left for the cloud to wait for, *)
(* unless its answer overtook the transaction that issued it or the        *)
(* cabinet restarted in the middle.  And only the cabinet can have it      *)
(* shown as rejected, by calling failed an order whose relays moved        *)
(* (dispatch/__init__.py:365): no loss, repeat or reordering does.         *)
RecordIsTrue ==
  \A c \in Orders :
    Quiet(c) /\ ran[c] > 0 /\ row[c] \in {"pending", "rejected"}
      => \/ c \in early \/ c \in restarted
         \/ c \in denied /\ row[c] = "rejected"

(* What the cloud shows of a drill is what its sites do.  One it closed    *)
(* because every site had cut it short plays nowhere, but at a site whose  *)
(* answer came after its time (handlers.py:799-802).  And a site that cuts *)
(* its drill short is shown so, in whatever order its two acknowledgements *)
(* come, if the cloud takes its command for carried out.                   *)
DrillIsShownAsItIs ==
  \A c \in linked :
    /\ drill = "aborted" /\ playing[c] = "yes" => row[c] = "expired" \/ c \in restarted
    /\ /\ c \in cut /\ playing[c] # "aborting" /\ row[c] = "acked"
       /\ [cmd |-> c, kind |-> "aborted"] \notin acks
       => c \in aborted \/ c \in early \/ c \in restarted

(* What an expired row says of itself (sync.py:114, queries/commands.py:41): *)
(* no acknowledgement came in time.                                        *)
ExpiredMeansUnanswered ==
  \A c \in Orders : row[c] = "expired" => c \notin early
=============================================================================
