----------------------------- MODULE SignedDocs -----------------------------
(***************************************************************************)
(* Signed documents from the cloud to the cabinet: the configuration       *)
(* (api commands/sync.py to edge config/store.py) and the seismic          *)
(* catalogue (api routers/commands.py push_catalog to edge catalog.py).    *)
(* Both publish a document under the next version of the gateway and       *)
(* record what they published; the cabinet takes only versions above the   *)
(* highest it has ever taken.  The state is one gateway.                   *)
(*                                                                         *)
(* A signature covers document and version; a forged one changes nothing,  *)
(* so messages here are genuine.  MQTT (QoS 1, persistent session) may     *)
(* repeat and reorder them and does not lose them.                         *)
(***************************************************************************)
EXTENDS Naturals, FiniteSets

CONSTANTS
  Bases,         \* documents of the active rule set
  Invalid,       \* those the contract of the cabinet refuses: the cloud does not look
  Writers,       \* passes of the worker, or concurrent requests
  Serialised,    \* pg_advisory_xact_lock: the worker has it, the request not
  DiskFails,     \* the cache may refuse a write, or be unreadable at boot
  MaxFaults,     \* bound: publications whose transaction then fails
  MaxEdits,      \* bound: edits of the console
  MaxVersion,    \* bound: versions
  MaxRestarts    \* bound: restarts of the cabinet

ASSUME DocsAssumption ==
  /\ Invalid \subseteq Bases
  /\ Serialised \in BOOLEAN /\ DiskFails \in BOOLEAN
  /\ MaxFaults \in Nat /\ MaxEdits \in Nat /\ MaxVersion \in Nat /\ MaxRestarts \in Nat

NoBase == "no base"                     \* no active rule set, or without edge
ASSUME NoBaseAssumption == NoBase \notin Bases

VARIABLES
  active,     \* base of the active rule set of the gateway
  retired,    \* gateways.status = 'retired'
  edits,      \* edits of the console so far
  record,     \* row of gateway_config_state: what the cloud says it published
  writer,     \* what each transaction holds between its read and its end
  inbox,      \* messages in flight
  sent,       \* history: every message that ever left
  stray,      \* history: those that left and were not recorded
  memory,     \* the store of the cabinet: document, version, high water
  disk,       \* its cache file
  restarts,
  forgotten,  \* history: highest mark of a cabinet that came back with less
  unmarked    \* history: a restart found the mark lower in its file, or no file

consoleVars == <<active, retired, edits>>
edgeVars == <<memory, disk, restarts, forgotten, unmarked>>
netVars == <<inbox, sent, stray>>
vars == <<consoleVars, record, writer, netVars, edgeVars>>

Doc == [base : Bases, admin : {"active", "retired"}]
Message == [version : 1..MaxVersion, doc : Doc]
NoDoc == [base |-> NoBase, admin |-> "active"]
Unpublished == [version |-> 0, doc |-> NoDoc]
Idle == [pc |-> "idle"]
Transaction == [pc : {"read", "published"}, msg : Message]
Store == [version : 0..MaxVersion, high : 0..MaxVersion, doc : Doc \cup {NoDoc}]
Factory == [version |-> 0, high |-> 0, doc |-> NoDoc]

TypeOK ==
  /\ active \in Bases \cup {NoBase}
  /\ retired \in BOOLEAN
  /\ edits \in 0..MaxEdits
  /\ record \in Message \cup {Unpublished}
  /\ writer \in [Writers -> Transaction \cup {Idle}]
  /\ inbox \subseteq Message
  /\ stray \subseteq sent /\ sent \subseteq Message
  /\ memory \in Store
  /\ disk \in Store
  /\ restarts \in 0..MaxRestarts
  /\ forgotten \in 0..MaxVersion
  /\ unmarked \in BOOLEAN

Init ==
  /\ active \in Bases \cup {NoBase}
  /\ retired = FALSE
  /\ edits = 0
  /\ record = Unpublished
  /\ writer = [w \in Writers |-> Idle]
  /\ inbox = {} /\ sent = {} /\ stray = {}
  /\ memory = Factory
  /\ disk = memory
  /\ restarts = 0
  /\ forgotten = 0
  /\ unmarked = FALSE

-----------------------------------------------------------------------------
(* The console. *)

ActivateRuleSet ==
  /\ edits < MaxEdits
  /\ \E b \in (Bases \cup {NoBase}) \ {active} : active' = b
  /\ edits' = edits + 1
  /\ UNCHANGED <<retired, record, writer, netVars, edgeVars>>

RetireOrRestore ==
  /\ edits < MaxEdits
  /\ retired' = ~retired
  /\ edits' = edits + 1
  /\ UNCHANGED <<active, record, writer, netVars, edgeVars>>

-----------------------------------------------------------------------------
(* The cloud. *)

\* COALESCE: the active rule set, or else what was last published.
Base == IF active # NoBase THEN active ELSE record.doc.base

Merged == [base |-> Base, admin |-> IF retired THEN "retired" ELSE "active"]

\* Mutant of Candidate: a retired gateway is not told that it is.
Mutant_ForgetsRetired == Base # NoBase /\ ~retired /\ record.doc # Merged

\* _CANDIDATES_SQL: something safe to send, not yet sent; a retired gateway
\* is told so once and leaves the flow.
Candidate ==
  /\ Base # NoBase
  /\ ~retired \/ record.doc.admin # "retired"
  /\ record.doc # Merged

\* Mutant of Read: the pass does not take the lock.
Mutant_NoLock(w) ==
  /\ writer[w] = Idle
  /\ Candidate
  /\ record.version < MaxVersion
  /\ writer' = [writer EXCEPT ![w] =
       [pc |-> "read", msg |-> [version |-> record.version + 1, doc |-> Merged]]]
  /\ UNCHANGED <<consoleVars, record, netVars, edgeVars>>

\* The transaction opens and reads the candidates.
Read(w) ==
  /\ writer[w] = Idle
  /\ Serialised => \A v \in Writers : writer[v] = Idle
  /\ Candidate
  /\ record.version < MaxVersion
  /\ writer' = [writer EXCEPT ![w] =
       [pc |-> "read", msg |-> [version |-> record.version + 1, doc |-> Merged]]]
  /\ UNCHANGED <<consoleVars, record, netVars, edgeVars>>

Send(m) ==
  /\ inbox' = inbox \cup {m}
  /\ sent' = sent \cup {m}

\* m leaves, or left, and its transaction ends without a record of it.
Fault(m) ==
  /\ Cardinality(stray) < MaxFaults
  /\ stray' = stray \cup {m}

Publish(w) ==
  /\ writer[w].pc = "read"
  /\ Send(writer[w].msg)
  /\ UNCHANGED stray
  /\ writer' = [writer EXCEPT ![w].pc = "published"]
  /\ UNCHANGED <<consoleVars, record, edgeVars>>

\* PublishError: no row is written and the gateway stays a candidate.  The
\* error is also what a broken connection raises after the broker took it.
PublishFails(w) ==
  /\ writer[w].pc = "read"
  /\ \/ UNCHANGED netVars
     \/ Send(writer[w].msg) /\ Fault(writer[w].msg)
  /\ writer' = [writer EXCEPT ![w] = Idle]
  /\ UNCHANGED <<consoleVars, record, edgeVars>>

\* Mutant of Commit: the upsert reads the rule set again.
Mutant_RecordsCurrent(w) ==
  /\ writer[w].pc = "published"
  /\ record' = [writer[w].msg EXCEPT !.doc = Merged]
  /\ writer' = [writer EXCEPT ![w] = Idle]
  /\ UNCHANGED <<consoleVars, netVars, edgeVars>>

\* The upsert is visible when the transaction commits.
Commit(w) ==
  /\ writer[w].pc = "published"
  /\ record' = writer[w].msg
  /\ writer' = [writer EXCEPT ![w] = Idle]
  /\ UNCHANGED <<consoleVars, netVars, edgeVars>>

\* The worker dies, or a later gateway of the pass raises: rollback of all.
Rollback(w) ==
  /\ writer[w].pc = "published"
  /\ Fault(writer[w].msg)
  /\ writer' = [writer EXCEPT ![w] = Idle]
  /\ UNCHANGED <<consoleVars, record, inbox, sent, edgeVars>>

-----------------------------------------------------------------------------
(* The cabinet. *)

\* Mutant of Apply: the high water is the version expected next.
Mutant_NextVersion(m) ==
  /\ memory' = [version |-> m.version, high |-> m.version + 1, doc |-> m.doc]
  /\ disk' = memory'

\* apply_signed_update, and _persist, which may fail and says nothing.
Apply(m) ==
  /\ memory' = [version |-> m.version, high |-> m.version, doc |-> m.doc]
  /\ \/ disk' = memory'
     \/ DiskFails /\ UNCHANGED disk

\* Mutant of Deliver: the signature is enough.
Mutant_AnyVersion(m, repeated) ==
  /\ m \in inbox
  /\ inbox' = IF repeated THEN inbox ELSE inbox \ {m}
  /\ Apply(m)
  /\ UNCHANGED <<consoleVars, record, writer, sent, stray, restarts, forgotten, unmarked>>

\* A message arrives: taken above the high water, refused otherwise, and
\* refused without a trace if it does not validate.  With repeated the broker
\* keeps it, for its acknowledgement was lost.
Deliver(m, repeated) ==
  /\ m \in inbox
  /\ inbox' = IF repeated THEN inbox ELSE inbox \ {m}
  /\ IF m.version > memory.high /\ m.doc.base \notin Invalid
     THEN Apply(m)
     ELSE UNCHANGED <<memory, disk>>
  /\ UNCHANGED <<consoleVars, record, writer, sent, stray, restarts, forgotten, unmarked>>

\* What _load_cache makes of the file: all of it; its mark alone, when the key
\* was rotated or the new contract refuses the document; or nothing.
Loaded(file) ==
  CASE file = "good"       -> disk
    [] file = "ignored"    -> [Factory EXCEPT !.high = disk.high]
    [] file = "unreadable" -> Factory

\* Mutant of Restart: the mark is restored with the document, or not at all.
Mutant_MarkWithDocument(file) ==
  /\ restarts < MaxRestarts
  /\ file = "unreadable" => DiskFails
  /\ memory' = IF file = "good" THEN disk ELSE Factory
  /\ forgotten' = IF memory' = memory \/ memory.high < forgotten THEN forgotten ELSE memory.high
  /\ unmarked' = (unmarked \/ file = "unreadable" \/ disk.high < memory.high)
  /\ restarts' = restarts + 1
  /\ UNCHANGED <<consoleVars, record, writer, netVars, disk>>

Restart(file) ==
  /\ restarts < MaxRestarts
  /\ file = "unreadable" => DiskFails
  /\ memory' = Loaded(file)
  /\ forgotten' = IF memory' = memory \/ memory.high < forgotten THEN forgotten ELSE memory.high
  /\ unmarked' = (unmarked \/ file = "unreadable" \/ disk.high < memory.high)
  /\ restarts' = restarts + 1
  /\ UNCHANGED <<consoleVars, record, writer, netVars, disk>>

-----------------------------------------------------------------------------
Next ==
  \/ ActivateRuleSet \/ RetireOrRestore
  \/ \E w \in Writers :
       Read(w) \/ Publish(w) \/ PublishFails(w) \/ Commit(w) \/ Rollback(w)
  \/ \E m \in Message : Deliver(m, TRUE) \/ Deliver(m, FALSE)
  \/ \E file \in {"good", "ignored", "unreadable"} : Restart(file)

Spec == Init /\ [][Next]_vars

(***************************************************************************)
(* The worker polls every 30 s and a publication that is tried again and   *)
(* again goes through; the broker delivers what it holds.                  *)
(***************************************************************************)
Fairness ==
  /\ \A w \in Writers :
       WF_vars(Read(w)) /\ SF_vars(Publish(w)) /\ WF_vars(Commit(w))
  /\ \A m \in Message : WF_vars(Deliver(m, FALSE))

FairSpec == Spec /\ Fairness

-----------------------------------------------------------------------------
(* What sync.py:5 and :162 say of the versions: one version of a gateway   *)
(* never names two documents, for the cabinet refuses a version it has     *)
(* seen whatever it carries.                                               *)
OneDocPerVersion ==
  \A m, n \in sent : m.version = n.version => m.doc = n.doc

(* What holds of it: two documents share a version only if one of them     *)
(* left in a transaction that then failed.  (With the types of the state.) *)
SharedOnlyByStray ==
  TypeOK /\ \A m, n \in sent \ stray : m.version = n.version => m.doc = n.doc

(* Nobody publishes, nothing travels and the worker sees nothing to do:    *)
(* what the cloud then shows as in sync (queries/fleet.py) is what the     *)
(* cabinet runs, unless the document it shows is not valid, or reached the *)
(* cabinet and was lost by a restart, or its version was spent on another  *)
(* in a transaction that failed.  The next publication mends each of them. *)
Quiet == inbox = {} /\ ~Candidate /\ \A w \in Writers : writer[w] = Idle
Refused == record.doc.base \in Invalid
Forgotten == record.version \in 1..forgotten
Spent == \E m \in stray : m.version >= record.version /\ m # record
Excused == Refused \/ Forgotten \/ Spent
InSyncIsTrue ==
  Quiet => \/ (memory.version = record.version /\ memory.doc = record.doc)
           \/ Excused

(* A message never takes a cabinet back, however late or repeated: not     *)
(* even to a version a restart made it forget, for a restart that loses    *)
(* its document keeps the mark (store.py:101, 174-175), unless the file    *)
(* cannot be read or had refused the newer document.                       *)
NeverBack ==
  [][IF restarts' = restarts
     THEN memory'.version > memory.version /\ (unmarked \/ memory'.version > forgotten)
     ELSE memory'.high >= memory.high \/ unmarked']_memory

(* Whatever the console ends up asking for reaches the cabinet; a retired  *)
(* gateway learns that it is retired (sync.py:60-68).  Excused as above.   *)
Settled ==
  Base # NoBase =>
    IF retired THEN memory.doc.admin = "retired" ELSE memory.doc = Merged
ReachesTheCabinet == <>[](Settled \/ Excused)
=============================================================================
