------------------------------ MODULE CloudSpool ------------------------------
(***************************************************************************)
(* The way out of the cabinet: CloudConnector with its DurableSpool        *)
(* (edge/takab_edge/cloud) and the block route of BackfillManager          *)
(* (edge/takab_edge/backfill).                                             *)
(*                                                                         *)
(* Callers of publish only write a file and append to a queue.  Whoever    *)
(* holds the flush lock takes the head OUT of the queue, waits for the     *)
(* broker with no lock held, and then removes the file or puts the head    *)
(* back; meanwhile others publish, old telemetry is evicted, and another   *)
(* thread may upload the queue it peeked at to S3 and drop it.             *)
(*                                                                         *)
(* The age of a record is abstracted to whether it is past the threshold   *)
(* of the block route; payloads to their identity.  The deque is the set   *)
(* of its records and which of them are ahead of which, so that what an    *)
(* eviction or a block upload leaves of a queue of any length is a         *)
(* restriction of both, and no induction is needed to reason about it.     *)
(***************************************************************************)
EXTENDS Integers, FiniteSets

CONSTANTS
  Events,      (* topics without cap, deduplicated by identity            *)
  Telemetry,   (* one capped topic, replaceable, without identity         *)
  Cap,         (* topic_caps of that topic                                *)
  DiskFails,   (* writing or removing a file may fail                     *)
  MaxNames,    (* bound: highest counter in a file name                   *)
  MaxCrashes,  (* bound: power cuts                                       *)
  MaxLost      (* bound: lost, in one life of the process                 *)

Message == Events \cup Telemetry
Name    == 1..MaxNames

\* A queued record; durable tells whether its name is a file (or None).
Record  == [name : Name, msg : Message, durable : BOOLEAN]
None    == [name |-> 0]

ASSUME MessageAssumption == Events \cap Telemetry = {}
ASSUME BoundsAssumption ==
  /\ Cap \in Nat /\ MaxNames \in Nat /\ MaxCrashes \in Nat /\ MaxLost \in Nat
  /\ DiskFails \in BOOLEAN

VARIABLES
  up,         (* the process runs                                        *)
  queue,      (* the records in _queue                                   *)
  ahead,      (* pairs of them: the first is nearer the head             *)
  count,      (* _topic_counts of the capped topic                       *)
  disk,       (* the *.json files of the spool                           *)
  counter,    (* DurableSpool._counter                                   *)
  seen,       (* _seen                                                   *)
  drain,      (* progress of whoever holds _flush_lock                   *)
  flight,     (* the record it took out of the queue                     *)
  online,     (* the transport believes it is connected                  *)
  upload,     (* progress of the S3 upload, _in_progress unless idle     *)
  batch,      (* what it peeked at                                       *)
  cooldown,   (* the last upload failed less than a minute ago           *)
  aged,       (* names spooled longer ago than the threshold             *)
  crashes,
  accepted,   (* history: events whose publish wrote a file              *)
  delivered,  (* history: messages the cloud has, by either route        *)
  lost        (* history: queued measures that refused drops left uncounted *)

queueVars  == <<queue, ahead, count, lost>>
spoolVars  == <<queueVars, disk, counter, seen, accepted, up>>
drainVars  == <<drain, flight>>
uploadVars == <<upload, batch, cooldown>>
vars == <<spoolVars, drainVars, uploadVars, online, aged, crashes, delivered>>

InFlight == IF flight = None THEN {} ELSE {flight}

Measures(q) == {r \in q : r.msg \in Telemetry}
Counted(q)  == Cardinality(Measures(q))

Init ==
  /\ up = TRUE
  /\ queue = {} /\ ahead = {} /\ count = 0 /\ lost = 0
  /\ disk = {} /\ counter = 0 /\ seen = {}
  /\ drain = "idle" /\ flight = None
  /\ online = FALSE
  /\ upload = "idle" /\ batch = {} /\ cooldown = FALSE
  /\ aged = {} /\ crashes = 0
  /\ accepted = {} /\ delivered = {}

-----------------------------------------------------------------------------
(***************************************************************************)
(* Publishing.                                                             *)
(***************************************************************************)

\* The queue becomes q, in that order.
QueueIs(q, order) == queue' = q /\ ahead' = order \cap (q \X q)

\* Mutant of Excess: the newest record is let over the cap.
Mutant_CapOffByOne(held) == IF held > Cap + 1 THEN held - (Cap + 1) ELSE 0

\* How many measures leave a queue whose counter says held.
Excess(held) == IF held > Cap THEN held - Cap ELSE 0

\* What _evict_over_cap takes out of q, the oldest measures, and the files it leaves
\* behind: it goes by the counter, and stops at the first file it cannot remove, whose
\* record is out of the queue by then.
Oldest(q, order, held, gone, left) ==
  /\ gone \subseteq Measures(q)
  /\ \A r \in gone, s \in Measures(q) \ gone : <<r, s>> \in order
  /\ \/ left = {} /\ Cardinality(gone) = Excess(held)
     \/ /\ DiskFails
        /\ Cardinality(gone) <= Excess(held)
        /\ \E r \in gone : /\ r.durable
                           /\ \A s \in gone \ {r} : <<s, r>> \in order
                           /\ left = {r}

\* An identical re-publication returns without a trace, hence the second guard.  Only a
\* topic with a cap is evicted, after a record of its own; a refused removal leaves
\* publish by an exception, with everything before it done.
Publish(m, written) ==
  /\ up
  /\ m \notin seen
  /\ counter < MaxNames
  /\ written \/ DiskFails
  /\ counter' = counter + 1
  /\ LET r == [name |-> counter + 1, msg |-> m, durable |-> written]
         q == queue \cup {r}
         order == ahead \cup (queue \X {r})
         held == count + Counted({r})
     IN  \E gone, left \in SUBSET Measures(q) :
           /\ IF m \in Telemetry THEN Oldest(q, order, held, gone, left)
                                 ELSE gone = {} /\ left = {}
           /\ QueueIs(q \ gone, order)
           /\ count' = held - Cardinality(gone)
           /\ disk' = (disk \cup (IF written THEN {r} ELSE {})) \ (gone \ left)
  /\ seen' = seen \cup ({m} \cap Events)
  /\ accepted' = accepted \cup (IF written THEN {m} \cap Events ELSE {})
  /\ aged' = aged \ {counter + 1}
  /\ UNCHANGED <<up, lost, drainVars, uploadVars, online, crashes, delivered>>

-----------------------------------------------------------------------------
(***************************************************************************)
(* flush.                                                                  *)
(***************************************************************************)

\* should_take: the queue goes by S3, or an upload is under way.
OldQueue == \E r \in queue : r.name \in aged
RouterTakes == upload # "idle" \/ (~cooldown /\ OldQueue)

FlushStarts ==
  /\ online
  /\ ~RouterTakes
  /\ drain = "idle"
  /\ drain' = "loop"
  /\ UNCHANGED <<spoolVars, flight, uploadVars, online, aged, crashes, delivered>>

QueueEmpty ==
  /\ drain = "loop"
  /\ queue = {}
  /\ drain' = "idle"
  /\ UNCHANGED <<spoolVars, flight, uploadVars, online, aged, crashes, delivered>>

IsHead(r) == \A s \in queue \ {r} : <<r, s>> \in ahead

\* Mutant of TakeHead: the file goes before the broker confirms.
Mutant_RemovesFirst ==
  /\ drain = "loop"
  /\ drain' = "sending"
  /\ \E r \in queue : /\ IsHead(r)
                     /\ flight' = r
                     /\ QueueIs(queue \ {r}, ahead)
                     /\ count' = count - Counted({r})
                     /\ disk' = disk \ {r}
  /\ UNCHANGED <<up, lost, counter, seen, accepted, uploadVars, online, aged, crashes,
                 delivered>>

TakeHead ==
  /\ drain = "loop"
  /\ drain' = "sending"
  /\ \E r \in queue : /\ IsHead(r)
                     /\ flight' = r
                     /\ QueueIs(queue \ {r}, ahead)
                     /\ count' = count - Counted({r})
  /\ UNCHANGED <<up, lost, disk, counter, seen, accepted, uploadVars, online, aged,
                 crashes, delivered>>

\* PUBACK.
BrokerConfirms ==
  /\ drain = "sending"
  /\ online
  /\ drain' = "acked"
  /\ delivered' = delivered \cup {flight.msg}
  /\ UNCHANGED <<spoolVars, flight, uploadVars, online, aged, crashes>>

\* Mutants of BrokerFails: the record goes back to the tail; or uncounted; or nowhere.
Mutant_BackToTail(arrived) ==
  /\ drain = "sending"
  /\ drain' = "idle"
  /\ delivered' = delivered \cup (IF arrived THEN {flight.msg} ELSE {})
  /\ QueueIs(queue \cup {flight}, ahead \cup (queue \X {flight}))
  /\ count' = count + Counted({flight})
  /\ flight' = None
  /\ UNCHANGED <<up, lost, disk, counter, seen, accepted, uploadVars, online, aged, crashes>>

Mutant_ReturnUncounted(arrived) ==
  /\ drain = "sending"
  /\ drain' = "idle"
  /\ delivered' = delivered \cup (IF arrived THEN {flight.msg} ELSE {})
  /\ QueueIs(queue \cup {flight}, ahead \cup ({flight} \X queue))
  /\ flight' = None
  /\ UNCHANGED <<up, count, lost, disk, counter, seen, accepted, uploadVars, online, aged,
                 crashes>>

Mutant_WaitsForBoot(arrived) ==
  /\ drain = "sending"
  /\ drain' = "idle"
  /\ delivered' = delivered \cup (IF arrived THEN {flight.msg} ELSE {})
  /\ flight' = None
  /\ UNCHANGED <<spoolVars, uploadVars, online, aged, crashes>>

\* No PUBACK in time: the broker may have the message all the same.
BrokerFails(arrived) ==
  /\ drain = "sending"
  /\ drain' = "idle"
  /\ delivered' = delivered \cup (IF arrived THEN {flight.msg} ELSE {})
  /\ QueueIs(queue \cup {flight}, ahead \cup ({flight} \X queue))
  /\ count' = count + Counted({flight})
  /\ flight' = None
  /\ UNCHANGED <<up, lost, disk, counter, seen, accepted, uploadVars, online, aged, crashes>>

\* A file that cannot be removed ends the flush with an exception.
FileRemoved(ok) ==
  /\ drain = "acked"
  /\ ok \/ (DiskFails /\ flight.durable)
  /\ disk' = IF ok THEN disk \ {flight} ELSE disk
  /\ drain' = IF ok THEN "loop" ELSE "idle"
  /\ flight' = None
  /\ UNCHANGED <<up, queueVars, counter, seen, accepted, uploadVars, online, aged,
                 crashes, delivered>>

-----------------------------------------------------------------------------
(***************************************************************************)
(* The block route: kick, peek_spool, grant and PUT, drop_spool.           *)
(***************************************************************************)
Kick ==
  /\ online
  /\ upload = "idle"
  /\ ~cooldown /\ OldQueue
  /\ upload' = "asked"
  /\ UNCHANGED <<spoolVars, drainVars, batch, cooldown, online, aged, crashes,
                 delivered>>

Peek ==
  /\ upload = "asked"
  /\ batch' = queue
  /\ upload' = IF queue = {} THEN "idle" ELSE "peeked"
  /\ UNCHANGED <<spoolVars, drainVars, cooldown, online, aged, crashes, delivered>>

ObjectStored ==
  /\ upload = "peeked"
  /\ upload' = "stored"
  /\ delivered' = delivered \cup {r.msg : r \in batch}
  /\ UNCHANGED <<spoolVars, drainVars, batch, cooldown, online, aged, crashes>>

\* Mutant of UploadFails: no cooldown, the router takes the queue again.
Mutant_NoCooldown(arrived) ==
  /\ upload = "peeked"
  /\ upload' = "idle"
  /\ delivered' = delivered \cup (IF arrived THEN {r.msg : r \in batch} ELSE {})
  /\ batch' = {}
  /\ UNCHANGED <<spoolVars, drainVars, cooldown, online, aged, crashes>>

\* No grant, or a PUT that failed or whose answer was lost.
UploadFails(arrived) ==
  /\ upload = "peeked"
  /\ upload' = "idle"
  /\ cooldown' = TRUE
  /\ delivered' = delivered \cup (IF arrived THEN {r.msg : r \in batch} ELSE {})
  /\ batch' = {}
  /\ UNCHANGED <<spoolVars, drainVars, online, aged, crashes>>

\* Mutant of DropSpool: the queue is cleared, with what came during the upload.
Mutant_ClearsQueue ==
  /\ upload = "stored"
  /\ upload' = "idle"
  /\ batch' = {}
  /\ QueueIs({}, {})
  /\ count' = 0
  /\ disk' = disk \ queue
  /\ UNCHANGED <<up, lost, counter, seen, accepted, drainVars, cooldown, online, aged,
                 crashes, delivered>>

\* drop_spool goes by file name: a record that only lives in memory stays.
Dropped == {r \in batch \cap queue : r.durable}

DropSpool ==
  /\ upload = "stored"
  /\ upload' = "idle"
  /\ batch' = {}
  /\ QueueIs(queue \ Dropped, ahead)
  /\ count' = count - Counted(Dropped)
  /\ disk' = disk \ Dropped
  /\ UNCHANGED <<up, lost, counter, seen, accepted, drainVars, cooldown, online, aged,
                 crashes, delivered>>

\* A file cannot be removed: the records up to it are counted out, the files before it
\* are gone, and the exception comes before the queue is replaced.
DropRefused ==
  /\ upload = "stored"
  /\ DiskFails
  /\ upload' = "idle"
  /\ batch' = {}
  /\ cooldown' = TRUE
  /\ \E r \in Dropped :
       LET before == {s \in Dropped : <<s, r>> \in ahead}
           out == Counted(before \cup {r})
       IN  /\ lost + out <= MaxLost
           /\ count' = count - out
           /\ lost' = lost + out
           /\ disk' = disk \ before
  /\ UNCHANGED <<up, queue, ahead, counter, seen, accepted, drainVars, online, aged,
                 crashes, delivered>>

-----------------------------------------------------------------------------
(***************************************************************************)
(* Time, link and power.                                                   *)
(***************************************************************************)
RecordAges ==
  /\ \E r \in queue : r.name \notin aged /\ aged' = aged \cup {r.name}
  /\ UNCHANGED <<spoolVars, drainVars, uploadVars, online, crashes, delivered>>

CooldownEnds ==
  /\ cooldown
  /\ cooldown' = FALSE
  /\ UNCHANGED <<spoolVars, drainVars, upload, batch, online, aged, crashes,
                 delivered>>

LinkChanges ==
  /\ up
  /\ online' = ~online
  /\ UNCHANGED <<spoolVars, drainVars, uploadVars, aged, crashes, delivered>>

\* What load finds: the files in the order of their names, whose last is the counter.
Loaded == {p \in disk \X disk : p[1].name < p[2].name}
LastName == IF disk = {} THEN {0}
            ELSE {r.name : r \in {x \in disk : \A y \in disk : y.name <= x.name}}

\* Mutant of Restart: the deduplication does not learn what is on disk.
Mutant_RestartUnseen(gone) ==
  /\ ~up
  /\ Oldest(disk, Loaded, Counted(disk), gone, {})
  /\ up' = TRUE
  /\ QueueIs(disk \ gone, Loaded)
  /\ count' = Counted(disk) - Cardinality(gone)
  /\ disk' = disk \ gone
  /\ counter' \in LastName
  /\ UNCHANGED <<seen, lost, drainVars, uploadVars, online, aged, crashes, accepted,
                 delivered>>

\* The memory goes, whatever was under way.
PowerCut ==
  /\ up
  /\ crashes < MaxCrashes
  /\ crashes' = crashes + 1
  /\ up' = FALSE
  /\ queue' = {} /\ ahead' = {} /\ count' = 0 /\ lost' = 0 /\ seen' = {}
  /\ drain' = "idle" /\ flight' = None
  /\ online' = FALSE
  /\ upload' = "idle" /\ batch' = {} /\ cooldown' = FALSE
  /\ UNCHANGED <<disk, counter, aged, accepted, delivered>>

Restart(gone) ==
  /\ ~up
  /\ Oldest(disk, Loaded, Counted(disk), gone, {})
  /\ up' = TRUE
  /\ QueueIs(disk \ gone, Loaded)
  /\ count' = Counted(disk) - Cardinality(gone)
  /\ disk' = disk \ gone
  /\ counter' \in LastName
  /\ seen' = {r.msg : r \in disk} \cap Events
  /\ UNCHANGED <<lost, drainVars, uploadVars, online, aged, crashes, accepted, delivered>>

\* A measure over the cap that cannot be removed leaves the constructor by an
\* exception: the cabinet does not start.
BootDies(gone, left) ==
  /\ ~up
  /\ left # {}
  /\ Oldest(disk, Loaded, Counted(disk), gone, left)
  /\ disk' = disk \ (gone \ left)
  /\ UNCHANGED <<up, queueVars, counter, seen, accepted, drainVars, uploadVars, online,
                 aged, crashes, delivered>>

Boot ==
  \E gone \in SUBSET Measures(disk) :
    Restart(gone) \/ \E left \in SUBSET gone : BootDies(gone, left)

-----------------------------------------------------------------------------
Drain ==
  QueueEmpty \/ TakeHead \/ BrokerConfirms
  \/ (\E b \in BOOLEAN : BrokerFails(b)) \/ \E b \in BOOLEAN : FileRemoved(b)

Block ==
  Peek \/ ObjectStored \/ DropSpool \/ DropRefused \/ \E b \in BOOLEAN : UploadFails(b)

Next ==
  \/ \E m \in Message, written \in BOOLEAN : Publish(m, written)
  \/ FlushStarts \/ Drain
  \/ Kick \/ Block
  \/ RecordAges \/ CooldownEnds \/ LinkChanges
  \/ PowerCut \/ Boot

Spec == Init /\ [][Next]_vars

(***************************************************************************)
(* The cloud thread calls flush for ever; a flush and an upload, once      *)
(* begun, finish; the minute of cooldown leaves room for the flush the     *)
(* upload thread itself makes at once; a link that stays up acknowledges   *)
(* some retry.                                                             *)
(***************************************************************************)
Fairness ==
  /\ WF_vars(Drain) /\ WF_vars(Block) /\ WF_vars(Kick)
  /\ SF_vars(FlushStarts) /\ SF_vars(BrokerConfirms)

FairSpec == Spec /\ Fairness

-----------------------------------------------------------------------------
TypeOK ==
  /\ up \in BOOLEAN
  /\ queue \subseteq Record /\ ahead \subseteq queue \X queue /\ disk \subseteq Record
  /\ count \in Int /\ lost \in 0..MaxLost
  /\ counter \in 0..MaxNames /\ seen \subseteq Events
  /\ drain \in {"idle", "loop", "sending", "acked"}
  /\ flight \in Record \cup {None}
  /\ online \in BOOLEAN /\ cooldown \in BOOLEAN
  /\ upload \in {"idle", "asked", "peeked", "stored"}
  /\ batch \subseteq Record /\ aged \subseteq Name
  /\ crashes \in 0..MaxCrashes
  /\ accepted \subseteq Events /\ delivered \subseteq Message

\* Zero loss: an event publish wrote to disk is in the cloud or still on disk,
\* whatever the drain, the upload, the eviction and the power cuts did.
NoLoss == \A m \in accepted : m \in delivered \/ \E r \in disk : r.msg = m

\* And it is not forgotten there: while the process runs somebody holds it in memory,
\* so it does not wait for the next boot to leave.  Files that nobody holds there are,
\* of measures whose eviction could not remove them; no event is among them.
OwedIsHeld ==
  up => \A r \in disk :
          r.msg \in Events => r.msg \in delivered \/ r \in queue \cup InFlight

\* Retries, evictions, block uploads and boots keep the order of publication: the
\* record in flight goes back before every other.  And one event travels once per
\* life of the process: there are never two records of it.
OneCopyInOrder ==
  /\ \A r, s \in queue : /\ r.name = s.name => r = s
                         /\ <<r, s>> \in ahead <=> r.name < s.name
  /\ \A r \in InFlight, s \in queue : r.name < s.name
  /\ \A r, s \in queue \cup InFlight \cup disk :
       r.msg \in Events /\ r.msg = s.msg => r = s

\* The cap of replaceable telemetry: one more than the cap at most, because the record
\* that was in flight came back, and as many more as drops the disk refused have left in
\* the queue without counting them.  (With the types of the state.)
TelemetryBounded ==
  TypeOK /\ Counted(queue) <= Cap + 1 + lost

\* The events that a power cut would leave, those it would not, and those that arrived.
Owed == {r.msg : r \in disk} \cap Events
Fragile == {r.msg : r \in {q \in queue \cup InFlight : ~q.durable}} \cap Events
Got == delivered \cap Events

\* The detailed connector implements the promise of DurableOutbox.
Outbox == INSTANCE DurableOutbox WITH
  Messages <- Events, owed <- Owed, fragile <- Fragile, got <- Got

OutboxSpec == Outbox!Spec

\* With a link that stays up, everything published leaves the cabinet: the block
\* route gives the queue back to MQTT.
NothingIsStuck ==
  <>[]online => []<>(queue = {} /\ flight = None)

=============================================================================
