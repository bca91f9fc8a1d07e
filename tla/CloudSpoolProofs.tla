--------------------------- MODULE CloudSpoolProofs ---------------------------
(***************************************************************************)
(* What the spool keeps, for every set of messages, every cap, every       *)
(* number of power cuts and a disk that may refuse any write or removal.   *)
(***************************************************************************)
EXTENDS CloudSpool, FiniteSetTheorems, TLAPS

\* The records of which the process knows.
Memory == queue \cup InFlight
Records == Memory \cup disk

-----------------------------------------------------------------------------
\* The inductive invariant.

\* A flush has one record in flight, from the head until its file is removed.
FlightIsNoted == drain \in {"sending", "acked"} <=> flight # None

\* While the process is down it holds nothing.
DownIsEmpty == ~up => queue = {} /\ flight = None /\ lost = 0

\* Files and memory: what is in memory with a file has it on disk, or arrived.
FilesAreReal ==
  /\ \A r \in disk : r.durable
  /\ \A r \in Memory : r.durable => r \in disk \/ r.msg \in delivered
  /\ IsFiniteSet(disk) /\ IsFiniteSet(queue)

\* A name is of one record, and counters only give names that nobody has.
NamesAreUnique ==
  /\ \A r \in Records : r.name <= counter
  /\ \A r, s \in Records : r.name = s.name => r = s

\* The queue is in the order of the names, and the record in flight ahead of it.
InOrder ==
  /\ \A r, s \in queue : <<r, s>> \in ahead <=> r.name < s.name
  /\ \A r \in InFlight, s \in queue : r.name < s.name

\* The deduplication knows every event there is, so there are no two records of one.
EventsAreSeen ==
  /\ up => \A r \in Records : r.msg \in Events => r.msg \in seen
  /\ \A r, s \in Records : r.msg \in Events /\ r.msg = s.msg => r = s

\* The two places that forget a record know that it arrived: the flush after the
\* PUBACK, the block route after the object was stored.
AckedIsDelivered  == drain = "acked" => flight.msg \in delivered
StoredIsDelivered == upload = "stored" => \A r \in batch : r.msg \in delivered

\* An event of the batch is still in memory, or arrived by the other route.
BatchIsKnown ==
  \A r \in batch : r.msg \in Events => r.msg \in delivered \/ r \in Memory

\* The counter of the cap is behind the queue by what refused drops left uncounted, so it
\* is never above it, and its resynchronisation has nothing to do.
CountIsBehind == count = Counted(queue) - lost

\* A measure in flight left room in the queue for its return.
RoomForTheReturn == Counted(queue) + Counted(InFlight) <= Cap + 1 + lost

IInv ==
  /\ TypeOK
  /\ FlightIsNoted /\ DownIsEmpty /\ FilesAreReal /\ NamesAreUnique /\ InOrder
  /\ EventsAreSeen /\ AckedIsDelivered /\ StoredIsDelivered /\ BatchIsKnown
  /\ NoLoss /\ OwedIsHeld /\ CountIsBehind /\ RoomForTheReturn

-----------------------------------------------------------------------------
\* Lemmas on records and measures.

\* What is in flight, and that its record is not in the queue.
LEMMA Flight ==
  ASSUME IInv
  PROVE  /\ InFlight \subseteq Record /\ Records \subseteq Record
         /\ flight = None => InFlight = {}
         /\ flight # None => InFlight = {flight} /\ flight \in Record
         /\ InFlight \cap queue = {}
<1>1. flight # None => InFlight = {flight} /\ flight \in Record
  BY DEF InFlight, IInv, TypeOK
<1>2. flight = None => InFlight = {}
  BY DEF InFlight
<1>3. \A r \in Record : r.name \in Nat
  BY DEF Record, Name
<1>4. InFlight \cap queue = {}
  BY <1>3 DEF IInv, TypeOK, InOrder
<1>5. QED
  BY <1>1, <1>2, <1>4 DEF Records, Memory, IInv, TypeOK

\* A record is no gap in the flight, and an event is no measure.
LEMMA Recorded ==
  ASSUME NEW r \in Record
  PROVE  /\ r # None /\ r.name \in Nat \ {0} /\ r.name <= MaxNames /\ r.name \in Name
         /\ r.msg \in Message /\ r.durable \in BOOLEAN
         /\ r.msg \in Events \/ r.msg \in Telemetry
         /\ ~(r.msg \in Events /\ r.msg \in Telemetry)
  BY MessageAssumption, BoundsAssumption DEF Record, None, Name, Message

\* Fewer records, fewer measures.
LEMMA FewerMeasures ==
  ASSUME NEW q, NEW p, p \subseteq q, IsFiniteSet(q)
  PROVE  /\ IsFiniteSet(p) /\ IsFiniteSet(Measures(p)) /\ IsFiniteSet(Measures(q))
         /\ Counted(p) \in Nat /\ Counted(q) \in Nat
         /\ Counted(p) <= Counted(q)
<1>1. Measures(p) \subseteq Measures(q) /\ Measures(q) \subseteq q /\ Measures(p) \subseteq p
  BY DEF Measures
<1>2. QED
  BY <1>1, FS_Subset, FS_CardinalityType DEF Counted

\* None, no measure.
LEMMA NoMeasure == Measures({}) = {} /\ Counted({}) = 0
BY FS_EmptySet DEF Measures, Counted

\* One record is one measure, or none.
LEMMA OneMeasure ==
  ASSUME NEW r
  PROVE  /\ IsFiniteSet({r}) /\ Counted({r}) \in Nat
         /\ Counted({r}) = IF r.msg \in Telemetry THEN 1 ELSE 0
<1>1. IsFiniteSet({r}) /\ Cardinality({r}) = 1 /\ Cardinality({}) = 0
  BY FS_Singleton, FS_EmptySet
<1>2. Measures({r}) = IF r.msg \in Telemetry THEN {r} ELSE {}
  BY DEF Measures
<1>3. QED
  BY <1>1, <1>2 DEF Counted

\* One record more is one measure more, or none.
LEMMA OneMore ==
  ASSUME NEW q, IsFiniteSet(q), NEW r, r \notin q
  PROVE  /\ IsFiniteSet(q \cup {r})
         /\ Counted(q \cup {r}) = Counted(q) + Counted({r})
<1>1. IsFiniteSet(q \cup {r})
  BY FS_AddElement
<1>2. IsFiniteSet(Measures(q)) /\ Counted(q) \in Nat
  BY FewerMeasures
<1>3. CASE r.msg \in Telemetry
  <2>1. Measures(q \cup {r}) = Measures(q) \cup {r} /\ r \notin Measures(q)
    BY <1>3 DEF Measures
  <2>2. Cardinality(Measures(q) \cup {r}) = Cardinality(Measures(q)) + 1
    BY <1>2, <2>1, FS_AddElement
  <2>3. QED
    BY <1>1, <1>3, <2>1, <2>2, OneMeasure DEF Counted
<1>4. CASE r.msg \notin Telemetry
  <2>1. Measures(q \cup {r}) = Measures(q)
    BY <1>4 DEF Measures
  <2>2. QED
    BY <1>1, <1>2, <1>4, <2>1, OneMeasure DEF Counted
<1>5. QED
  BY <1>3, <1>4

\* At most one measure is in flight.
LEMMA OneInFlight == Counted(InFlight) \in Nat /\ Counted(InFlight) <= 1
<1>1. CASE InFlight = {}
  BY <1>1, NoMeasure
<1>2. CASE InFlight = {flight}
  <2>1. /\ Counted({flight}) \in Nat
        /\ Counted({flight}) = IF flight.msg \in Telemetry THEN 1 ELSE 0
    BY OneMeasure
  <2>2. QED
    BY <1>2, <2>1
<1>3. QED
  BY <1>1, <1>2 DEF InFlight

\* What leaves a queue is no longer counted in it.
LEMMA WhatIsLeft ==
  ASSUME NEW q, IsFiniteSet(q), NEW p, p \subseteq q
  PROVE  /\ Counted(q \ p) = Counted(q) - Counted(p)
         /\ Counted(p) \in Nat /\ Counted(q) \in Nat /\ Counted(q \ p) \in Nat
<1>1. /\ Measures(q \ p) = Measures(q) \ Measures(p)
      /\ Measures(q) \cap Measures(p) = Measures(p)
  BY DEF Measures
<1>2. /\ IsFiniteSet(Measures(q)) /\ Counted(p) \in Nat /\ Counted(q) \in Nat
      /\ Counted(q \ p) \in Nat
  <2>1. q \ p \subseteq q
    OBVIOUS
  <2>2. QED
    BY <2>1, FewerMeasures
<1>3. Cardinality(Measures(q) \ Measures(p))
        = Cardinality(Measures(q)) - Cardinality(Measures(q) \cap Measures(p))
  BY <1>2, FS_Difference
<1>4. QED
  BY <1>1, <1>2, <1>3 DEF Counted

\* An eviction takes measures, counts what it takes, and leaves what the counter sees
\* within the cap; a refused one has taken a measure all the same.
LEMMA OldestIsCounted ==
  ASSUME NEW q, IsFiniteSet(q), NEW order, NEW held \in Int, NEW gone, NEW left,
         Oldest(q, order, held, gone, left)
  PROVE  /\ gone \subseteq Measures(q) /\ left \subseteq gone
         /\ Counted(q \ gone) = Counted(q) - Cardinality(gone)
         /\ Counted(q \ gone) \in Nat /\ Counted(q) \in Nat /\ Cardinality(gone) \in Nat
         /\ left = {} => Cardinality(gone) = Excess(held)
         /\ left # {} => Cardinality(gone) >= 1
<1>1. gone \subseteq q /\ Measures(gone) = gone /\ gone \subseteq Measures(q)
  BY DEF Oldest, Measures
<1>2. /\ Counted(q \ gone) = Counted(q) - Cardinality(gone)
      /\ Cardinality(gone) \in Nat /\ Counted(q) \in Nat /\ Counted(q \ gone) \in Nat
  BY <1>1, WhatIsLeft DEF Counted
<1>3. left # {} => Cardinality(gone) >= 1
  <2> SUFFICES ASSUME left # {} PROVE Cardinality(gone) # 0
    BY <1>2
  <2>1. gone # {}
    BY DEF Oldest
  <2>2. IsFiniteSet(gone)
    BY <1>1, FS_Subset
  <2>3. QED
    BY <2>1, <2>2, FS_EmptySet
<1>4. left = {} => Cardinality(gone) = Excess(held)
  BY DEF Oldest
<1>5. left \subseteq gone
  BY DEF Oldest
<1>6. QED
  BY <1>1, <1>2, <1>3, <1>4, <1>5

-----------------------------------------------------------------------------
\* The steps.

\* Names and the deduplication stand when nothing new comes.
LEMMA Shrinks ==
  ASSUME IInv, Records' \subseteq Records, seen' = seen, counter' = counter, up' = up
  PROVE  NamesAreUnique' /\ EventsAreSeen'
BY DEF IInv, NamesAreUnique, EventsAreSeen

\* At the first boot there are no records.
LEMMA Begins == Init => IInv
<1> SUFFICES ASSUME Init PROVE IInv
  OBVIOUS
<1>1. /\ queue = {} /\ ahead = {} /\ disk = {} /\ flight = None /\ InFlight = {}
      /\ batch = {} /\ accepted = {} /\ Memory = {} /\ Records = {}
  BY DEF Init, InFlight, Memory, Records
<1>2. TypeOK
  <2>1. counter \in 0..MaxNames /\ crashes \in 0..MaxCrashes /\ lost \in 0..MaxLost
    BY BoundsAssumption DEF Init
  <2>2. /\ drain \in {"idle", "loop", "sending", "acked"}
        /\ upload \in {"idle", "asked", "peeked", "stored"}
        /\ online \in BOOLEAN /\ cooldown \in BOOLEAN
    BY DEF Init
  <2>3. seen = {} /\ aged = {} /\ delivered = {} /\ up \in BOOLEAN /\ count \in Int
    BY DEF Init
  <2>4. QED
    BY <1>1, <2>1, <2>2, <2>3 DEF TypeOK
<1>3. FlightIsNoted /\ AckedIsDelivered /\ StoredIsDelivered /\ DownIsEmpty
  BY <1>1 DEF Init, FlightIsNoted, AckedIsDelivered, StoredIsDelivered, DownIsEmpty
<1>4. FilesAreReal
  BY <1>1, FS_EmptySet DEF FilesAreReal
<1>5. CountIsBehind /\ RoomForTheReturn
  BY <1>1, NoMeasure, BoundsAssumption DEF Init, CountIsBehind, RoomForTheReturn
<1>6. QED
  BY <1>1, <1>2, <1>3, <1>4, <1>5
     DEF IInv, NamesAreUnique, InOrder, EventsAreSeen, BatchIsKnown, NoLoss, OwedIsHeld

\* What a step that moves no record keeps.
LEMMA Quiet ==
  ASSUME IInv, UNCHANGED <<spoolVars, flight>>, delivered \subseteq delivered'
  PROVE  /\ (FilesAreReal /\ NamesAreUnique /\ InOrder /\ EventsAreSeen)'
         /\ (NoLoss /\ OwedIsHeld /\ CountIsBehind /\ RoomForTheReturn /\ DownIsEmpty)'
         /\ Memory' = Memory /\ InFlight' = InFlight
<1>1. /\ UNCHANGED <<queue, ahead, count, lost, disk, counter, seen, accepted, up, flight>>
      /\ Memory' = Memory /\ InFlight' = InFlight /\ Records' = Records
  BY DEF spoolVars, queueVars, InFlight, Memory, Records
<1>2. NamesAreUnique' /\ EventsAreSeen'
  BY <1>1, Shrinks
<1>3. FilesAreReal' /\ InOrder'
  BY <1>1 DEF IInv, FilesAreReal, InOrder
<1>4. NoLoss' /\ OwedIsHeld' /\ CountIsBehind' /\ RoomForTheReturn' /\ DownIsEmpty'
  BY <1>1 DEF IInv, NoLoss, OwedIsHeld, CountIsBehind, RoomForTheReturn, DownIsEmpty
<1>5. QED
  BY <1>1, <1>2, <1>3, <1>4

\* The steps of the flush, of the link and of the block route that move no record.
LEMMA QuietStep ==
  ASSUME IInv,
         \/ FlushStarts \/ QueueEmpty \/ BrokerConfirms
         \/ Kick \/ Peek \/ ObjectStored \/ \E b \in BOOLEAN : UploadFails(b)
         \/ RecordAges \/ CooldownEnds \/ LinkChanges \/ UNCHANGED vars
  PROVE  IInv'
<1>1. UNCHANGED <<spoolVars, flight, crashes>> /\ delivered \subseteq delivered'
  BY DEF FlushStarts, QueueEmpty, BrokerConfirms, Kick, Peek, ObjectStored, UploadFails,
         RecordAges, CooldownEnds, LinkChanges, vars, drainVars
<1>2. /\ (FilesAreReal /\ NamesAreUnique /\ InOrder /\ EventsAreSeen)'
      /\ (NoLoss /\ OwedIsHeld /\ CountIsBehind /\ RoomForTheReturn /\ DownIsEmpty)'
      /\ Memory' = Memory /\ InFlight' = InFlight
  BY <1>1, Quiet
<1>3. UNCHANGED <<queue, ahead, count, lost, disk, counter, seen, accepted, up>>
  BY <1>1 DEF spoolVars, queueVars
<1>4. TypeOK'
  <2>1. delivered' \subseteq Message
    BY DEF FlushStarts, QueueEmpty, BrokerConfirms, Kick, Peek, ObjectStored,
           UploadFails, RecordAges, CooldownEnds, LinkChanges, vars, IInv, TypeOK,
           Record, FlightIsNoted
  <2>2. aged' \subseteq Name /\ batch' \subseteq Record
    BY DEF FlushStarts, QueueEmpty, BrokerConfirms, Kick, Peek, ObjectStored,
           UploadFails, RecordAges, CooldownEnds, LinkChanges, vars, uploadVars, IInv,
           TypeOK, Record
  <2>3. /\ drain' \in {"idle", "loop", "sending", "acked"}
        /\ upload' \in {"idle", "asked", "peeked", "stored"}
        /\ online' \in BOOLEAN /\ cooldown' \in BOOLEAN
    BY DEF FlushStarts, QueueEmpty, BrokerConfirms, Kick, Peek, ObjectStored, UploadFails,
           RecordAges, CooldownEnds, LinkChanges, vars, drainVars, uploadVars, IInv, TypeOK
  <2>4. QED
    BY <1>1, <1>3, <2>1, <2>2, <2>3 DEF IInv, TypeOK
<1>5. FlightIsNoted' /\ AckedIsDelivered'
  BY DEF FlushStarts, QueueEmpty, BrokerConfirms, Kick, Peek, ObjectStored, UploadFails,
         RecordAges, CooldownEnds, LinkChanges, vars, drainVars, IInv, FlightIsNoted,
         AckedIsDelivered
<1>6. StoredIsDelivered'
  BY DEF FlushStarts, QueueEmpty, BrokerConfirms, Kick, Peek, ObjectStored, UploadFails,
         RecordAges, CooldownEnds, LinkChanges, vars, uploadVars, IInv,
         StoredIsDelivered
<1>7. BatchIsKnown'
  <2>1. batch' \subseteq batch \cup queue
    BY DEF FlushStarts, QueueEmpty, BrokerConfirms, Kick, Peek, ObjectStored,
           UploadFails, RecordAges, CooldownEnds, LinkChanges, vars, uploadVars
  <2>2. QED
    BY <1>1, <1>2, <2>1 DEF IInv, BatchIsKnown, Memory
<1>8. QED
  BY <1>2, <1>4, <1>5, <1>6, <1>7 DEF IInv

\* The head leaves the queue, and is in flight.
LEMMA TakeHeadStep ==
  ASSUME IInv, TakeHead
  PROVE  IInv'
<1>1. PICK r \in queue : /\ IsHead(r) /\ flight' = r /\ QueueIs(queue \ {r}, ahead)
                        /\ count' = count - Counted({r})
  BY DEF TakeHead
<1>2. /\ drain = "loop" /\ drain' = "sending"
      /\ UNCHANGED <<up, lost, disk, counter, seen, accepted, upload, batch, cooldown>>
      /\ UNCHANGED <<online, aged, crashes, delivered>>
  BY DEF TakeHead, uploadVars
<1>3. /\ queue' = queue \ {r} /\ ahead' = ahead \cap (queue' \X queue')
      /\ flight = None /\ InFlight = {} /\ r \in Record /\ r # None
      /\ InFlight' = {r} /\ Memory' = Memory /\ Records' = Records
  <2>1. r \in Record /\ r # None
    BY Recorded DEF IInv, TypeOK
  <2>2. flight = None
    BY <1>2 DEF IInv, FlightIsNoted
  <2>3. QED
    BY <1>1, <1>2, <2>1, <2>2 DEF QueueIs, InFlight, Memory, Records
<1>4. NamesAreUnique' /\ EventsAreSeen'
  BY <1>2, <1>3, Shrinks
<1>5. CountIsBehind' /\ RoomForTheReturn' /\ count' \in Int
  <2>1. IsFiniteSet(queue \ {r}) /\ r \notin queue \ {r} /\ (queue \ {r}) \cup {r} = queue
    BY FS_Subset DEF IInv, FilesAreReal
  <2>2. Counted(queue) = Counted(queue \ {r}) + Counted({r}) /\ Counted({r}) \in Nat
    BY <2>1, OneMore, OneMeasure
  <2>3. Counted(InFlight) = 0 /\ Counted(queue \ {r}) \in Nat /\ Counted(queue) \in Nat
    BY <1>3, <2>1, NoMeasure, FewerMeasures DEF IInv, FilesAreReal
  <2>4. lost \in Nat /\ Cap \in Nat /\ count \in Int
    BY BoundsAssumption DEF IInv, TypeOK
  <2>5. QED
    BY <1>1, <1>2, <1>3, <2>2, <2>3, <2>4 DEF IInv, CountIsBehind, RoomForTheReturn
<1>6. TypeOK'
  BY <1>1, <1>2, <1>3, <1>5 DEF IInv, TypeOK
<1>7. FlightIsNoted' /\ AckedIsDelivered' /\ StoredIsDelivered' /\ DownIsEmpty'
  BY <1>1, <1>2, <1>3 DEF IInv, FlightIsNoted, AckedIsDelivered, StoredIsDelivered,
                          DownIsEmpty
<1>8. FilesAreReal'
  BY <1>2, <1>3, FS_Subset DEF IInv, FilesAreReal
<1>9. InOrder'
  <2>1. \A s \in queue \ {r} : r.name < s.name
    BY <1>1 DEF IsHead, IInv, InOrder
  <2>2. QED
    BY <1>3, <2>1 DEF IInv, InOrder
<1>10. BatchIsKnown' /\ NoLoss' /\ OwedIsHeld'
  BY <1>2, <1>3 DEF IInv, BatchIsKnown, NoLoss, OwedIsHeld
<1>11. QED
  BY <1>4, <1>5, <1>6, <1>7, <1>8, <1>9, <1>10 DEF IInv

\* It goes back before every other.
LEMMA BrokerFailsStep ==
  ASSUME IInv, NEW b \in BOOLEAN, BrokerFails(b)
  PROVE  IInv'
<1>1. /\ drain = "sending" /\ drain' = "idle" /\ flight' = None
      /\ delivered' = delivered \cup (IF b THEN {flight.msg} ELSE {})
      /\ QueueIs(queue \cup {flight}, ahead \cup ({flight} \X queue))
      /\ count' = count + Counted({flight})
      /\ UNCHANGED <<up, lost, disk, counter, seen, accepted, upload, batch, cooldown>>
      /\ UNCHANGED <<online, aged, crashes>>
  BY DEF BrokerFails, uploadVars
<1>2. flight # None /\ flight \in Record /\ InFlight = {flight} /\ flight \notin queue
  BY <1>1, Flight DEF IInv, FlightIsNoted
<1>3. /\ queue' = queue \cup {flight} /\ InFlight' = {}
      /\ ahead' = (ahead \cup ({flight} \X queue)) \cap (queue' \X queue')
      /\ Memory' = Memory /\ Records' = Records
  BY <1>1, <1>2 DEF QueueIs, InFlight, Memory, Records
<1>4. NamesAreUnique' /\ EventsAreSeen'
  BY <1>1, <1>3, Shrinks
<1>5. CountIsBehind' /\ RoomForTheReturn' /\ count' \in Int
  <2>1. /\ Counted(queue') = Counted(queue) + Counted({flight})
        /\ Counted({flight}) \in Nat
    BY <1>2, <1>3, OneMore, OneMeasure DEF IInv, FilesAreReal
  <2>2. Counted(queue) \in Nat /\ lost \in Nat /\ Cap \in Nat /\ count \in Int
    BY FewerMeasures, BoundsAssumption DEF IInv, FilesAreReal, TypeOK
  <2>3. Counted(InFlight) = Counted({flight}) /\ Counted(InFlight') = 0
    BY <1>2, <1>3, NoMeasure
  <2>4. QED
    BY <1>1, <2>1, <2>2, <2>3 DEF IInv, CountIsBehind, RoomForTheReturn
<1>6. TypeOK'
  BY <1>1, <1>2, <1>3, <1>5, Recorded DEF IInv, TypeOK
<1>7. FlightIsNoted' /\ AckedIsDelivered' /\ StoredIsDelivered' /\ DownIsEmpty'
  BY <1>1, <1>2 DEF IInv, FlightIsNoted, AckedIsDelivered, StoredIsDelivered, DownIsEmpty
<1>8. FilesAreReal'
  BY <1>1, <1>3, OneMore, OneMeasure DEF IInv, FilesAreReal
<1>9. InOrder'
  <2>1. \A r \in queue : /\ flight.name < r.name /\ ~(r.name < flight.name)
                          /\ r # flight
    BY <1>2, Recorded DEF IInv, InOrder, TypeOK
  <2>2. ~(flight.name < flight.name)
    BY <1>2, Recorded
  <2>3. /\ \A r, s \in queue : <<r, s>> \in ahead' <=> <<r, s>> \in ahead
        /\ \A r \in queue : <<flight, r>> \in ahead' /\ <<r, flight>> \notin ahead'
        /\ <<flight, flight>> \notin ahead'
    BY <1>3, <2>1 DEF IInv, TypeOK
  <2>4. \A r, s \in queue \cup {flight} : <<r, s>> \in ahead' <=> r.name < s.name
    BY <2>1, <2>2, <2>3 DEF IInv, InOrder
  <2>5. QED
    BY <1>3, <2>4 DEF InOrder
<1>10. BatchIsKnown' /\ NoLoss' /\ OwedIsHeld'
  BY <1>1, <1>3 DEF IInv, BatchIsKnown, NoLoss, OwedIsHeld, Memory
<1>11. QED
  BY <1>4, <1>5, <1>6, <1>7, <1>8, <1>9, <1>10 DEF IInv

\* Its file goes, because it arrived; or stays, because the disk refused.
LEMMA FileRemovedStep ==
  ASSUME IInv, NEW b \in BOOLEAN, FileRemoved(b)
  PROVE  IInv'
<1>1. /\ drain = "acked" /\ drain' \in {"loop", "idle"} /\ flight' = None
      /\ disk' = IF b THEN disk \ {flight} ELSE disk
      /\ UNCHANGED <<up, queue, ahead, count, lost, counter, seen, accepted>>
      /\ UNCHANGED <<upload, batch, cooldown, online, aged, crashes, delivered>>
  BY DEF FileRemoved, uploadVars, queueVars
<1>2. /\ flight # None /\ flight \in Record /\ InFlight = {flight} /\ flight \notin queue
      /\ flight.msg \in delivered
  BY <1>1, Flight DEF IInv, FlightIsNoted, AckedIsDelivered
<1>3. /\ InFlight' = {} /\ Memory' = Memory \ {flight} /\ disk' \subseteq disk
      /\ Records' \subseteq Records
  BY <1>1, <1>2 DEF InFlight, Memory, Records
<1>4. NamesAreUnique' /\ EventsAreSeen'
  BY <1>1, <1>3, Shrinks
<1>5. TypeOK'
  BY <1>1 DEF IInv, TypeOK
<1>6. FlightIsNoted' /\ AckedIsDelivered' /\ StoredIsDelivered' /\ DownIsEmpty'
  BY <1>1, <1>2 DEF IInv, FlightIsNoted, AckedIsDelivered, StoredIsDelivered, DownIsEmpty
<1>7. FilesAreReal'
  BY <1>1, <1>2, <1>3, FS_Subset DEF IInv, FilesAreReal
<1>8. InOrder'
  BY <1>1, <1>3 DEF IInv, InOrder
<1>9. BatchIsKnown' /\ NoLoss' /\ OwedIsHeld'
  BY <1>1, <1>2, <1>3 DEF IInv, BatchIsKnown, NoLoss, OwedIsHeld
<1>10. CountIsBehind' /\ RoomForTheReturn'
  <2>1. Counted(queue) \in Nat /\ lost \in Nat /\ Cap \in Nat
    BY FewerMeasures, BoundsAssumption DEF IInv, FilesAreReal, TypeOK
  <2>2. Counted(InFlight') = 0 /\ Counted(InFlight) \in Nat
    BY <1>3, NoMeasure, OneInFlight
  <2>3. QED
    BY <1>1, <2>1, <2>2 DEF IInv, CountIsBehind, RoomForTheReturn
<1>11. QED
  BY <1>4, <1>5, <1>6, <1>7, <1>8, <1>9, <1>10 DEF IInv

\* The block leaves the queue and the disk, because it is in S3.
LEMMA DropSpoolStep ==
  ASSUME IInv, DropSpool
  PROVE  IInv'
<1>1. /\ upload = "stored" /\ upload' = "idle" /\ batch' = {}
      /\ queue' = queue \ Dropped /\ ahead' = ahead \cap (queue' \X queue')
      /\ disk' = disk \ Dropped /\ count' = count - Counted(Dropped)
      /\ UNCHANGED <<up, lost, counter, seen, accepted, drain, flight, cooldown>>
      /\ UNCHANGED <<online, aged, crashes, delivered>>
  BY DEF DropSpool, QueueIs, drainVars
<1>2. Dropped \subseteq queue /\ \A r \in Dropped : r.msg \in delivered
  BY <1>1 DEF IInv, StoredIsDelivered, Dropped
<1>3. /\ InFlight' = InFlight /\ Memory' \subseteq Memory /\ disk' \subseteq disk
      /\ Records' \subseteq Records /\ InFlight \cap queue = {}
  BY <1>1, Flight DEF InFlight, Memory, Records
<1>4. NamesAreUnique' /\ EventsAreSeen'
  BY <1>1, <1>3, Shrinks
<1>5. CountIsBehind' /\ RoomForTheReturn' /\ count' \in Int
  <2>1. /\ Counted(queue') = Counted(queue) - Counted(Dropped)
        /\ Counted(Dropped) \in Nat /\ Counted(queue) \in Nat /\ Counted(queue') \in Nat
    BY <1>1, <1>2, WhatIsLeft DEF IInv, FilesAreReal
  <2>2. Counted(InFlight) \in Nat /\ lost \in Nat /\ Cap \in Nat /\ count \in Int
    BY OneInFlight, BoundsAssumption DEF IInv, TypeOK
  <2>3. QED
    BY <1>1, <1>3, <2>1, <2>2 DEF IInv, CountIsBehind, RoomForTheReturn
<1>6. TypeOK'
  BY <1>1, <1>5 DEF IInv, TypeOK
<1>7. /\ FlightIsNoted' /\ AckedIsDelivered' /\ StoredIsDelivered' /\ BatchIsKnown'
      /\ DownIsEmpty'
  BY <1>1 DEF IInv, FlightIsNoted, AckedIsDelivered, StoredIsDelivered, BatchIsKnown,
              DownIsEmpty
<1>8. FilesAreReal'
  <2>1. IsFiniteSet(disk') /\ IsFiniteSet(queue')
    BY <1>1, FS_Subset DEF IInv, FilesAreReal
  <2>2. \A r \in Memory' : r \notin Dropped
    BY <1>1, <1>2, <1>3 DEF Memory
  <2>3. QED
    BY <1>1, <1>3, <2>1, <2>2 DEF IInv, FilesAreReal
<1>9. InOrder'
  BY <1>1, <1>3 DEF IInv, InOrder
<1>10. NoLoss' /\ OwedIsHeld'
  BY <1>1, <1>2, <1>3 DEF IInv, NoLoss, OwedIsHeld
<1>11. QED
  BY <1>4, <1>5, <1>6, <1>7, <1>8, <1>9, <1>10 DEF IInv

\* Refused half way, some files are gone, because they are in S3, and nothing leaves the
\* queue; the counter is lost by what was counted out.
LEMMA DropRefusedStep ==
  ASSUME IInv, DropRefused
  PROVE  IInv'
<1>1. PICK r \in Dropped :
         LET before == {s \in Dropped : <<s, r>> \in ahead}
             out == Counted(before \cup {r})
         IN  /\ lost + out <= MaxLost
             /\ count' = count - out /\ lost' = lost + out /\ disk' = disk \ before
  BY DEF DropRefused
<1> DEFINE before == {s \in Dropped : <<s, r>> \in ahead}
           out == Counted(before \cup {r})
<1>2. /\ upload = "stored" /\ upload' = "idle" /\ batch' = {} /\ cooldown' = TRUE
      /\ lost + out <= MaxLost
      /\ count' = count - out /\ lost' = lost + out /\ disk' = disk \ before
      /\ UNCHANGED <<up, queue, ahead, counter, seen, accepted, drain, flight>>
      /\ UNCHANGED <<online, aged, crashes, delivered>>
  BY <1>1 DEF DropRefused, drainVars
<1>3. /\ Dropped \subseteq queue /\ before \cup {r} \subseteq queue
      /\ \A s \in before : s.msg \in delivered
  BY <1>2 DEF IInv, StoredIsDelivered, Dropped
<1>4. out \in Nat
  BY <1>3, FewerMeasures DEF IInv, FilesAreReal
<1> HIDE DEF before, out
<1>5. /\ InFlight' = InFlight /\ Memory' = Memory /\ disk' \subseteq disk
      /\ Records' \subseteq Records
  BY <1>2 DEF InFlight, Memory, Records
<1>6. NamesAreUnique' /\ EventsAreSeen'
  BY <1>2, <1>5, Shrinks
<1>7. lost \in Nat /\ MaxLost \in Nat /\ count \in Int /\ Cap \in Nat
  BY BoundsAssumption DEF IInv, TypeOK
<1>8. CountIsBehind' /\ RoomForTheReturn'
  <2>1. Counted(queue) \in Nat /\ Counted(InFlight) \in Nat
    BY FewerMeasures, OneInFlight DEF IInv, FilesAreReal
  <2>2. QED
    BY <1>2, <1>4, <1>5, <1>7, <2>1 DEF IInv, CountIsBehind, RoomForTheReturn
<1>9. TypeOK'
  <2>1. lost' \in 0..MaxLost /\ count' \in Int
    BY <1>2, <1>4, <1>7
  <2>2. QED
    BY <1>2, <2>1 DEF IInv, TypeOK
<1>10. /\ FlightIsNoted' /\ AckedIsDelivered' /\ StoredIsDelivered' /\ BatchIsKnown'
      /\ DownIsEmpty'
  BY <1>2, <1>3 DEF IInv, FlightIsNoted, AckedIsDelivered, StoredIsDelivered, BatchIsKnown,
                    DownIsEmpty
<1>11. FilesAreReal' /\ InOrder'
  BY <1>2, <1>3, <1>5, FS_Subset DEF IInv, FilesAreReal, InOrder
<1>12. NoLoss' /\ OwedIsHeld'
  BY <1>2, <1>3, <1>5 DEF IInv, NoLoss, OwedIsHeld
<1>13. QED
  BY <1>6, <1>8, <1>9, <1>10, <1>11, <1>12 DEF IInv

\* A record of its own at the tail; over the cap, the oldest measures go.
LEMMA PublishStep ==
  ASSUME IInv, NEW m \in Message, NEW written \in BOOLEAN, Publish(m, written)
  PROVE  IInv'
<1> DEFINE r == [name |-> counter + 1, msg |-> m, durable |-> written]
           q == queue \cup {r}
           order == ahead \cup (queue \X {r})
           held == count + Counted({r})
<1>1. PICK gone \in SUBSET Measures(q), left \in SUBSET Measures(q) :
         /\ IF m \in Telemetry THEN Oldest(q, order, held, gone, left)
                               ELSE gone = {} /\ left = {}
         /\ QueueIs(q \ gone, order)
         /\ count' = held - Cardinality(gone)
         /\ disk' = (disk \cup (IF written THEN {r} ELSE {})) \ (gone \ left)
  BY DEF Publish
<1>2. /\ up /\ m \notin seen /\ counter < MaxNames /\ counter' = counter + 1
      /\ seen' = seen \cup ({m} \cap Events)
      /\ accepted' = accepted \cup (IF written THEN {m} \cap Events ELSE {})
      /\ aged' = aged \ {counter + 1}
      /\ UNCHANGED <<up, lost, drain, flight>>
      /\ UNCHANGED <<upload, batch, cooldown, online, crashes, delivered>>
  BY DEF Publish, drainVars, uploadVars
<1>3. /\ r.name = counter + 1 /\ r.msg = m /\ r.durable = written
      /\ counter \in Nat /\ counter + 1 \in Name /\ r \in Record
  <2>1. counter \in Nat /\ MaxNames \in Nat
    BY BoundsAssumption DEF IInv, TypeOK
  <2>2. counter + 1 \in Name
    BY <1>2, <2>1 DEF Name
  <2>3. QED
    BY <2>1, <2>2 DEF Record
<1>4. \A s \in Records : s.name \in Nat /\ s.name <= counter /\ s # r /\ s.name # r.name
  <2>1. \A s \in Records : s.name \in Nat /\ s.name <= counter
    BY Flight, Recorded DEF IInv, NamesAreUnique
  <2>2. QED
    BY <1>3, <2>1
<1>5. /\ gone \subseteq q /\ \A s \in gone : s.msg \in Telemetry /\ s.msg \notin Events
      /\ queue' = q \ gone /\ ahead' = order \cap (queue' \X queue')
      /\ InFlight' = InFlight
  BY <1>1, <1>2, MessageAssumption DEF Measures, QueueIs, InFlight
<1>6. m \notin Telemetry => gone = {}
  BY <1>1
<1>7. IsFiniteSet(queue) /\ IsFiniteSet(q) /\ Counted(queue) \in Nat /\ Cap \in Nat
      /\ lost \in Nat /\ count = Counted(queue) - lost
  <2>1. IsFiniteSet(queue) /\ IsFiniteSet(q)
    BY FS_AddElement DEF IInv, FilesAreReal
  <2>2. Cap \in Nat /\ lost \in Nat /\ count = Counted(queue) - lost
    BY BoundsAssumption DEF IInv, TypeOK, CountIsBehind
  <2>3. QED
    BY <2>1, <2>2, FewerMeasures
<1>8. r \notin queue /\ r \notin disk /\ r \notin InFlight
  BY <1>4 DEF Records, Memory
<1>9. disk' = (disk \cup (IF written THEN {r} ELSE {})) \ (gone \ left)
  BY <1>1
<1>10. Counted(q) = Counted(queue) + Counted({r}) /\ Counted({r}) \in Nat
       /\ Counted({r}) = IF m \in Telemetry THEN 1 ELSE 0
  BY <1>3, <1>7, <1>8, OneMore, OneMeasure
<1>11. held = Counted(q) - lost /\ held \in Int
  BY <1>7, <1>10
<1>12. count' = held - Cardinality(gone)
  BY <1>1
<1>13. CountIsBehind' /\ RoomForTheReturn' /\ count' \in Int
  <2>1. Counted(InFlight) \in Nat /\ Counted(InFlight) <= 1
    BY OneInFlight
  <2>2. CASE m \in Telemetry
    <3>1. Oldest(q, order, held, gone, left)
      BY <1>1, <2>2
    <3>2. /\ Counted(queue') = Counted(q) - Cardinality(gone)
          /\ Counted(queue') \in Nat /\ Counted(q) \in Nat /\ Cardinality(gone) \in Nat
          /\ left = {} => Cardinality(gone) = Excess(held)
          /\ left # {} => Cardinality(gone) >= 1
      <4> HIDE DEF r, q, order, held
      <4>1. IsFiniteSet(q) /\ held \in Int /\ Oldest(q, order, held, gone, left)
        BY <1>7, <1>11, <3>1
      <4>2. /\ Counted(q \ gone) = Counted(q) - Cardinality(gone)
            /\ Counted(q \ gone) \in Nat /\ Counted(q) \in Nat /\ Cardinality(gone) \in Nat
            /\ left = {} => Cardinality(gone) = Excess(held)
            /\ left # {} => Cardinality(gone) >= 1
        BY <4>1, OldestIsCounted
      <4>3. QED
        BY <1>5, <4>2
    <3>3. count' = Counted(queue') - lost
      BY <1>7, <1>11, <1>12, <3>2
    <3>4. CASE left # {}
      <4>1. Counted(queue') <= Counted(queue)
        BY <1>7, <1>10, <2>2, <3>2, <3>4
      <4>2. QED
        BY <1>2, <1>5, <1>7, <2>1, <3>2, <3>3, <4>1 DEF IInv, CountIsBehind, RoomForTheReturn
    <3>5. CASE left = {}
      <4>1. Counted(queue') <= Cap + lost
        <5>1. CASE held > Cap
          BY <1>7, <1>11, <3>2, <3>5, <5>1 DEF Excess
        <5>2. CASE ~(held > Cap)
          BY <1>7, <1>11, <3>2, <3>5, <5>2 DEF Excess
        <5>3. QED
          BY <5>1, <5>2
      <4>2. QED
        BY <1>2, <1>5, <1>7, <2>1, <3>2, <3>3, <4>1 DEF CountIsBehind, RoomForTheReturn
    <3>6. QED
      BY <3>4, <3>5
  <2>3. CASE m \notin Telemetry
    <3>1. gone = {} /\ queue' = q /\ Counted(q) = Counted(queue) /\ Cardinality({}) = 0
      BY <1>5, <1>6, <1>7, <1>10, <2>3, FS_EmptySet
    <3>2. QED
      BY <1>2, <1>5, <1>7, <1>10, <1>11, <1>12, <3>1
         DEF IInv, CountIsBehind, RoomForTheReturn
  <2>4. QED
    BY <2>2, <2>3
<1> HIDE DEF r
<1>14. Memory' \subseteq Memory \cup {r} /\ Records' \subseteq Records \cup {r}
  BY <1>5, <1>9 DEF Memory, Records
<1>15. NamesAreUnique'
  <2>1. \A s \in Records' : s.name <= counter + 1
    BY <1>3, <1>4, <1>14
  <2>2. \A s, t \in Records' : s.name = t.name => s = t
    BY <1>4, <1>14 DEF IInv, NamesAreUnique
  <2>3. QED
    BY <1>2, <2>1, <2>2 DEF NamesAreUnique
<1>16. EventsAreSeen' /\ DownIsEmpty'
  BY <1>2, <1>3, <1>14 DEF IInv, EventsAreSeen, DownIsEmpty
<1>17. TypeOK'
  <2>1. counter' \in 0..MaxNames
    BY <1>2, <1>3 DEF Name
  <2>3. queue' \subseteq Record /\ ahead' \subseteq queue' \X queue' /\ disk' \subseteq Record
    BY <1>3, <1>5, <1>9 DEF IInv, TypeOK
  <2>4. QED
    BY <1>2, <1>13, <2>1, <2>3 DEF IInv, TypeOK
<1>18. FlightIsNoted' /\ AckedIsDelivered' /\ StoredIsDelivered'
  BY <1>2 DEF IInv, FlightIsNoted, AckedIsDelivered, StoredIsDelivered
<1>19. InFlight \cap gone = {}
  BY <1>5, <1>8, Flight
<1>20. FilesAreReal'
  <2>1. IsFiniteSet(disk \cup {r})
    BY FS_AddElement DEF IInv, FilesAreReal
  <2>2. IsFiniteSet(disk') /\ IsFiniteSet(queue')
    <3>1. disk' \subseteq disk \cup {r} /\ queue' \subseteq q
      BY <1>5, <1>9
    <3>2. QED
      BY <1>7, <2>1, <3>1, FS_Subset
  <2>3. \A s \in disk' : s.durable
    BY <1>3, <1>9 DEF IInv, FilesAreReal
  <2>4. \A s \in Memory' : s.durable => s \in disk' \/ s.msg \in delivered'
    BY <1>2, <1>3, <1>5, <1>9, <1>19 DEF IInv, FilesAreReal, Memory
  <2>5. QED
    BY <2>2, <2>3, <2>4 DEF FilesAreReal
<1>21. InOrder'
  <2>1. /\ \A s, t \in queue : <<s, t>> \in order <=> <<s, t>> \in ahead
        /\ \A s \in queue : <<s, r>> \in order /\ <<r, s>> \notin order
        /\ <<r, r>> \notin order
    BY <1>8 DEF IInv, TypeOK
  <2>2. /\ \A s \in queue : s.name < r.name /\ ~(r.name < s.name)
        /\ ~(r.name < r.name)
    BY <1>3, <1>4 DEF Records, Memory
  <2>3. \A s, t \in q : <<s, t>> \in order <=> s.name < t.name
    BY <2>1, <2>2 DEF IInv, InOrder
  <2>4. \A s, t \in queue' : <<s, t>> \in ahead' <=> s.name < t.name
    BY <1>5, <2>3
  <2>5. \A s \in InFlight : s.name < r.name
    BY <1>3, <1>4 DEF Records, Memory
  <2>6. \A s \in InFlight', t \in queue' : s.name < t.name
    BY <1>5, <2>5 DEF IInv, InOrder
  <2>7. QED
    BY <2>4, <2>6 DEF InOrder
<1>22. \A s \in Memory : s.msg \in Events => s \in Memory'
  BY <1>5 DEF Memory
<1>23. BatchIsKnown'
  BY <1>2, <1>22 DEF IInv, BatchIsKnown
<1>24. NoLoss'
  <2>1. \A a \in accepted : a \in delivered \/ \E s \in disk' : s.msg = a
    BY <1>5, <1>9 DEF IInv, NoLoss, TypeOK
  <2>2. written /\ m \in Events => r \in disk'
    BY <1>3, <1>5, <1>9
  <2>3. QED
    BY <1>2, <1>3, <2>1, <2>2 DEF NoLoss
<1>25. OwedIsHeld'
  BY <1>2, <1>5, <1>9 DEF IInv, OwedIsHeld
<1>26. QED
  BY <1>15, <1>16, <1>17, <1>18, <1>20, <1>21, <1>23, <1>24, <1>25, <1>13 DEF IInv

\* A power cut leaves the disk.
LEMMA PowerCutStep ==
  ASSUME IInv, PowerCut
  PROVE  IInv'
<1>1. /\ crashes < MaxCrashes /\ crashes' = crashes + 1 /\ up' = FALSE
      /\ queue' = {} /\ ahead' = {} /\ count' = 0 /\ lost' = 0 /\ seen' = {}
      /\ drain' = "idle" /\ flight' = None /\ online' = FALSE
      /\ upload' = "idle" /\ batch' = {} /\ cooldown' = FALSE
      /\ UNCHANGED <<disk, counter, aged, accepted, delivered>>
  BY DEF PowerCut
<1>2. InFlight' = {} /\ Memory' = {} /\ Records' = disk /\ disk \subseteq Records
  BY <1>1 DEF InFlight, Memory, Records
<1>3. TypeOK'
  <2>1. crashes' \in 0..MaxCrashes /\ lost' \in 0..MaxLost /\ count' \in Int
    BY <1>1, BoundsAssumption DEF IInv, TypeOK
  <2>2. QED
    BY <1>1, <2>1 DEF IInv, TypeOK
<1>4. /\ FlightIsNoted' /\ AckedIsDelivered' /\ StoredIsDelivered' /\ BatchIsKnown'
      /\ DownIsEmpty'
  BY <1>1 DEF FlightIsNoted, AckedIsDelivered, StoredIsDelivered, BatchIsKnown, DownIsEmpty
<1>5. FilesAreReal'
  BY <1>1, <1>2, FS_EmptySet DEF IInv, FilesAreReal
<1>6. NamesAreUnique' /\ EventsAreSeen'
  BY <1>1, <1>2 DEF IInv, NamesAreUnique, EventsAreSeen
<1>7. InOrder' /\ NoLoss' /\ OwedIsHeld'
  BY <1>1, <1>2 DEF IInv, InOrder, NoLoss, OwedIsHeld
<1>8. CountIsBehind' /\ RoomForTheReturn'
  BY <1>1, <1>2, NoMeasure, BoundsAssumption DEF CountIsBehind, RoomForTheReturn
<1>9. QED
  BY <1>3, <1>4, <1>5, <1>6, <1>7, <1>8 DEF IInv

\* What a boot takes from the disk is measures.
LEMMA BootTakesMeasures ==
  ASSUME IInv, NEW gone, NEW left, Oldest(disk, Loaded, Counted(disk), gone, left)
  PROVE  /\ gone \subseteq disk /\ \A r \in gone : r.msg \notin Events
         /\ Counted(disk \ gone) = Counted(disk) - Cardinality(gone)
         /\ Counted(disk \ gone) \in Nat /\ Counted(disk) \in Nat /\ Cardinality(gone) \in Nat
         /\ left = {} => Counted(disk \ gone) <= Cap
<1>1. IsFiniteSet(disk) /\ Cap \in Nat /\ Counted(disk) \in Nat
  BY FewerMeasures, BoundsAssumption DEF IInv, FilesAreReal
<1>2. /\ gone \subseteq Measures(disk)
      /\ Counted(disk \ gone) = Counted(disk) - Cardinality(gone)
      /\ Counted(disk \ gone) \in Nat /\ Counted(disk) \in Nat /\ Cardinality(gone) \in Nat
      /\ left = {} => Cardinality(gone) = Excess(Counted(disk))
  BY <1>1, OldestIsCounted
<1>3. gone \subseteq disk /\ \A r \in gone : r.msg \notin Events
  BY <1>2, MessageAssumption DEF Measures
<1>4. left = {} => Counted(disk \ gone) <= Cap
  BY <1>1, <1>2 DEF Excess
<1>5. QED
  BY <1>2, <1>3, <1>4

\* After a boot the queue is what the disk holds, in the order of the names.
LEMMA RestartStep ==
  ASSUME IInv, NEW gone, Restart(gone)
  PROVE  IInv'
<1>1. /\ ~up /\ Oldest(disk, Loaded, Counted(disk), gone, {})
      /\ up' = TRUE
      /\ QueueIs(disk \ gone, Loaded)
      /\ count' = Counted(disk) - Cardinality(gone)
      /\ disk' = disk \ gone
      /\ counter' \in LastName
      /\ seen' = {r.msg : r \in disk} \cap Events
      /\ UNCHANGED <<lost, drain, flight, upload, batch, cooldown>>
      /\ UNCHANGED <<online, aged, crashes, accepted, delivered>>
  BY DEF Restart, drainVars, uploadVars
<1>2. /\ Counted(disk \ gone) = Counted(disk) - Cardinality(gone)
      /\ Counted(disk \ gone) \in Nat /\ Counted(disk \ gone) <= Cap
      /\ gone \subseteq disk /\ \A r \in gone : r.msg \notin Events
  BY <1>1, BootTakesMeasures
<1>3. /\ queue' = disk' /\ ahead' = Loaded \cap (queue' \X queue') /\ disk' \subseteq disk
      /\ flight = None /\ InFlight = {} /\ InFlight' = {} /\ queue = {} /\ lost = 0
      /\ Memory' = disk' /\ Records' = disk'
  BY <1>1 DEF QueueIs, InFlight, Memory, Records, IInv, DownIsEmpty
<1>4. disk \subseteq Record /\ \A r \in disk : r.name \in Nat /\ r.name <= MaxNames
  BY Recorded DEF IInv, TypeOK
<1>5. counter' \in 0..MaxNames /\ \A r \in disk : r.name <= counter'
  <2>1. CASE disk = {}
    BY <1>1, <2>1, BoundsAssumption DEF LastName
  <2>2. CASE disk # {}
    <3>1. PICK r \in disk : counter' = r.name /\ \A s \in disk : s.name <= r.name
      BY <1>1, <2>2 DEF LastName
    <3>2. QED
      BY <1>4, <3>1
  <2>3. QED
    BY <2>1, <2>2
<1>6. CountIsBehind' /\ RoomForTheReturn' /\ count' \in Int
  BY <1>1, <1>2, <1>3, NoMeasure, BoundsAssumption DEF CountIsBehind, RoomForTheReturn
<1>7. TypeOK'
  BY <1>1, <1>3, <1>5, <1>6 DEF IInv, TypeOK
<1>8. /\ FlightIsNoted' /\ AckedIsDelivered' /\ StoredIsDelivered' /\ BatchIsKnown'
      /\ DownIsEmpty'
  BY <1>1, <1>3 DEF IInv, FlightIsNoted, AckedIsDelivered, StoredIsDelivered, BatchIsKnown,
                    DownIsEmpty, Memory
<1>9. FilesAreReal'
  BY <1>3, FS_Subset DEF IInv, FilesAreReal
<1>10. NamesAreUnique'
  BY <1>3, <1>5 DEF IInv, NamesAreUnique, Records
<1>11. EventsAreSeen'
  BY <1>1, <1>3 DEF IInv, EventsAreSeen, Records
<1>12. InOrder'
  BY <1>3 DEF InOrder, Loaded
<1>13. NoLoss' /\ OwedIsHeld'
  BY <1>1, <1>2, <1>3 DEF IInv, NoLoss, OwedIsHeld, TypeOK
<1>14. QED
  BY <1>6, <1>7, <1>8, <1>9, <1>10, <1>11, <1>12, <1>13 DEF IInv

\* A boot that dies leaves nothing but a smaller excess on the disk.
LEMMA BootDiesStep ==
  ASSUME IInv, NEW gone, NEW left, BootDies(gone, left)
  PROVE  IInv'
<1>1. /\ ~up /\ Oldest(disk, Loaded, Counted(disk), gone, left)
      /\ disk' = disk \ (gone \ left)
      /\ UNCHANGED <<up, queue, ahead, count, lost, counter, seen, accepted, drain, flight>>
      /\ UNCHANGED <<upload, batch, cooldown, online, aged, crashes, delivered>>
  BY DEF BootDies, queueVars, drainVars, uploadVars
<1>2. \A r \in gone : r.msg \notin Events
  BY <1>1, BootTakesMeasures
<1>3. /\ InFlight' = InFlight /\ Memory' = Memory /\ disk' \subseteq disk
      /\ Records' \subseteq Records /\ Memory = {}
  BY <1>1 DEF InFlight, Memory, Records, IInv, DownIsEmpty
<1>4. NamesAreUnique' /\ EventsAreSeen'
  BY <1>1, <1>3, Shrinks
<1>5. TypeOK'
  BY <1>1, <1>3 DEF IInv, TypeOK
<1>6. /\ FlightIsNoted' /\ AckedIsDelivered' /\ StoredIsDelivered' /\ BatchIsKnown'
      /\ DownIsEmpty' /\ InOrder' /\ CountIsBehind' /\ RoomForTheReturn'
  BY <1>1, <1>3 DEF IInv, FlightIsNoted, AckedIsDelivered, StoredIsDelivered, BatchIsKnown,
                    DownIsEmpty, InOrder, CountIsBehind, RoomForTheReturn
<1>7. FilesAreReal'
  BY <1>1, <1>3, FS_Subset DEF IInv, FilesAreReal
<1>8. NoLoss' /\ OwedIsHeld'
  BY <1>1, <1>2 DEF IInv, NoLoss, OwedIsHeld, TypeOK
<1>9. QED
  BY <1>4, <1>5, <1>6, <1>7, <1>8 DEF IInv

\* The invariant stands every step.
LEMMA Stands == IInv /\ [Next]_vars => IInv'
<1> SUFFICES ASSUME IInv, [Next]_vars PROVE IInv'
  OBVIOUS
<1>1. ASSUME NEW m \in Message, NEW written \in BOOLEAN, Publish(m, written) PROVE IInv'
  BY <1>1, PublishStep
<1>2. CASE Drain
  BY <1>2, QuietStep, TakeHeadStep, BrokerFailsStep, FileRemovedStep DEF Drain
<1>3. CASE Block
  BY <1>3, QuietStep, DropSpoolStep, DropRefusedStep DEF Block
<1>4. CASE FlushStarts \/ Kick \/ RecordAges \/ CooldownEnds \/ LinkChanges \/ UNCHANGED vars
  BY <1>4, QuietStep
<1>5. CASE PowerCut \/ Boot
  BY <1>5, PowerCutStep, RestartStep, BootDiesStep DEF Boot
<1>6. QED
  BY <1>1, <1>2, <1>3, <1>4, <1>5 DEF Next

\* What every reachable state satisfies.
THEOREM Invariance == Spec => []IInv
  BY Begins, Stands, PTL DEF Spec

-----------------------------------------------------------------------------
(***************************************************************************)
(* The properties of the runs.                                             *)
(***************************************************************************)

\* Every variable has its type.
THEOREM Typing == Spec => []TypeOK
  BY Invariance, PTL DEF IInv

\* Zero loss: an event that publish wrote to disk is in the cloud or still on disk,
\* through every order of drain, upload, eviction, disk failure and power cut.
THEOREM ZeroLoss == Spec => []NoLoss
  BY Invariance, PTL DEF IInv

\* And while the process runs, the file of an event that has not arrived is in the queue
\* or in flight: none waits for the next boot to be sent.  A file that nobody holds, left
\* by an eviction or a boot whose removal the disk refused, is of a measure.
THEOREM NoFileIsForgotten == Spec => []OwedIsHeld
  BY Invariance, PTL DEF IInv

\* Retries, evictions, block uploads and boots keep the order of publication, and
\* there are never two records of one event.
THEOREM OrderIsKept == Spec => []OneCopyInOrder
<1>1. IInv => OneCopyInOrder
  <2> SUFFICES ASSUME IInv PROVE OneCopyInOrder
    OBVIOUS
  <2>1. \A r, s \in queue : r.name = s.name => r = s
    BY DEF IInv, NamesAreUnique, Records, Memory
  <2>2. \A r, s \in queue \cup InFlight \cup disk : r.msg \in Events /\ r.msg = s.msg => r = s
    BY DEF IInv, EventsAreSeen, Records, Memory
  <2>3. QED
    BY <2>1, <2>2 DEF IInv, InOrder, OneCopyInOrder
<1>2. QED
  BY <1>1, Invariance, PTL

\* The cap of replaceable telemetry holds, but for the one measure that was in flight
\* and came back and those that drops the disk refused left queued and uncounted.
THEOREM TelemetryStaysBounded == Spec => []TelemetryBounded
<1>1. IInv => TelemetryBounded
  <2> SUFFICES ASSUME IInv PROVE TelemetryBounded
    OBVIOUS
  <2>1. Cap \in Nat /\ lost \in Nat /\ Counted(queue) \in Nat
    BY FewerMeasures, BoundsAssumption DEF IInv, FilesAreReal, TypeOK
  <2>2. Counted(queue) <= Cap + 1 + lost
    BY <2>1, OneInFlight DEF IInv, RoomForTheReturn
  <2>3. QED
    BY <2>2 DEF IInv, TelemetryBounded
<1>2. QED
  BY <1>1, Invariance, PTL

-----------------------------------------------------------------------------
(***************************************************************************)
(* The connector implements DurableOutbox.                                 *)
(***************************************************************************)

\* A step that changes neither files nor memory changes nothing the outbox owes.
LEMMA OwesTheSame ==
  ASSUME disk' = disk, {q \in Memory' : ~q.durable} = {q \in Memory : ~q.durable}
  PROVE  Owed' = Owed /\ Fragile' = Fragile
BY DEF Owed, Fragile, Memory

\* Whatever the process still holds of the events, the outbox owes or has delivered.
LEMMA HeldIsOwed ==
  ASSUME IInv, NEW r \in Memory, r.msg \in Events
  PROVE  r.msg \in Owed \cup Fragile \cup Got
BY DEF IInv, FilesAreReal, Owed, Fragile, Got, Memory

\* The outbox accepts what publish queues, with a copy or without; measures are not its.
LEMMA PublishAccepts ==
  ASSUME IInv, NEW m \in Message, NEW written \in BOOLEAN, Publish(m, written)
  PROVE  [Outbox!Next]_(Outbox!vars)
<1> DEFINE r == [name |-> counter + 1, msg |-> m, durable |-> written]
           q == queue \cup {r}
           order == ahead \cup (queue \X {r})
<1>1. PICK gone \in SUBSET Measures(q), left \in SUBSET Measures(q) :
         /\ QueueIs(q \ gone, order)
         /\ disk' = (disk \cup (IF written THEN {r} ELSE {})) \ (gone \ left)
  BY DEF Publish
<1>2. flight' = flight /\ delivered' = delivered
  BY DEF Publish, drainVars
<1>3. r.msg = m /\ r.durable = written
  OBVIOUS
<1>4. /\ \A s \in gone : s.msg \notin Events
      /\ queue' = q \ gone /\ InFlight' = InFlight
      /\ disk' = (disk \cup (IF written THEN {r} ELSE {})) \ (gone \ left)
  BY <1>1, <1>2, MessageAssumption DEF Measures, QueueIs, InFlight
<1> HIDE DEF r
<1>5. Owed' = Owed \cup (IF written THEN {m} \cap Events ELSE {})
  BY <1>3, <1>4 DEF Owed
<1>6. Fragile' = Fragile \cup (IF written THEN {} ELSE {m} \cap Events)
  BY <1>3, <1>4 DEF Fragile
<1>7. Got' = Got
  BY <1>2 DEF Got
<1>8. CASE m \in Events /\ written
  BY <1>5, <1>6, <1>7, <1>8 DEF Outbox!Next, Outbox!Accept
<1>9. CASE m \in Events /\ ~written
  BY <1>5, <1>6, <1>7, <1>9 DEF Outbox!Next, Outbox!AcceptFragile
<1>10. CASE m \notin Events
  BY <1>5, <1>6, <1>7, <1>10 DEF Outbox!vars
<1>11. QED
  BY <1>8, <1>9, <1>10

\* A PUBACK, or a failure that came after it, is a delivery of what was in flight; a
\* stored object, of what was peeked at.
LEMMA ArrivalDelivers ==
  ASSUME IInv,
         BrokerConfirms \/ ObjectStored
         \/ \E b \in BOOLEAN : BrokerFails(b) \/ UploadFails(b)
  PROVE  [Outbox!Next]_(Outbox!vars)
<1>1. disk' = disk /\ Memory' = Memory
  <2>1. CASE \E b \in BOOLEAN : BrokerFails(b)
    BY <2>1 DEF BrokerFails, QueueIs, InFlight, Memory, IInv, FlightIsNoted
  <2>2. CASE BrokerConfirms \/ ObjectStored \/ \E b \in BOOLEAN : UploadFails(b)
    BY <2>2 DEF BrokerConfirms, ObjectStored, UploadFails, spoolVars, queueVars, drainVars,
                InFlight, Memory
  <2>3. QED
    BY <2>1, <2>2
<1>2. Owed' = Owed /\ Fragile' = Fragile
  BY <1>1, OwesTheSame
<1>3. PICK S : /\ delivered' = delivered \cup S
               /\ S \cap Events \subseteq Owed \cup Fragile \cup Got
  <2>1. CASE BrokerConfirms \/ \E b \in BOOLEAN : BrokerFails(b)
    <3>1. flight \in Memory
      BY <2>1, Flight DEF BrokerConfirms, BrokerFails, IInv, FlightIsNoted, Memory
    <3>2. PICK S \in {{flight.msg}, {}} : delivered' = delivered \cup S
      BY <2>1 DEF BrokerConfirms, BrokerFails
    <3>3. S \cap Events \subseteq Owed \cup Fragile \cup Got
      BY <3>1, HeldIsOwed
    <3>4. QED
      BY <3>2, <3>3
  <2>2. CASE ObjectStored \/ \E b \in BOOLEAN : UploadFails(b)
    <3>1. PICK S \in {{r.msg : r \in batch}, {}} : delivered' = delivered \cup S
      BY <2>2 DEF ObjectStored, UploadFails
    <3>2. \A r \in batch : r.msg \in Events => r.msg \in Owed \cup Fragile \cup Got
      BY HeldIsOwed DEF IInv, BatchIsKnown, Got
    <3>3. S \cap Events \subseteq Owed \cup Fragile \cup Got
      BY <3>2
    <3>4. QED
      BY <3>1, <3>3
  <2>3. QED
    BY <2>1, <2>2
<1>4. Got' = Got \cup (S \cap Events) /\ Got \subseteq Events
  BY <1>3 DEF Got
<1>5. Outbox!Deliver(S \cap Events)
  BY <1>2, <1>3, <1>4 DEF Outbox!Deliver
<1>6. QED
  BY <1>5 DEF Outbox!Next

\* The outbox is released of the event whose file goes, because it arrived.
LEMMA RemovalReleases ==
  ASSUME IInv, NEW b \in BOOLEAN, FileRemoved(b)
  PROVE  [Outbox!Next]_(Outbox!vars)
<1>1. /\ drain = "acked"
      /\ disk' = IF b THEN disk \ {flight} ELSE disk
      /\ queue' = queue /\ flight' = None /\ delivered' = delivered
  BY DEF FileRemoved, queueVars
<1>2. /\ InFlight = {flight} /\ flight \notin queue /\ flight.msg \in delivered
      /\ InFlight' = {} /\ flight \in Records
  <2>1. flight # None /\ flight.msg \in delivered
    BY <1>1 DEF IInv, FlightIsNoted, AckedIsDelivered
  <2>2. InFlight' = {}
    BY <1>1 DEF InFlight
  <2>3. QED
    BY <2>1, <2>2, Flight DEF Records, Memory
<1>3. Got' = Got
  BY <1>1 DEF Got
<1>4. \A r \in Records : r # flight /\ r.msg \in Events => r.msg # flight.msg
  BY <1>2 DEF IInv, EventsAreSeen
<1>5. CASE b
  <2> DEFINE S == {flight.msg} \cap Events
  <2>1. S \subseteq Got
    BY DEF Got
  <2>2. Owed' = Owed \ S
    BY <1>1, <1>4, <1>5 DEF Owed, Records
  <2>3. Fragile' = IF flight.durable THEN Fragile ELSE Fragile \ S
    BY <1>1, <1>2, <1>4 DEF Fragile, Records, Memory
  <2>4. Outbox!Release(S)
    BY <1>3, <2>1, <2>2, <2>3 DEF Outbox!Release
  <2>5. QED
    BY <2>4 DEF Outbox!Next
<1>6. CASE ~b
  <2>1. flight.durable
    BY <1>6 DEF FileRemoved
  <2>2. Owed' = Owed /\ Fragile' = Fragile
    BY <1>1, <1>2, <1>6, <2>1 DEF Owed, Fragile
  <2>3. QED
    BY <1>3, <2>2 DEF Outbox!vars
<1>7. QED
  BY <1>5, <1>6

\* And of the events of the block that was stored, as far as their files went.
LEMMA DropReleases ==
  ASSUME IInv, DropSpool \/ DropRefused
  PROVE  [Outbox!Next]_(Outbox!vars)
<1>1. PICK D \in SUBSET Dropped :
        /\ upload = "stored" /\ disk' = disk \ D
        /\ InFlight' = InFlight /\ delivered' = delivered
        /\ queue' \subseteq queue /\ \A r \in queue \ queue' : r.durable
  <2>1. CASE DropSpool
    BY <2>1 DEF DropSpool, Dropped, QueueIs, drainVars, InFlight
  <2>2. CASE DropRefused
    <3>1. PICK r \in Dropped : disk' = disk \ {s \in Dropped : <<s, r>> \in ahead}
      BY <2>2 DEF DropRefused
    <3>2. UNCHANGED <<queue, flight, delivered>> /\ upload = "stored"
      BY <2>2 DEF DropRefused, drainVars
    <3>3. QED
      BY <3>1, <3>2 DEF InFlight
  <2>3. QED
    BY <2>1, <2>2
<1> DEFINE S == {r.msg : r \in D} \cap Events
<1>2. \A r \in D : r.msg \in delivered /\ r \in Records
  BY <1>1 DEF IInv, StoredIsDelivered, Records, Memory, Dropped
<1>3. \A r \in D, s \in disk \ D : s.msg \in Events => s.msg # r.msg
  BY <1>2 DEF IInv, EventsAreSeen, Records
<1>4. S \subseteq Got /\ Got' = Got
  BY <1>1, <1>2 DEF Got
<1>5. Owed' = Owed \ S
  BY <1>1, <1>3 DEF Owed
<1>6. Fragile' = Fragile
  BY <1>1 DEF Fragile
<1>7. Outbox!Release(S)
  BY <1>4, <1>5, <1>6 DEF Outbox!Release
<1>8. QED
  BY <1>7 DEF Outbox!Next

\* A power cut costs what had no file, and nothing else.
LEMMA PowerCutCutsPower ==
  ASSUME IInv, PowerCut
  PROVE  [Outbox!Next]_(Outbox!vars)
<1>1. queue' = {} /\ InFlight' = {} /\ disk' = disk /\ delivered' = delivered
  BY DEF PowerCut, InFlight
<1>2. Owed' = Owed /\ Got' = Got /\ Fragile' = {}
  BY <1>1 DEF Owed, Got, Fragile
<1>3. QED
  BY <1>2 DEF Outbox!Next, Outbox!PowerCut

\* A boot, finished or not, changes nothing the outbox owes.
LEMMA BootOwesTheSame ==
  ASSUME IInv, Boot
  PROVE  UNCHANGED Outbox!vars
<1>1. PICK gone, left :
        /\ \A r \in gone : r.msg \notin Events
        /\ disk' = disk \ (gone \ left) /\ queue' \subseteq disk
        /\ UNCHANGED <<flight, delivered>>
  <2>1. ASSUME NEW gone \in SUBSET Measures(disk), Restart(gone)
        PROVE  /\ disk' = disk \ (gone \ {}) /\ queue' \subseteq disk
               /\ UNCHANGED <<flight, delivered>>
    BY <2>1 DEF Restart, QueueIs, drainVars
  <2>2. ASSUME NEW gone \in SUBSET Measures(disk), NEW left, BootDies(gone, left)
        PROVE  /\ disk' = disk \ (gone \ left) /\ queue' \subseteq disk
               /\ UNCHANGED <<flight, delivered>>
    BY <2>2 DEF BootDies, queueVars, drainVars, IInv, DownIsEmpty
  <2>3. \A gone \in SUBSET Measures(disk) : \A r \in gone : r.msg \notin Events
    BY MessageAssumption DEF Measures
  <2>4. QED
    BY <2>1, <2>2, <2>3 DEF Boot
<1>2. ~up /\ queue = {} /\ InFlight = {} /\ InFlight' = {}
  BY <1>1 DEF Boot, Restart, BootDies, IInv, DownIsEmpty, InFlight
<1>3. Owed' = Owed /\ Got' = Got
  BY <1>1 DEF Owed, Got
<1>4. Fragile' = {} /\ Fragile = {}
  BY <1>1, <1>2 DEF Fragile, IInv, FilesAreReal
<1>5. QED
  BY <1>3, <1>4 DEF Outbox!vars

\* Every step of the connector is a step of the outbox, or none.
LEMMA StepsOfTheOutbox == IInv /\ [Next]_vars => [Outbox!Next]_(Outbox!vars)
<1> SUFFICES ASSUME IInv, [Next]_vars PROVE [Outbox!Next]_(Outbox!vars)
  OBVIOUS
<1>1. ASSUME NEW m \in Message, NEW written \in BOOLEAN, Publish(m, written)
      PROVE  [Outbox!Next]_(Outbox!vars)
  BY <1>1, PublishAccepts
<1>2. CASE TakeHead
  <2>1. UNCHANGED <<disk, delivered>> /\ Memory' = Memory
    BY <1>2 DEF TakeHead, QueueIs, Memory, InFlight, IInv, TypeOK, FlightIsNoted, Record, None
  <2>2. QED
    BY <2>1, OwesTheSame DEF Got, Outbox!vars
<1>3. CASE \/ FlushStarts \/ QueueEmpty \/ Kick \/ Peek \/ RecordAges \/ CooldownEnds
           \/ LinkChanges \/ UNCHANGED vars
  <2>1. UNCHANGED <<queue, disk, flight, delivered>>
    BY <1>3 DEF FlushStarts, QueueEmpty, Kick, Peek, RecordAges, CooldownEnds, LinkChanges,
                vars, spoolVars, queueVars, drainVars
  <2>2. UNCHANGED <<Owed, Fragile, Got>>
    BY <2>1 DEF Owed, Fragile, Got, InFlight
  <2>3. QED
    BY <2>2 DEF Outbox!vars
<1>4. CASE Drain
  BY <1>2, <1>3, <1>4, ArrivalDelivers, RemovalReleases DEF Drain
<1>5. CASE Block
  BY <1>3, <1>5, ArrivalDelivers, DropReleases DEF Block
<1>6. CASE PowerCut \/ Boot
  BY <1>6, PowerCutCutsPower, BootOwesTheSame
<1>7. QED
  BY <1>1, <1>3, <1>4, <1>5, <1>6 DEF Next

\* The connector keeps the promise of the outbox: an event accepted with a durable copy
\* is released only once it was delivered, whatever flush, block route, disk and power do.
THEOREM ImplementsTheOutbox == Spec => OutboxSpec
<1>1. Init => Outbox!Init
  BY DEF Init, Outbox!Init, Owed, Fragile, Got, InFlight
<1>2. QED
  BY <1>1, StepsOfTheOutbox, Invariance, PTL DEF Spec, OutboxSpec, Outbox!Spec

=============================================================================
