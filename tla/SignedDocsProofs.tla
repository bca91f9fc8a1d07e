-------------------------- MODULE SignedDocsProofs --------------------------
(***************************************************************************)
(* For every set of documents, every number of writers, faults, edits,     *)
(* versions and restarts, and whatever the network repeats or reorders:    *)
(* no message takes the cabinet back and, where the publication holds its  *)
(* lock, a version names one document and "in sync" is true.               *)
(***************************************************************************)
EXTENDS SignedDocs, TLAPS

Busy(w) == writer[w] # Idle

\* What is in flight, being recorded or recorded has left.
LeftBefore ==
  /\ inbox \subseteq sent
  /\ \A w \in Writers : writer[w].pc = "published" => writer[w].msg \in sent
  /\ record = Unpublished \/ record \in sent

\* What the cabinet holds, or its file, is a document that left, or nothing at all.
Taken(s) ==
  \/ s.version = 0 /\ s.doc = NoDoc
  \/ [version |-> s.version, doc |-> s.doc] \in sent

\* The mark is that of the document, but in what a restart came back with.
MarkIsOfTheDoc ==
  /\ disk.high = disk.version
  /\ memory.version <= memory.high
  /\ memory.high = memory.version \/ memory.high <= forgotten

\* The file never knows more than a cabinet once knew; and while no restart
\* lost the mark, it stands above all that restarts forgot.
FileIsBehind == disk.high <= memory.high \/ disk.high <= forgotten
MarkHolds == unmarked \/ forgotten <= memory.high

\* The cabinet is past every valid message that no longer travels, or was.
Consumed ==
  \A m \in sent : \/ m \in inbox \/ m.doc.base \in Invalid
                   \/ m.version <= memory.high \/ m.version <= forgotten

\* The lock: one transaction at a time, which took the version after the
\* recorded one; of what left and counts, only the record has its version.
OneAtATime == \A v, w \in Writers : Busy(v) /\ Busy(w) => v = w
HoldsTheNext == \A w \in Writers : Busy(w) => writer[w].msg.version = record.version + 1
RecordedOrHeld ==
  \A m \in sent \ stray :
    \/ m.version < record.version \/ m = record
    \/ \E w \in Writers : writer[w].pc = "published" /\ writer[w].msg = m
OneDoc == \A m, n \in sent \ stray : m.version = n.version => m.doc = n.doc

Held == Taken(memory) /\ Taken(disk) /\ MarkIsOfTheDoc /\ FileIsBehind /\ MarkHolds /\ Consumed
CabinetInv == TypeOK /\ LeftBefore /\ Held
LockInv == OneAtATime /\ HoldsTheNext /\ RecordedOrHeld /\ OneDoc
-----------------------------------------------------------------------------
\* The console and the worker start with nothing published.
LEMMA Begins == Init => CabinetInv /\ LockInv
<1> SUFFICES ASSUME Init PROVE CabinetInv /\ LockInv
  OBVIOUS
<1> USE DocsAssumption DEF Init
<1>1. TypeOK
  <2>1. memory \in Store /\ disk \in Store
    BY DEF Store, Factory
  <2>2. record \in Message \cup {Unpublished} /\ writer \in [Writers -> Transaction \cup {Idle}]
    OBVIOUS
  <2>3. edits \in 0..MaxEdits /\ restarts \in 0..MaxRestarts /\ forgotten \in 0..MaxVersion
    OBVIOUS
  <2>4. retired \in BOOLEAN /\ unmarked \in BOOLEAN
    OBVIOUS
  <2>5. inbox \subseteq Message /\ stray \subseteq sent /\ sent \subseteq Message
    OBVIOUS
  <2>6. QED
    BY <2>1, <2>2, <2>3, <2>4, <2>5 DEF TypeOK
<1>2. LeftBefore /\ Held
  BY DEF LeftBefore, Held, Taken, MarkIsOfTheDoc, FileIsBehind, MarkHolds, Consumed, Factory, Idle
<1>3. LockInv
  BY DEF LockInv, OneAtATime, HoldsTheNext, RecordedOrHeld, OneDoc, Busy
<1>4. QED
  BY <1>1, <1>2, <1>3 DEF CabinetInv

\* A transaction that is open carries a message.
LEMMA OpenCarriesAMessage ==
  ASSUME TypeOK, NEW w \in Writers, writer[w].pc \in {"read", "published"}
  PROVE  writer[w] \in Transaction /\ writer[w].msg \in Message
  BY DEF TypeOK, Transaction, Idle

\* What a candidate gateway would be sent is a document.
LEMMA CandidateHasADoc == TypeOK /\ Candidate => Merged \in Doc
  BY NoBaseAssumption
     DEF TypeOK, Candidate, Merged, Base, Doc, Message, Unpublished, NoDoc

\* The steps of the cloud and of the console keep what the cabinet knows.
LEMMA CloudKeepsCabinet ==
  ASSUME CabinetInv, NEW w \in Writers,
         Read(w) \/ Publish(w) \/ PublishFails(w) \/ Commit(w) \/ Rollback(w)
  PROVE  CabinetInv'
<1> USE DocsAssumption DEF CabinetInv
<1>1. CASE Read(w)
  <2>1. [version |-> record.version + 1, doc |-> Merged] \in Message
    BY <1>1, CandidateHasADoc DEF Read, TypeOK, Message, Unpublished
  <2>2. TypeOK'
    BY <1>1, <2>1 DEF Read, TypeOK, consoleVars, netVars, edgeVars, Transaction
  <2>3. LeftBefore'
    BY <1>1 DEF Read, LeftBefore, TypeOK, netVars
  <2>4. Held'
    BY <1>1 DEF Read, Held, Taken, MarkIsOfTheDoc, FileIsBehind, MarkHolds,
                   Consumed, netVars, edgeVars
  <2>5. QED
    BY <2>2, <2>3, <2>4
<1>2. CASE Publish(w)
  <2>1. writer[w] \in Transaction /\ writer[w].msg \in Message
    BY <1>2, OpenCarriesAMessage DEF Publish
  <2>2. TypeOK'
    BY <1>2, <2>1 DEF Publish, Send, TypeOK, consoleVars, edgeVars, Transaction
  <2>3. LeftBefore'
    BY <1>2, <2>1 DEF Publish, Send, LeftBefore, TypeOK, Transaction
  <2>4. Held'
    BY <1>2 DEF Publish, Send, Held, Taken, MarkIsOfTheDoc, FileIsBehind, MarkHolds,
                   Consumed, edgeVars
  <2>5. QED
    BY <2>2, <2>3, <2>4
<1>3. CASE PublishFails(w)
  <2>1. writer[w].msg \in Message
    BY <1>3, OpenCarriesAMessage DEF PublishFails
  <2>2. TypeOK'
    BY <1>3, <2>1 DEF PublishFails, Send, Fault, TypeOK, consoleVars, netVars, edgeVars
  <2>3. LeftBefore'
    BY <1>3, <2>1 DEF PublishFails, Send, LeftBefore, TypeOK, netVars, Idle
  <2>4. Held'
    BY <1>3 DEF PublishFails, Send, Held, Taken, MarkIsOfTheDoc, FileIsBehind, MarkHolds,
                   Consumed, netVars, edgeVars
  <2>5. QED
    BY <2>2, <2>3, <2>4
<1>4. CASE Commit(w)
  <2>1. writer[w].msg \in Message
    BY <1>4, OpenCarriesAMessage DEF Commit
  <2>2. TypeOK'
    BY <1>4, <2>1 DEF Commit, TypeOK, consoleVars, netVars, edgeVars
  <2>3. LeftBefore'
    BY <1>4 DEF Commit, LeftBefore, TypeOK, netVars, Idle
  <2>4. Held'
    BY <1>4 DEF Commit, Held, Taken, MarkIsOfTheDoc, FileIsBehind, MarkHolds,
                   Consumed, netVars, edgeVars
  <2>5. QED
    BY <2>2, <2>3, <2>4
<1>5. CASE Rollback(w)
  <2>1. writer[w].msg \in sent
    BY <1>5 DEF Rollback, LeftBefore
  <2>2. TypeOK'
    BY <1>5, <2>1 DEF Rollback, Fault, TypeOK, consoleVars, edgeVars
  <2>3. LeftBefore'
    BY <1>5 DEF Rollback, LeftBefore, TypeOK, Idle
  <2>4. Held'
    BY <1>5 DEF Rollback, Held, Taken, MarkIsOfTheDoc, FileIsBehind, MarkHolds,
                   Consumed, edgeVars
  <2>5. QED
    BY <2>2, <2>3, <2>4
<1>6. QED
  BY <1>1, <1>2, <1>3, <1>4, <1>5

\* A file that can be read gives back its mark, with its document or without it.
LEMMA ReadableKeepsTheMark ==
  ASSUME disk \in Store, NEW file \in {"good", "ignored", "unreadable"}, file # "unreadable"
  PROVE  Loaded(file).high = disk.high
<1>1. CASE file = "good"
  BY <1>1 DEF Loaded
<1>2. CASE file = "ignored"
  <2>1. Loaded(file) = [Factory EXCEPT !.high = disk.high]
    BY <1>2 DEF Loaded
  <2>2. QED
    BY <2>1 DEF Factory
<1>3. QED
  BY <1>1, <1>2

\* A restart that comes back with a lower mark says so.
LEMMA LostMarkIsTold ==
  ASSUME TypeOK, NEW file \in {"good", "ignored", "unreadable"}, Restart(file), ~unmarked'
  PROVE  ~unmarked /\ memory'.high = disk.high /\ memory.high <= disk.high
<1>1. ~unmarked /\ file # "unreadable" /\ ~(disk.high < memory.high)
  BY DEF Restart
<1>2. memory' = Loaded(file)
  BY DEF Restart
<1>3. disk \in Store /\ disk.high \in Nat /\ memory.high \in Nat
  BY DocsAssumption DEF TypeOK, Store
<1>4. memory'.high = disk.high
  BY <1>1, <1>2, <1>3, ReadableKeepsTheMark
<1>5. QED
  BY <1>1, <1>3, <1>4

\* A delivery is taken above the high water; a restart makes of the file what it can.
LEMMA CabinetKeepsCabinet ==
  ASSUME CabinetInv,
         \/ \E m \in Message : Deliver(m, TRUE) \/ Deliver(m, FALSE)
         \/ \E file \in {"good", "ignored", "unreadable"} : Restart(file)
  PROVE  CabinetInv'
<1> USE DocsAssumption DEF CabinetInv, Held
<1>0. /\ memory.version \in Nat /\ memory.high \in Nat /\ forgotten \in Nat
      /\ disk.version \in Nat /\ disk.high \in Nat
      /\ \A n \in sent : n.version \in Nat
  BY DEF TypeOK, Store, Message
<1>1. ASSUME NEW m \in Message, NEW repeated \in BOOLEAN, Deliver(m, repeated)
      PROVE  CabinetInv'
  <2>0. m \in sent
    BY <1>1 DEF Deliver, LeftBefore
  <2>1. (memory \in Store /\ disk \in Store)'
    BY <1>1 DEF Deliver, Apply, TypeOK, Store, Message
  <2>2. TypeOK'
    BY <1>1, <2>1 DEF Deliver, TypeOK, consoleVars
  <2>3. LeftBefore'
    BY <1>1 DEF Deliver, LeftBefore
  <2>4. CASE m.version > memory.high /\ m.doc.base \notin Invalid
    <3>1. /\ memory' = [version |-> m.version, high |-> m.version, doc |-> m.doc]
          /\ disk' = memory' \/ disk' = disk
          /\ UNCHANGED <<sent, forgotten, unmarked>>
      BY <1>1, <2>4 DEF Deliver, Apply
    <3>2. [version |-> m.version, doc |-> m.doc] = m
      BY <1>1 DEF Message
    <3>3. m.version \in Nat /\ memory'.version = m.version /\ memory'.high = m.version
      BY <1>0, <2>0, <3>1
    <3>4. (Taken(memory) /\ Taken(disk))'
      BY <2>0, <3>1, <3>2 DEF Taken
    <3>5. (MarkIsOfTheDoc /\ FileIsBehind /\ MarkHolds)'
      BY <1>0, <2>4, <3>1, <3>3 DEF MarkIsOfTheDoc, FileIsBehind, MarkHolds
    <3>6. Consumed'
      BY <1>0, <1>1, <2>4, <3>1, <3>3 DEF Consumed, Deliver
    <3>7. QED
      BY <2>2, <2>3, <3>4, <3>5, <3>6
  <2>5. CASE ~(m.version > memory.high /\ m.doc.base \notin Invalid)
    <3>1. UNCHANGED <<memory, disk, sent, forgotten, unmarked>>
      BY <1>1, <2>5 DEF Deliver
    <3>2. (Taken(memory) /\ Taken(disk) /\ MarkIsOfTheDoc /\ FileIsBehind /\ MarkHolds)'
      BY <3>1 DEF Taken, MarkIsOfTheDoc, FileIsBehind, MarkHolds
    <3>3. Consumed'
      BY <1>0, <1>1, <2>0, <2>5, <3>1 DEF Consumed, Deliver
    <3>4. QED
      BY <2>2, <2>3, <3>2, <3>3
  <2>6. QED
    BY <2>4, <2>5
<1>2. ASSUME NEW file \in {"good", "ignored", "unreadable"}, Restart(file)
      PROVE  CabinetInv'
  <2>1. /\ memory' \in Store /\ memory'.version <= memory'.high
        /\ memory'.high = disk.high \/ memory'.high = 0
        /\ (memory'.version = 0 /\ memory'.doc = NoDoc) \/ memory' = disk
    BY <1>0, <1>2 DEF Restart, Loaded, Factory, TypeOK, Store, MarkIsOfTheDoc
  <2>2. /\ UNCHANGED <<disk, sent, inbox>>
        /\ forgotten' \in 0..MaxVersion /\ forgotten <= forgotten'
        /\ memory' = memory \/ memory.high <= forgotten'
    BY <1>0, <1>2 DEF Restart, netVars, TypeOK, Store
  <2>3. TypeOK'
    BY <1>2, <2>1, <2>2 DEF Restart, TypeOK, consoleVars, netVars
  <2>4. LeftBefore'
    BY <1>2 DEF Restart, LeftBefore, netVars
  <2>5. (Taken(memory) /\ Taken(disk))'
    BY <2>1, <2>2 DEF Taken
  <2>6. (MarkIsOfTheDoc /\ FileIsBehind)'
    <3>1. memory'.high \in Nat /\ memory'.version \in Nat /\ forgotten' \in Nat
      BY <2>1, <2>2 DEF Store
    <3>2. memory' # memory => disk.high <= forgotten'
      BY <1>0, <2>2, <3>1 DEF FileIsBehind
    <3>3. QED
      BY <1>0, <2>1, <2>2, <3>1, <3>2 DEF MarkIsOfTheDoc, FileIsBehind
  <2>7. MarkHolds'
    <3>1. ~unmarked' => memory'.high = disk.high /\ memory.high <= disk.high /\ ~unmarked
      BY <1>2, LostMarkIsTold
    <3>2. forgotten' = forgotten \/ forgotten' = memory.high
      BY <1>2 DEF Restart
    <3>3. QED
      BY <1>0, <3>1, <3>2 DEF MarkHolds
  <2>8. Consumed'
    BY <1>0, <2>2 DEF Consumed
  <2>9. QED
    BY <2>3, <2>4, <2>5, <2>6, <2>7, <2>8
<1>3. QED
  BY <1>1, <1>2

\* No step of console, worker, network or cabinet breaks what the cabinet holds.
LEMMA CabinetStep == CabinetInv /\ [Next]_vars => CabinetInv'
<1> SUFFICES ASSUME CabinetInv, [Next]_vars PROVE CabinetInv'
  OBVIOUS
<1> USE DocsAssumption DEF CabinetInv
<1>1. CASE ActivateRuleSet \/ RetireOrRestore
  <2>1. active' \in Bases \cup {NoBase} /\ edits' \in 0..MaxEdits
    BY <1>1 DEF ActivateRuleSet, RetireOrRestore, TypeOK
  <2>2. retired' \in BOOLEAN
    BY <1>1 DEF ActivateRuleSet, RetireOrRestore, TypeOK
  <2>3. UNCHANGED <<record, writer, inbox, sent, stray, edgeVars>>
    BY <1>1 DEF ActivateRuleSet, RetireOrRestore, netVars
  <2>4. QED
    BY <2>1, <2>2, <2>3
       DEF TypeOK, LeftBefore, edgeVars, Held, Taken, MarkIsOfTheDoc, FileIsBehind, MarkHolds,
           Consumed
<1>2. CASE UNCHANGED vars
  BY <1>2 DEF vars, consoleVars, netVars, edgeVars, TypeOK, LeftBefore, Held, Taken,
              MarkIsOfTheDoc, FileIsBehind, MarkHolds, Consumed
<1>3. QED
  BY <1>1, <1>2, CloudKeepsCabinet, CabinetKeepsCabinet DEF Next

\* With the lock a transaction finds the version after the recorded one free.
LEMMA LockStep ==
  ASSUME Serialised, CabinetInv, LockInv, [Next]_vars
  PROVE  LockInv'
<1> USE DocsAssumption DEF LockInv
<1>0. TypeOK /\ LeftBefore /\ record.version \in Nat /\ \A m \in sent : m.version \in Nat
  BY DEF CabinetInv, TypeOK, Message, Unpublished
<1>1. ASSUME NEW w \in Writers, Read(w)
      PROVE  LockInv'
  <2>1. \A v \in Writers : ~Busy(v)
    BY <1>1 DEF Read, Busy
  <2>2. writer' = [writer EXCEPT ![w] =
           [pc |-> "read", msg |-> [version |-> record.version + 1, doc |-> Merged]]]
    BY <1>1 DEF Read
  <2>3. (OneAtATime /\ HoldsTheNext)'
    BY <1>1, <2>1, <2>2, <1>0 DEF OneAtATime, HoldsTheNext, Busy, TypeOK, Read
  <2>4. (RecordedOrHeld /\ OneDoc)'
    BY <1>1, <2>1 DEF Read, RecordedOrHeld, OneDoc, netVars, Busy, Idle
  <2>5. QED
    BY <2>3, <2>4
<1>2. ASSUME NEW w \in Writers, Publish(w)
      PROVE  LockInv'
  <2>1. /\ Busy(w) /\ writer[w] \in Transaction /\ writer[w].msg \in Message
        /\ writer[w].msg.version = record.version + 1
    BY <1>0, <1>2, OpenCarriesAMessage DEF Publish, Busy, Idle, HoldsTheNext
  <2>2. \A m \in sent \ stray : m.version < record.version \/ m = record
    BY <1>2, <2>1 DEF Publish, RecordedOrHeld, OneAtATime, Busy, Idle
  <2>3. (OneAtATime /\ HoldsTheNext)'
    BY <1>0, <1>2, <2>1 DEF Publish, OneAtATime, HoldsTheNext, Busy, TypeOK, Transaction
  <2>4. writer'[w].pc = "published" /\ writer'[w].msg = writer[w].msg
    BY <1>0, <1>2, <2>1 DEF Publish, TypeOK, Transaction
  <2>5. RecordedOrHeld'
    BY <1>2, <2>2, <2>4 DEF Publish, Send, RecordedOrHeld
  <2>6. OneDoc'
    BY <1>0, <1>2, <2>1, <2>2 DEF Publish, Send, OneDoc
  <2>7. QED
    BY <2>3, <2>5, <2>6
<1>3. ASSUME NEW w \in Writers, PublishFails(w) \/ Rollback(w)
      PROVE  LockInv'
  <2>1. sent' \ stray' \subseteq sent \ stray
    BY <1>3 DEF PublishFails, Rollback, Send, Fault, netVars
  <2>2. Busy(w)
    BY <1>3 DEF PublishFails, Rollback, Busy, Idle
  <2>3. (OneAtATime /\ HoldsTheNext)'
    BY <1>0, <1>3 DEF PublishFails, Rollback, OneAtATime, HoldsTheNext, Busy, TypeOK
  <2>4. ASSUME NEW m \in sent' \ stray'
        PROVE  m.version < record'.version \/ m = record'
    <3>1. ~(writer[w].pc = "published" /\ writer[w].msg = m)
      BY <1>3, <2>4 DEF PublishFails, Rollback, Fault
    <3>2. QED
      BY <1>3, <2>1, <2>2, <3>1, <2>4
         DEF PublishFails, Rollback, RecordedOrHeld, OneAtATime, Busy, Idle
  <2>5. OneDoc'
    BY <2>1 DEF OneDoc
  <2>6. QED
    BY <2>3, <2>4, <2>5 DEF RecordedOrHeld
<1>4. ASSUME NEW w \in Writers, Commit(w)
      PROVE  LockInv'
  <2>1. Busy(w) /\ record'.version = record.version + 1
    BY <1>4 DEF Commit, HoldsTheNext, Busy, Idle
  <2>2. \A v \in Writers : ~Busy(v)'
    BY <1>0, <1>4, <2>1 DEF Commit, OneAtATime, Busy, TypeOK
  <2>3. (OneAtATime /\ HoldsTheNext)'
    BY <2>2 DEF OneAtATime, HoldsTheNext
  <2>4. \A m \in sent \ stray : m.version < record'.version \/ m = record'
    BY <1>0, <1>4, <2>1 DEF Commit, RecordedOrHeld, OneAtATime, Busy, Idle
  <2>5. (RecordedOrHeld /\ OneDoc)'
    BY <1>4, <2>4 DEF Commit, RecordedOrHeld, OneDoc, netVars
  <2>6. QED
    BY <2>3, <2>5
<1>5. CASE UNCHANGED <<record, writer, sent, stray>>
  BY <1>5 DEF OneAtATime, HoldsTheNext, RecordedOrHeld, OneDoc, Busy
<1>6. QED
  BY <1>1, <1>2, <1>3, <1>4, <1>5
     DEF Next, ActivateRuleSet, RetireOrRestore, Deliver, Restart, vars, netVars
-----------------------------------------------------------------------------
\* The invariant of the cabinet holds with the lock or without it.
THEOREM CabinetInvariance == Spec => []CabinetInv
<1>1. Init => CabinetInv
  BY Begins
<1>2. QED
  BY <1>1, CabinetStep, PTL DEF Spec

\* Type correctness, for the worker (serialised) and for the requests (not).
THEOREM Typing == Spec => []TypeOK
<1>1. CabinetInv => TypeOK
  BY DEF CabinetInv
<1>2. QED
  BY <1>1, CabinetInvariance, PTL

\* No message, repeated or late, takes the cabinet back, not even to what a restart
\* made it forget, while its mark was not lost (store.py apply_signed_update, _load_cache).
THEOREM CabinetNeverGoesBack == Spec => NeverBack
<1> DEFINE Forward ==
      IF restarts' = restarts
      THEN memory'.version > memory.version /\ (unmarked \/ memory'.version > forgotten)
      ELSE memory'.high >= memory.high \/ unmarked'
<1>1. ASSUME CabinetInv, [Next]_vars
      PROVE  [Forward]_memory
  <2>1. /\ TypeOK /\ MarkIsOfTheDoc /\ MarkHolds /\ restarts \in Nat
        /\ memory.high \in Nat /\ memory.version \in Nat /\ forgotten \in Nat
        /\ disk.high \in Nat
    BY <1>1, DocsAssumption DEF CabinetInv, Held, TypeOK, Store
  <2>2. ASSUME NEW m \in Message, NEW repeated \in BOOLEAN, Deliver(m, repeated)
        PROVE  UNCHANGED memory \/ Forward
    BY <2>1, <2>2, DocsAssumption DEF Deliver, Apply, MarkIsOfTheDoc, MarkHolds, Message
  <2>3. ASSUME NEW file \in {"good", "ignored", "unreadable"}, Restart(file)
        PROVE  Forward
    <3>1. ~unmarked' => memory'.high >= memory.high
      BY <2>1, <2>3, LostMarkIsTold
    <3>2. restarts' # restarts
      BY <2>1, <2>3 DEF Restart
    <3>3. QED
      BY <3>1, <3>2
  <2>4. CASE UNCHANGED memory
    BY <2>4
  <2>5. QED
    BY <1>1, <2>2, <2>3, <2>4
       DEF Next, ActivateRuleSet, RetireOrRestore, Read, Publish, PublishFails, Commit,
           Rollback, edgeVars, vars
<1>2. QED
  BY <1>1, CabinetInvariance, PTL DEF Spec, NeverBack

\* With the lock, the invariant of the versions.
THEOREM LockInvariance == ASSUME Serialised PROVE Spec => [](CabinetInv /\ LockInv)
<1>1. Init => CabinetInv /\ LockInv
  BY Begins
<1>2. CabinetInv /\ LockInv /\ [Next]_vars => (CabinetInv /\ LockInv)'
  BY CabinetStep, LockStep
<1>3. QED
  BY <1>1, <1>2, PTL DEF Spec

\* One version names two documents only after a publication that was left
\* without its record (sync.py: the lock, then publish, then the upsert).
THEOREM VersionsNameOneDoc == ASSUME Serialised PROVE Spec => []SharedOnlyByStray
<1>1. CabinetInv /\ LockInv => SharedOnlyByStray
  BY DEF CabinetInv, LockInv, OneDoc, SharedOnlyByStray
<1>2. QED
  BY <1>1, LockInvariance, PTL

\* At rest, what the cloud shows as in sync is what the cabinet runs, unless the document
\* is not valid, a restart lost it, or its version was spent (sync.py, queries/fleet.py).
THEOREM InSyncTellsTheTruth == ASSUME Serialised PROVE Spec => []InSyncIsTrue
<1>1. ASSUME CabinetInv, LockInv, Quiet, ~Excused
      PROVE  memory.version = record.version /\ memory.doc = record.doc
  <2> DEFINE held == [version |-> memory.version, doc |-> memory.doc]
  <2>1. /\ TypeOK /\ LeftBefore /\ Taken(memory) /\ MarkIsOfTheDoc
        /\ record.version \in Nat /\ memory.version \in Nat /\ memory.high \in Nat
        /\ forgotten \in Nat
        /\ \A m \in sent : m.version \in Nat /\ m.version >= 1
    BY <1>1, DocsAssumption
       DEF CabinetInv, Held, LockInv, TypeOK, Store, Message, Unpublished
  <2>2. \A m \in sent : m.version < record.version \/ m = record
    BY <1>1, <2>1 DEF LockInv, RecordedOrHeld, Quiet, Idle, Excused, Spent
  <2>3. CASE sent = {}
    BY <2>1, <2>3 DEF LeftBefore, Taken, Unpublished
  <2>4. CASE sent # {}
    <3>1. record \in sent
      BY <2>1, <2>2, <2>4 DEF LeftBefore, Unpublished
    <3>2. record.version > forgotten /\ record.version <= memory.high
      BY <1>1, <2>1, <3>1
         DEF CabinetInv, Held, Consumed, Quiet, Excused, Refused, Forgotten
    <3>3. memory.version >= record.version
      BY <2>1, <3>2 DEF MarkIsOfTheDoc
    <3>4. held \in sent
      BY <2>1, <3>1, <3>3 DEF Taken
    <3>5. QED
      BY <2>1, <2>2, <3>3, <3>4
  <2>5. QED
    BY <2>3, <2>4
<1>2. CabinetInv /\ LockInv => InSyncIsTrue
  BY <1>1 DEF InSyncIsTrue
<1>3. QED
  BY <1>2, LockInvariance, PTL
=============================================================================
