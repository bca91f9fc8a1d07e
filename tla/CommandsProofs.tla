--------------------------- MODULE CommandsProofs ---------------------------
(***************************************************************************)
(* For every set of commands and every number of restarts: an order runs   *)
(* at most once per life of its cabinet, it is shown as carried out only   *)
(* if it was, a final row never changes again, an order that ran is not    *)
(* left unanswered, and a drill is shown as its sites do it.               *)
(***************************************************************************)
EXTENDS Commands, TLAPS

\* An order that runs is remembered until the restart that may run it again.
RunsAreRemembered ==
  \A c \in Orders :
    ran[c] <= (IF c \in restarted THEN 1 ELSE 0) + (IF c \in nonces THEN 1 ELSE 0)

\* What is said of an order, in the cabinet, on the way or in its row, it did.
WordsAreTrue ==
  \A c \in Orders :
    /\ stage[c] = "done" \/ playing[c] # "no" \/ row[c] = "acked" => ran[c] > 0
    /\ \A a \in acks : a.cmd = c /\ a.kind # "refused" => ran[c] > 0

\* The orders of a drill commit together: none is left in its transaction.
Saved == {"pending"} \cup Final
CommitsTogether ==
  \A c, d \in Drill : row[c] \in Saved => row[d] \notin {"new", "unsaved"}

\* And a site is marked as cut only on a row that was acknowledged.
MarkedIsAcked == \A c \in aborted : row[c] = "acked"

IInv == TypeOK /\ RunsAreRemembered /\ WordsAreTrue /\ CommitsTogether /\ MarkedIsAcked
-----------------------------------------------------------------------------
\* Before the first request nothing has run, been said or been saved.
LEMMA Begins == Init => IInv
  BY DEF Init, IInv, TypeOK, RunsAreRemembered, WordsAreTrue, CommitsTogether,
         MarkedIsAcked, Final, Saved, Drill

\* Every step of the request, the worker, the queues, the cabinet and its drill keeps it.
LEMMA Step == IInv /\ [Next]_vars => IInv'
<1> SUFFICES ASSUME IInv, [Next]_vars PROVE IInv'
  OBVIOUS
<1> USE DEF IInv
<1>1. ASSUME NEW c \in Orders, Issue(c)
      PROVE  IInv'
  <2>1. TypeOK'
    BY <1>1 DEF Issue, TypeOK, edgeVars, Drill
  <2>2. WordsAreTrue'
    BY <1>1 DEF Issue, WordsAreTrue, edgeVars
  <2>3. CommitsTogether'
    BY <1>1 DEF Issue, CommitsTogether, Drill, Final, Saved
  <2>4. MarkedIsAcked'
    BY <1>1 DEF Issue, MarkedIsAcked
  <2>5. RunsAreRemembered'
    BY <1>1 DEF Issue, edgeVars, RunsAreRemembered
  <2>6. QED
    BY <2>1, <2>2, <2>3, <2>4, <2>5
<1>2. ASSUME NEW c \in Orders, IssueRefused(c)
      PROVE  IInv'
  <2>1. TypeOK'
    BY <1>2 DEF IssueRefused, TypeOK, netVars, edgeVars, Drill
  <2>2. WordsAreTrue'
    BY <1>2 DEF IssueRefused, WordsAreTrue, netVars, edgeVars
  <2>3. CommitsTogether'
    BY <1>2 DEF IssueRefused, CommitsTogether, Drill, Final, Saved
  <2>4. MarkedIsAcked'
    BY <1>2 DEF IssueRefused, MarkedIsAcked
  <2>5. RunsAreRemembered'
    BY <1>2 DEF IssueRefused, edgeVars, RunsAreRemembered
  <2>6. QED
    BY <2>1, <2>2, <2>3, <2>4, <2>5
<1>3. ASSUME NEW c \in Orders, PublishFails(c)
      PROVE  IInv'
  <2>1. TypeOK'
    BY <1>3 DEF PublishFails, TypeOK, edgeVars, Drill
  <2>2. WordsAreTrue'
    BY <1>3 DEF PublishFails, WordsAreTrue, edgeVars
  <2>3. CommitsTogether'
    BY <1>3 DEF PublishFails, CommitsTogether, Drill, Final, Saved
  <2>4. MarkedIsAcked'
    BY <1>3 DEF PublishFails, MarkedIsAcked
  <2>5. RunsAreRemembered'
    BY <1>3 DEF PublishFails, edgeVars, RunsAreRemembered
  <2>6. QED
    BY <2>1, <2>2, <2>3, <2>4, <2>5
<1>4. ASSUME NEW c \in Orders, Commit(c)
      PROVE  IInv'
  <2>1. TypeOK'
    BY <1>4 DEF Commit, SaveAs, TypeOK, netVars, edgeVars, Drill
  <2>2. WordsAreTrue'
    BY <1>4 DEF Commit, SaveAs, WordsAreTrue, netVars, edgeVars
  <2>3. CommitsTogether'
    BY <1>4 DEF Commit, SaveAs, Request, CommitsTogether, Drill
  <2>4. MarkedIsAcked'
    BY <1>4 DEF Commit, SaveAs, TypeOK, MarkedIsAcked, Drill
  <2>5. RunsAreRemembered'
    BY <1>4 DEF Commit, edgeVars, RunsAreRemembered
  <2>6. QED
    BY <2>1, <2>2, <2>3, <2>4, <2>5
<1>5. ASSUME NEW c \in Orders, RollBack(c)
      PROVE  IInv'
  <2>1. TypeOK'
    BY <1>5 DEF RollBack, SaveAs, Request, TypeOK, CommitsTogether, MarkedIsAcked,
           netVars, edgeVars, Drill, Saved
  <2>2. WordsAreTrue'
    BY <1>5 DEF RollBack, SaveAs, WordsAreTrue, netVars, edgeVars
  <2>3. CommitsTogether'
    BY <1>5 DEF RollBack, SaveAs, Request, CommitsTogether, Drill
  <2>4. MarkedIsAcked'
    BY <1>5 DEF RollBack, SaveAs, TypeOK, MarkedIsAcked, Drill
  <2>5. RunsAreRemembered'
    BY <1>5 DEF RollBack, edgeVars, RunsAreRemembered
  <2>6. QED
    BY <2>1, <2>2, <2>3, <2>4, <2>5
<1>6. ASSUME NEW c \in Orders, Expire(c)
      PROVE  IInv'
  <2>1. TypeOK'
    BY <1>6 DEF Expire, TypeOK, netVars, edgeVars, Drill, Final
  <2>2. WordsAreTrue'
    BY <1>6 DEF Expire, WordsAreTrue, netVars, edgeVars
  <2>3. CommitsTogether'
    BY <1>6 DEF Expire, CommitsTogether, Drill, Saved
  <2>4. MarkedIsAcked'
    BY <1>6 DEF Expire, MarkedIsAcked
  <2>5. RunsAreRemembered'
    BY <1>6 DEF Expire, edgeVars, RunsAreRemembered
  <2>6. QED
    BY <2>1, <2>2, <2>3, <2>4, <2>5
<1>7. ASSUME StopDrill
      PROVE  IInv'
  <2>1. TypeOK'
    BY <1>7 DEF StopDrill, TypeOK, netVars, edgeVars, Drill
  <2>2. (RunsAreRemembered /\ WordsAreTrue /\ CommitsTogether /\ MarkedIsAcked)'
    BY <1>7 DEF StopDrill, netVars, edgeVars, RunsAreRemembered, WordsAreTrue,
           CommitsTogether, MarkedIsAcked, Drill
  <2>3. QED
    BY <2>1, <2>2
<1>8. ASSUME NEW c \in Orders, Receive(c)
      PROVE  IInv'
  <2>1. TypeOK'
    BY <1>8 DEF Receive, Refused, CarriedOut, TypeOK, RunsAreRemembered, cloudVars, Drill
  <2>2. RunsAreRemembered'
    BY <1>8 DEF Receive, Refused, CarriedOut, TypeOK, RunsAreRemembered
  <2>3. WordsAreTrue'
    BY <1>8 DEF Receive, Refused, CarriedOut, TypeOK, WordsAreTrue, cloudVars
  <2>4. (CommitsTogether /\ MarkedIsAcked)'
    BY <1>8 DEF Receive, cloudVars, CommitsTogether, MarkedIsAcked, Drill
  <2>5. QED
    BY <2>1, <2>2, <2>3, <2>4
<1>9. ASSUME NEW c \in Orders, Drop(c)
      PROVE  IInv'
  <2>1. TypeOK'
    BY <1>9 DEF Drop, TypeOK, cloudVars, edgeVars, Drill
  <2>2. (RunsAreRemembered /\ WordsAreTrue /\ CommitsTogether /\ MarkedIsAcked)'
    BY <1>9 DEF Drop, cloudVars, edgeVars, RunsAreRemembered, WordsAreTrue,
           CommitsTogether, MarkedIsAcked, Drill
  <2>3. QED
    BY <2>1, <2>2
<1>10. ASSUME NEW c \in Orders, Acknowledge(c)
      PROVE  IInv'
  <2>1. TypeOK'
    BY <1>10 DEF Acknowledge, TypeOK, cloudVars, Drill, Ack
  <2>2. WordsAreTrue'
    BY <1>10 DEF Acknowledge, TypeOK, WordsAreTrue, cloudVars
  <2>3. (RunsAreRemembered /\ CommitsTogether /\ MarkedIsAcked)'
    BY <1>10 DEF Acknowledge, cloudVars, RunsAreRemembered, CommitsTogether,
           MarkedIsAcked, Drill
  <2>4. QED
    BY <2>1, <2>2, <2>3
<1>11. ASSUME NEW c \in Orders, Restart(c)
      PROVE  IInv'
  <2>1. TypeOK'
    BY <1>11 DEF Restart, TypeOK, cloudVars, netVars, Drill
  <2>2. RunsAreRemembered'
    BY <1>11 DEF Restart, RunsAreRemembered
  <2>3. WordsAreTrue'
    BY <1>11 DEF Restart, WordsAreTrue, cloudVars, netVars
  <2>4. (CommitsTogether /\ MarkedIsAcked)'
    BY <1>11 DEF Restart, cloudVars, CommitsTogether, MarkedIsAcked, Drill
  <2>5. QED
    BY <2>1, <2>2, <2>3, <2>4
<1>12. ASSUME NEW c \in Drill, Abort(c)
      PROVE  IInv'
  <2>1. TypeOK'
    BY <1>12 DEF Abort, TypeOK, cloudVars, netVars, Drill
  <2>2. WordsAreTrue'
    BY <1>12 DEF Abort, WordsAreTrue, cloudVars, netVars
  <2>3. (RunsAreRemembered /\ CommitsTogether /\ MarkedIsAcked)'
    BY <1>12 DEF Abort, cloudVars, RunsAreRemembered, CommitsTogether,
           MarkedIsAcked, Drill
  <2>4. QED
    BY <2>1, <2>2, <2>3
<1>13. ASSUME NEW c \in Drill, TellAbort(c)
      PROVE  IInv'
  <2>1. TypeOK'
    BY <1>13 DEF TellAbort, TypeOK, cloudVars, Drill, Ack
  <2>2. WordsAreTrue'
    BY <1>13 DEF TellAbort, WordsAreTrue, cloudVars
  <2>3. (RunsAreRemembered /\ CommitsTogether /\ MarkedIsAcked)'
    BY <1>13 DEF TellAbort, cloudVars, RunsAreRemembered, CommitsTogether,
           MarkedIsAcked, Drill
  <2>4. QED
    BY <2>1, <2>2, <2>3
<1>14. ASSUME NEW c \in Drill, DrillEnds(c)
      PROVE  IInv'
  <2>1. TypeOK'
    BY <1>14 DEF DrillEnds, TypeOK, cloudVars, netVars, Drill
  <2>2. WordsAreTrue'
    BY <1>14 DEF DrillEnds, WordsAreTrue, cloudVars, netVars
  <2>3. (RunsAreRemembered /\ CommitsTogether /\ MarkedIsAcked)'
    BY <1>14 DEF DrillEnds, cloudVars, RunsAreRemembered, CommitsTogether,
           MarkedIsAcked, Drill
  <2>4. QED
    BY <2>1, <2>2, <2>3
<1>15. ASSUME NEW a \in Ack, NEW repeated \in BOOLEAN, TakeAck(a, repeated)
      PROVE  IInv'
  <2>1. TypeOK'
    BY <1>15 DEF TakeAck, Answered, AbortSite, TypeOK, edgeVars, Drill, Ack, Final
  <2>2. WordsAreTrue'
    BY <1>15 DEF TakeAck, Answered, WordsAreTrue, edgeVars
  <2>3. CommitsTogether'
    BY <1>15 DEF TakeAck, Answered, CommitsTogether, Drill, Saved
  <2>4. MarkedIsAcked'
    BY <1>15 DEF TakeAck, Answered, AbortSite, MarkedIsAcked
  <2>5. RunsAreRemembered'
    BY <1>15 DEF TakeAck, edgeVars, RunsAreRemembered
  <2>6. QED
    BY <2>1, <2>2, <2>3, <2>4, <2>5
<1>16. ASSUME UNCHANGED vars
      PROVE  IInv'
  BY <1>16 DEF vars, cloudVars, netVars, edgeVars, TypeOK, RunsAreRemembered,
         WordsAreTrue, CommitsTogether, MarkedIsAcked, Drill
<1>17. QED
  BY <1>1, <1>2, <1>3, <1>4, <1>5, <1>6, <1>7, <1>8, <1>9,
     <1>10, <1>11, <1>12, <1>13, <1>14, <1>15, <1>16
  DEF Next, Cloud, Cabinet, Controller, Drill

\* Hence it holds in every reachable state, for any number of orders and restarts.
THEOREM Invariance == Spec => []IInv
  BY Begins, Step, PTL DEF Spec

\* Type correctness; a signed order runs at most once per life of its cabinet, and a row
\* says that it was carried out only if it was (security/__init__.py:86, handlers.py:929).
THEOREM OrdersRunOnce == Spec => []OnceAndAckedMeansRan
<1>1. IInv => OnceAndAckedMeansRan
  BY DEF IInv, TypeOK, RunsAreRemembered, WordsAreTrue, OnceAndAckedMeansRan
<1>2. QED
  BY <1>1, Invariance, PTL

\* No acknowledgement, repeated, late or out of order, and no expiry changes a row that is
\* final (handlers.py:872-876).
THEOREM FinalIsFinal == Spec => NeverRevives
<1> DEFINE Kept == \A c \in Orders : row[c] \in Final => row'[c] = row[c]
<1>1. TypeOK /\ [Next]_vars => [Kept]_row
  <2> SUFFICES ASSUME TypeOK, [Next]_vars PROVE Kept
    OBVIOUS
  <2>1. ASSUME NEW c \in Orders, Cloud(c) PROVE Kept
    BY <2>1 DEF Cloud, Issue, IssueRefused, PublishFails, Commit, RollBack, SaveAs, Expire,
                TypeOK, Final
  <2>2. ASSUME NEW a \in Ack, NEW repeated \in BOOLEAN, TakeAck(a, repeated) PROVE Kept
    BY <2>2 DEF TakeAck, Answered, TypeOK, Ack, Final
  <2>3. ASSUME UNCHANGED row PROVE Kept
    BY <2>3
  <2>4. ASSUME NEW c \in Orders, Cabinet(c) \/ Controller(c) PROVE UNCHANGED row
    BY <2>4 DEF Cabinet, Receive, Drop, Acknowledge, Restart, Controller, Abort, TellAbort,
                DrillEnds, cloudVars
  <2>5. QED
    BY <2>1, <2>2, <2>3, <2>4 DEF Next, StopDrill, Drill, vars, cloudVars
<1>2. IInv => TypeOK
  BY DEF IInv
<1>3. QED
  BY <1>1, <1>2, Invariance, PTL DEF Spec, NeverRevives

-----------------------------------------------------------------------------
(***************************************************************************)
(* The second invariant follows the answers of one life of a cabinet: the  *)
(* acknowledgement of an order, and the one of a drill that is cut.        *)
(***************************************************************************)
Told(c, kind) == [cmd |-> c, kind |-> kind] \in acks

\* Before it took the command a cabinet has done nothing and said nothing.
FreshIsSilent ==
  \A c \in Orders \ (nonces \cup restarted) :
    /\ ran[c] = 0 /\ c \notin denied /\ stage[c] = "idle" /\ playing[c] = "no"
    /\ row[c] \notin {"acked", "rejected"}
    /\ c \notin cut /\ c \notin aborted
    /\ \A a \in acks : a.cmd # c

\* What ran in this life is called refused by nobody, if its cabinet did not.
OneVerdict ==
  \A c \in Orders \ (restarted \cup denied) :
    ran[c] > 0 => stage[c] # "refused" /\ row[c] # "rejected" /\ ~Told(c, "refused")

\* What ran is about to be answered, or the answer travels, or it has arrived.
AnswerTo(c) == IF c \in denied THEN "refused" ELSE "done"

AnswerIsComing ==
  \A c \in Orders \ (restarted \cup early) :
    ran[c] > 0 => \/ stage[c] = AnswerTo(c) \/ Told(c, AnswerTo(c))
                  \/ row[c] \in {"acked", "expired"}
                  \/ c \in denied /\ row[c] = "rejected"

\* So is the abort of a site, which counts only on a command that is acked.
AbortIsComing ==
  \A c \in cut \ (restarted \cup early) :
    \/ playing[c] = "aborting" \/ Told(c, "aborted") \/ c \in aborted
    \/ row[c] \in {"rejected", "expired"}
    \/ c \notin linked /\ row[c] # "new"

\* A site that told of its abort has stopped playing.
ToldMeansStopped ==
  \A c \in Orders \ restarted :
    Told(c, "aborted") \/ c \in aborted => playing[c] = "no" /\ c \in nonces

\* The rows of an open or closed drill left their transaction.
OpenIsSaved ==
  /\ drill \in {"open", "stopped", "aborted"} => \A d \in Drill : row[d] \notin {"new", "unsaved"}
  /\ \A c \in linked : row[c] \in {"unsaved"} \cup Saved

\* A drill closed by its sites has no site left that may be playing.
ClosedMayNotPlay == drill = "aborted" => \A d \in linked \ aborted : row[d] \in {"rejected", "expired"}

ToldInv ==
  /\ FreshIsSilent /\ OneVerdict /\ AnswerIsComing /\ AbortIsComing
  /\ ToldMeansStopped /\ OpenIsSaved /\ ClosedMayNotPlay
-----------------------------------------------------------------------------
\* Nothing has run or been told when the first request comes.
LEMMA BeginsUntold == Init => ToldInv
  BY DEF Init, ToldInv, FreshIsSilent, OneVerdict, AnswerIsComing, AbortIsComing,
         ToldMeansStopped, OpenIsSaved, ClosedMayNotPlay, Told, Drill

\* Every step keeps it, given the first invariant.
LEMMA ToldStep == IInv /\ ToldInv /\ [Next]_vars => ToldInv'
<1> SUFFICES ASSUME IInv, ToldInv, [Next]_vars PROVE ToldInv'
  OBVIOUS
<1> USE DEF ToldInv
<1>0. TypeOK /\ CommitsTogether /\ MarkedIsAcked /\ WordsAreTrue
  BY DEF IInv
<1>1. ASSUME NEW c \in Orders, Issue(c)
      PROVE  ToldInv'
  <2>1. FreshIsSilent'
    BY <1>1 DEF Issue, edgeVars, FreshIsSilent
  <2>2. OneVerdict'
    BY <1>1 DEF Issue, edgeVars, OneVerdict, Told
  <2>3. AnswerIsComing'
    BY <1>1 DEF Issue, edgeVars, AnswerIsComing, AnswerTo, Told
  <2>4. AbortIsComing'
    BY <1>0, <1>1 DEF Issue, edgeVars, AbortIsComing, Told, TypeOK, Drill
  <2>5. ToldMeansStopped'
    BY <1>1 DEF Issue, edgeVars, ToldMeansStopped, Told
  <2>6. OpenIsSaved'
    BY <1>0, <1>1 DEF Issue, OpenIsSaved, TypeOK, Drill
  <2>7. ClosedMayNotPlay'
    BY <1>1 DEF Issue, ClosedMayNotPlay, OpenIsSaved
  <2>8. QED
    BY <2>1, <2>2, <2>3, <2>4, <2>5, <2>6, <2>7
<1>2. ASSUME NEW c \in Orders, IssueRefused(c)
      PROVE  ToldInv'
  <2>1. FreshIsSilent'
    BY <1>2 DEF IssueRefused, netVars, edgeVars, FreshIsSilent
  <2>2. OneVerdict'
    BY <1>2 DEF IssueRefused, netVars, edgeVars, OneVerdict, Told
  <2>3. AnswerIsComing'
    BY <1>2 DEF IssueRefused, netVars, edgeVars, AnswerIsComing, AnswerTo, Told
  <2>4. AbortIsComing'
    BY <1>0, <1>2 DEF IssueRefused, netVars, edgeVars, AbortIsComing, Told, TypeOK,
                      Drill
  <2>5. ToldMeansStopped'
    BY <1>2 DEF IssueRefused, netVars, edgeVars, ToldMeansStopped, Told
  <2>6. OpenIsSaved'
    BY <1>2 DEF IssueRefused, OpenIsSaved, Drill, Saved, Final
  <2>7. ClosedMayNotPlay'
    BY <1>2 DEF IssueRefused, ClosedMayNotPlay
  <2>8. QED
    BY <2>1, <2>2, <2>3, <2>4, <2>5, <2>6, <2>7
<1>3. ASSUME NEW c \in Orders, PublishFails(c)
      PROVE  ToldInv'
  <2>1. FreshIsSilent'
    BY <1>3 DEF PublishFails, edgeVars, FreshIsSilent
  <2>2. OneVerdict'
    BY <1>3 DEF PublishFails, edgeVars, OneVerdict, Told
  <2>3. AnswerIsComing'
    BY <1>3 DEF PublishFails, edgeVars, AnswerIsComing, AnswerTo, Told
  <2>4. AbortIsComing'
    BY <1>0, <1>3 DEF PublishFails, edgeVars, AbortIsComing, Told, TypeOK, Drill
  <2>5. ToldMeansStopped'
    BY <1>3 DEF PublishFails, edgeVars, ToldMeansStopped, Told
  <2>6. OpenIsSaved'
    BY <1>3 DEF PublishFails, OpenIsSaved, Drill, Saved, Final
  <2>7. ClosedMayNotPlay'
    BY <1>3 DEF PublishFails, ClosedMayNotPlay
  <2>8. QED
    BY <2>1, <2>2, <2>3, <2>4, <2>5, <2>6, <2>7
<1>4. ASSUME NEW c \in Orders, Commit(c)
      PROVE  ToldInv'
  <2>1. FreshIsSilent'
    BY <1>4 DEF Commit, SaveAs, netVars, edgeVars, FreshIsSilent
  <2>2. OneVerdict'
    BY <1>4 DEF Commit, SaveAs, netVars, edgeVars, OneVerdict, Told
  <2>3. AnswerIsComing'
    BY <1>4 DEF Commit, SaveAs, netVars, edgeVars, AnswerIsComing, AnswerTo, Told
  <2>4. AbortIsComing'
    <3>1. ASSUME NEW d \in Orders
          PROVE  /\ row[d] # "new" => row'[d] # "new"
                 /\ row[d] \in {"rejected", "expired"} => row'[d] = row[d]
      BY <1>4 DEF Commit, SaveAs
    <3>2. cut \subseteq Orders
      BY <1>0 DEF TypeOK, Drill
    <3>3. QED
      BY <1>4, <3>1, <3>2 DEF Commit, netVars, edgeVars, AbortIsComing, Told
  <2>5. ToldMeansStopped'
    BY <1>4 DEF Commit, netVars, edgeVars, ToldMeansStopped, Told
  <2>6. OpenIsSaved'
    BY <1>0, <1>4 DEF Commit, SaveAs, Request, OpenIsSaved, TypeOK, Drill, Saved
  <2>7. ClosedMayNotPlay'
    BY <1>0, <1>4 DEF Commit, ClosedMayNotPlay, TypeOK, Drill
  <2>8. QED
    BY <2>1, <2>2, <2>3, <2>4, <2>5, <2>6, <2>7
<1>5. ASSUME NEW c \in Orders, RollBack(c)
      PROVE  ToldInv'
  <2>1. FreshIsSilent'
    BY <1>5 DEF RollBack, SaveAs, netVars, edgeVars, FreshIsSilent
  <2>2. OneVerdict'
    BY <1>5 DEF RollBack, SaveAs, netVars, edgeVars, OneVerdict, Told
  <2>3. AnswerIsComing'
    BY <1>5 DEF RollBack, SaveAs, netVars, edgeVars, AnswerIsComing, AnswerTo, Told
  <2>4. AbortIsComing'
    <3>1. ASSUME NEW d \in cut \ (restarted \cup early)
          PROVE  row'[d] # "new" /\ d \notin linked'
      <4>1. d \in Drill /\ Request(d) = Drill /\ Request(c) = Drill
        BY <1>0 DEF TypeOK, Drill, Request
      <4>3. QED
        BY <1>5, <4>1 DEF RollBack, SaveAs, Drill
    <3>2. QED
      BY <1>5, <3>1 DEF RollBack, edgeVars, AbortIsComing
  <2>5. ToldMeansStopped'
    BY <1>5 DEF RollBack, netVars, edgeVars, ToldMeansStopped, Told
  <2>6. OpenIsSaved'
    BY <1>0, <1>5 DEF RollBack, Request, OpenIsSaved, TypeOK, Drill
  <2>7. ClosedMayNotPlay'
    BY <1>0, <1>5 DEF RollBack, ClosedMayNotPlay, TypeOK, Drill
  <2>8. QED
    BY <2>1, <2>2, <2>3, <2>4, <2>5, <2>6, <2>7
<1>6. ASSUME NEW c \in Orders, Expire(c)
      PROVE  ToldInv'
  <2>1. FreshIsSilent'
    BY <1>6 DEF Expire, netVars, edgeVars, FreshIsSilent
  <2>2. OneVerdict'
    BY <1>6 DEF Expire, netVars, edgeVars, OneVerdict, Told
  <2>3. AnswerIsComing'
    BY <1>6 DEF Expire, netVars, edgeVars, AnswerIsComing, AnswerTo, Told
  <2>4. AbortIsComing'
    BY <1>0, <1>6 DEF Expire, netVars, edgeVars, AbortIsComing, Told, TypeOK, Drill
  <2>5. ToldMeansStopped'
    BY <1>6 DEF Expire, netVars, edgeVars, ToldMeansStopped, Told
  <2>6. OpenIsSaved'
    BY <1>6 DEF Expire, OpenIsSaved, Drill, Saved, Final
  <2>7. ClosedMayNotPlay'
    BY <1>6 DEF Expire, ClosedMayNotPlay
  <2>8. QED
    BY <2>1, <2>2, <2>3, <2>4, <2>5, <2>6, <2>7
<1>7. ASSUME StopDrill
      PROVE  ToldInv'
  <2>1. FreshIsSilent'
    BY <1>7 DEF StopDrill, netVars, edgeVars, FreshIsSilent
  <2>2. OneVerdict'
    BY <1>7 DEF StopDrill, netVars, edgeVars, OneVerdict, Told
  <2>3. AnswerIsComing'
    BY <1>7 DEF StopDrill, netVars, edgeVars, AnswerIsComing, AnswerTo, Told
  <2>4. AbortIsComing'
    BY <1>7 DEF StopDrill, netVars, edgeVars, AbortIsComing, Told
  <2>5. ToldMeansStopped'
    BY <1>7 DEF StopDrill, netVars, edgeVars, ToldMeansStopped, Told
  <2>6. OpenIsSaved'
    BY <1>7 DEF StopDrill, OpenIsSaved, Drill
  <2>7. ClosedMayNotPlay'
    BY <1>7 DEF StopDrill, ClosedMayNotPlay
  <2>8. QED
    BY <2>1, <2>2, <2>3, <2>4, <2>5, <2>6, <2>7
<1>8. ASSUME NEW c \in Orders, Receive(c)
      PROVE  ToldInv'
  <2>1. FreshIsSilent'
    BY <1>0, <1>8 DEF Receive, Refused, CarriedOut, cloudVars, FreshIsSilent, TypeOK
  <2>2. OneVerdict'
    BY <1>0, <1>8 DEF Receive, Refused, CarriedOut, cloudVars, OneVerdict, FreshIsSilent,
                      Told, TypeOK
  <2>3. AnswerIsComing'
    BY <1>0, <1>8 DEF Receive, Refused, CarriedOut, cloudVars, FreshIsSilent, AnswerIsComing,
                      AnswerTo, Told, TypeOK
  <2>4. AbortIsComing'
    <3>1. ASSUME NEW d \in cut \ restarted
          PROVE  playing'[d] = playing[d]
      BY <1>0, <1>8 DEF Receive, Refused, CarriedOut, FreshIsSilent, TypeOK, Drill
    <3>2. QED
      BY <1>8, <3>1 DEF Receive, cloudVars, AbortIsComing, Told
  <2>5. ToldMeansStopped'
    BY <1>0, <1>8 DEF Receive, Refused, CarriedOut, cloudVars, ToldMeansStopped, Told, TypeOK
  <2>6. OpenIsSaved'
    BY <1>8 DEF Receive, cloudVars, OpenIsSaved, Drill
  <2>7. ClosedMayNotPlay'
    BY <1>8 DEF Receive, cloudVars, ClosedMayNotPlay
  <2>8. QED
    BY <2>1, <2>2, <2>3, <2>4, <2>5, <2>6, <2>7
<1>9. ASSUME NEW c \in Orders, Drop(c)
      PROVE  ToldInv'
  <2>1. FreshIsSilent'
    BY <1>9 DEF Drop, cloudVars, edgeVars, FreshIsSilent
  <2>2. OneVerdict'
    BY <1>9 DEF Drop, cloudVars, edgeVars, OneVerdict, Told
  <2>3. AnswerIsComing'
    BY <1>9 DEF Drop, cloudVars, edgeVars, AnswerIsComing, AnswerTo, Told
  <2>4. AbortIsComing'
    BY <1>9 DEF Drop, cloudVars, edgeVars, AbortIsComing, Told
  <2>5. ToldMeansStopped'
    BY <1>9 DEF Drop, cloudVars, edgeVars, ToldMeansStopped, Told
  <2>6. OpenIsSaved'
    BY <1>9 DEF Drop, cloudVars, OpenIsSaved, Drill
  <2>7. ClosedMayNotPlay'
    BY <1>9 DEF Drop, cloudVars, ClosedMayNotPlay
  <2>8. QED
    BY <2>1, <2>2, <2>3, <2>4, <2>5, <2>6, <2>7
<1>10. ASSUME NEW c \in Orders, Acknowledge(c)
      PROVE  ToldInv'
  <2>1. FreshIsSilent'
    BY <1>10 DEF Acknowledge, cloudVars, FreshIsSilent
  <2>2. OneVerdict'
    BY <1>10 DEF Acknowledge, cloudVars, OneVerdict, Told
  <2>3. AnswerIsComing'
    BY <1>10 DEF Acknowledge, cloudVars, AnswerIsComing, AnswerTo, Told
  <2>4. AbortIsComing'
    BY <1>10 DEF Acknowledge, cloudVars, AbortIsComing, Told
  <2>5. ToldMeansStopped'
    BY <1>0, <1>10 DEF Acknowledge, cloudVars, ToldMeansStopped, Told, TypeOK
  <2>6. OpenIsSaved'
    BY <1>10 DEF Acknowledge, cloudVars, OpenIsSaved, Drill
  <2>7. ClosedMayNotPlay'
    BY <1>10 DEF Acknowledge, cloudVars, ClosedMayNotPlay
  <2>8. QED
    BY <2>1, <2>2, <2>3, <2>4, <2>5, <2>6, <2>7
<1>11. ASSUME NEW c \in Orders, Restart(c)
      PROVE  ToldInv'
  <2>1. FreshIsSilent'
    BY <1>11 DEF Restart, cloudVars, netVars, FreshIsSilent
  <2>2. OneVerdict'
    BY <1>11 DEF Restart, cloudVars, netVars, OneVerdict, Told
  <2>3. AnswerIsComing'
    BY <1>11 DEF Restart, cloudVars, netVars, AnswerIsComing, AnswerTo, Told
  <2>4. AbortIsComing'
    BY <1>0, <1>11 DEF Restart, cloudVars, netVars, AbortIsComing, Told, TypeOK, Drill
  <2>5. ToldMeansStopped'
    BY <1>11 DEF Restart, cloudVars, netVars, ToldMeansStopped, Told
  <2>6. OpenIsSaved'
    BY <1>11 DEF Restart, cloudVars, OpenIsSaved, Drill
  <2>7. ClosedMayNotPlay'
    BY <1>11 DEF Restart, cloudVars, ClosedMayNotPlay
  <2>8. QED
    BY <2>1, <2>2, <2>3, <2>4, <2>5, <2>6, <2>7
<1>12. ASSUME NEW c \in Drill, Abort(c)
      PROVE  ToldInv'
  <2>1. FreshIsSilent'
    BY <1>12 DEF Abort, cloudVars, netVars, FreshIsSilent
  <2>2. OneVerdict'
    BY <1>12 DEF Abort, cloudVars, netVars, OneVerdict, Told
  <2>3. AnswerIsComing'
    BY <1>12 DEF Abort, cloudVars, netVars, AnswerIsComing, AnswerTo, Told
  <2>4. AbortIsComing'
    <3>1. /\ cut' = cut \cup {c} /\ UNCHANGED <<restarted, early, acks, aborted, row, linked>>
          /\ playing' = [playing EXCEPT ![c] = "aborting"] /\ c \in DOMAIN playing
      BY <1>0, <1>12 DEF Abort, cloudVars, netVars, TypeOK, Drill
    <3>2. \A d : Told(d, "aborted")' = Told(d, "aborted")
      BY <3>1 DEF Told
    <3>3. playing'[c] = "aborting" /\ \A d \in cut : playing'[d] \in {playing[d], "aborting"}
      BY <1>0, <3>1 DEF TypeOK
    <3>4. QED
      BY <1>0, <3>1, <3>2, <3>3 DEF AbortIsComing
  <2>5. ToldMeansStopped'
    BY <1>12 DEF Abort, cloudVars, netVars, ToldMeansStopped, Told
  <2>6. OpenIsSaved'
    BY <1>12 DEF Abort, cloudVars, OpenIsSaved, Drill
  <2>7. ClosedMayNotPlay'
    BY <1>12 DEF Abort, cloudVars, ClosedMayNotPlay
  <2>8. QED
    BY <2>1, <2>2, <2>3, <2>4, <2>5, <2>6, <2>7
<1>13. ASSUME NEW c \in Drill, TellAbort(c)
      PROVE  ToldInv'
  <2>1. FreshIsSilent'
    BY <1>13 DEF TellAbort, cloudVars, FreshIsSilent
  <2>2. OneVerdict'
    BY <1>13 DEF TellAbort, cloudVars, OneVerdict, Told
  <2>3. AnswerIsComing'
    BY <1>13 DEF TellAbort, cloudVars, AnswerIsComing, AnswerTo, Told
  <2>4. AbortIsComing'
    BY <1>0, <1>13 DEF TellAbort, cloudVars, AbortIsComing, Told, TypeOK, Drill
  <2>5. ToldMeansStopped'
    BY <1>0, <1>13 DEF TellAbort, cloudVars, ToldMeansStopped, FreshIsSilent, Told,
                       TypeOK
  <2>6. OpenIsSaved'
    BY <1>13 DEF TellAbort, cloudVars, OpenIsSaved, Drill
  <2>7. ClosedMayNotPlay'
    BY <1>13 DEF TellAbort, cloudVars, ClosedMayNotPlay
  <2>8. QED
    BY <2>1, <2>2, <2>3, <2>4, <2>5, <2>6, <2>7
<1>14. ASSUME NEW c \in Drill, DrillEnds(c)
      PROVE  ToldInv'
  <2>1. FreshIsSilent'
    BY <1>14 DEF DrillEnds, cloudVars, netVars, FreshIsSilent
  <2>2. OneVerdict'
    BY <1>14 DEF DrillEnds, cloudVars, netVars, OneVerdict, Told
  <2>3. AnswerIsComing'
    BY <1>14 DEF DrillEnds, cloudVars, netVars, AnswerIsComing, AnswerTo, Told
  <2>4. AbortIsComing'
    BY <1>0, <1>14 DEF DrillEnds, cloudVars, netVars, AbortIsComing, Told, TypeOK, Drill
  <2>5. ToldMeansStopped'
    BY <1>14 DEF DrillEnds, cloudVars, netVars, ToldMeansStopped, Told
  <2>6. OpenIsSaved'
    BY <1>14 DEF DrillEnds, cloudVars, OpenIsSaved, Drill
  <2>7. ClosedMayNotPlay'
    BY <1>14 DEF DrillEnds, cloudVars, ClosedMayNotPlay
  <2>8. QED
    BY <2>1, <2>2, <2>3, <2>4, <2>5, <2>6, <2>7
<1>15. ASSUME NEW a \in Ack, NEW repeated \in BOOLEAN, TakeAck(a, repeated)
      PROVE  ToldInv'
  <2>1. FreshIsSilent'
    BY <1>15 DEF TakeAck, Answered, AbortSite, edgeVars, FreshIsSilent
  <2>2. OneVerdict'
    BY <1>15 DEF TakeAck, Answered, edgeVars, Ack, OneVerdict, Told
  <2>3. AnswerIsComing'
    <3>1. ASSUME NEW d \in Orders \ (restarted \cup early'), ran[d] > 0
          PROVE  \/ stage[d] = AnswerTo(d) \/ Told(d, AnswerTo(d))'
                 \/ row'[d] \in {"acked", "expired"}
                 \/ d \in denied /\ row'[d] = "rejected"
      <4>1. CASE a = [cmd |-> d, kind |-> AnswerTo(d)]
        <5>1. CASE d \in denied
          BY <1>0, <1>15, <3>1, <4>1, <5>1 DEF TakeAck, Answered, AnswerTo, TypeOK, Final
        <5>2. CASE d \notin denied
          BY <1>0, <1>15, <3>1, <4>1, <5>2 DEF TakeAck, Answered, AnswerTo, OneVerdict,
                                               TypeOK, Final
        <5>3. QED
          BY <5>1, <5>2
      <4>2. CASE a # [cmd |-> d, kind |-> AnswerTo(d)]
        <5>1. denied' = denied /\ (Told(d, AnswerTo(d)) => Told(d, AnswerTo(d))')
          BY <1>15, <4>2 DEF TakeAck, edgeVars, AnswerTo, Told
        <5>2. row[d] \in {"acked", "expired", "rejected"} => row'[d] = row[d]
          BY <1>15 DEF TakeAck, Answered
        <5>3. QED
          BY <1>15, <3>1, <5>1, <5>2 DEF TakeAck, AnswerIsComing
      <4>3. QED
        BY <4>1, <4>2
    <3>2. QED
      BY <1>15, <3>1 DEF TakeAck, edgeVars, AnswerIsComing, AnswerTo
  <2>4. AbortIsComing'
    <3>1. ASSUME NEW d \in cut \ (restarted \cup early')
          PROVE  \/ playing[d] = "aborting" \/ Told(d, "aborted")' \/ d \in aborted'
                 \/ row'[d] \in {"rejected", "expired"}
                 \/ d \notin linked /\ row'[d] # "new"
      <4>0. d \in Orders
        BY <1>0 DEF TypeOK, Drill
      <4>1. CASE a = [cmd |-> d, kind |-> "aborted"]
        BY <1>0, <1>15, <4>0, <4>1 DEF TakeAck, Answered, AbortSite, TypeOK, Final
      <4>2. CASE a # [cmd |-> d, kind |-> "aborted"]
        <5>1. Told(d, "aborted") => Told(d, "aborted")'
          BY <1>15, <4>2 DEF TakeAck, Told
        <5>2. /\ row[d] \in {"rejected", "expired"} => row'[d] = row[d]
              /\ row[d] # "new" => row'[d] # "new"
          BY <1>15 DEF TakeAck, Answered
        <5>3. d \in aborted => d \in aborted'
          BY <1>15 DEF TakeAck, AbortSite
        <5>4. QED
          BY <1>15, <5>1, <5>2, <5>3 DEF TakeAck, AbortIsComing
      <4>3. QED
        BY <4>1, <4>2
    <3>2. QED
      BY <1>15, <3>1 DEF TakeAck, edgeVars, AbortIsComing
  <2>5. ToldMeansStopped'
    BY <1>15 DEF TakeAck, AbortSite, edgeVars, Ack, ToldMeansStopped, Told
  <2>6. OpenIsSaved'
    BY <1>0, <1>15 DEF TakeAck, Answered, Ack, OpenIsSaved, Drill, Saved, Final,
                       CommitsTogether
  <2>7. ClosedMayNotPlay'
    BY <1>0, <1>15 DEF TakeAck, Answered, AbortSite, MayPlay, ClosedMayNotPlay,
                       OpenIsSaved, TypeOK, Saved, Final
  <2>8. QED
    BY <2>1, <2>2, <2>3, <2>4, <2>5, <2>6, <2>7
<1>16. ASSUME UNCHANGED vars
      PROVE  ToldInv'
  BY <1>16 DEF vars, cloudVars, netVars, edgeVars, FreshIsSilent, OneVerdict, AnswerIsComing, AnswerTo,
         AbortIsComing, ToldMeansStopped, OpenIsSaved, ClosedMayNotPlay, Told, Drill
<1>17. QED
  BY <1>1, <1>2, <1>3, <1>4, <1>5, <1>6, <1>7, <1>8, <1>9, <1>10, <1>11, <1>12, <1>13,
     <1>14, <1>15, <1>16
     DEF Next, Cloud, Cabinet, Controller

\* What every reachable state satisfies of orders and of what is told of them.
THEOREM ToldInvariance == Spec => [](IInv /\ ToldInv)
<1>1. Init => IInv /\ ToldInv
  BY Begins, BeginsUntold
<1>2. IInv /\ ToldInv /\ [Next]_vars => (IInv /\ ToldInv)'
  BY Step, ToldStep
<1>3. QED
  BY <1>1, <1>2, PTL DEF Spec

\* An order that ran is not left waiting, whatever the queues repeat, reorder or
\* delay (handlers.py handle_command_ack), and is shown as rejected only if its
\* cabinet called it failed (dispatch/__init__.py:365).
THEOREM RunOrdersAreAnswered == Spec => []RecordIsTrue
<1>1. ToldInv => RecordIsTrue
  BY DEF ToldInv, AnswerIsComing, AnswerTo, Told, RecordIsTrue, Quiet
<1>2. QED
  BY <1>1, ToldInvariance, PTL

\* A drill that its sites closed plays nowhere, and a site that cut it short
\* is marked, in whatever order its acknowledgements come
\* (handlers.py _abortar_simulacro).
THEOREM DrillIsShownTruly == Spec => []DrillIsShownAsItIs
<1>1. ASSUME IInv, ToldInv, NEW c \in linked
      PROVE  drill = "aborted" /\ playing[c] = "yes" => row[c] = "expired" \/ c \in restarted
  BY <1>1 DEF IInv, TypeOK, Drill, WordsAreTrue, ToldInv, ClosedMayNotPlay, OneVerdict,
              ToldMeansStopped
<1>2. ASSUME IInv, ToldInv, NEW c \in linked, c \in cut, playing[c] # "aborting",
             row[c] = "acked", ~Told(c, "aborted")
      PROVE  c \in aborted \/ c \in early \/ c \in restarted
  BY <1>2 DEF ToldInv, AbortIsComing
<1>3. IInv /\ ToldInv => DrillIsShownAsItIs
  BY <1>1, <1>2 DEF DrillIsShownAsItIs, Told
<1>4. QED
  BY <1>3, ToldInvariance, PTL
=============================================================================
