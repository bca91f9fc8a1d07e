---------------------------- MODULE NotifyProofs ----------------------------
(***************************************************************************)
(* The notices of an incident, for every set of cascades, every number of  *)
(* attempts, requests for the demonstration, passes that die and guards    *)
(* that lapse: no voice of the cascade is dropped, the guarded channel     *)
(* leaves twice only by a slip, and the demonstration blocks a notice only *)
(* in a race.                                                              *)
(***************************************************************************)
EXTENDS Notify, FiniteSetTheorems, TLAPS

\* What a row of each job tells, in the database or in the pass.
Voices(r) ==
  \A j \in Job :
    /\ r.status[j] \in {"none", "pending"} => r.tries[j] < MaxAttempts
    /\ r.status[j] = "skipped" => \E k \in Cascaded \ {j} : r.status[k] = "sent"
    /\ r.status[j] \in Silent => \A k \in Behind(r, j) : k \in r.due \/ r.tries[k] > 0
    /\ r.status[j] = "failed" =>
         \/ r.tries[j] = MaxAttempts
         \/ j \in Push
         \/ j \in Cascaded /\ \E k \in Cascaded : Before(j, k) /\ r.status[k] # "none"

\* One channel of the cascade speaks, and then no other waits to.
OneVoice(r) ==
  \A j, k \in Cascaded :
    j # k /\ r.status[j] = "sent" => r.status[k] \notin {"pending", "sent"}

Sound(r) == r \in Rows /\ Voices(r) /\ OneVoice(r)

\* A text that counts as sent left; a notice is blocked in a race.
Heard(r) == r.status["sms"] = "sent" => texts > 0
Raced(r) == (\E j \in Job : r.status[j] = "blocked") => raced

\* Between passes the two views agree, and before the incident there is no job.
Agree ==
  /\ phase = "idle" => tx = db
  /\ incident.state = "none" => ~HasJobs(tx) /\ ~HasJobs(db)

\* With jobs, the demonstration is on its way out, or was granted in a race.
DemoIsOver ==
  /\ ~db.off
  /\ HasJobs(tx) /\ demo => tx.off \/ raced
  /\ HasJobs(db) /\ demo => raced

\* Every text is in the guard of the pass, or was a slip.
Guard(r) == IF "sms" \in r.guard THEN 0 ELSE 1
TextsAreGuarded == texts + Guard(tx) <= 1 + slips

IInv ==
  /\ TypeOK /\ Sound(db) /\ Sound(tx)
  /\ Heard(db) /\ Heard(tx) /\ Raced(db) /\ Raced(tx)
  /\ Agree /\ DemoIsOver /\ TextsAreGuarded

-----------------------------------------------------------------------------
(***************************************************************************)
(* What the operators of a pass do to the rows.                            *)
(***************************************************************************)
LEMMA JobsAre ==
  /\ Job = {"sms", "email", "push", "evac"} /\ Cascaded \subseteq Channel
  /\ Channel = {"sms", "email"} /\ Push = {"push", "evac"} /\ Guarded = {"sms"}
  BY DEF Job, Push, Channel, Guarded, Cascaded

\* Planning adds jobs where there was none.
LEMMA InsertIs ==
  ASSUME NEW r \in Rows, NEW jobs \in SUBSET Job, NEW due \in SUBSET Job
  PROVE  /\ Insert(r, jobs, due) \in Rows
         /\ \A j \in Job : Insert(r, jobs, due).status[j] =
              IF j \in jobs /\ r.status[j] = "none" THEN "pending" ELSE r.status[j]
         /\ r.due \subseteq Insert(r, jobs, due).due
         /\ Insert(r, jobs, due).tries = r.tries /\ Insert(r, jobs, due).guard = r.guard
         /\ Insert(r, jobs, due).off = r.off /\ Insert(r, jobs, due).order = r.order
  BY DEF Insert, Rows, Status

\* A job that ends takes its status, and keeps its tries only if it failed.
LEMMA EndsIs ==
  ASSUME NEW r \in Rows, NEW j \in Job, NEW s \in Status
  PROVE  /\ Ends(r, j, s) \in Rows
         /\ Ends(r, j, s).status = [r.status EXCEPT ![j] = s]
         /\ Ends(r, j, s).tries = [r.tries EXCEPT ![j] = IF s = "failed" THEN @ ELSE 0]
         /\ Ends(r, j, s).due = r.due /\ Ends(r, j, s).guard = r.guard
         /\ Ends(r, j, s).off = r.off
<1>1. /\ r.status \in [Job -> Status] /\ r.tries \in [Job -> 0..MaxAttempts]
      /\ (IF s = "failed" THEN r.tries[j] ELSE 0) \in 0..MaxAttempts
  BY NotifyAssumption DEF Rows
<1>2. Ends(r, j, s).status = [r.status EXCEPT ![j] = s]
  BY DEF Ends, Rows
<1>3. Ends(r, j, s).tries = [r.tries EXCEPT ![j] = IF s = "failed" THEN @ ELSE 0]
  BY DEF Ends, Rows
<1>4. Ends(r, j, s) \in Rows
  BY <1>1 DEF Ends, Rows
<1>5. QED
  BY <1>2, <1>3, <1>4 DEF Ends, Rows

\* The next channels fall due.
LEMMA AdvanceIs ==
  ASSUME NEW r \in Rows, NEW j \in Job
  PROVE  /\ Advance(r, j) \in Rows
         /\ Advance(r, j).due = r.due \cup Behind(r, j)
         /\ Advance(r, j).status = r.status /\ Advance(r, j).tries = r.tries
         /\ Advance(r, j).guard = r.guard /\ Advance(r, j).off = r.off
  BY JobsAre DEF Advance, Rows, Behind

\* What waits of the cascade is skipped.
LEMMA SkipIs ==
  ASSUME NEW r \in Rows
  PROVE  /\ SkipCascade(r) \in Rows
         /\ \A j \in Job : /\ SkipCascade(r).status[j] =
                                IF j \in Cascaded /\ r.status[j] = "pending" THEN "skipped"
                                ELSE r.status[j]
                           /\ SkipCascade(r).tries[j] =
                                IF j \in Cascaded /\ r.status[j] = "pending" THEN 0
                                ELSE r.tries[j]
         /\ SkipCascade(r).due = r.due /\ SkipCascade(r).guard = r.guard
         /\ SkipCascade(r).off = r.off
<1>1. r.tries \in [Job -> 0..MaxAttempts] /\ r.status \in [Job -> Status] /\ 0 \in 0..MaxAttempts
  BY NotifyAssumption DEF Rows
<1>2. SkipCascade(r) \in Rows
  BY <1>1 DEF SkipCascade, Rows, Status
<1>3. ASSUME NEW j \in Job
      PROVE  SkipCascade(r).status[j] = IF j \in Cascaded /\ r.status[j] = "pending"
                                       THEN "skipped" ELSE r.status[j]
  BY DEF SkipCascade, Pending, Rows
<1>4. ASSUME NEW j \in Job
      PROVE  SkipCascade(r).tries[j] = IF j \in Cascaded /\ r.status[j] = "pending"
                                      THEN 0 ELSE r.tries[j]
  BY DEF SkipCascade, Pending, Rows
<1>5. QED
  BY <1>2, <1>3, <1>4 DEF SkipCascade, Rows

\* A failure: the same channel again later, or its end and the next one now.
LEMMA FailIs ==
  ASSUME NEW r \in Rows, NEW j \in Job, r.tries[j] < MaxAttempts
  PROVE  /\ Fail(r, j) \in Rows
         /\ Fail(r, j).tries = [r.tries EXCEPT ![j] = @ + 1]
         /\ Fail(r, j).guard = r.guard /\ Fail(r, j).off = r.off
         /\ \/ /\ Behind(r, j) = {} /\ r.tries[j] + 1 < MaxAttempts
               /\ Fail(r, j).status = r.status /\ Fail(r, j).due = r.due \ {j}
            \/ /\ Behind(r, j) # {} \/ r.tries[j] + 1 = MaxAttempts
               /\ Fail(r, j).status = [r.status EXCEPT ![j] = "failed"]
               /\ Fail(r, j).due = r.due \cup Behind(r, j)
<1> DEFINE more == [r EXCEPT !.tries[j] = @ + 1]
<1>1. /\ more \in Rows /\ more.tries = [r.tries EXCEPT ![j] = @ + 1]
      /\ more.status = r.status /\ more.due = r.due /\ more.guard = r.guard
      /\ more.off = r.off /\ more.tries[j] = r.tries[j] + 1
      /\ r.tries[j] \in Nat /\ MaxAttempts \in Nat
  BY NotifyAssumption DEF Rows
<1> HIDE DEF more
<1>2. Behind(more, j) = Behind(r, j)
  BY <1>1 DEF Behind
<1>3. /\ Advance(more, j) \in Rows /\ Advance(more, j).tries = more.tries
      /\ Advance(more, j).status = r.status /\ Advance(more, j).guard = r.guard
      /\ Advance(more, j).off = r.off /\ Advance(more, j).due = r.due \cup Behind(r, j)
  BY <1>1, <1>2, AdvanceIs
<1>4. CASE Behind(r, j) = {} /\ r.tries[j] + 1 < MaxAttempts
  <2>1. Fail(r, j) = [more EXCEPT !.due = @ \ {j}]
    BY <1>1, <1>4 DEF Fail, more
  <2>2. QED
    BY <1>1, <1>4, <2>1 DEF Rows
<1>5. CASE ~(Behind(r, j) = {} /\ r.tries[j] + 1 < MaxAttempts)
  <2>1. Fail(r, j) = Ends(Advance(more, j), j, "failed")
    BY <1>1, <1>5 DEF Fail, more
  <2>2. /\ Fail(r, j) \in Rows /\ Fail(r, j).status = [r.status EXCEPT ![j] = "failed"]
        /\ Fail(r, j).tries = more.tries
        /\ Fail(r, j).due = r.due \cup Behind(r, j) /\ Fail(r, j).guard = r.guard
        /\ Fail(r, j).off = r.off
    <3>1. "failed" \in Status
      BY DEF Status
    <3>2. /\ Fail(r, j) \in Rows /\ Fail(r, j).status = [r.status EXCEPT ![j] = "failed"]
          /\ Fail(r, j).tries = [more.tries EXCEPT ![j] = @]
          /\ Fail(r, j).due = r.due \cup Behind(r, j) /\ Fail(r, j).guard = r.guard
          /\ Fail(r, j).off = r.off
      BY <1>3, <2>1, <3>1, EndsIs
    <3>3. [more.tries EXCEPT ![j] = @] = more.tries
      BY <1>1 DEF Rows
    <3>4. QED
      BY <3>2, <3>3
  <2>3. QED
    BY <1>1, <1>5, <2>2
<1>6. QED
  BY <1>4, <1>5

-----------------------------------------------------------------------------
(***************************************************************************)
(* What they keep of a sound table.                                        *)
(***************************************************************************)
\* Rows that are new do not change what the others told.
LEMMA InsertKeeps ==
  ASSUME NEW r, Sound(r), NEW jobs \in SUBSET Job, NEW due \in SUBSET Job,
         jobs \subseteq Push \/ ~HasJobs(r)
  PROVE  Sound(Insert(r, jobs, due))
<1> DEFINE q == Insert(r, jobs, due)
<1>1. r \in Rows /\ q \in Rows /\ q.tries = r.tries /\ r.due \subseteq q.due
      /\ \A j \in Job : q.status[j] =
              IF j \in jobs /\ r.status[j] = "none" THEN "pending" ELSE r.status[j]
  BY InsertIs DEF Sound
<1> HIDE DEF q
<1>2. Voices(q)
  BY <1>1, JobsAre DEF Sound, Voices, HasJobs, Behind, Silent
<1>3. OneVoice(q)
  BY <1>1, JobsAre DEF Sound, OneVoice, HasJobs
<1>4. QED
  BY <1>1, <1>2, <1>3 DEF Sound, q

\* A notice that is blocked or simulated hurries the next one.
LEMMA SettleKeeps ==
  ASSUME NEW r, Sound(r), NEW j \in Job, r.status[j] = "pending",
         NEW s \in {"blocked", "simulated"}
  PROVE  /\ Sound(Ends(Advance(r, j), j, s))
         /\ Ends(Advance(r, j), j, s).status = [r.status EXCEPT ![j] = s]
         /\ Ends(Advance(r, j), j, s).guard = r.guard /\ Ends(Advance(r, j), j, s).off = r.off
<1> DEFINE q == Ends(Advance(r, j), j, s)
<1>1. /\ r \in Rows /\ q \in Rows /\ q.status = [r.status EXCEPT ![j] = s]
      /\ q.tries = [r.tries EXCEPT ![j] = 0] /\ q.due = r.due \cup Behind(r, j)
      /\ q.guard = r.guard /\ q.off = r.off
  <2>1. r \in Rows /\ s \in Status /\ s # "failed"
    BY DEF Sound, Status
  <2>2. QED
    BY <2>1, AdvanceIs, EndsIs
<1> HIDE DEF q
<1>2. Voices(q)
  BY <1>1, JobsAre DEF Sound, Rows, Voices, Behind, Silent
<1>3. OneVoice(q)
  BY <1>1, JobsAre DEF Sound, Rows, OneVoice
<1>4. QED
  BY <1>1, <1>2, <1>3 DEF Sound, q

\* A failure ends a channel only after its attempts, or for the next one.
LEMMA FailKeeps ==
  ASSUME NEW r, Sound(r), NEW j \in Job, r.status[j] = "pending"
  PROVE  Sound(Fail(r, j))
<1> DEFINE q == Fail(r, j)
<1>1. r \in Rows /\ r.tries[j] < MaxAttempts
  BY DEF Sound, Voices
<1>2. /\ q \in Rows /\ q.tries = [r.tries EXCEPT ![j] = @ + 1]
      /\ \/ /\ Behind(r, j) = {} /\ r.tries[j] + 1 < MaxAttempts
            /\ q.status = r.status /\ q.due = r.due \ {j}
         \/ /\ Behind(r, j) # {} \/ r.tries[j] + 1 = MaxAttempts
            /\ q.status = [r.status EXCEPT ![j] = "failed"]
            /\ q.due = r.due \cup Behind(r, j)
  BY <1>1, FailIs
<1>3. r.tries \in [Job -> 0..MaxAttempts] /\ r.status \in [Job -> Status] /\ MaxAttempts \in Nat
  BY <1>1, NotifyAssumption DEF Rows
<1> HIDE DEF q
<1>4. Voices(q)
  <2>1. ASSUME NEW k \in Job
        PROVE  /\ q.status[k] = r.status[k] \/ (k = j /\ q.status[k] = "failed")
               /\ q.tries[k] = IF k = j THEN r.tries[k] + 1 ELSE r.tries[k]
    BY <1>2, <1>3
  <2>2. ASSUME NEW k \in Job
        PROVE  /\ q.status[k] \in {"none", "pending"} => q.tries[k] < MaxAttempts
               /\ q.status[k] = "skipped" => \E n \in Cascaded \ {k} : q.status[n] = "sent"
    BY <1>2, <1>3, <2>1, JobsAre DEF Sound, Voices
  <2>3. ASSUME NEW k \in Job, q.status[k] \in Silent, NEW n \in Behind(q, k)
        PROVE  n \in q.due \/ q.tries[n] > 0
    BY <1>2, <1>3, <2>1, <2>3, JobsAre DEF Sound, Voices, Behind, Silent
  <2>4. ASSUME NEW k \in Job, q.status[k] = "failed"
        PROVE  \/ q.tries[k] = MaxAttempts
               \/ k \in Push
               \/ k \in Cascaded /\ \E n \in Cascaded : Before(k, n) /\ q.status[n] # "none"
    <3>1. CASE k = j
      <4>1. q.tries[k] = MaxAttempts \/ Behind(r, j) # {}
        BY <1>2, <1>3, <2>1, <2>4, <3>1
      <4>2. ASSUME NEW n \in Behind(r, j)
            PROVE  j \in Cascaded /\ n \in Cascaded /\ Before(j, n) /\ q.status[n] # "none"
        BY <2>1, JobsAre DEF Behind
      <4>3. QED
        BY <3>1, <4>1, <4>2
    <3>2. CASE k # j
      <4>1. r.status[k] = "failed" /\ q.tries[k] = r.tries[k]
        BY <2>1, <2>4, <3>2
      <4>2. ASSUME NEW n \in Cascaded, r.status[n] # "none"
            PROVE  q.status[n] # "none"
        BY <2>1, <4>2, JobsAre
      <4>3. QED
        BY <4>1, <4>2 DEF Sound, Voices
    <3>3. QED
      BY <3>1, <3>2
  <2>5. QED
    BY <2>2, <2>3, <2>4 DEF Voices
<1>5. OneVoice(q)
  BY <1>2, <1>3, JobsAre DEF Sound, OneVoice
<1>6. QED
  BY <1>2, <1>4, <1>5 DEF Sound, q

\* Whoever speaks spares the rest of the cascade.
LEMMA SentKeeps ==
  ASSUME NEW r, Sound(r), NEW j \in Job, r.status[j] = "pending",
         NEW q, q = IF j \in Cascaded THEN SkipCascade(Ends(r, j, "sent"))
                                      ELSE Ends(r, j, "sent")
  PROVE  /\ Sound(q) /\ q.guard = r.guard /\ q.off = r.off
         /\ \A k \in Job :
              q.status[k] \in {r.status[k], "skipped"} \/ (k = j /\ q.status[k] = "sent")
<1> DEFINE e == Ends(r, j, "sent")
<1>1. /\ e \in Rows /\ e.status = [r.status EXCEPT ![j] = "sent"]
      /\ e.tries = [r.tries EXCEPT ![j] = 0] /\ e.due = r.due
      /\ e.guard = r.guard /\ e.off = r.off
      /\ r.tries \in [Job -> 0..MaxAttempts] /\ r.status \in [Job -> Status]
  <2>1. r \in Rows /\ "sent" \in Status
    BY DEF Sound, Status
  <2>2. r.tries \in [Job -> 0..MaxAttempts] /\ r.status \in [Job -> Status]
    BY <2>1 DEF Rows
  <2>3. QED
    BY <2>1, <2>2, EndsIs
<1> HIDE DEF e
<1>2. CASE j \in Cascaded
  <2>1. q = SkipCascade(e)
    BY <1>2 DEF e
  <2>2. /\ q \in Rows /\ q.due = r.due /\ q.guard = r.guard /\ q.off = r.off
        /\ \A k \in Job :
             /\ q.status[k] = IF k = j THEN "sent"
                              ELSE IF k \in Cascaded /\ r.status[k] = "pending" THEN "skipped"
                              ELSE r.status[k]
             /\ q.tries[k] = IF k = j \/ (k \in Cascaded /\ r.status[k] = "pending") THEN 0
                             ELSE r.tries[k]
    BY <1>1, <2>1, SkipIs
  <2>3. Voices(q)
    BY <1>1, <1>2, <2>2, JobsAre DEF Sound, Voices, Behind, Silent
  <2>4. OneVoice(q)
    BY <1>1, <1>2, <2>2, JobsAre DEF Sound, OneVoice
  <2>5. QED
    BY <2>2, <2>3, <2>4 DEF Sound
<1>3. CASE j \notin Cascaded
  <2>1. q = e
    BY <1>3 DEF e
  <2>2. Voices(q)
    <3>1. \A k \in Cascaded : k \in Job /\ k # j /\ q.status[k] = r.status[k] /\ q.tries[k] = r.tries[k]
      BY <1>1, <1>3, <2>1, JobsAre
    <3>2. ASSUME NEW k \in Job
          PROVE  /\ q.status[k] = IF k = j THEN "sent" ELSE r.status[k]
                 /\ q.tries[k] = IF k = j THEN 0 ELSE r.tries[k]
      BY <1>1, <2>1
    <3>3. ASSUME NEW k \in Job
          PROVE  Behind(q, k) = Behind(r, k)
      BY <3>1 DEF Behind
    <3>4. QED
      <4>2. ASSUME NEW k \in Job, k # j, r.status[k] = "skipped"
            PROVE  \E n \in Cascaded \ {k} : q.status[n] = "sent"
        BY <3>1, <4>2 DEF Sound, Voices
      <4>3. ASSUME NEW k \in Job, k # j, r.status[k] \in Silent, NEW n \in Behind(q, k)
            PROVE  n \in q.due \/ q.tries[n] > 0
        <5>1. n \in Behind(r, k) /\ n \in Cascaded
          BY <3>3 DEF Behind
        <5>2. n \in r.due \/ r.tries[n] > 0
          BY <4>3, <5>1 DEF Sound, Voices
        <5>3. QED
          BY <1>1, <2>1, <3>1, <5>1, <5>2
      <4>4. ASSUME NEW k \in Job, k # j, r.status[k] = "failed"
            PROVE  \/ q.tries[k] = MaxAttempts
                   \/ k \in Push
                   \/ k \in Cascaded /\ \E n \in Cascaded : Before(k, n) /\ q.status[n] # "none"
        BY <3>1, <3>2, <4>4 DEF Sound, Voices
      <4>5. ASSUME NEW k \in Job, q.status[k] \in {"none", "pending"}
            PROVE  q.tries[k] < MaxAttempts
        BY <3>2, <4>5 DEF Sound, Voices
      <4>6. QED
        BY <3>2, <4>2, <4>3, <4>4, <4>5 DEF Voices, Silent
  <2>3. OneVoice(q)
    BY <1>1, <1>3, <2>1, JobsAre DEF Sound, OneVoice
  <2>4. QED
    BY <1>1, <2>1, <2>2, <2>3 DEF Sound
<1>4. QED
  BY <1>2, <1>3

\* A notice without phones is behind nobody in the cascade.
LEMMA PushFailsKeeps ==
  ASSUME NEW r, Sound(r), NEW q \in Rows, NEW j \in Push, r.status[j] = "pending",
         q.status = [r.status EXCEPT ![j] = "failed"],
         q.tries = [r.tries EXCEPT ![j] = @ + 1], q.due = r.due
  PROVE  Voices(q)
<1>0. r \in Rows /\ j \in Job
  BY DEF Sound, Job
<1>1. j \notin Cascaded
  BY JobsAre
<1>2. /\ q.status[j] = "failed" /\ q.tries[j] = r.tries[j] + 1
      /\ \A k \in Job \ {j} : q.status[k] = r.status[k] /\ q.tries[k] = r.tries[k]
      /\ \A k \in Job : r.tries[k] \in Nat
  BY <1>0, NotifyAssumption DEF Rows
<1>3. Cascaded \subseteq Job \ {j}
  BY <1>1, JobsAre
<1>4. \A k \in Job : Behind(q, k) = Behind(r, k)
  BY <1>2, <1>3 DEF Behind
<1>5. Behind(r, j) = {}
  BY <1>1 DEF Behind
<1>6. \A k \in Job : r.tries[k] > 0 => q.tries[k] > 0
  BY <1>2
<1>7. ASSUME NEW k \in Job \ {j}
      PROVE  /\ q.status[k] = "skipped" => \E l \in Cascaded \ {k} : q.status[l] = "sent"
             /\ q.status[k] \in Silent => \A l \in Behind(q, k) : l \in q.due \/ q.tries[l] > 0
  <2>1. /\ r.status[k] = "skipped" => \E l \in Cascaded \ {k} : r.status[l] = "sent"
        /\ r.status[k] \in Silent => \A l \in Behind(r, k) : l \in r.due \/ r.tries[l] > 0
    BY DEF Sound, Voices
  <2>2. \A l \in Behind(r, k) : r.tries[l] > 0 => q.tries[l] > 0
    BY <1>3, <1>6 DEF Behind
  <2>3. \A l \in Cascaded : q.status[l] = r.status[l]
    BY <1>2, <1>3
  <2>4. QED
    BY <1>0, <1>2, <1>4, <2>1, <2>2, <2>3
<1>8. ASSUME NEW k \in Job \ {j}, q.status[k] = "failed"
      PROVE  \/ q.tries[k] = MaxAttempts \/ k \in Push
             \/ k \in Cascaded /\ \E l \in Cascaded : Before(k, l) /\ q.status[l] # "none"
  <2>1. \/ r.tries[k] = MaxAttempts \/ k \in Push
        \/ k \in Cascaded /\ \E l \in Cascaded : Before(k, l) /\ r.status[l] # "none"
    BY <1>2, <1>8 DEF Sound, Voices
  <2>2. \A l \in Cascaded : q.status[l] = r.status[l]
    BY <1>2, <1>3
  <2>3. QED
    BY <1>2, <2>1, <2>2
<1>9. \A k \in Job \ {j} : q.status[k] \in {"none", "pending"} => q.tries[k] < MaxAttempts
  BY <1>2 DEF Sound, Voices
<1>10. QED
  BY <1>2, <1>4, <1>5, <1>7, <1>8, <1>9 DEF Voices

\* The push without phones, the memory of the guard, and what falls due.
LEMMA NoPhonesKeeps ==
  ASSUME NEW r, Sound(r), NEW j \in Push, r.status[j] = "pending",
         NEW q, q = Ends([r EXCEPT !.tries[j] = @ + 1], j, "failed")
  PROVE  Sound(q) /\ q.guard = r.guard /\ q.off = r.off /\ q.status = [r.status EXCEPT ![j] = "failed"]
<1>1. r \in Rows /\ r.tries[j] < MaxAttempts /\ j \in Job /\ MaxAttempts \in Nat
  BY NotifyAssumption DEF Sound, Voices, Job
<1>2. [r EXCEPT !.tries[j] = @ + 1] \in Rows
  BY <1>1 DEF Rows
<1>3. /\ q \in Rows /\ q.status = [r.status EXCEPT ![j] = "failed"]
      /\ q.tries = [r.tries EXCEPT ![j] = @ + 1] /\ q.due = r.due
      /\ q.guard = r.guard /\ q.off = r.off
  <2> DEFINE more == [r EXCEPT !.tries[j] = @ + 1]
  <2>1. /\ more.status = r.status /\ more.due = r.due /\ more.guard = r.guard
        /\ more.off = r.off /\ more.tries = [r.tries EXCEPT ![j] = @ + 1]
    BY <1>1 DEF Rows
  <2>2. "failed" \in Status /\ more \in Rows
    BY <1>2 DEF Status
  <2> HIDE DEF more
  <2>3. q = Ends(more, j, "failed")
    BY DEF more
  <2>4. [more.tries EXCEPT ![j] = @] = more.tries
    BY <1>1, <2>2 DEF Rows
  <2>5. QED
    BY <1>1, <2>1, <2>2, <2>3, <2>4, EndsIs
<1>4. Voices(q)
  BY <1>3, PushFailsKeeps
<1>5. OneVoice(q)
  BY <1>1, <1>3, JobsAre DEF Sound, Rows, OneVoice
<1>6. QED
  BY <1>3, <1>4, <1>5 DEF Sound

\* More jobs due leave the voices sound.
LEMMA MoreDueKeeps ==
  ASSUME NEW r, Sound(r), NEW q \in Rows, q.status = r.status, q.tries = r.tries,
         r.due \subseteq q.due
  PROVE  Sound(q)
  BY DEF Sound, Voices, OneVoice, Behind

-----------------------------------------------------------------------------
(***************************************************************************)
(* The steps.                                                              *)
(***************************************************************************)
\* A table stays sound while the incident keeps what opened it.
LEMMA SoundPass ==
  ASSUME NEW q, Sound(q), tx' = q, incident'.opened = incident.opened
  PROVE  Sound(tx)'
  BY DEF Sound, Voices, OneVoice, Behind, Cascaded

\* The database is sound when what is written to it is.
LEMMA SoundTable ==
  ASSUME NEW q, Sound(q), db' = q, incident'.opened = incident.opened
  PROVE  Sound(db)'
  BY DEF Sound, Voices, OneVoice, Behind, Cascaded

\* Before the incident there are no jobs.
LEMMA Begins == Init => IInv
<1> SUFFICES ASSUME Init PROVE IInv
  OBVIOUS
<1> USE NotifyAssumption DEF Init
<1>1. db \in Rows /\ tx = db
  BY DEF Rows, Status
<1>2. incident \in Incident /\ \A j \in Job : tx.status[j] = "none" /\ tx.tries[j] = 0
  BY DEF Incident, Level
<1>3. TypeOK
  <2>1. texts \in Nat /\ asks \in 0..MaxAsks /\ slips \in 0..MaxSlips
    OBVIOUS
  <2>2. demo \in BOOLEAN /\ asking \in BOOLEAN /\ raced \in BOOLEAN
    OBVIOUS
  <2>3. QED
    BY <1>1, <1>2, <2>1, <2>2 DEF TypeOK
<1>4. Sound(tx)
  BY <1>1, <1>2, JobsAre DEF Sound, Voices, OneVoice, Silent
<1>5. Heard(tx) /\ Raced(tx) /\ Agree /\ DemoIsOver /\ TextsAreGuarded
  BY <1>1, <1>2, JobsAre DEF Heard, Raced, Agree, HasJobs, DemoIsOver, TextsAreGuarded, Guard
<1>6. QED
  BY <1>1, <1>3, <1>4, <1>5 DEF IInv

\* The incident and the demonstration touch no row.
LEMMA OutsideStep ==
  ASSUME IInv, Open \/ Raise \/ Corroborate \/ Close \/ Ask \/ Grant \/ DemoEnds
  PROVE  IInv'
<1> USE DEF IInv
<1>0. UNCHANGED <<configured, db, tx, phase, texts, slips>>
  BY DEF Open, Raise, Corroborate, Close, Ask, Grant, DemoEnds, passVars
<1>1. TypeOK'
  <2>1. incident' \in Incident
    BY DEF Open, Raise, Corroborate, Close, Ask, Grant, DemoEnds, TypeOK, Incident, Level
  <2>2. asks' \in 0..MaxAsks
    <3>1. CASE Ask
      BY <3>1, NotifyAssumption DEF Ask, TypeOK
    <3>2. CASE ~Ask
      BY <3>2 DEF Open, Raise, Corroborate, Close, Grant, DemoEnds, TypeOK, demoVars
    <3>3. QED
      BY <3>1, <3>2
  <2>5. demo' \in BOOLEAN
    BY DEF Open, Raise, Corroborate, Close, Ask, Grant, DemoEnds, TypeOK, demoVars
  <2>6. asking' \in BOOLEAN
    BY DEF Open, Raise, Corroborate, Close, Ask, Grant, DemoEnds, TypeOK, demoVars
  <2>3. raced' \in BOOLEAN
    BY DEF Open, Raise, Corroborate, Close, Ask, Grant, DemoEnds, TypeOK, demoVars
  <2>4. QED
    BY <1>0, <2>1, <2>2, <2>3, <2>5, <2>6 DEF TypeOK
<1>2. Sound(db)' /\ Sound(tx)'
  <2>1. CASE Open
    <3>1. \A j \in Job : db.status[j] = "none" /\ tx.status[j] = "none"
      BY <2>1 DEF Open, Agree, HasJobs
    <3>2. QED
      BY <1>0, <3>1, JobsAre DEF Sound, Voices, OneVoice, Silent, Cascaded
  <2>2. CASE ~Open
    <3>1. incident'.opened = incident.opened
      BY <2>2 DEF Raise, Corroborate, Close, Ask, Grant, DemoEnds, TypeOK, Incident
    <3>2. QED
      BY <1>0, <3>1, SoundPass, SoundTable
  <2>3. QED
    BY <2>1, <2>2
<1>3. (Heard(db) /\ Heard(tx) /\ TextsAreGuarded)'
  BY <1>0 DEF Heard, TextsAreGuarded, Guard
<1>4. (Raced(db) /\ Raced(tx))'
  BY <1>0 DEF Open, Raise, Corroborate, Close, Ask, Grant, DemoEnds, demoVars, Raced
<1>5. Agree'
  BY <1>0 DEF Open, Raise, Corroborate, Close, Ask, Grant, DemoEnds, Agree, HasJobs, TypeOK, Incident
<1>6. DemoIsOver'
  <2>1. HasJobs(tx)' = HasJobs(tx) /\ HasJobs(db)' = HasJobs(db)
    BY <1>0 DEF HasJobs
  <2>2. CASE Grant
    <3>1. HasJobs(tx) \/ HasJobs(db) => raced'
      BY <2>2 DEF Grant, Agree
    <3>2. QED
      BY <1>0, <2>1, <3>1 DEF DemoIsOver
  <2>3. CASE ~Grant
    <3>1. raced' = raced /\ (demo' => demo)
      <4>1. CASE DemoEnds
        BY <4>1 DEF DemoEnds
      <4>2. CASE Open \/ Raise \/ Corroborate \/ Close
        <5>1. UNCHANGED demoVars
          BY <4>2 DEF Open, Raise, Corroborate, Close
        <5>2. QED
          BY <5>1 DEF demoVars
      <4>3. CASE Ask
        BY <4>3 DEF Ask
      <4>4. QED
        BY <2>3, <4>1, <4>2, <4>3
    <3>2. QED
      BY <1>0, <2>1, <3>1 DEF DemoIsOver
  <2>4. QED
    BY <2>2, <2>3
<1>7. QED
  BY <1>1, <1>2, <1>3, <1>4, <1>5, <1>6

\* A pass begins from the table, and plans.
LEMMA PlanStep ==
  ASSUME IInv, Begin \/ Enqueue \/ Upgrade \/ Escalate
  PROVE  IInv'
<1> USE DEF IInv
<1>0. /\ UNCHANGED <<configured, incident, demo, asking, asks, raced, db, texts, slips>>
      /\ phase' # "idle" /\ phase' \in {"enqueue", "upgrade", "escalate", "dispatch"}
  BY DEF Begin, Enqueue, Upgrade, Escalate, demoVars
<1>1. /\ tx' \in Rows /\ Sound(tx') /\ tx'.guard \in {tx.guard, db.guard}
      /\ \A j \in Job : tx'.status[j] \in {"none", "pending", tx.status[j], db.status[j]}
      /\ incident.state = "none" => ~HasJobs(tx')
      /\ HasJobs(tx') /\ demo => tx'.off \/ raced
      /\ Begin \/ tx'.guard = tx.guard
  <2>1. CASE Begin
    BY <2>1 DEF Begin, TypeOK, Agree, DemoIsOver
  <2>2. CASE UNCHANGED tx /\ ~Begin
    BY <2>2 DEF TypeOK, Agree, DemoIsOver
  <2>3. CASE Enqueue /\ incident.state = "open" /\ ~HasJobs(tx)
    <3>1. PICK push \in IncidentPush, due \in FirstDue :
            tx' = [Insert(tx, configured \cup push, due)
                     EXCEPT !.off = demo, !.order = incident.level = "order"]
      BY <2>3 DEF Enqueue
    <3>2. configured \cup push \in SUBSET Job /\ due \in SUBSET Job
      BY NotifyAssumption DEF TypeOK, Job, Push, IncidentPush, FirstDue
    <3> DEFINE q == Insert(tx, configured \cup push, due)
    <3>3. Sound(q) /\ q \in Rows
      BY <2>3, <3>2, InsertKeeps DEF Sound
    <3>4. /\ \A j \in Job : q.status[j] \in {tx.status[j], "pending"}
          /\ q.guard = tx.guard
      <4>1. tx \in Rows
        BY DEF TypeOK
      <4>2. ASSUME NEW j \in Job
            PROVE  q.status[j] = IF j \in configured \cup push /\ tx.status[j] = "none"
                                 THEN "pending" ELSE tx.status[j]
        BY <3>2, <4>1, InsertIs
      <4>3. q.guard = tx.guard
        BY <3>2, <4>1, InsertIs
      <4>4. QED
        BY <4>2, <4>3
    <3> HIDE DEF q
    <3>5. /\ tx' \in Rows /\ tx'.status = q.status /\ tx'.tries = q.tries /\ tx'.due = q.due
          /\ tx'.guard = q.guard /\ tx'.off = demo
      BY <3>1, <3>3 DEF Rows, TypeOK, q
    <3>6. Sound(tx')
      BY <3>3, <3>5, MoreDueKeeps
    <3>7. QED
      BY <2>3, <3>4, <3>5, <3>6
  <2>4. ASSUME NEW push \in SUBSET Push, tx' = Insert(tx, push, Job), HasJobs(tx),
               incident.state = "open"
        PROVE  /\ Sound(tx') /\ tx'.guard = tx.guard /\ tx'.off = tx.off
               /\ \A j \in Job : tx'.status[j] \in {tx.status[j], "pending"}
    <3>1. push \in SUBSET Job /\ Job \in SUBSET Job
      BY DEF Job
    <3>2. tx \in Rows
      BY DEF TypeOK
    <3>3. Sound(tx')
      BY <2>4, <3>1, InsertKeeps
    <3>4. ASSUME NEW j \in Job
          PROVE  tx'.status[j] = IF j \in push /\ tx.status[j] = "none" THEN "pending"
                                 ELSE tx.status[j]
      BY <2>4, <3>1, <3>2, InsertIs
    <3>5. tx'.guard = tx.guard /\ tx'.off = tx.off
      BY <2>4, <3>1, <3>2, InsertIs
    <3>6. QED
      BY <3>3, <3>4, <3>5
  <2>5. CASE Upgrade /\ ~UNCHANGED tx
    <3>1. /\ HasJobs(tx) /\ incident.state = "open"
          /\ \E push \in SUBSET Push : tx' = Insert(tx, push, Job)
      BY <2>5 DEF Upgrade, IncidentPush, Push
    <3>2. QED
      BY <2>4, <3>1 DEF Sound, DemoIsOver
  <2>6. CASE Escalate /\ ~UNCHANGED tx
    <3>1. /\ HasJobs(tx) /\ incident.state = "open" /\ tx' = Insert(tx, {"evac"}, Job)
          /\ {"evac"} \in SUBSET Push
      BY <2>6, JobsAre DEF Escalate, Escalates, HasJobs
    <3>2. QED
      BY <2>4, <3>1 DEF Sound, DemoIsOver
  <2>7. QED
    BY <2>1, <2>2, <2>3, <2>5, <2>6 DEF Enqueue
<1>2. TypeOK'
  BY <1>0, <1>1 DEF TypeOK
<1>3. Sound(tx)' /\ Sound(db)'
  BY <1>0, <1>1, SoundPass, SoundTable
<1>4. (Heard(db) /\ Heard(tx) /\ Raced(db) /\ Raced(tx))'
  BY <1>0, <1>1, JobsAre DEF Heard, Raced
<1>5. Agree' /\ DemoIsOver'
  BY <1>0, <1>1 DEF Agree, DemoIsOver, HasJobs
<1>6. TextsAreGuarded'
  <2>1. CASE Begin
    BY <1>0, <2>1 DEF Begin, Agree, TextsAreGuarded, Guard
  <2>2. CASE ~Begin
    BY <1>0, <1>1, <2>2 DEF TextsAreGuarded, Guard
  <2>3. QED
    BY <2>1, <2>2
<1>7. QED
  BY <1>2, <1>3, <1>4, <1>5, <1>6

\* What leaves, or does not: the incident and the table wait for the commit.
LEMMA DispatchStep ==
  ASSUME IInv, NEW j \in Job,
         Block(j) \/ Simulate(j) \/ NoPhones(j) \/ Duplicate(j) \/ Send(j)
  PROVE  IInv'
<1> USE DEF IInv
<1>0. /\ UNCHANGED <<configured, incident, demo, asking, asks, raced, db, phase, slips>>
      /\ phase = "dispatch" /\ tx.status[j] = "pending" /\ tx \in Rows
  BY DEF Block, Simulate, NoPhones, Duplicate, Send, Turn, demoVars, DueJobs, TypeOK
<1>1. /\ Sound(tx') /\ tx'.off = tx.off
      /\ \A k \in Job : tx'.status[k] = "blocked" => tx.status[k] = "blocked" \/ DemoOn
      /\ tx'.status["sms"] = "sent" => tx.status["sms"] = "sent" \/ texts' > 0
      /\ texts' \in Nat
      /\ texts' + Guard(tx') <= texts + Guard(tx)
  <2>0. tx.status \in [Job -> Status] /\ texts \in Nat /\ "sms" \in Job
    BY JobsAre DEF TypeOK, Rows
  <2>1. CASE Block(j) \/ Simulate(j)
    <3>1. PICK s \in {"blocked", "simulated"} :
            tx' = Ends(Advance(tx, j), j, s) /\ (s = "blocked" => DemoOn)
      BY <2>1 DEF Block, Simulate
    <3>2. /\ Sound(tx') /\ tx'.status = [tx.status EXCEPT ![j] = s]
          /\ tx'.guard = tx.guard /\ tx'.off = tx.off
      <4> HIDE DEF IInv
      <4>1. Sound(tx)
        BY DEF IInv
      <4>2. tx.status[j] = "pending"
        BY <1>0
      <4>3. /\ Sound(Ends(Advance(tx, j), j, s))
            /\ Ends(Advance(tx, j), j, s).status = [tx.status EXCEPT ![j] = s]
            /\ Ends(Advance(tx, j), j, s).guard = tx.guard
            /\ Ends(Advance(tx, j), j, s).off = tx.off
        BY <4>1, <4>2, SettleKeeps
      <4>4. QED
        BY <3>1, <4>3
    <3>3. QED
      BY <2>0, <2>1, <3>1, <3>2 DEF Block, Simulate, Guard
  <2>2. CASE NoPhones(j)
    <3>1. /\ Sound(tx') /\ tx'.status = [tx.status EXCEPT ![j] = "failed"]
          /\ tx'.guard = tx.guard /\ tx'.off = tx.off
      BY <1>0, <2>2, NoPhonesKeeps DEF NoPhones
    <3>2. QED
      BY <2>0, <2>2, <3>1 DEF NoPhones, Guard
  <2>3. ASSUME NEW r, Sound(r), r.status[j] = "pending"
        PROVE  /\ Sound(Fail(r, j)) /\ Fail(r, j).guard = r.guard /\ Fail(r, j).off = r.off
               /\ Fail(r, j).status \in {r.status, [r.status EXCEPT ![j] = "failed"]}
    BY <2>3, FailKeeps, FailIs DEF Sound, Voices
  <2>4. CASE Duplicate(j)
    <3>1. tx' = Fail(tx, j) /\ texts' = texts
      BY <2>4 DEF Duplicate
    <3>2. QED
      BY <1>0, <2>0, <2>3, <3>1 DEF Guard
  <2>5. CASE Send(j)
    <3>1. PICK outcome \in {"accepted", "refused", "unsure"}, left \in 0..1 :
            /\ outcome = "accepted" /\ j \in Guarded => left = 1
            /\ outcome = "refused" \/ j \notin Guarded => left = 0
            /\ texts' = IF j = "sms" THEN texts + left ELSE texts
            /\ LET told == Remember(tx, j, outcome) IN
               tx' = IF outcome # "accepted" THEN Fail(told, j)
                     ELSE IF j \in Cascaded THEN SkipCascade(Ends(told, j, "sent"))
                     ELSE Ends(told, j, "sent")
      BY <2>5 DEF Send
    <3> DEFINE told == Remember(tx, j, outcome)
    <3>2. /\ told \in Rows /\ told.status = tx.status /\ told.tries = tx.tries
          /\ told.due = tx.due /\ told.off = tx.off
          /\ told.guard = IF j \in Guarded /\ outcome # "refused" THEN tx.guard \cup {j}
                          ELSE tx.guard
      BY <1>0 DEF Remember, Rows
    <3>3. tx' = IF outcome # "accepted" THEN Fail(told, j)
                ELSE IF j \in Cascaded THEN SkipCascade(Ends(told, j, "sent"))
                ELSE Ends(told, j, "sent")
      BY <3>1
    <3> HIDE DEF told
    <3>4. Sound(told)
      BY <3>2, MoreDueKeeps
    <3>5. /\ Sound(tx') /\ tx'.guard = told.guard /\ tx'.off = tx.off
          /\ \A k \in Job : \/ tx'.status[k] \in {tx.status[k], "skipped", "failed"}
                            \/ k = j /\ tx'.status[k] = "sent" /\ outcome = "accepted"
      <4>1. CASE outcome # "accepted"
        BY <1>0, <2>0, <2>3, <3>2, <3>3, <3>4, <4>1
      <4>2. CASE outcome = "accepted"
        BY <1>0, <3>2, <3>3, <3>4, <4>2, SentKeeps
      <4>3. QED
        BY <4>1, <4>2
    <3>6. /\ texts' \in Nat /\ texts' + Guard(tx') <= texts + Guard(tx)
      <4>1. "sms" \in Guarded /\ left \in Nat /\ left <= 1
        BY JobsAre
      <4>2. CASE j = "sms" /\ left = 1
        <5>1. "sms" \notin tx.guard /\ "sms" \in tx'.guard
          BY <2>5, <3>1, <3>2, <3>5, <4>1, <4>2 DEF Send
        <5>2. QED
          BY <2>0, <3>1, <4>2, <5>1 DEF Guard
      <4>3. CASE ~(j = "sms" /\ left = 1)
        <5>1. texts' = texts /\ tx.guard \subseteq tx'.guard
          BY <2>0, <3>1, <3>2, <3>5, <4>1, <4>3
        <5>2. QED
          BY <2>0, <5>1 DEF Guard
      <4>4. QED
        BY <4>2, <4>3
    <3>7. tx'.status["sms"] = "sent" => tx.status["sms"] = "sent" \/ texts' > 0
      <4>1. ASSUME tx'.status["sms"] = "sent", tx.status["sms"] # "sent"
            PROVE  texts' > 0
        <5>1. j = "sms" /\ outcome = "accepted"
          BY <2>0, <3>5, <4>1
        <5>2. texts' = texts + 1
          BY <3>1, <5>1, JobsAre
        <5>3. QED
          BY <2>0, <5>2
      <4>2. QED
        BY <4>1
    <3>8. QED
      BY <3>5, <3>6, <3>7
  <2>6. QED
    BY <2>1, <2>2, <2>4, <2>5
<1>2. TypeOK'
  BY <1>0, <1>1 DEF TypeOK, Sound
<1>3. Sound(tx)' /\ Sound(db)'
  BY <1>0, <1>1, SoundPass, SoundTable
<1>4. (Heard(db) /\ Heard(tx))'
  <2>1. texts' >= texts
    BY DEF Block, Simulate, NoPhones, Duplicate, Send, TypeOK
  <2>2. QED
    BY <1>0, <1>1, <2>1 DEF Heard, TypeOK
<1>5. (Raced(db) /\ Raced(tx))'
  <2>1. DemoOn => raced
    BY <1>0 DEF DemoOn, DemoIsOver, HasJobs
  <2>2. QED
    BY <1>0, <1>1, <2>1 DEF Raced
<1>6. Agree' /\ DemoIsOver'
  <2>1. HasJobs(tx) /\ incident.state # "none"
    BY <1>0 DEF HasJobs, Agree
  <2>2. QED
    BY <1>0, <1>1, <2>1 DEF Agree, DemoIsOver, HasJobs
<1>7. TextsAreGuarded'
  <2>1. Guard(tx) \in Nat /\ Guard(tx') \in Nat /\ texts \in Nat /\ slips \in Nat
    BY DEF Guard, TypeOK
  <2>2. texts' + Guard(tx') <= 1 + slips
    BY <1>1, <2>1 DEF TextsAreGuarded
  <2>3. QED
    BY <1>0, <2>2 DEF TextsAreGuarded, Guard
<1>8. QED
  BY <1>2, <1>3, <1>4, <1>5, <1>6, <1>7

\* The commit saves the rows; a cut loses them; time moves the table.
LEMMA TableStep ==
  ASSUME IInv, Commit \/ Cut \/ \E j \in Job : FallsDue(j) \/ GuardLapses(j)
  PROVE  IInv'
<1> USE DEF IInv
<1>0. tx \in Rows /\ db \in Rows /\ texts \in Nat /\ slips \in Nat
      /\ UNCHANGED <<configured, incident, asking, asks, raced, texts>>
  BY DEF Commit, Cut, FallsDue, GuardLapses, TypeOK, demoVars
<1>1. CASE Commit
  <2>1. /\ db' = [tx EXCEPT !.off = FALSE] /\ tx' = db' /\ demo' = DemoOn
        /\ phase' = "idle" /\ slips' = slips
    BY <1>1 DEF Commit
  <2>2. /\ db' \in Rows /\ db'.status = tx.status /\ db'.tries = tx.tries
        /\ db'.due = tx.due /\ db'.guard = tx.guard /\ ~db'.off
    BY <1>0, <2>1 DEF Rows
  <2>3. Sound(db)' /\ Sound(tx)'
    BY <1>0, <2>1, <2>2, MoreDueKeeps, SoundPass, SoundTable
  <2>4. demo' \in BOOLEAN
    BY <2>1 DEF DemoOn
  <2>5. TypeOK'
    BY <1>0, <2>1, <2>2, <2>4 DEF TypeOK
  <2>6. (Heard(db) /\ Heard(tx) /\ Raced(db) /\ Raced(tx) /\ TextsAreGuarded)'
    BY <1>0, <2>1, <2>2 DEF Heard, Raced, TextsAreGuarded, Guard
  <2>7. Agree' /\ DemoIsOver'
    BY <1>0, <2>1, <2>2 DEF Agree, DemoIsOver, HasJobs, DemoOn
  <2>8. QED
    BY <2>3, <2>5, <2>6, <2>7
<1>2. CASE Cut
  <2>1. tx' = db /\ db' = db /\ demo' = demo /\ phase' = "idle" /\ slips' = slips + 1 /\ slips < MaxSlips
    BY <1>2 DEF Cut, demoVars
  <2>2. Sound(db)' /\ Sound(tx)'
    BY <1>0, <2>1, SoundPass, SoundTable
  <2>3. TypeOK'
    BY <1>0, <2>1, NotifyAssumption DEF TypeOK
  <2>4. (Heard(db) /\ Heard(tx) /\ Raced(db) /\ Raced(tx))'
    BY <1>0, <2>1 DEF Heard, Raced
  <2>5. (Agree /\ DemoIsOver)'
    BY <1>0, <2>1 DEF Agree, DemoIsOver, HasJobs
  <2>6. TextsAreGuarded'
    BY <1>0, <2>1 DEF TextsAreGuarded, Guard
  <2>7. QED
    BY <2>2, <2>3, <2>4, <2>5, <2>6
<1>3. ASSUME NEW j \in Job, FallsDue(j) \/ GuardLapses(j)
      PROVE  IInv'
  <2>1. /\ tx = db /\ tx' = db' /\ demo' = demo /\ phase' = "idle" /\ slips' \in {slips, slips + 1}
        /\ slips' \in 0..MaxSlips
        /\ \/ slips' = slips + 1 \/ db'.guard = db.guard
    <3>1. CASE FallsDue(j)
      BY <1>0, <3>1 DEF FallsDue, Agree, demoVars, TypeOK, Rows
    <3>2. CASE GuardLapses(j)
      BY <1>0, <3>2, NotifyAssumption DEF GuardLapses, Agree, demoVars, TypeOK
    <3>3. QED
      BY <1>3, <3>1, <3>2
  <2>2. /\ db' \in Rows /\ db'.status = db.status /\ db'.tries = db.tries
        /\ db.due \subseteq db'.due /\ db'.off = db.off
    BY <1>0, <1>3 DEF FallsDue, GuardLapses, Rows
  <2>3. Sound(db)' /\ Sound(tx)'
    BY <1>0, <2>1, <2>2, MoreDueKeeps, SoundPass, SoundTable
  <2>4. TypeOK'
    BY <1>0, <2>1, <2>2, NotifyAssumption DEF TypeOK
  <2>5. (Heard(db) /\ Heard(tx) /\ Raced(db) /\ Raced(tx))'
    BY <1>0, <2>1, <2>2 DEF Heard, Raced
  <2>6. (Agree /\ DemoIsOver)'
    BY <1>0, <2>1, <2>2 DEF Agree, DemoIsOver, HasJobs
  <2>7. TextsAreGuarded'
    BY <1>0, <2>1 DEF TextsAreGuarded, Guard
  <2>8. QED
    BY <2>3, <2>4, <2>5, <2>6, <2>7
<1>4. QED
  BY <1>1, <1>2, <1>3

\* What every reachable state satisfies, in the database and in the pass.
THEOREM Invariance == Spec => []IInv
<1>1. IInv /\ UNCHANGED vars => IInv'
  BY DEF IInv, vars, demoVars, passVars, TypeOK, Sound, Voices, OneVoice, Behind, Cascaded, Heard,
         Raced, Agree, HasJobs, DemoIsOver, TextsAreGuarded, Guard
<1>2. IInv /\ [Next]_vars => IInv'
  BY <1>1, OutsideStep, PlanStep, DispatchStep, TableStep DEF Next, Pass, Dispatch, Wait
<1>3. QED
  BY <1>2, Begins, PTL DEF Spec

\* No voice of the cascade is dropped, whatever fails, lapses, dies or is closed
\* meanwhile (orchestrator.py _fail, _simulate, _blocked_by_demo, :2194).
THEOREM CascadeSpeaks == Spec => []NoVoiceIsDropped
<1>1. IInv => NoVoiceIsDropped
  BY JobsAre DEF IInv, Sound, Voices, Heard, NoVoiceIsDropped
<1>2. QED
  BY <1>1, Invariance, PTL

\* A message of the guarded channel leaves once, and once more for each pass that
\* died or guard that lapsed; one voice of the cascade is enough (state.py:44).
THEOREM TwiceIsASlip == Spec => []TwiceOnlyIfCut
<1>1. ASSUME IInv
      PROVE  texts <= 1 + slips
  BY <1>1 DEF IInv, TypeOK, TextsAreGuarded, Guard
<1>2. ASSUME IInv
      PROVE  Cardinality({j \in Cascaded : db.status[j] = "sent"}) <= 1
  <2> DEFINE heard == {j \in Cascaded : db.status[j] = "sent"}
  <2>1. heard = {} \/ \E j \in Cascaded : heard = {j}
    BY <1>2 DEF IInv, Sound, OneVoice
  <2>2. Cardinality(heard) \in {0, 1}
    BY <2>1, FS_EmptySet, FS_Singleton
  <2>3. QED
    BY <2>2
<1>3. QED
  BY <1>1, <1>2, Invariance, PTL DEF TwiceOnlyIfCut

\* The demonstration blocks a notice only if it was granted in a race with the
\* incident (demo_mode.py:161).
THEOREM DemoBlocksInARace == Spec => []BlockedOnlyByRace
<1>1. IInv => BlockedOnlyByRace
  BY DEF IInv, Raced, BlockedOnlyByRace
<1>2. QED
  BY <1>1, Invariance, PTL
=============================================================================
