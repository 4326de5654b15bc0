--------------------------- MODULE DeliveryProofs ---------------------------
(***************************************************************************)
(* The two queues that hand out what they hold again after a failure, job  *)
(* queue and outbox, for any number of processes, jobs and entries.        *)
(***************************************************************************)
EXTENDS JobQueue, Outbox, TLAPS

-----------------------------------------------------------------------------
(* The job queue *)

LEMMA JobInvInit == JobInit => JobInv
  BY JobAssumption DEF JobInit, JobInv, JobTypeOK, AttemptsAreBounded, JobRow, JobStatus,
                       AdapterState, Idle, Delivery

(* A row that a step may leave, where n is the number of retryJob calls    *)
(* and of nacks from stale attempts by then.                               *)
JobRowOK(row, n) ==
  /\ row \in JobRow
  /\ row.attempts <= MaxAttempts + n
  /\ row.status \in {"absent", "waiting", "delayed"} => row.attempts < MaxAttempts + n

(* What a step leaves besides the rows.                                    *)
JobFrame ==
  /\ adapters \in [Adapters -> AdapterState] /\ deliveries \subseteq Delivery
  /\ retries \in 0..MaxJobRetries /\ stale \in Nat

LEMMA JobInvSplit ==
  JobInv <=> JobFrame /\ jobs \in [Jobs -> JobRow] /\ \A j \in Jobs : JobRowOK(jobs[j], retries + stale)
<1>1. ASSUME JobInv
      PROVE  JobFrame /\ jobs \in [Jobs -> JobRow] /\ \A j \in Jobs : JobRowOK(jobs[j], retries + stale)
  <2>1. retries \in Nat /\ stale \in Nat /\ MaxAttempts \in Nat /\ jobs \in [Jobs -> JobRow]
    BY <1>1, JobAssumption DEF JobInv, JobTypeOK
  <2>2. \A j \in Jobs : jobs[j] \in JobRow /\ jobs[j].attempts \in Nat
    BY <2>1 DEF JobRow
  <2>3. \A j \in Jobs : JobRowOK(jobs[j], retries + stale)
    BY <1>1, <2>1, <2>2 DEF JobInv, AttemptsAreBounded, JobRowOK
  <2> QED  BY Zenon, <1>1, <2>1, <2>3 DEF JobInv, JobTypeOK, JobFrame
<1>2. ASSUME JobFrame, jobs \in [Jobs -> JobRow], \A j \in Jobs : JobRowOK(jobs[j], retries + stale)
      PROVE  JobInv
  <2>1. retries \in Nat /\ stale \in Nat /\ MaxAttempts \in Nat
    BY <1>2, JobAssumption DEF JobFrame
  <2>2. \A j \in Jobs : jobs[j].attempts \in Nat
    BY <1>2 DEF JobRow
  <2> QED  BY <1>2, <2>1, <2>2 DEF JobInv, JobTypeOK, JobFrame, AttemptsAreBounded, JobRowOK
<1> QED  BY <1>1, <1>2

LEMMA JobInvSplitNext ==
  ASSUME JobFrame', jobs' \in [Jobs -> JobRow], \A j \in Jobs : JobRowOK(jobs'[j], retries' + stale')
  PROVE  JobInv'
<1>1. retries' \in Nat /\ stale' \in Nat /\ MaxAttempts \in Nat
  BY JobAssumption DEF JobFrame
<1>2. \A j \in Jobs : jobs'[j].attempts \in Nat
  BY DEF JobRow
<1> QED  BY <1>1, <1>2 DEF JobInv, JobTypeOK, JobFrame, AttemptsAreBounded, JobRowOK

(* A step that changes at most the row of one job.                         *)
LEMMA OneJobStep ==
  ASSUME JobInv, JobFrame', retries' >= retries, stale' >= stale,
         \/ jobs' = jobs
         \/ \E j \in Jobs : \E row : JobRowOK(row, retries' + stale') /\ jobs' = [jobs EXCEPT ![j] = row]
  PROVE  JobInv'
<1>1. /\ retries \in Nat /\ stale \in Nat /\ retries' \in Nat /\ stale' \in Nat
      /\ MaxAttempts \in Nat /\ jobs \in [Jobs -> JobRow]
      /\ \A j \in Jobs : JobRowOK(jobs[j], retries + stale)
  BY JobInvSplit, JobAssumption DEF JobFrame
<1>2. \A j \in Jobs : JobRowOK(jobs[j], retries' + stale')
  <2>1. \A j \in Jobs : jobs[j].attempts \in Nat
    BY <1>1 DEF JobRow
  <2> QED  BY <1>1, <2>1 DEF JobRowOK
<1>3. CASE jobs' = jobs
  BY <1>1, <1>2, <1>3, JobInvSplitNext
<1>4. CASE \E j \in Jobs : \E row : JobRowOK(row, retries' + stale') /\ jobs' = [jobs EXCEPT ![j] = row]
  <2> PICK j \in Jobs : \E row : JobRowOK(row, retries' + stale') /\ jobs' = [jobs EXCEPT ![j] = row]
    BY <1>4
  <2>1. PICK row : JobRowOK(row, retries' + stale') /\ jobs' = [jobs EXCEPT ![j] = row]
    OBVIOUS
  <2>2. jobs' \in [Jobs -> JobRow] /\ \A i \in Jobs : JobRowOK(jobs'[i], retries' + stale')
    BY <1>1, <1>2, <2>1 DEF JobRowOK
  <2> QED  BY <2>2, JobInvSplitNext
<1> QED  BY <1>3, <1>4

LEMMA RevivedRow ==
  ASSUME NEW row, NEW n \in Nat, JobRowOK(row, n)
  PROVE  JobRowOK(Revived(row), n)
<1>1. CASE row.delay = "due" /\ row.status = "delayed"
  BY <1>1 DEF JobRowOK, JobRow, JobStatus, Revived
<1>2. CASE row.delay = "due" /\ row.status = "active"
  <2> DEFINE new == [row EXCEPT
               !.status = IF row.attempts >= MaxAttempts THEN "dead_letter" ELSE "waiting",
               !.delay = "none"]
  <2>1. Revived(row) = new
    BY <1>2 DEF Revived
  <2>2. /\ new \in JobRow /\ new.attempts = row.attempts /\ row.attempts \in Nat
        /\ new.status = IF row.attempts >= MaxAttempts THEN "dead_letter" ELSE "waiting"
    BY Zenon DEF JobRowOK, JobRow, JobStatus
  <2> HIDE DEF new
  <2> QED  BY <2>1, <2>2, JobAssumption DEF JobRowOK
<1>3. CASE ~(row.delay = "due" /\ row.status \in {"delayed", "active"})
  BY <1>3 DEF Revived
<1> QED  BY <1>1, <1>2, <1>3

LEMMA DequeueStep ==
  ASSUME JobInv, NEW p \in Adapters, DequeueRevive(p) \/ DequeueSelect(p) \/ DequeueTake(p)
  PROVE  JobInv'
<1>1. /\ JobFrame /\ retries \in Nat /\ stale \in Nat /\ MaxAttempts \in Nat
      /\ jobs \in [Jobs -> JobRow]
      /\ \A j \in Jobs : /\ JobRowOK(jobs[j], retries + stale)
                         /\ jobs[j] \in JobRow /\ jobs[j].attempts \in Nat
  BY JobInvSplit, JobAssumption DEF JobFrame, JobRow
<1>2. ASSUME UNCHANGED <<deliveries, retries, stale>>,
             NEW s \in AdapterState, adapters' = [adapters EXCEPT ![p] = s]
      PROVE  JobFrame'
  BY Zenon, <1>1, <1>2 DEF JobFrame
<1>3. CASE DequeueRevive(p)
  <2>1. [at |-> "revived"] \in AdapterState
    BY DEF AdapterState
  <2>2. JobFrame'
    BY Zenon, <1>2, <1>3, <2>1 DEF DequeueRevive
  <2>3. \A j \in Jobs : JobRowOK(Revived(jobs[j]), retries + stale)
    BY <1>1, RevivedRow
  <2>4. jobs' = [j \in Jobs |-> Revived(jobs[j])] /\ UNCHANGED <<retries, stale>>
    BY Zenon, <1>3 DEF DequeueRevive
  <2>5. \A j \in Jobs : JobRowOK(jobs'[j], retries' + stale')
    BY Zenon, <2>3, <2>4
  <2>6. jobs' \in [Jobs -> JobRow]
    BY Zenon, <2>3, <2>4 DEF JobRowOK
  <2> QED  BY <2>2, <2>5, <2>6, JobInvSplitNext
<1>4. CASE DequeueSelect(p)
  <2>1. Idle \in AdapterState
    BY DEF Idle, AdapterState
  <2>2. ASSUME NEW j \in Jobs
        PROVE  [at |-> "selected", job |-> j, attempts |-> jobs[j].attempts] \in AdapterState
    BY <1>1 DEF AdapterState
  <2>3. \E s \in AdapterState : adapters' = [adapters EXCEPT ![p] = s]
    BY Zenon, <1>4, <2>1, <2>2 DEF DequeueSelect
  <2>4. JobFrame' /\ UNCHANGED <<jobs, retries, stale>>
    BY Zenon, <1>2, <1>4, <2>3 DEF DequeueSelect
  <2> QED  BY <1>1, <2>4, OneJobStep
<1>5. CASE DequeueTake(p)
  <2> DEFINE j == adapters[p].job
             d == [job |-> j, attempt |-> adapters[p].attempts + 1, to |-> p]
             row == [status |-> "active", attempts |-> jobs[j].attempts + 1, delay |-> "running"]
  <2>1. j \in Jobs /\ adapters[p].attempts \in Nat
    BY <1>1, <1>5 DEF DequeueTake, JobFrame, AdapterState
  <2>2. d \in Delivery /\ Idle \in AdapterState
    BY <2>1 DEF Delivery, Idle, AdapterState
  <2>3. /\ deliveries' = deliveries \cup {d} /\ UNCHANGED <<retries, stale>>
        /\ adapters' = [adapters EXCEPT ![p] = Idle]
        /\ jobs' = IF jobs[j].status = "waiting" THEN [jobs EXCEPT ![j] = row] ELSE jobs
    BY Zenon, <1>1, <1>5, <2>1 DEF DequeueTake
  <2>4. jobs[j].status = "waiting" => JobRowOK(row, retries + stale)
    BY <1>1, <2>1 DEF JobRowOK, JobRow, JobStatus
  <2> HIDE DEF j, d, row
  <2>5. JobFrame'
    BY <1>1, <2>2, <2>3 DEF JobFrame
  <2>6. retries' = retries /\ stale' = stale /\ retries' >= retries /\ stale' >= stale
    BY <1>1, <2>3
  <2>7. \/ jobs' = jobs
        \/ \E i \in Jobs : \E r : JobRowOK(r, retries' + stale') /\ jobs' = [jobs EXCEPT ![i] = r]
    BY Zenon, <2>1, <2>3, <2>4, <2>6
  <2> QED  BY Zenon, <2>5, <2>6, <2>7, OneJobStep
<1> QED  BY <1>3, <1>4, <1>5

LEMMA NackStep ==
  ASSUME JobInv, NEW p \in Adapters, NackWrite(p)
  PROVE  JobInv'
<1> DEFINE j == adapters[p].job
           n == adapters[p].attempts
           row == Nacked(jobs[j], n)
<1>1. /\ JobFrame /\ retries \in Nat /\ stale \in Nat /\ MaxAttempts \in Nat
      /\ \A i \in Jobs : JobRowOK(jobs[i], retries + stale)
  BY JobInvSplit, JobAssumption DEF JobFrame
<1>2. j \in Jobs /\ n \in Nat
  BY <1>1 DEF NackWrite, JobFrame, AdapterState
<1>3. /\ stale' = IF n < MaxAttempts /\ MaxAttempts <= jobs[j].attempts THEN stale + 1 ELSE stale
      /\ jobs' = IF jobs[j].status = "purged" THEN jobs ELSE [jobs EXCEPT ![j] = row]
      /\ adapters' = [adapters EXCEPT ![p] = Idle] /\ UNCHANGED <<deliveries, retries>>
  BY Zenon DEF NackWrite
<1>4. JobRowOK(row, retries' + stale')
  <2>1. /\ jobs[j] \in JobRow /\ jobs[j].attempts \in Nat
        /\ jobs[j].attempts <= MaxAttempts + (retries + stale)
    BY <1>1, <1>2 DEF JobRowOK, JobRow
  <2>2. /\ row \in JobRow /\ row.attempts = jobs[j].attempts
        /\ row.status = IF n >= MaxAttempts THEN "dead_letter" ELSE "delayed"
    BY Zenon, <2>1 DEF Nacked, JobRow, JobStatus
  <2> HIDE DEF row, j, n
  <2> QED  BY <1>1, <1>2, <1>3, <2>1, <2>2 DEF JobRowOK
<1>5. Idle \in AdapterState
  BY DEF Idle, AdapterState
<1> HIDE DEF row, j, n
<1>6. JobFrame' /\ retries' >= retries /\ stale' >= stale
  BY <1>1, <1>3, <1>5 DEF JobFrame
<1>7. \/ jobs' = jobs
      \/ \E i \in Jobs : \E r : JobRowOK(r, retries' + stale') /\ jobs' = [jobs EXCEPT ![i] = r]
  BY Zenon, <1>2, <1>3, <1>4
<1> QED  BY Zenon, <1>6, <1>7, OneJobStep

LEMMA JobInvStep ==
  ASSUME JobInv, [JobNext]_jobVars
  PROVE  JobInv'
<1>1. /\ retries \in Nat /\ stale \in Nat /\ MaxAttempts \in Nat
      /\ jobs \in [Jobs -> JobRow] /\ JobFrame
      /\ \A j \in Jobs : JobRowOK(jobs[j], retries + stale) /\ jobs[j] \in JobRow
  BY JobInvSplit, JobAssumption DEF JobFrame
<1>2. ASSUME NEW j \in Jobs, NEW row, JobRowOK(row, retries + stale),
             jobs' = [jobs EXCEPT ![j] = row], UNCHANGED <<adapters, retries, stale>>,
             deliveries' \subseteq deliveries
      PROVE  JobInv'
  <2>1. JobFrame' /\ retries' >= retries /\ stale' >= stale
    BY <1>1, <1>2 DEF JobFrame
  <2>2. JobRowOK(row, retries' + stale')
    BY Zenon, <1>2
  <2> QED  BY Zenon, <1>2, <2>1, <2>2, OneJobStep
<1>3. ASSUME UNCHANGED <<jobs, adapters, retries, stale>>, deliveries' \subseteq deliveries
      PROVE  JobInv'
  BY <1>1, <1>3, OneJobStep DEF JobFrame
<1>4. ASSUME NEW j \in Jobs, NEW delayed \in BOOLEAN, Enqueue(j, delayed)
      PROVE  JobInv'
  <2> DEFINE row == [jobs[j] EXCEPT !.status = IF delayed THEN "delayed" ELSE "waiting",
                                    !.delay = IF delayed THEN "running" ELSE "none"]
  <2>1. JobRowOK(row, retries + stale)
    BY Zenon, <1>1, <1>4 DEF Enqueue, JobRowOK, JobRow, JobStatus
  <2>2. jobs' = [jobs EXCEPT ![j] = row]
    BY Zenon, <1>1, <1>4 DEF Enqueue, JobRow
  <2> QED  BY Zenon, <1>2, <1>4, <2>1, <2>2 DEF Enqueue
<1>5. ASSUME NEW j \in Jobs, DelayPasses(j)
      PROVE  JobInv'
  <2>1. JobRowOK([jobs[j] EXCEPT !.delay = "due"], retries + stale)
    BY <1>1 DEF JobRowOK, JobRow
  <2> QED  BY Zenon, <1>2, <1>5, <2>1 DEF DelayPasses
<1>6. ASSUME NEW j \in Jobs, MoveToDeadLetter(j)
      PROVE  JobInv'
  <2>1. JobRowOK([jobs[j] EXCEPT !.status = "dead_letter"], retries + stale)
    BY <1>1 DEF JobRowOK, JobRow, JobStatus
  <2> QED  BY Zenon, <1>2, <1>6, <2>1 DEF MoveToDeadLetter
<1>7. ASSUME NEW j \in Jobs, RetryJob(j)
      PROVE  JobInv'
  <2> DEFINE row == [jobs[j] EXCEPT !.status = "waiting", !.delay = "none"]
  <2>1. retries' = retries + 1 /\ retries' \in 0..MaxJobRetries /\ stale' = stale
    BY <1>1, <1>7, JobAssumption DEF RetryJob
  <2>2. JobRowOK(row, retries' + stale')
    <3>1. row \in JobRow /\ row.attempts = jobs[j].attempts
      BY Zenon, <1>1 DEF JobRow, JobStatus
    <3>2. jobs[j].attempts \in Nat /\ jobs[j].attempts <= MaxAttempts + (retries + stale)
      BY <1>1 DEF JobRowOK, JobRow
    <3> HIDE DEF row
    <3> QED  BY <1>1, <2>1, <3>1, <3>2 DEF JobRowOK
  <2>3. jobs' = jobs \/ jobs' = [jobs EXCEPT ![j] = row]
    BY Zenon, <1>1, <1>7 DEF RetryJob, JobRow
  <2> HIDE DEF row
  <2>4. JobFrame' /\ retries' >= retries /\ stale' >= stale
    BY <1>1, <1>7, <2>1 DEF RetryJob, JobFrame
  <2> QED  BY Zenon, <2>2, <2>3, <2>4, OneJobStep
<1>8. ASSUME NEW d \in deliveries, Ack(d) \/ NackRead(d) \/ HandlerLost(d)
      PROVE  JobInv'
  <2>1. d.job \in Jobs /\ d.to \in Adapters /\ jobs[d.job].attempts \in Nat
    BY <1>1 DEF JobFrame, Delivery, JobRow
  <2>2. CASE Ack(d)
    <3>1. JobRowOK([jobs[d.job] EXCEPT !.status = "completed", !.delay = "none"], retries + stale)
      BY Zenon, <1>1, <2>1 DEF JobRowOK, JobRow, JobStatus
    <3>2. jobs[d.job].status # "purged" =>
            jobs' = [jobs EXCEPT ![d.job] = [jobs[d.job] EXCEPT !.status = "completed", !.delay = "none"]]
      BY Zenon, <1>1, <2>1, <2>2 DEF Ack, JobRow
    <3> QED  BY <1>2, <1>3, <2>1, <2>2, <3>1, <3>2 DEF Ack
  <2>3. CASE NackRead(d)
    <3> DEFINE s == [at |-> "nacking", job |-> d.job, attempts |-> jobs[d.job].attempts]
    <3>1. s \in AdapterState
      BY <2>1 DEF AdapterState
    <3>2. adapters' = [adapters EXCEPT ![d.to] = s] /\ deliveries' \subseteq deliveries
      BY Zenon, <2>3 DEF NackRead
    <3> HIDE DEF s
    <3>3. JobFrame' /\ retries' = retries /\ stale' = stale /\ jobs' = jobs
      BY <1>1, <2>3, <3>1, <3>2 DEF JobFrame, NackRead
    <3>4. retries' >= retries /\ stale' >= stale
      BY <1>1, <3>3
    <3> QED  BY Zenon, <3>3, <3>4, OneJobStep
  <2>4. CASE HandlerLost(d)
    BY <1>3, <2>4 DEF HandlerLost
  <2> QED  BY <1>8, <2>2, <2>3, <2>4
<1>9. CASE Purge
  <2>1. PICK old \in SUBSET {j \in Jobs : jobs[j].status \in {"completed", "dead_letter"}} :
          jobs' = [j \in Jobs |-> [jobs[j] EXCEPT !.status = IF j \in old THEN "purged" ELSE @]]
    BY Zenon, <1>9 DEF Purge
  <2>2. \A j \in Jobs : JobRowOK(jobs'[j], retries + stale)
    BY <1>1, <2>1 DEF JobRowOK, JobRow, JobStatus
  <2>3. jobs' \in [Jobs -> JobRow]
    BY <2>1, <2>2 DEF JobRowOK
  <2>4. JobFrame' /\ retries' = retries /\ stale' = stale
    BY <1>1, <1>9 DEF Purge, JobFrame
  <2> QED  BY <2>2, <2>3, <2>4, JobInvSplitNext
<1>10. CASE UNCHANGED jobVars
  BY <1>3, <1>10 DEF jobVars
<1>11. ASSUME NEW p \in Adapters, AdapterStep(p)
       PROVE  JobInv'
  BY Zenon, <1>11, DequeueStep, NackStep DEF AdapterStep
<1> QED
  BY <1>4, <1>5, <1>6, <1>7, <1>8, <1>9, <1>10, <1>11 DEF JobNext, QueueStep

(* However many processes share the database, with no call of theirs a     *)
(* transaction, and whichever closures of earlier deliveries are called    *)
(* late, the attempts of a job stay within max_attempts, one more for each *)
(* retryJob, and one more for each nack that another process overtook.     *)
THEOREM JobAttempts == JobSpec => []AttemptsAreBounded
<1>1. JobInv => AttemptsAreBounded
  BY DEF JobInv
<1> QED  BY JobInvInit, JobInvStep, <1>1, PTL DEF JobSpec

-----------------------------------------------------------------------------
(* The outbox *)

(* A row that is pending, or a local copy, puts an entry on the next poll. *)
Waits(b, e) == b.row[e] = "pending" \/ b.local[e] # Absent

RetryCounts == [Entries -> Nat \cup {Absent}]

LEMMA MarkPublishedFacts ==
  ASSUME NEW b \in Boxes, NEW S \in SUBSET Entries
  PROVE  /\ MarkPublished(b, S) \in Boxes /\ MarkPublished(b, S).sent = b.sent
         /\ \A e \in Entries : Waits(MarkPublished(b, S), e) => Waits(b, e) /\ e \notin S
<1> DEFINE c == MarkPublished(b, S)
<1>1. /\ c.row = [e \in Entries |-> IF e \in S /\ b.row[e] \notin {"none", "deleted"}
                                    THEN "published" ELSE b.row[e]]
      /\ c.local = [e \in Entries |-> IF e \in S THEN Absent ELSE b.local[e]]
      /\ c.tries = b.tries /\ c.sent = b.sent
  BY DEF MarkPublished, Boxes
<1>2. c \in Boxes
  BY Zenon DEF MarkPublished, Boxes
<1>3. ASSUME NEW e \in Entries, Waits(c, e)
      PROVE  Waits(b, e) /\ e \notin S
  BY <1>1, <1>3 DEF Waits
<1> QED  BY <1>1, <1>2, <1>3

LEMMA MarkDeadLetteredFacts ==
  ASSUME NEW b \in Boxes, NEW S \in SUBSET Entries
  PROVE  /\ MarkDeadLettered(b, S) \in Boxes /\ MarkDeadLettered(b, S).sent = b.sent
         /\ \A e \in Entries : Waits(MarkDeadLettered(b, S), e) => Waits(b, e)
<1> DEFINE c == MarkDeadLettered(b, S)
<1>1. /\ c.row = [e \in Entries |-> IF e \in S /\ b.row[e] # "none" THEN "dead" ELSE b.row[e]]
      /\ c.local = [e \in Entries |-> IF e \in S THEN Absent ELSE b.local[e]]
      /\ c.tries = b.tries /\ c.sent = b.sent
  BY DEF MarkDeadLettered, Boxes
<1>2. c \in Boxes
  BY Zenon DEF MarkDeadLettered, Boxes
<1>3. ASSUME NEW e \in Entries, Waits(c, e)
      PROVE  Waits(b, e)
  BY <1>1, <1>3 DEF Waits
<1> QED  BY <1>1, <1>2, <1>3

LEMMA MarkFailedFacts ==
  ASSUME NEW b \in Boxes, NEW S \in SUBSET Entries, NEW read \in RetryCounts
  PROVE  /\ MarkFailed(b, S, read) \in Boxes /\ MarkFailed(b, S, read).sent = b.sent
         /\ \A e \in Entries : Waits(MarkFailed(b, S, read), e) => Waits(b, e)
<1> DEFINE c == MarkFailed(b, S, read)
           tries == [e \in Entries |-> IF e \in S /\ b.row[e] # "none" THEN read[e] + 1 ELSE b.tries[e]]
           local == [e \in Entries |-> IF e \in S /\ b.local[e] # Absent THEN read[e] + 1 ELSE b.local[e]]
<1>1. \A e \in Entries : read[e] + 1 \in Nat
  BY DEF RetryCounts, Absent
<1>2. tries \in [Entries -> Nat] /\ local \in [Entries -> Nat \cup {Absent}]
  BY <1>1 DEF Boxes
<1>3. c = [b EXCEPT !.tries = tries, !.local = local]
  BY DEF MarkFailed
<1>4. \A e \in Entries : local[e] # Absent => b.local[e] # Absent
  OBVIOUS
<1> HIDE DEF c, tries, local
<1>5. c \in Boxes /\ c.row = b.row /\ c.local = local /\ c.sent = b.sent
  BY Zenon, <1>2, <1>3 DEF Boxes
<1>6. \A e \in Entries : Waits(c, e) => Waits(b, e)
  BY <1>4, <1>5 DEF Waits
<1> QED  BY <1>5, <1>6 DEF c

LEMMA SendFacts ==
  ASSUME NEW b \in Boxes, NEW S \in SUBSET Entries
  PROVE  /\ Send(b, S) \in Boxes
         /\ \A e \in Entries : /\ Waits(Send(b, S), e) = Waits(b, e)
                               /\ Send(b, S).sent[e] = IF e \in S THEN b.sent[e] + 1 ELSE b.sent[e]
<1> DEFINE c == Send(b, S)
           sent == [e \in Entries |-> IF e \in S THEN b.sent[e] + 1 ELSE b.sent[e]]
<1>1. sent \in [Entries -> Nat]
  BY DEF Boxes
<1>2. c = [b EXCEPT !.sent = sent]
  BY DEF Send
<1>3. \A e \in Entries : sent[e] = IF e \in S THEN b.sent[e] + 1 ELSE b.sent[e]
  OBVIOUS
<1> HIDE DEF c, sent
<1>4. c \in Boxes /\ c.row = b.row /\ c.local = b.local /\ c.sent = sent
  BY <1>1, <1>2 DEF Boxes
<1> QED  BY <1>3, <1>4 DEF c, Waits

(* A chunk that the bus takes waits no longer.                             *)
LEMMA PublishChunkFacts ==
  ASSUME NEW b \in Boxes, NEW S \in SUBSET Entries, NEW read \in RetryCounts
  PROVE  /\ PublishChunk(b, S, read) \in Boxes
         /\ \A e \in Entries :
              /\ Waits(PublishChunk(b, S, read), e) => Waits(b, e)
              /\ \/ PublishChunk(b, S, read).sent[e] = b.sent[e]
                 \/ /\ PublishChunk(b, S, read).sent[e] = b.sent[e] + 1
                    /\ e \in S /\ ~Waits(PublishChunk(b, S, read), e)
<1>1. CASE S \cap Refused = {}
  <2>1. PublishChunk(b, S, read) = MarkPublished(Send(b, S), S)
    BY <1>1 DEF PublishChunk
  <2>2. Send(b, S) \in Boxes
    BY SendFacts
  <2> QED  BY <2>1, <2>2, SendFacts, MarkPublishedFacts
<1>2. CASE S \cap Refused # {}
  <2>1. PublishChunk(b, S, read) = MarkFailed(b, S, read)
    BY <1>2 DEF PublishChunk
  <2> QED  BY <2>1, MarkFailedFacts
<1> QED  BY <1>1, <1>2

LEMMA OutboxInitial == OutboxInit => OutboxInv
<1> SUFFICES ASSUME OutboxInit PROVE OutboxInv
  OBVIOUS
<1>1. 0 \in Nat /\ 0 \in 0..MaxCreated /\ 0 \in 0..MaxInterruptions
  BY OutboxAssumption
<1>2. box \in Boxes /\ poller \in Pollers
  BY Zenon, <1>1 DEF OutboxInit, Boxes, Pollers, Unlisted
<1>3. ASSUME NEW e \in Entries PROVE box.sent[e] = 0 /\ ~Sendable(e)
  BY DEF OutboxInit, Sendable
<1>4. \A e \in Entries : 0 <= interruptions /\ 0 <= 1 + interruptions
  BY DEF OutboxInit
<1> QED  BY <1>1, <1>2, <1>3, <1>4 DEF OutboxInit, OutboxInv, OutboxTypeOK, SentOncePerInterruption

(* A step that sends an entry once, and only one that was waiting, leaves  *)
(* it waiting only where it counts as an interruption.                     *)
LEMMA OutboxMove ==
  ASSUME OutboxInv, OutboxTypeOK', created' = created, interruptions' >= interruptions,
         \A e \in Entries :
           \/ box'.sent[e] = box.sent[e] /\ (Sendable(e)' => Sendable(e))
           \/ /\ box'.sent[e] = box.sent[e] + 1 /\ Sendable(e)
              /\ Sendable(e)' => interruptions' > interruptions
  PROVE  OutboxInv'
<1>1. interruptions \in Nat /\ interruptions' \in Nat /\ created \in Nat
  BY OutboxAssumption DEF OutboxInv, OutboxTypeOK
<1>2. ASSUME NEW e \in Entries
      PROVE  /\ box'.sent[e] <= 1 + interruptions'
             /\ Sendable(e)' => box'.sent[e] <= interruptions' /\ e <= created'
             /\ e > created' => box'.sent[e] = 0
  <2>1. e \in Nat /\ box.sent[e] \in Nat
    BY OutboxAssumption DEF OutboxInv, OutboxTypeOK, Boxes, Entries
  <2>2. /\ box.sent[e] <= 1 + interruptions
        /\ Sendable(e) => box.sent[e] <= interruptions /\ e <= created
        /\ e > created => box.sent[e] = 0
    BY DEF OutboxInv, SentOncePerInterruption
  <2>3. CASE box'.sent[e] = box.sent[e] /\ (Sendable(e)' => Sendable(e))
    BY <1>1, <2>1, <2>2, <2>3
  <2>4. CASE /\ box'.sent[e] = box.sent[e] + 1 /\ Sendable(e)
             /\ Sendable(e)' => interruptions' > interruptions
    BY <1>1, <2>1, <2>2, <2>4
  <2> QED  BY <2>3, <2>4
<1> QED  BY <1>2 DEF OutboxInv, SentOncePerInterruption

LEMMA RetryCountType ==
  ASSUME OutboxTypeOK
  PROVE  RetryCount \in RetryCounts /\ ListedRetryCount \in RetryCounts /\ Unlisted \in RetryCounts
BY DEF OutboxTypeOK, Boxes, Pollers, RetryCounts, RetryCount, ListedRetryCount, Unlisted

LEMMA ListedEntries ==
  /\ \A e \in PendingEntries(BatchSize) : e \in Entries /\ Waits(box, e)
  /\ \A S \in SUBSET Entries : Chunk(S) \subseteq S
  /\ \A waiting_ \in SUBSET Entries : Eligible(waiting_) \subseteq PendingEntries(BatchSize)
  /\ Exhausted \subseteq PendingEntries(BatchSize)
BY Zenon DEF PendingEntries, Oldest, Waits, Chunk, Eligible, Exhausted

LEMMA WriteStep ==
  ASSUME OutboxInv, WriteCommitted \/ WriteRolledBack
  PROVE  OutboxInv'
<1> DEFINE n == created + 1
<1>1. n \in Entries /\ n \in 0..MaxCreated /\ created \in Nat /\ interruptions \in Nat
  BY OutboxAssumption DEF OutboxInv, OutboxTypeOK, WriteCommitted, WriteRolledBack, Entries
<1>2. created' = n /\ poller' = poller /\ interruptions' = interruptions
  BY DEF WriteCommitted, WriteRolledBack
<1> HIDE DEF n
<1>3. \/ box' = [box EXCEPT !.row[n] = "pending", !.local[n] = 0]
      \/ box' = [box EXCEPT !.local[n] = 0]
  BY DEF WriteCommitted, WriteRolledBack, n
<1>4. /\ box' \in Boxes /\ box'.sent = box.sent
      /\ \A e \in Entries : e # n => box'.row[e] = box.row[e] /\ box'.local[e] = box.local[e]
  <2> DEFINE row == [box.row EXCEPT ![n] = "pending"]
             local == [box.local EXCEPT ![n] = 0]
  <2>1. /\ row \in [Entries -> {"none", "pending", "published", "dead", "deleted"}]
        /\ local \in [Entries -> Nat \cup {Absent}]
    BY <1>1 DEF OutboxInv, OutboxTypeOK, Boxes
  <2>2. \A e \in Entries : e # n => row[e] = box.row[e] /\ local[e] = box.local[e]
    BY <1>1 DEF OutboxInv, OutboxTypeOK, Boxes
  <2>3. \/ box' = [box EXCEPT !.row = row, !.local = local] \/ box' = [box EXCEPT !.local = local]
    BY <1>3
  <2> HIDE DEF row, local
  <2>4. /\ box' \in Boxes /\ box'.sent = box.sent
        /\ box'.row \in {row, box.row} /\ box'.local = local
    BY Zenon, <2>1, <2>3 DEF OutboxInv, OutboxTypeOK, Boxes
  <2> QED  BY Zenon, <2>2, <2>4
<1>6. \A e \in Entries : e # n => Sendable(e)' = Sendable(e)
  BY <1>2, <1>4 DEF Sendable
<1>7. OutboxTypeOK'
  BY <1>1, <1>2, <1>4 DEF OutboxInv, OutboxTypeOK
<1>8. ASSUME NEW e \in Entries
      PROVE  /\ box'.sent[e] <= 1 + interruptions'
             /\ Sendable(e)' => box'.sent[e] <= interruptions' /\ e <= created'
             /\ e > created' => box'.sent[e] = 0
  <2>1. e \in Nat /\ box.sent[e] \in Nat
    BY OutboxAssumption DEF OutboxInv, OutboxTypeOK, Boxes, Entries
  <2>2. /\ box.sent[e] <= 1 + interruptions
        /\ Sendable(e) => box.sent[e] <= interruptions /\ e <= created
        /\ e > created => box.sent[e] = 0
    BY DEF OutboxInv, SentOncePerInterruption
  <2>3. n = created + 1
    BY DEF n
  <2> QED  BY <1>1, <1>2, <1>4, <1>6, <2>1, <2>2, <2>3
<1> QED  BY Zenon, <1>7, <1>8 DEF OutboxInv, SentOncePerInterruption

LEMMA PollerStep ==
  ASSUME OutboxInv, StartPoller \/ StopPoller \/ RestartOutbox
  PROVE  OutboxInv'
<1>1. box' = box /\ created' = created /\ interruptions' = interruptions
  BY DEF StartPoller, StopPoller, RestartOutbox
<1>2. poller' \in Pollers /\ poller'.todo \subseteq poller.todo
  BY Zenon, RetryCountType DEF StartPoller, StopPoller, RestartOutbox, OutboxInv, OutboxTypeOK, Pollers, RetryCounts
<1>3. \A e \in Entries : Sendable(e)' => Sendable(e)
  BY <1>1, <1>2 DEF Sendable
<1>4. interruptions \in Nat
  BY OutboxAssumption DEF OutboxInv, OutboxTypeOK
<1> QED  BY <1>1, <1>2, <1>3, <1>4, OutboxMove DEF OutboxInv, OutboxTypeOK

LEMMA PollStep ==
  ASSUME OutboxInv, NEW later \in SUBSET Entries, Poll(later)
  PROVE  OutboxInv'
<1> DEFINE batch == Eligible(later)
           chunk == Chunk(batch)
           dead == MarkDeadLettered(box, Exhausted)
<1>1. /\ box' = PublishChunk(dead, chunk, RetryCount) /\ poller' = Polling(batch)
      /\ created' = created /\ interruptions' = interruptions
  BY Zenon DEF Poll
<1>2. /\ batch \in SUBSET Entries /\ chunk \in SUBSET Entries /\ Exhausted \in SUBSET Entries
      /\ chunk \subseteq batch /\ \A e \in batch : Waits(box, e)
  BY ListedEntries
<1>3. box \in Boxes /\ poller \in Pollers /\ RetryCount \in RetryCounts
  BY RetryCountType DEF OutboxInv, OutboxTypeOK
<1>4. dead \in Boxes /\ dead.sent = box.sent /\ \A e \in Entries : Waits(dead, e) => Waits(box, e)
  BY <1>2, <1>3, MarkDeadLetteredFacts
<1>5. poller' \in Pollers /\ poller'.todo \subseteq poller.todo \cup (batch \ chunk)
  BY Zenon, <1>1, <1>2, <1>3 DEF Polling, Pollers, RetryCounts
<1>6. poller.todo = {} /\ interruptions \in Nat
  BY OutboxAssumption DEF Poll, OutboxInv, OutboxTypeOK
<1> HIDE DEF batch, chunk, dead
<1>7. /\ box' \in Boxes
      /\ \A e \in Entries :
           /\ Waits(box', e) => Waits(box, e)
           /\ \/ box'.sent[e] = box.sent[e]
              \/ box'.sent[e] = box.sent[e] + 1 /\ e \in chunk /\ ~Waits(box', e)
  <2> DEFINE c == PublishChunk(dead, chunk, RetryCount)
  <2>1. /\ c \in Boxes
        /\ \A e \in Entries :
             /\ Waits(c, e) => Waits(dead, e)
             /\ \/ c.sent[e] = dead.sent[e]
                \/ c.sent[e] = dead.sent[e] + 1 /\ e \in chunk /\ ~Waits(c, e)
    BY <1>2, <1>3, <1>4, PublishChunkFacts
  <2>2. box' = c
    BY <1>1
  <2> HIDE DEF c
  <2> QED  BY <2>1, <2>2, <1>4
<1>8. \A e \in Entries : /\ Sendable(e) <=> Waits(box, e)
                         /\ Sendable(e)' <=> Waits(box', e) \/ e \in poller'.todo
  BY <1>6 DEF Sendable, Waits
<1>9. ASSUME NEW e \in Entries
      PROVE  \/ box'.sent[e] = box.sent[e] /\ (Sendable(e)' => Sendable(e))
             \/ /\ box'.sent[e] = box.sent[e] + 1 /\ Sendable(e)
                /\ Sendable(e)' => interruptions' > interruptions
  BY <1>2, <1>5, <1>6, <1>7, <1>8
<1>10. OutboxTypeOK'
  BY <1>1, <1>5, <1>7 DEF OutboxInv, OutboxTypeOK
<1> QED  BY <1>1, <1>6, <1>9, <1>10, OutboxMove

LEMMA NextChunkStep ==
  ASSUME OutboxInv, NextChunk
  PROVE  OutboxInv'
<1> DEFINE chunk == Chunk(poller.todo)
<1>1. /\ box' = PublishChunk(box, chunk, ListedRetryCount)
      /\ created' = created /\ interruptions' = interruptions
  BY DEF NextChunk
<1>2. /\ box \in Boxes /\ poller \in Pollers /\ ListedRetryCount \in RetryCounts
      /\ Unlisted \in RetryCounts /\ interruptions \in Nat
  BY RetryCountType, OutboxAssumption DEF OutboxInv, OutboxTypeOK
<1>3. poller.todo \in SUBSET Entries
  BY <1>2 DEF Pollers
<1>4. chunk \in SUBSET Entries /\ chunk \subseteq poller.todo
  BY <1>3, ListedEntries
<1> HIDE DEF chunk
<1>5. poller' \in Pollers /\ poller'.todo = poller.todo \ chunk
  BY Zenon, <1>2, <1>3 DEF NextChunk, Pollers, RetryCounts, chunk
<1>6. /\ box' \in Boxes
      /\ \A e \in Entries :
           /\ Waits(box', e) => Waits(box, e)
           /\ \/ box'.sent[e] = box.sent[e]
              \/ box'.sent[e] = box.sent[e] + 1 /\ e \in chunk /\ ~Waits(box', e)
  <2> DEFINE b == box
             read == ListedRetryCount
             c == PublishChunk(b, chunk, read)
  <2>1. b \in Boxes /\ chunk \in SUBSET Entries /\ read \in RetryCounts /\ box' = c
    BY <1>1, <1>2, <1>4
  <2> HIDE DEF b, read
  <2>2. /\ c \in Boxes
        /\ \A e \in Entries :
             /\ Waits(c, e) => Waits(b, e)
             /\ \/ c.sent[e] = b.sent[e]
                \/ c.sent[e] = b.sent[e] + 1 /\ e \in chunk /\ ~Waits(c, e)
    BY <2>1, PublishChunkFacts
  <2> HIDE DEF c
  <2> QED  BY <2>1, <2>2 DEF b
<1>7. \A e \in Entries : /\ Sendable(e) <=> Waits(box, e) \/ e \in poller.todo
                         /\ Sendable(e)' <=> Waits(box', e) \/ e \in poller'.todo
  BY DEF Sendable, Waits
<1>8. ASSUME NEW e \in Entries
      PROVE  \/ box'.sent[e] = box.sent[e] /\ (Sendable(e)' => Sendable(e))
             \/ /\ box'.sent[e] = box.sent[e] + 1 /\ Sendable(e)
                /\ Sendable(e)' => interruptions' > interruptions
  BY <1>4, <1>5, <1>6, <1>7
<1>9. OutboxTypeOK'
  BY <1>1, <1>5, <1>6 DEF OutboxInv, OutboxTypeOK
<1> QED  BY <1>1, <1>2, <1>8, <1>9, OutboxMove

LEMMA PublishPendingStep ==
  ASSUME OutboxInv, PublishPending
  PROVE  OutboxInv'
<1> DEFINE batch == PendingEntries(BatchSize)
           taken == batch \ Refused
           failed == batch \cap Refused
           b == MarkFailed(box, failed, RetryCount)
           c == Send(b, taken)
<1>1. /\ box' = MarkPublished(c, taken) /\ poller' = poller /\ created' = created
      /\ interruptions' = interruptions + 1 /\ interruptions < MaxInterruptions
  BY DEF PublishPending
<1>2. /\ box \in Boxes /\ RetryCount \in RetryCounts /\ interruptions \in Nat
      /\ interruptions + 1 \in 0..MaxInterruptions
  BY <1>1, RetryCountType, OutboxAssumption DEF OutboxInv, OutboxTypeOK
<1>3. taken \in SUBSET Entries /\ failed \in SUBSET Entries /\ \A e \in taken : Waits(box, e)
  BY ListedEntries
<1> HIDE DEF batch, taken, failed
<1>4. b \in Boxes /\ b.sent = box.sent /\ \A e \in Entries : Waits(b, e) => Waits(box, e)
  BY <1>2, <1>3, MarkFailedFacts
<1> HIDE DEF b
<1>5. /\ c \in Boxes
      /\ \A e \in Entries : /\ Waits(c, e) = Waits(b, e)
                            /\ c.sent[e] = IF e \in taken THEN b.sent[e] + 1 ELSE b.sent[e]
  BY <1>3, <1>4, SendFacts
<1> HIDE DEF c
<1>6. /\ box' \in Boxes /\ box'.sent = c.sent
      /\ \A e \in Entries : Waits(box', e) => Waits(c, e)
  BY <1>1, <1>3, <1>5, MarkPublishedFacts
<1>7. \A e \in Entries : /\ Sendable(e) <=> Waits(box, e) \/ e \in poller.todo
                         /\ Sendable(e)' <=> Waits(box', e) \/ e \in poller.todo
  BY Zenon, <1>1 DEF Sendable, Waits
<1>8. ASSUME NEW e \in Entries
      PROVE  \/ box'.sent[e] = box.sent[e] /\ (Sendable(e)' => Sendable(e))
             \/ /\ box'.sent[e] = box.sent[e] + 1 /\ Sendable(e)
                /\ Sendable(e)' => interruptions' > interruptions
  BY <1>1, <1>2, <1>3, <1>4, <1>5, <1>6, <1>7
<1>9. OutboxTypeOK'
  BY Zenon, <1>1, <1>2, <1>6 DEF OutboxInv, OutboxTypeOK
<1> QED  BY <1>1, <1>2, <1>8, <1>9, OutboxMove

LEMMA CleanupStep ==
  ASSUME OutboxInv, CleanupPublished
  PROVE  OutboxInv'
<1>1. created' = created /\ poller' = poller /\ interruptions' = interruptions /\ interruptions \in Nat
  BY OutboxAssumption DEF CleanupPublished, OutboxInv, OutboxTypeOK
<1>2. PICK e \in Entries : box' = [box EXCEPT !.row[e] = "deleted"]
  BY Zenon DEF CleanupPublished
<1>3. box' \in Boxes /\ box'.sent = box.sent /\ box'.local = box.local
  BY <1>2 DEF OutboxInv, OutboxTypeOK, Boxes
<1>4. \A d \in Entries : box'.row[d] = "pending" => box.row[d] = "pending"
  BY <1>2 DEF OutboxInv, OutboxTypeOK, Boxes
<1>5. \A d \in Entries : Sendable(d)' => Sendable(d)
  BY <1>1, <1>3, <1>4 DEF Sendable
<1>6. OutboxTypeOK'
  BY <1>1, <1>3 DEF OutboxInv, OutboxTypeOK
<1> QED  BY <1>1, <1>3, <1>5, <1>6, OutboxMove

(* A crash after the bus took the entries of S.                            *)
LEMMA CrashedStep ==
  ASSUME OutboxInv, NEW b \in Boxes, NEW S \in SUBSET Entries, Crashed(b),
         \A e \in Entries : Waits(b, e) => Waits(box, e),
         \A e \in Entries : b.sent[e] = IF e \in S THEN box.sent[e] + 1 ELSE box.sent[e],
         \A e \in S : Sendable(e)
  PROVE  OutboxInv'
<1>1. /\ created' = created /\ interruptions' = interruptions + 1 /\ interruptions \in Nat
      /\ interruptions + 1 \in 0..MaxInterruptions
  BY OutboxAssumption DEF Crashed, OutboxInv, OutboxTypeOK
<1>2. poller' \in Pollers /\ poller'.todo = {}
  BY DEF Crashed, Pollers, Unlisted
<1>3. box' \in Boxes /\ box'.sent = b.sent /\ box'.row = b.row /\ \A e \in Entries : box'.local[e] = Absent
  BY DEF Crashed, Boxes
<1>4. \A e \in Entries : Sendable(e)' => Sendable(e)
  BY <1>2, <1>3 DEF Sendable, Waits
<1>5. OutboxTypeOK'
  BY <1>1, <1>2, <1>3 DEF OutboxInv, OutboxTypeOK
<1>6. ASSUME NEW e \in Entries
      PROVE  \/ box'.sent[e] = box.sent[e] /\ (Sendable(e)' => Sendable(e))
             \/ /\ box'.sent[e] = box.sent[e] + 1 /\ Sendable(e)
                /\ Sendable(e)' => interruptions' > interruptions
  BY <1>1, <1>3, <1>4
<1> QED  BY <1>1, <1>5, <1>6, OutboxMove

LEMMA CrashStep ==
  ASSUME OutboxInv, CrashOutbox
  PROVE  OutboxInv'
<1>0. box \in Boxes /\ poller.todo \in SUBSET Entries
  BY DEF OutboxInv, OutboxTypeOK, Pollers
<1>1. CASE Crashed(box)
  <2>1. {} \in SUBSET Entries
    OBVIOUS
  <2> QED  BY Zenon, <1>0, <1>1, <2>1, CrashedStep
<1>2. CASE Crashed(Send(box, Chunk(poller.todo)))
  <2> DEFINE S == Chunk(poller.todo)
             b == Send(box, S)
  <2>1. S \in SUBSET Entries /\ S \subseteq poller.todo
    BY <1>0, ListedEntries
  <2>2. \A e \in S : Sendable(e)
    BY <2>1 DEF Sendable
  <2>3. Crashed(b)
    BY <1>2
  <2> HIDE DEF S
  <2>4. /\ b \in Boxes
        /\ \A e \in Entries : /\ Waits(b, e) = Waits(box, e)
                              /\ b.sent[e] = IF e \in S THEN box.sent[e] + 1 ELSE box.sent[e]
    BY <1>0, <2>1, SendFacts
  <2> HIDE DEF b
  <2> QED  BY <2>1, <2>2, <2>3, <2>4, CrashedStep
<1>3. ASSUME NEW later \in SUBSET InBackoff,
             Crashed(Send(MarkDeadLettered(box, Exhausted), Chunk(Eligible(later))))
      PROVE  OutboxInv'
  <2> DEFINE S == Chunk(Eligible(later))
             d == MarkDeadLettered(box, Exhausted)
             b == Send(d, S)
  <2>1. later \in SUBSET Entries
    BY ListedEntries DEF InBackoff
  <2>2. S \in SUBSET Entries /\ Exhausted \in SUBSET Entries /\ \A e \in S : Waits(box, e)
    BY <2>1, ListedEntries
  <2>3. \A e \in S : Sendable(e)
    BY <2>2 DEF Sendable, Waits
  <2>4. Crashed(b)
    BY <1>3
  <2>5. d \in Boxes /\ d.sent = box.sent /\ \A e \in Entries : Waits(d, e) => Waits(box, e)
    BY <1>0, <2>2, MarkDeadLetteredFacts
  <2> HIDE DEF S, d
  <2>6. /\ b \in Boxes
        /\ \A e \in Entries : /\ Waits(b, e) = Waits(d, e)
                              /\ b.sent[e] = IF e \in S THEN d.sent[e] + 1 ELSE d.sent[e]
    BY <2>2, <2>5, SendFacts
  <2> HIDE DEF b
  <2> QED  BY <2>2, <2>3, <2>4, <2>5, <2>6, CrashedStep
<1> QED  BY <1>1, <1>2, <1>3 DEF CrashOutbox, CrashWhileSending

LEMMA OutboxPreserved == OutboxInv /\ [OutboxNext]_outboxVars => OutboxInv'
<1> SUFFICES ASSUME OutboxInv, [OutboxNext]_outboxVars PROVE OutboxInv'
  OBVIOUS
<1>1. CASE PollTick
  <2>1. PICK later \in SUBSET InBackoff : Poll(later)
    BY <1>1 DEF PollTick
  <2>2. later \in SUBSET Entries
    BY ListedEntries DEF InBackoff
  <2> QED  BY <2>1, <2>2, PollStep
<1>2. CASE UNCHANGED outboxVars
  BY <1>2 DEF outboxVars, OutboxInv, OutboxTypeOK, SentOncePerInterruption, Sendable
<1> QED
  BY <1>1, <1>2, WriteStep, PollerStep, NextChunkStep, PublishPendingStep, CleanupStep, CrashStep
     DEF OutboxNext

(* The bus takes an entry once, and once more at most for each crash and   *)
(* each publishPending, whatever is written, refused or cleaned up.        *)
THEOREM OutboxDelivery == OutboxSpec => []SentOncePerInterruption
<1>1. OutboxInv => SentOncePerInterruption
  BY DEF OutboxInv
<1> QED  BY OutboxInitial, OutboxPreserved, <1>1, PTL DEF OutboxSpec

=============================================================================
