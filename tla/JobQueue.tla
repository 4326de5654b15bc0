------------------------------ MODULE JobQueue ------------------------------
(***************************************************************************)
(* SqliteQueueAdapter: the job queue of the single-instance deployment.    *)
(* dequeue hands a job out together with two closures, ack and nack; a job *)
(* whose closures are not called in time is handed out again, and its      *)
(* older closures stay callable.                                           *)
(*                                                                         *)
(* Several processes open the same database.  No call of the adapter is a  *)
(* transaction, so each SQL statement is a step, and those of other        *)
(* processes come in between.  Jobs are numbered by creation; a stored     *)
(* delay_until is "running" until its time has come.                       *)
(***************************************************************************)
EXTENDS Naturals, FiniteSets

CONSTANTS Adapters,           \* the processes, with an adapter each
          MaxJobs,            \* bound on the jobs
          Urgent,             \* jobs of the higher priority
          MaxAttempts,        \* max_attempts
          MaxJobRetries       \* bound on the calls of retryJob

ASSUME JobAssumption ==
  /\ MaxJobs \in Nat /\ Urgent \subseteq 1..MaxJobs
  /\ MaxAttempts \in Nat \ {0} /\ MaxJobRetries \in Nat

Jobs == 1..MaxJobs

VARIABLES jobs,               \* the rows of queue_jobs
          adapters,           \* the call each process is in the middle of
          deliveries,         \* the closures handlers hold
          retries,            \* calls of retryJob so far
          stale               \* nacks that wrote "delayed" over the last attempt

jobVars == <<jobs, adapters, deliveries, retries, stale>>

JobStatus == {"absent", "waiting", "delayed", "active", "completed", "dead_letter", "purged"}
JobRow == [status : JobStatus, attempts : Nat, delay : {"none", "running", "due"}]

(* Between two statements: of dequeue, up to the row it has selected, or   *)
(* of nack, with the attempts it has read.                                 *)
Idle == [at |-> "idle"]
AdapterState == [at : {"idle", "revived"}] \cup
                [at : {"selected", "nacking"}, job : Jobs, attempts : Nat]

Delivery == [job : Jobs, attempt : Nat, to : Adapters]

JobTypeOK ==
  /\ jobs \in [Jobs -> JobRow] /\ adapters \in [Adapters -> AdapterState]
  /\ deliveries \subseteq Delivery
  /\ retries \in 0..MaxJobRetries /\ stale \in Nat

JobInit ==
  /\ jobs = [j \in Jobs |-> [status |-> "absent", attempts |-> 0, delay |-> "none"]]
  /\ adapters = [p \in Adapters |-> Idle]
  /\ deliveries = {}
  /\ retries = 0 /\ stale = 0

-----------------------------------------------------------------------------
(* enqueue inserts a row that is waiting, or delayed                       *)
Enqueue(j, delayed) ==
  /\ jobs[j].status = "absent" /\ \A i \in 1..(j - 1) : jobs[i].status # "absent"
  /\ jobs' = [jobs EXCEPT ![j].status = IF delayed THEN "delayed" ELSE "waiting",
                          ![j].delay = IF delayed THEN "running" ELSE "none"]
  /\ UNCHANGED <<adapters, deliveries, retries, stale>>

DelayPasses(j) ==
  /\ jobs[j].delay = "running"
  /\ jobs' = [jobs EXCEPT ![j].delay = "due"]
  /\ UNCHANGED <<adapters, deliveries, retries, stale>>

-----------------------------------------------------------------------------
\* Variant: an active job is left to the process that has it.
RevivedDelayed(row) ==
  IF row.delay = "due" /\ row.status = "delayed" THEN [row EXCEPT !.status = "waiting"] ELSE row

(* dequeue: what is due waits again, or is given up.  The two updates are  *)
(* one step: they change different rows, so what comes in between might as *)
(* well come before or after both.                                         *)
Revived(row) ==
  CASE row.delay = "due" /\ row.status = "delayed" -> [row EXCEPT !.status = "waiting"]
    [] row.delay = "due" /\ row.status = "active" ->
         [row EXCEPT !.status = IF row.attempts >= MaxAttempts THEN "dead_letter" ELSE "waiting",
                     !.delay = "none"]
    [] OTHER -> row

DequeueRevive(p) ==
  /\ adapters[p] = Idle
  /\ jobs' = [j \in Jobs |-> Revived(jobs[j])]
  /\ adapters' = [adapters EXCEPT ![p] = [at |-> "revived"]]
  /\ UNCHANGED <<deliveries, retries, stale>>

Before(i, j) ==
  \/ i \in Urgent /\ j \notin Urgent
  \/ (i \in Urgent <=> j \in Urgent) /\ i < j

(* The first of those that wait is selected,                               *)
DequeueSelect(p) ==
  LET waiting == {j \in Jobs : jobs[j].status = "waiting"}
  IN /\ adapters[p] = [at |-> "revived"]
     /\ \/ /\ waiting = {}
           /\ adapters' = [adapters EXCEPT ![p] = Idle]
        \/ \E j \in waiting :
             /\ \A i \in waiting \ {j} : Before(j, i)
             /\ adapters' = [adapters EXCEPT ![p] =
                  [at |-> "selected", job |-> j, attempts |-> jobs[j].attempts]]
     /\ UNCHANGED <<jobs, deliveries, retries, stale>>

(* and it is made active if it still waits.  How many rows that changed is *)
(* not looked at: the job selected is handed out.                          *)
DequeueTake(p) ==
  LET j == adapters[p].job
  IN /\ adapters[p].at = "selected"
     /\ jobs' = IF jobs[j].status = "waiting"
                THEN [jobs EXCEPT ![j] = [status |-> "active", attempts |-> @.attempts + 1,
                                          delay |-> "running"]]
                ELSE jobs
     /\ deliveries' = deliveries \cup {[job |-> j, attempt |-> adapters[p].attempts + 1, to |-> p]}
     /\ adapters' = [adapters EXCEPT ![p] = Idle]
     /\ UNCHANGED <<retries, stale>>

-----------------------------------------------------------------------------
(* The closures update the row by its id alone.                            *)
Ack(d) ==
  /\ adapters[d.to] = Idle
  /\ jobs' = IF jobs[d.job].status = "purged" THEN jobs
             ELSE [jobs EXCEPT ![d.job].status = "completed", ![d.job].delay = "none"]
  /\ deliveries' = deliveries \ {d}
  /\ UNCHANGED <<adapters, retries, stale>>

(* nack reads the attempts,                                                *)
NackRead(d) ==
  /\ adapters[d.to] = Idle
  /\ adapters' = [adapters EXCEPT ![d.to] =
       [at |-> "nacking", job |-> d.job, attempts |-> jobs[d.job].attempts]]
  /\ deliveries' = deliveries \ {d}
  /\ UNCHANGED <<jobs, retries, stale>>

\* Variant: one attempt more than max_attempts.
NackedLate(row, attempts) ==
  IF attempts > MaxAttempts THEN [row EXCEPT !.status = "dead_letter", !.delay = "none"]
  ELSE [row EXCEPT !.status = "delayed", !.delay = "running"]

(* and writes what they call for.                                          *)
Nacked(row, attempts) ==
  IF attempts >= MaxAttempts THEN [row EXCEPT !.status = "dead_letter", !.delay = "none"]
  ELSE [row EXCEPT !.status = "delayed", !.delay = "running"]

NackWrite(p) ==
  LET j == adapters[p].job
      row == jobs[j]
  IN /\ adapters[p].at = "nacking"
     /\ jobs' = IF row.status = "purged" THEN jobs
                ELSE [jobs EXCEPT ![j] = Nacked(row, adapters[p].attempts)]
     /\ stale' = IF adapters[p].attempts < MaxAttempts /\ MaxAttempts <= row.attempts
                 THEN stale + 1 ELSE stale
     /\ adapters' = [adapters EXCEPT ![p] = Idle]
     /\ UNCHANGED <<deliveries, retries>>

(* A handler never calls back, as when its process stops.                  *)
HandlerLost(d) ==
  /\ deliveries' = deliveries \ {d}
  /\ UNCHANGED <<jobs, adapters, retries, stale>>

MoveToDeadLetter(j) ==
  /\ jobs[j].status \notin {"absent", "purged"}
  /\ jobs' = [jobs EXCEPT ![j].status = "dead_letter"]
  /\ UNCHANGED <<adapters, deliveries, retries, stale>>

RetryJob(j) ==
  /\ retries < MaxJobRetries /\ retries' = retries + 1
  /\ jobs' = IF jobs[j].status \in {"delayed", "dead_letter"}
             THEN [jobs EXCEPT ![j].status = "waiting", ![j].delay = "none"] ELSE jobs
  /\ UNCHANGED <<adapters, deliveries, stale>>

Purge ==
  \E old \in SUBSET {j \in Jobs : jobs[j].status \in {"completed", "dead_letter"}} :
    /\ jobs' = [j \in Jobs |-> [jobs[j] EXCEPT !.status = IF j \in old THEN "purged" ELSE @]]
    /\ UNCHANGED <<adapters, deliveries, retries, stale>>

AdapterStep(p) ==
  DequeueRevive(p) \/ DequeueSelect(p) \/ DequeueTake(p) \/ NackWrite(p)

(* The jobs in js are enqueued, operators move those in moved and retry    *)
(* those in retried, and the processes in ps take part.                    *)
QueueStep(js, moved, retried, ps) ==
  \/ \E j \in js : (\E delayed \in BOOLEAN : Enqueue(j, delayed)) \/ DelayPasses(j)
  \/ (\E j \in moved : MoveToDeadLetter(j)) \/ (\E j \in retried : RetryJob(j))
  \/ \E p \in ps : AdapterStep(p)
  \/ \E d \in deliveries : Ack(d) \/ NackRead(d) \/ HandlerLost(d)
  \/ Purge

JobNext == QueueStep(Jobs, Jobs, Jobs, Adapters)

(* Some consumer of the queue polls it, and time passes.                   *)
JobFairness ==
  /\ WF_jobVars(\E p \in Adapters : AdapterStep(p))
  /\ \A j \in Jobs : WF_jobVars(DelayPasses(j))

JobSpec == JobInit /\ [][JobNext]_jobVars /\ JobFairness

-----------------------------------------------------------------------------
(* Properties *)

(* max_attempts bounds the attempts of a job, whichever of its closures    *)
(* are called late and however the statements of several processes         *)
(* interleave: further ones come from retryJob alone, and from a nack that *)
(* read the attempts before another process made one more.                 *)
AttemptsAreBounded == \A j \in Jobs : jobs[j].attempts <= MaxAttempts + retries + stale

(* The inductive invariant: a job that may be handed out has an attempt    *)
(* left.                                                                   *)
JobInv ==
  /\ JobTypeOK /\ AttemptsAreBounded
  /\ \A j \in Jobs : jobs[j].status \in {"absent", "waiting", "delayed"} =>
                      jobs[j].attempts < MaxAttempts + retries + stale

(* An attempt of a job is handed out to one handler.  It does not hold:    *)
(* two processes select the row before either makes it active, and the one *)
(* whose update finds it active already hands the job out as well.         *)
OneHandlerPerAttempt ==
  \A d, e \in deliveries : d.job = e.job /\ d.attempt = e.attempt => d = e

JobEnded(j) == jobs[j].status \in {"absent", "completed", "dead_letter", "purged"}

(* Once process p alone works on the queue, and operators move no more     *)
(* jobs to the dead letters, every job that was enqueued is in the end     *)
(* completed or a dead letter for good: though handlers hang, are lost, or *)
(* answer after their job has been handed out again, and though the other  *)
(* processes have stopped in the middle of a call.  With two processes it  *)
(* does not hold: a nack between the select and the update of the other    *)
(* one has the job handed out without counting the attempt, again and      *)
(* again.                                                                  *)
JobsEnd ==
  \A p \in Adapters :
    <>[][/\ \A q \in Adapters \ {p} : adapters'[q] = adapters[q]
         /\ \A j \in Jobs : ~MoveToDeadLetter(j)]_jobVars
    => \A j \in Jobs : <>[]JobEnded(j)

=============================================================================
