---------------------------- MODULE TaskLifecycle ----------------------------
(***************************************************************************)
(* The rows that say how far a task is (tasks, workflow_state, sessions,   *)
(* executions) and the processes that move them: the single-task runner,   *)
(* which may die between any two of its statements; the repair tool, which *)
(* applies the report of the startup consistency checker action by action; *)
(* and a worker that picks up a requeued execution.  They share only the   *)
(* database; each transaction is one action.                               *)
(*                                                                         *)
(* The model starts when the runner has inserted the rows.  The lease of   *)
(* the worker and the tickets are modelled in ExecutionDispatch; here a    *)
(* requeue takes the lease away, so that the worker's writeback is refused.*)
(***************************************************************************)
EXTENDS Naturals, Sequences

CONSTANT
  MaxSessions  \* bound: no scan once the task has this many sessions

ASSUME SessionsAssumption == MaxSessions \in Nat \ {0}

VARIABLES
  status,     \* the status columns of the task, workflow and execution rows
  step,       \* workflow_state.current_step_index
  sessions,   \* the statuses of the task's sessions, oldest first
  ticket,     \* the status of the execution's ticket, "none" when it has no live one
  runner,     \* the statement the runner is at
  worker,     \* what the worker holding the execution is about to do
  report,     \* the set of repair actions still to be applied
  owner       \* history: who the execution was last given to

Latest == sessions[Len(sessions)]

taskRows == <<status, step, sessions>>
vars == <<taskRows, ticket, runner, worker, report, owner>>

-----------------------------------------------------------------------------
TASK_TRANSITIONS ==
  [queued            |-> {"pending", "in_progress", "cancelled"},
   pending           |-> {"in_progress", "cancelled"},
   in_progress       |-> {"awaiting_decision", "done", "failed", "cancelled"},
   awaiting_decision |-> {"in_progress", "failed", "cancelled"},
   done |-> {}, failed |-> {}, cancelled |-> {}]

WORKFLOW_TRANSITIONS ==
  [created    |-> {"running", "failed", "cancelled"},
   running    |-> {"paused", "completed", "failed", "cancelling", "cancelled"},
   paused     |-> {"resuming", "failed", "cancelled"},
   resuming   |-> {"running", "failed", "cancelled"},
   cancelling |-> {"cancelled"},
   completed |-> {}, failed |-> {}, cancelled |-> {}]

SESSION_TRANSITIONS ==
  [open          |-> {"streaming", "awaiting_user", "completed", "failed", "cancelled"},
   streaming     |-> {"awaiting_user", "completed", "failed", "cancelled", "open"},
   awaiting_user |-> {"streaming", "completed", "failed", "cancelled"},
   paused        |-> {"streaming", "completed", "failed", "cancelled", "open"},
   completed |-> {}, failed |-> {}, cancelled |-> {}]

EXECUTION_TRANSITIONS ==
  [created     |-> {"prechecking", "executing", "cancelled", "failed"},
   prechecking |-> {"executing", "blocked", "cancelled", "failed"},
   ready       |-> {"queued", "cancelled", "failed"},
   queued      |-> {"dispatching", "cancelled", "failed"},
   dispatching |-> {"executing", "cancelled", "failed"},
   executing   |-> {"blocked", "succeeded", "failed", "cancelled"},
   blocked     |-> {"prechecking", "executing", "cancelled", "failed", "superseded"},
   paused      |-> {"resuming", "executing", "cancelled", "failed"},
   resuming    |-> {"executing", "cancelled", "failed"},
   recovering  |-> {"executing", "cancelled", "failed", "timed_out"},
   timed_out   |-> {"executing", "cancelled", "failed"},
   succeeded |-> {}, failed |-> {}, cancelled |-> {}, superseded |-> {}]

Rows == {"task", "workflow", "session", "execution"}

Transitions ==
  [task |-> TASK_TRANSITIONS, workflow |-> WORKFLOW_TRANSITIONS,
   session |-> SESSION_TRANSITIONS, execution |-> EXECUTION_TRANSITIONS]

(* assertTransition: staying in the same status is always allowed.         *)
Allowed(row, from, to) == to = from \/ to \in Transitions[row][from]

Finals(row) == {s \in DOMAIN Transitions[row] : Transitions[row][s] = {}}

(* The status each row gets when the task ends with the given outcome.     *)
TerminalRows(outcome) ==
  LET closed == IF outcome = "done" THEN "completed" ELSE outcome
  IN  [task |-> outcome, workflow |-> closed, session |-> closed,
       execution |-> IF outcome = "done" THEN "succeeded" ELSE outcome]

Outcomes == {"done", "failed", "cancelled"}

-----------------------------------------------------------------------------
Statements ==
  {"admission", "pauseWorkflow", "rejectTask", "rejectWorkflow", "rejectSession",
   "rejectExecution", "startTask", "startSession", "startPrecheck",
   "startExecution", "commitStep", "finish", "stopped"}

(* The actions of a report; only the last names a session.                 *)
Requeue   == [action |-> "requeue_execution", session |-> 0]
Reconcile == [action |-> "reconcile_terminal_state", session |-> 0]
Close(s)  == [action |-> "close_orphan_session", session |-> s]

RepairActions == {Requeue, Reconcile} \cup {Close(s) : s \in 1..MaxSessions}

LifecycleTypeOK ==
  /\ status \in [task      : DOMAIN TASK_TRANSITIONS,
                 workflow  : DOMAIN WORKFLOW_TRANSITIONS,
                 execution : DOMAIN EXECUTION_TRANSITIONS]
  /\ step \in {0, 1}
  /\ sessions \in Seq(DOMAIN SESSION_TRANSITIONS) /\ Len(sessions) \in 1..MaxSessions
  /\ ticket \in {"none", "pending"}
  /\ runner \in Statements
  /\ worker \in {"none", "working"} \cup Outcomes
  /\ report \subseteq RepairActions
  /\ owner \in {"runner", "worker"}

Init ==
  /\ status = [task |-> "queued", workflow |-> "running", execution |-> "created"]
  /\ step = 0
  /\ sessions = <<"open">>
  /\ ticket = "none"
  /\ runner = "admission"
  /\ worker = "none"
  /\ report = {}
  /\ owner = "runner"

-----------------------------------------------------------------------------
(* The single-task runner.  Its session is the task's first one.           *)

(* The decision of the admission controller.                               *)
Admission ==
  /\ runner = "admission"
  /\ runner' \in {"startTask", "pauseWorkflow", "rejectTask"}
  /\ UNCHANGED <<taskRows, ticket, worker, report, owner>>

(* The calls of the transition service, each a transaction of its own.     *)
Script ==
  [pauseWorkflow   |-> [row |-> "workflow", from |-> "running", to |-> "paused",
                        next |-> "stopped"],
   rejectTask      |-> [row |-> "task", from |-> "queued", to |-> "cancelled",
                        next |-> "rejectWorkflow"],
   rejectWorkflow  |-> [row |-> "workflow", from |-> "running", to |-> "cancelled",
                        next |-> "rejectSession"],
   rejectSession   |-> [row |-> "session", from |-> "open", to |-> "cancelled",
                        next |-> "rejectExecution"],
   rejectExecution |-> [row |-> "execution", from |-> "created", to |-> "cancelled",
                        next |-> "stopped"],
   startTask       |-> [row |-> "task", from |-> "queued", to |-> "in_progress",
                        next |-> "startSession"],
   startSession    |-> [row |-> "session", from |-> "open", to |-> "streaming",
                        next |-> "startPrecheck"],
   startPrecheck   |-> [row |-> "execution", from |-> "created", to |-> "prechecking",
                        next |-> "startExecution"],
   startExecution  |-> [row |-> "execution", from |-> "prechecking", to |-> "executing",
                        next |-> "commitStep"]]

RunnerSees(row) == IF row = "session" THEN sessions[1] ELSE status[row]

(* A transition compares the status it starts from; when another process   *)
(* has changed it, it throws and the run is over.                          *)
RunnerTransition ==
  /\ runner \in DOMAIN Script
  /\ LET s == Script[runner]
     IN  IF RunnerSees(s.row) = s.from /\ Allowed(s.row, s.from, s.to)
         THEN /\ runner' = s.next
              /\ IF s.row = "session"
                 THEN sessions' = [sessions EXCEPT ![1] = s.to] /\ UNCHANGED status
                 ELSE status' = [status EXCEPT ![s.row] = s.to] /\ UNCHANGED sessions
         ELSE runner' = "stopped" /\ UNCHANGED <<status, sessions>>
  /\ UNCHANGED <<step, ticket, worker, report, owner>>

(* The transaction that stores the step's output: the workflow's row is    *)
(* written whatever it holds.                                              *)
CommitStep ==
  /\ runner = "commitStep"
  /\ status' = [status EXCEPT !.workflow = "running"]
  /\ step' = 1
  /\ runner' = "finish"
  /\ UNCHANGED <<sessions, ticket, worker, report, owner>>

\* Variant: checks the transition tables, and compares nothing.
TerminalAcceptsUncompared(seen, s, outcome) ==
  \A row \in Rows : Allowed(row, seen[row], TerminalRows(outcome)[row])

(* applyTaskTerminalState with the statuses the caller has seen and the    *)
(* session it names: accepted when all four moves are allowed and no row   *)
(* has changed since.                                                      *)
TerminalAccepts(seen, s, outcome) ==
  /\ \A row \in Rows : Allowed(row, seen[row], TerminalRows(outcome)[row])
  /\ status = [task |-> seen.task, workflow |-> seen.workflow, execution |-> seen.execution]
  /\ sessions[s] = seen.session

\* Variant: the workflow and the session are left for later.
CloseTaskAndExecution(s, outcome) ==
  /\ status' = [status EXCEPT !.task = outcome,
                              !.execution = TerminalRows(outcome).execution]
  /\ UNCHANGED sessions

CloseRows(s, outcome) ==
  LET closed == TerminalRows(outcome)
  IN  /\ status' = [task |-> closed.task, workflow |-> closed.workflow,
                    execution |-> closed.execution]
      /\ sessions' = [sessions EXCEPT ![s] = closed.session]

Finish ==
  /\ runner = "finish"
  /\ LET seen == [task |-> "in_progress", workflow |-> "running",
                  session |-> "streaming", execution |-> "executing"]
     IN  IF TerminalAccepts(seen, 1, "done")
         THEN CloseRows(1, "done")
         ELSE UNCHANGED <<status, sessions>>
  /\ runner' = "stopped"
  /\ UNCHANGED <<step, ticket, worker, report, owner>>

(* The runner's process dies.                                              *)
Crash ==
  /\ runner # "stopped"
  /\ runner' = "stopped"
  /\ UNCHANGED <<taskRows, ticket, worker, report, owner>>

RunnerStep == Admission \/ RunnerTransition \/ CommitStep \/ Finish \/ Crash

-----------------------------------------------------------------------------
(* The worker that is dispatched a requeued execution.                     *)

\* Variant: the ticket stays pending.
ClaimKeepingTicket ==
  /\ ticket = "pending"
  /\ worker' = "working"
  /\ status' = [status EXCEPT !.execution =
                  IF @ \in {"created", "prechecking", "blocked"} THEN "executing" ELSE @]
  /\ UNCHANGED <<step, sessions, ticket, runner, report, owner>>

(* dispatchNext and claimExecution: only the execution's row moves.        *)
Claim ==
  /\ ticket = "pending"
  /\ ticket' = "none"
  /\ worker' = "working"
  /\ status' = [status EXCEPT !.execution =
                  IF @ \in {"created", "prechecking", "blocked"} THEN "executing" ELSE @]
  /\ UNCHANGED <<step, sessions, runner, report, owner>>

Work ==
  /\ worker = "working"
  /\ worker' \in Outcomes
  /\ UNCHANGED <<taskRows, ticket, runner, report, owner>>

(* recordWriteback while the lease is held: refused, with the lease kept,  *)
(* when the execution is not executing or a transition is not allowed.     *)
Writeback ==
  /\ worker \in Outcomes
  /\ LET last == Len(sessions)
         seen == [task |-> status.task, workflow |-> status.workflow,
                  session |-> sessions[last], execution |-> status.execution]
     IN  IF status.execution = "executing" /\ TerminalAccepts(seen, last, worker)
         THEN CloseRows(last, worker)
         ELSE UNCHANGED <<status, sessions>>
  /\ worker' = "none"
  /\ UNCHANGED <<step, ticket, runner, report, owner>>

WorkerStep == Claim \/ Work \/ Writeback

-----------------------------------------------------------------------------
(* The repair tool: a scan, then its actions one by one.                   *)

SessionFinals == Finals("session")

(* listStaleExecutions, but for the age of the row.                        *)
Stale == status.execution \in {"prechecking", "executing", "blocked"}

(* listWorkflowTerminalMismatches.                                         *)
TerminalMismatch ==
  \E outcome \in Outcomes :
    LET closed == TerminalRows(outcome)
    IN  /\ status.workflow = closed.workflow
        /\ status.task # closed.task \/ Latest # closed.session

(* listOrphanSessions.                                                     *)
OrphanSessions ==
  {s \in 1..Len(sessions) : sessions[s] \notin SessionFinals /\ status.task \in Finals("task")}

\* Variant: takes a task that is in progress to be looked after.
ScanSkippingInProgress(old) ==
  /\ report = {}
  /\ Len(sessions) < MaxSessions
  /\ report' = {x \in {Requeue} : old /\ Stale /\ status.task # "in_progress"}
                \cup {x \in {Reconcile} : TerminalMismatch}
                \cup {Close(s) : s \in OrphanSessions}
  /\ UNCHANGED <<taskRows, ticket, runner, worker, owner>>

(* What the checker finds.  old: has the execution's row not been written  *)
(* for staleExecutionAfterMs.                                              *)
Scan(old) ==
  /\ report = {}
  /\ Len(sessions) < MaxSessions
  /\ report' = {x \in {Requeue} : old /\ Stale}
                \cup {x \in {Reconcile} : TerminalMismatch}
                \cup {Close(s) : s \in OrphanSessions}
  /\ UNCHANGED <<taskRows, ticket, runner, worker, owner>>

(* The report's actions are applied in the order of its findings.          *)
Applies(x) ==
  /\ x \in report
  /\ x # Requeue => Requeue \notin report
  /\ x \notin {Requeue, Reconcile} => Reconcile \notin report
  /\ report' = report \ {x}

(* createRecoverySession for a closed session, "open" for any other.       *)
Reopened ==
  IF Latest \in SessionFinals
  THEN Append(sessions, "open")
  ELSE [sessions EXCEPT ![Len(sessions)] = "open"]

(* requeueExecution: nothing of the report is looked at again.  The active *)
(* lease is reclaimed, and one pending ticket exists afterwards.           *)
RequeueExecution ==
  /\ Applies(Requeue)
  /\ status' = [task |-> "pending", workflow |-> "running", execution |-> "created"]
  /\ sessions' = Reopened
  /\ ticket' = "pending"
  /\ worker' = "none"
  /\ owner' = "worker"
  /\ UNCHANGED <<step, runner>>

\* Variant: corrects the task and forgets the session.
ReconcileTask ==
  /\ Applies(Reconcile)
  /\ IF status.workflow \in Finals("workflow")
     THEN status' = [status EXCEPT !.task =
                       IF status.workflow = "completed" THEN "done" ELSE status.workflow]
     ELSE UNCHANGED status
  /\ UNCHANGED <<step, sessions, ticket, runner, worker, owner>>

ReconcileTerminalState ==
  /\ Applies(Reconcile)
  /\ IF status.workflow \in Finals("workflow")
     THEN LET closed == TerminalRows(IF status.workflow = "completed" THEN "done"
                                     ELSE status.workflow)
          IN  /\ status' = [status EXCEPT !.task = closed.task]
              /\ sessions' = [sessions EXCEPT ![Len(sessions)] = closed.session]
     ELSE UNCHANGED <<status, sessions>>
  /\ UNCHANGED <<step, ticket, runner, worker, owner>>

(* closeOrphanSession: "completed", whatever the session holds by now.     *)
CloseOrphanSession(s) ==
  /\ Applies(Close(s))
  /\ sessions' = [sessions EXCEPT ![s] = "completed"]
  /\ UNCHANGED <<status, step, ticket, runner, worker, owner>>

Repair ==
  \/ RequeueExecution
  \/ ReconcileTerminalState
  \/ \E s \in 1..MaxSessions : CloseOrphanSession(s)

Next == RunnerStep \/ WorkerStep \/ (\E old \in BOOLEAN : Scan(old)) \/ Repair

Spec == Init /\ [][Next]_vars

(* The repair tool is run again and again, in the end when whatever does   *)
(* not move has become old, and applies its report.                        *)
RepairSpec == Spec /\ WF_vars(Scan(TRUE)) /\ WF_vars(Repair)

(* As well, workers take tickets, do the work within staleExecutionAfterMs *)
(* and report it: an execution is old only when no worker is at it.        *)
PatientNext ==
  RunnerStep \/ WorkerStep \/ Scan(FALSE) \/ (worker = "none" /\ Scan(TRUE)) \/ Repair

FairSpec ==
  /\ Init /\ [][PatientNext]_vars
  /\ WF_vars(worker = "none" /\ Scan(TRUE)) /\ WF_vars(Repair)
  /\ WF_vars(Claim) /\ WF_vars(Work) /\ WF_vars(Writeback)

-----------------------------------------------------------------------------
(* A task that is done has its step's output stored, and its workflow,     *)
(* latest session and execution closed as successful: whoever dies and     *)
(* whatever is repaired, no half of a completion can be seen.              *)
DoneTogether ==
  status.task = "done" =>
    /\ step = 1
    /\ status.workflow = "completed"
    /\ status.execution = "succeeded"
    /\ Latest = "completed"

(* The checker's active_task_terminal_session never arises: a task that is *)
(* queued, pending or running has a session that is still open, and so a   *)
(* requeued execution always has one to run in.                            *)
ActiveTaskHasSession ==
  status.task \notin Finals("task") => Latest \notin SessionFinals

(* A runner whose execution was requeued behind its back never records its *)
(* result: a task becomes done only while the execution is the runner's.   *)
ResultFromOwner ==
  [][status'.task = "done" /\ status.task # "done" => owner = "runner"]_vars

(* An execution whose process died while prechecking or executing does not *)
(* stay that way: it ends, or repair puts it back to be dispatched.        *)
StalledRunsAreRequeued ==
  Stale ~> (~Stale \/ Len(sessions) >= MaxSessions)

(* Once the workflow has ended, the task and its latest session come to    *)
(* say the same, although one pass of repair may leave the session wrong.  *)
MismatchesAreReconciled ==
  TerminalMismatch ~> (~TerminalMismatch \/ Len(sessions) >= MaxSessions)

-----------------------------------------------------------------------------
(* What makes the invariants inductive.                                    *)

NotStarted == {"admission", "pauseWorkflow", "startTask", "rejectTask"}
Rejecting  == {"rejectWorkflow", "rejectSession", "rejectExecution"}
Starting   == {"startSession", "startPrecheck"}

(* Until the runner has begun its precheck, nothing can be requeued.       *)
RunnerPhases ==
  /\ runner \in NotStarted \cup Rejecting \cup Starting =>
       owner = "runner" /\ status.execution = "created" /\ Requeue \notin report
  /\ runner \in NotStarted \cup Starting => status.workflow = "running"
  /\ runner \in NotStarted => status.task = "queued"
  /\ runner \in Rejecting => status.task = "cancelled"
  /\ runner \in Starting => status.task = "in_progress"
  /\ runner = "finish" => step = 1
  /\ status.task = "done" => runner = "stopped"

(* A requeued task is never in progress again, which is what stops the     *)
(* runner that lost it; it stays pending while a worker may be at it.      *)
RequeuedStaysPending ==
  /\ owner = "runner" => Len(sessions) = 1
  /\ owner = "worker" => status.task \in {"pending", "cancelled"}
  /\ ticket = "pending" \/ worker # "none" => owner = "worker" /\ status.task = "pending"
  /\ ticket = "pending" => worker = "none"

(* The workflow never ends before the task.                                *)
WorkflowFollowsTask ==
  /\ status.workflow = "completed" => status.task = "done"
  /\ status.workflow = "cancelled" => status.task = "cancelled"
  /\ status.workflow # "failed"

(* No report both requeues the execution and closes a session of it.       *)
ReportSound ==
  /\ Requeue \in report => Len(sessions) < MaxSessions
  /\ \A s \in 1..MaxSessions : Close(s) \in report =>
       s <= Len(sessions) /\ status.task \in Finals("task") /\ Requeue \notin report
  /\ Stale => status.task \notin Finals("task")

(* The rows agree with what runner, worker and the report in hand may      *)
(* still do to them.                                                       *)
LifecycleInv ==
  /\ LifecycleTypeOK
  /\ RunnerPhases
  /\ RequeuedStaysPending
  /\ WorkflowFollowsTask
  /\ ReportSound
  /\ DoneTogether
  /\ ActiveTaskHasSession

-----------------------------------------------------------------------------
(* What the drill contract asks of recovery: a completed run is not taken  *)
(* for an unexecuted one.                                                  *)
FinishedStaysFinished ==
  [][status.task = "done" => status'.task = "done"]_vars

(* What requeueExecution says it is for: a requeued task is processed      *)
(* again, and so comes to an end while workers work.                       *)
RequeuedTaskEnds == status.task = "pending" ~> status.task \in Finals("task")
=============================================================================
