------------------------------ MODULE Takeover ------------------------------
(***************************************************************************)
(* HumanTakeoverService: operators who change a task's rows while runner,  *)
(* worker and repair go on with them.  An operator action loads a snapshot *)
(* of the rows and then writes, in one transaction, what it has made of    *)
(* the snapshot, without comparing.  The server does one such action at a  *)
(* time; the other actors are processes of their own.                      *)
(*                                                                         *)
(* status.execution stays the execution of runner, worker and repair;      *)
(* those made by retryExecution get no ticket, and nobody runs them until  *)
(* the ticket repair of ExecutionDispatch, which is not part of this.      *)
(* modifyInput, switchWorker and annotations change no row modelled here.  *)
(***************************************************************************)
EXTENDS TaskLifecycle

CONSTANTS MaxTakeovers,   \* bound: takeover sessions
          MaxRetried      \* bound: executions made by retryExecution

ASSUME TakeoverAssumption == MaxTakeovers \in Nat /\ MaxRetried \in Nat

VARIABLES takeovers,      \* the statuses of the takeover sessions
          retried,        \* the statuses of the executions made by retryExecution, oldest first
          operator,       \* the snapshot of the operator action under way
          verdict         \* history: what an operator ended the task with, until it is put back

takeoverVars == <<takeovers, retried, operator, verdict>>

NoAction == [takeover |-> 0]

Snapshots ==
  [takeover : 1..MaxTakeovers, workflow : DOMAIN WORKFLOW_TRANSITIONS, step : {0, 1},
   session : 1..MaxSessions, sessionStatus : DOMAIN SESSION_TRANSITIONS,
   execution : 0..MaxRetried]

TakeoverTypeOK ==
  /\ LifecycleTypeOK
  /\ takeovers \in [1..MaxTakeovers -> {"none", "open", "closed"}]
  /\ retried \in Seq(DOMAIN EXECUTION_TRANSITIONS) /\ Len(retried) <= MaxRetried
  /\ operator \in {NoAction} \cup Snapshots
  /\ verdict \in {"none"} \cup Outcomes

TakeoverInit ==
  /\ Init
  /\ takeovers = [k \in 1..MaxTakeovers |-> "none"]
  /\ retried = <<>>
  /\ operator = NoAction
  /\ verdict = "none"

-----------------------------------------------------------------------------
(* openSession: any number of sessions of one task may be open.            *)
OpenSession(k) ==
  /\ operator = NoAction /\ takeovers[k] = "none"
  /\ takeovers' = [takeovers EXCEPT ![k] = "open"]
  /\ UNCHANGED <<vars, retried, operator, verdict>>

(* resumeTakeoverSession                                                   *)
Resume(k) ==
  /\ operator = NoAction /\ takeovers[k] = "open"
  /\ takeovers' = [takeovers EXCEPT ![k] = "closed"]
  /\ UNCHANGED <<vars, retried, operator, verdict>>

(* recordAction up to its transaction; execution 0 is the runner's.        *)
LoadTaskSnapshot(k) ==
  /\ operator = NoAction /\ takeovers[k] = "open"
  /\ operator' = [takeover |-> k, workflow |-> status.workflow, step |-> step,
                  session |-> Len(sessions), sessionStatus |-> Latest,
                  execution |-> Len(retried)]
  /\ UNCHANGED <<vars, takeovers, retried, verdict>>

(* The transaction of recordAction                                         *)
Acts == operator # NoAction /\ operator' = NoAction

(* updateExecutionStatus of the snapshot's execution, with the other rows. *)
SetRows(task, workflow, execution) ==
  LET x == operator.execution
  IN  /\ status' = [task |-> task, workflow |-> workflow,
                    execution |-> IF x = 0 THEN execution ELSE status.execution]
      /\ retried' = IF x = 0 THEN retried ELSE [retried EXCEPT ![x] = execution]

EndTask(outcome) ==
  LET closed == TerminalRows(outcome)
  IN  /\ SetRows(outcome, closed.workflow, closed.execution)
      /\ sessions' = [sessions EXCEPT ![operator.session] = closed.session]
      /\ takeovers' = [takeovers EXCEPT ![operator.takeover] = "closed"]
      /\ verdict' = outcome
      /\ UNCHANGED <<ticket, runner, worker, report, owner>>

CompleteTask(outcome) ==
  /\ Acts
  /\ EndTask(outcome)
  /\ step' = operator.step

(* The workflow has one step; when it is not the current one any more, the *)
(* action is refused.                                                      *)
SkipCurrentStep ==
  /\ Acts
  /\ IF operator.step = 0
     THEN EndTask("done") /\ step' = 1
     ELSE UNCHANGED <<vars, takeovers, retried, verdict>>

RetryExecution ==
  /\ Acts
  /\ Len(retried) < MaxRetried /\ Len(sessions) + 1 < MaxSessions
  /\ LET x == operator.execution
     IN  /\ status' = [task |-> "pending", workflow |-> "running",
                       execution |-> IF x = 0 THEN "superseded" ELSE status.execution]
         /\ retried' = Append(IF x = 0 THEN retried ELSE [retried EXCEPT ![x] = "superseded"],
                              "created")
  /\ sessions' = IF operator.sessionStatus \in SessionFinals THEN Append(sessions, "open")
                 ELSE IF operator.sessionStatus = "open" THEN sessions
                 ELSE [sessions EXCEPT ![operator.session] = "open"]
  /\ step' = operator.step
  /\ verdict' = "none"
  /\ UNCHANGED <<takeovers, ticket, runner, worker, report, owner>>

(* setCurrentStep, to the only step there is, and writeStepOutput write    *)
(* the workflow's status of the snapshot back.                             *)
SetCurrentStep ==
  /\ Acts
  /\ status' = [status EXCEPT !.workflow = operator.workflow]
  /\ step' = 0
  /\ UNCHANGED <<sessions, ticket, runner, worker, report, owner, takeovers, retried, verdict>>

WriteStepOutput ==
  /\ Acts
  /\ status' = [status EXCEPT !.workflow = operator.workflow]
  /\ step' = operator.step
  /\ UNCHANGED <<sessions, ticket, runner, worker, report, owner, takeovers, retried, verdict>>

TakeoverStep ==
  \/ \E k \in 1..MaxTakeovers : OpenSession(k) \/ Resume(k) \/ LoadTaskSnapshot(k)
  \/ \E outcome \in Outcomes : CompleteTask(outcome)
  \/ SkipCurrentStep \/ RetryExecution \/ SetCurrentStep \/ WriteStepOutput

(* replaceTerminalSession, which looks at everything again when applied:   *)
(* only a retry from an old snapshot leaves an active task without a       *)
(* session to run in.                                                      *)
ReplaceTerminalSession ==
  /\ status.task \notin Finals("task") /\ Latest \in SessionFinals
  /\ Len(sessions) + 1 < MaxSessions
  /\ sessions' = Append(sessions, "open")
  /\ UNCHANGED <<status, step, ticket, runner, worker, report, owner, takeoverVars>>

(* A requeue puts the task back whatever an operator decided.              *)
OthersStep ==
  /\ Next
  /\ verdict' = IF Requeue \in report \ report' THEN "none" ELSE verdict
  /\ UNCHANGED <<takeovers, retried, operator>>

TakeoverNext == TakeoverStep \/ ReplaceTerminalSession \/ OthersStep

TakeoverSpec == TakeoverInit /\ [][TakeoverNext]_<<vars, takeoverVars>>

-----------------------------------------------------------------------------
(* Properties *)

(* What an operator ended a task with stands: a runner or a worker that is *)
(* still at it, and a reconciliation, find its row changed and leave it.   *)
VerdictStands == verdict # "none" => status.task = verdict

(* What makes it inductive.  Only the runner's commit of its step moves a  *)
(* workflow that an operator ended, back to running; so no reconciliation  *)
(* takes another outcome from it, and neither does an operator action that *)
(* writes back the status it has loaded.                                   *)
Follows(workflow) ==
  /\ workflow \in {TerminalRows(verdict).workflow, "running"}
  /\ runner \notin {"finish", "stopped"} => workflow = TerminalRows(verdict).workflow

TakeoverInv ==
  /\ TakeoverTypeOK
  /\ Requeue \in report => Len(sessions) < MaxSessions
  /\ VerdictStands
  /\ verdict # "none" => Follows(status.workflow)
  /\ verdict # "none" /\ operator # NoAction => Follows(operator.workflow)

(* What hitl_contract.md asks of a takeover: afterwards the rows are in a  *)
(* canonical state, all of them ended with the task.  It does not hold:    *)
(* the runner commits its step and the workflow is running again.          *)
VerdictIsWhole ==
  verdict # "none" => status.workflow = TerminalRows(verdict).workflow

=============================================================================
