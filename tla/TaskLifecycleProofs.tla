------------------------ MODULE TaskLifecycleProofs ------------------------
(***************************************************************************)
(* Proofs that the invariants of TaskLifecycle hold however runner, worker *)
(* and repair interleave, for any bound on the sessions, and that what an  *)
(* operator decides in Takeover stands against all of them.                *)
(***************************************************************************)
EXTENDS Takeover, TLAPS

(* The statuses nothing leads out of.                                      *)
LEMMA FinalStatuses ==
  /\ Finals("task") = {"done", "failed", "cancelled"}
  /\ Finals("workflow") = {"completed", "failed", "cancelled"}
  /\ SessionFinals = {"completed", "failed", "cancelled"}
<1>1. Finals("task") = {"done", "failed", "cancelled"}
  BY DEF Finals, Transitions, TASK_TRANSITIONS
<1>2. Finals("workflow") = {"completed", "failed", "cancelled"}
  BY DEF Finals, Transitions, WORKFLOW_TRANSITIONS
<1>3. SessionFinals = {"completed", "failed", "cancelled"}
  BY DEF SessionFinals, Finals, Transitions, SESSION_TRANSITIONS
<1> QED BY <1>1, <1>2, <1>3

(* The statuses of the four kinds of row.                                  *)
LEMMA StatusNames ==
  /\ DOMAIN TASK_TRANSITIONS = {"queued", "pending", "in_progress", "awaiting_decision",
                                "done", "failed", "cancelled"}
  /\ DOMAIN WORKFLOW_TRANSITIONS = {"created", "running", "paused", "resuming", "cancelling",
                                    "completed", "failed", "cancelled"}
  /\ DOMAIN SESSION_TRANSITIONS = {"open", "streaming", "awaiting_user", "paused",
                                   "completed", "failed", "cancelled"}
  /\ {"created", "prechecking", "executing", "blocked", "succeeded", "failed", "cancelled"}
       \subseteq DOMAIN EXECUTION_TRANSITIONS
BY DEF TASK_TRANSITIONS, WORKFLOW_TRANSITIONS, SESSION_TRANSITIONS, EXECUTION_TRANSITIONS

(* From pending, the only outcome the task's table allows is cancelled.    *)
LEMMA PendingOnlyCancels ==
  ASSUME NEW outcome \in Outcomes, Allowed("task", "pending", outcome)
  PROVE  outcome = "cancelled"
BY DEF Outcomes, Allowed, Transitions, TASK_TRANSITIONS

(* The three kinds of repair action are told apart.                        *)
LEMMA ActionsDiffer ==
  /\ Requeue # Reconcile
  /\ \A s : Close(s) # Requeue /\ Close(s) # Reconcile
  /\ \A s, t : Close(s) = Close(t) => s = t
BY DEF Requeue, Reconcile, Close

(* What the rows become when the task ends.                                *)
LEMMA ClosedRows ==
  ASSUME NEW outcome \in Outcomes
  PROVE  /\ TerminalRows(outcome).task = outcome
         /\ TerminalRows(outcome).workflow = IF outcome = "done" THEN "completed" ELSE outcome
         /\ TerminalRows(outcome).session = IF outcome = "done" THEN "completed" ELSE outcome
         /\ TerminalRows(outcome).execution = IF outcome = "done" THEN "succeeded" ELSE outcome
BY DEF TerminalRows

-----------------------------------------------------------------------------
(* The rows the runner inserts satisfy the invariant.                     *)
LEMMA InvInit == Init => LifecycleInv
<1> SUFFICES ASSUME Init PROVE LifecycleInv
  OBVIOUS
<1> USE DEF Init
<1>1. LifecycleTypeOK
  <2>1. sessions \in Seq(DOMAIN SESSION_TRANSITIONS) /\ Len(sessions) \in 1..MaxSessions
    BY StatusNames, SessionsAssumption
  <2> QED BY <2>1, StatusNames DEF LifecycleTypeOK, Statements
<1>2. RunnerPhases
  BY DEF RunnerPhases, NotStarted, Rejecting, Starting
<1>3. RequeuedStaysPending
  BY DEF RequeuedStaysPending
<1>4. WorkflowFollowsTask
  BY DEF WorkflowFollowsTask
<1>5. ReportSound
  BY FinalStatuses DEF ReportSound, Stale
<1>6. DoneTogether
  BY DEF DoneTogether
<1>7. ActiveTaskHasSession
  BY FinalStatuses DEF ActiveTaskHasSession, Latest
<1> QED BY <1>1, <1>2, <1>3, <1>4, <1>5, <1>6, <1>7 DEF LifecycleInv
-----------------------------------------------------------------------------
(* One lemma per action. *)

(* The admission decision moves the runner alone.                         *)
LEMMA AdmissionKeepsInv ==
  ASSUME LifecycleInv, Admission
  PROVE  LifecycleInv'
<1> USE DEF Admission, taskRows
<1>1. LifecycleTypeOK'
  BY StatusNames DEF LifecycleInv, LifecycleTypeOK, Statements, Outcomes
<1>2. RunnerPhases'
  BY DEF LifecycleInv, RunnerPhases, NotStarted, Rejecting, Starting
<1>3. RequeuedStaysPending'
  BY DEF LifecycleInv, RequeuedStaysPending
<1>4. WorkflowFollowsTask'
  BY DEF LifecycleInv, WorkflowFollowsTask
<1>5. ReportSound'
  BY DEF LifecycleInv, ReportSound, Stale
<1>6. DoneTogether'
  BY DEF LifecycleInv, DoneTogether, Latest
<1>7. ActiveTaskHasSession'
  BY DEF LifecycleInv, ActiveTaskHasSession, Latest
<1> QED BY <1>1, <1>2, <1>3, <1>4, <1>5, <1>6, <1>7 DEF LifecycleInv

(* The step's commit overwrites the workflow, of a task not done.         *)
LEMMA CommitStepKeepsInv ==
  ASSUME LifecycleInv, CommitStep
  PROVE  LifecycleInv'
<1> USE DEF CommitStep, taskRows
<1>1. LifecycleTypeOK'
  BY StatusNames DEF LifecycleInv, LifecycleTypeOK, Statements, Outcomes
<1>2. RunnerPhases'
  BY DEF LifecycleInv, RunnerPhases, NotStarted, Rejecting, Starting
<1>3. RequeuedStaysPending'
  BY DEF LifecycleInv, RequeuedStaysPending
<1>4. WorkflowFollowsTask'
  BY DEF LifecycleInv, WorkflowFollowsTask
<1>5. ReportSound'
  BY DEF LifecycleInv, ReportSound, Stale
<1>6. DoneTogether'
  BY DEF LifecycleInv, LifecycleTypeOK, RunnerPhases, DoneTogether
<1>7. ActiveTaskHasSession'
  BY DEF LifecycleInv, ActiveTaskHasSession, Latest
<1> QED BY <1>1, <1>2, <1>3, <1>4, <1>5, <1>6, <1>7 DEF LifecycleInv

(* A run that is over, by a refused transition or a crash, changes no row. *)
LEMMA RefusedKeepsInv ==
  ASSUME LifecycleInv, runner' = "stopped",
         UNCHANGED <<status, sessions, step, ticket, worker, report, owner>>
  PROVE  LifecycleInv'
<1>1. LifecycleTypeOK'
  BY DEF LifecycleInv, LifecycleTypeOK, Statements
<1>2. RunnerPhases'
  BY DEF LifecycleInv, RunnerPhases, NotStarted, Rejecting, Starting
<1>3. RequeuedStaysPending' /\ WorkflowFollowsTask'
  BY DEF LifecycleInv, RequeuedStaysPending, WorkflowFollowsTask
<1>4. ReportSound'
  BY DEF LifecycleInv, ReportSound, Stale
<1>5. DoneTogether' /\ ActiveTaskHasSession'
  BY DEF LifecycleInv, DoneTogether, ActiveTaskHasSession, Latest
<1> QED BY <1>1, <1>2, <1>3, <1>4, <1>5 DEF LifecycleInv

(* A crash stops the runner.                                              *)
LEMMA CrashKeepsInv ==
  ASSUME LifecycleInv, Crash
  PROVE  LifecycleInv'
BY RefusedKeepsInv DEF Crash, taskRows

(* Working moves no row.                                                  *)
LEMMA WorkKeepsInv ==
  ASSUME LifecycleInv, Work
  PROVE  LifecycleInv'
<1> USE DEF Work, taskRows
<1>1. LifecycleTypeOK'
  BY StatusNames DEF LifecycleInv, LifecycleTypeOK, Statements, Outcomes
<1>2. RunnerPhases'
  BY DEF LifecycleInv, RunnerPhases, NotStarted, Rejecting, Starting
<1>3. RequeuedStaysPending'
  BY DEF LifecycleInv, RequeuedStaysPending
<1>4. WorkflowFollowsTask'
  BY DEF LifecycleInv, WorkflowFollowsTask
<1>5. ReportSound'
  BY DEF LifecycleInv, ReportSound, Stale
<1>6. DoneTogether'
  BY DEF LifecycleInv, DoneTogether, Latest
<1>7. ActiveTaskHasSession'
  BY DEF LifecycleInv, ActiveTaskHasSession, Latest
<1> QED BY <1>1, <1>2, <1>3, <1>4, <1>5, <1>6, <1>7 DEF LifecycleInv

(* A worker's claim moves the execution of a pending task.                *)
LEMMA ClaimKeepsInv ==
  ASSUME LifecycleInv, Claim
  PROVE  LifecycleInv'
<1> USE DEF Claim
<1>0. /\ owner = "worker" /\ status.task = "pending"
      /\ status'.task = status.task /\ status'.workflow = status.workflow
      /\ UNCHANGED <<step, sessions, runner, report, owner>>
  BY DEF LifecycleInv, LifecycleTypeOK, RequeuedStaysPending
<1>1. LifecycleTypeOK'
  BY StatusNames DEF LifecycleInv, LifecycleTypeOK, Statements, Outcomes
<1>2. RunnerPhases'
  BY <1>0 DEF LifecycleInv, RunnerPhases
<1>3. RequeuedStaysPending'
  BY <1>0 DEF LifecycleInv, RequeuedStaysPending
<1>4. WorkflowFollowsTask'
  BY <1>0 DEF LifecycleInv, WorkflowFollowsTask
<1>5. ReportSound'
  BY <1>0, FinalStatuses DEF LifecycleInv, ReportSound
<1>6. DoneTogether'
  BY <1>0 DEF LifecycleInv, DoneTogether
<1>7. ActiveTaskHasSession'
  BY <1>0 DEF LifecycleInv, ActiveTaskHasSession, Latest
<1> QED BY <1>1, <1>2, <1>3, <1>4, <1>5, <1>6, <1>7 DEF LifecycleInv

(* An accepted terminal transition, by whoever, has the outcome "done"     *)
(* only for a task that is in progress or done.                            *)
LEMMA AcceptedOutcome ==
  ASSUME NEW seen, NEW s, NEW outcome \in Outcomes, TerminalAccepts(seen, s, outcome)
  PROVE  /\ Allowed("task", seen.task, outcome)
         /\ status.task = seen.task /\ status.workflow = seen.workflow
         /\ status.execution = seen.execution /\ sessions[s] = seen.session
<1>1. Allowed("task", seen["task"], TerminalRows(outcome)["task"])
  BY DEF TerminalAccepts, Rows
<1> QED BY <1>1, ClosedRows DEF TerminalAccepts

(* What closing the rows leaves behind.                                    *)
LEMMA CloseRowsEffect ==
  ASSUME LifecycleInv, NEW s \in 1..Len(sessions), NEW outcome \in Outcomes,
         CloseRows(s, outcome)
  PROVE  /\ status'.task = outcome
         /\ status'.workflow = IF outcome = "done" THEN "completed" ELSE outcome
         /\ status'.execution = IF outcome = "done" THEN "succeeded" ELSE outcome
         /\ status' \in [task      : DOMAIN TASK_TRANSITIONS,
                         workflow  : DOMAIN WORKFLOW_TRANSITIONS,
                         execution : DOMAIN EXECUTION_TRANSITIONS]
         /\ sessions' \in Seq(DOMAIN SESSION_TRANSITIONS)
         /\ Len(sessions') = Len(sessions)
         /\ sessions'[s] = IF outcome = "done" THEN "completed" ELSE outcome
<1> USE DEF CloseRows
<1>1. /\ status'.task = outcome
      /\ status'.workflow = IF outcome = "done" THEN "completed" ELSE outcome
      /\ status'.execution = IF outcome = "done" THEN "succeeded" ELSE outcome
  BY ClosedRows
<1>2. status' \in [task      : DOMAIN TASK_TRANSITIONS,
                  workflow  : DOMAIN WORKFLOW_TRANSITIONS,
                  execution : DOMAIN EXECUTION_TRANSITIONS]
  BY <1>1, StatusNames DEF Outcomes
<1>3. /\ sessions' \in Seq(DOMAIN SESSION_TRANSITIONS)
      /\ Len(sessions') = Len(sessions)
      /\ sessions'[s] = IF outcome = "done" THEN "completed" ELSE outcome
  <2>1. TerminalRows(outcome).session \in DOMAIN SESSION_TRANSITIONS
    BY ClosedRows, StatusNames DEF Outcomes
  <2> QED BY <2>1, ClosedRows DEF LifecycleInv, LifecycleTypeOK
<1> QED BY <1>1, <1>2, <1>3

(* The runner's result is accepted only for a task it still owns.         *)
LEMMA FinishKeepsInv ==
  ASSUME LifecycleInv, Finish
  PROVE  LifecycleInv'
<1> DEFINE seen == [task |-> "in_progress", workflow |-> "running",
                    session |-> "streaming", execution |-> "executing"]
<1>0. /\ runner = "finish" /\ runner' = "stopped"
      /\ UNCHANGED <<step, ticket, worker, report, owner>>
  BY DEF Finish
<1>1. CASE ~TerminalAccepts(seen, 1, "done")
  BY <1>0, <1>1, RefusedKeepsInv DEF Finish
<1>2. CASE TerminalAccepts(seen, 1, "done")
  <2>0. CloseRows(1, "done") /\ "done" \in Outcomes
    BY <1>2 DEF Finish, Outcomes
  <2>1. status.task = "in_progress"
    BY <1>2, <2>0, AcceptedOutcome
  <2>2. owner = "runner" /\ Len(sessions) = 1 /\ ticket = "none" /\ worker = "none" /\ step = 1
    BY <1>0, <2>1 DEF LifecycleInv, LifecycleTypeOK, RequeuedStaysPending, RunnerPhases
  <2>3. /\ status'.task = "done" /\ status'.workflow = "completed"
        /\ status'.execution = "succeeded"
        /\ status' \in [task      : DOMAIN TASK_TRANSITIONS,
                        workflow  : DOMAIN WORKFLOW_TRANSITIONS,
                        execution : DOMAIN EXECUTION_TRANSITIONS]
        /\ sessions' \in Seq(DOMAIN SESSION_TRANSITIONS)
        /\ Len(sessions') = Len(sessions) /\ sessions'[1] = "completed"
    BY <2>0, <2>2, CloseRowsEffect
  <2>4. LifecycleTypeOK'
    BY <1>0, <2>2, <2>3 DEF LifecycleInv, LifecycleTypeOK, Statements
  <2>5. RunnerPhases'
    BY <1>0, <2>3 DEF RunnerPhases, NotStarted, Rejecting, Starting
  <2>6. RequeuedStaysPending' /\ WorkflowFollowsTask'
    BY <1>0, <2>2, <2>3 DEF RequeuedStaysPending, WorkflowFollowsTask
  <2>7. ReportSound'
    BY <1>0, <2>1, <2>3, FinalStatuses DEF LifecycleInv, ReportSound, Stale
  <2>8. DoneTogether' /\ ActiveTaskHasSession'
    BY <1>0, <2>2, <2>3, FinalStatuses DEF DoneTogether, ActiveTaskHasSession, Latest
  <2> QED BY <2>4, <2>5, <2>6, <2>7, <2>8 DEF LifecycleInv
<1> QED BY <1>1, <1>2

(* A transition that is accepted is one of the nine of the script.         *)
LEMMA RunnerTransitionKeepsInv ==
  ASSUME LifecycleInv, RunnerTransition
  PROVE  LifecycleInv'
<1>0. /\ UNCHANGED <<step, ticket, worker, report, owner>>
      /\ runner \in DOMAIN Script
  BY DEF RunnerTransition
<1> DEFINE entry == Script[runner]
<1>1. CASE runner' = "stopped" /\ UNCHANGED <<status, sessions>>
  BY <1>0, <1>1, RefusedKeepsInv
<1>2. CASE /\ RunnerSees(entry.row) = entry.from
           /\ runner' = entry.next
           /\ IF entry.row = "session"
              THEN sessions' = [sessions EXCEPT ![1] = entry.to] /\ UNCHANGED status
              ELSE status' = [status EXCEPT ![entry.row] = entry.to] /\ UNCHANGED sessions
  <2>1. CASE runner = "pauseWorkflow"
    <3>0. entry = [row |-> "workflow", from |-> "running", to |-> "paused", next |-> "stopped"]
      BY <2>1 DEF Script
    <3>1. /\ status.workflow = "running" /\ runner' = "stopped"
          /\ status' = [status EXCEPT !.workflow = "paused"] /\ UNCHANGED sessions
      BY <1>2, <3>0 DEF RunnerSees
    <3>2. /\ status'.task = status.task
          /\ status'.workflow = "paused"
          /\ status'.execution = status.execution
      BY <3>1 DEF LifecycleInv, LifecycleTypeOK
    <3>3. LifecycleTypeOK'
      BY <1>0, <3>1, StatusNames DEF LifecycleInv, LifecycleTypeOK, Statements
    <3>4. RunnerPhases'
      BY <1>0, <2>1, <3>1, <3>2
      DEF LifecycleInv, RunnerPhases, NotStarted, Rejecting, Starting
    <3>5. RequeuedStaysPending' /\ WorkflowFollowsTask'
      BY <1>0, <2>1, <3>1, <3>2
      DEF LifecycleInv, RunnerPhases, RequeuedStaysPending, WorkflowFollowsTask,
          NotStarted, Rejecting, Starting
    <3>6. ReportSound'
      BY <1>0, <2>1, <3>1, <3>2, FinalStatuses
      DEF LifecycleInv, RunnerPhases, ReportSound, Stale, NotStarted, Rejecting, Starting
    <3>7. DoneTogether' /\ ActiveTaskHasSession'
      BY <1>0, <2>1, <3>1, <3>2, FinalStatuses
      DEF LifecycleInv, LifecycleTypeOK, RunnerPhases, DoneTogether,
          ActiveTaskHasSession, Latest, NotStarted, Rejecting, Starting
    <3> QED BY <3>3, <3>4, <3>5, <3>6, <3>7 DEF LifecycleInv
  <2>2. CASE runner = "rejectTask"
    <3>0. entry = [row |-> "task", from |-> "queued", to |-> "cancelled", next |-> "rejectWorkflow"]
      BY <2>2 DEF Script
    <3>1. /\ status.task = "queued" /\ runner' = "rejectWorkflow"
          /\ status' = [status EXCEPT !.task = "cancelled"] /\ UNCHANGED sessions
      BY <1>2, <3>0 DEF RunnerSees
    <3>2. /\ status'.task = "cancelled"
          /\ status'.workflow = status.workflow
          /\ status'.execution = status.execution
      BY <3>1 DEF LifecycleInv, LifecycleTypeOK
    <3>3. LifecycleTypeOK'
      BY <1>0, <3>1, StatusNames DEF LifecycleInv, LifecycleTypeOK, Statements
    <3>4. RunnerPhases'
      BY <1>0, <2>2, <3>1, <3>2
      DEF LifecycleInv, RunnerPhases, NotStarted, Rejecting, Starting
    <3>5. RequeuedStaysPending' /\ WorkflowFollowsTask'
      BY <1>0, <2>2, <3>1, <3>2
      DEF LifecycleInv, RunnerPhases, RequeuedStaysPending, WorkflowFollowsTask,
          NotStarted, Rejecting, Starting
    <3>6. ReportSound'
      BY <1>0, <2>2, <3>1, <3>2, FinalStatuses
      DEF LifecycleInv, RunnerPhases, ReportSound, Stale, NotStarted, Rejecting, Starting
    <3>7. DoneTogether' /\ ActiveTaskHasSession'
      BY <1>0, <2>2, <3>1, <3>2, FinalStatuses
      DEF LifecycleInv, LifecycleTypeOK, RunnerPhases, DoneTogether,
          ActiveTaskHasSession, Latest, NotStarted, Rejecting, Starting
    <3> QED BY <3>3, <3>4, <3>5, <3>6, <3>7 DEF LifecycleInv
  <2>3. CASE runner = "rejectWorkflow"
    <3>0. entry = [row |-> "workflow", from |-> "running", to |-> "cancelled", next |-> "rejectSession"]
      BY <2>3 DEF Script
    <3>1. /\ status.workflow = "running" /\ runner' = "rejectSession"
          /\ status' = [status EXCEPT !.workflow = "cancelled"] /\ UNCHANGED sessions
      BY <1>2, <3>0 DEF RunnerSees
    <3>2. /\ status'.task = status.task
          /\ status'.workflow = "cancelled"
          /\ status'.execution = status.execution
      BY <3>1 DEF LifecycleInv, LifecycleTypeOK
    <3>3. LifecycleTypeOK'
      BY <1>0, <3>1, StatusNames DEF LifecycleInv, LifecycleTypeOK, Statements
    <3>4. RunnerPhases'
      BY <1>0, <2>3, <3>1, <3>2
      DEF LifecycleInv, RunnerPhases, NotStarted, Rejecting, Starting
    <3>5. RequeuedStaysPending' /\ WorkflowFollowsTask'
      BY <1>0, <2>3, <3>1, <3>2
      DEF LifecycleInv, RunnerPhases, RequeuedStaysPending, WorkflowFollowsTask,
          NotStarted, Rejecting, Starting
    <3>6. ReportSound'
      BY <1>0, <2>3, <3>1, <3>2, FinalStatuses
      DEF LifecycleInv, RunnerPhases, ReportSound, Stale, NotStarted, Rejecting, Starting
    <3>7. DoneTogether' /\ ActiveTaskHasSession'
      BY <1>0, <2>3, <3>1, <3>2, FinalStatuses
      DEF LifecycleInv, LifecycleTypeOK, RunnerPhases, DoneTogether,
          ActiveTaskHasSession, Latest, NotStarted, Rejecting, Starting
    <3> QED BY <3>3, <3>4, <3>5, <3>6, <3>7 DEF LifecycleInv
  <2>4. CASE runner = "rejectSession"
    <3>0. entry = [row |-> "session", from |-> "open", to |-> "cancelled", next |-> "rejectExecution"]
      BY <2>4 DEF Script
    <3>1. /\ sessions[1] = "open" /\ runner' = "rejectExecution"
          /\ sessions' = [sessions EXCEPT ![1] = "cancelled"] /\ UNCHANGED status
      BY <1>2, <3>0 DEF RunnerSees
    <3>2. /\ sessions' \in Seq(DOMAIN SESSION_TRANSITIONS)
          /\ Len(sessions') = 1 /\ Len(sessions) = 1 /\ sessions'[1] = "cancelled"
      BY <2>4, <3>1, StatusNames
      DEF LifecycleInv, LifecycleTypeOK, RunnerPhases, RequeuedStaysPending,
          NotStarted, Rejecting, Starting
    <3>3. LifecycleTypeOK'
      BY <1>0, <3>1, <3>2 DEF LifecycleInv, LifecycleTypeOK, Statements
    <3>4. RunnerPhases'
      BY <1>0, <2>4, <3>1, <3>2
      DEF LifecycleInv, RunnerPhases, NotStarted, Rejecting, Starting
    <3>5. RequeuedStaysPending' /\ WorkflowFollowsTask'
      BY <1>0, <2>4, <3>1, <3>2
      DEF LifecycleInv, RunnerPhases, RequeuedStaysPending, WorkflowFollowsTask,
          NotStarted, Rejecting, Starting
    <3>6. ReportSound'
      BY <1>0, <2>4, <3>1, <3>2, FinalStatuses
      DEF LifecycleInv, RunnerPhases, ReportSound, Stale, NotStarted, Rejecting, Starting
    <3>7. DoneTogether' /\ ActiveTaskHasSession'
      BY <1>0, <2>4, <3>1, <3>2, FinalStatuses
      DEF LifecycleInv, LifecycleTypeOK, RunnerPhases, DoneTogether,
          ActiveTaskHasSession, Latest, NotStarted, Rejecting, Starting
    <3> QED BY <3>3, <3>4, <3>5, <3>6, <3>7 DEF LifecycleInv
  <2>5. CASE runner = "rejectExecution"
    <3>0. entry = [row |-> "execution", from |-> "created", to |-> "cancelled", next |-> "stopped"]
      BY <2>5 DEF Script
    <3>1. /\ status.execution = "created" /\ runner' = "stopped"
          /\ status' = [status EXCEPT !.execution = "cancelled"] /\ UNCHANGED sessions
      BY <1>2, <3>0 DEF RunnerSees
    <3>2. /\ status'.task = status.task
          /\ status'.workflow = status.workflow
          /\ status'.execution = "cancelled"
      BY <3>1 DEF LifecycleInv, LifecycleTypeOK
    <3>3. LifecycleTypeOK'
      BY <1>0, <3>1, StatusNames DEF LifecycleInv, LifecycleTypeOK, Statements
    <3>4. RunnerPhases'
      BY <1>0, <2>5, <3>1, <3>2
      DEF LifecycleInv, RunnerPhases, NotStarted, Rejecting, Starting
    <3>5. RequeuedStaysPending' /\ WorkflowFollowsTask'
      BY <1>0, <2>5, <3>1, <3>2
      DEF LifecycleInv, RunnerPhases, RequeuedStaysPending, WorkflowFollowsTask,
          NotStarted, Rejecting, Starting
    <3>6. ReportSound'
      BY <1>0, <2>5, <3>1, <3>2, FinalStatuses
      DEF LifecycleInv, RunnerPhases, ReportSound, Stale, NotStarted, Rejecting, Starting
    <3>7. DoneTogether' /\ ActiveTaskHasSession'
      BY <1>0, <2>5, <3>1, <3>2, FinalStatuses
      DEF LifecycleInv, LifecycleTypeOK, RunnerPhases, DoneTogether,
          ActiveTaskHasSession, Latest, NotStarted, Rejecting, Starting
    <3> QED BY <3>3, <3>4, <3>5, <3>6, <3>7 DEF LifecycleInv
  <2>6. CASE runner = "startTask"
    <3>0. entry = [row |-> "task", from |-> "queued", to |-> "in_progress", next |-> "startSession"]
      BY <2>6 DEF Script
    <3>1. /\ status.task = "queued" /\ runner' = "startSession"
          /\ status' = [status EXCEPT !.task = "in_progress"] /\ UNCHANGED sessions
      BY <1>2, <3>0 DEF RunnerSees
    <3>2. /\ status'.task = "in_progress"
          /\ status'.workflow = status.workflow
          /\ status'.execution = status.execution
      BY <3>1 DEF LifecycleInv, LifecycleTypeOK
    <3>3. LifecycleTypeOK'
      BY <1>0, <3>1, StatusNames DEF LifecycleInv, LifecycleTypeOK, Statements
    <3>4. RunnerPhases'
      BY <1>0, <2>6, <3>1, <3>2
      DEF LifecycleInv, RunnerPhases, NotStarted, Rejecting, Starting
    <3>5. RequeuedStaysPending' /\ WorkflowFollowsTask'
      BY <1>0, <2>6, <3>1, <3>2
      DEF LifecycleInv, RunnerPhases, RequeuedStaysPending, WorkflowFollowsTask,
          NotStarted, Rejecting, Starting
    <3>6. ReportSound'
      BY <1>0, <2>6, <3>1, <3>2, FinalStatuses
      DEF LifecycleInv, RunnerPhases, ReportSound, Stale, NotStarted, Rejecting, Starting
    <3>7. DoneTogether' /\ ActiveTaskHasSession'
      BY <1>0, <2>6, <3>1, <3>2, FinalStatuses
      DEF LifecycleInv, LifecycleTypeOK, RunnerPhases, DoneTogether,
          ActiveTaskHasSession, Latest, NotStarted, Rejecting, Starting
    <3> QED BY <3>3, <3>4, <3>5, <3>6, <3>7 DEF LifecycleInv
  <2>7. CASE runner = "startSession"
    <3>0. entry = [row |-> "session", from |-> "open", to |-> "streaming", next |-> "startPrecheck"]
      BY <2>7 DEF Script
    <3>1. /\ sessions[1] = "open" /\ runner' = "startPrecheck"
          /\ sessions' = [sessions EXCEPT ![1] = "streaming"] /\ UNCHANGED status
      BY <1>2, <3>0 DEF RunnerSees
    <3>2. /\ sessions' \in Seq(DOMAIN SESSION_TRANSITIONS)
          /\ Len(sessions') = 1 /\ Len(sessions) = 1 /\ sessions'[1] = "streaming"
      BY <2>7, <3>1, StatusNames
      DEF LifecycleInv, LifecycleTypeOK, RunnerPhases, RequeuedStaysPending,
          NotStarted, Rejecting, Starting
    <3>3. LifecycleTypeOK'
      BY <1>0, <3>1, <3>2 DEF LifecycleInv, LifecycleTypeOK, Statements
    <3>4. RunnerPhases'
      BY <1>0, <2>7, <3>1, <3>2
      DEF LifecycleInv, RunnerPhases, NotStarted, Rejecting, Starting
    <3>5. RequeuedStaysPending' /\ WorkflowFollowsTask'
      BY <1>0, <2>7, <3>1, <3>2
      DEF LifecycleInv, RunnerPhases, RequeuedStaysPending, WorkflowFollowsTask,
          NotStarted, Rejecting, Starting
    <3>6. ReportSound'
      BY <1>0, <2>7, <3>1, <3>2, FinalStatuses
      DEF LifecycleInv, RunnerPhases, ReportSound, Stale, NotStarted, Rejecting, Starting
    <3>7. DoneTogether' /\ ActiveTaskHasSession'
      BY <1>0, <2>7, <3>1, <3>2, FinalStatuses
      DEF LifecycleInv, LifecycleTypeOK, RunnerPhases, DoneTogether,
          ActiveTaskHasSession, Latest, NotStarted, Rejecting, Starting
    <3> QED BY <3>3, <3>4, <3>5, <3>6, <3>7 DEF LifecycleInv
  <2>8. CASE runner = "startPrecheck"
    <3>0. entry = [row |-> "execution", from |-> "created", to |-> "prechecking", next |-> "startExecution"]
      BY <2>8 DEF Script
    <3>1. /\ status.execution = "created" /\ runner' = "startExecution"
          /\ status' = [status EXCEPT !.execution = "prechecking"] /\ UNCHANGED sessions
      BY <1>2, <3>0 DEF RunnerSees
    <3>2. /\ status'.task = status.task
          /\ status'.workflow = status.workflow
          /\ status'.execution = "prechecking"
      BY <3>1 DEF LifecycleInv, LifecycleTypeOK
    <3>3. LifecycleTypeOK'
      BY <1>0, <3>1, StatusNames DEF LifecycleInv, LifecycleTypeOK, Statements
    <3>4. RunnerPhases'
      BY <1>0, <2>8, <3>1, <3>2
      DEF LifecycleInv, RunnerPhases, NotStarted, Rejecting, Starting
    <3>5. RequeuedStaysPending' /\ WorkflowFollowsTask'
      BY <1>0, <2>8, <3>1, <3>2
      DEF LifecycleInv, RunnerPhases, RequeuedStaysPending, WorkflowFollowsTask,
          NotStarted, Rejecting, Starting
    <3>6. ReportSound'
      BY <1>0, <2>8, <3>1, <3>2, FinalStatuses
      DEF LifecycleInv, RunnerPhases, ReportSound, Stale, NotStarted, Rejecting, Starting
    <3>7. DoneTogether' /\ ActiveTaskHasSession'
      BY <1>0, <2>8, <3>1, <3>2, FinalStatuses
      DEF LifecycleInv, LifecycleTypeOK, RunnerPhases, DoneTogether,
          ActiveTaskHasSession, Latest, NotStarted, Rejecting, Starting
    <3> QED BY <3>3, <3>4, <3>5, <3>6, <3>7 DEF LifecycleInv
  <2>9. CASE runner = "startExecution"
    <3>0. entry = [row |-> "execution", from |-> "prechecking", to |-> "executing", next |-> "commitStep"]
      BY <2>9 DEF Script
    <3>1. /\ status.execution = "prechecking" /\ runner' = "commitStep"
          /\ status' = [status EXCEPT !.execution = "executing"] /\ UNCHANGED sessions
      BY <1>2, <3>0 DEF RunnerSees
    <3>2. /\ status'.task = status.task
          /\ status'.workflow = status.workflow
          /\ status'.execution = "executing"
      BY <3>1 DEF LifecycleInv, LifecycleTypeOK
    <3>3. LifecycleTypeOK'
      BY <1>0, <3>1, StatusNames DEF LifecycleInv, LifecycleTypeOK, Statements
    <3>4. RunnerPhases'
      BY <1>0, <2>9, <3>1, <3>2
      DEF LifecycleInv, RunnerPhases, NotStarted, Rejecting, Starting
    <3>5. RequeuedStaysPending' /\ WorkflowFollowsTask'
      BY <1>0, <2>9, <3>1, <3>2
      DEF LifecycleInv, RunnerPhases, RequeuedStaysPending, WorkflowFollowsTask,
          NotStarted, Rejecting, Starting
    <3>6. ReportSound'
      BY <1>0, <2>9, <3>1, <3>2, FinalStatuses
      DEF LifecycleInv, RunnerPhases, ReportSound, Stale, NotStarted, Rejecting, Starting
    <3>7. DoneTogether' /\ ActiveTaskHasSession'
      BY <1>0, <2>9, <3>1, <3>2, FinalStatuses
      DEF LifecycleInv, LifecycleTypeOK, RunnerPhases, DoneTogether,
          ActiveTaskHasSession, Latest, NotStarted, Rejecting, Starting
    <3> QED BY <3>3, <3>4, <3>5, <3>6, <3>7 DEF LifecycleInv
  <2> QED BY <1>0, <2>1, <2>2, <2>3, <2>4, <2>5, <2>6, <2>7, <2>8, <2>9 DEF Script
<1> QED BY <1>1, <1>2 DEF RunnerTransition

(* The worker's result is accepted only as a cancellation.                *)
LEMMA WritebackKeepsInv ==
  ASSUME LifecycleInv, Writeback
  PROVE  LifecycleInv'
<1> DEFINE last == Len(sessions)
           seen == [task |-> status.task, workflow |-> status.workflow,
                    session |-> sessions[last], execution |-> status.execution]
<1>0. /\ worker \in Outcomes /\ worker' = "none"
      /\ owner = "worker" /\ status.task = "pending" /\ ticket = "none"
      /\ UNCHANGED <<step, ticket, runner, report, owner>>
  BY DEF Writeback, Outcomes, LifecycleInv, LifecycleTypeOK, RequeuedStaysPending
<1>1. CASE UNCHANGED <<status, sessions>>
  <2>1. LifecycleTypeOK'
    BY <1>0, <1>1 DEF LifecycleInv, LifecycleTypeOK
  <2>2. RunnerPhases' /\ RequeuedStaysPending' /\ WorkflowFollowsTask'
    BY <1>0, <1>1
    DEF LifecycleInv, RunnerPhases, RequeuedStaysPending, WorkflowFollowsTask
  <2>3. ReportSound'
    BY <1>0, <1>1 DEF LifecycleInv, ReportSound, Stale
  <2>4. DoneTogether' /\ ActiveTaskHasSession'
    BY <1>0, <1>1 DEF LifecycleInv, DoneTogether, ActiveTaskHasSession, Latest
  <2> QED BY <2>1, <2>2, <2>3, <2>4 DEF LifecycleInv
<1>2. CASE TerminalAccepts(seen, last, worker) /\ CloseRows(last, worker)
  <2>0. last \in 1..Len(sessions)
    BY DEF LifecycleInv, LifecycleTypeOK
  <2>1. worker = "cancelled"
    <3>1. Allowed("task", seen.task, worker)
      BY <1>0, <1>2, AcceptedOutcome
    <3> QED BY <1>0, <3>1, PendingOnlyCancels
  <2>2. /\ status'.task = "cancelled" /\ status'.workflow = "cancelled"
        /\ status'.execution = "cancelled"
        /\ status' \in [task      : DOMAIN TASK_TRANSITIONS,
                        workflow  : DOMAIN WORKFLOW_TRANSITIONS,
                        execution : DOMAIN EXECUTION_TRANSITIONS]
        /\ sessions' \in Seq(DOMAIN SESSION_TRANSITIONS)
        /\ Len(sessions') = Len(sessions)
    <3>1. /\ status'.task = worker
          /\ status'.workflow = IF worker = "done" THEN "completed" ELSE worker
          /\ status'.execution = IF worker = "done" THEN "succeeded" ELSE worker
          /\ status' \in [task      : DOMAIN TASK_TRANSITIONS,
                          workflow  : DOMAIN WORKFLOW_TRANSITIONS,
                          execution : DOMAIN EXECUTION_TRANSITIONS]
          /\ sessions' \in Seq(DOMAIN SESSION_TRANSITIONS)
          /\ Len(sessions') = Len(sessions)
      BY <1>0, <1>2, <2>0, CloseRowsEffect
    <3> QED BY <2>1, <3>1
  <2>3. LifecycleTypeOK'
    BY <1>0, <2>2 DEF LifecycleInv, LifecycleTypeOK
  <2>4. RunnerPhases' /\ RequeuedStaysPending' /\ WorkflowFollowsTask'
    BY <1>0, <2>2
    DEF LifecycleInv, RunnerPhases, RequeuedStaysPending, WorkflowFollowsTask
  <2>5. ReportSound'
    BY <1>0, <2>2, FinalStatuses DEF LifecycleInv, ReportSound, Stale
  <2>6. DoneTogether' /\ ActiveTaskHasSession'
    BY <2>2, FinalStatuses DEF DoneTogether, ActiveTaskHasSession
  <2> QED BY <2>3, <2>4, <2>5, <2>6 DEF LifecycleInv
<1> QED BY <1>1, <1>2 DEF Writeback

(* A report asks for what the rows say at the time of the scan.           *)
LEMMA ScanKeepsInv ==
  ASSUME LifecycleInv, NEW old \in BOOLEAN, Scan(old)
  PROVE  LifecycleInv'
<1>0. /\ UNCHANGED <<status, step, sessions, ticket, runner, worker, owner>>
      /\ Len(sessions) < MaxSessions /\ Len(sessions) \in Nat /\ MaxSessions \in Nat
  BY SessionsAssumption DEF Scan, taskRows, LifecycleInv, LifecycleTypeOK
<1>1. \A s \in 1..Len(sessions) : s \in 1..MaxSessions
  BY <1>0
<1>2. /\ report' \subseteq RepairActions
      /\ Requeue \in report' => Stale
      /\ \A s \in 1..MaxSessions : Close(s) \in report' => s \in OrphanSessions
  <2>1. \A x \in report' : \/ x = Requeue /\ Stale
                           \/ x = Reconcile
                           \/ \E s \in OrphanSessions : x = Close(s)
    BY DEF Scan
  <2>2. \A s \in OrphanSessions : s \in 1..MaxSessions
    BY <1>1 DEF OrphanSessions
  <2> QED BY <2>1, <2>2, ActionsDiffer DEF RepairActions
<1>3. LifecycleTypeOK'
  BY <1>0, <1>2 DEF LifecycleInv, LifecycleTypeOK
<1>4. RunnerPhases'
  BY <1>0, <1>2 DEF LifecycleInv, RunnerPhases, Stale
<1>5. RequeuedStaysPending' /\ WorkflowFollowsTask'
  BY <1>0 DEF LifecycleInv, RequeuedStaysPending, WorkflowFollowsTask
<1>6. ReportSound'
  BY <1>0, <1>2 DEF LifecycleInv, ReportSound, OrphanSessions, Stale
<1>7. DoneTogether' /\ ActiveTaskHasSession'
  BY <1>0 DEF LifecycleInv, DoneTogether, ActiveTaskHasSession, Latest
<1> QED BY <1>3, <1>4, <1>5, <1>6, <1>7 DEF LifecycleInv

(* A requeue finds a report that closes no session.                        *)
LEMMA RequeueKeepsInv ==
  ASSUME LifecycleInv, RequeueExecution
  PROVE  LifecycleInv'
<1>0. /\ Requeue \in report /\ report' = report \ {Requeue}
      /\ ticket' = "pending" /\ worker' = "none" /\ owner' = "worker"
      /\ status' = [task |-> "pending", workflow |-> "running", execution |-> "created"]
      /\ UNCHANGED <<step, runner>>
  BY DEF RequeueExecution, Applies
<1>1. /\ status'.task = "pending" /\ status'.workflow = "running"
      /\ status'.execution = "created"
  BY <1>0
<1>2. /\ Len(sessions) \in 1..MaxSessions /\ Len(sessions) < MaxSessions
      /\ sessions \in Seq(DOMAIN SESSION_TRANSITIONS) /\ MaxSessions \in Nat
  BY <1>0, SessionsAssumption DEF LifecycleInv, LifecycleTypeOK, ReportSound
<1>3. /\ sessions' \in Seq(DOMAIN SESSION_TRANSITIONS)
      /\ Len(sessions') \in 1..MaxSessions
      /\ Latest' = "open"
  <2>0. sessions' = Reopened /\ "open" \in DOMAIN SESSION_TRANSITIONS
    BY StatusNames DEF RequeueExecution
  <2>1. CASE Latest \in SessionFinals
    <3>1. sessions' = Append(sessions, "open")
      BY <2>0, <2>1 DEF Reopened
    <3> QED BY <1>2, <2>0, <3>1 DEF Latest
  <2>2. CASE Latest \notin SessionFinals
    <3>1. sessions' = [sessions EXCEPT ![Len(sessions)] = "open"]
      BY <2>0, <2>2 DEF Reopened
    <3> QED BY <1>2, <2>0, <3>1 DEF Latest
  <2> QED BY <2>1, <2>2
<1>4. LifecycleTypeOK'
  BY <1>0, <1>3, StatusNames DEF LifecycleInv, LifecycleTypeOK
<1>5. RunnerPhases'
  BY <1>0, <1>1 DEF LifecycleInv, RunnerPhases, NotStarted, Rejecting, Starting
<1>6. RequeuedStaysPending' /\ WorkflowFollowsTask'
  BY <1>0, <1>1 DEF RequeuedStaysPending, WorkflowFollowsTask
<1>7. ReportSound'
  BY <1>0, <1>1 DEF LifecycleInv, ReportSound, Stale
<1>8. DoneTogether' /\ ActiveTaskHasSession'
  BY <1>1, <1>3, FinalStatuses DEF DoneTogether, ActiveTaskHasSession
<1> QED BY <1>4, <1>5, <1>6, <1>7, <1>8 DEF LifecycleInv

(* The workflow never ends before the task, so that reconciling never      *)
(* changes the task.                                                       *)
LEMMA ReconcileKeepsInv ==
  ASSUME LifecycleInv, ReconcileTerminalState
  PROVE  LifecycleInv'
<1>0. /\ report' = report \ {Reconcile} /\ Requeue # Reconcile
      /\ UNCHANGED <<step, ticket, runner, worker, owner>>
  BY ActionsDiffer DEF ReconcileTerminalState, Applies
<1>1. /\ status' = status
      /\ sessions' \in Seq(DOMAIN SESSION_TRANSITIONS) /\ Len(sessions') = Len(sessions)
      /\ status.workflow \notin Finals("workflow") => sessions' = sessions
      /\ status.task = "done" => Latest' = "completed"
  <2>1. CASE status.workflow \notin Finals("workflow")
    BY <2>1, FinalStatuses
    DEF ReconcileTerminalState, LifecycleInv, LifecycleTypeOK, DoneTogether, Latest
  <2>2. CASE status.workflow \in Finals("workflow")
    <3> DEFINE outcome == IF status.workflow = "completed" THEN "done" ELSE status.workflow
    <3>1. outcome \in Outcomes /\ outcome = status.task
      BY <2>2, FinalStatuses DEF Outcomes, LifecycleInv, WorkflowFollowsTask
    <3>2. /\ status' = [status EXCEPT !.task = TerminalRows(outcome).task]
          /\ sessions' = [sessions EXCEPT ![Len(sessions)] = TerminalRows(outcome).session]
      BY <2>2 DEF ReconcileTerminalState
    <3>3. /\ TerminalRows(outcome).task = outcome
          /\ TerminalRows(outcome).session = IF outcome = "done" THEN "completed" ELSE outcome
      BY <3>1, ClosedRows
    <3> HIDE DEF outcome
    <3>4. TerminalRows(outcome).session \in DOMAIN SESSION_TRANSITIONS
      BY <3>1, <3>3, StatusNames DEF Outcomes
    <3>5. status' = status
      BY <3>1, <3>2, <3>3 DEF LifecycleInv, LifecycleTypeOK
    <3>6. /\ sessions' \in Seq(DOMAIN SESSION_TRANSITIONS) /\ Len(sessions') = Len(sessions)
          /\ Latest' = TerminalRows(outcome).session
      BY <3>2, <3>4 DEF LifecycleInv, LifecycleTypeOK, Latest
    <3> QED BY <2>2, <3>1, <3>3, <3>5, <3>6
  <2> QED BY <2>1, <2>2
<1>2. LifecycleTypeOK'
  BY <1>0, <1>1 DEF LifecycleInv, LifecycleTypeOK
<1>3. RunnerPhases'
  BY <1>0, <1>1 DEF LifecycleInv, RunnerPhases
<1>4. RequeuedStaysPending' /\ WorkflowFollowsTask'
  BY <1>0, <1>1 DEF LifecycleInv, RequeuedStaysPending, WorkflowFollowsTask
<1>5. ReportSound'
  BY <1>0, <1>1 DEF LifecycleInv, ReportSound, Stale
<1>6. DoneTogether'
  BY <1>0, <1>1 DEF LifecycleInv, DoneTogether
<1>7. ActiveTaskHasSession'
  BY <1>1, FinalStatuses
  DEF LifecycleInv, WorkflowFollowsTask, ActiveTaskHasSession, Latest
<1> QED BY <1>2, <1>3, <1>4, <1>5, <1>6, <1>7 DEF LifecycleInv

(* A session is closed only while its task is at an end.                   *)
LEMMA CloseKeepsInv ==
  ASSUME LifecycleInv, NEW s \in 1..MaxSessions, CloseOrphanSession(s)
  PROVE  LifecycleInv'
<1>0. /\ Close(s) \in report /\ report' = report \ {Close(s)}
      /\ sessions' = [sessions EXCEPT ![s] = "completed"]
      /\ UNCHANGED <<status, step, ticket, runner, worker, owner>>
  BY DEF CloseOrphanSession, Applies
<1>1. /\ sessions' \in Seq(DOMAIN SESSION_TRANSITIONS) /\ Len(sessions') = Len(sessions)
      /\ \A i \in 1..Len(sessions) : sessions'[i] \in {sessions[i], "completed"}
      /\ Len(sessions) \in 1..Len(sessions)
  <2>1. /\ sessions \in Seq(DOMAIN SESSION_TRANSITIONS) /\ Len(sessions) \in Nat \ {0}
        /\ "completed" \in DOMAIN SESSION_TRANSITIONS /\ s \in 1..Len(sessions)
    BY <1>0, StatusNames, SessionsAssumption DEF LifecycleInv, LifecycleTypeOK, ReportSound
  <2>2. sessions' \in Seq(DOMAIN SESSION_TRANSITIONS) /\ Len(sessions') = Len(sessions)
    BY <1>0, <2>1
  <2>3. \A i \in 1..Len(sessions) : sessions'[i] \in {sessions[i], "completed"}
    BY <1>0, <2>1
  <2> QED BY <2>1, <2>2, <2>3
<1>2. status.task \in Finals("task")
  BY <1>0 DEF LifecycleInv, ReportSound
<1>3. LifecycleTypeOK'
  BY <1>0, <1>1 DEF LifecycleInv, LifecycleTypeOK
<1>4. RunnerPhases'
  BY <1>0 DEF LifecycleInv, RunnerPhases
<1>5. RequeuedStaysPending' /\ WorkflowFollowsTask'
  BY <1>0, <1>1 DEF LifecycleInv, RequeuedStaysPending, WorkflowFollowsTask
<1>6. ReportSound'
  BY <1>0, <1>1 DEF LifecycleInv, ReportSound, Stale
<1>7. DoneTogether'
  BY <1>0, <1>1 DEF LifecycleInv, DoneTogether, Latest
<1>8. ActiveTaskHasSession'
  BY <1>0, <1>2 DEF ActiveTaskHasSession
<1> QED BY <1>3, <1>4, <1>5, <1>6, <1>7, <1>8 DEF LifecycleInv
-----------------------------------------------------------------------------
(* Every step of runner, worker and repair keeps the invariant.            *)
LEMMA InvStep == LifecycleInv /\ [Next]_vars => LifecycleInv'
<1> SUFFICES ASSUME LifecycleInv, [Next]_vars
             PROVE  LifecycleInv'
  OBVIOUS
<1>1. CASE RunnerStep
  BY <1>1, AdmissionKeepsInv, RunnerTransitionKeepsInv, CommitStepKeepsInv,
     FinishKeepsInv, CrashKeepsInv DEF RunnerStep
<1>2. CASE WorkerStep
  BY <1>2, ClaimKeepsInv, WorkKeepsInv, WritebackKeepsInv DEF WorkerStep
<1>3. CASE \E old \in BOOLEAN : Scan(old)
  BY <1>3, ScanKeepsInv
<1>4. CASE Repair
  BY <1>4, RequeueKeepsInv, ReconcileKeepsInv, CloseKeepsInv DEF Repair
<1>5. CASE UNCHANGED vars
  <2> USE <1>5 DEF vars, taskRows
  <2>1. LifecycleTypeOK' /\ RunnerPhases' /\ RequeuedStaysPending'
    BY DEF LifecycleInv, LifecycleTypeOK, RunnerPhases, RequeuedStaysPending
  <2>2. WorkflowFollowsTask' /\ ReportSound'
    BY DEF LifecycleInv, WorkflowFollowsTask, ReportSound, Stale
  <2>3. DoneTogether' /\ ActiveTaskHasSession'
    BY DEF LifecycleInv, DoneTogether, ActiveTaskHasSession, Latest
  <2> QED BY <2>1, <2>2, <2>3 DEF LifecycleInv
<1> QED BY <1>1, <1>2, <1>3, <1>4, <1>5 DEF Next

(* The invariant that ties the rows to the runner, the worker and the      *)
(* pending repair actions holds throughout.                                *)
THEOREM LifecycleInvariant == Spec => []LifecycleInv
BY InvInit, InvStep, PTL DEF Spec

(* No half of a completion is ever seen: applyTaskTerminalState closes the *)
(* four rows at once, and no repair of a done task leaves it done.         *)
THEOREM CompletionIsWhole == Spec => []DoneTogether
<1>1. LifecycleInv => DoneTogether
  BY DEF LifecycleInv
<1> QED BY <1>1, LifecycleInvariant, PTL

(* A task that has not ended always has an open session, so that the       *)
(* finding active_task_terminal_session never arises.                      *)
THEOREM OpenTaskOpenSession == Spec => []ActiveTaskHasSession
<1>1. LifecycleInv => ActiveTaskHasSession
  BY DEF LifecycleInv
<1> QED BY <1>1, LifecycleInvariant, PTL

(* A task becomes done only while its execution is the runner's: the       *)
(* comparison of applyTaskTerminalState refuses a runner that repair has   *)
(* taken the execution from.                                               *)
THEOREM OnlyTheOwnerCompletes == Spec => ResultFromOwner
<1> DEFINE Result == status'.task = "done" /\ status.task # "done" => owner = "runner"
<1>1. LifecycleInv /\ LifecycleInv' /\ [Next]_vars => [Result]_vars
  <2> SUFFICES ASSUME LifecycleInv, LifecycleInv', Next,
                      owner # "runner", status'.task = "done"
               PROVE  FALSE
    OBVIOUS
  <2>1. owner = "worker" /\ owner' = "worker"
    <3>1. owner = "worker"
      BY DEF LifecycleInv, LifecycleTypeOK
    <3>2. owner' \in {owner, "worker"}
      BY DEF Next, RunnerStep, Admission, RunnerTransition, CommitStep, Finish, Crash,
             WorkerStep, Claim, Work, Writeback, Scan, Repair, RequeueExecution,
             ReconcileTerminalState, CloseOrphanSession
    <3> QED BY <3>1, <3>2
  <2> QED BY <2>1 DEF LifecycleInv, RequeuedStaysPending
<1> QED BY <1>1, LifecycleInvariant, PTL DEF Spec, ResultFromOwner

-----------------------------------------------------------------------------
(* Operators who take a task over: none of the invariants above survives   *)
(* them, and so the rows' types are proved again, from less.               *)

StatusRow == [task      : DOMAIN TASK_TRANSITIONS,
              workflow  : DOMAIN WORKFLOW_TRANSITIONS,
              execution : DOMAIN EXECUTION_TRANSITIONS]

SessionRows(s) == s \in Seq(DOMAIN SESSION_TRANSITIONS) /\ Len(s) \in 1..MaxSessions

RoomToRequeue == Requeue \in report => Len(sessions) < MaxSessions

(* Writing a session's row makes no session more or fewer.                 *)
LEMMA SessionWritten ==
  ASSUME SessionRows(sessions), NEW k, NEW v \in DOMAIN SESSION_TRANSITIONS
  PROVE  /\ SessionRows([sessions EXCEPT ![k] = v])
         /\ Len([sessions EXCEPT ![k] = v]) = Len(sessions)
<1> DEFINE t == [sessions EXCEPT ![k] = v]
<1>1. t \in Seq(DOMAIN SESSION_TRANSITIONS) /\ Len(t) = Len(sessions)
  <2>1. CASE k \in 1..Len(sessions)
    BY <2>1 DEF SessionRows
  <2>2. CASE k \notin 1..Len(sessions)
    <3>1. k \notin DOMAIN sessions
      BY <2>2 DEF SessionRows
    <3>2. t = sessions
      BY <3>1 DEF SessionRows
    <3> QED BY <3>2 DEF SessionRows
  <2> QED BY <2>1, <2>2
<1> QED BY <1>1 DEF SessionRows

(* Inserting one needs room.                                               *)
LEMMA SessionInserted ==
  ASSUME SessionRows(sessions), Len(sessions) < MaxSessions
  PROVE  /\ SessionRows(Append(sessions, "open"))
         /\ Len(Append(sessions, "open")) = Len(sessions) + 1
BY StatusNames, SessionsAssumption DEF SessionRows

(* What a step of runner, worker or repair can do to the task's and the    *)
(* workflow's rows, as far as a verdict is concerned.                      *)
Untouched ==
  /\ status'.task = status.task /\ status'.workflow = status.workflow
  /\ runner \in {"finish", "stopped"} => runner' \in {"finish", "stopped"}

Compared ==
  \/ status.task \notin Outcomes
  \/ status.workflow = "running" /\ runner \notin {"finish", "stopped"}
       /\ status'.task = status.task

Committed ==
  status'.task = status.task /\ status'.workflow = "running" /\ runner' = "finish"

Repeated ==
  /\ runner' = runner /\ status'.task = status.task
  /\ status.task \in Outcomes /\ status'.workflow = TerminalRows(status.task).workflow

Reconciled ==
  /\ runner' = runner /\ status'.workflow = status.workflow
  /\ status'.task \in Outcomes /\ status.workflow = TerminalRows(status'.task).workflow

Effect == \/ Untouched \/ Compared \/ Committed \/ Repeated \/ Reconciled
          \/ Requeue \in report \ report'

SoundStep == LifecycleTypeOK' /\ RoomToRequeue' /\ Effect

LEMMA RunnerTransitionEffect ==
  ASSUME LifecycleTypeOK, RoomToRequeue, RunnerTransition
  PROVE  SoundStep
<1>0. /\ UNCHANGED <<step, ticket, worker, report, owner>>
      /\ runner \in DOMAIN Script
  BY DEF RunnerTransition
<1> DEFINE entry == Script[runner]
<1>1. /\ runner \in Statements \ {"finish", "stopped"} /\ entry.next \in Statements
      /\ entry.row = "session" => entry.to \in DOMAIN SESSION_TRANSITIONS
      /\ entry.row = "task" => entry.to \in DOMAIN TASK_TRANSITIONS /\ entry.from \notin Outcomes
      /\ entry.row = "workflow" => /\ entry.to \in DOMAIN WORKFLOW_TRANSITIONS
                                   /\ entry.from = "running"
      /\ entry.row = "execution" => entry.to \in DOMAIN EXECUTION_TRANSITIONS
      /\ entry.row \in Rows
  BY <1>0, StatusNames DEF Script, Statements, Outcomes, Rows
<1>2. CASE runner' = "stopped" /\ UNCHANGED <<status, sessions>>
  BY <1>0, <1>2 DEF SoundStep, LifecycleTypeOK, RoomToRequeue, Effect, Untouched, Statements
<1>3. CASE /\ RunnerSees(entry.row) = entry.from
           /\ runner' = entry.next
           /\ IF entry.row = "session"
              THEN sessions' = [sessions EXCEPT ![1] = entry.to] /\ UNCHANGED status
              ELSE status' = [status EXCEPT ![entry.row] = entry.to] /\ UNCHANGED sessions
  <2> HIDE DEF entry
  <2>1. CASE entry.row = "session"
    <3>1. sessions' = [sessions EXCEPT ![1] = entry.to] /\ UNCHANGED status
      BY <1>3, <2>1
    <3>2. SessionRows(sessions') /\ Len(sessions') = Len(sessions)
      BY <1>1, <2>1, <3>1, SessionWritten DEF SessionRows, LifecycleTypeOK
    <3> QED BY <1>0, <1>1, <1>3, <3>1, <3>2
            DEF SoundStep, LifecycleTypeOK, RoomToRequeue, Effect, Untouched, SessionRows
  <2>2. CASE entry.row # "session"
    <3>1. status' = [status EXCEPT ![entry.row] = entry.to] /\ UNCHANGED sessions
      BY <1>3, <2>2
    <3>2. status[entry.row] = entry.from
      BY <1>3, <2>2 DEF RunnerSees
    <3>3. status' \in StatusRow /\ Effect
      <4>1. CASE entry.row = "task"
        BY <1>1, <3>1, <3>2, <4>1 DEF StatusRow, LifecycleTypeOK, Effect, Compared
      <4>2. CASE entry.row = "workflow"
        BY <1>1, <3>1, <3>2, <4>2 DEF StatusRow, LifecycleTypeOK, Effect, Compared
      <4>3. CASE entry.row = "execution"
        BY <1>1, <3>1, <3>2, <4>3 DEF StatusRow, LifecycleTypeOK, Effect, Untouched
      <4> QED BY <1>1, <2>2, <4>1, <4>2, <4>3 DEF Rows
    <3> QED BY <1>0, <1>1, <1>3, <3>1, <3>3
            DEF SoundStep, LifecycleTypeOK, RoomToRequeue, StatusRow
  <2> QED BY <2>1, <2>2
<1> QED BY <1>2, <1>3 DEF RunnerTransition

LEMMA ClosingEffect ==
  ASSUME LifecycleTypeOK, NEW s, NEW outcome \in Outcomes, CloseRows(s, outcome)
  PROVE  /\ status' \in StatusRow /\ SessionRows(sessions') /\ Len(sessions') = Len(sessions)
         /\ status'.task = outcome /\ status'.workflow = TerminalRows(outcome).workflow
<1>1. /\ TerminalRows(outcome).session \in DOMAIN SESSION_TRANSITIONS
      /\ TerminalRows(outcome).task \in DOMAIN TASK_TRANSITIONS
      /\ TerminalRows(outcome).workflow \in DOMAIN WORKFLOW_TRANSITIONS
      /\ TerminalRows(outcome).execution \in DOMAIN EXECUTION_TRANSITIONS
  BY ClosedRows, StatusNames DEF Outcomes
<1>2. SessionRows(sessions') /\ Len(sessions') = Len(sessions)
  BY <1>1, SessionWritten DEF CloseRows, SessionRows, LifecycleTypeOK
<1> QED BY <1>1, <1>2, ClosedRows DEF CloseRows, StatusRow

LEMMA RunnerEffect ==
  ASSUME LifecycleTypeOK, RoomToRequeue, RunnerStep
  PROVE  SoundStep
<1>1. CASE Admission \/ Crash
  BY <1>1 DEF Admission, Crash, taskRows, SoundStep, LifecycleTypeOK, RoomToRequeue,
              Effect, Untouched, Statements
<1>2. CASE CommitStep
  <2>1. status' \in StatusRow /\ status'.task = status.task /\ status'.workflow = "running"
    BY <1>2, StatusNames DEF CommitStep, LifecycleTypeOK, StatusRow
  <2> QED BY <1>2, <2>1 DEF CommitStep, SoundStep, LifecycleTypeOK, RoomToRequeue, Effect,
                            Committed, Statements, StatusRow
<1>3. CASE Finish
  <2> DEFINE seen == [task |-> "in_progress", workflow |-> "running",
                      session |-> "streaming", execution |-> "executing"]
  <2>0. runner' = "stopped" /\ UNCHANGED <<step, ticket, worker, report, owner>>
    BY <1>3 DEF Finish
  <2>1. CASE UNCHANGED <<status, sessions>>
    BY <2>0, <2>1 DEF SoundStep, LifecycleTypeOK, RoomToRequeue, Effect, Untouched, Statements
  <2>2. CASE TerminalAccepts(seen, 1, "done") /\ CloseRows(1, "done")
    <3>1. "done" \in Outcomes /\ status.task = "in_progress"
      BY <2>2, AcceptedOutcome DEF Outcomes
    <3>2. /\ status' \in StatusRow /\ SessionRows(sessions')
          /\ Len(sessions') = Len(sessions)
      BY <2>2, <3>1, ClosingEffect
    <3> QED BY <2>0, <3>1, <3>2 DEF SoundStep, LifecycleTypeOK, RoomToRequeue, Effect,
                 Compared, Statements, StatusRow, SessionRows, Outcomes
  <2> QED BY <1>3, <2>1, <2>2 DEF Finish
<1> QED BY <1>1, <1>2, <1>3, RunnerTransitionEffect DEF RunnerStep

LEMMA WorkerEffect ==
  ASSUME LifecycleTypeOK, RoomToRequeue, WorkerStep
  PROVE  SoundStep
<1>1. CASE Claim
  <2>1. /\ status' \in StatusRow
        /\ status'.task = status.task /\ status'.workflow = status.workflow
    BY <1>1, StatusNames DEF Claim, LifecycleTypeOK, StatusRow
  <2> QED BY <1>1, <2>1 DEF Claim, SoundStep, LifecycleTypeOK, RoomToRequeue, Effect,
                            Untouched, StatusRow
<1>2. CASE Work
  BY <1>2 DEF Work, taskRows, SoundStep, LifecycleTypeOK, RoomToRequeue, Effect, Untouched
<1>3. CASE Writeback
  <2> DEFINE last == Len(sessions)
             seen == [task |-> status.task, workflow |-> status.workflow,
                      session |-> sessions[last], execution |-> status.execution]
  <2>0. /\ worker \in Outcomes /\ worker' = "none"
        /\ UNCHANGED <<step, ticket, runner, report, owner>>
    BY <1>3 DEF Writeback
  <2>1. CASE UNCHANGED <<status, sessions>>
    BY <2>0, <2>1 DEF SoundStep, LifecycleTypeOK, RoomToRequeue, Effect, Untouched
  <2>2. CASE TerminalAccepts(seen, last, worker) /\ CloseRows(last, worker)
    <3>1. Allowed("task", status.task, worker)
      BY <2>0, <2>2, AcceptedOutcome
    <3>2. /\ status' \in StatusRow /\ SessionRows(sessions')
          /\ Len(sessions') = Len(sessions)
          /\ status'.task = worker /\ status'.workflow = TerminalRows(worker).workflow
      BY <2>0, <2>2, ClosingEffect
    <3>3. status.task \in Outcomes => status.task = worker
      BY <3>1 DEF Allowed, Transitions, TASK_TRANSITIONS, Outcomes
    <3>4. Effect
      BY <2>0, <3>2, <3>3 DEF Effect, Compared, Repeated
    <3> QED BY <2>0, <3>2, <3>4 DEF SoundStep, LifecycleTypeOK, RoomToRequeue, StatusRow,
                                    SessionRows
  <2> QED BY <1>3, <2>1, <2>2 DEF Writeback
<1> QED BY <1>1, <1>2, <1>3 DEF WorkerStep

LEMMA RepairEffect ==
  ASSUME LifecycleTypeOK, RoomToRequeue, (\E old \in BOOLEAN : Scan(old)) \/ Repair
  PROVE  SoundStep
<1>0. SessionRows(sessions) /\ Len(sessions) \in Nat
  BY SessionsAssumption DEF LifecycleTypeOK, SessionRows
<1>1. ASSUME NEW old \in BOOLEAN, Scan(old) PROVE SoundStep
  <2>0. /\ UNCHANGED <<status, step, sessions, ticket, runner, worker, owner>>
        /\ Len(sessions) < MaxSessions
    BY <1>1 DEF Scan, taskRows
  <2>1. \A x \in report' : \/ x \in {Requeue, Reconcile}
                           \/ \E s \in OrphanSessions : x = Close(s)
    BY <1>1 DEF Scan
  <2>2. \A s \in OrphanSessions : s \in 1..MaxSessions
    BY <1>0, <2>0, SessionsAssumption DEF OrphanSessions
  <2>3. report' \subseteq RepairActions
    BY <2>1, <2>2 DEF RepairActions
  <2> QED BY <2>0, <2>3 DEF SoundStep, LifecycleTypeOK, RoomToRequeue, Effect, Untouched
<1>2. CASE RequeueExecution
  <2>0. /\ Requeue \in report \ report' /\ report' = report \ {Requeue}
        /\ ticket' = "pending" /\ worker' = "none" /\ owner' = "worker"
        /\ status' = [task |-> "pending", workflow |-> "running", execution |-> "created"]
        /\ UNCHANGED <<step, runner>>
    BY <1>2 DEF RequeueExecution, Applies
  <2>1. status' \in StatusRow
    BY <2>0, StatusNames DEF StatusRow
  <2>2. SessionRows(sessions')
    <3>1. Len(sessions) < MaxSessions /\ "open" \in DOMAIN SESSION_TRANSITIONS
      BY <2>0, StatusNames DEF RoomToRequeue
    <3> QED BY <1>0, <1>2, <3>1, SessionWritten, SessionInserted DEF RequeueExecution, Reopened
  <2> QED BY <2>0, <2>1, <2>2 DEF SoundStep, LifecycleTypeOK, RoomToRequeue, Effect,
                                  StatusRow, SessionRows
<1>3. CASE ReconcileTerminalState
  <2>0. report' \subseteq report /\ UNCHANGED <<step, ticket, runner, worker, owner>>
    BY <1>3 DEF ReconcileTerminalState, Applies
  <2>1. CASE UNCHANGED <<status, sessions>>
    BY <2>0, <2>1 DEF SoundStep, LifecycleTypeOK, RoomToRequeue, Effect, Untouched
  <2>2. CASE status.workflow \in Finals("workflow")
    <3> DEFINE o == IF status.workflow = "completed" THEN "done" ELSE status.workflow
    <3>1. /\ status' = [status EXCEPT !.task = TerminalRows(o).task]
          /\ sessions' = [sessions EXCEPT ![Len(sessions)] = TerminalRows(o).session]
      BY <1>3, <2>2 DEF ReconcileTerminalState
    <3>2. o \in Outcomes /\ status.workflow = TerminalRows(o).workflow
      BY <2>2, FinalStatuses, ClosedRows DEF Outcomes
    <3> HIDE DEF o
    <3>3. /\ TerminalRows(o).task = o /\ o \in DOMAIN TASK_TRANSITIONS
          /\ TerminalRows(o).session \in DOMAIN SESSION_TRANSITIONS
      BY <3>2, ClosedRows, StatusNames DEF Outcomes
    <3>4. SessionRows(sessions') /\ Len(sessions') = Len(sessions)
      BY <1>0, <3>1, <3>3, SessionWritten
    <3>5. /\ status' \in StatusRow
          /\ status'.task = o /\ status'.workflow = status.workflow
      BY <3>1, <3>3 DEF LifecycleTypeOK, StatusRow
    <3>6. Effect
      BY <2>0, <3>2, <3>5 DEF Effect, Reconciled
    <3> QED BY <2>0, <3>4, <3>5, <3>6 DEF SoundStep, LifecycleTypeOK, RoomToRequeue,
                                          StatusRow, SessionRows
  <2> QED BY <1>3, <2>1, <2>2 DEF ReconcileTerminalState
<1>4. ASSUME NEW s \in 1..MaxSessions, CloseOrphanSession(s) PROVE SoundStep
  <2>0. report' \subseteq report /\ UNCHANGED <<status, step, ticket, runner, worker, owner>>
    BY <1>4 DEF CloseOrphanSession, Applies
  <2>1. SessionRows(sessions') /\ Len(sessions') = Len(sessions)
    BY <1>0, <1>4, StatusNames, SessionWritten DEF CloseOrphanSession
  <2> QED BY <2>0, <2>1 DEF SoundStep, LifecycleTypeOK, RoomToRequeue, Effect, Untouched,
                            SessionRows
<1> QED BY <1>1, <1>2, <1>3, <1>4 DEF Repair

(* Runner, worker and repair leave a verdict as it is, or put the task     *)
(* back altogether.                                                        *)
LEMMA OthersKeepVerdict ==
  ASSUME TakeoverInv, OthersStep
  PROVE  TakeoverInv'
<1>0. /\ LifecycleTypeOK /\ RoomToRequeue /\ Next
      /\ UNCHANGED <<takeovers, retried, operator>>
      /\ verdict \in {"none"} \cup Outcomes
      /\ verdict' = IF Requeue \in report \ report' THEN "none" ELSE verdict
  BY DEF TakeoverInv, TakeoverTypeOK, RoomToRequeue, OthersStep
<1>1. SoundStep
  BY <1>0, RunnerEffect, WorkerEffect, RepairEffect DEF Next
<1>2. TakeoverTypeOK' /\ RoomToRequeue'
  BY <1>0, <1>1 DEF SoundStep, TakeoverInv, TakeoverTypeOK, Snapshots, NoAction
<1>3. ASSUME verdict' # "none"
      PROVE  /\ status'.task = verdict'
             /\ Follows(status.workflow)'
             /\ operator' # NoAction => Follows(operator.workflow)'
  <2>0. /\ verdict' = verdict /\ verdict \in Outcomes /\ Requeue \notin report \ report'
        /\ operator' = operator
    BY <1>0, <1>3
  <2>1. /\ status.task = verdict /\ Follows(status.workflow)
        /\ operator # NoAction => Follows(operator.workflow)
    BY <1>3, <2>0 DEF TakeoverInv, VerdictStands
  <2>2. /\ TerminalRows(verdict).workflow # "running"
        /\ TerminalRows(verdict)' = TerminalRows(verdict)
    BY <2>0, ClosedRows DEF Outcomes, TerminalRows
  <2>3. ~Compared
    BY <2>0, <2>1, <2>2 DEF Compared, Follows
  <2>4. CASE Untouched
    BY <2>0, <2>1, <2>2, <2>4 DEF Untouched, Follows
  <2>5. CASE Committed
    BY <2>0, <2>1, <2>2, <2>5 DEF Committed, Follows
  <2>6. CASE Repeated
    BY <2>0, <2>1, <2>2, <2>6 DEF Repeated, Follows
  <2>7. CASE Reconciled
    <3>1. status'.task = verdict
      <4>1. TerminalRows(status'.task).workflow = TerminalRows(verdict).workflow
        <5>1. status.workflow # "running"
          BY <2>7, ClosedRows DEF Reconciled, Outcomes
        <5> QED BY <2>1, <2>7, <5>1 DEF Reconciled, Follows
      <4> QED BY <2>0, <2>7, <4>1, ClosedRows DEF Reconciled, Outcomes
    <3> QED BY <2>0, <2>1, <2>2, <2>7, <3>1 DEF Reconciled, Follows
  <2> QED BY <1>1, <2>0, <2>3, <2>4, <2>5, <2>6, <2>7 DEF SoundStep, Effect
<1> QED BY <1>2, <1>3 DEF TakeoverInv, RoomToRequeue, VerdictStands

RetriedRows(r) == r \in Seq(DOMAIN EXECUTION_TRANSITIONS) /\ Len(r) <= MaxRetried

(* Writing the row of an execution made by a retry adds none.              *)
LEMMA RetriedWritten ==
  ASSUME RetriedRows(retried), NEW x, NEW v \in DOMAIN EXECUTION_TRANSITIONS
  PROVE  /\ RetriedRows([retried EXCEPT ![x] = v])
         /\ Len([retried EXCEPT ![x] = v]) = Len(retried)
<1> DEFINE r == [retried EXCEPT ![x] = v]
<1>1. r \in Seq(DOMAIN EXECUTION_TRANSITIONS) /\ Len(r) = Len(retried)
  <2>1. CASE x \in 1..Len(retried)
    BY <2>1 DEF RetriedRows
  <2>2. CASE x \notin 1..Len(retried)
    <3>1. x \notin DOMAIN retried
      BY <2>2 DEF RetriedRows
    <3>2. r = retried
      BY <3>1 DEF RetriedRows
    <3> QED BY <3>2 DEF RetriedRows
  <2> QED BY <2>1, <2>2
<1> QED BY <1>1 DEF RetriedRows

(* Ending the task sets all the snapshot's rows to the outcome, and no     *)
(* snapshot is in hand afterwards.                                         *)
LEMMA EndTaskKeepsVerdict ==
  ASSUME TakeoverInv, NEW outcome \in Outcomes, Acts, EndTask(outcome), step' \in {0, 1}
  PROVE  TakeoverInv'
<1>0. /\ operator' = NoAction /\ operator \in Snapshots /\ verdict' = outcome
      /\ UNCHANGED <<ticket, runner, worker, report, owner>>
  BY DEF Acts, EndTask, TakeoverInv, TakeoverTypeOK
<1> DEFINE closed == TerminalRows(outcome)
<1>1. /\ closed.session \in DOMAIN SESSION_TRANSITIONS
      /\ closed.workflow \in DOMAIN WORKFLOW_TRANSITIONS
      /\ closed.execution \in DOMAIN EXECUTION_TRANSITIONS
      /\ outcome \in DOMAIN TASK_TRANSITIONS
  BY ClosedRows, StatusNames DEF Outcomes
<1>2. /\ SessionRows(sessions) /\ RetriedRows(retried)
      /\ sessions' = [sessions EXCEPT ![operator.session] = closed.session]
      /\ takeovers' = [takeovers EXCEPT ![operator.takeover] = "closed"]
      /\ SetRows(outcome, closed.workflow, closed.execution)
  BY DEF EndTask, TakeoverInv, TakeoverTypeOK, LifecycleTypeOK, SessionRows, RetriedRows
<1> HIDE DEF closed
<1>3. /\ status' \in StatusRow
      /\ status'.task = outcome /\ status'.workflow = closed.workflow
  <2>1. status.execution \in DOMAIN EXECUTION_TRANSITIONS
    BY DEF TakeoverInv, TakeoverTypeOK, LifecycleTypeOK
  <2> QED BY <1>1, <1>2, <2>1 DEF SetRows, StatusRow
<1>4. SessionRows(sessions') /\ Len(sessions') = Len(sessions)
  BY <1>1, <1>2, SessionWritten
<1>5. RetriedRows(retried')
  BY <1>1, <1>2, RetriedWritten DEF SetRows
<1>6. takeovers' \in [1..MaxTakeovers -> {"none", "open", "closed"}]
  BY <1>2 DEF TakeoverInv, TakeoverTypeOK
<1>7. TakeoverTypeOK'
  <2>1. LifecycleTypeOK'
    BY <1>0, <1>3, <1>4 DEF TakeoverInv, TakeoverTypeOK, LifecycleTypeOK, StatusRow, SessionRows
  <2> QED BY <1>0, <1>5, <1>6, <2>1 DEF TakeoverTypeOK, RetriedRows, NoAction
<1>8. Follows(status.workflow)'
  BY <1>0, <1>3 DEF Follows, closed
<1> QED BY <1>0, <1>3, <1>4, <1>7, <1>8 DEF TakeoverInv, VerdictStands

(* A retry takes the verdict back with the task.                           *)
LEMMA RetryKeepsVerdict ==
  ASSUME TakeoverInv, RetryExecution
  PROVE  TakeoverInv'
<1>0. /\ operator' = NoAction /\ operator \in Snapshots /\ verdict' = "none"
      /\ UNCHANGED <<takeovers, ticket, runner, worker, report, owner>>
      /\ step' = operator.step
      /\ Len(retried) < MaxRetried /\ Len(sessions) + 1 < MaxSessions
  BY DEF Acts, RetryExecution, TakeoverInv, TakeoverTypeOK
<1>1. SessionRows(sessions) /\ RetriedRows(retried)
      /\ Len(sessions) \in Nat /\ Len(retried) \in Nat
  BY DEF TakeoverInv, TakeoverTypeOK, LifecycleTypeOK, SessionRows, RetriedRows
<1>2. status' \in StatusRow
  <2>1. /\ status.execution \in DOMAIN EXECUTION_TRANSITIONS
        /\ "superseded" \in DOMAIN EXECUTION_TRANSITIONS
    BY DEF TakeoverInv, TakeoverTypeOK, LifecycleTypeOK, EXECUTION_TRANSITIONS
  <2> QED BY <2>1, StatusNames DEF RetryExecution, StatusRow
<1>3. SessionRows(sessions') /\ Len(sessions') < MaxSessions
  <2>1. "open" \in DOMAIN SESSION_TRANSITIONS /\ MaxSessions \in Nat
    BY StatusNames, SessionsAssumption
  <2>2. Len(sessions) < MaxSessions
    BY <1>0, <1>1, <2>1
  <2>3. CASE sessions' = Append(sessions, "open")
    BY <1>0, <1>1, <2>2, <2>3, SessionInserted
  <2>4. CASE sessions' = sessions
    BY <1>1, <2>2, <2>4
  <2>5. CASE sessions' = [sessions EXCEPT ![operator.session] = "open"]
    BY <1>1, <2>1, <2>2, <2>5, SessionWritten
  <2> QED BY <2>3, <2>4, <2>5 DEF RetryExecution
<1>4. RetriedRows(retried')
  <2> DEFINE old == IF operator.execution = 0 THEN retried
                    ELSE [retried EXCEPT ![operator.execution] = "superseded"]
  <2>1. /\ "superseded" \in DOMAIN EXECUTION_TRANSITIONS
        /\ "created" \in DOMAIN EXECUTION_TRANSITIONS
    BY DEF EXECUTION_TRANSITIONS
  <2>2. RetriedRows(old) /\ Len(old) = Len(retried)
    BY <1>1, <2>1, RetriedWritten
  <2>3. retried' = Append(old, "created")
    BY DEF RetryExecution
  <2> HIDE DEF old
  <2> QED BY <1>0, <1>1, <2>1, <2>2, <2>3, TakeoverAssumption DEF RetriedRows
<1>5. step' \in {0, 1}
  BY <1>0 DEF Snapshots
<1>6. TakeoverTypeOK'
  <2>1. LifecycleTypeOK'
    BY <1>0, <1>2, <1>3, <1>5
       DEF TakeoverInv, TakeoverTypeOK, LifecycleTypeOK, StatusRow, SessionRows
  <2> QED BY <1>0, <1>4, <2>1 DEF TakeoverInv, TakeoverTypeOK, RetriedRows, NoAction
<1> QED BY <1>0, <1>3, <1>6 DEF TakeoverInv, VerdictStands

(* An action that writes the loaded status of the workflow back writes one *)
(* that was loaded under the same verdict.                                 *)
LEMMA WriteBackKeepsVerdict ==
  ASSUME TakeoverInv, SetCurrentStep \/ WriteStepOutput
  PROVE  TakeoverInv'
<1>0. /\ operator' = NoAction /\ operator # NoAction /\ operator \in Snapshots
      /\ UNCHANGED <<sessions, ticket, runner, worker, report, owner, takeovers, retried,
                     verdict>>
      /\ status' = [status EXCEPT !.workflow = operator.workflow]
      /\ step' \in {0, operator.step}
  BY DEF Acts, SetCurrentStep, WriteStepOutput, TakeoverInv, TakeoverTypeOK
<1>1. /\ status' \in StatusRow
      /\ status'.task = status.task /\ status'.workflow = operator.workflow
  BY <1>0 DEF Snapshots, TakeoverInv, TakeoverTypeOK, LifecycleTypeOK, StatusRow
<1>2. step' \in {0, 1}
  BY <1>0 DEF Snapshots
<1>3. TakeoverTypeOK'
  <2>1. LifecycleTypeOK'
    BY <1>0, <1>1, <1>2 DEF TakeoverInv, TakeoverTypeOK, LifecycleTypeOK, StatusRow
  <2> QED BY <1>0, <2>1 DEF TakeoverInv, TakeoverTypeOK, NoAction
<1>4. verdict' # "none" => Follows(status.workflow)'
  BY <1>0, <1>1 DEF TakeoverInv, Follows, TerminalRows
<1> QED BY <1>0, <1>1, <1>3, <1>4 DEF TakeoverInv, VerdictStands

(* A snapshot is loaded under the verdict that stands.                     *)
LEMMA LoadKeepsVerdict ==
  ASSUME TakeoverInv, NEW k \in 1..MaxTakeovers,
         OpenSession(k) \/ Resume(k) \/ LoadTaskSnapshot(k)
  PROVE  TakeoverInv'
<1>0. /\ UNCHANGED <<status, step, sessions, ticket, runner, worker, report, owner, retried,
                     verdict>>
      /\ operator = NoAction
  BY DEF OpenSession, Resume, LoadTaskSnapshot, vars, taskRows
<1>1. /\ takeovers' \in [1..MaxTakeovers -> {"none", "open", "closed"}]
      /\ \/ operator' = NoAction
         \/ operator' \in Snapshots /\ operator'.workflow = status.workflow
  <2>1. CASE OpenSession(k) \/ Resume(k)
    BY <2>1 DEF OpenSession, Resume, TakeoverInv, TakeoverTypeOK
  <2>2. CASE LoadTaskSnapshot(k)
    <3>1. /\ Len(sessions) \in 1..MaxSessions /\ Latest \in DOMAIN SESSION_TRANSITIONS
          /\ Len(retried) \in 0..MaxRetried
          /\ status.workflow \in DOMAIN WORKFLOW_TRANSITIONS /\ step \in {0, 1}
      BY TakeoverAssumption DEF TakeoverInv, TakeoverTypeOK, LifecycleTypeOK, Latest
    <3> QED BY <2>2, <3>1 DEF LoadTaskSnapshot, Snapshots, TakeoverInv, TakeoverTypeOK
  <2> QED BY <2>1, <2>2
<1>2. LifecycleTypeOK'
  BY <1>0 DEF TakeoverInv, TakeoverTypeOK, LifecycleTypeOK
<1>3. TakeoverTypeOK'
  BY <1>0, <1>1, <1>2 DEF TakeoverInv, TakeoverTypeOK, NoAction, Snapshots
<1>4. verdict' # "none" =>
        /\ Follows(status.workflow)'
        /\ operator' # NoAction => Follows(operator.workflow)'
  BY <1>0, <1>1 DEF TakeoverInv, Follows, TerminalRows
<1>5. (Requeue \in report => Len(sessions) < MaxSessions)' /\ VerdictStands'
  BY <1>0 DEF TakeoverInv, VerdictStands
<1> QED BY <1>3, <1>4, <1>5 DEF TakeoverInv

(* Every step of operators, runner, worker and repair keeps the invariant. *)
LEMMA TakeoverInvStep ==
  TakeoverInv /\ [TakeoverNext]_<<vars, takeoverVars>> => TakeoverInv'
<1> SUFFICES ASSUME TakeoverInv, [TakeoverNext]_<<vars, takeoverVars>>
             PROVE  TakeoverInv'
  OBVIOUS
<1>1. ASSUME NEW outcome \in Outcomes, CompleteTask(outcome) PROVE TakeoverInv'
  <2>1. Acts /\ EndTask(outcome) /\ step' \in {0, 1}
    BY <1>1 DEF CompleteTask, Acts, TakeoverInv, TakeoverTypeOK, Snapshots
  <2> QED BY <2>1, EndTaskKeepsVerdict
<1>2. CASE SkipCurrentStep
  <2>1. CASE operator.step = 0
    <3>1. Acts /\ EndTask("done") /\ step' = 1 /\ "done" \in Outcomes
      BY <1>2, <2>1 DEF SkipCurrentStep, Outcomes
    <3> QED BY <3>1, EndTaskKeepsVerdict
  <2>2. CASE operator.step # 0
    <3>1. operator' = NoAction /\ UNCHANGED <<vars, takeovers, retried, verdict>>
      BY <1>2, <2>2 DEF SkipCurrentStep, Acts
    <3>2. LifecycleTypeOK'
      BY <3>1 DEF vars, taskRows, TakeoverInv, TakeoverTypeOK, LifecycleTypeOK
    <3>3. TakeoverTypeOK'
      BY <3>1, <3>2 DEF TakeoverInv, TakeoverTypeOK, NoAction
    <3> QED BY <3>1, <3>3 DEF vars, taskRows, TakeoverInv, VerdictStands, Follows, TerminalRows
  <2> QED BY <2>1, <2>2
<1>3. CASE ReplaceTerminalSession
  <2>0. /\ UNCHANGED <<status, step, ticket, runner, worker, report, owner>>
        /\ UNCHANGED <<takeovers, retried, operator, verdict>>
        /\ Len(sessions) + 1 < MaxSessions /\ sessions' = Append(sessions, "open")
        /\ SessionRows(sessions) /\ Len(sessions) \in Nat
    BY <1>3 DEF ReplaceTerminalSession, takeoverVars, TakeoverInv, TakeoverTypeOK,
                LifecycleTypeOK, SessionRows
  <2>1. SessionRows(sessions') /\ Len(sessions') < MaxSessions
    BY <2>0, SessionInserted, SessionsAssumption
  <2>2. LifecycleTypeOK'
    BY <2>0, <2>1 DEF TakeoverInv, TakeoverTypeOK, LifecycleTypeOK, SessionRows
  <2>3. TakeoverTypeOK'
    BY <2>0, <2>2 DEF TakeoverInv, TakeoverTypeOK, NoAction, Snapshots
  <2> QED BY <2>0, <2>1, <2>3 DEF TakeoverInv, VerdictStands, Follows, TerminalRows, NoAction
<1>4. CASE UNCHANGED <<vars, takeoverVars>>
  <2>0. UNCHANGED <<status, step, sessions, ticket, runner, worker, report, owner,
                    takeovers, retried, operator, verdict>>
    BY <1>4 DEF vars, taskRows, takeoverVars
  <2>1. LifecycleTypeOK'
    BY <2>0 DEF TakeoverInv, TakeoverTypeOK, LifecycleTypeOK
  <2>2. TakeoverTypeOK'
    BY <2>0, <2>1 DEF TakeoverInv, TakeoverTypeOK, NoAction, Snapshots
  <2> QED BY <2>0, <2>2 DEF TakeoverInv, VerdictStands, Follows, TerminalRows, NoAction
<1> QED BY <1>1, <1>2, <1>3, <1>4, OthersKeepVerdict, RetryKeepsVerdict,
           WriteBackKeepsVerdict, LoadKeepsVerdict DEF TakeoverNext, TakeoverStep

(* Operators may interrupt a task anywhere, with snapshots as old as may   *)
(* be, and what they ended it with still stands until they or a requeue    *)
(* put it back: the comparisons of the transition service refuse a runner  *)
(* and a worker that are still at it, and reconcile_terminal_state finds   *)
(* only workflows that agree.                                              *)
THEOREM OperatorsHaveTheLastWord == TakeoverSpec => []VerdictStands
<1>1. TakeoverInit => TakeoverInv
  <2> SUFFICES ASSUME TakeoverInit PROVE TakeoverInv
    OBVIOUS
  <2>1. LifecycleTypeOK
    BY InvInit DEF TakeoverInit, LifecycleInv
  <2>2. retried = <<>> /\ operator = NoAction /\ verdict = "none" /\ report = {}
    BY DEF TakeoverInit, Init
  <2>3. takeovers \in [1..MaxTakeovers -> {"none", "open", "closed"}]
    BY DEF TakeoverInit
  <2>4. TakeoverTypeOK
    BY <2>1, <2>2, <2>3, TakeoverAssumption DEF TakeoverTypeOK
  <2> QED BY <2>2, <2>4 DEF TakeoverInv, VerdictStands
<1>2. TakeoverInv => VerdictStands
  BY DEF TakeoverInv
<1> QED BY <1>1, <1>2, TakeoverInvStep, PTL DEF TakeoverSpec
=============================================================================
