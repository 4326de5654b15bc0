----------------------------- MODULE MCServices -----------------------------
(***************************************************************************)
(* The services that have to get something done in the end, side by side:  *)
(* the run of a task with its repair tool, the outbox, the delivery of     *)
(* events, the job queue, the approval center, the circuit breaker and the *)
(* bulkhead.  They share no state, so part says at the start which of them *)
(* moves, and the others keep their initial state.                         *)
(*                                                                         *)
(* The job queue is two parts: jobs, where all processes work on one job,  *)
(* and backlog, where one process works on all of them.                    *)
(***************************************************************************)
EXTENDS TaskLifecycle, Outbox, EventDelivery, JobQueue, MCApprovals,
        CircuitBreaker, Bulkhead

VARIABLE part

Parts == {"lifecycle", "outbox", "delivery", "jobs", "backlog", "approvals",
          "breaker", "bulkhead"}

QueueParts == {"jobs", "backlog"}

ServicesInit ==
  /\ part \in Parts
  /\ Init /\ OutboxInit /\ DeliveryInit /\ JobInit /\ ApprovalInit /\ BreakerInit
  /\ BulkheadInit /\ (part # "bulkhead" => limit = Max(Limits) /\ queueSize = Max(QueueSizes))

ServicesNext ==
  /\ UNCHANGED part
  /\ \/ part = "lifecycle" /\ Next
     \/ part # "lifecycle" /\ UNCHANGED vars
  /\ \/ part = "outbox" /\ OutboxNext
     \/ part # "outbox" /\ UNCHANGED outboxVars
  /\ \/ part = "delivery" /\ DeliveryNext
     \/ part # "delivery" /\ UNCHANGED deliveryVars
  /\ \/ part = "jobs" /\ QueueStep({1}, {}, {1}, Adapters)
     \/ part = "backlog" /\ QueueStep(Jobs, {2}, {}, {1})
     \/ part \notin QueueParts /\ UNCHANGED jobVars
  /\ \/ part = "approvals" /\ ApprovalNext
     \/ part # "approvals" /\ UNCHANGED approvalVars
  /\ \/ part = "breaker" /\ BreakerNext
     \/ part # "breaker" /\ UNCHANGED breakerVars
  /\ \/ part = "bulkhead" /\ BulkheadNext
     \/ part # "bulkhead" /\ UNCHANGED bulkheadVars

servicesVars ==
  <<part, vars, outboxVars, deliveryVars, jobVars, approvalVars, breakerVars,
    bulkheadVars>>

(* The fairness of each component, where it is the one that moves          *)
ServicesFairness ==
  /\ WF_vars(part = "lifecycle" /\ Scan(TRUE))
  /\ WF_vars(part = "lifecycle" /\ Repair)
  /\ WF_outboxVars(part = "outbox" /\ RestartOutbox)
  /\ WF_outboxVars(part = "outbox" /\ StartPoller)
  /\ WF_outboxVars(part = "outbox" /\ NextChunk)
  /\ SF_outboxVars(part = "outbox" /\ Poll({}))
  /\ WF_deliveryVars(part = "delivery" /\ DeliveryStep)
  /\ WF_deliveryVars(part = "delivery" /\ PollingTick)
  /\ WF_jobVars(part = "jobs" /\ \E p \in Adapters : AdapterStep(p))
  /\ WF_jobVars(part = "backlog" /\ AdapterStep(1))
  /\ \A j \in Jobs : WF_jobVars(part \in QueueParts /\ DelayPasses(j))
  /\ WF_approvalVars(part = "approvals" /\ Sweep)
  /\ \A a \in Approvals : WF_approvalVars(part = "approvals" /\ BecomeOverdue(a))
  /\ \A c \in Calls : /\ WF_breakerVars(part = "breaker" /\ Admit(c))
                      /\ WF_breakerVars(part = "breaker" /\ OnSuccess(c))
  /\ WF_breakerVars(part = "breaker" /\ ResetTimeoutPasses)
  /\ \A c \in PlaneCalls : /\ WF_bulkheadVars(part = "bulkhead" /\ DeadlinePasses(c))
                           /\ WF_bulkheadVars(part = "bulkhead" /\ TimerFires(c))

ServicesSpec == ServicesInit /\ [][ServicesNext]_servicesVars /\ ServicesFairness

(* The inductive invariants of the services, with the limits they set to   *)
(* retries, attempts, the monitoring window and the queue of a bulkhead.   *)
(* The rows of a run agree with what the runner, the worker and the repair *)
(* actions in hand may still do to them, a full vote decides its request,  *)
(* and a breaker counts no more probes than there are calls under way.     *)
ServicesInv ==
  /\ LifecycleInv
  /\ OutboxInv /\ DeliveryTypeOK /\ JobInv /\ ApprovalInv /\ BreakerInv /\ BulkheadInv
  /\ FullVoteDecides /\ ProbesReturn

=============================================================================
