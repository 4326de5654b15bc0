------------------------------ MODULE MCDispatch ------------------------------
(* ExecutionDispatch with workers of one slot each: two workers and one    *)
(* execution, or one worker that two executions compete for, one of them   *)
(* urgent.  Regions and capabilities are exercised with ExecutionLease.    *)
EXTENDS ExecutionDispatch, TLC

CONSTANTS w1, w2, e1, e2, p1, p2

MCWorkers == {w1, w2}
MCOneWorker == {w1}
MCExecutions == {e1}
MCTwoExecutions == {e1, e2}
MCProcesses == {p1, p2}
MCSymmetry == Permutations(MCProcesses)
MCUrgent == {e2}
MCMaxConcurrency == [w \in Workers |-> 1]
MCProvides == [w \in Workers |-> {}]
MCRequires == [e \in Executions |-> {}]
MCRegionOf == [w \in Workers |-> NoRegion]

(* Bound of the concurrent run: a heartbeat of the worker overlaps with    *)
(* dispatch, preemption and reconciliation, and not with its other calls.  *)
HeartbeatOverlaps ==
  \E p, q \in Processes :
    /\ p # q
    /\ procs[p].op \in {"renew", "refresh"}
    /\ procs[q].op \in {"renew", "refresh", "claim", "writeback"}

ConcurrentNext ==
  \/ CreateTickets
  \/ \E p \in Processes : CoordinatorStep(p)
  \/ \E p \in Processes : WorkerCall(p) /\ ~HeartbeatOverlaps'
  \/ \E w \in Workers : WorkerHeartbeat(w)
  \/ Administration
  \/ DispatchTick

ConcurrentSpec == DispatchInit /\ [][ConcurrentNext]_allVars

(* No action reads audits or accepted, so states that differ only there    *)
(* are one.                                                                *)
MCView == <<workers, leases, agent, leaderRegion, dispatchVars>>

=============================================================================
