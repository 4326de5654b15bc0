---------------------------- MODULE WorkerContact ----------------------------
(***************************************************************************)
(* ExecutionDispatch with a history variable: how long ago each worker     *)
(* itself last called in, as opposed to how long ago its snapshot was last *)
(* stamped.  Handover, reclaim and reconciliation stamp the snapshots of   *)
(* workers that said nothing.                                              *)
(***************************************************************************)
EXTENDS ExecutionDispatch

VARIABLE unheard              \* ticks since the worker's own last call

contactVars == <<allVars, unheard>>

(* The workers whose claim, heartbeat or writeback a process takes up.     *)
Calling ==
  {leases[procs'[p].lease].workerId :
     p \in {q \in Processes : procs[q] = Idle /\ procs'[q].op \in {"claim", "renew", "writeback"}}}

ContactInit == DispatchInit /\ unheard = [w \in Workers |-> 0]

ContactNext ==
  \/ \E w \in Workers :
       WorkerHeartbeat(w) /\ unheard' = [unheard EXCEPT ![w] = 0]
  \/ /\ CreateTickets \/ Administration \/ \E p \in Processes : StepOf(p)
     /\ unheard' = [w \in Workers |-> IF w \in Calling THEN 0 ELSE unheard[w]]
  \/ /\ DispatchTick
     /\ unheard' = [w \in Workers |-> IF unheard[w] < MaxSilence THEN unheard[w] + 1
                                       ELSE unheard[w]]

ContactSpec == ContactInit /\ [][ContactNext]_contactVars

(* dispatchNext only picks a worker that has itself been heard of within   *)
(* the heartbeat threshold, as the staleness check of                      *)
(* evaluateWorkersForTicket announces.                                     *)
OnlyHeardWorkersSelected ==
  [][\A p \in Processes :
       procs[p].op = "dispatch" /\ procs'[p].op = "grant"
       => unheard[procs'[p].worker] + procs'[p].at <= HeartbeatTtl]_contactVars

=============================================================================
