-------------------------- MODULE FencedOwnership ---------------------------
(***************************************************************************)
(* What the lease service promises to the rest of the platform: every      *)
(* execution has at most one owner, ownership is granted in epochs that    *)
(* only grow, and a write is stamped with the epoch of the present owner.  *)
(***************************************************************************)
EXTENDS Naturals

CONSTANTS Executions, Workers, Nobody

VARIABLES owner,    \* the worker that may write, or Nobody
          epoch,    \* number of grants so far
          written   \* epoch of the last write that was let through

ownershipVars == <<owner, epoch, written>>

Init ==
  /\ owner = [e \in Executions |-> Nobody]
  /\ epoch = [e \in Executions |-> 0]
  /\ written = [e \in Executions |-> 0]

(* A new grant opens a new epoch, whether the execution was free, its      *)
(* owner had run out of time, or the owner handed it over.                 *)
Grant(e, w) ==
  /\ owner' = [owner EXCEPT ![e] = w]
  /\ epoch' = [epoch EXCEPT ![e] = @ + 1]
  /\ UNCHANGED written

Drop(S) ==
  /\ owner' = [e \in Executions |-> IF e \in S THEN Nobody ELSE owner[e]]
  /\ UNCHANGED <<epoch, written>>

Write(e) ==
  /\ owner[e] # Nobody
  /\ written' = [written EXCEPT ![e] = epoch[e]]
  /\ UNCHANGED <<owner, epoch>>

Next ==
  \/ \E e \in Executions, w \in Workers : Grant(e, w)
  \/ \E S \in SUBSET Executions : Drop(S)
  \/ \E e \in Executions : Write(e)

Spec == Init /\ [][Next]_ownershipVars

=============================================================================
