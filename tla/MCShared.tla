------------------------------ MODULE MCShared --------------------------------
(***************************************************************************)
(* The tables that several callers work on at a time, side by side: the    *)
(* lock table, a budget ledger, the leadership of a cluster, the           *)
(* idempotency keys of the HTTP server, the partitions of the event bus,   *)
(* and the rows of a task an operator has taken over.  They share no       *)
(* state, so part says at the start which of them moves, and the others    *)
(* keep their initial state.                                               *)
(*                                                                         *)
(* Leadership is three parts: crashes, where one node crashes and the      *)
(* other reclaims, failovers, where an operator moves the leadership, and  *)
(* removals, where an operator drains and removes a node.                  *)
(***************************************************************************)
EXTENDS MCSqliteLock, MCBudget, Leadership, IdempotencyKey, PartitionQueue,
        Takeover

VARIABLE part

Parts ==
  {"lock", "budget", "crashes", "failovers", "removals", "idempotency", "partitions",
   "takeover"}

LeaderParts == {"crashes", "failovers", "removals"}

SharedInit ==
  /\ part \in Parts
  /\ AdapterInit /\ BudgetInit
  /\ LeadershipInit /\ IdempotencyInit /\ PartitionInit
  /\ TakeoverInit

LeadershipPart ==
  \/ \E n \in Nodes : ElectionStep(n) /\ UNCHANGED reclaim
  \/ ClockStep
  \/ part = "crashes" /\ (CrashStep(1) \/ ReclaimStep(2))
  \/ part = "failovers" /\ FailoverStep(1)
  \/ part = "removals" /\ NodeStep(1)

SharedNext ==
  /\ UNCHANGED part
  /\ \/ part = "lock" /\ AdapterNext
     \/ part # "lock" /\ UNCHANGED lockVars
  /\ \/ part = "budget" /\ ReserveNext
     \/ part # "budget" /\ UNCHANGED budgetVars
  /\ \/ part \in LeaderParts /\ LeadershipPart
     \/ part \notin LeaderParts /\ UNCHANGED leadershipVars
  /\ \/ part = "idempotency" /\ IdempotencyNext
     \/ part # "idempotency" /\ UNCHANGED idempotencyVars
  /\ \/ part = "partitions" /\ PartitionNext
     \/ part # "partitions" /\ UNCHANGED partitionVars
  /\ \/ part = "takeover" /\ TakeoverNext
     \/ part # "takeover" /\ UNCHANGED <<vars, takeoverVars>>

sharedVars ==
  <<part, lockVars, budgetVars, leadershipVars, idempotencyVars, partitionVars,
    vars, takeoverVars>>

SharedSpec == SharedInit /\ [][SharedNext]_sharedVars

(* The inductive invariants of the components: the lock table's counter    *)
(* stays ahead of every token drawn; a copy of the ledger that would pass  *)
(* the version check is the ledger; tokens and won epochs are those a node *)
(* was given, and only the node that holds the lease has write authority;  *)
(* the entry of a key is that of the request being handled or answered;    *)
(* the workflow of a task follows the verdict of an operator.              *)
SharedInv ==
  /\ LeadershipInv /\ PartitionTypeOK
  /\ LockInv /\ ReserveInv /\ AuthorityIsTheHolders
  /\ TakeoverInv /\ IdempotencyInv

=============================================================================
