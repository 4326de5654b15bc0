--------------------------- MODULE HaCoordinator ---------------------------
(***************************************************************************)
(* HaCoordinatorService: the tables coordinator_nodes, leadership_leases   *)
(* and leadership_epochs, shared by the processes of all nodes.  Every     *)
(* operation is one transaction.                                           *)
(*                                                                         *)
(* Epochs are numbered without gaps and never deleted, and each has one    *)
(* lease, so a lease is found by its epoch.  left is the time to           *)
(* expires_at; it stops at -GracePeriod, when nothing distinguishes later  *)
(* times.  Node ids are numbers, which gives localeCompare its order.      *)
(* Regions, metadata, failover_decisions, the audit of actions and the     *)
(* columns ended_at and cause of an epoch decide nothing and are left out. *)
(***************************************************************************)
EXTENDS Integers

CONSTANTS Nodes,              \* node ids
          LeaderTtl,          \* leaseTtlMs
          GracePeriod,        \* gracePeriodMs of the lease reclaimer
          MaxEpoch            \* bound on the epochs

ASSUME HaAssumption ==
  /\ Nodes \subseteq Nat \ {0}
  /\ LeaderTtl \in Nat \ {0} /\ GracePeriod \in Nat /\ MaxEpoch \in Nat

VARIABLES nodes,              \* coordinator_nodes
          leaderLeases,       \* leadership_leases, by epoch
          epoch               \* the highest epoch of leadership_epochs

haVars == <<nodes, leaderLeases, epoch>>

None == 0

Epochs == 1..MaxEpoch

NodeRows == [status : {"absent", "active", "draining", "offline"}, isLeader : BOOLEAN]

LeaderLeaseRows ==
  [node : Nodes \cup {None}, left : Int,
   status : {"none", "active", "expired", "released", "deleted"}]

HaTypeOK ==
  /\ nodes \in [Nodes -> NodeRows]
  /\ leaderLeases \in [Epochs -> LeaderLeaseRows]
  /\ epoch \in 0..MaxEpoch

HaInit ==
  /\ nodes = [n \in Nodes |-> [status |-> "absent", isLeader |-> FALSE]]
  /\ leaderLeases = [e \in Epochs |-> [node |-> None, left |-> 0, status |-> "none"]]
  /\ epoch = 0

-----------------------------------------------------------------------------
(* Queries *)

RegisteredNode(n) == nodes[n].status # "absent"

Leaders == {n \in Nodes : nodes[n].isLeader}

(* getCurrentLeader: SELECT ... LIMIT 1                                    *)
CurrentLeader == IF Leaders = {} THEN None ELSE CHOOSE n \in Leaders : TRUE

ActiveLeases == {e \in Epochs : leaderLeases[e].status = "active"}

(* getActiveLease: the epoch of an active lease that has not run out       *)
Unexpired == {e \in ActiveLeases : leaderLeases[e].left > 0}

ActiveLease == IF Unexpired = {} THEN None ELSE CHOOSE e \in Unexpired : TRUE

(* queryLeadership: the leader's id, or None where isLeader is false       *)
LeadershipQuery == IF CurrentLeader = None \/ ActiveLease = None THEN None ELSE CurrentLeader

(* getLatestEpoch().fencingToken; tokens start after                       *)
(* EPOCH_FENCING_TOKEN_START                                               *)
Token(e) == IF e = 0 THEN 0 ELSE e + 1

VerifyWriteAuthority(token) == IF epoch = 0 THEN token >= 0 ELSE token = Token(epoch)

(* authorizeAction for leader_only under strictLeaderAuthority             *)
AuthorizeAction(n) ==
  /\ RegisteredNode(n)
  /\ CurrentLeader = n
  /\ ActiveLease # None

-----------------------------------------------------------------------------
(* Parts of the transactions *)

Demoted(n) == [nodes EXCEPT ![n].isLeader = FALSE]

(* UPDATE leadership_leases SET status = s WHERE node_id = n AND active    *)
Closed(n, s) ==
  [e \in Epochs |-> IF leaderLeases[e].node = n /\ leaderLeases[e].status = "active"
                    THEN [leaderLeases[e] EXCEPT !.status = s] ELSE leaderLeases[e]]

LeaseOf(n) == {e \in ActiveLeases : leaderLeases[e].node = n}

(* The leader is another node with a lease that has not run out.           *)
HeldByAnother(n) ==
  /\ CurrentLeader \notin {None, n}
  /\ nodes[CurrentLeader].status = "active"
  /\ \E e \in LeaseOf(CurrentLeader) : leaderLeases[e].left > 0

(* idx_leadership_leases_single_active refuses a second active lease, and  *)
(* with it the transaction.                                                *)
InsertRefused == \E e \in ActiveLeases : leaderLeases[e].node # CurrentLeader

AcquireThrows(n) == ~RegisteredNode(n) \/ InsertRefused

-----------------------------------------------------------------------------
(* Transactions *)

RegisterNode(n) ==
  /\ nodes' = [nodes EXCEPT ![n].status = "active"]
  /\ UNCHANGED <<leaderLeases, epoch>>

UpdateNodeHeartbeat(n, status) ==
  /\ RegisteredNode(n)
  /\ nodes' = [nodes EXCEPT ![n].status = status]
  /\ UNCHANGED <<leaderLeases, epoch>>

RemoveNode(n) ==
  /\ RegisteredNode(n)
  /\ nodes' = [nodes EXCEPT ![n] = [status |-> "absent", isLeader |-> FALSE]]
  /\ leaderLeases' = [e \in Epochs |->
       [leaderLeases[e] EXCEPT !.status = IF leaderLeases[e].node = n THEN "deleted" ELSE @]]
  /\ UNCHANGED epoch

\* Variant: demotes the leader and leaves its lease.
PromoteKeepingLease(n) ==
  /\ epoch < MaxEpoch
  /\ epoch' = epoch + 1
  /\ leaderLeases' = [leaderLeases EXCEPT ![epoch + 1] =
                  [node |-> n, left |-> LeaderTtl, status |-> "active"]]
  /\ nodes' = [m \in Nodes |-> [nodes[m] EXCEPT !.isLeader = (m = n)]]

\* Variant: gives the lease out again under the epoch it has.
PromoteInEpoch(n) ==
  /\ epoch < MaxEpoch
  /\ epoch' = IF epoch = 0 THEN 1 ELSE epoch
  /\ leaderLeases' = [leaderLeases EXCEPT ![epoch'] =
                  [node |-> n, left |-> LeaderTtl, status |-> "active"]]
  /\ nodes' = [m \in Nodes |-> [nodes[m] EXCEPT
                 !.isLeader = (m = n) \/ (@ /\ m # CurrentLeader)]]

(* The part of acquireLeadership behind its checks.                        *)
Promote(n) ==
  /\ epoch < MaxEpoch
  /\ epoch' = epoch + 1
  /\ leaderLeases' = [Closed(CurrentLeader, "expired") EXCEPT ![epoch + 1] =
                  [node |-> n, left |-> LeaderTtl, status |-> "active"]]
  /\ nodes' = [m \in Nodes |-> [nodes[m] EXCEPT
                 !.isLeader = (m = n) \/ (@ /\ m # CurrentLeader)]]

AcquireLeadership(n) == ~HeldByAnother(n) /\ ~AcquireThrows(n) /\ Promote(n)

PreemptLeadership(n) == ~AcquireThrows(n) /\ Promote(n)

RenewLeadership(n) ==
  /\ RegisteredNode(n)
  /\ ActiveLease # None /\ leaderLeases[ActiveLease].node = n
  /\ leaderLeases' = [leaderLeases EXCEPT ![ActiveLease].left = LeaderTtl]
  /\ UNCHANGED <<nodes, epoch>>

ReleaseLeadership(n) ==
  IF nodes[n].isLeader
  THEN /\ leaderLeases' = Closed(n, "released")
       /\ nodes' = Demoted(n)
       /\ UNCHANGED epoch
  ELSE UNCHANGED haVars

(* triggerFailover without forceNodeId: the active node with the lowest id *)
(* that is not the leader.                                                 *)
Candidates == {n \in Nodes : nodes[n].status = "active" /\ n # CurrentLeader}

TriggerFailover ==
  IF Candidates = {} \/ InsertRefused
  THEN UNCHANGED haVars
  ELSE Promote(CHOOSE n \in Candidates : \A m \in Candidates : n <= m)

PurgeExpiredLeases ==
  /\ \E e \in ActiveLeases : leaderLeases[e].left <= 0
  /\ leaderLeases' = [e \in Epochs |->
       IF e \in ActiveLeases /\ leaderLeases[e].left <= 0
       THEN [leaderLeases[e] EXCEPT !.status = "expired"] ELSE leaderLeases[e]]
  /\ UNCHANGED <<nodes, epoch>>

TimePasses ==
  /\ \E e \in ActiveLeases : leaderLeases[e].left > -GracePeriod
  /\ leaderLeases' = [e \in Epochs |->
       IF e \in ActiveLeases /\ leaderLeases[e].left > -GracePeriod
       THEN [leaderLeases[e] EXCEPT !.left = @ - 1] ELSE leaderLeases[e]]
  /\ UNCHANGED <<nodes, epoch>>

=============================================================================
