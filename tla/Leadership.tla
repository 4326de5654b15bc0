----------------------------- MODULE Leadership -----------------------------
(***************************************************************************)
(* The coordinator's tables with the election services of all nodes, the   *)
(* LeaseReclaimerService of each process, and operators who remove nodes,  *)
(* change their status, purge leases and trigger failovers.                *)
(***************************************************************************)
EXTENDS LeaderElection

VARIABLE reclaim              \* where each reclaim cycle stands

leadershipVars == <<nodes, leaderLeases, epoch, svc, reclaim>>

NoCycle == [at |-> "idle", lease |-> 0]

Cycles == [at : {"idle", "listed", "failover"}, lease : 0..MaxEpoch]

LeadershipTypeOK == HaTypeOK /\ ElectionTypeOK /\ reclaim \in [Nodes -> Cycles]

LeadershipInit ==
  /\ HaInit
  /\ ElectionInit
  /\ reclaim = [n \in Nodes |-> NoCycle]

-----------------------------------------------------------------------------
(* doReclaimCycle.  There is at most one active lease to list.             *)
ReclaimList(n) ==
  /\ svc[n].up /\ reclaim[n].at = "idle"
  /\ \E e \in ActiveLeases :
       /\ leaderLeases[e].left <= 0
       /\ reclaim' = [reclaim EXCEPT ![n] = [at |-> "listed", lease |-> e]]
  /\ UNCHANGED <<haVars, svc>>

(* Within the grace period the lease is passed over.  Otherwise expireLease *)
(* closes it if it is active still, and demotes its node in any case.  The *)
(* clock of a lease closed since it was listed is not kept: it may be past *)
(* its grace period or not.                                                *)
ReclaimExpire(n) ==
  LET e == reclaim[n].lease
      m == leaderLeases[e].node
  IN /\ svc[n].up /\ reclaim[n].at = "listed"
     /\ \/ /\ leaderLeases[e].left > -GracePeriod
           /\ reclaim' = [reclaim EXCEPT ![n] = NoCycle]
           /\ UNCHANGED haVars
        \/ /\ leaderLeases[e].left <= -GracePeriod \/ leaderLeases[e].status # "active"
           /\ reclaim' = [reclaim EXCEPT ![n] =
                 IF nodes[m].isLeader THEN [at |-> "failover", lease |-> 0] ELSE NoCycle]
           /\ leaderLeases' = [leaderLeases EXCEPT ![e].status = IF @ = "active" THEN "expired" ELSE @]
           /\ nodes' = Demoted(m)
           /\ UNCHANGED epoch
     /\ UNCHANGED svc

(* triggerFailover("heartbeat_missing")                                    *)
ReclaimFailover(n) ==
  /\ svc[n].up /\ reclaim[n].at = "failover"
  /\ TriggerFailover
  /\ reclaim' = [reclaim EXCEPT ![n] = NoCycle]
  /\ UNCHANGED svc

ReclaimStep(n) == ReclaimList(n) \/ ReclaimExpire(n) \/ ReclaimFailover(n)

(* A crash takes the reclaimer's cycle with it.                            *)
CrashStep(n) ==
  \/ CrashNode(n) /\ reclaim' = [reclaim EXCEPT ![n] = NoCycle]
  \/ Restart(n) /\ UNCHANGED reclaim

(* What operators do about the leadership ...                              *)
FailoverStep(n) ==
  /\ \/ ManualStep(n)
     \/ PreemptLeadership(n) /\ UNCHANGED svc
     \/ TriggerFailover /\ UNCHANGED svc
     \/ PurgeExpiredLeases /\ UNCHANGED svc
  /\ UNCHANGED reclaim

(* ... and about the nodes.                                                *)
NodeStep(n) ==
  /\ RemoveNode(n) \/ UpdateNodeHeartbeat(n, "draining") \/ PurgeExpiredLeases
  /\ UNCHANGED <<svc, reclaim>>

ClockStep == TimePasses /\ UNCHANGED <<svc, reclaim>>

LeadershipNext ==
  \/ \E n \in Nodes : \/ ElectionStep(n) /\ UNCHANGED reclaim
                      \/ ReclaimStep(n) \/ CrashStep(n)
                      \/ FailoverStep(n) \/ NodeStep(n)
  \/ ClockStep

LeadershipSpec == LeadershipInit /\ [][LeadershipNext]_leadershipVars

-----------------------------------------------------------------------------
(* Properties *)

(* Only the newest epoch has an active lease, there is one leader at most, *)
(* and the lease, if there is one next to a leader, is the leader's:       *)
(* nothing but acquireLeadership keeps leader and lease together, and the  *)
(* reclaimer demotes by what it listed earlier.                            *)
OneLeaderOneLease ==
  /\ \A e \in ActiveLeases : e = epoch
  /\ \A n, m \in Leaders : n = m
  /\ \A n \in Leaders, e \in ActiveLeases : leaderLeases[e].node = n

(* authorizeAction lets the leader act when there is a lease, without      *)
(* asking whose: it is the leader's own, of the newest epoch.              *)
AuthorityIsTheHolders ==
  \A n \in Nodes : AuthorizeAction(n) => leaderLeases[epoch].node = n /\ leaderLeases[epoch].status = "active"

(* Of all services with a token, at most one passes verifyWriteAuthority,  *)
(* whatever they believe of themselves.                                    *)
OneWriter ==
  \A n, m \in Nodes :
    /\ svc[n].token > 0 /\ VerifyWriteAuthority(svc[n].token)
    /\ svc[m].token > 0 /\ VerifyWriteAuthority(svc[m].token)
    => n = m

(* What a service knows of epochs is true of itself: the epoch it saw as   *)
(* its own, the epoch it won and the epoch of its token were given to it.  *)
Owns(n, e) == e \in 1..epoch /\ leaderLeases[e].node = n

TokensAreOwn ==
  \A n \in Nodes :
    /\ svc[n].seen = n => Owns(n, svc[n].seenEpoch)
    /\ svc[n].won # 0 => Owns(n, svc[n].won)
    /\ svc[n].token # 0 => Owns(n, svc[n].token - 1)

(* The inductive invariant of the tables and the services.                 *)
LeadershipInv ==
  /\ LeadershipTypeOK
  /\ \A n \in Nodes : reclaim[n].at = "listed" => reclaim[n].lease \in Epochs
  /\ OneLeaderOneLease
  /\ TokensAreOwn

(* Leadership is a fenced lock on one key: it changes hands only with a    *)
(* token above all there were.                                             *)
LeaseHolder == IF \E e \in ActiveLeases : TRUE THEN leaderLeases[epoch].node ELSE None

Fenced ==
  INSTANCE FencedLock WITH
    Keys <- {"leader"}, Owners <- Nodes, Nobody <- None,
    holder <- [k \in {"leader"} |-> LeaseHolder],
    newest <- [k \in {"leader"} |-> Token(epoch)]

LeadershipIsFenced == Fenced!LockSpec

=============================================================================
