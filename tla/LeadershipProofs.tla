-------------------------- MODULE LeadershipProofs --------------------------
(***************************************************************************)
(* Leadership is a fenced lock, for any nodes, times to live and number of *)
(* epochs.  The argument: a transaction either gives the lease of a new    *)
(* epoch out, after closing that of the one leader there is, or only       *)
(* closes and demotes (HaStep); the node of an epoch never changes, so     *)
(* what a service has once seen, won or been given stays its own.          *)
(***************************************************************************)
EXTENDS Leadership, WellFoundedInduction, TLAPS

(* What the lease of the newest epoch may do in a step.                    *)
LeaseMoves ==
  \/ epoch' = epoch /\ LeaseHolder' \in {LeaseHolder, None}
  \/ epoch' = epoch + 1 /\ LeaseHolder' \in Nodes

(* Epochs, and the node each was given to, stay.                           *)
EpochsKept ==
  /\ epoch' >= epoch
  /\ \A e \in 1..epoch : leaderLeases'[e].node = leaderLeases[e].node

(* What every transaction of the coordinator does.                         *)
HaStep == HaTypeOK' /\ OneLeaderOneLease' /\ LeaseMoves /\ EpochsKept

HaOK == HaTypeOK /\ OneLeaderOneLease

-----------------------------------------------------------------------------
(* The queries *)

LEMMA LeaderFacts ==
  ASSUME HaOK
  PROVE  /\ Leaders # {} => CurrentLeader \in Leaders /\ Leaders = {CurrentLeader}
         /\ Leaders = {} => CurrentLeader = None
         /\ CurrentLeader # None => CurrentLeader \in Leaders
  BY DEF HaOK, OneLeaderOneLease, CurrentLeader

LEMMA ActiveLeaseFacts ==
  ASSUME HaOK, ActiveLease # None
  PROVE  ActiveLease = epoch /\ epoch \in ActiveLeases /\ epoch \in Epochs
<1>1. ActiveLease \in Unexpired
  BY DEF ActiveLease
<1> QED  BY <1>1 DEF Unexpired, ActiveLeases, HaOK, OneLeaderOneLease

(* queryLeadership names the node the newest epoch was given to.           *)
LEMMA QueryFacts ==
  ASSUME HaOK, LeadershipQuery # None
  PROVE  LeadershipQuery \in Nodes /\ Owns(LeadershipQuery, epoch)
<1>1. CurrentLeader # None /\ ActiveLease # None /\ LeadershipQuery = CurrentLeader
  BY DEF LeadershipQuery
<1>2. CurrentLeader \in Leaders
  BY <1>1, LeaderFacts
<1>3. epoch \in ActiveLeases /\ epoch \in Epochs
  BY <1>1, ActiveLeaseFacts
<1>4. epoch \in 1..epoch
  BY <1>3, HaAssumption DEF HaOK, HaTypeOK, Epochs
<1> QED  BY <1>1, <1>2, <1>3, <1>4 DEF Owns, HaOK, OneLeaderOneLease, Leaders

LEMMA LowestCandidate ==
  ASSUME Candidates # {}
  PROVE  (CHOOSE n \in Candidates : \A m \in Candidates : n <= m) \in Candidates
<1>1. Candidates \subseteq Nat
  BY HaAssumption DEF Candidates
<1> DEFINE R == OpToRel(<, Nat)
<1>2. IsWellFoundedOn(R, Nat)
  BY NatLessThanWellFounded
<1> HIDE DEF R
<1>3. PICK n \in Candidates : \A m \in Candidates : ~(<<m, n>> \in R)
  BY <1>1, <1>2, WFMin
<1>4. ASSUME NEW m \in Candidates PROVE n <= m
  <2>1. ~(m < n)
    BY <1>1, <1>3 DEF R, OpToRel
  <2> QED  BY <1>1, <2>1
<1> QED  BY <1>4

-----------------------------------------------------------------------------
(* The transactions *)

(* Steps that leave epochs and nodes of leases alone, activate no lease    *)
(* and make no leader.                                                     *)
LEMMA OnlyCloses ==
  ASSUME HaOK, HaTypeOK', epoch' = epoch,
         \A e \in Epochs : /\ leaderLeases'[e].node = leaderLeases[e].node
                           /\ leaderLeases'[e].status = "active" => leaderLeases[e].status = "active",
         \A n \in Nodes : nodes'[n].isLeader => nodes[n].isLeader
  PROVE  HaStep
<1>1. ActiveLeases' \subseteq ActiveLeases /\ Leaders' \subseteq Leaders
  BY DEF ActiveLeases, Leaders
<1>2. OneLeaderOneLease'
  BY <1>1 DEF HaOK, OneLeaderOneLease, ActiveLeases
<1>3. LeaseMoves
  BY <1>1 DEF LeaseMoves, LeaseHolder, HaOK, OneLeaderOneLease, ActiveLeases
<1>4. EpochsKept
  <2>1. epoch \in Int /\ 1..epoch \subseteq Epochs
    BY HaAssumption DEF HaOK, HaTypeOK, Epochs
  <2> QED  BY <2>1 DEF EpochsKept
<1> QED  BY <1>2, <1>3, <1>4 DEF HaStep

LEMMA HaUnchanged ==
  ASSUME HaOK, UNCHANGED haVars
  PROVE  HaStep
<1>1. HaTypeOK'
  BY DEF HaOK, HaTypeOK, haVars
<1> QED  BY <1>1, OnlyCloses DEF haVars

LEMMA StatusStep ==
  ASSUME HaOK, NEW n \in Nodes, NEW s \in {"active", "draining", "offline"},
         nodes' = [nodes EXCEPT ![n].status = s], UNCHANGED <<leaderLeases, epoch>>
  PROVE  HaStep
<1>1. HaTypeOK'
  BY DEF HaOK, HaTypeOK, NodeRows
<1>2. \A m \in Nodes : nodes'[m].isLeader = nodes[m].isLeader
  BY DEF HaOK, HaTypeOK, NodeRows
<1> QED  BY <1>1, <1>2, OnlyCloses

LEMMA RemoveNodeStep ==
  ASSUME HaOK, NEW n \in Nodes, RemoveNode(n)
  PROVE  HaStep
<1>1. HaTypeOK'
  BY DEF HaOK, HaTypeOK, NodeRows, LeaderLeaseRows, RemoveNode
<1>2. \A m \in Nodes : nodes'[m].isLeader => nodes[m].isLeader
  BY DEF HaOK, HaTypeOK, NodeRows, RemoveNode
<1>3. \A e \in Epochs : /\ leaderLeases'[e].node = leaderLeases[e].node
                        /\ leaderLeases'[e].status = "active" => leaderLeases[e].status = "active"
  BY DEF HaOK, HaTypeOK, LeaderLeaseRows, RemoveNode
<1> QED  BY <1>1, <1>2, <1>3, OnlyCloses DEF RemoveNode

(* acquireLeadership and preemptLeadership behind their checks: the one    *)
(* leader is demoted, its lease closed, and the insert adds the only       *)
(* active lease there is then.                                             *)
LEMMA PromoteStep ==
  ASSUME HaOK, NEW n \in Nodes, ~InsertRefused, Promote(n)
  PROVE  HaStep /\ epoch' = epoch + 1 /\ Owns(n, epoch)'
<1>1. epoch \in 0..MaxEpoch /\ MaxEpoch \in Nat /\ epoch < MaxEpoch /\ epoch' = epoch + 1
      /\ epoch + 1 \in Epochs
  BY HaAssumption DEF HaOK, HaTypeOK, Promote, Epochs
<1>2. /\ leaderLeases'[epoch + 1] = [node |-> n, left |-> LeaderTtl, status |-> "active"]
      /\ \A e \in Epochs \ {epoch + 1} :
           leaderLeases'[e] = IF leaderLeases[e].node = CurrentLeader /\ leaderLeases[e].status = "active"
                              THEN [leaderLeases[e] EXCEPT !.status = "expired"] ELSE leaderLeases[e]
      /\ leaderLeases' \in [Epochs -> LeaderLeaseRows]
  <2>1. [node |-> n, left |-> LeaderTtl, status |-> "active"] \in LeaderLeaseRows
    BY HaAssumption DEF LeaderLeaseRows
  <2>2. \A e \in Epochs : Closed(CurrentLeader, "expired")[e] \in LeaderLeaseRows
    BY DEF HaOK, HaTypeOK, LeaderLeaseRows, Closed
  <2> QED  BY <1>1, <2>1, <2>2 DEF Promote, Closed
<1>3. ActiveLeases' = {epoch + 1}
  BY <1>1, <1>2 DEF ActiveLeases, InsertRefused, HaOK, HaTypeOK, LeaderLeaseRows
<1>4. /\ nodes' \in [Nodes -> NodeRows]
      /\ \A m \in Nodes : nodes'[m].isLeader <=> (m = n \/ (nodes[m].isLeader /\ m # CurrentLeader))
  BY DEF Promote, HaOK, HaTypeOK, NodeRows
<1>5. Leaders' = {n}
  BY <1>4, LeaderFacts DEF Leaders
<1>6. HaTypeOK'
  BY <1>1, <1>2, <1>4 DEF HaTypeOK
<1>7. OneLeaderOneLease'
  BY <1>1, <1>2, <1>3, <1>5 DEF OneLeaderOneLease
<1>8. LeaseMoves
  BY <1>1, <1>2, <1>3 DEF LeaseMoves, LeaseHolder
<1>9. EpochsKept
  <2>1. \A e \in 1..epoch : e \in Epochs \ {epoch + 1}
    BY <1>1 DEF Epochs
  <2> QED  BY <1>1, <1>2, <2>1 DEF EpochsKept, HaOK, HaTypeOK, LeaderLeaseRows
<1>10. Owns(n, epoch)'
  BY <1>1, <1>2 DEF Owns
<1> QED  BY <1>1, <1>6, <1>7, <1>8, <1>9, <1>10 DEF HaStep

(* All that a step of a service or an operator may do to the tables.       *)
HaOperation(n) ==
  \/ RegisterNode(n) \/ RemoveNode(n)
  \/ UpdateNodeHeartbeat(n, "active") \/ UpdateNodeHeartbeat(n, "draining")
  \/ AcquireLeadership(n) \/ PreemptLeadership(n) \/ RenewLeadership(n)
  \/ ReleaseLeadership(n) \/ TriggerFailover \/ PurgeExpiredLeases
  \/ UNCHANGED haVars

LEMMA HaOperationStep ==
  ASSUME HaOK, NEW n \in Nodes, HaOperation(n)
  PROVE  HaStep
<1>1. CASE RegisterNode(n)
  BY <1>1, StatusStep DEF RegisterNode
<1>2. CASE RemoveNode(n)
  BY <1>2, RemoveNodeStep
<1>3. CASE UpdateNodeHeartbeat(n, "active")
  BY <1>3, StatusStep DEF UpdateNodeHeartbeat
<1>4. CASE UpdateNodeHeartbeat(n, "draining")
  BY <1>4, StatusStep DEF UpdateNodeHeartbeat
<1>5. CASE AcquireLeadership(n) \/ PreemptLeadership(n)
  BY <1>5, PromoteStep DEF AcquireLeadership, PreemptLeadership, AcquireThrows
<1>6. CASE RenewLeadership(n)
  <2>1. ActiveLease \in Epochs
    BY <1>6, ActiveLeaseFacts DEF RenewLeadership
  <2>2. HaTypeOK'
    BY <1>6, <2>1, HaAssumption DEF RenewLeadership, HaOK, HaTypeOK, LeaderLeaseRows
  <2>3. \A e \in Epochs : /\ leaderLeases'[e].node = leaderLeases[e].node
                          /\ leaderLeases'[e].status = leaderLeases[e].status
    BY <1>6, <2>1 DEF RenewLeadership, HaOK, HaTypeOK, LeaderLeaseRows
  <2> QED  BY <1>6, <2>2, <2>3, OnlyCloses DEF RenewLeadership
<1>7. CASE ReleaseLeadership(n)
  <2>1. CASE ~nodes[n].isLeader
    BY <1>7, <2>1, HaUnchanged DEF ReleaseLeadership
  <2>2. CASE nodes[n].isLeader
    <3>1. leaderLeases' = Closed(n, "released") /\ nodes' = Demoted(n) /\ epoch' = epoch
      BY <1>7, <2>2 DEF ReleaseLeadership
    <3>2. HaTypeOK'
      BY <3>1 DEF Closed, Demoted, HaOK, HaTypeOK, NodeRows, LeaderLeaseRows
    <3>3. \A e \in Epochs : /\ leaderLeases'[e].node = leaderLeases[e].node
                            /\ leaderLeases'[e].status = "active" => leaderLeases[e].status = "active"
      BY <3>1 DEF Closed, HaOK, HaTypeOK, LeaderLeaseRows
    <3>4. \A m \in Nodes : nodes'[m].isLeader => nodes[m].isLeader
      BY <3>1 DEF Demoted, HaOK, HaTypeOK, NodeRows
    <3> QED  BY <3>1, <3>2, <3>3, <3>4, OnlyCloses
  <2> QED  BY <2>1, <2>2
<1>8. CASE TriggerFailover
  <2>1. CASE Candidates = {} \/ InsertRefused
    BY <1>8, <2>1, HaUnchanged DEF TriggerFailover
  <2>2. CASE ~(Candidates = {} \/ InsertRefused)
    <3>1. PICK m \in Candidates : Promote(m)
      BY <1>8, <2>2, LowestCandidate DEF TriggerFailover
    <3> QED  BY <2>2, <3>1, PromoteStep DEF Candidates
  <2> QED  BY <2>1, <2>2
<1>9. CASE PurgeExpiredLeases
  <2>1. HaTypeOK'
    BY <1>9 DEF PurgeExpiredLeases, HaOK, HaTypeOK, LeaderLeaseRows
  <2>2. \A e \in Epochs : /\ leaderLeases'[e].node = leaderLeases[e].node
                          /\ leaderLeases'[e].status = "active" => leaderLeases[e].status = "active"
    BY <1>9 DEF PurgeExpiredLeases, HaOK, HaTypeOK, LeaderLeaseRows
  <2> QED  BY <1>9, <2>1, <2>2, OnlyCloses DEF PurgeExpiredLeases
<1>10. CASE UNCHANGED haVars
  BY <1>10, HaUnchanged
<1> QED
  BY <1>1, <1>2, <1>3, <1>4, <1>5, <1>6, <1>7, <1>8, <1>9, <1>10 DEF HaOperation

LEMMA TimePassesStep ==
  ASSUME HaOK, TimePasses
  PROVE  HaStep
<1>1. HaTypeOK'
  BY HaAssumption DEF TimePasses, HaOK, HaTypeOK, LeaderLeaseRows
<1>2. \A e \in Epochs : /\ leaderLeases'[e].node = leaderLeases[e].node
                        /\ leaderLeases'[e].status = leaderLeases[e].status
  BY DEF TimePasses, HaOK, HaTypeOK, LeaderLeaseRows
<1> QED  BY <1>1, <1>2, OnlyCloses DEF TimePasses

-----------------------------------------------------------------------------
(* The services *)

(* The epochs given to n, and that the tokens of a service are among them. *)
OwnEpochs(n) == {e \in 1..epoch : leaderLeases[e].node = n}

TokensAmong(n, s, own) ==
  /\ s.seen = n => s.seenEpoch \in own
  /\ s.won # 0 => s.won \in own
  /\ s.token # 0 => s.token - 1 \in own

LEMMA OwnEpochsGrow ==
  ASSUME HaOK, EpochsKept, HaTypeOK', NEW n \in Nodes
  PROVE  OwnEpochs(n) \subseteq OwnEpochs(n)'
  BY HaAssumption DEF OwnEpochs, EpochsKept, HaOK, HaTypeOK

(* A step of the service of n: what it holds afterwards is its own.        *)
LEMMA ServiceStep ==
  ASSUME LeadershipInv, HaStep, NEW n \in Nodes, NEW s \in Services,
         NodeBecomes(n, s), TokensAmong(n, s, OwnEpochs(n)')
  PROVE  ElectionTypeOK' /\ TokensAreOwn'
<1>1. ElectionTypeOK'
  BY DEF LeadershipInv, LeadershipTypeOK, ElectionTypeOK, NodeBecomes
<1>2. ASSUME NEW m \in Nodes
      PROVE  TokensAmong(m, svc[m], OwnEpochs(m)')
  <2>1. TokensAmong(m, svc[m], OwnEpochs(m))
    BY DEF LeadershipInv, TokensAreOwn, TokensAmong, Owns, OwnEpochs
  <2>2. OwnEpochs(m) \subseteq OwnEpochs(m)'
    BY OwnEpochsGrow DEF HaStep, HaOK, LeadershipInv, LeadershipTypeOK
  <2> QED  BY <2>1, <2>2 DEF TokensAmong
<1>3. \A m \in Nodes : TokensAmong(m, svc'[m], OwnEpochs(m)')
  BY <1>2 DEF NodeBecomes, LeadershipInv, LeadershipTypeOK, ElectionTypeOK
<1> QED  BY <1>1, <1>3 DEF TokensAreOwn, TokensAmong, Owns, OwnEpochs

LEMMA ServicesUnchanged ==
  ASSUME LeadershipInv, HaStep, UNCHANGED svc
  PROVE  ElectionTypeOK' /\ TokensAreOwn'
<1>1. ASSUME NEW m \in Nodes
      PROVE  OwnEpochs(m) \subseteq OwnEpochs(m)'
  BY OwnEpochsGrow DEF HaStep, HaOK, LeadershipInv, LeadershipTypeOK
<1>2. \A m \in Nodes : TokensAmong(m, svc[m], OwnEpochs(m))
  BY DEF LeadershipInv, TokensAreOwn, TokensAmong, Owns, OwnEpochs
<1>3. \A m \in Nodes : TokensAmong(m, svc'[m], OwnEpochs(m)')
  BY <1>1, <1>2 DEF TokensAmong
<1> QED
  BY <1>3 DEF TokensAreOwn, TokensAmong, Owns, OwnEpochs,
       LeadershipInv, LeadershipTypeOK, ElectionTypeOK

(* What the parts of an election make of a service.                        *)
LEMMA QueriedService ==
  ASSUME HaOK, NEW n \in Nodes, NEW s \in Services, NEW own,
         OwnEpochs(n) \subseteq own, TokensAmong(n, s, own)
  PROVE  Queried(n, s) \in Services /\ TokensAmong(n, Queried(n, s), own)
<1>1. LeadershipQuery \in Nodes \cup {None} /\ epoch \in 0..MaxEpoch /\ MaxEpoch \in Nat
  BY QueryFacts, HaAssumption DEF HaOK, HaTypeOK
<1>2. LeadershipQuery = n => epoch \in OwnEpochs(n)
  <2>1. n # None
    BY HaAssumption DEF None
  <2> QED  BY <2>1, QueryFacts DEF Owns, OwnEpochs
<1>3. (IF s.attempts < MaxElectionAttempts THEN s.attempts + 1 ELSE s.attempts) \in 0..MaxElectionAttempts
  BY ElectionAssumption DEF Services
<1>4. (IF LeadershipQuery = n THEN epoch ELSE 0) \in 0..MaxEpoch
  BY <1>1
<1>5. Queried(n, s) \in Services
  BY <1>1, <1>3, <1>4 DEF Services, Queried
<1>6. TokensAmong(n, Queried(n, s), own)
  BY <1>2 DEF Queried, TokensAmong, Services
<1> QED  BY <1>5, <1>6

LEMMA LeadingService ==
  ASSUME NEW n \in Nodes, NEW s \in Services, NEW own, TokensAmong(n, s, own),
         NEW lease \in BOOLEAN, NEW e \in 1..MaxEpoch, e \in own
  PROVE  /\ Leading(s, lease, Token(e)) \in Services
         /\ TokensAmong(n, Leading(s, lease, Token(e)), own)
<1>1. Token(e) \in 0..MaxEpoch + 1 /\ Token(e) - 1 = e
  BY HaAssumption DEF Token
<1>2. 0 \in 0..MaxElectionAttempts
  BY ElectionAssumption
<1>3. Leading(s, lease, Token(e)) \in Services
  BY <1>1, <1>2 DEF Leading, Services
<1>4. TokensAmong(n, Leading(s, lease, Token(e)), own)
  BY <1>1 DEF Leading, Services, TokensAmong
<1> QED  BY <1>3, <1>4

LEMMA FollowingService ==
  ASSUME NEW n \in Nodes, NEW s \in Services, NEW own, TokensAmong(n, s, own)
  PROVE  Following(s) \in Services /\ TokensAmong(n, Following(s), own)
<1>1. (IF s.attempts < MaxElectionAttempts THEN s.retries + 1 ELSE s.retries) \in Nat
  BY DEF Services
<1>2. Following(s) \in Services
  BY <1>1 DEF Following, Services
<1>3. TokensAmong(n, Following(s), own)
  BY DEF Following, Services, TokensAmong
<1> QED  BY <1>2, <1>3

LEMMA SettledService ==
  ASSUME NEW n \in Nodes, NEW s \in Services, NEW own, TokensAmong(n, s, own)
  PROVE  Settled(s) \in Services /\ TokensAmong(n, Settled(s), own)
<1>1. 0 \in 0..MaxEpoch /\ n # None
  BY HaAssumption DEF None
<1>2. Settled(s) \in Services
  BY <1>1 DEF Settled, Services
<1>3. TokensAmong(n, Settled(s), own)
  BY <1>1 DEF Settled, Services, TokensAmong
<1> QED  BY <1>2, <1>3

LEMMA FreshService ==
  ASSUME NEW n \in Nodes, NEW own
  PROVE  /\ Fresh \in Services /\ TokensAmong(n, Fresh, own)
         /\ [Fresh EXCEPT !.up = FALSE] \in Services
         /\ TokensAmong(n, [Fresh EXCEPT !.up = FALSE], own)
<1>1. 0 \in 0..MaxEpoch /\ 0 \in 0..MaxEpoch + 1 /\ 0 \in 0..MaxElectionAttempts /\ n # None
  BY HaAssumption, ElectionAssumption DEF None
<1>2. Fresh \in Services
  BY <1>1 DEF Fresh, Services
<1>3. [Fresh EXCEPT !.up = FALSE] \in Services
  BY <1>1 DEF Fresh, Services
<1>4. TokensAmong(n, Fresh, own) /\ TokensAmong(n, [Fresh EXCEPT !.up = FALSE], own)
  BY <1>1 DEF Fresh, TokensAmong
<1> QED  BY <1>2, <1>3, <1>4

-----------------------------------------------------------------------------
(* The inductive invariant, step by step *)

(* What each step does to tables and services.                             *)
GoodStep == HaStep /\ ElectionTypeOK' /\ TokensAreOwn'

LEMMA InvFacts ==
  ASSUME LeadershipInv
  PROVE  /\ HaOK
         /\ \A n \in Nodes : svc[n] \in Services /\ TokensAmong(n, svc[n], OwnEpochs(n))
  BY DEF LeadershipInv, LeadershipTypeOK, HaOK, ElectionTypeOK, TokensAreOwn,
         TokensAmong, Owns, OwnEpochs

(* A step in which a service takes the tokens it had, or fewer.            *)
LEMMA ServiceKeepsTokens ==
  ASSUME LeadershipInv, HaStep, NEW n \in Nodes, NEW s \in Services,
         NodeBecomes(n, s), TokensAmong(n, s, OwnEpochs(n))
  PROVE  GoodStep
<1>1. OwnEpochs(n) \subseteq OwnEpochs(n)'
  BY InvFacts, OwnEpochsGrow DEF HaStep
<1>2. TokensAmong(n, s, OwnEpochs(n)')
  BY <1>1 DEF TokensAmong
<1> QED  BY <1>2, ServiceStep DEF GoodStep

LEMMA StartStep ==
  ASSUME LeadershipInv, NEW n \in Nodes, Start(n)
  PROVE  GoodStep
<1> DEFINE s == [svc[n] EXCEPT !.beating = TRUE, !.state = "candidate"]
           t == IF s.attempt = "none" THEN Queried(n, s) ELSE s
<1>1. HaStep
  BY InvFacts, HaOperationStep DEF Start, HaOperation
<1>2. s \in Services
  BY InvFacts DEF Services
<1>3. TokensAmong(n, s, OwnEpochs(n))
  BY InvFacts DEF Services, TokensAmong
<1> HIDE DEF s
<1>4. t \in Services /\ TokensAmong(n, t, OwnEpochs(n))
  BY <1>2, <1>3, InvFacts, QueriedService
<1>5. NodeBecomes(n, t)
  BY DEF Start, s
<1> HIDE DEF t
<1> QED  BY <1>1, <1>4, <1>5, ServiceKeepsTokens

LEMMA RetryStep ==
  ASSUME LeadershipInv, NEW n \in Nodes, Retry(n)
  PROVE  GoodStep
<1> DEFINE s == [svc[n] EXCEPT !.retries = @ - 1]
           t == IF s.state = "follower" /\ s.attempt = "none" THEN Queried(n, s) ELSE s
<1>1. HaStep
  BY InvFacts, HaOperationStep DEF Retry, HaOperation
<1>2. svc[n].retries - 1 \in Nat
  BY InvFacts DEF Services, Retry
<1>3. s \in Services
  BY <1>2, InvFacts DEF Services
<1>4. TokensAmong(n, s, OwnEpochs(n))
  BY InvFacts DEF Services, TokensAmong
<1> HIDE DEF s
<1>5. t \in Services /\ TokensAmong(n, t, OwnEpochs(n))
  BY <1>3, <1>4, InvFacts, QueriedService
<1>6. NodeBecomes(n, t)
  BY DEF Retry, s
<1> HIDE DEF t
<1> QED  BY <1>1, <1>5, <1>6, ServiceKeepsTokens

LEMMA DeferStep ==
  ASSUME LeadershipInv, NEW n \in Nodes, Defer(n)
  PROVE  GoodStep
<1> DEFINE s == IF svc[n].seen = n
                THEN Leading(svc[n], ActiveLease # None, Token(svc[n].seenEpoch))
                ELSE [svc[n] EXCEPT !.state = "follower"]
<1>1. HaStep
  BY InvFacts, HaOperationStep DEF Defer, HaOperation
<1>2. ASSUME svc[n].seen = n
      PROVE  s \in Services /\ TokensAmong(n, s, OwnEpochs(n))
  <2>1. svc[n].seenEpoch \in OwnEpochs(n) /\ svc[n].seenEpoch \in 1..MaxEpoch
    BY <1>2, InvFacts, HaAssumption DEF TokensAmong, OwnEpochs, HaOK, HaTypeOK
  <2>2. (ActiveLease # None) \in BOOLEAN
    OBVIOUS
  <2> HIDE DEF s
  <2>3. s = Leading(svc[n], ActiveLease # None, Token(svc[n].seenEpoch))
    BY <1>2 DEF s
  <2> QED  BY <2>1, <2>2, <2>3, InvFacts, LeadingService
<1>3. ASSUME svc[n].seen # n
      PROVE  s \in Services /\ TokensAmong(n, s, OwnEpochs(n))
  BY <1>3, InvFacts DEF Services, TokensAmong
<1>4. s \in Services /\ TokensAmong(n, s, OwnEpochs(n))
  BY <1>2, <1>3
<1>5. NodeBecomes(n, Settled(s))
  BY DEF Defer
<1> HIDE DEF s
<1> QED  BY <1>1, <1>4, <1>5, SettledService, ServiceKeepsTokens

LEMMA TryAcquireStep ==
  ASSUME LeadershipInv, NEW n \in Nodes, TryAcquire(n)
  PROVE  GoodStep
<1>1. CASE AcquireLeadership(n) /\ NodeBecomes(n, [svc[n] EXCEPT !.attempt = "acquired", !.won = epoch'])
  <2> DEFINE s == [svc[n] EXCEPT !.attempt = "acquired", !.won = epoch']
  <2>1. HaStep /\ epoch' \in OwnEpochs(n)'
    BY <1>1, InvFacts, PromoteStep DEF AcquireLeadership, AcquireThrows, Owns, OwnEpochs
  <2>2. OwnEpochs(n) \subseteq OwnEpochs(n)'
    BY <2>1, InvFacts, OwnEpochsGrow DEF HaStep
  <2>3. s \in Services
    BY <2>1, InvFacts DEF Services, HaStep, HaTypeOK
  <2>4. TokensAmong(n, s, OwnEpochs(n)')
    BY <2>1, <2>2, InvFacts DEF Services, TokensAmong
  <2> QED  BY <1>1, <2>1, <2>3, <2>4, ServiceStep DEF GoodStep
<1>2. CASE NodeBecomes(n, [svc[n] EXCEPT !.attempt = "acquired", !.won = 0]) /\ UNCHANGED haVars
  <2> DEFINE s == [svc[n] EXCEPT !.attempt = "acquired", !.won = 0]
  <2>1. HaStep
    BY <1>2, InvFacts, HaUnchanged
  <2>2. 0 \in 0..MaxEpoch
    BY HaAssumption
  <2>3. s \in Services
    BY <2>2, InvFacts DEF Services
  <2>4. TokensAmong(n, s, OwnEpochs(n))
    BY InvFacts DEF Services, TokensAmong
  <2> QED  BY <1>2, <2>1, <2>3, <2>4, ServiceKeepsTokens
<1> QED  BY <1>1, <1>2 DEF TryAcquire

LEMMA ConcludeStep ==
  ASSUME LeadershipInv, NEW n \in Nodes, Conclude(n)
  PROVE  GoodStep
<1> DEFINE s == IF svc[n].won # 0 THEN Leading(svc[n], TRUE, Token(svc[n].won)) ELSE Following(svc[n])
<1>1. HaStep
  BY InvFacts, HaOperationStep DEF Conclude, HaOperation
<1>2. ASSUME svc[n].won # 0
      PROVE  s \in Services /\ TokensAmong(n, s, OwnEpochs(n))
  <2>1. svc[n].won \in OwnEpochs(n) /\ svc[n].won \in 1..MaxEpoch
    BY <1>2, InvFacts, HaAssumption DEF TokensAmong, OwnEpochs, HaOK, HaTypeOK
  <2> HIDE DEF s
  <2>2. s = Leading(svc[n], TRUE, Token(svc[n].won)) /\ TRUE \in BOOLEAN
    BY <1>2 DEF s
  <2> QED  BY <2>1, <2>2, InvFacts, LeadingService
<1>3. ASSUME svc[n].won = 0
      PROVE  s \in Services /\ TokensAmong(n, s, OwnEpochs(n))
  BY <1>3, InvFacts, FollowingService
<1>4. s \in Services /\ TokensAmong(n, s, OwnEpochs(n))
  BY <1>2, <1>3
<1>5. NodeBecomes(n, Settled(s))
  BY DEF Conclude
<1> HIDE DEF s
<1> QED  BY <1>1, <1>4, <1>5, SettledService, ServiceKeepsTokens

LEMMA ForceAcquireStep ==
  ASSUME LeadershipInv, NEW n \in Nodes, ForceAcquireLeadership(n)
  PROVE  GoodStep
<1> DEFINE s == Leading(svc[n], TRUE, Token(epoch'))
<1>1. HaStep /\ epoch' \in OwnEpochs(n)'
  BY InvFacts, PromoteStep DEF ForceAcquireLeadership, PreemptLeadership, AcquireThrows, Owns, OwnEpochs
<1>2. OwnEpochs(n) \subseteq OwnEpochs(n)'
  BY <1>1, InvFacts, OwnEpochsGrow DEF HaStep
<1>3. TokensAmong(n, svc[n], OwnEpochs(n)')
  BY <1>2, InvFacts DEF TokensAmong
<1>4. epoch' \in 1..MaxEpoch
  BY <1>1, HaAssumption DEF OwnEpochs, HaStep, HaTypeOK
<1>5. s \in Services /\ TokensAmong(n, s, OwnEpochs(n)')
  BY <1>1, <1>3, <1>4, InvFacts, LeadingService
<1>6. NodeBecomes(n, s)
  BY DEF ForceAcquireLeadership
<1> HIDE DEF s
<1> QED  BY <1>1, <1>5, <1>6, ServiceStep DEF GoodStep

LEMMA RenewalTickStep ==
  ASSUME LeadershipInv, NEW n \in Nodes, RenewalTick(n)
  PROVE  GoodStep
<1>1. HaStep
  BY InvFacts, HaOperationStep DEF RenewalTick, HaOperation
<1>2. CASE NodeBecomes(n, [svc[n] EXCEPT !.renewing = FALSE])
  <2> DEFINE s == [svc[n] EXCEPT !.renewing = FALSE]
  <2>1. s \in Services /\ TokensAmong(n, s, OwnEpochs(n))
    BY InvFacts DEF Services, TokensAmong
  <2> QED  BY <1>1, <1>2, <2>1, ServiceKeepsTokens
<1>3. CASE NodeBecomes(n, [svc[n] EXCEPT !.lease = TRUE])
  <2> DEFINE s == [svc[n] EXCEPT !.lease = TRUE]
  <2>1. s \in Services /\ TokensAmong(n, s, OwnEpochs(n))
    BY InvFacts DEF Services, TokensAmong
  <2> QED  BY <1>1, <1>3, <2>1, ServiceKeepsTokens
<1>4. CASE NodeBecomes(n, [Following(svc[n]) EXCEPT !.lease = FALSE, !.renewing = FALSE])
  <2> DEFINE f == Following(svc[n])
             s == [f EXCEPT !.lease = FALSE, !.renewing = FALSE]
  <2>1. f \in Services /\ TokensAmong(n, f, OwnEpochs(n))
    BY InvFacts, FollowingService
  <2> HIDE DEF f
  <2>2. s \in Services /\ TokensAmong(n, s, OwnEpochs(n))
    BY <2>1 DEF Services, TokensAmong
  <2>3. NodeBecomes(n, s)
    BY <1>4 DEF f
  <2> QED  BY <1>1, <2>2, <2>3, ServiceKeepsTokens
<1> QED  BY <1>2, <1>3, <1>4 DEF RenewalTick

LEMMA StopStep ==
  ASSUME LeadershipInv, NEW n \in Nodes, Stop(n)
  PROVE  GoodStep
<1> DEFINE s == [svc[n] EXCEPT !.state = "stopped", !.renewing = FALSE, !.beating = FALSE]
           t == [s EXCEPT !.lease = FALSE]
<1>1. HaStep
  BY InvFacts, HaOperationStep DEF Stop, HaOperation
<1>2. s \in Services /\ TokensAmong(n, s, OwnEpochs(n))
  <2>1. s \in Services
    BY InvFacts DEF Services
  <2>2. TokensAmong(n, s, OwnEpochs(n))
    BY InvFacts DEF Services, TokensAmong
  <2> QED  BY <2>1, <2>2
<1>3. t \in Services /\ TokensAmong(n, t, OwnEpochs(n))
  <2> HIDE DEF s
  <2> QED  BY <1>2 DEF Services, TokensAmong
<1>4. NodeBecomes(n, s) \/ NodeBecomes(n, t)
  BY DEF Stop
<1> HIDE DEF s, t
<1> QED  BY <1>1, <1>2, <1>3, <1>4, ServiceKeepsTokens

LEMMA TransferStep ==
  ASSUME LeadershipInv, NEW n \in Nodes, TransferLeadership(n)
  PROVE  GoodStep
<1> DEFINE s == [svc[n] EXCEPT !.lease = FALSE, !.state = "follower", !.renewing = FALSE]
<1>1. HaStep
  BY InvFacts, HaOperationStep DEF TransferLeadership, HaOperation
<1>2. s \in Services /\ TokensAmong(n, s, OwnEpochs(n))
  <2>1. s \in Services
    BY InvFacts DEF Services
  <2>2. TokensAmong(n, s, OwnEpochs(n))
    BY InvFacts DEF Services, TokensAmong
  <2> QED  BY <2>1, <2>2
<1>3. NodeBecomes(n, s)
  BY DEF TransferLeadership
<1> HIDE DEF s
<1> QED  BY <1>1, <1>2, <1>3, ServiceKeepsTokens

LEMMA CrashRestartStep ==
  ASSUME LeadershipInv, NEW n \in Nodes, CrashNode(n) \/ Restart(n)
  PROVE  GoodStep
<1>1. HaStep
  BY InvFacts, HaUnchanged DEF CrashNode, Restart
<1>2. PICK s \in Services : NodeBecomes(n, s) /\ TokensAmong(n, s, OwnEpochs(n))
  BY FreshService DEF CrashNode, Restart
<1> QED  BY <1>1, <1>2, ServiceKeepsTokens

(* expireLease closes the lease that was listed and demotes the node that  *)
(* lease was given to, which may by now have no row to demote.             *)
LEMMA ReclaimExpireStep ==
  ASSUME LeadershipInv, NEW n \in Nodes, ReclaimExpire(n)
  PROVE  HaStep
<1> DEFINE e == reclaim[n].lease
           m == leaderLeases[e].node
<1>1. HaOK /\ e \in Epochs
  BY InvFacts DEF LeadershipInv, ReclaimExpire
<1>2. CASE UNCHANGED haVars
  BY <1>1, <1>2, HaUnchanged
<1>3. CASE /\ leaderLeases' = [leaderLeases EXCEPT ![e].status = IF @ = "active" THEN "expired" ELSE @]
           /\ nodes' = Demoted(m) /\ epoch' = epoch
  <2>1. nodes' \in [Nodes -> NodeRows] /\ \A k \in Nodes : nodes'[k].isLeader => nodes[k].isLeader
    BY <1>1, <1>3 DEF Demoted, HaOK, HaTypeOK, NodeRows
  <2>2. leaderLeases' \in [Epochs -> LeaderLeaseRows]
    BY <1>1, <1>3 DEF HaOK, HaTypeOK, LeaderLeaseRows
  <2>3. \A d \in Epochs : /\ leaderLeases'[d].node = leaderLeases[d].node
                          /\ leaderLeases'[d].status = "active" => leaderLeases[d].status = "active"
    BY <1>1, <1>3 DEF HaOK, HaTypeOK, LeaderLeaseRows
  <2>4. HaTypeOK'
    BY <1>1, <1>3, <2>1, <2>2 DEF HaOK, HaTypeOK
  <2> QED  BY <1>1, <1>3, <2>1, <2>3, <2>4, OnlyCloses
<1> QED  BY <1>2, <1>3 DEF ReclaimExpire

(* A cycle of the reclaimer names a lease that was made.                   *)
CyclesOK ==
  /\ reclaim \in [Nodes -> Cycles]
  /\ \A n \in Nodes : reclaim[n].at = "listed" => reclaim[n].lease \in Epochs

LEMMA CycleStep ==
  ASSUME LeadershipInv, NEW n \in Nodes, ReclaimStep(n)
  PROVE  CyclesOK'
<1>1. NoCycle \in Cycles /\ [at |-> "failover", lease |-> 0] \in Cycles
  BY HaAssumption DEF NoCycle, Cycles
<1>2. \A e \in Epochs : [at |-> "listed", lease |-> e] \in Cycles
  BY HaAssumption DEF Cycles, Epochs
<1>3. ASSUME NEW c \in Cycles, c.at = "listed" => c.lease \in Epochs,
             reclaim' = [reclaim EXCEPT ![n] = c]
      PROVE  CyclesOK'
  BY <1>3 DEF CyclesOK, LeadershipInv, LeadershipTypeOK
<1>4. CASE ReclaimList(n)
  BY <1>2, <1>3, <1>4 DEF ReclaimList, ActiveLeases
<1>5. CASE ReclaimExpire(n)
  BY <1>1, <1>3, <1>5 DEF ReclaimExpire, NoCycle
<1>6. CASE ReclaimFailover(n)
  BY <1>1, <1>3, <1>6 DEF ReclaimFailover, NoCycle
<1> QED  BY <1>4, <1>5, <1>6 DEF ReclaimStep

LEMMA InvInit == LeadershipInit => LeadershipInv
<1> SUFFICES ASSUME LeadershipInit PROVE LeadershipInv
  OBVIOUS
<1>1. HaTypeOK
  BY HaAssumption DEF LeadershipInit, HaInit, HaTypeOK, NodeRows, LeaderLeaseRows, None
<1>2. OneLeaderOneLease
  BY DEF LeadershipInit, HaInit, OneLeaderOneLease, ActiveLeases, Leaders
<1>3. ElectionTypeOK
  BY FreshService DEF LeadershipInit, ElectionInit, ElectionTypeOK
<1>4. TokensAreOwn
  BY HaAssumption DEF LeadershipInit, ElectionInit, TokensAreOwn, Fresh, None
<1>5. NoCycle \in Cycles
  BY HaAssumption DEF NoCycle, Cycles
<1>6. CyclesOK
  BY <1>5 DEF LeadershipInit, CyclesOK, NoCycle
<1> QED  BY <1>1, <1>2, <1>3, <1>4, <1>6 DEF LeadershipInv, LeadershipTypeOK, CyclesOK

LEMMA InvStep ==
  ASSUME LeadershipInv, [LeadershipNext]_leadershipVars
  PROVE  GoodStep /\ CyclesOK'
<1>1. UNCHANGED reclaim => CyclesOK'
  BY DEF LeadershipInv, LeadershipTypeOK, CyclesOK
<1>2. ASSUME NEW n \in Nodes, HaOperation(n), UNCHANGED svc
      PROVE  GoodStep
  BY <1>2, InvFacts, HaOperationStep, ServicesUnchanged DEF GoodStep
<1>3. ASSUME NEW n \in Nodes, ElectionStep(n), UNCHANGED reclaim
      PROVE  GoodStep /\ CyclesOK'
  <2>1. CASE HeartbeatTick(n)
    BY <1>1, <1>2, <1>3, <2>1 DEF HeartbeatTick, HaOperation
  <2> QED
    BY <1>1, <1>3, <2>1, StartStep, RetryStep, DeferStep, TryAcquireStep, ConcludeStep,
       RenewalTickStep, StopStep DEF ElectionStep
<1>4. ASSUME NEW n \in Nodes, ReclaimStep(n)
      PROVE  GoodStep /\ CyclesOK'
  <2>1. HaStep /\ UNCHANGED svc
    <3>1. CASE ReclaimExpire(n)
      BY <3>1, ReclaimExpireStep DEF ReclaimExpire
    <3>2. CASE ReclaimList(n) \/ ReclaimFailover(n)
      BY <3>2, InvFacts, HaOperationStep DEF ReclaimList, ReclaimFailover, HaOperation
    <3> QED  BY <1>4, <3>1, <3>2 DEF ReclaimStep
  <2> QED  BY <1>4, <2>1, CycleStep, ServicesUnchanged DEF GoodStep
<1>5. ASSUME NEW n \in Nodes, CrashStep(n)
      PROVE  GoodStep /\ CyclesOK'
  <2>1. NoCycle \in Cycles /\ NoCycle.at # "listed"
    BY HaAssumption DEF NoCycle, Cycles
  <2>2. CyclesOK'
    BY <1>1, <1>5, <2>1 DEF CrashStep, CyclesOK, LeadershipInv, LeadershipTypeOK
  <2> QED  BY <1>5, <2>2, CrashRestartStep DEF CrashStep
<1>6. ASSUME NEW n \in Nodes, FailoverStep(n)
      PROVE  GoodStep /\ CyclesOK'
  BY <1>1, <1>2, <1>6, ForceAcquireStep, TransferStep DEF FailoverStep, ManualStep, HaOperation
<1>7. ASSUME NEW n \in Nodes, NodeStep(n)
      PROVE  GoodStep /\ CyclesOK'
  BY <1>1, <1>2, <1>7 DEF NodeStep, HaOperation
<1>8. CASE ClockStep
  <2>1. HaStep
    BY <1>8, InvFacts, TimePassesStep DEF ClockStep
  <2> QED  BY <1>1, <1>8, <2>1, ServicesUnchanged DEF ClockStep, GoodStep
<1>9. CASE UNCHANGED leadershipVars
  <2>1. HaStep
    BY <1>9, InvFacts, HaUnchanged DEF leadershipVars, haVars
  <2> QED  BY <1>1, <1>9, <2>1, ServicesUnchanged DEF leadershipVars, GoodStep
<1> QED  BY <1>3, <1>4, <1>5, <1>6, <1>7, <1>8, <1>9 DEF LeadershipNext

-----------------------------------------------------------------------------
(* Theorems *)

(* The inductive invariant: types, one leader and one lease, and every     *)
(* epoch a service saw as its own, won or holds a token of was given to it *)
(* by acquireLeadership.                                                   *)
THEOREM LeadershipInvariant == LeadershipSpec => []LeadershipInv
<1>1. LeadershipInv /\ [LeadershipNext]_leadershipVars => LeadershipInv'
  BY InvStep DEF GoodStep, HaStep, CyclesOK, LeadershipInv, LeadershipTypeOK
<1> QED  BY InvInit, <1>1, PTL DEF LeadershipSpec

(* However elections, failovers, removals, crashes and late reclaim cycles *)
(* interleave, only the newest epoch has an active lease, there is one     *)
(* leader at most, and the lease is its own.                               *)
THEOREM OneLeader == LeadershipSpec => []OneLeaderOneLease
<1>1. LeadershipInv => OneLeaderOneLease
  BY DEF LeadershipInv
<1> QED  BY <1>1, LeadershipInvariant, PTL

(* authorizeAction, which asks whether there is a lease and not whose,     *)
(* lets only the holder of the newest epoch's lease act.                   *)
THEOREM AuthorityOfTheHolder == LeadershipSpec => []AuthorityIsTheHolders
<1>1. LeadershipInv => AuthorityIsTheHolders
  <2> SUFFICES ASSUME LeadershipInv, NEW n \in Nodes, AuthorizeAction(n)
               PROVE  leaderLeases[epoch].node = n /\ leaderLeases[epoch].status = "active"
    BY DEF AuthorityIsTheHolders
  <2>1. CurrentLeader \in Leaders /\ CurrentLeader = n
    BY InvFacts, LeaderFacts, HaAssumption DEF AuthorizeAction, None
  <2>2. epoch \in ActiveLeases
    BY InvFacts, ActiveLeaseFacts DEF AuthorizeAction
  <2> QED  BY <2>1, <2>2 DEF LeadershipInv, OneLeaderOneLease, ActiveLeases
<1> QED  BY <1>1, LeadershipInvariant, PTL

(* Of all services holding a token, however stale, verifyWriteAuthority    *)
(* lets one write: a token that equals the newest epoch's was given to the *)
(* node of that epoch, and an epoch has one node.                          *)
THEOREM SingleWriter == LeadershipSpec => []OneWriter
<1>1. LeadershipInv => OneWriter
  <2> SUFFICES ASSUME LeadershipInv, NEW n \in Nodes, NEW m \in Nodes,
                      svc[n].token > 0, VerifyWriteAuthority(svc[n].token),
                      svc[m].token > 0, VerifyWriteAuthority(svc[m].token)
               PROVE  n = m
    BY DEF OneWriter
  <2>1. ASSUME NEW k \in Nodes, svc[k].token > 0, VerifyWriteAuthority(svc[k].token)
        PROVE  leaderLeases[epoch].node = k
    <3>1. svc[k].token \in Int /\ epoch \in Int
      BY InvFacts, HaAssumption DEF Services, HaOK, HaTypeOK
    <3>2. Owns(k, svc[k].token - 1)
      BY <2>1, <3>1 DEF LeadershipInv, TokensAreOwn
    <3>3. svc[k].token - 1 = epoch
      BY <2>1, <3>1, <3>2 DEF Owns, VerifyWriteAuthority, Token
    <3> QED  BY <3>2, <3>3 DEF Owns
  <2> QED  BY <2>1
<1> QED  BY <1>1, LeadershipInvariant, PTL

(* The coordinator with its services, reclaimers and operators implements  *)
(* the fenced lock: leadership is given to a node only together with a     *)
(* token above all there were.                                             *)
THEOREM LeadershipRefinesFencedLock == LeadershipSpec => LeadershipIsFenced
<1>1. LeadershipInit => Fenced!LockInit
  BY DEF LeadershipInit, HaInit, Fenced!LockInit, LeaseHolder, ActiveLeases, Token
<1>2. LeadershipInv /\ [LeadershipNext]_leadershipVars => [Fenced!LockNext]_(Fenced!lockVars)
  <2> SUFFICES ASSUME LeadershipInv, LeaseMoves
               PROVE  [Fenced!LockNext]_(Fenced!lockVars)
    BY InvStep DEF GoodStep, HaStep
  <2>1. CASE epoch' = epoch /\ LeaseHolder' = LeaseHolder
    BY <2>1 DEF Fenced!lockVars, Token
  <2>2. CASE epoch' = epoch /\ LeaseHolder' = None
    BY <2>2 DEF Fenced!LockNext, Fenced!Free, Token
  <2>3. CASE epoch' = epoch + 1 /\ LeaseHolder' \in Nodes
    <3>1. Token(epoch)' > Token(epoch)
      BY <2>3, InvFacts, HaAssumption DEF Token, HaOK, HaTypeOK
    <3> QED  BY <2>3, <3>1 DEF Fenced!LockNext, Fenced!Grant
  <2> QED  BY <2>1, <2>2, <2>3 DEF LeaseMoves
<1> QED  BY <1>1, <1>2, LeadershipInvariant, PTL DEF LeadershipSpec, LeadershipIsFenced, Fenced!LockSpec

=============================================================================
