--------------------------- MODULE LeaderElection ---------------------------
(***************************************************************************)
(* LeaderElectionService, one in the process of each node, where the HA    *)
(* level calls for elections (any level but HA_1).                         *)
(* An election is cut where runAttemptElection awaits: after               *)
(* queryLeadership, and after the transaction of acquireLeadership; other  *)
(* processes come in between, and so may a stop() of the same service,     *)
(* since start() need not have settled.  A tick of the renewal timer runs  *)
(* to its end before its process does anything else.                       *)
(***************************************************************************)
EXTENDS HaCoordinator

CONSTANT MaxElectionAttempts

ASSUME ElectionAssumption == MaxElectionAttempts \in Nat

VARIABLE svc                  \* the service of each node

(* up: the process runs.  attempt is where the election stands: seen is    *)
(* the leader queryLeadership gave, with its epoch where it matters, won   *)
(* the epoch acquired.  lease says that there is a currentLease, renewing  *)
(* and beating that the interval timers are set, retries counts the timers *)
(* of scheduleElectionRetry.                                               *)
Fresh ==
  [up |-> TRUE, state |-> "stopped", attempt |-> "none", seen |-> None, seenEpoch |-> 0,
   won |-> 0, lease |-> FALSE, token |-> 0, attempts |-> 0, renewing |-> FALSE,
   beating |-> FALSE, retries |-> 0]

Services ==
  [up : BOOLEAN, state : {"stopped", "candidate", "follower", "leader"},
   attempt : {"none", "queried", "acquired"}, seen : Nodes \cup {None},
   seenEpoch : 0..MaxEpoch, won : 0..MaxEpoch, lease : BOOLEAN, token : 0..MaxEpoch + 1,
   attempts : 0..MaxElectionAttempts, renewing : BOOLEAN, beating : BOOLEAN, retries : Nat]

ElectionTypeOK == svc \in [Nodes -> Services]

ElectionInit == svc = [n \in Nodes |-> Fresh]

NodeBecomes(n, s) == svc' = [svc EXCEPT ![n] = s]

-----------------------------------------------------------------------------
(* The first part of runAttemptElection, up to the answer to the query.    *)
(* electionAttempts is only compared with its maximum, and stops there.    *)
Queried(n, s) ==
  [s EXCEPT !.state = "candidate", !.attempt = "queried",
            !.attempts = IF @ < MaxElectionAttempts THEN @ + 1 ELSE @,
            !.seen = LeadershipQuery,
            !.seenEpoch = IF LeadershipQuery = n THEN epoch ELSE 0]

(* start: registers the node, sets the heartbeat timer, begins an election.*)
(* An election still under way is not begun anew.                          *)
Start(n) ==
  /\ svc[n].up /\ svc[n].state = "stopped"
  /\ RegisterNode(n)
  /\ LET s == [svc[n] EXCEPT !.beating = TRUE, !.state = "candidate"]
     IN NodeBecomes(n, IF s.attempt = "none" THEN Queried(n, s) ELSE s)

(* The timer of scheduleElectionRetry fires.                               *)
Retry(n) ==
  /\ svc[n].up /\ svc[n].retries > 0
  /\ LET s == [svc[n] EXCEPT !.retries = @ - 1]
     IN NodeBecomes(n, IF s.state = "follower" /\ s.attempt = "none" THEN Queried(n, s) ELSE s)
  /\ UNCHANGED haVars

Leading(s, lease, token) ==
  [s EXCEPT !.state = "leader", !.lease = lease, !.token = token, !.attempts = 0,
            !.renewing = TRUE]

(* A follower that asks again later, while it has attempts left.           *)
Following(s) ==
  [s EXCEPT !.state = "follower",
            !.retries = IF s.attempts < MaxElectionAttempts THEN @ + 1 ELSE @]

Settled(s) ==
  [s EXCEPT !.attempt = "none", !.seen = None, !.seenEpoch = 0, !.won = 0]

(* The query found a leader: this node itself, or another to follow.       *)
Defer(n) ==
  /\ svc[n].up /\ svc[n].attempt = "queried" /\ svc[n].seen # None
  /\ NodeBecomes(n, Settled(IF svc[n].seen = n
                        THEN Leading(svc[n], ActiveLease # None, Token(svc[n].seenEpoch))
                        ELSE [svc[n] EXCEPT !.state = "follower"]))
  /\ UNCHANGED haVars

(* It found none: acquireLeadership is refused, throws, or succeeds.       *)
TryAcquire(n) ==
  /\ svc[n].up /\ svc[n].attempt = "queried" /\ svc[n].seen = None
  /\ \/ /\ AcquireLeadership(n)
        /\ NodeBecomes(n, [svc[n] EXCEPT !.attempt = "acquired", !.won = epoch'])
     \/ /\ HeldByAnother(n) \/ AcquireThrows(n)
        /\ NodeBecomes(n, [svc[n] EXCEPT !.attempt = "acquired", !.won = 0])
        /\ UNCHANGED haVars

\* Variant: takes the token of the newest epoch instead of the one acquired.
ConcludeWithLatest(n) ==
  /\ svc[n].up /\ svc[n].attempt = "acquired"
  /\ NodeBecomes(n, Settled(IF svc[n].won # 0
                        THEN Leading(svc[n], TRUE, Token(epoch))
                        ELSE Following(svc[n])))
  /\ UNCHANGED haVars

(* The rest of the election, whatever state the service is in by now.      *)
Conclude(n) ==
  /\ svc[n].up /\ svc[n].attempt = "acquired"
  /\ NodeBecomes(n, Settled(IF svc[n].won # 0
                        THEN Leading(svc[n], TRUE, Token(svc[n].won))
                        ELSE Following(svc[n])))
  /\ UNCHANGED haVars

ForceAcquireLeadership(n) ==
  /\ svc[n].up
  /\ PreemptLeadership(n)
  /\ NodeBecomes(n, Leading(svc[n], TRUE, Token(epoch')))

-----------------------------------------------------------------------------
(* runRenewalTick.  renewLeadership throws for a node that was removed,    *)
(* and the service stays as it is.                                         *)
RenewalTick(n) ==
  /\ svc[n].up /\ svc[n].renewing
  /\ IF svc[n].state # "leader"
     THEN UNCHANGED haVars /\ NodeBecomes(n, [svc[n] EXCEPT !.renewing = FALSE])
     ELSE \/ RenewLeadership(n) /\ NodeBecomes(n, [svc[n] EXCEPT !.lease = TRUE])
          \/ /\ RegisteredNode(n) /\ ActiveLease \notin LeaseOf(n)
             /\ NodeBecomes(n, [Following(svc[n]) EXCEPT !.lease = FALSE, !.renewing = FALSE])
             /\ UNCHANGED haVars

HeartbeatTick(n) ==
  /\ svc[n].up /\ svc[n].beating
  /\ UpdateNodeHeartbeat(n, "active")
  /\ UNCHANGED svc

(* stop: only a service that leads gives its lease back.                   *)
Stop(n) ==
  /\ svc[n].up /\ svc[n].state # "stopped"
  /\ LET s == [svc[n] EXCEPT !.state = "stopped", !.renewing = FALSE, !.beating = FALSE]
     IN IF svc[n].state = "leader" /\ svc[n].lease
        THEN ReleaseLeadership(n) /\ NodeBecomes(n, [s EXCEPT !.lease = FALSE])
        ELSE UNCHANGED haVars /\ NodeBecomes(n, s)

(* transferLeadership asks whether there is a leader, not which.           *)
TransferLeadership(n) ==
  /\ svc[n].up /\ svc[n].state = "leader" /\ LeadershipQuery # None
  /\ ReleaseLeadership(n)
  /\ NodeBecomes(n, [svc[n] EXCEPT !.lease = FALSE, !.state = "follower", !.renewing = FALSE])

CrashNode(n) ==
  /\ svc[n].up
  /\ NodeBecomes(n, [Fresh EXCEPT !.up = FALSE])
  /\ UNCHANGED haVars

Restart(n) ==
  /\ ~svc[n].up
  /\ NodeBecomes(n, Fresh)
  /\ UNCHANGED haVars

(* What a service does of itself, and what is asked of it.                 *)
ElectionStep(n) ==
  \/ Start(n) \/ Retry(n) \/ Defer(n) \/ TryAcquire(n) \/ Conclude(n)
  \/ RenewalTick(n) \/ HeartbeatTick(n) \/ Stop(n)

ManualStep(n) == ForceAcquireLeadership(n) \/ TransferLeadership(n)

=============================================================================
