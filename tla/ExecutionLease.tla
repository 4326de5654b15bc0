--------------------------- MODULE ExecutionLease ---------------------------
(***************************************************************************)
(* ExecutionLeaseService: time-bounded, fenced ownership of an execution   *)
(* by a worker.  Every public operation of the service is one database     *)
(* transaction (BEGIN IMMEDIATE), hence one action.  A call that is        *)
(* refused without writing a row is a stuttering step.                     *)
(*                                                                         *)
(* Time.  Callers pass occurredAt or take it from their own clock.  Here   *)
(* it is an offset d in -Skew..Skew from the reference clock, Tick moves   *)
(* that clock, and no expiry is tracked further than Horizon into the past.*)
(*                                                                         *)
(* audits holds the rows of lease_audits that mark a lease's life cycle.   *)
(* Rows for renewals and rejected writes are left out: nothing reads them. *)
(***************************************************************************)
EXTENDS WorkerRegistry, LeaseTable

CONSTANTS LeaseIds,           \* ids newId("lease") may return; bounds the grants
          MinTtl, MaxTtl,     \* MIN_LEASE_TTL_MS, MAX_LEASE_TTL_MS
          RequestedTtls,      \* ttlMs values callers pass
          Skew,               \* bound on |occurredAt - reference clock|
          Horizon,            \* bound on how far an expiry is tracked
          Features,           \* capabilities, isolation levels, repo versions
          Provides,           \* features each worker registers with
          Regions,            \* deployment regions
          RegionOf,           \* region of each worker, or NoRegion
          NoRegion            \* also: no region is the active leader

NoAgent == "none"

ASSUME LeaseAssumption ==
  /\ NoAgent \notin Workers
  /\ MinTtl \in Nat /\ MaxTtl \in Nat /\ MinTtl > 0 /\ MinTtl <= MaxTtl
  /\ RequestedTtls \subseteq Int
  /\ Skew \in Nat /\ Horizon \in Nat /\ Horizon > Skew
  /\ Provides \in [Workers -> SUBSET Features]
  /\ RegionOf \in [Workers -> Regions \cup {NoRegion}]

VARIABLES leases,             \* execution_leases
          audits,             \* lease_audits: <<lease id, event type>>
          agent,              \* executions.agent_id, NoAgent before any owner
          leaderRegion,       \* region holding leadership, or NoRegion
          accepted            \* history: token of the last write let through

leaseVars == <<leases, audits, agent, leaderRegion, accepted>>
vars == <<workers, leases, audits, agent, leaderRegion, accepted>>

Offsets == (0 - Skew)..Skew

TtlInBounds(ttl) == MinTtl <= ttl /\ ttl <= MaxTtl

LeaseRows == [executionId  : Executions,
              workerId     : Workers,
              fencingToken : Nat,
              status       : LeaseStatuses,
              expiresIn    : Int]

AuditEvents == {"lease_granted", "lease_handover",
                "lease_released", "lease_expired", "lease_reclaimed"}

(* Every lease, audit row and execution refers to existing rows, and the   *)
(* token of the last accepted write is a number.                           *)
TypeOK ==
  /\ RegistryTypeOK
  /\ DOMAIN leases \subseteq LeaseIds
  /\ leases \in [DOMAIN leases -> LeaseRows]
  /\ audits \subseteq (DOMAIN leases) \X AuditEvents
  /\ agent \in [Executions -> Workers \cup {NoAgent}]
  /\ leaderRegion \in Regions \cup {NoRegion}
  /\ accepted \in [Executions -> Nat]

LeaseInit ==
  /\ leases = [i \in {} |-> {}]
  /\ audits = {}
  /\ agent = [e \in Executions |-> NoAgent]
  /\ leaderRegion = NoRegion
  /\ accepted = [e \in Executions |-> 0]

Init == RegistryInit /\ LeaseInit

-----------------------------------------------------------------------------
(* Building blocks *)

UnusedIds == LeaseIds \ DOMAIN leases

NewId == CHOOSE i \in LeaseIds : i \notin DOMAIN leases

Events(ids, event) == ids \X {event}

(* The multi-region guard: without an active leader, or for a worker with  *)
(* no known region, everything is allowed.                                 *)
LeadershipAllows(w) ==
  \/ leaderRegion = NoRegion
  \/ RegionOf[w] \in {NoRegion, leaderRegion}

(* The active leases of e that an acquisition at offset d closes first.    *)
Outlived(e, d) == {i \in ActiveRows(leases, e) : leases[i].expiresIn <= d}

(* reclaimActiveLeaseInternal for a set of leases: close, and take the     *)
(* executions out of their holders' running sets.                          *)
ReclaimedFrom(ws, ids) ==
  [w \in DOMAIN ws |->
     LET lost == {leases[i].executionId : i \in {j \in ids : leases[j].workerId = w}}
     IN  IF lost = {} THEN ws[w] ELSE Refreshed(ws[w], ws[w].running \ lost)]

Reclaim(ids) ==
  /\ leases' = CloseLeases(leases, ids, "reclaimed")
  /\ audits' = audits \cup Events(ids, "lease_reclaimed")
  /\ workers' = ReclaimedFrom(workers, ids)

\* Variant: the audit row is forgotten.
ExpireUnaudited(ids) ==
  /\ leases' = CloseLeases(leases, ids, "expired")
  /\ UNCHANGED audits

Expire(ids) ==
  /\ leases' = CloseLeases(leases, ids, "expired")
  /\ audits' = audits \cup Events(ids, "lease_expired")

-----------------------------------------------------------------------------
(* Operations *)

(* acquireLease: an active lease that has run out is closed as expired     *)
(* even when the request is then refused for its ttl.                      *)
AcquireLease(e, w, ttl, d) ==
  /\ LeadershipAllows(w)
  /\ LET gone  == Outlived(e, d)
         swept == CloseLeases(leases, gone, "expired")
     IN  \/ /\ ActiveRows(swept, e) # {} \/ ~TtlInBounds(ttl)
            /\ Expire(gone)
         \/ /\ ActiveRows(swept, e) = {}
            /\ TtlInBounds(ttl)
            /\ UnusedIds # {}
            /\ leases' = InsertLease(swept, NewId, e, w, d + ttl)
            /\ audits' = audits \cup Events(gone, "lease_expired")
                               \cup {<<NewId, "lease_granted">>}
  /\ UNCHANGED <<workers, agent, leaderRegion, accepted>>

(* renewLease: no fencing token, no leadership check and no ttl bound.  A  *)
(* lease whose expiry is exactly now still renews.                         *)
RenewLease(i, ttl, d) ==
  /\ i \in ActiveIds(leases)
  /\ \/ leases[i].expiresIn < d /\ Expire({i})
     \/ /\ leases[i].expiresIn >= d
        /\ leases' = RenewLeaseRow(leases, i, d + ttl)
        /\ UNCHANGED audits
  /\ UNCHANGED <<workers, agent, leaderRegion, accepted>>

\* Variant: closes the row whatever its status.
ReleaseLeaseUnconditional(i) ==
  /\ i \in DOMAIN leases
  /\ leases' = CloseLeases(leases, {i}, "released")
  /\ audits' = audits \cup {<<i, "lease_released">>}
  /\ UNCHANGED <<workers, agent, leaderRegion, accepted>>

(* releaseLease by the holder, with its own token; expiry is not checked.  *)
ReleaseLease(i) ==
  /\ i \in ActiveIds(leases)
  /\ leases' = CloseLeases(leases, {i}, "released")
  /\ audits' = audits \cup {<<i, "lease_released">>}
  /\ UNCHANGED <<workers, agent, leaderRegion, accepted>>

CanTakeOver(w, e, required) ==
  /\ w \in Registered
  /\ required \subseteq Provides[w]
  /\ e \in workers[w].running \/ HasAvailableSlot(workers[w], w)

HandoverLease(i, w, required, ttl, d) ==
  /\ i \in ActiveIds(leases)
  /\ LET e == leases[i].executionId
     IN  \/ /\ leases[i].expiresIn < d
            /\ Expire({i})
            /\ UNCHANGED <<workers, agent>>
         \/ /\ leases[i].expiresIn >= d
            /\ w # leases[i].workerId
            /\ CanTakeOver(w, e, required)
            /\ TtlInBounds(ttl)
            /\ UnusedIds # {}
            /\ leases' = InsertLease(CloseLeases(leases, {i}, "released"), NewId, e, w, d + ttl)
            /\ audits' = audits \cup {<<i, "lease_released">>, <<NewId, "lease_granted">>,
                                      <<NewId, "lease_handover">>}
            /\ agent' = [agent EXCEPT ![e] = w]
            /\ workers' = MergeExecution(RemoveExecution(workers, leases[i].workerId, e), w, e)
  /\ UNCHANGED <<leaderRegion, accepted>>

ReclaimExpiredLeases(d) ==
  /\ Reclaim(ExpiredIds(leases, d))
  /\ UNCHANGED <<agent, leaderRegion, accepted>>

(* reclaimActiveLease, whether or not the lease has expired.               *)
ReclaimActiveLease(e) ==
  /\ Reclaim(ActiveRows(leases, e))
  /\ UNCHANGED <<agent, leaderRegion, accepted>>

\* Variant: trusts the worker id without comparing tokens.
WriteAllowedByWorker(i, byId, d) ==
  /\ LeadershipAllows(leases[i].workerId)
  /\ \E a \in ActiveRows(leases, leases[i].executionId) :
       /\ leases[a].expiresIn > d
       /\ leases[a].workerId = leases[i].workerId

(* validateWriteAccess for a write that presents lease i's worker and      *)
(* token, with lease i's id or, when byId is FALSE, with none.             *)
WriteAllowed(i, byId, d) ==
  LET active == ActiveRows(leases, leases[i].executionId)
  IN  /\ LeadershipAllows(leases[i].workerId)
      /\ \E a \in active :
           /\ leases[a].expiresIn > d
           /\ leases[a].fencingToken = leases[i].fencingToken
           /\ leases[a].workerId = leases[i].workerId
           /\ byId => a = i

ValidateWriteAccess(i, byId, d) ==
  /\ i \in DOMAIN leases
  /\ WriteAllowed(i, byId, d)
  /\ accepted' = [accepted EXCEPT ![leases[i].executionId] = leases[i].fencingToken]
  /\ UNCHANGED <<workers, leases, audits, agent, leaderRegion>>

-----------------------------------------------------------------------------
(* Environment *)

(* Region leadership is decided elsewhere (FencingTokenService).           *)
LeadershipChanges(r) ==
  /\ leaderRegion' = r
  /\ UNCHANGED <<workers, leases, audits, agent, accepted>>

Tick ==
  /\ leases' = Elapsed(leases, Horizon)
  /\ workers' = Aged(workers)
  /\ UNCHANGED <<audits, agent, leaderRegion, accepted>>

RegistryNext ==
  /\ \/ \E w \in Workers, s \in ReportedStatuses, run \in SUBSET Executions :
           RecordHeartbeat(w, s, run)
     \/ \E w \in Workers : VerifyRemoteWorkerRegistration(w)
     \/ SweepStaleWorkerHeartbeats
  /\ UNCHANGED leaseVars

LeaseNext ==
  \/ \E e \in Executions, w \in Workers, ttl \in RequestedTtls, d \in Offsets :
       AcquireLease(e, w, ttl, d)
  \/ \E i \in LeaseIds, ttl \in RequestedTtls, d \in Offsets : RenewLease(i, ttl, d)
  \/ \E i \in LeaseIds : ReleaseLease(i)
  \/ \E i \in LeaseIds, w \in Workers, required \in SUBSET Features,
        ttl \in RequestedTtls, d \in Offsets : HandoverLease(i, w, required, ttl, d)
  \/ \E d \in Offsets : ReclaimExpiredLeases(d)
  \/ \E e \in Executions : ReclaimActiveLease(e)
  \/ \E i \in LeaseIds, byId \in BOOLEAN, d \in Offsets : ValidateWriteAccess(i, byId, d)
  \/ \E r \in Regions \cup {NoRegion} : LeadershipChanges(r)
  \/ Tick

Next == RegistryNext \/ LeaseNext

Spec == Init /\ [][Next]_vars

-----------------------------------------------------------------------------
(* Safety *)

(* The holder of an active lease carries a fencing token above that of     *)
(* every other lease ever granted for the execution: insert-with-MAX+1 and *)
(* the check for an active lease in acquireLease and handoverLease.  In    *)
(* particular the index on active leases never rejects an insert.          *)
HolderHasTopToken == NewestHolds(leases)

(* No two rows of an execution share a token, so the unique index on       *)
(* (execution_id, fencing_token) never fires.                              *)
TokensUnique == TokensDiffer(leases)

(* The audit trail tells how each lease ended: an active lease has a grant *)
(* row and no closing row, a closed one has exactly the row of its status. *)
AuditExplainsLease == AuditExplains(leases, audits)

(* Once a write with some token got through, no write with a smaller token *)
(* does, whatever expiries, handovers and reclaims come in between.        *)
AcceptedWritesNeverRegress ==
  [][\A e \in Executions : accepted'[e] >= accepted[e]]_vars

(* A write is only let through under the newest token granted so far.      *)
OnlyNewestTokenWrites ==
  [][\A e \in Executions :
       accepted'[e] # accepted[e] => accepted'[e] = LatestFencingToken(leases, e)]_vars

(* A closed lease is final: no operation reopens, re-closes, reassigns or  *)
(* removes it, and no token is ever reissued.                              *)
ClosedLeasesAreFinal == [][Continues(leases, leases')]_vars

-----------------------------------------------------------------------------
(* Refinement *)

(* The worker of the execution's active lease, if there is one.            *)
HolderOf(ls, e) ==
  IF ActiveRows(ls, e) = {} THEN NoAgent
  ELSE ls[CHOOSE i \in ActiveRows(ls, e) : TRUE].workerId

Ownership ==
  INSTANCE FencedOwnership WITH
    Nobody  <- NoAgent,
    owner   <- [e \in Executions |-> HolderOf(leases, e)],
    epoch   <- [e \in Executions |-> LatestFencingToken(leases, e)],
    written <- accepted

(* The lease table implements fenced ownership: the active lease's worker  *)
(* is the owner, the newest token the epoch, and validateWriteAccess lets  *)
(* a write through only in the present epoch of a present owner.           *)
ImplementsFencedOwnership == Ownership!Spec

=============================================================================
