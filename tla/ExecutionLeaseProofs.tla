------------------------ MODULE ExecutionLeaseProofs ------------------------
(***************************************************************************)
(* Proofs about ExecutionLease for any workers, executions, ttl bounds,    *)
(* clock skew and number of leases.                                        *)
(***************************************************************************)
EXTENDS ExecutionLease, TLAPS

(* Rows are well formed; the newest token of each execution exists (the    *)
(* set of its tokens has a maximum), holds alone, and is never shared.     *)
HasNewest(ls) ==
  \A e \in Executions : \E m \in TokensOf(ls, e) \cup {0} :
    \A t \in TokensOf(ls, e) : t <= m

Consistent(ls) ==
  /\ DOMAIN ls \subseteq LeaseIds
  /\ ls \in [DOMAIN ls -> LeaseRows]
  /\ HasNewest(ls)
  /\ NewestHolds(ls)
  /\ TokensDiffer(ls)

(* A token set with a maximum has that maximum as its Max.                 *)
LEMMA MaxOfBounded ==
  ASSUME NEW S \in SUBSET Nat, NEW m \in S, \A t \in S : t <= m
  PROVE  Max(S) \in S /\ \A t \in S : t <= Max(S)
<1>1. \E x \in S : \A y \in S : x >= y
  BY SMT
<1>2. QED
  BY <1>1, Zenon DEF Max

(* LatestFencingToken is the number the INSERT's MAX subquery computes.    *)
LEMMA LatestIsNewest ==
  ASSUME NEW ls, Consistent(ls), NEW e \in Executions
  PROVE  /\ LatestFencingToken(ls, e) \in TokensOf(ls, e) \cup {0}
         /\ LatestFencingToken(ls, e) \in Nat
         /\ \A i \in RowsOf(ls, e) : ls[i].fencingToken <= LatestFencingToken(ls, e)
<1> DEFINE S == TokensOf(ls, e) \cup {0}
<1>1. S \in SUBSET Nat
  BY DEF Consistent, TokensOf, RowsOf, LeaseRows
<1>2. PICK m \in S : \A t \in TokensOf(ls, e) : t <= m
  BY DEF Consistent, HasNewest
<1>3. \A t \in S : t <= m
  BY <1>1, <1>2
<1>4. Max(S) \in S /\ \A t \in S : t <= Max(S)
  BY <1>1, <1>3, MaxOfBounded
<1>5. \A i \in RowsOf(ls, e) : ls[i].fencingToken \in S
  BY DEF TokensOf
<1>6. QED
  BY <1>1, <1>4, <1>5 DEF LatestFencingToken

(* Closing rows keeps the table consistent and every token in place.       *)
LEMMA CloseKeepsConsistent ==
  ASSUME NEW ls, Consistent(ls), NEW ids, NEW st \in LeaseStatuses, st # "active"
  PROVE  /\ Consistent(CloseLeases(ls, ids, st))
         /\ DOMAIN CloseLeases(ls, ids, st) = DOMAIN ls
         /\ \A e : RowsOf(CloseLeases(ls, ids, st), e) = RowsOf(ls, e)
         /\ \A e : TokensOf(CloseLeases(ls, ids, st), e) = TokensOf(ls, e)
         /\ \A e : ActiveRows(CloseLeases(ls, ids, st), e) = ActiveRows(ls, e) \ ids
<1> DEFINE cs == CloseLeases(ls, ids, st)
<1>1. /\ DOMAIN cs = DOMAIN ls
      /\ cs \in [DOMAIN ls -> LeaseRows]
      /\ \A i \in DOMAIN ls : /\ cs[i].executionId = ls[i].executionId
                              /\ cs[i].fencingToken = ls[i].fencingToken
                              /\ cs[i].status = "active" <=> ls[i].status = "active" /\ i \notin ids
  <2>1. DOMAIN cs = DOMAIN ls
    BY DEF CloseLeases
  <2>2. ASSUME NEW i \in DOMAIN ls
        PROVE  /\ cs[i] \in LeaseRows
               /\ cs[i].executionId = ls[i].executionId
               /\ cs[i].fencingToken = ls[i].fencingToken
               /\ cs[i].status = "active" <=> ls[i].status = "active" /\ i \notin ids
    <3>1. ls[i] \in LeaseRows
      BY DEF Consistent
    <3>2. CASE i \in ids
      BY <3>1, <3>2 DEF CloseLeases, LeaseRow, LeaseRows
    <3>3. CASE i \notin ids
      BY <3>1, <3>3 DEF CloseLeases
    <3>4. QED
      BY <3>2, <3>3
  <2>3. cs \in [DOMAIN ls -> LeaseRows]
    BY <2>2 DEF CloseLeases
  <2>4. QED
    BY <2>1, <2>2, <2>3
<1> HIDE DEF cs
<1>2. \A e : RowsOf(cs, e) = RowsOf(ls, e)
  BY <1>1 DEF RowsOf
<1>3. \A e : TokensOf(cs, e) = TokensOf(ls, e)
  BY <1>1, <1>2 DEF TokensOf, RowsOf
<1>4. \A e : ActiveRows(cs, e) = ActiveRows(ls, e) \ ids
  BY <1>1, <1>2 DEF ActiveRows, RowsOf
<1>5. HasNewest(cs)
  BY <1>3 DEF Consistent, HasNewest
<1>6. NewestHolds(cs)
  BY <1>1 DEF Consistent, NewestHolds, ActiveIds, RowsOf
<1>7. TokensDiffer(cs)
  BY <1>1 DEF Consistent, TokensDiffer
<1>8. QED
  BY <1>1, <1>2, <1>3, <1>4, <1>5, <1>6, <1>7 DEF Consistent, cs

(* Inserting a row for an execution without active rows keeps the table    *)
(* consistent; the new row takes the token above the previous newest one.  *)
LEMMA InsertKeepsConsistent ==
  ASSUME NEW ls, Consistent(ls), NEW i \in LeaseIds, i \notin DOMAIN ls,
         NEW e \in Executions, ActiveRows(ls, e) = {}, NEW w \in Workers, NEW x \in Int
  PROVE  LET ns == InsertLease(ls, i, e, w, x)
         IN  /\ Consistent(ns)
             /\ DOMAIN ns = DOMAIN ls \cup {i}
             /\ ns[i] = LeaseRow(e, w, LatestFencingToken(ls, e) + 1, "active", x)
             /\ \A j \in DOMAIN ls : ns[j] = ls[j]
<1> DEFINE ns == InsertLease(ls, i, e, w, x)
           top == LatestFencingToken(ls, e)
<1>1. /\ top \in Nat
      /\ \A j \in RowsOf(ls, e) : ls[j].fencingToken <= top
  BY LatestIsNewest
<1>2. /\ DOMAIN ns = DOMAIN ls \cup {i}
      /\ ns[i] = LeaseRow(e, w, top + 1, "active", x)
      /\ \A j \in DOMAIN ls : ns[j] = ls[j]
  BY DEF InsertLease
<1>3. /\ ns[i] \in LeaseRows
      /\ ns[i].executionId = e
      /\ ns[i].fencingToken = top + 1
      /\ ns[i].status = "active"
  BY <1>1, <1>2 DEF LeaseRow, LeaseRows, LeaseStatuses
<1>4. ns \in [DOMAIN ns -> LeaseRows]
  <2>1. \A j \in DOMAIN ns : ns[j] \in LeaseRows
    BY <1>2, <1>3 DEF Consistent
  <2>2. ns = [j \in DOMAIN ns |-> ns[j]]
    BY DEF InsertLease
  <2>3. QED
    BY <2>1, <2>2
<1> HIDE DEF ns, top
<1>5. \A j \in DOMAIN ls : ls[j] \in LeaseRows
  BY DEF Consistent
<1>6. HasNewest(ns)
  <2> SUFFICES ASSUME NEW f \in Executions
               PROVE  \E m \in TokensOf(ns, f) \cup {0} : \A t \in TokensOf(ns, f) : t <= m
    BY DEF HasNewest
  <2>1. CASE f = e
    <3>1. top + 1 \in TokensOf(ns, f)
      BY <1>2, <1>3, <2>1 DEF TokensOf, RowsOf
    <3>2. ASSUME NEW j \in RowsOf(ns, f) PROVE ns[j].fencingToken <= top + 1
      <4>1. CASE j = i
        BY <1>1, <1>3, <4>1
      <4>2. CASE j # i
        <5>1. j \in RowsOf(ls, e) /\ ns[j] = ls[j]
          BY <1>2, <2>1, <4>2 DEF RowsOf
        <5>2. ls[j].fencingToken \in Nat
          BY <1>5, <5>1 DEF RowsOf, LeaseRows
        <5>3. QED
          BY <1>1, <5>1, <5>2
      <4>3. QED
        BY <4>1, <4>2
    <3>3. QED
      BY <3>1, <3>2 DEF TokensOf
  <2>2. CASE f # e
    <3>1. TokensOf(ns, f) = TokensOf(ls, f)
      BY <1>2, <1>3, <2>2 DEF TokensOf, RowsOf
    <3>2. QED
      BY <3>1 DEF Consistent, HasNewest
  <2>3. QED
    BY <2>1, <2>2
<1>7. ASSUME NEW j \in DOMAIN ls, ls[j].executionId = e
      PROVE  ls[j].fencingToken < top + 1 /\ ls[j].status # "active"
  <2>1. j \in RowsOf(ls, e)
    BY <1>7 DEF RowsOf
  <2>2. ls[j].fencingToken \in Nat
    BY <1>5 DEF LeaseRows
  <2>3. QED
    BY <1>1, <2>1, <2>2 DEF ActiveRows
<1>8. NewestHolds(ns)
  BY <1>2, <1>3, <1>7 DEF Consistent, NewestHolds, ActiveIds, RowsOf
<1>9. TokensDiffer(ns)
  <2> SUFFICES ASSUME NEW j \in DOMAIN ns, NEW k \in DOMAIN ns,
                      ns[j].executionId = ns[k].executionId,
                      ns[j].fencingToken = ns[k].fencingToken, j # k
               PROVE  FALSE
    BY DEF TokensDiffer
  <2>1. CASE j # i /\ k # i
    BY <1>2, <2>1 DEF Consistent, TokensDiffer
  <2>2. CASE j = i \/ k = i
    <3>1. PICK l \in DOMAIN ls : ls[l].executionId = e /\ ls[l].fencingToken = top + 1
      BY <1>2, <1>3, <2>2
    <3>2. QED
      BY <1>1, <1>7, <3>1
  <2>3. QED
    BY <2>1, <2>2
<1>10. QED
  BY <1>2, <1>4, <1>6, <1>8, <1>9 DEF Consistent, ns, top

(* Changing nothing but expiries keeps a table consistent.                 *)
LEMMA ExpiryIsIrrelevant ==
  ASSUME NEW ls, Consistent(ls), NEW ns,
         ns \in [DOMAIN ls -> LeaseRows],
         \A i \in DOMAIN ls : /\ ns[i].executionId = ls[i].executionId
                              /\ ns[i].workerId = ls[i].workerId
                              /\ ns[i].fencingToken = ls[i].fencingToken
                              /\ ns[i].status = ls[i].status
  PROVE  /\ Consistent(ns)
         /\ Continues(ls, ns)
         /\ \A log : AuditExplains(ls, log) => AuditExplains(ns, log)
<1>1. DOMAIN ns = DOMAIN ls
  OBVIOUS
<1>2. \A e : TokensOf(ns, e) = TokensOf(ls, e)
  BY <1>1 DEF TokensOf, RowsOf
<1>3. HasNewest(ns)
  BY <1>2 DEF Consistent, HasNewest
<1>4. NewestHolds(ns) /\ TokensDiffer(ns)
  BY <1>1 DEF Consistent, NewestHolds, TokensDiffer, ActiveIds, RowsOf
<1>5. Continues(ls, ns)
  BY <1>1 DEF Continues
<1>6. \A log : AuditExplains(ls, log) => AuditExplains(ns, log)
  BY <1>1 DEF AuditExplains
<1>7. QED
  BY <1>1, <1>3, <1>4, <1>5, <1>6 DEF Consistent

(* Closing active rows with the audit rows that say so.                    *)
LEMMA CloseIsAudited ==
  ASSUME NEW ls, Consistent(ls), NEW log, AuditExplains(ls, log),
         NEW ids \in SUBSET ActiveIds(ls), NEW st, NEW event,
         \/ st = "released"  /\ event = "lease_released"
         \/ st = "expired"   /\ event = "lease_expired"
         \/ st = "reclaimed" /\ event = "lease_reclaimed"
  PROVE  /\ Continues(ls, CloseLeases(ls, ids, st))
         /\ AuditExplains(CloseLeases(ls, ids, st), log \cup Events(ids, event))
<1> DEFINE cs == CloseLeases(ls, ids, st)
<1>1. DOMAIN cs = DOMAIN ls
  BY DEF CloseLeases
<1>2. ASSUME NEW i \in DOMAIN ls
      PROVE  /\ cs[i].executionId = ls[i].executionId
             /\ cs[i].workerId = ls[i].workerId
             /\ cs[i].fencingToken = ls[i].fencingToken
             /\ i \in ids => ls[i].status = "active" /\ cs[i].status = st
             /\ i \notin ids => cs[i].status = ls[i].status
  BY DEF CloseLeases, LeaseRow, ActiveIds
<1> HIDE DEF cs
<1>3. Continues(ls, cs)
  BY <1>1, <1>2 DEF Continues
<1>4. ASSUME NEW i \in DOMAIN cs
      PROVE  /\ <<i, "lease_granted">> \in log \cup Events(ids, event)
             /\ <<i, "lease_released">>  \in log \cup Events(ids, event) <=> cs[i].status = "released"
             /\ <<i, "lease_expired">>   \in log \cup Events(ids, event) <=> cs[i].status = "expired"
             /\ <<i, "lease_reclaimed">> \in log \cup Events(ids, event) <=> cs[i].status = "reclaimed"
  <2>1. \A ev : <<i, ev>> \in log \cup Events(ids, event)
                <=> <<i, ev>> \in log \/ (i \in ids /\ ev = event)
    BY DEF Events
  <2>2. QED
    BY <1>1, <1>2, <2>1 DEF AuditExplains
<1>5. AuditExplains(cs, log \cup Events(ids, event))
  BY <1>4 DEF AuditExplains
<1>6. QED
  BY <1>3, <1>5 DEF cs

(* Granting a fresh row with its grant row, and a handover row if any.     *)
LEMMA InsertIsAudited ==
  ASSUME NEW ls, Consistent(ls), NEW log, AuditExplains(ls, log),
         log \subseteq (DOMAIN ls) \X AuditEvents,
         NEW i \in LeaseIds, i \notin DOMAIN ls,
         NEW e \in Executions, ActiveRows(ls, e) = {}, NEW w \in Workers, NEW x \in Int,
         NEW extra \in SUBSET {<<i, "lease_handover">>}
  PROVE  /\ Continues(ls, InsertLease(ls, i, e, w, x))
         /\ AuditExplains(InsertLease(ls, i, e, w, x),
                          log \cup {<<i, "lease_granted">>} \cup extra)
<1> DEFINE ns == InsertLease(ls, i, e, w, x)
           new == log \cup {<<i, "lease_granted">>} \cup extra
<1>1. /\ DOMAIN ns = DOMAIN ls \cup {i}
      /\ ns[i].status = "active"
      /\ \A j \in DOMAIN ls : ns[j] = ls[j]
  BY DEF InsertLease, LeaseRow
<1> HIDE DEF ns
<1>2. Continues(ls, ns)
  BY <1>1 DEF Continues
<1>3. \A ev : <<i, ev>> \notin log
  OBVIOUS
<1>4. \A j \in DOMAIN ls, ev \in AuditEvents : <<j, ev>> \in new <=> <<j, ev>> \in log
  OBVIOUS
<1>5. AuditExplains(ns, new)
  BY <1>1, <1>3, <1>4 DEF AuditExplains, AuditEvents
<1>6. QED
  BY <1>2, <1>5 DEF ns

-----------------------------------------------------------------------------
(* Worker snapshots *)

SnapshotTable(ws) == DOMAIN ws \subseteq Workers /\ ws \in [DOMAIN ws -> Snapshots]

(* A refresh writes a well-formed snapshot.                                *)
LEMMA RefreshedIsSnapshot ==
  ASSUME NEW s \in Snapshots, NEW run \in SUBSET Executions
  PROVE  Refreshed(s, run) \in Snapshots
<1>1. ToWorkerStatus(s, run) \in WorkerStatuses
  BY DEF ToWorkerStatus, Snapshots, WorkerStatuses
<1>2. QED
  BY <1>1 DEF Refreshed, Snapshots

(* Adding or removing an execution keeps the snapshot table well formed.   *)
LEMMA RefreshKeepsTable ==
  ASSUME NEW ws, SnapshotTable(ws), NEW w, NEW e \in Executions
  PROVE  SnapshotTable(RemoveExecution(ws, w, e)) /\ SnapshotTable(MergeExecution(ws, w, e))
<1>1. ASSUME NEW run \in SUBSET Executions PROVE SnapshotTable(RefreshIn(ws, w, run))
  <2>1. CASE w \in DOMAIN ws
    <3>1. Refreshed(ws[w], run) \in Snapshots
      BY <2>1, RefreshedIsSnapshot DEF SnapshotTable
    <3>2. QED
      BY <2>1, <3>1 DEF SnapshotTable, RefreshIn
  <2>2. QED
    BY <2>1 DEF SnapshotTable, RefreshIn
<1>2. CASE w \in DOMAIN ws
  <2>1. ws[w].running \in SUBSET Executions
    BY <1>2 DEF SnapshotTable, Snapshots
  <2>2. QED
    BY <1>1, <1>2, <2>1 DEF RemoveExecution, MergeExecution
<1>3. QED
  BY <1>2 DEF RemoveExecution, MergeExecution

(* So do reclaiming any set of leases and the passing of time.             *)
LEMMA ReclaimKeepsTable ==
  ASSUME NEW ws, SnapshotTable(ws), NEW ids
  PROVE  SnapshotTable(ReclaimedFrom(ws, ids)) /\ SnapshotTable(Aged(ws))
<1>1. ASSUME NEW w \in DOMAIN ws
      PROVE  ReclaimedFrom(ws, ids)[w] \in Snapshots
  <2> DEFINE lost == {leases[i].executionId : i \in {j \in ids : leases[j].workerId = w}}
  <2>1. ws[w] \in Snapshots /\ ws[w].running \ lost \in SUBSET Executions
    BY DEF SnapshotTable, Snapshots
  <2>2. Refreshed(ws[w], ws[w].running \ lost) \in Snapshots
    BY <2>1, RefreshedIsSnapshot
  <2>3. QED
    BY <2>1, <2>2 DEF ReclaimedFrom
<1>2. SnapshotTable(ReclaimedFrom(ws, ids))
  BY <1>1 DEF SnapshotTable, ReclaimedFrom
<1>3. \A w \in DOMAIN ws : AgeBy1(ws[w]) \in Snapshots
  BY DEF SnapshotTable, Snapshots, AgeBy1
<1>4. QED
  BY <1>2, <1>3 DEF SnapshotTable, Aged

-----------------------------------------------------------------------------
(* The inductive invariant *)

(* The token of the last accepted write was granted for its execution.     *)
AcceptedIsIssued ==
  \A e \in Executions : accepted[e] \in TokensOf(leases, e) \cup {0}

LeaseInv ==
  /\ TypeOK
  /\ Consistent(leases)
  /\ AuditExplainsLease
  /\ AcceptedIsIssued

(* What every transaction does to the lease table and its audit trail.     *)
TableStep ==
  /\ Consistent(leases')
  /\ Continues(leases, leases')
  /\ AuditExplains(leases', audits')
  /\ audits' \subseteq (DOMAIN leases') \X AuditEvents

(* Versions of the table compose.                                          *)
LEMMA ContinuesTransitive ==
  ASSUME NEW a, NEW b, NEW c, Continues(a, b), Continues(b, c)
  PROVE  Continues(a, c)
BY DEF Continues

(* A transaction that leaves leases and audits alone.                      *)
LEMMA NoTableChange ==
  ASSUME LeaseInv, leases' = leases, audits' = audits
  PROVE  TableStep
BY DEF LeaseInv, TableStep, Continues, AuditExplainsLease, TypeOK

(* Closing active leases with the matching audit rows.                     *)
LEMMA ClosingStep ==
  ASSUME LeaseInv, NEW ids \in SUBSET ActiveIds(leases), NEW st, NEW event,
         \/ st = "released"  /\ event = "lease_released"
         \/ st = "expired"   /\ event = "lease_expired"
         \/ st = "reclaimed" /\ event = "lease_reclaimed",
         leases' = CloseLeases(leases, ids, st),
         audits' = audits \cup Events(ids, event)
  PROVE  TableStep
<1>1. st \in LeaseStatuses /\ st # "active" /\ event \in AuditEvents
  BY DEF LeaseStatuses, AuditEvents
<1>2. Consistent(leases') /\ DOMAIN leases' = DOMAIN leases
  BY <1>1, CloseKeepsConsistent DEF LeaseInv
<1>3. Continues(leases, leases') /\ AuditExplains(leases', audits')
  BY CloseIsAudited DEF LeaseInv, AuditExplainsLease
<1>4. Events(ids, event) \subseteq (DOMAIN leases) \X AuditEvents
  BY <1>1 DEF Events, ActiveIds
<1>5. QED
  BY <1>2, <1>3, <1>4 DEF TableStep, LeaseInv, TypeOK

(* Closing some leases of e, so that none is active, and granting a new    *)
(* one: the table part of acquireLease and handoverLease.                  *)
LEMMA GrantingStep ==
  ASSUME LeaseInv, NEW e \in Executions, NEW w \in Workers, NEW x \in Int,
         NEW ids \in SUBSET ActiveIds(leases), NEW st, NEW event,
         \/ st = "released" /\ event = "lease_released"
         \/ st = "expired"  /\ event = "lease_expired",
         ActiveRows(CloseLeases(leases, ids, st), e) = {},
         UnusedIds # {},
         NEW extra \in SUBSET {<<NewId, "lease_handover">>},
         leases' = InsertLease(CloseLeases(leases, ids, st), NewId, e, w, x),
         audits' = (audits \cup Events(ids, event)) \cup {<<NewId, "lease_granted">>} \cup extra
  PROVE  TableStep
<1> DEFINE cs == CloseLeases(leases, ids, st)
           log == audits \cup Events(ids, event)
<1>1. st \in LeaseStatuses /\ st # "active" /\ event \in AuditEvents
  BY DEF LeaseStatuses, AuditEvents
<1>2. Consistent(cs) /\ DOMAIN cs = DOMAIN leases
  BY <1>1, CloseKeepsConsistent DEF LeaseInv
<1>3. Continues(leases, cs) /\ AuditExplains(cs, log)
  BY CloseIsAudited DEF LeaseInv, AuditExplainsLease
<1>4. NewId \in LeaseIds /\ NewId \notin DOMAIN cs
  BY <1>2, Zenon DEF UnusedIds, NewId
<1>5. log \subseteq (DOMAIN cs) \X AuditEvents
  BY <1>1, <1>2 DEF Events, ActiveIds, LeaseInv, TypeOK
<1> HIDE DEF cs, log
<1>6. Consistent(leases') /\ DOMAIN leases' = DOMAIN cs \cup {NewId}
  BY <1>2, <1>4, InsertKeepsConsistent DEF cs
<1>7. Continues(cs, leases') /\ AuditExplains(leases', audits')
  BY <1>2, <1>3, <1>4, <1>5, InsertIsAudited DEF cs, log
<1>8. Continues(leases, leases')
  BY <1>3, <1>7, ContinuesTransitive
<1>9. audits' \subseteq (DOMAIN leases') \X AuditEvents
  BY <1>5, <1>6 DEF log, AuditEvents
<1>10. QED
  BY <1>6, <1>7, <1>8, <1>9 DEF TableStep

(* acquireLease keeps the table consistent and explained.                  *)
LEMMA AcquireStep ==
  ASSUME LeaseInv, NEW e \in Executions, NEW w \in Workers,
         NEW ttl \in RequestedTtls, NEW d \in Offsets, AcquireLease(e, w, ttl, d)
  PROVE  TableStep
<1> DEFINE gone == Outlived(e, d)
           swept == CloseLeases(leases, gone, "expired")
<1>1. gone \in SUBSET ActiveIds(leases)
  BY DEF Outlived, ActiveRows, RowsOf, ActiveIds
<1>2. d + ttl \in Int
  BY LeaseAssumption DEF Offsets
<1>3. CASE Expire(gone)
  BY <1>1, <1>3, ClosingStep DEF Expire
<1>4. CASE /\ ActiveRows(swept, e) = {}
           /\ UnusedIds # {}
           /\ leases' = InsertLease(swept, NewId, e, w, d + ttl)
           /\ audits' = audits \cup Events(gone, "lease_expired") \cup {<<NewId, "lease_granted">>}
  <2>1. audits' = (audits \cup Events(gone, "lease_expired")) \cup {<<NewId, "lease_granted">>} \cup {}
    BY <1>4
  <2>2. QED
    BY <1>1, <1>2, <1>4, <2>1, GrantingStep
<1>5. QED
  BY <1>3, <1>4 DEF AcquireLease

(* So does handoverLease.                                                  *)
LEMMA HandoverStep ==
  ASSUME LeaseInv, NEW i \in LeaseIds, NEW w \in Workers, NEW required \in SUBSET Features,
         NEW ttl \in RequestedTtls, NEW d \in Offsets, HandoverLease(i, w, required, ttl, d)
  PROVE  TableStep
<1> DEFINE e == leases[i].executionId
           cs == CloseLeases(leases, {i}, "released")
<1>1. i \in ActiveIds(leases) /\ {i} \in SUBSET ActiveIds(leases)
  BY DEF HandoverLease
<1>2. d + ttl \in Int
  BY LeaseAssumption DEF Offsets
<1>3. e \in Executions
  BY <1>1 DEF LeaseInv, TypeOK, ActiveIds, LeaseRows
<1>4. CASE Expire({i})
  BY <1>1, <1>4, ClosingStep DEF Expire
<1>5. CASE /\ UnusedIds # {}
           /\ leases' = InsertLease(cs, NewId, e, w, d + ttl)
           /\ audits' = audits \cup {<<i, "lease_released">>, <<NewId, "lease_granted">>,
                                      <<NewId, "lease_handover">>}
  <2>1. ActiveRows(leases, e) \subseteq {i}
    <3> SUFFICES ASSUME NEW j \in ActiveRows(leases, e), j # i PROVE FALSE
      OBVIOUS
    <3>1. /\ i \in ActiveIds(leases) /\ j \in ActiveIds(leases)
          /\ i \in RowsOf(leases, leases[j].executionId)
          /\ j \in RowsOf(leases, leases[i].executionId)
      BY <1>1 DEF ActiveRows, ActiveIds, RowsOf
    <3>2. leases[i].fencingToken \in Nat /\ leases[j].fencingToken \in Nat
      BY <3>1 DEF LeaseInv, TypeOK, LeaseRows, ActiveIds
    <3>3. QED
      BY <3>1, <3>2 DEF LeaseInv, Consistent, NewestHolds
  <2>2. ActiveRows(cs, e) = {}
    <3>1. "released" \in LeaseStatuses
      BY DEF LeaseStatuses
    <3>2. ActiveRows(cs, e) = ActiveRows(leases, e) \ {i}
      BY <3>1, CloseKeepsConsistent DEF LeaseInv
    <3>3. QED
      BY <2>1, <3>2
  <2>3. audits' = (audits \cup Events({i}, "lease_released"))
                    \cup {<<NewId, "lease_granted">>} \cup {<<NewId, "lease_handover">>}
    BY <1>5 DEF Events
  <2>4. QED
    BY <1>1, <1>2, <1>3, <1>5, <2>2, <2>3, GrantingStep
<1>6. QED
  BY <1>4, <1>5 DEF HandoverLease

(* renewLease closes an outlived lease or moves its expiry.                *)
LEMMA RenewStep ==
  ASSUME LeaseInv, NEW i \in LeaseIds, NEW ttl \in RequestedTtls, NEW d \in Offsets,
         RenewLease(i, ttl, d)
  PROVE  TableStep
<1>1. i \in ActiveIds(leases) /\ {i} \in SUBSET ActiveIds(leases) /\ i \in DOMAIN leases
  BY DEF RenewLease, ActiveIds
<1>2. CASE Expire({i})
  BY <1>1, <1>2, ClosingStep DEF Expire
<1>3. CASE leases' = RenewLeaseRow(leases, i, d + ttl) /\ UNCHANGED audits
  <2>1. d + ttl \in Int
    BY LeaseAssumption DEF Offsets
  <2>2. leases \in [DOMAIN leases -> LeaseRows]
    BY DEF LeaseInv, TypeOK
  <2>3. ASSUME NEW j \in DOMAIN leases
        PROVE  /\ leases'[j] \in LeaseRows
               /\ leases'[j].executionId = leases[j].executionId
               /\ leases'[j].workerId = leases[j].workerId
               /\ leases'[j].fencingToken = leases[j].fencingToken
               /\ leases'[j].status = leases[j].status
    BY <1>1, <1>3, <2>1, <2>2 DEF RenewLeaseRow, LeaseRows
  <2>4. leases' \in [DOMAIN leases -> LeaseRows]
    BY <1>3, <2>2, <2>3 DEF RenewLeaseRow
  <2>5. /\ Consistent(leases') /\ Continues(leases, leases')
        /\ AuditExplains(leases', audits)
    BY <2>3, <2>4, ExpiryIsIrrelevant DEF LeaseInv, AuditExplainsLease
  <2>6. QED
    BY <1>3, <2>4, <2>5 DEF TableStep, LeaseInv, TypeOK
<1>4. QED
  BY <1>2, <1>3 DEF RenewLease

(* The clock moves expiries only.                                          *)
LEMMA TickStep ==
  ASSUME LeaseInv, Tick
  PROVE  TableStep
<1>1. leases \in [DOMAIN leases -> LeaseRows]
  BY DEF LeaseInv, TypeOK
<1>2. leases' = Elapsed(leases, Horizon) /\ audits' = audits
  BY DEF Tick
<1>3. ASSUME NEW j \in DOMAIN leases
      PROVE  /\ leases'[j] \in LeaseRows
             /\ leases'[j].executionId = leases[j].executionId
             /\ leases'[j].workerId = leases[j].workerId
             /\ leases'[j].fencingToken = leases[j].fencingToken
             /\ leases'[j].status = leases[j].status
  BY <1>1, <1>2 DEF Elapsed, LeaseRows
<1>4. leases' \in [DOMAIN leases -> LeaseRows]
  BY <1>2, <1>3 DEF Elapsed
<1>5. /\ Consistent(leases') /\ Continues(leases, leases')
      /\ AuditExplains(leases', audits)
  BY <1>3, <1>4, ExpiryIsIrrelevant DEF LeaseInv, AuditExplainsLease
<1>6. QED
  BY <1>2, <1>4, <1>5 DEF TableStep, LeaseInv, TypeOK

(* Every step of the specification.                                        *)
LEMMA EveryStepKeepsTable ==
  ASSUME LeaseInv, [Next]_vars
  PROVE  TableStep
<1>1. CASE UNCHANGED vars \/ RegistryNext
  BY <1>1, NoTableChange DEF vars, RegistryNext, leaseVars
<1>2. ASSUME NEW i \in LeaseIds, ReleaseLease(i) PROVE TableStep
  <2>1. {i} \in SUBSET ActiveIds(leases) /\ audits' = audits \cup Events({i}, "lease_released")
    BY <1>2 DEF ReleaseLease, Events
  <2>2. QED
    BY <1>2, <2>1, ClosingStep DEF ReleaseLease
<1>3. ASSUME NEW ids \in SUBSET ActiveIds(leases), Reclaim(ids) PROVE TableStep
  BY <1>3, ClosingStep DEF Reclaim
<1>4. ASSUME NEW d \in Offsets, ReclaimExpiredLeases(d) PROVE TableStep
  BY <1>3, <1>4 DEF ReclaimExpiredLeases, ExpiredIds
<1>5. ASSUME NEW e \in Executions, ReclaimActiveLease(e) PROVE TableStep
  BY <1>3, <1>5 DEF ReclaimActiveLease, ActiveRows, RowsOf, ActiveIds
<1>6. ASSUME NEW i \in LeaseIds, NEW byId \in BOOLEAN, NEW d \in Offsets,
             ValidateWriteAccess(i, byId, d)
      PROVE  TableStep
  BY <1>6, NoTableChange DEF ValidateWriteAccess
<1>7. ASSUME NEW r \in Regions \cup {NoRegion}, LeadershipChanges(r) PROVE TableStep
  BY <1>7, NoTableChange DEF LeadershipChanges
<1>8. QED
  BY <1>1, <1>2, <1>4, <1>5, <1>6, <1>7, AcquireStep, RenewStep, HandoverStep, TickStep
     DEF Next, LeaseNext

(* Snapshots stay well formed.                                             *)
LEMMA EveryStepKeepsSnapshots ==
  ASSUME TypeOK, [Next]_vars
  PROVE  SnapshotTable(workers')
<1>1. SnapshotTable(workers)
  BY DEF TypeOK, RegistryTypeOK, Registered, SnapshotTable
<1>2. CASE workers' = workers
  BY <1>1, <1>2
<1>3. ASSUME NEW w \in Workers, NEW st \in ReportedStatuses, NEW run \in SUBSET Executions,
             RecordHeartbeat(w, st, run)
      PROVE  SnapshotTable(workers')
  <2>1. [status |-> st, running |-> run, silence |-> 0,
         verified |-> w \in Registered /\ workers[w].verified] \in Snapshots
    BY RegistryAssumption DEF Snapshots
  <2>2. QED
    BY <1>1, <1>3, <2>1 DEF RecordHeartbeat, SnapshotTable, Registered
<1>4. ASSUME NEW w \in Workers, VerifyRemoteWorkerRegistration(w)
      PROVE  SnapshotTable(workers')
  <2>1. [status   |-> IF w \in Registered THEN workers[w].status  ELSE "idle",
         running  |-> IF w \in Registered THEN workers[w].running ELSE {},
         silence  |-> 0, verified |-> TRUE] \in Snapshots
    BY <1>1 DEF Snapshots, SnapshotTable, Registered, WorkerStatuses
  <2>2. QED
    BY <1>1, <1>4, <2>1 DEF VerifyRemoteWorkerRegistration, SnapshotTable, Registered
<1>5. CASE SweepStaleWorkerHeartbeats
  <2>1. \A w \in Registered : [workers[w] EXCEPT !.status = "offline"] \in Snapshots
    BY <1>1 DEF Snapshots, SnapshotTable, Registered, WorkerStatuses
  <2>2. QED
    BY <1>1, <1>5, <2>1 DEF SweepStaleWorkerHeartbeats, SnapshotTable, Registered
<1>6. ASSUME NEW i \in LeaseIds, NEW w \in Workers, NEW required \in SUBSET Features,
             NEW ttl \in RequestedTtls, NEW d \in Offsets, HandoverLease(i, w, required, ttl, d)
      PROVE  SnapshotTable(workers')
  <2> DEFINE e == leases[i].executionId
             ws == RemoveExecution(workers, leases[i].workerId, e)
  <2>1. e \in Executions
    BY <1>6 DEF HandoverLease, ActiveIds, TypeOK, LeaseRows
  <2>2. SnapshotTable(ws)
    BY <1>1, <2>1, RefreshKeepsTable
  <2> HIDE DEF ws
  <2>3. SnapshotTable(MergeExecution(ws, w, e))
    BY <2>1, <2>2, RefreshKeepsTable
  <2>4. QED
    BY <1>2, <1>6, <2>3 DEF HandoverLease, ws
<1>7. ASSUME NEW ids, Reclaim(ids) PROVE SnapshotTable(workers')
  BY <1>1, <1>7, ReclaimKeepsTable DEF Reclaim
<1>8. CASE Tick
  BY <1>1, <1>8, ReclaimKeepsTable DEF Tick
<1>9. CASE RegistryNext
  BY <1>3, <1>4, <1>5, <1>9 DEF RegistryNext
<1>10. CASE LeaseNext
  BY <1>2, <1>6, <1>7, <1>8, <1>10
     DEF LeaseNext, AcquireLease, RenewLease, ReleaseLease, ReclaimExpiredLeases,
         ReclaimActiveLease, ValidateWriteAccess, LeadershipChanges
<1>11. QED
  BY <1>2, <1>9, <1>10 DEF Next, vars

(* Agents, leadership and accepted tokens stay well typed.                 *)
LEMMA EveryStepKeepsScalars ==
  ASSUME TypeOK, [Next]_vars
  PROVE  /\ agent' \in [Executions -> Workers \cup {NoAgent}]
         /\ leaderRegion' \in Regions \cup {NoRegion}
         /\ accepted' \in [Executions -> Nat]
<1>1. \A i \in DOMAIN leases : leases[i].executionId \in Executions /\ leases[i].fencingToken \in Nat
  BY DEF TypeOK, LeaseRows
<1>2. agent' \in [Executions -> Workers \cup {NoAgent}]
  BY <1>1 DEF TypeOK, vars, leaseVars, Next, RegistryNext, LeaseNext, AcquireLease, RenewLease,
          ReleaseLease, HandoverLease, ReclaimExpiredLeases, ReclaimActiveLease,
          ValidateWriteAccess, LeadershipChanges, Tick
<1>3. leaderRegion' \in Regions \cup {NoRegion}
  BY DEF TypeOK, vars, leaseVars, Next, RegistryNext, LeaseNext, AcquireLease, RenewLease,
          ReleaseLease, HandoverLease, ReclaimExpiredLeases, ReclaimActiveLease,
          ValidateWriteAccess, LeadershipChanges, Tick
<1>4. accepted' \in [Executions -> Nat]
  BY <1>1 DEF TypeOK, vars, leaseVars, Next, RegistryNext, LeaseNext, AcquireLease, RenewLease,
          ReleaseLease, HandoverLease, ReclaimExpiredLeases, ReclaimActiveLease,
          ValidateWriteAccess, LeadershipChanges, Tick
<1>5. QED
  BY <1>2, <1>3, <1>4

(* Tokens are never withdrawn, so an accepted one stays an issued one.     *)
LEMMA TokensGrow ==
  ASSUME NEW ls, NEW ns, Continues(ls, ns), NEW e
  PROVE  TokensOf(ls, e) \subseteq TokensOf(ns, e)
BY DEF Continues, TokensOf, RowsOf

(* Only validateWriteAccess moves accepted, and to an issued token.        *)
LEMMA AcceptedMoves ==
  ASSUME TypeOK, [Next]_vars
  PROVE  \/ accepted' = accepted
         \/ \E i \in DOMAIN leases, byId \in BOOLEAN, d \in Offsets :
              ValidateWriteAccess(i, byId, d)
BY DEF TypeOK, vars, leaseVars, Next, RegistryNext, LeaseNext, AcquireLease, RenewLease,
       ReleaseLease, HandoverLease, ReclaimExpiredLeases, ReclaimActiveLease,
       ValidateWriteAccess, LeadershipChanges, Tick

(* The inductive step.                                                     *)
LEMMA LeaseInvStep ==
  ASSUME LeaseInv, [Next]_vars
  PROVE  LeaseInv'
<1>1. TableStep
  BY EveryStepKeepsTable
<1>2. TypeOK'
  BY <1>1, EveryStepKeepsSnapshots, EveryStepKeepsScalars
     DEF LeaseInv, TypeOK, RegistryTypeOK, Registered, SnapshotTable, TableStep, Consistent
<1>3. AcceptedIsIssued'
  <2> SUFFICES ASSUME NEW e \in Executions
               PROVE  accepted'[e] \in TokensOf(leases', e) \cup {0}
    BY DEF AcceptedIsIssued
  <2>1. TokensOf(leases, e) \subseteq TokensOf(leases', e)
    BY <1>1, TokensGrow DEF TableStep
  <2>2. accepted'[e] \in TokensOf(leases, e) \cup {0}
    <3>1. CASE accepted' = accepted
      BY <3>1 DEF LeaseInv, AcceptedIsIssued
    <3>2. ASSUME NEW i \in DOMAIN leases, NEW byId \in BOOLEAN, NEW d \in Offsets,
                 ValidateWriteAccess(i, byId, d)
          PROVE  accepted'[e] \in TokensOf(leases, e) \cup {0}
      BY <3>2 DEF ValidateWriteAccess, LeaseInv, AcceptedIsIssued, TypeOK, TokensOf, RowsOf
    <3>3. QED
      BY <3>1, <3>2, AcceptedMoves DEF LeaseInv
  <2>3. QED
    BY <2>1, <2>2
<1>4. QED
  BY <1>1, <1>2, <1>3 DEF LeaseInv, TableStep, AuditExplainsLease

(* The empty tables satisfy the invariant.                                 *)
LEMMA LeaseInvInit ==
  ASSUME Init
  PROVE  LeaseInv
<1>1. DOMAIN leases = {} /\ DOMAIN workers = {}
  BY DEF Init, RegistryInit, LeaseInit
<1>2. TypeOK
  BY <1>1 DEF Init, RegistryInit, LeaseInit, TypeOK, RegistryTypeOK, Registered
<1>3. \A e : TokensOf(leases, e) = {}
  BY <1>1 DEF TokensOf, RowsOf
<1>4. Consistent(leases)
  BY <1>1, <1>2, <1>3
     DEF Consistent, TypeOK, HasNewest, NewestHolds, TokensDiffer, ActiveIds
<1>5. AuditExplainsLease /\ AcceptedIsIssued
  BY <1>1 DEF AuditExplainsLease, AuditExplains, AcceptedIsIssued, Init, LeaseInit
<1>6. QED
  BY <1>2, <1>4, <1>5 DEF LeaseInv

(* The inductive invariant holds in every reachable state.                 *)
THEOREM InvariantHolds == Spec => []LeaseInv
<1>1. Init => LeaseInv
  BY LeaseInvInit
<1>2. LeaseInv /\ [Next]_vars => LeaseInv'
  BY LeaseInvStep
<1>3. QED
  BY <1>1, <1>2, PTL DEF Spec

(* Every row, snapshot and history value has its type.                     *)
THEOREM TypeCorrect == Spec => []TypeOK
<1>1. LeaseInv => TypeOK
  BY DEF LeaseInv
<1>2. QED
  BY <1>1, InvariantHolds, PTL

(* The holder of an active lease has the highest token of its execution:   *)
(* acquireLease and handoverLease never leave two active leases behind.    *)
THEOREM TopTokenHolds == Spec => []HolderHasTopToken
<1>1. LeaseInv => HolderHasTopToken
  BY DEF LeaseInv, Consistent, HolderHasTopToken
<1>2. QED
  BY <1>1, InvariantHolds, PTL

(* No fencing token is issued twice for an execution.                      *)
THEOREM TokensNeverShared == Spec => []TokensUnique
<1>1. LeaseInv => TokensUnique
  BY DEF LeaseInv, Consistent, TokensUnique
<1>2. QED
  BY <1>1, InvariantHolds, PTL

(* The audit rows account for the status of every lease.                   *)
THEOREM AuditComplete == Spec => []AuditExplainsLease
<1>1. LeaseInv => AuditExplainsLease
  BY DEF LeaseInv
<1>2. QED
  BY <1>1, InvariantHolds, PTL

(* No operation reopens, re-closes or reassigns a closed lease.            *)
THEOREM ClosedIsFinal == Spec => ClosedLeasesAreFinal
<1>1. LeaseInv /\ [Next]_vars => [Continues(leases, leases')]_vars
  BY EveryStepKeepsTable DEF TableStep
<1>2. QED
  BY <1>1, InvariantHolds, PTL DEF Spec, ClosedLeasesAreFinal

(* A write goes through only with the newest token of its execution.       *)
LEMMA AcceptedIsNewest ==
  ASSUME LeaseInv, [Next]_vars, NEW e \in Executions, accepted'[e] # accepted[e]
  PROVE  accepted'[e] = LatestFencingToken(leases, e)
<1>1. PICK i \in DOMAIN leases, byId \in BOOLEAN, d \in Offsets : ValidateWriteAccess(i, byId, d)
  BY AcceptedMoves DEF LeaseInv
<1>2. leases[i].executionId = e /\ accepted'[e] = leases[i].fencingToken
  BY <1>1 DEF ValidateWriteAccess, LeaseInv, TypeOK
<1>3. PICK a \in ActiveRows(leases, e) : leases[a].fencingToken = accepted'[e]
  BY <1>1, <1>2 DEF ValidateWriteAccess, WriteAllowed
<1>4. a \in RowsOf(leases, e) /\ a \in ActiveIds(leases) /\ leases[a].executionId = e
  BY <1>3 DEF ActiveRows, ActiveIds, RowsOf
<1>5. \A j \in RowsOf(leases, e) : leases[j].fencingToken \in Nat
                                    /\ leases[j].fencingToken <= leases[a].fencingToken
  BY <1>4 DEF LeaseInv, Consistent, NewestHolds, LeaseRows, RowsOf
<1>6. /\ LatestFencingToken(leases, e) \in TokensOf(leases, e) \cup {0}
      /\ leases[a].fencingToken <= LatestFencingToken(leases, e)
      /\ LatestFencingToken(leases, e) \in Nat
  BY <1>4, LatestIsNewest DEF LeaseInv
<1>7. LatestFencingToken(leases, e) <= leases[a].fencingToken
  BY <1>4, <1>5, <1>6 DEF TokensOf
<1>8. QED
  BY <1>3, <1>4, <1>5, <1>6, <1>7

(* validateWriteAccess lets only the newest token write.                   *)
THEOREM NewestTokenWrites == Spec => OnlyNewestTokenWrites
<1>1. LeaseInv /\ [Next]_vars =>
        [\A e \in Executions :
           accepted'[e] # accepted[e] => accepted'[e] = LatestFencingToken(leases, e)]_vars
  BY AcceptedIsNewest
<1>2. QED
  BY <1>1, InvariantHolds, PTL DEF Spec, OnlyNewestTokenWrites

(* Tokens of accepted writes never go down.                                *)
THEOREM WritesNeverRegress == Spec => AcceptedWritesNeverRegress
<1>1. ASSUME LeaseInv, [Next]_vars, NEW e \in Executions
      PROVE  accepted'[e] >= accepted[e]
  <2>1. accepted[e] \in Nat /\ accepted[e] \in TokensOf(leases, e) \cup {0}
    BY <1>1 DEF LeaseInv, TypeOK, AcceptedIsIssued
  <2>2. /\ LatestFencingToken(leases, e) \in Nat
        /\ \A i \in RowsOf(leases, e) : leases[i].fencingToken <= LatestFencingToken(leases, e)
    BY <1>1, LatestIsNewest DEF LeaseInv
  <2>3. accepted[e] <= LatestFencingToken(leases, e)
    BY <2>1, <2>2 DEF TokensOf
  <2>4. CASE accepted'[e] = accepted[e]
    BY <2>1, <2>4
  <2>5. CASE accepted'[e] # accepted[e]
    BY <2>1, <2>2, <2>3, <2>5, <1>1, AcceptedIsNewest
  <2>6. QED
    BY <2>4, <2>5
<1>2. LeaseInv /\ [Next]_vars => [\A e \in Executions : accepted'[e] >= accepted[e]]_vars
  BY <1>1
<1>3. QED
  BY <1>2, InvariantHolds, PTL DEF Spec, AcceptedWritesNeverRegress

-----------------------------------------------------------------------------
(* Refinement of FencedOwnership *)

Owner(ls) == [e \in Executions |-> HolderOf(ls, e)]
Epoch(ls) == [e \in Executions |-> LatestFencingToken(ls, e)]

(* The holder is the worker of any active row: there is at most one.       *)
LEMMA HolderIsActiveWorker ==
  ASSUME NEW ls, Consistent(ls), NEW e \in Executions, NEW i \in ActiveRows(ls, e)
  PROVE  HolderOf(ls, e) = ls[i].workerId /\ ActiveRows(ls, e) = {i}
<1>1. ASSUME NEW j \in ActiveRows(ls, e), j # i PROVE FALSE
  <2>1. /\ i \in ActiveIds(ls) /\ j \in ActiveIds(ls)
        /\ i \in RowsOf(ls, ls[j].executionId) /\ j \in RowsOf(ls, ls[i].executionId)
    BY DEF ActiveRows, ActiveIds, RowsOf
  <2>2. ls[i].fencingToken \in Nat /\ ls[j].fencingToken \in Nat
    BY <2>1 DEF Consistent, LeaseRows, ActiveIds
  <2>3. QED
    BY <1>1, <2>1, <2>2 DEF Consistent, NewestHolds
<1>2. ActiveRows(ls, e) = {i}
  BY <1>1
<1>3. QED
  BY <1>2 DEF HolderOf

(* Closing leases drops some owners and opens no epoch.                    *)
LEMMA ClosingDrops ==
  ASSUME NEW ls, Consistent(ls), NEW ids, NEW st \in LeaseStatuses, st # "active"
  PROVE  LET cs == CloseLeases(ls, ids, st)
         IN  /\ Epoch(cs) = Epoch(ls)
             /\ \E S \in SUBSET Executions :
                  Owner(cs) = [e \in Executions |-> IF e \in S THEN NoAgent ELSE Owner(ls)[e]]
<1> DEFINE cs == CloseLeases(ls, ids, st)
           S == {e \in Executions : ActiveRows(cs, e) = {}}
<1>1. /\ Consistent(cs)
      /\ \A e : TokensOf(cs, e) = TokensOf(ls, e)
      /\ \A e : ActiveRows(cs, e) = ActiveRows(ls, e) \ ids
  BY CloseKeepsConsistent
<1>2. \A i \in DOMAIN ls : cs[i].workerId = ls[i].workerId
  BY DEF CloseLeases, LeaseRow
<1> HIDE DEF cs
<1>3. Epoch(cs) = Epoch(ls)
  BY <1>1 DEF Epoch, LatestFencingToken
<1>4. ASSUME NEW e \in Executions, ActiveRows(cs, e) # {}
      PROVE  HolderOf(cs, e) = HolderOf(ls, e)
  <2>1. PICK i \in ActiveRows(cs, e) : TRUE
    BY <1>4
  <2>2. i \in ActiveRows(ls, e) /\ i \in DOMAIN ls
    BY <1>1, <2>1 DEF ActiveRows, RowsOf
  <2>3. QED
    BY <1>1, <1>2, <2>1, <2>2, HolderIsActiveWorker
<1>5. \A e \in S : HolderOf(cs, e) = NoAgent
  BY DEF HolderOf
<1>6. Owner(cs) = [e \in Executions |-> IF e \in S THEN NoAgent ELSE Owner(ls)[e]]
  BY <1>4, <1>5 DEF Owner
<1>7. QED
  BY <1>3, <1>6 DEF cs

(* Granting a lease makes its worker the owner in a new epoch.             *)
LEMMA InsertGrants ==
  ASSUME NEW ls, Consistent(ls), NEW i \in LeaseIds, i \notin DOMAIN ls,
         NEW e \in Executions, ActiveRows(ls, e) = {}, NEW w \in Workers, NEW x \in Int
  PROVE  LET ns == InsertLease(ls, i, e, w, x)
         IN  /\ Owner(ns) = [Owner(ls) EXCEPT ![e] = w]
             /\ Epoch(ns) = [Epoch(ls) EXCEPT ![e] = @ + 1]
<1> DEFINE ns == InsertLease(ls, i, e, w, x)
           top == LatestFencingToken(ls, e)
<1>1. /\ Consistent(ns)
      /\ DOMAIN ns = DOMAIN ls \cup {i}
      /\ ns[i] = LeaseRow(e, w, top + 1, "active", x)
      /\ \A j \in DOMAIN ls : ns[j] = ls[j]
  <2>1. Consistent(ns)
    BY InsertKeepsConsistent
  <2>2. QED
    BY <2>1 DEF InsertLease
<1> HIDE DEF ns
<1>2. /\ ns[i].executionId = e /\ ns[i].workerId = w
      /\ ns[i].fencingToken = top + 1 /\ ns[i].status = "active"
  BY <1>1 DEF LeaseRow
<1>3. i \in ActiveRows(ns, e) /\ i \in ActiveIds(ns) /\ i \in RowsOf(ns, e)
  BY <1>1, <1>2 DEF ActiveRows, ActiveIds, RowsOf
<1>4. HolderOf(ns, e) = w
  BY <1>1, <1>2, <1>3, HolderIsActiveWorker
<1>5. LatestFencingToken(ns, e) = top + 1
  <2>1. /\ top \in Nat
        /\ \A j \in RowsOf(ls, e) : ls[j].fencingToken <= top
    BY LatestIsNewest
  <2>2. /\ LatestFencingToken(ns, e) \in TokensOf(ns, e) \cup {0}
        /\ LatestFencingToken(ns, e) \in Nat
        /\ top + 1 <= LatestFencingToken(ns, e)
    BY <1>1, <1>2, <1>3, LatestIsNewest
  <2>3. \A j \in RowsOf(ns, e) : ns[j].fencingToken <= top + 1
    <3>1. \A j \in RowsOf(ls, e) : ls[j].fencingToken \in Nat
      BY DEF Consistent, RowsOf, LeaseRows
    <3>2. \A j \in RowsOf(ns, e) : j = i \/ (j \in RowsOf(ls, e) /\ ns[j] = ls[j])
      BY <1>1 DEF RowsOf
    <3>3. QED
      BY <1>2, <2>1, <3>1, <3>2
  <2>4. QED
    BY <2>1, <2>2, <2>3 DEF TokensOf
<1>6. ASSUME NEW f \in Executions, f # e
      PROVE  HolderOf(ns, f) = HolderOf(ls, f) /\ LatestFencingToken(ns, f) = LatestFencingToken(ls, f)
  <2>1. RowsOf(ns, f) = RowsOf(ls, f)
    BY <1>1, <1>2, <1>6 DEF RowsOf
  <2>2. TokensOf(ns, f) = TokensOf(ls, f)
    BY <1>1, <2>1 DEF TokensOf, RowsOf
  <2>3. ActiveRows(ns, f) = ActiveRows(ls, f)
    BY <1>1, <2>1 DEF ActiveRows, RowsOf
  <2>4. HolderOf(ns, f) = HolderOf(ls, f)
    <3>1. CASE ActiveRows(ls, f) = {}
      BY <2>3, <3>1 DEF HolderOf
    <3>2. CASE ActiveRows(ls, f) # {}
      <4>1. PICK j \in ActiveRows(ls, f) : TRUE
        BY <3>2
      <4>2. ns[j] = ls[j]
        BY <1>1, <4>1 DEF ActiveRows, RowsOf
      <4>3. QED
        BY <1>1, <2>3, <4>1, <4>2, HolderIsActiveWorker
    <3>3. QED
      BY <3>1, <3>2
  <2>5. QED
    BY <2>2, <2>4 DEF LatestFencingToken
<1>7. QED
  BY <1>4, <1>5, <1>6 DEF Owner, Epoch, ns

(* Nobody owns more or less after a step that moves expiries only.         *)
LEMMA ExpiryKeepsOwnership ==
  ASSUME NEW ls, Consistent(ls), NEW ns, Consistent(ns), DOMAIN ns = DOMAIN ls,
         \A i \in DOMAIN ls : /\ ns[i].executionId = ls[i].executionId
                              /\ ns[i].workerId = ls[i].workerId
                              /\ ns[i].fencingToken = ls[i].fencingToken
                              /\ ns[i].status = ls[i].status
  PROVE  Owner(ns) = Owner(ls) /\ Epoch(ns) = Epoch(ls)
<1>1. \A e : TokensOf(ns, e) = TokensOf(ls, e) /\ ActiveRows(ns, e) = ActiveRows(ls, e)
  BY DEF TokensOf, ActiveRows, RowsOf
<1>2. ASSUME NEW e \in Executions PROVE HolderOf(ns, e) = HolderOf(ls, e)
  <2>1. CASE ActiveRows(ls, e) = {}
    BY <1>1, <2>1 DEF HolderOf
  <2>2. CASE ActiveRows(ls, e) # {}
    <3>1. PICK i \in ActiveRows(ls, e) : TRUE
      BY <2>2
    <3>2. ns[i].workerId = ls[i].workerId
      BY <3>1 DEF ActiveRows, RowsOf
    <3>3. QED
      BY <1>1, <3>1, <3>2, HolderIsActiveWorker
  <2>3. QED
    BY <2>1, <2>2
<1>3. QED
  BY <1>1, <1>2 DEF Owner, Epoch, LatestFencingToken

AbstractStep ==
  \/ \E e \in Executions, w \in Workers :
       /\ Owner(leases') = [Owner(leases) EXCEPT ![e] = w]
       /\ Epoch(leases') = [Epoch(leases) EXCEPT ![e] = @ + 1]
       /\ accepted' = accepted
  \/ \E S \in SUBSET Executions :
       /\ Owner(leases') = [e \in Executions |-> IF e \in S THEN NoAgent ELSE Owner(leases)[e]]
       /\ Epoch(leases') = Epoch(leases)
       /\ accepted' = accepted
  \/ \E e \in Executions :
       /\ Owner(leases)[e] # NoAgent
       /\ accepted' = [accepted EXCEPT ![e] = Epoch(leases)[e]]
       /\ Owner(leases') = Owner(leases) /\ Epoch(leases') = Epoch(leases)
  \/ Owner(leases') = Owner(leases) /\ Epoch(leases') = Epoch(leases) /\ accepted' = accepted

(* Closing leases is an abstract Drop.                                     *)
LEMMA CloseRefines ==
  ASSUME LeaseInv, NEW ids, NEW st \in LeaseStatuses, st # "active",
         leases' = CloseLeases(leases, ids, st), accepted' = accepted
  PROVE  AbstractStep
BY ClosingDrops DEF LeaseInv, AbstractStep

(* Closing the active leases of e and granting a new one is an abstract    *)
(* Grant.                                                                  *)
LEMMA GrantRefines ==
  ASSUME LeaseInv, NEW e \in Executions, NEW w \in Workers, NEW x \in Int,
         NEW st \in LeaseStatuses, st # "active",
         NEW ids \in SUBSET RowsOf(leases, e),
         ActiveRows(CloseLeases(leases, ids, st), e) = {}, UnusedIds # {},
         leases' = InsertLease(CloseLeases(leases, ids, st), NewId, e, w, x),
         accepted' = accepted
  PROVE  AbstractStep
<1> DEFINE cs == CloseLeases(leases, ids, st)
<1>1. /\ Consistent(cs) /\ DOMAIN cs = DOMAIN leases
      /\ \A f : ActiveRows(cs, f) = ActiveRows(leases, f) \ ids
  BY CloseKeepsConsistent DEF LeaseInv
<1>2. Epoch(cs) = Epoch(leases)
  BY ClosingDrops DEF LeaseInv
<1>3. NewId \in LeaseIds /\ NewId \notin DOMAIN cs
  BY <1>1, Zenon DEF UnusedIds, NewId
<1>4. \A i \in DOMAIN leases : cs[i].workerId = leases[i].workerId
  BY DEF CloseLeases, LeaseRow
<1> HIDE DEF cs
<1>5. /\ Owner(leases') = [Owner(cs) EXCEPT ![e] = w]
      /\ Epoch(leases') = [Epoch(cs) EXCEPT ![e] = @ + 1]
  BY <1>1, <1>3, InsertGrants DEF cs
<1>6. ASSUME NEW f \in Executions, f # e PROVE HolderOf(cs, f) = HolderOf(leases, f)
  <2>1. ActiveRows(cs, f) = ActiveRows(leases, f)
    BY <1>1, <1>6 DEF ActiveRows, RowsOf
  <2>2. CASE ActiveRows(leases, f) = {}
    BY <2>1, <2>2 DEF HolderOf
  <2>3. CASE ActiveRows(leases, f) # {}
    <3>1. PICK i \in ActiveRows(leases, f) : TRUE
      BY <2>3
    <3>2. cs[i].workerId = leases[i].workerId
      BY <1>4, <3>1 DEF ActiveRows, RowsOf
    <3>3. QED
      BY <1>1, <2>1, <3>1, <3>2, HolderIsActiveWorker DEF LeaseInv
  <2>4. QED
    BY <2>2, <2>3
<1>7. [Owner(cs) EXCEPT ![e] = w] = [Owner(leases) EXCEPT ![e] = w]
  BY <1>6 DEF Owner
<1>8. QED
  BY <1>2, <1>5, <1>7 DEF AbstractStep

(* Every transaction is a step of fenced ownership, or none.               *)
LEMMA EveryStepRefines ==
  ASSUME LeaseInv, [Next]_vars
  PROVE  AbstractStep
<1> USE DEF LeaseStatuses
<1>1. CASE leases' = leases /\ accepted' = accepted
  BY <1>1 DEF AbstractStep
<1>2. ASSUME NEW ids, Expire(ids), accepted' = accepted PROVE AbstractStep
  BY <1>2, CloseRefines DEF Expire
<1>3. ASSUME NEW e \in Executions, NEW w \in Workers, NEW ttl \in RequestedTtls, NEW d \in Offsets,
             AcquireLease(e, w, ttl, d)
      PROVE  AbstractStep
  <2> DEFINE swept == CloseLeases(leases, Outlived(e, d), "expired")
  <2>1. Outlived(e, d) \in SUBSET RowsOf(leases, e)
    BY DEF Outlived, ActiveRows
  <2>2. d + ttl \in Int
    BY LeaseAssumption DEF Offsets
  <2>3. CASE Expire(Outlived(e, d))
    BY <1>2, <1>3, <2>3 DEF AcquireLease
  <2>4. CASE /\ ActiveRows(swept, e) = {} /\ UnusedIds # {}
             /\ leases' = InsertLease(swept, NewId, e, w, d + ttl)
    BY <1>3, <2>1, <2>2, <2>4, GrantRefines DEF AcquireLease
  <2>5. QED
    BY <1>3, <2>3, <2>4 DEF AcquireLease
<1>4. ASSUME NEW i \in LeaseIds, NEW ttl \in RequestedTtls, NEW d \in Offsets, RenewLease(i, ttl, d)
      PROVE  AbstractStep
  <2>1. CASE Expire({i})
    BY <1>2, <1>4, <2>1 DEF RenewLease
  <2>2. CASE leases' = RenewLeaseRow(leases, i, d + ttl)
    <3>1. /\ DOMAIN leases' = DOMAIN leases
          /\ \A j \in DOMAIN leases : /\ leases'[j].executionId = leases[j].executionId
                                       /\ leases'[j].workerId = leases[j].workerId
                                       /\ leases'[j].fencingToken = leases[j].fencingToken
                                       /\ leases'[j].status = leases[j].status
      BY <2>2 DEF RenewLeaseRow, LeaseInv, TypeOK, LeaseRows
    <3>2. Consistent(leases')
      BY EveryStepKeepsTable DEF TableStep
    <3>3. QED
      BY <1>4, <3>1, <3>2, ExpiryKeepsOwnership DEF LeaseInv, AbstractStep, RenewLease
  <2>3. QED
    BY <1>4, <2>1, <2>2 DEF RenewLease
<1>5. ASSUME NEW i \in LeaseIds, ReleaseLease(i) PROVE AbstractStep
  BY <1>5, CloseRefines DEF ReleaseLease
<1>6. ASSUME NEW i \in LeaseIds, NEW w \in Workers, NEW required \in SUBSET Features,
             NEW ttl \in RequestedTtls, NEW d \in Offsets, HandoverLease(i, w, required, ttl, d)
      PROVE  AbstractStep
  <2> DEFINE e == leases[i].executionId
             cs == CloseLeases(leases, {i}, "released")
  <2>1. i \in ActiveRows(leases, e) /\ e \in Executions /\ {i} \in SUBSET RowsOf(leases, e)
    BY <1>6 DEF HandoverLease, ActiveRows, ActiveIds, RowsOf, LeaseInv, TypeOK, LeaseRows
  <2>2. d + ttl \in Int
    BY LeaseAssumption DEF Offsets
  <2>3. CASE Expire({i})
    BY <1>2, <1>6, <2>3 DEF HandoverLease
  <2>4. CASE UnusedIds # {} /\ leases' = InsertLease(cs, NewId, e, w, d + ttl)
    <3>1. ActiveRows(leases, e) = {i}
      BY <2>1, HolderIsActiveWorker DEF LeaseInv
    <3>2. ActiveRows(cs, e) = {}
      BY <3>1, CloseKeepsConsistent DEF LeaseInv
    <3>3. QED
      BY <1>6, <2>1, <2>2, <2>4, <3>2, GrantRefines DEF HandoverLease
  <2>5. QED
    BY <1>6, <2>3, <2>4 DEF HandoverLease
<1>7. ASSUME NEW ids, Reclaim(ids), accepted' = accepted PROVE AbstractStep
  BY <1>7, CloseRefines DEF Reclaim
<1>8. ASSUME NEW i \in LeaseIds, NEW byId \in BOOLEAN, NEW d \in Offsets,
             ValidateWriteAccess(i, byId, d)
      PROVE  AbstractStep
  <2> DEFINE e == leases[i].executionId
  <2>1. i \in DOMAIN leases /\ e \in Executions /\ leases' = leases
    BY <1>8 DEF ValidateWriteAccess, LeaseInv, TypeOK, LeaseRows
  <2>2. PICK a \in ActiveRows(leases, e) : leases[a].fencingToken = leases[i].fencingToken
    BY <1>8 DEF ValidateWriteAccess, WriteAllowed
  <2>3. leases[a].workerId \in Workers
    BY <2>2 DEF ActiveRows, RowsOf, LeaseInv, TypeOK, LeaseRows
  <2>4. HolderOf(leases, e) # NoAgent
    BY <2>1, <2>2, <2>3, HolderIsActiveWorker, LeaseAssumption DEF LeaseInv
  <2>5. accepted' = [accepted EXCEPT ![e] = leases[i].fencingToken]
    BY <1>8 DEF ValidateWriteAccess
  <2>6. CASE accepted'[e] = accepted[e]
    BY <1>1, <2>1, <2>5, <2>6 DEF LeaseInv, TypeOK
  <2>7. CASE accepted'[e] # accepted[e]
    <3>1. leases[i].fencingToken = LatestFencingToken(leases, e)
      BY <2>1, <2>5, <2>7, AcceptedIsNewest DEF LeaseInv, TypeOK
    <3>2. QED
      BY <2>1, <2>4, <2>5, <3>1 DEF AbstractStep, Owner, Epoch
  <2>8. QED
    BY <2>6, <2>7
<1>9. CASE Tick
  <2>1. /\ DOMAIN leases' = DOMAIN leases
        /\ \A j \in DOMAIN leases : /\ leases'[j].executionId = leases[j].executionId
                                     /\ leases'[j].workerId = leases[j].workerId
                                     /\ leases'[j].fencingToken = leases[j].fencingToken
                                     /\ leases'[j].status = leases[j].status
    BY <1>9 DEF Tick, Elapsed, LeaseInv, TypeOK, LeaseRows
  <2>2. Consistent(leases')
    BY EveryStepKeepsTable DEF TableStep
  <2>3. QED
    BY <1>9, <2>1, <2>2, ExpiryKeepsOwnership DEF LeaseInv, AbstractStep, Tick
<1>10. QED
  BY <1>1, <1>3, <1>4, <1>5, <1>6, <1>7, <1>8, <1>9
     DEF Next, LeaseNext, RegistryNext, leaseVars, vars, ReclaimExpiredLeases, ReclaimActiveLease,
         LeadershipChanges

(* The lease service implements fenced ownership.                          *)
THEOREM LeaseRefinesOwnership == Spec => ImplementsFencedOwnership
<1>1. Init => Ownership!Init
  <2> SUFFICES ASSUME Init PROVE Ownership!Init
    OBVIOUS
  <2>1. \A e : RowsOf(leases, e) = {}
    BY DEF Init, LeaseInit, RowsOf
  <2>2. \A e \in Executions : HolderOf(leases, e) = NoAgent
    BY <2>1 DEF HolderOf, ActiveRows
  <2>3. \A e \in Executions : LatestFencingToken(leases, e) = 0
    <3>1. \A e : TokensOf(leases, e) \cup {0} = {0}
      BY <2>1 DEF TokensOf
    <3>2. Max({0}) = 0
      BY MaxOfBounded
    <3>3. QED
      BY <3>1, <3>2 DEF LatestFencingToken
  <2>4. QED
    BY <2>2, <2>3 DEF Ownership!Init, Init, LeaseInit
<1>2. LeaseInv /\ [Next]_vars => [Ownership!Next]_(Ownership!ownershipVars)
  <2>1. LeaseInv /\ [Next]_vars => AbstractStep
    BY EveryStepRefines
  <2>2. AbstractStep => [Ownership!Next]_(Ownership!ownershipVars)
    BY DEF AbstractStep, Owner, Epoch, Ownership!Next, Ownership!ownershipVars,
           Ownership!Grant, Ownership!Drop, Ownership!Write
  <2>3. QED
    BY <2>1, <2>2
<1>3. QED
  BY <1>1, <1>2, InvariantHolds, PTL DEF Spec, ImplementsFencedOwnership, Ownership!Spec

=============================================================================
