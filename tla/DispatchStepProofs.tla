------------------------- MODULE DispatchStepProofs -------------------------
(***************************************************************************)
(* What each step of ExecutionDispatch does to each table, one at a time:  *)
(* the lease rows, the worker snapshots, the workers' own state, the       *)
(* tickets, the executions and the processes under way.  The theorems they *)
(* serve are in ExecutionDispatchProofs.                                   *)
(***************************************************************************)
EXTENDS ExecutionDispatch, ExecutionLeaseProofs

AttemptsOf(ts, e) == {ts[t].attempt : t \in TicketsOf(ts, e)}

(* Attempts are numbers, those of an execution have a largest one, and the *)
(* live ones differ.                                                       *)
HasLastAttempt(ts) ==
  \A e \in Executions : \E m \in AttemptsOf(ts, e) \cup {0} :
    \A a \in AttemptsOf(ts, e) : a <= m

TicketsSound(ts) ==
  /\ \A t \in DOMAIN ts : ts[t].executionId \in Executions /\ ts[t].attempt \in Nat
  /\ HasLastAttempt(ts)
  /\ LiveAttemptsDiffer(ts)

(* resolveNextTicketAttempt numbers above every ticket of the execution.   *)
LEMMA NextAttemptIsNew ==
  ASSUME NEW ts, TicketsSound(ts), NEW e \in Executions
  PROVE  /\ NextAttempt(ts, e) \in Nat
         /\ \A t \in TicketsOf(ts, e) : ts[t].attempt < NextAttempt(ts, e)
<1> DEFINE S == AttemptsOf(ts, e) \cup {0}
<1>1. S \in SUBSET Nat
  BY DEF TicketsSound, AttemptsOf, TicketsOf
<1>2. PICK m \in S : \A a \in AttemptsOf(ts, e) : a <= m
  BY DEF TicketsSound, HasLastAttempt
<1>3. \A a \in S : a <= m
  BY <1>1, <1>2
<1>4. Max(S) \in S /\ \A a \in S : a <= Max(S)
  BY <1>1, <1>3, MaxOfBounded
<1>5. NextAttempt(ts, e) = Max(S) + 1
  BY DEF NextAttempt, AttemptsOf
<1>6. \A t \in TicketsOf(ts, e) : ts[t].attempt \in S
  BY DEF AttemptsOf
<1>7. Max(S) \in Nat
  BY <1>1, <1>4
<1>8. \A t \in TicketsOf(ts, e) : ts[t].attempt \in Nat /\ ts[t].attempt <= Max(S)
  BY <1>1, <1>4, <1>6
<1> HIDE DEF S
<1>9. QED
  BY <1>5, <1>7, <1>8

(* Rewriting statuses and assignments keeps the table sound as long as no  *)
(* ticket comes to life again.                                             *)
LEMMA UpdateKeepsSound ==
  ASSUME NEW ts, TicketsSound(ts), NEW ns, DOMAIN ns = DOMAIN ts,
         \A t \in DOMAIN ts : /\ ns[t].executionId = ts[t].executionId
                              /\ ns[t].attempt = ts[t].attempt
                              /\ ns[t].status \in LiveStatuses => ts[t].status \in LiveStatuses
  PROVE  TicketsSound(ns)
<1>1. \A e : TicketsOf(ns, e) = TicketsOf(ts, e)
  BY DEF TicketsOf
<1>2. \A e : AttemptsOf(ns, e) = AttemptsOf(ts, e)
  BY <1>1 DEF AttemptsOf, TicketsOf
<1>3. HasLastAttempt(ns)
  BY <1>2 DEF TicketsSound, HasLastAttempt
<1>4. LiveAttemptsDiffer(ns)
  BY DEF TicketsSound, LiveAttemptsDiffer, LiveTickets
<1>5. QED
  BY <1>3, <1>4 DEF TicketsSound

LEMMA SetStatusKeepsSound ==
  ASSUME NEW ts, TicketsSound(ts), NEW t, NEW st, st \notin LiveStatuses
  PROVE  /\ TicketsSound(SetTicketStatus(ts, t, st))
         /\ DOMAIN SetTicketStatus(ts, t, st) = DOMAIN ts
         /\ \A u \in DOMAIN ts :
              /\ SetTicketStatus(ts, t, st)[u].executionId = ts[u].executionId
              /\ SetTicketStatus(ts, t, st)[u].attempt = ts[u].attempt
<1> DEFINE ns == SetTicketStatus(ts, t, st)
<1>1. DOMAIN ns = DOMAIN ts
  BY DEF SetTicketStatus
<1>2. ASSUME NEW u \in DOMAIN ts
      PROVE  /\ ns[u].executionId = ts[u].executionId
             /\ ns[u].attempt = ts[u].attempt
             /\ ns[u].status \in LiveStatuses => ts[u].status \in LiveStatuses
  <2>1. CASE u = t
    BY <2>1 DEF SetTicketStatus, TicketRow
  <2>2. CASE u # t
    BY <2>2 DEF SetTicketStatus
  <2>3. QED
    BY <2>1, <2>2
<1> HIDE DEF ns
<1>3. TicketsSound(ns)
  BY <1>1, <1>2, UpdateKeepsSound
<1>4. QED
  BY <1>1, <1>2, <1>3 DEF ns

LEMMA ClaimKeepsSound ==
  ASSUME NEW ts, TicketsSound(ts), NEW t, NEW w, NEW i
  PROVE  TicketsSound(ClaimTicket(ts, t, w, i))
<1> DEFINE ns == ClaimTicket(ts, t, w, i)
<1>1. DOMAIN ns = DOMAIN ts
  BY DEF ClaimTicket
<1>2. ASSUME NEW u \in DOMAIN ts
      PROVE  /\ ns[u].executionId = ts[u].executionId
             /\ ns[u].attempt = ts[u].attempt
             /\ ns[u].status \in LiveStatuses => ts[u].status \in LiveStatuses
  <2>1. CASE u = t /\ ts[u].status = "pending"
    BY <2>1 DEF ClaimTicket, TicketRow, LiveStatuses
  <2>2. CASE ~(u = t /\ ts[u].status = "pending")
    BY <2>2 DEF ClaimTicket
  <2>3. QED
    BY <2>1, <2>2
<1> HIDE DEF ns
<1>3. QED
  BY <1>1, <1>2, UpdateKeepsSound DEF ns

(* A new ticket keeps the table sound when no live ticket has its attempt. *)
LEMMA InsertKeepsSound ==
  ASSUME NEW ts, TicketsSound(ts), NEW t, t \notin DOMAIN ts,
         NEW e \in Executions, NEW a \in Nat, ActiveTickets(ts, e, a) = {}
  PROVE  TicketsSound(InsertTicket(ts, t, e, a))
<1> DEFINE ns == InsertTicket(ts, t, e, a)
<1>1. /\ DOMAIN ns = DOMAIN ts \cup {t}
      /\ ns[t].executionId = e /\ ns[t].attempt = a
      /\ \A u \in DOMAIN ts : ns[u] = ts[u]
  BY DEF InsertTicket, TicketRow
<1> HIDE DEF ns
<1>2. \A u \in DOMAIN ns : ns[u].executionId \in Executions /\ ns[u].attempt \in Nat
  BY <1>1 DEF TicketsSound
<1>3. HasLastAttempt(ns)
  <2> SUFFICES ASSUME NEW f \in Executions
               PROVE  \E m \in AttemptsOf(ns, f) \cup {0} :
                        \A b \in AttemptsOf(ns, f) : b <= m
    BY DEF HasLastAttempt
  <2>1. PICK m \in AttemptsOf(ts, f) \cup {0} : \A b \in AttemptsOf(ts, f) : b <= m
    BY DEF TicketsSound, HasLastAttempt
  <2>2. m \in Nat /\ AttemptsOf(ts, f) \subseteq Nat
    BY DEF TicketsSound, AttemptsOf, TicketsOf
  <2>3. CASE f = e
    <3>1. AttemptsOf(ns, f) = AttemptsOf(ts, f) \cup {a}
      BY <1>1, <2>3 DEF AttemptsOf, TicketsOf
    <3>2. QED
      BY <2>1, <2>2, <3>1
  <2>4. CASE f # e
    <3>1. AttemptsOf(ns, f) = AttemptsOf(ts, f)
      BY <1>1, <2>4 DEF AttemptsOf, TicketsOf
    <3>2. QED
      BY <2>1, <3>1
  <2>5. QED
    BY <2>3, <2>4
<1>4. LiveAttemptsDiffer(ns)
  BY <1>1 DEF TicketsSound, LiveAttemptsDiffer, LiveTickets, ActiveTickets, TicketsOf
<1>5. QED
  BY <1>2, <1>3, <1>4 DEF TicketsSound, ns

(* Issuing a ticket with the next attempt.                                 *)
LEMMA ReplacementKeepsSound ==
  ASSUME NEW ts, TicketsSound(ts), NEW u, u \notin DOMAIN ts, NEW e \in Executions
  PROVE  TicketsSound(InsertTicket(ts, u, e, NextAttempt(ts, e)))
<1>1. /\ NextAttempt(ts, e) \in Nat
      /\ \A v \in TicketsOf(ts, e) : ts[v].attempt < NextAttempt(ts, e)
  BY NextAttemptIsNew
<1>2. ActiveTickets(ts, e, NextAttempt(ts, e)) = {}
  <2> SUFFICES ASSUME NEW v \in ActiveTickets(ts, e, NextAttempt(ts, e)) PROVE FALSE
    OBVIOUS
  <2>1. v \in TicketsOf(ts, e) /\ ts[v].attempt = NextAttempt(ts, e)
    BY DEF ActiveTickets
  <2>2. ts[v].attempt \in Nat
    BY <2>1 DEF TicketsSound, TicketsOf
  <2>3. QED
    BY <1>1, <2>1, <2>2
<1>3. QED
  BY <1>1, <1>2, InsertKeepsSound

(* Taking a ticket back and issuing its replacement.                       *)
LEMMA RequeueKeepsSound ==
  ASSUME NEW ts, TicketsSound(ts), NEW t, NEW u, u \notin DOMAIN ts, NEW e \in Executions
  PROVE  TicketsSound(InsertTicket(InvalidateTicket(ts, t, "expired"), u, e,
                                   NextAttempt(ts, e)))
<1> DEFINE vs == InvalidateTicket(ts, t, "expired")
<1>1. /\ TicketsSound(vs)
      /\ DOMAIN vs = DOMAIN ts
      /\ \A v \in DOMAIN ts : vs[v].executionId = ts[v].executionId /\ vs[v].attempt = ts[v].attempt
  BY SetStatusKeepsSound DEF InvalidateTicket, LiveStatuses
<1> HIDE DEF vs
<1>2. /\ NextAttempt(ts, e) \in Nat
      /\ \A v \in TicketsOf(ts, e) : ts[v].attempt < NextAttempt(ts, e)
  BY NextAttemptIsNew
<1>3. ActiveTickets(vs, e, NextAttempt(ts, e)) = {}
  <2> SUFFICES ASSUME NEW v \in ActiveTickets(vs, e, NextAttempt(ts, e)) PROVE FALSE
    OBVIOUS
  <2>1. v \in TicketsOf(ts, e) /\ ts[v].attempt = NextAttempt(ts, e)
    BY <1>1 DEF ActiveTickets, TicketsOf
  <2>2. ts[v].attempt \in Nat
    BY <2>1 DEF TicketsSound, TicketsOf
  <2>3. QED
    BY <1>2, <2>1, <2>2
<1>4. QED
  BY <1>1, <1>2, <1>3, InsertKeepsSound DEF vs

-----------------------------------------------------------------------------
(* The inductive invariant: DispatchInv, and that the newest token and the *)
(* last attempt of each execution exist.                                   *)
FullDispatchInv == DispatchInv /\ Consistent(leases) /\ TicketsSound(tickets)

(* The operation a process is at tells what it has in hand.                *)
LEMMA StateByOp ==
  ASSUME NEW s \in ProcStates
  PROVE  /\ s.op = "dispatch" => s \in Dispatching
         /\ s.op = "grant" => s \in Granting
         /\ s.op = "preempt" => s \in Preempting
         /\ s.op = "preempted" => s \in Preempted
         /\ s.op = "abandon" => s \in Abandoning
         /\ s.op = "claim" => s \in Claiming
         /\ s.op \in {"renew", "refresh"} => s \in Renewing
         /\ s.op = "writeback" => s \in WritingBack
         /\ s.op = "repair" => s \in Repairing
<1>1. s = Idle \/ s \in Dispatching \/ s \in Granting \/ s \in Preempting \/ s \in Preempted
      \/ s \in Abandoning \/ s \in Claiming \/ s \in Renewing \/ s \in WritingBack \/ s \in Repairing
  BY DEF ProcStates
<1>2. /\ s = Idle => s.op = "idle"
      /\ s \in Dispatching => s.op = "dispatch"
      /\ s \in Granting => s.op = "grant"
      /\ s \in Preempting => s.op = "preempt"
      /\ s \in Preempted => s.op = "preempted"
      /\ s \in Abandoning => s.op = "abandon"
      /\ s \in Claiming => s.op = "claim"
      /\ s \in Renewing => s.op = "renew" \/ s.op = "refresh"
      /\ s \in WritingBack => s.op = "writeback"
      /\ s \in Repairing => s.op = "repair"
  BY DEF Idle, Dispatching, Granting, Preempting, Preempted, Abandoning, Claiming, Renewing,
         WritingBack, Repairing
<1> QED  BY <1>1, <1>2

LEMMA ProcFields ==
  ASSUME DispatchTypeOK, NEW p \in Processes
  PROVE  procs[p] \in ProcStates /\ RefersToRows(procs[p])
BY DEF DispatchTypeOK

LEMMA LeaseFields ==
  ASSUME TypeOK, NEW i \in DOMAIN leases
  PROVE  /\ leases[i].executionId \in Executions /\ leases[i].workerId \in Workers
         /\ leases[i].fencingToken \in Nat /\ leases[i].expiresIn \in Int
BY DEF TypeOK, LeaseRows

-----------------------------------------------------------------------------
(* The lease table, whoever works on it.  Closing a lease that is closed   *)
(* already, as a late writeback does, rewrites its status, and leaves the  *)
(* table consistent all the same.                                          *)
TableSide ==
  /\ Consistent(leases') /\ DOMAIN leases \subseteq DOMAIN leases'
  /\ audits' \subseteq (DOMAIN leases') \X AuditEvents

LEMMA TableKept ==
  ASSUME TypeOK, Consistent(leases), leases' = leases, audits' = audits
  PROVE  TableSide
BY DEF TypeOK, TableSide

LEMMA TableClosed ==
  ASSUME TypeOK, Consistent(leases), NEW ids \in SUBSET DOMAIN leases,
         NEW st \in LeaseStatuses, st # "active", NEW event \in AuditEvents,
         leases' = CloseLeases(leases, ids, st), audits' = audits \cup Events(ids, event)
  PROVE  TableSide
<1>1. Consistent(leases') /\ DOMAIN leases' = DOMAIN leases
  BY CloseKeepsConsistent
<1> QED  BY <1>1 DEF TypeOK, TableSide, Events

LEMMA TableGranted ==
  ASSUME TypeOK, Consistent(leases), NEW ids \in SUBSET DOMAIN leases,
         NEW st \in LeaseStatuses, st # "active", UnusedIds # {},
         NEW e \in Executions, NEW w \in Workers, NEW x \in Int,
         ActiveRows(CloseLeases(leases, ids, st), e) = {},
         leases' = InsertLease(CloseLeases(leases, ids, st), NewId, e, w, x),
         audits' \subseteq audits \cup (DOMAIN leases \cup {NewId}) \X AuditEvents
  PROVE  TableSide /\ NewId \in DOMAIN leases'
<1> DEFINE cs == CloseLeases(leases, ids, st)
<1>1. Consistent(cs) /\ DOMAIN cs = DOMAIN leases
  BY CloseKeepsConsistent
<1>2. NewId \in LeaseIds /\ NewId \notin DOMAIN cs
  BY <1>1, Zenon DEF UnusedIds, NewId
<1>a. ActiveRows(cs, e) = {} /\ leases' = InsertLease(cs, NewId, e, w, x)
  OBVIOUS
<1> DEFINE n == NewId
<1> HIDE DEF cs, n
<1>3. Consistent(InsertLease(cs, n, e, w, x)) /\ DOMAIN InsertLease(cs, n, e, w, x) = DOMAIN cs \cup {n}
  <2>1. n \in LeaseIds /\ n \notin DOMAIN cs
    BY <1>2 DEF n
  <2> QED  BY <1>1, <1>a, <2>1, InsertKeepsConsistent, SMTT(20)
<1>4. Consistent(leases') /\ DOMAIN leases' = DOMAIN leases \cup {NewId}
  BY <1>1, <1>a, <1>3 DEF n
<1> QED  BY <1>4 DEF TypeOK, TableSide

LEMMA TableRenewed ==
  ASSUME TypeOK, Consistent(leases), NEW i \in DOMAIN leases, NEW x \in Int,
         leases' = RenewLeaseRow(leases, i, x), audits' = audits
  PROVE  TableSide
<1>1. leases \in [DOMAIN leases -> LeaseRows]
  BY DEF TypeOK
<1>2. ASSUME NEW j \in DOMAIN leases
      PROVE  /\ leases'[j] \in LeaseRows
             /\ leases'[j].executionId = leases[j].executionId
             /\ leases'[j].workerId = leases[j].workerId
             /\ leases'[j].fencingToken = leases[j].fencingToken
             /\ leases'[j].status = leases[j].status
  BY <1>1 DEF RenewLeaseRow, LeaseRows
<1>3. leases' \in [DOMAIN leases -> LeaseRows]
  BY <1>1, <1>2 DEF RenewLeaseRow
<1>4. Consistent(leases')
  BY <1>2, <1>3, ExpiryIsIrrelevant
<1> QED  BY <1>3, <1>4 DEF TypeOK, TableSide

LEMMA TableTicked ==
  ASSUME TypeOK, Consistent(leases), Tick
  PROVE  TableSide
<1>1. leases \in [DOMAIN leases -> LeaseRows] /\ leases' = Elapsed(leases, Horizon) /\ audits' = audits
  BY DEF TypeOK, Tick
<1>2. ASSUME NEW j \in DOMAIN leases
      PROVE  /\ leases'[j] \in LeaseRows
             /\ leases'[j].executionId = leases[j].executionId
             /\ leases'[j].workerId = leases[j].workerId
             /\ leases'[j].fencingToken = leases[j].fencingToken
             /\ leases'[j].status = leases[j].status
  BY <1>1 DEF Elapsed, LeaseRows
<1>3. leases' \in [DOMAIN leases -> LeaseRows]
  BY <1>1, <1>2 DEF Elapsed
<1>4. Consistent(leases')
  BY <1>2, <1>3, ExpiryIsIrrelevant
<1> QED  BY <1>1, <1>3, <1>4 DEF TypeOK, TableSide

LEMMA TableExpired ==
  ASSUME TypeOK, Consistent(leases), NEW ids \in SUBSET DOMAIN leases, Expire(ids)
  PROVE  TableSide
<1>1. "expired" \in LeaseStatuses /\ "lease_expired" \in AuditEvents /\ "expired" # "active"
  BY DEF LeaseStatuses, AuditEvents
<1> QED  BY <1>1, TableClosed DEF Expire

LEMMA TableReclaimed ==
  ASSUME TypeOK, Consistent(leases), NEW ids \in SUBSET DOMAIN leases, Reclaim(ids)
  PROVE  TableSide
<1>1. "reclaimed" \in LeaseStatuses /\ "lease_reclaimed" \in AuditEvents /\ "reclaimed" # "active"
  BY DEF LeaseStatuses, AuditEvents
<1> QED  BY <1>1, TableClosed DEF Reclaim

(* A consistent table has one active row of an execution at most.          *)
LEMMA OneActiveRow ==
  ASSUME TypeOK, Consistent(leases), NEW i \in ActiveIds(leases)
  PROVE  ActiveRows(leases, leases[i].executionId) = {i}
<1>1. i \in ActiveRows(leases, leases[i].executionId)
  BY DEF ActiveRows, ActiveIds, RowsOf
<1>2. ASSUME NEW j \in ActiveRows(leases, leases[i].executionId), j # i PROVE FALSE
  <2>1. /\ i \in DOMAIN leases /\ j \in DOMAIN leases /\ j \in ActiveIds(leases)
        /\ i \in RowsOf(leases, leases[j].executionId)
        /\ j \in RowsOf(leases, leases[i].executionId)
    BY <1>2 DEF ActiveRows, ActiveIds, RowsOf
  <2>2. leases[i].fencingToken \in Nat /\ leases[j].fencingToken \in Nat
    BY <2>1, LeaseFields
  <2> QED  BY <1>2, <2>1, <2>2 DEF Consistent, NewestHolds
<1> QED  BY <1>1, <1>2

LEMMA TableHandedOver ==
  ASSUME TypeOK, Consistent(leases), NEW i \in LeaseIds, NEW w \in Workers, NEW required,
         NEW ttl \in Int, NEW d \in Int, HandoverLease(i, w, required, ttl, d)
  PROVE  TableSide
<1> DEFINE e == leases[i].executionId
           cs == CloseLeases(leases, {i}, "released")
<1>1. i \in ActiveIds(leases) /\ i \in DOMAIN leases /\ {i} \in SUBSET DOMAIN leases
  BY DEF HandoverLease, ActiveIds
<1>2. e \in Executions /\ d + ttl \in Int
  BY <1>1, LeaseFields
<1>3. CASE Expire({i})
  BY <1>1, <1>3, TableExpired
<1>4. CASE /\ UnusedIds # {} /\ leases' = InsertLease(cs, NewId, e, w, d + ttl)
           /\ audits' = audits \cup {<<i, "lease_released">>, <<NewId, "lease_granted">>,
                                     <<NewId, "lease_handover">>}
  <2>1. "released" \in LeaseStatuses /\ "released" # "active"
    BY DEF LeaseStatuses
  <2>2. ActiveRows(cs, e) = ActiveRows(leases, e) \ {i}
    BY <2>1, CloseKeepsConsistent
  <2>3. ActiveRows(cs, e) = {}
    BY <1>1, <2>2, OneActiveRow
  <2>4. audits' \subseteq audits \cup (DOMAIN leases \cup {NewId}) \X AuditEvents
    BY <1>1, <1>4 DEF AuditEvents
  <2> QED  BY Zenon, <1>1, <1>2, <1>4, <2>1, <2>3, <2>4, TableGranted
<1> QED  BY <1>3, <1>4 DEF HandoverLease

LEMMA TableOfRenewal ==
  ASSUME TypeOK, Consistent(leases), NEW i, NEW ttl \in Int, NEW d \in Int, RenewLease(i, ttl, d)
  PROVE  TableSide
<1>1. i \in DOMAIN leases /\ {i} \in SUBSET DOMAIN leases /\ d + ttl \in Int
  BY DEF RenewLease, ActiveIds
<1>2. CASE Expire({i})
  BY <1>1, <1>2, TableExpired
<1>3. CASE leases' = RenewLeaseRow(leases, i, d + ttl) /\ audits' = audits
  BY <1>1, <1>3, TableRenewed
<1> QED  BY <1>2, <1>3 DEF RenewLease

(* dispatchNext's transaction: e is the execution of the ticket it took.   *)
LEMMA TableOfDispatch ==
  ASSUME TypeOK, Consistent(leases), NEW e \in Executions, NEW w \in Workers,
         NEW d \in Int, NEW ttl \in Int, UnusedIds # {},
         ActiveRows(CloseLeases(leases, Outlived(e, d), "expired"), e) = {},
         leases' = InsertLease(CloseLeases(leases, Outlived(e, d), "expired"), NewId, e, w, d + ttl),
         audits' = audits \cup Events(Outlived(e, d), "lease_expired")
                          \cup {<<NewId, "lease_granted">>}
  PROVE  TableSide /\ NewId \in DOMAIN leases'
<1> DEFINE gone == Outlived(e, d)
<1>1. gone \in SUBSET DOMAIN leases
  BY DEF Outlived, ActiveRows, RowsOf
<1>2. "expired" \in LeaseStatuses /\ "expired" # "active" /\ d + ttl \in Int
  BY DEF LeaseStatuses
<1>3. audits' \subseteq audits \cup (DOMAIN leases \cup {NewId}) \X AuditEvents
  BY <1>1 DEF Events, AuditEvents
<1> HIDE DEF gone
<1>4. /\ ActiveRows(CloseLeases(leases, gone, "expired"), e) = {}
      /\ leases' = InsertLease(CloseLeases(leases, gone, "expired"), NewId, e, w, d + ttl)
  BY DEF gone
<1> QED  BY <1>1, <1>2, <1>3, <1>4, TableGranted

LEMMA GrantFields ==
  ASSUME DispatchTypeOK, NEW p \in Processes, procs[p].op = "grant"
  PROVE  /\ procs[p].ticket \in DOMAIN tickets /\ tickets[procs[p].ticket].executionId \in Executions
         /\ procs[p].worker \in Workers /\ procs[p].at \in Delays /\ procs[p].at \in Int
         /\ procs[p].todo \subseteq DOMAIN tickets
<1>1. procs[p] \in Granting /\ RefersToRows(procs[p])
  BY ProcFields, StateByOp
<1>2. procs[p].worker \in Workers /\ procs[p].at \in Delays
  BY <1>1 DEF Granting
<1>3. procs[p].ticket \in DOMAIN tickets /\ procs[p].todo \subseteq DOMAIN tickets
  BY <1>1 DEF RefersToRows
<1>4. procs[p].at \in Int
  BY <1>2, DispatchAssumption DEF Delays
<1> QED  BY <1>2, <1>3, <1>4 DEF DispatchTypeOK

LEMMA HeldLease ==
  ASSUME DispatchTypeOK, NEW p \in Processes,
         procs[p].op \in {"claim", "renew", "refresh", "writeback"}
  PROVE  /\ procs[p].lease \in DOMAIN leases /\ procs[p].snapshot \in SnapshotReads
         /\ procs[p].at \in Delays /\ procs[p].at \in Int
<1>1. procs[p] \in Claiming \cup Renewing \cup WritingBack /\ RefersToRows(procs[p])
  BY ProcFields, StateByOp
<1>2. procs[p].snapshot \in SnapshotReads /\ procs[p].at \in Delays
  BY <1>1 DEF Claiming, Renewing, WritingBack
<1>3. procs[p].lease \in DOMAIN leases
  BY <1>1 DEF RefersToRows
<1>4. procs[p].at \in Int
  BY <1>2, DispatchAssumption DEF Delays
<1> QED  BY <1>2, <1>3, <1>4

(* What each step does to the leases and their audit rows.                 *)
LEMMA EveryStepKeepsLeases ==
  ASSUME DispatchTypeOK, Consistent(leases), DispatchNext
  PROVE  TableSide
<1>0. TypeOK
  BY DEF DispatchTypeOK
<1>1. ASSUME leases' = leases, audits' = audits PROVE TableSide
  BY <1>0, <1>1, TableKept
<1>2. ASSUME NEW e, ReclaimActiveLease(e) PROVE TableSide
  <2>1. ActiveRows(leases, e) \in SUBSET DOMAIN leases
    BY DEF ActiveRows, RowsOf
  <2> QED  BY <1>0, <1>2, <2>1, TableReclaimed DEF ReclaimActiveLease
<1>3. ASSUME NEW p \in Processes, DispatchGrant(p) PROVE TableSide
  <2> DEFINE t == procs[p].ticket
             w == procs[p].worker
             d == procs[p].at
             e == tickets[t].executionId
  <2>1. procs[p].op = "grant"
    BY <1>3 DEF DispatchGrant
  <2>2. e \in Executions /\ w \in Workers /\ d \in Int /\ LeaseTtl \in Int
    BY <2>1, GrantFields, DispatchAssumption
  <2>3. CASE UNCHANGED vars
    BY <1>1, <2>3 DEF vars
  <2>4. CASE /\ UnusedIds # {}
             /\ ActiveRows(CloseLeases(leases, Outlived(e, d), "expired"), e) = {}
             /\ leases' = InsertLease(CloseLeases(leases, Outlived(e, d), "expired"), NewId,
                                      e, w, d + LeaseTtl)
             /\ audits' = audits \cup Events(Outlived(e, d), "lease_expired")
                                 \cup {<<NewId, "lease_granted">>}
    <3> HIDE DEF e, w, d
    <3> QED  BY Zenon, <1>0, <2>2, <2>4, TableOfDispatch
  <2> QED  BY Zenon, <1>3, <2>3, <2>4 DEF DispatchGrant
<1>4. ASSUME NEW p \in Processes, PreemptCommit(p) PROVE TableSide
  BY <1>1, <1>2, <1>4 DEF PreemptCommit, vars
<1>5. ASSUME NEW p \in Processes, HeartbeatRenew(p) PROVE TableSide
  <2>1. procs[p].at \in Int /\ LeaseTtl \in Int
    BY <1>5, HeldLease, DispatchAssumption DEF HeartbeatRenew
  <2>2. CASE RenewLease(procs[p].lease, LeaseTtl, procs[p].at)
    BY <1>0, <2>1, <2>2, TableOfRenewal
  <2>3. CASE UNCHANGED vars
    BY <1>1, <2>3 DEF vars
  <2> QED  BY <1>5, <2>2, <2>3 DEF HeartbeatRenew
<1>6. ASSUME NEW p \in Processes, WritebackCommit(p) PROVE TableSide
  <2> DEFINE i == procs[p].lease
  <2>1. {i} \in SUBSET DOMAIN leases
    BY <1>6, HeldLease DEF WritebackCommit
  <2>2. CASE UNCHANGED vars
    BY <1>1, <2>2 DEF vars
  <2>3. CASE /\ leases' = CloseLeases(leases, {i}, "released")
             /\ audits' = audits \cup {<<i, "lease_released">>}
    <3> HIDE DEF i
    <3>1. Events({i}, "lease_released") = {<<i, "lease_released">>}
      BY DEF Events
    <3>2. "released" \in LeaseStatuses /\ "released" # "active" /\ "lease_released" \in AuditEvents
      BY DEF LeaseStatuses, AuditEvents
    <3> QED  BY <1>0, <2>1, <2>3, <3>1, <3>2, TableClosed
  <2> QED  BY <1>6, <2>2, <2>3 DEF WritebackCommit
<1>7. CASE Administration
  <2>1. ASSUME NEW i \in LeaseIds, NEW w \in Workers,
               HandoverLease(i, w, Requires[leases[i].executionId], LeaseTtl, 0)
        PROVE  TableSide
    BY <1>0, <2>1, TableHandedOver, DispatchAssumption
  <2>2. CASE ReclaimExpiredLeases(0)
    <3>1. ExpiredIds(leases, 0) \in SUBSET DOMAIN leases
      BY DEF ExpiredIds, ActiveIds
    <3> QED  BY <1>0, <2>2, <3>1, TableReclaimed DEF ReclaimExpiredLeases
  <2> QED  BY <1>1, <1>2, <1>7, <2>1, <2>2 DEF Administration, leaseVars
<1>8. ASSUME NEW p \in Processes, CoordinatorStep(p) PROVE TableSide
  BY Zenon, <1>1, <1>3, <1>4, <1>8
     DEF CoordinatorStep, DispatchBegin, DispatchSkip, DispatchAbandon, DispatchSelect,
         PreemptSelect, ReconcileScan, ReconcileApply, Crash, vars, leaseVars
<1>9. ASSUME NEW p \in Processes, WorkerCall(p) PROVE TableSide
  BY Zenon, <1>1, <1>5, <1>6, <1>9
     DEF WorkerCall, ClaimBegin, ClaimCommit, HeartbeatBegin, HeartbeatRefresh, WritebackBegin,
         Presents, ValidateWriteAccess, leaseVars
<1>10. CASE DispatchTick
  BY <1>0, <1>10, TableTicked DEF DispatchTick
<1> QED  BY <1>1, <1>7, <1>8, <1>9, <1>10
            DEF DispatchNext, StepOf, CreateTickets, CreateTicket, WorkerHeartbeat, vars, leaseVars

-----------------------------------------------------------------------------
(* Worker snapshots, agents and accepted tokens.                           *)

LEMMA HeartbeatKeepsTable ==
  ASSUME SnapshotTable(workers), NEW w \in Workers, NEW st \in WorkerStatuses,
         NEW run \in SUBSET Executions, RecordHeartbeat(w, st, run)
  PROVE  SnapshotTable(workers')
<1>1. [status |-> st, running |-> run, silence |-> 0,
       verified |-> w \in Registered /\ workers[w].verified] \in Snapshots
  BY DEF Snapshots
<1> QED  BY <1>1 DEF RecordHeartbeat, SnapshotTable, Registered

LEMMA RefreshFromKeepsTable ==
  ASSUME SnapshotTable(workers), NEW w \in Workers, NEW snapshot \in SnapshotReads,
         NEW run \in SUBSET Executions, RefreshFrom(w, snapshot, run)
  PROVE  SnapshotTable(workers')
<1>1. ToWorkerStatus(snapshot, run) \in WorkerStatuses
  BY DEF ToWorkerStatus, SnapshotReads, WorkerStatuses
<1> QED  BY <1>1, HeartbeatKeepsTable DEF RefreshFrom

LEMMA GrantKeepsTable ==
  ASSUME SnapshotTable(workers), NEW w \in Workers, NEW e \in Executions,
         workers' = [workers EXCEPT ![w].status = "busy", ![w].running = @ \cup {e}]
  PROVE  SnapshotTable(workers')
<1>1. CASE w \in DOMAIN workers
  <2> DEFINE row == [workers[w] EXCEPT !.status = "busy", !.running = @ \cup {e}]
  <2>1. row \in Snapshots
    BY <1>1 DEF SnapshotTable, Snapshots, WorkerStatuses
  <2>2. workers' = [workers EXCEPT ![w] = row]
    BY Zenon, <1>1 DEF SnapshotTable
  <2> HIDE DEF row
  <2> QED  BY Zenon, <2>1, <2>2 DEF SnapshotTable
<1>2. CASE w \notin DOMAIN workers
  BY Zenon, <1>2 DEF SnapshotTable
<1> QED  BY <1>1, <1>2

LEMMA SweepKeepsTable ==
  ASSUME SnapshotTable(workers), SweepStaleWorkerHeartbeats
  PROVE  SnapshotTable(workers')
<1>1. \A w \in Registered : [workers[w] EXCEPT !.status = "offline"] \in Snapshots
  BY DEF Snapshots, SnapshotTable, Registered, WorkerStatuses
<1> QED  BY <1>1 DEF SweepStaleWorkerHeartbeats, SnapshotTable, Registered

LEMMA HandoverKeepsTable ==
  ASSUME TypeOK, SnapshotTable(workers), NEW i, NEW w \in Workers, NEW required, NEW ttl, NEW d,
         HandoverLease(i, w, required, ttl, d)
  PROVE  SnapshotTable(workers')
<1> DEFINE e == leases[i].executionId
           ws == RemoveExecution(workers, leases[i].workerId, e)
<1>1. e \in Executions
  BY LeaseFields DEF HandoverLease, ActiveIds
<1>2. SnapshotTable(ws)
  BY <1>1, RefreshKeepsTable
<1> HIDE DEF ws
<1>3. SnapshotTable(MergeExecution(ws, w, e))
  BY <1>1, <1>2, RefreshKeepsTable
<1> QED  BY <1>3 DEF HandoverLease, ws

(* What each step does to the snapshots.                                   *)
LEMMA EveryStepKeepsWorkers ==
  ASSUME DispatchTypeOK, DispatchNext
  PROVE  SnapshotTable(workers')
<1>0. TypeOK /\ SnapshotTable(workers)
  BY DEF DispatchTypeOK, TypeOK, RegistryTypeOK, Registered, SnapshotTable
<1>1. ASSUME workers' = workers PROVE SnapshotTable(workers')
  BY <1>0, <1>1
<1>2. ASSUME NEW ids, Reclaim(ids) PROVE SnapshotTable(workers')
  BY <1>0, <1>2, ReclaimKeepsTable DEF Reclaim
<1>3. ASSUME NEW p \in Processes, DispatchGrant(p) PROVE SnapshotTable(workers')
  <2> DEFINE w == procs[p].worker
             e == tickets[procs[p].ticket].executionId
  <2>1. procs[p].op = "grant"
    BY <1>3 DEF DispatchGrant
  <2>2. w \in Workers /\ e \in Executions
    BY <2>1, GrantFields
  <2>3. workers' = workers
        \/ workers' = [workers EXCEPT ![w].status = "busy", ![w].running = @ \cup {e}]
    BY <1>3 DEF DispatchGrant, vars
  <2> HIDE DEF w, e
  <2> QED  BY <1>0, <1>1, <2>2, <2>3, GrantKeepsTable
<1>4. ASSUME NEW p \in Processes, ClaimCommit(p) PROVE SnapshotTable(workers')
  <2> DEFINE e == tickets[procs[p].ticket].executionId
             w == leases[procs[p].lease].workerId
             run == procs[p].snapshot.running \cup {e}
  <2>1. procs[p].op = "claim"
    BY <1>4 DEF ClaimCommit
  <2>2. procs[p].lease \in DOMAIN leases /\ procs[p].snapshot \in SnapshotReads
    BY <2>1, HeldLease
  <2>3. procs[p].ticket \in DOMAIN tickets
    BY <2>1, ProcFields DEF RefersToRows
  <2>4. w \in Workers /\ run \in SUBSET Executions
    BY <1>0, <2>2, <2>3, LeaseFields DEF DispatchTypeOK, SnapshotReads
  <2>5. RefreshFrom(w, procs[p].snapshot, run)
    BY <1>4 DEF ClaimCommit
  <2> HIDE DEF w, run
  <2> QED  BY <1>0, <2>2, <2>4, <2>5, RefreshFromKeepsTable
<1>5. ASSUME NEW p \in Processes, HeartbeatRefresh(p) PROVE SnapshotTable(workers')
  <2> DEFINE e == leases[procs[p].lease].executionId
             w == leases[procs[p].lease].workerId
             run == procs[p].snapshot.running \cup {e}
  <2>1. procs[p].lease \in DOMAIN leases /\ procs[p].snapshot \in SnapshotReads
    BY <1>5, HeldLease DEF HeartbeatRefresh
  <2>2. w \in Workers /\ run \in SUBSET Executions
    BY <1>0, <2>1, LeaseFields DEF SnapshotReads
  <2>3. RefreshFrom(w, procs[p].snapshot, run)
    BY <1>5 DEF HeartbeatRefresh
  <2> HIDE DEF w, run
  <2> QED  BY <1>0, <2>1, <2>2, <2>3, RefreshFromKeepsTable
<1>6. ASSUME NEW p \in Processes, WritebackCommit(p) PROVE SnapshotTable(workers')
  <2> DEFINE e == leases[procs[p].lease].executionId
             w == leases[procs[p].lease].workerId
             run == procs[p].snapshot.running \ {e}
  <2>1. procs[p].lease \in DOMAIN leases /\ procs[p].snapshot \in SnapshotReads
    BY <1>6, HeldLease DEF WritebackCommit
  <2>2. w \in Workers /\ run \in SUBSET Executions
    BY <1>0, <2>1, LeaseFields DEF SnapshotReads
  <2>3. workers' = workers \/ RefreshFrom(w, procs[p].snapshot, run)
    BY <1>6 DEF WritebackCommit, vars
  <2> HIDE DEF w, run
  <2> QED  BY <1>0, <1>1, <2>1, <2>2, <2>3, RefreshFromKeepsTable
<1>7. ASSUME NEW p \in Processes, NEW x \in TicketIds \X RepairActions, ReconcileApply(p, x)
      PROVE  SnapshotTable(workers')
  <2>1. x[1] \in DOMAIN tickets
    BY <1>7, ProcFields DEF ReconcileApply, RefersToRows
  <2>2. tickets[x[1]].executionId \in Executions
    BY <2>1 DEF DispatchTypeOK
  <2>3. workers' = workers
        \/ workers' = RemoveExecution(workers, tickets[x[1]].claimed.worker, tickets[x[1]].executionId)
    BY <1>7 DEF ReconcileApply
  <2> QED  BY <1>0, <1>1, <2>2, <2>3, RefreshKeepsTable
<1>8. CASE Administration
  BY <1>0, <1>2, <1>8, HandoverKeepsTable, SweepKeepsTable
     DEF Administration, ReclaimActiveLease, ReclaimExpiredLeases
<1>9. ASSUME NEW w \in Workers, WorkerHeartbeat(w) PROVE SnapshotTable(workers')
  <2>1. PICK s \in ReportedStatuses, run \in SUBSET {e \in Executions : agent[e] = w} :
          RecordHeartbeat(w, s, run)
    BY <1>9 DEF WorkerHeartbeat
  <2>2. s \in WorkerStatuses /\ run \in SUBSET Executions
    BY RegistryAssumption
  <2> QED  BY <1>0, <2>1, <2>2, HeartbeatKeepsTable
<1>10. CASE DispatchTick
  BY <1>0, <1>10, ReclaimKeepsTable DEF DispatchTick, Tick
<1>11. ASSUME NEW p \in Processes, CoordinatorStep(p) PROVE SnapshotTable(workers')
  BY Zenon, <1>1, <1>2, <1>3, <1>7, <1>11
     DEF CoordinatorStep, DispatchBegin, DispatchSkip, DispatchAbandon, DispatchSelect,
         PreemptSelect, PreemptCommit, ReclaimActiveLease, ReconcileScan, Crash, vars
<1>12. ASSUME NEW p \in Processes, WorkerCall(p) PROVE SnapshotTable(workers')
  BY Zenon, <1>1, <1>4, <1>5, <1>6, <1>12
     DEF WorkerCall, ClaimBegin, HeartbeatBegin, HeartbeatRenew, WritebackBegin,
         Presents, ValidateWriteAccess, RenewLease, vars
<1> QED  BY <1>1, <1>8, <1>9, <1>10, <1>11, <1>12
            DEF DispatchNext, StepOf, CreateTickets, CreateTicket, vars

(* What each step does to the agents, the leading region and the tokens.   *)
LEMMA EveryStepKeepsAgents ==
  ASSUME DispatchTypeOK, DispatchNext
  PROVE  /\ agent' \in [Executions -> Workers \cup {NoAgent}]
         /\ leaderRegion' \in Regions \cup {NoRegion}
         /\ accepted' \in [Executions -> Nat]
<1> DEFINE Kept == /\ agent' \in [Executions -> Workers \cup {NoAgent}]
                   /\ leaderRegion' \in Regions \cup {NoRegion}
                   /\ accepted' \in [Executions -> Nat]
<1>0. TypeOK
  BY DEF DispatchTypeOK
<1>1. ASSUME agent' = agent, leaderRegion' = leaderRegion, accepted' = accepted PROVE Kept
  BY <1>0, <1>1 DEF TypeOK
<1>2. ASSUME NEW i, Presents(i) PROVE Kept
  <2>1. /\ leases[i].fencingToken \in Nat
        /\ accepted' = [accepted EXCEPT ![leases[i].executionId] = leases[i].fencingToken]
        /\ agent' = agent /\ leaderRegion' = leaderRegion
    BY <1>0, <1>2, LeaseFields DEF Presents, ValidateWriteAccess
  <2> QED  BY Zenon, <1>0, <2>1 DEF TypeOK
<1>3. ASSUME NEW p \in Processes, ClaimCommit(p) PROVE Kept
  <2>1. leases[procs[p].lease].workerId \in Workers
    BY Zenon, <1>0, <1>3, HeldLease, LeaseFields DEF ClaimCommit
  <2>2. /\ agent' = [agent EXCEPT ![tickets[procs[p].ticket].executionId]
                                    = leases[procs[p].lease].workerId]
        /\ leaderRegion' = leaderRegion /\ accepted' = accepted
    BY Zenon, <1>3 DEF ClaimCommit
  <2> QED  BY Zenon, <1>0, <2>1, <2>2 DEF TypeOK
<1>4. ASSUME Administration PROVE Kept
  <2>1. ASSUME NEW i \in LeaseIds, NEW w \in Workers,
               HandoverLease(i, w, Requires[leases[i].executionId], LeaseTtl, 0)
        PROVE  Kept
    <3>1. /\ agent' = agent \/ agent' = [agent EXCEPT ![leases[i].executionId] = w]
          /\ leaderRegion' = leaderRegion /\ accepted' = accepted
      BY Zenon, <2>1 DEF HandoverLease
    <3> QED  BY <1>0, <3>1 DEF TypeOK
  <2> QED  BY <1>1, <1>4, <2>1
              DEF Administration, ReclaimActiveLease, ReclaimExpiredLeases, leaseVars
<1> HIDE DEF Kept
<1>5. ASSUME NEW p \in Processes, CoordinatorStep(p) PROVE Kept
  BY Zenon, <1>1, <1>5
     DEF CoordinatorStep, DispatchBegin, DispatchSkip, DispatchAbandon, DispatchSelect,
         DispatchGrant, PreemptSelect, PreemptCommit, ReclaimActiveLease, ReconcileScan,
         ReconcileApply, Crash, vars, leaseVars
<1>6. ASSUME NEW p \in Processes, WorkerCall(p) PROVE Kept
  BY Zenon, <1>1, <1>2, <1>3, <1>6
     DEF WorkerCall, ClaimBegin, HeartbeatBegin, HeartbeatRenew, HeartbeatRefresh, WritebackBegin,
         WritebackCommit, RenewLease, vars, leaseVars
<1>7. ASSUME CreateTickets \/ DispatchTick \/ \E w \in Workers : WorkerHeartbeat(w) PROVE Kept
  BY <1>1, <1>7
     DEF CreateTickets, CreateTicket, WorkerHeartbeat, DispatchTick, Tick, vars, leaseVars
<1>8. Kept
  BY <1>4, <1>5, <1>6, <1>7 DEF DispatchNext, StepOf
<1> QED  BY <1>8 DEF Kept

-----------------------------------------------------------------------------
(* The ticket table, whoever works on it; ids are the leases there are.    *)
ClaimsKnown(ts, ids) ==
  /\ DOMAIN ts \subseteq TicketIds
  /\ \A t \in DOMAIN ts :
       /\ ts[t].status \in TicketStatuses
       /\ \/ ts[t].claimed = Unassigned
          \/ ts[t].claimed.worker \in Workers /\ ts[t].claimed.lease \in ids

LEMMA SetStatusKeepsClaims ==
  ASSUME NEW ts, NEW ids, ClaimsKnown(ts, ids), NEW t, NEW st \in TicketStatuses
  PROVE  ClaimsKnown(SetTicketStatus(ts, t, st), ids)
<1> DEFINE ns == SetTicketStatus(ts, t, st)
<1>1. DOMAIN ns = DOMAIN ts
  BY DEF SetTicketStatus
<1>2. ASSUME NEW u \in DOMAIN ts
      PROVE  ns[u].claimed = ts[u].claimed /\ ns[u].status \in TicketStatuses
  BY DEF SetTicketStatus, TicketRow, ClaimsKnown
<1> HIDE DEF ns
<1>3. ClaimsKnown(ns, ids)
  BY <1>1, <1>2 DEF ClaimsKnown
<1> QED  BY <1>3 DEF ns

LEMMA InsertKeepsClaims ==
  ASSUME NEW ts, NEW ids, ClaimsKnown(ts, ids), NEW t \in TicketIds, NEW e, NEW a
  PROVE  ClaimsKnown(InsertTicket(ts, t, e, a), ids)
<1> DEFINE ns == InsertTicket(ts, t, e, a)
<1>1. DOMAIN ns = DOMAIN ts \cup {t}
  BY DEF InsertTicket
<1>2. /\ ns[t].claimed = Unassigned /\ ns[t].status \in TicketStatuses
      /\ \A u \in DOMAIN ts : u # t => ns[u] = ts[u]
  BY DEF InsertTicket, TicketRow, TicketStatuses
<1> HIDE DEF ns
<1>3. ClaimsKnown(ns, ids)
  BY <1>1, <1>2 DEF ClaimsKnown
<1> QED  BY <1>3 DEF ns

LEMMA ClaimKeepsClaims ==
  ASSUME NEW ts, NEW ids, ClaimsKnown(ts, ids), NEW t, NEW w \in Workers, NEW i \in ids
  PROVE  ClaimsKnown(ClaimTicket(ts, t, w, i), ids)
<1> DEFINE ns == ClaimTicket(ts, t, w, i)
<1>1. DOMAIN ns = DOMAIN ts
  BY DEF ClaimTicket
<1>2. ASSUME NEW u \in DOMAIN ts
      PROVE  /\ ns[u].status \in TicketStatuses
             /\ \/ ns[u].claimed = Unassigned
                \/ ns[u].claimed.worker \in Workers /\ ns[u].claimed.lease \in ids
  <2>1. CASE u = t /\ ts[u].status = "pending"
    <3>1. ns[u] = TicketRow(ts[u].executionId, ts[u].attempt, "claimed", [worker |-> w, lease |-> i])
      BY <2>1 DEF ClaimTicket
    <3> QED  BY <3>1 DEF TicketRow, TicketStatuses
  <2>2. CASE ~(u = t /\ ts[u].status = "pending")
    <3>1. ns[u] = ts[u]
      BY <2>2 DEF ClaimTicket
    <3> QED  BY <3>1 DEF ClaimsKnown
  <2> QED  BY <2>1, <2>2
<1> HIDE DEF ns
<1>3. ClaimsKnown(ns, ids)
  BY <1>1, <1>2 DEF ClaimsKnown
<1> QED  BY <1>3 DEF ns

LEMMA NewTicketIsNew ==
  ASSUME TicketsLeft
  PROVE  NewTicket \in TicketIds /\ NewTicket \notin DOMAIN tickets
BY DEF TicketsLeft, NewTicket

LEMMA NewLeaseOfGrant ==
  ASSUME DispatchTypeOK, Consistent(leases), NEW p \in Processes, DispatchGrant(p),
         ~UNCHANGED <<vars, tickets>>
  PROVE  /\ NewId \in DOMAIN leases'
         /\ tickets' = ClaimTicket(tickets, procs[p].ticket, procs[p].worker, NewId)
<1> DEFINE w == procs[p].worker
           d == procs[p].at
           e == tickets[procs[p].ticket].executionId
<1>1. procs[p].op = "grant"
  BY DEF DispatchGrant
<1>a. TypeOK
  BY Zenon DEF DispatchTypeOK
<1>c. LeaseTtl \in Int
  BY DispatchAssumption, SMTT(30)
<1>b. e \in Executions /\ w \in Workers /\ d \in Int
  BY <1>1, GrantFields, Zenon
<1>2. TypeOK /\ e \in Executions /\ w \in Workers /\ d \in Int /\ LeaseTtl \in Int
  BY <1>a, <1>b, <1>c, Zenon
<1>3. /\ UnusedIds # {}
      /\ ActiveRows(CloseLeases(leases, Outlived(e, d), "expired"), e) = {}
      /\ leases' = InsertLease(CloseLeases(leases, Outlived(e, d), "expired"), NewId,
                               e, w, d + LeaseTtl)
      /\ audits' = audits \cup Events(Outlived(e, d), "lease_expired")
                          \cup {<<NewId, "lease_granted">>}
      /\ tickets' = ClaimTicket(tickets, procs[p].ticket, w, NewId)
  BY Zenon DEF DispatchGrant
<1> HIDE DEF e, w, d
<1>4. NewId \in DOMAIN leases'
  BY Zenon, <1>2, <1>3, TableOfDispatch
<1> QED  BY <1>3, <1>4 DEF w

TicketSide ==
  /\ TicketsSound(tickets') /\ DOMAIN tickets \subseteq DOMAIN tickets'
  /\ ClaimsKnown(tickets', DOMAIN leases')

(* What each step does to the tickets.                                     *)
LEMMA EveryStepKeepsTickets ==
  ASSUME FullDispatchInv, DispatchNext
  PROVE  TicketSide
<1>0. /\ DispatchTypeOK /\ Consistent(leases) /\ TicketsSound(tickets)
      /\ DOMAIN leases \subseteq DOMAIN leases'
  BY EveryStepKeepsLeases DEF FullDispatchInv, DispatchInv, TableSide
<1> DEFINE ids == DOMAIN leases'
<1>1. ClaimsKnown(tickets, ids)
  BY <1>0 DEF DispatchTypeOK, ClaimsKnown
<1> HIDE DEF ids
<1>2. {"consumed", "expired", "cancelled"} \subseteq TicketStatuses \ LiveStatuses
  BY DEF TicketStatuses, LiveStatuses
<1>3. ASSUME tickets' = tickets PROVE TicketSide
  BY <1>0, <1>1, <1>3 DEF TicketSide, ids
<1>4. ASSUME NEW t, NEW st \in {"consumed", "expired", "cancelled"},
             tickets' = SetTicketStatus(tickets, t, st)
      PROVE  TicketSide
  <2>1. TicketsSound(tickets') /\ DOMAIN tickets' = DOMAIN tickets
    BY <1>0, <1>2, <1>4, SetStatusKeepsSound
  <2>2. ClaimsKnown(tickets', ids)
    BY <1>1, <1>2, <1>4, SetStatusKeepsClaims
  <2> QED  BY <2>1, <2>2 DEF TicketSide, ids
<1>5. ASSUME NEW e \in Executions, CreateTicket(e) PROVE TicketSide
  <2>1. NewTicket \in TicketIds /\ NewTicket \notin DOMAIN tickets
    BY <1>5, NewTicketIsNew DEF CreateTicket
  <2>2. TicketsSound(tickets')
    BY <1>0, <1>5, <2>1, InsertKeepsSound DEF CreateTicket, FirstAttempt
  <2>3. ClaimsKnown(tickets', ids)
    BY <1>1, <1>5, <2>1, InsertKeepsClaims DEF CreateTicket
  <2>4. DOMAIN tickets \subseteq DOMAIN tickets'
    BY <1>5 DEF CreateTicket, InsertTicket
  <2> QED  BY <2>2, <2>3, <2>4 DEF TicketSide, ids
<1>6. ASSUME NEW p \in Processes, NEW t, PassOver(p, t) PROVE TicketSide
  BY <1>3, <1>4, <1>6 DEF PassOver, InvalidateTicket
<1>7. ASSUME NEW p \in Processes, DispatchGrant(p) PROVE TicketSide
  <2>1. CASE UNCHANGED <<vars, tickets>>
    BY <1>3, <2>1
  <2>2. CASE ~UNCHANGED <<vars, tickets>>
    <3>1. /\ NewId \in ids
          /\ tickets' = ClaimTicket(tickets, procs[p].ticket, procs[p].worker, NewId)
      BY <1>0, <1>7, <2>2, NewLeaseOfGrant DEF ids
    <3>2. procs[p].worker \in Workers
      BY Zenon, <1>0, <1>7, GrantFields DEF DispatchGrant
    <3>3. TicketsSound(tickets') /\ ClaimsKnown(tickets', ids)
      BY <1>0, <1>1, <3>1, <3>2, ClaimKeepsSound, ClaimKeepsClaims
    <3>4. DOMAIN tickets' = DOMAIN tickets
      BY <3>1 DEF ClaimTicket
    <3> QED  BY <3>3, <3>4 DEF TicketSide, ids
  <2> QED  BY <2>1, <2>2
<1>8. ASSUME NEW p \in Processes, ClaimCommit(p) PROVE TicketSide
  BY Zenon, <1>4, <1>8 DEF ClaimCommit, ConsumeTicket
<1>9. ASSUME NEW p \in Processes, NEW x \in TicketIds \X RepairActions, ReconcileApply(p, x)
      PROVE  TicketSide
  <2> DEFINE t == x[1]
             e == tickets[t].executionId
             vs == InvalidateTicket(tickets, t, "expired")
  <2>1. e \in Executions
    BY <1>0, <1>9, ProcFields DEF ReconcileApply, RefersToRows, DispatchTypeOK
  <2>2. CASE tickets' = InvalidateTicket(tickets, t, "cancelled")
    BY <1>4, <2>2 DEF InvalidateTicket
  <2>3. CASE TicketsLeft /\ tickets' = InsertTicket(vs, NewTicket, e, NextAttempt(tickets, e))
    <3>1. NewTicket \in TicketIds /\ NewTicket \notin DOMAIN tickets
      BY <2>3, NewTicketIsNew
    <3>2. TicketsSound(tickets')
      BY <1>0, <2>1, <2>3, <3>1, RequeueKeepsSound
    <3>3. ClaimsKnown(vs, ids)
      BY <1>1, <1>2, SetStatusKeepsClaims DEF InvalidateTicket
    <3>4. DOMAIN vs = DOMAIN tickets
      BY DEF InvalidateTicket, SetTicketStatus
    <3> HIDE DEF vs, e
    <3>5. ClaimsKnown(tickets', ids)
      BY <2>3, <3>1, <3>3, InsertKeepsClaims
    <3>6. DOMAIN tickets \subseteq DOMAIN tickets'
      BY <2>3, <3>4 DEF InsertTicket
    <3> QED  BY <3>2, <3>5, <3>6 DEF TicketSide, ids
  <2> QED  BY <1>9, <2>2, <2>3 DEF ReconcileApply
<1>10. ASSUME NEW p \in Processes, PreemptCommit(p) PROVE TicketSide
  <2> DEFINE e == procs[p].execution
  <2>1. procs[p] \in Preempting
    BY Zenon, <1>0, <1>10, ProcFields, StateByOp DEF PreemptCommit
  <2>2. e \in Executions
    BY <2>1 DEF Preempting
  <2>3. CASE TicketsLeft /\ tickets' = InsertTicket(tickets, NewTicket, e, NextAttempt(tickets, e))
    <3>1. NewTicket \in TicketIds /\ NewTicket \notin DOMAIN tickets
      BY <2>3, NewTicketIsNew
    <3>2. TicketsSound(tickets')
      BY <1>0, <2>2, <2>3, <3>1, ReplacementKeepsSound
    <3>3. ClaimsKnown(tickets', ids)
      BY <1>1, <2>3, <3>1, InsertKeepsClaims
    <3>4. DOMAIN tickets \subseteq DOMAIN tickets'
      BY <2>3 DEF InsertTicket
    <3> QED  BY <3>2, <3>3, <3>4 DEF TicketSide, ids
  <2> QED  BY Zenon, <1>6, <1>10, <2>3 DEF PreemptCommit
<1>11. ASSUME NEW p \in Processes, StepOf(p) PROVE TicketSide
  BY Zenon, <1>3, <1>6, <1>7, <1>8, <1>9, <1>10, <1>11
     DEF StepOf, CoordinatorStep, WorkerCall, DispatchBegin, DispatchSkip, PreemptSelect,
         DispatchAbandon, DispatchSelect, ClaimBegin, HeartbeatBegin, HeartbeatRenew,
         HeartbeatRefresh, WritebackBegin, WritebackCommit, ReconcileScan, Crash
<1> QED  BY <1>3, <1>5, <1>11
            DEF DispatchNext, CreateTickets, WorkerHeartbeat, Administration, DispatchTick,
                dispatchVars

(* What each step does to the statuses of executions.                      *)
LEMMA EveryStepKeepsStatuses ==
  ASSUME DispatchTypeOK, DispatchNext
  PROVE  execStatus' \in [Executions -> ExecutionStatuses]
<1> DEFINE Typed == execStatus' \in [Executions -> ExecutionStatuses]
<1>1. ASSUME execStatus' = execStatus PROVE Typed
  BY <1>1 DEF DispatchTypeOK
<1>2. ASSUME NEW e, NEW st \in ExecutionStatuses, execStatus' = [execStatus EXCEPT ![e] = st]
      PROVE  Typed
  BY Zenon, <1>2 DEF DispatchTypeOK
<1>3. {"failed", "blocked", "executing"} \subseteq ExecutionStatuses
  BY DEF ExecutionStatuses, TerminalStatuses, StartableStatuses
<1>4. ASSUME NEW p \in Processes, WritebackCommit(p) PROVE Typed
  <2>1. procs[p] \in WritingBack
    BY Zenon, <1>4, ProcFields, StateByOp DEF WritebackCommit
  <2>2. procs[p].outcome \in ExecutionStatuses
    BY <2>1, DispatchAssumption DEF WritingBack, ExecutionStatuses
  <2> QED  BY Zenon, <1>1, <1>2, <1>4, <2>2 DEF WritebackCommit
<1>5. ASSUME NEW p \in Processes, ClaimCommit(p) PROVE Typed
  <2> DEFINE e == tickets[procs[p].ticket].executionId
  <2>1. \/ execStatus' = [execStatus EXCEPT ![e] = "executing"]
        \/ execStatus' = [execStatus EXCEPT ![e] = @]
    BY Zenon, <1>5 DEF ClaimCommit
  <2> HIDE DEF e
  <2>2. CASE execStatus' = [execStatus EXCEPT ![e] = @]
    BY Zenon, <2>2 DEF DispatchTypeOK
  <2> QED  BY <1>2, <1>3, <2>1, <2>2
<1>6. ASSUME NEW p \in Processes, StepOf(p) PROVE Typed
  <2> HIDE DEF Typed
  <2>1. CASE DispatchAbandon(p) \/ PreemptCommit(p)
    BY Zenon, <1>1, <1>2, <1>3, <2>1 DEF DispatchAbandon, PreemptCommit
  <2> QED  BY Zenon, <1>1, <1>4, <1>5, <1>6, <2>1
              DEF StepOf, CoordinatorStep, WorkerCall, DispatchBegin, DispatchSkip, PreemptSelect,
                  DispatchSelect, DispatchGrant, ClaimBegin, HeartbeatBegin, HeartbeatRenew,
                  HeartbeatRefresh, WritebackBegin, ReconcileScan, ReconcileApply, Crash
<1> QED  BY <1>1, <1>6
            DEF DispatchNext, CreateTickets, CreateTicket, WorkerHeartbeat, Administration,
                DispatchTick, dispatchVars

-----------------------------------------------------------------------------
(* The processes.  What they hold stays well formed, and as tables only    *)
(* grow, what they refer to stays there.                                   *)
LEMMA ListedTickets ==
  ASSUME DispatchTypeOK, NEW p \in Processes,
         procs[p].op \in {"dispatch", "grant", "preempt", "preempted"}
  PROVE  /\ procs[p].todo \subseteq DOMAIN tickets /\ procs[p].todo \subseteq TicketIds
         /\ procs[p].at \in Delays
         /\ procs[p].op # "dispatch" => procs[p].ticket \in DOMAIN tickets
<1>1. /\ procs[p] \in Dispatching \cup Granting \cup Preempting \cup Preempted
      /\ RefersToRows(procs[p])
  BY ProcFields, StateByOp
<1>2. procs[p].at \in Delays /\ procs[p].todo \subseteq TicketIds
  BY <1>1 DEF Dispatching, Granting, Preempting, Preempted
<1> QED  BY Zenon, <1>1, <1>2 DEF RefersToRows

LEMMA LookedAtTicket ==
  ASSUME DispatchTypeOK, NEW p \in Processes, NEW t, LooksAt(p, t)
  PROVE  /\ t \in DOMAIN tickets /\ t \in TicketIds /\ tickets[t].executionId \in Executions
         /\ procs[p].todo \subseteq DOMAIN tickets /\ procs[p].todo \subseteq TicketIds
         /\ procs[p].at \in Delays
<1>1. procs[p].op \in {"dispatch", "preempted"}
  BY Zenon DEF LooksAt
<1>2. t \in DOMAIN tickets
  BY <1>1, ListedTickets DEF LooksAt
<1> QED  BY Zenon, <1>1, <1>2, ListedTickets DEF DispatchTypeOK

(* Time passes for a suspended operation.                                  *)
LEMMA AgedState ==
  ASSUME NEW s \in ProcStates, s # Idle, s.at > 0 - MaxDelay
  PROVE  LET n == [s EXCEPT !.at = @ - 1]
         IN  /\ n \in ProcStates /\ n # Idle /\ n.op = s.op
             /\ s.op \in {"grant", "preempt", "preempted", "claim"} => n.ticket = s.ticket
             /\ s.op \in {"dispatch", "grant", "preempt", "preempted"} => n.todo = s.todo
             /\ s.op \in {"claim", "renew", "refresh", "writeback"} => n.lease = s.lease
             /\ s.op = "repair" => n.issues = s.issues
             /\ s.op = "claim" => n.status = s.status
             /\ s.op = "preempt" => n.execution = s.execution
<1> DEFINE a == s.at - 1
           n == [s EXCEPT !.at = a]
<1>1. ASSUME s.at \in Delays PROVE a \in Delays
  BY <1>1, DispatchAssumption DEF Delays
<1> HIDE DEF a
<1>2. CASE s \in Dispatching
  <2>1. a \in Delays
    BY <1>1, <1>2 DEF Dispatching
  <2>2. n \in Dispatching /\ n.op = s.op /\ n.todo = s.todo /\ s.op = "dispatch"
    BY <1>2, <2>1 DEF Dispatching
  <2> QED  BY <2>2 DEF ProcStates, Idle, a
<1>3. CASE s \in Granting
  <2>1. a \in Delays
    BY <1>1, <1>3 DEF Granting
  <2>2. n \in Granting /\ n.op = s.op /\ n.todo = s.todo /\ n.ticket = s.ticket /\ s.op = "grant"
    BY <1>3, <2>1 DEF Granting
  <2> QED  BY <2>2 DEF ProcStates, Idle, a
<1>4. CASE s \in Preempting
  <2>1. a \in Delays
    BY <1>1, <1>4 DEF Preempting
  <2>2. /\ n \in Preempting /\ n.op = s.op /\ n.todo = s.todo /\ n.ticket = s.ticket
        /\ n.execution = s.execution /\ s.op = "preempt"
    BY <1>4, <2>1 DEF Preempting
  <2> QED  BY <2>2 DEF ProcStates, Idle, a
<1>5. CASE s \in Preempted
  <2>1. a \in Delays
    BY <1>1, <1>5 DEF Preempted
  <2>2. n \in Preempted /\ n.op = s.op /\ n.todo = s.todo /\ n.ticket = s.ticket /\ s.op = "preempted"
    BY <1>5, <2>1 DEF Preempted
  <2> QED  BY <2>2 DEF ProcStates, Idle, a
<1>6. CASE s \in Abandoning
  <2>1. a \in Delays
    BY <1>1, <1>6 DEF Abandoning
  <2>2. n \in Abandoning /\ n.op = s.op /\ s.op = "abandon"
    BY <1>6, <2>1 DEF Abandoning
  <2> QED  BY <2>2 DEF ProcStates, Idle, a
<1>7. CASE s \in Claiming
  <2>1. a \in Delays
    BY <1>1, <1>7 DEF Claiming
  <2>2. /\ n \in Claiming /\ n.op = s.op /\ n.ticket = s.ticket /\ n.lease = s.lease
        /\ n.status = s.status /\ s.op = "claim"
    BY <1>7, <2>1 DEF Claiming
  <2> QED  BY <2>2 DEF ProcStates, Idle, a
<1>8. CASE s \in Renewing
  <2>1. a \in Delays
    BY <1>1, <1>8 DEF Renewing
  <2>2. n \in Renewing /\ n.op = s.op /\ n.lease = s.lease /\ s.op \in {"renew", "refresh"}
    BY <1>8, <2>1 DEF Renewing
  <2> QED  BY <2>2 DEF ProcStates, Idle, a
<1>9. CASE s \in WritingBack
  <2>1. a \in Delays
    BY <1>1, <1>9 DEF WritingBack
  <2>2. n \in WritingBack /\ n.op = s.op /\ n.lease = s.lease /\ s.op = "writeback"
    BY <1>9, <2>1 DEF WritingBack
  <2> QED  BY <2>2 DEF ProcStates, Idle, a
<1>10. CASE s \in Repairing
  <2>1. a \in Delays
    BY <1>1, <1>10 DEF Repairing
  <2>2. n \in Repairing /\ n.op = s.op /\ n.issues = s.issues /\ s.op = "repair"
    BY <1>10, <2>1 DEF Repairing
  <2> QED  BY <2>2 DEF ProcStates, Idle, a
<1> QED  BY <1>2, <1>3, <1>4, <1>5, <1>6, <1>7, <1>8, <1>9, <1>10 DEF ProcStates

(* State s is well formed for the tables after the step.                   *)
Held(s) ==
  /\ s \in ProcStates
  /\ s.op \in {"grant", "preempt", "preempted", "claim"} => s.ticket \in DOMAIN tickets'
  /\ s.op \in {"dispatch", "grant", "preempt", "preempted"} => s.todo \subseteq DOMAIN tickets'
  /\ s.op \in {"claim", "renew", "refresh", "writeback"} => s.lease \in DOMAIN leases'
  /\ s.op = "repair" => \A x \in s.issues : x[1] \in DOMAIN tickets'

LEMMA HeldStates ==
  /\ \A s \in Dispatching : s.todo \subseteq DOMAIN tickets' => Held(s)
  /\ \A s \in Granting \cup Preempting \cup Preempted :
       s.ticket \in DOMAIN tickets' /\ s.todo \subseteq DOMAIN tickets' => Held(s)
  /\ \A s \in Abandoning \cup {Idle} : Held(s)
  /\ \A s \in Claiming : s.ticket \in DOMAIN tickets' /\ s.lease \in DOMAIN leases' => Held(s)
  /\ \A s \in Renewing \cup WritingBack : s.lease \in DOMAIN leases' => Held(s)
  /\ \A s \in Repairing : (\A x \in s.issues : x[1] \in DOMAIN tickets') => Held(s)
<1>1. ASSUME NEW s \in Dispatching, s.todo \subseteq DOMAIN tickets' PROVE Held(s)
  <2>1. s.op = "dispatch" /\ s \in ProcStates
    BY DEF Dispatching, ProcStates
  <2> QED  BY <1>1, <2>1 DEF Held
<1>2. ASSUME NEW s \in Granting \cup Preempting \cup Preempted,
             s.ticket \in DOMAIN tickets', s.todo \subseteq DOMAIN tickets'
      PROVE  Held(s)
  <2>1. s.op \in {"grant", "preempt", "preempted"} /\ s \in ProcStates
    BY DEF Granting, Preempting, Preempted, ProcStates
  <2> QED  BY <1>2, <2>1 DEF Held
<1>3. ASSUME NEW s \in Abandoning \cup {Idle} PROVE Held(s)
  <2>1. s.op \in {"abandon", "idle"} /\ s \in ProcStates
    BY DEF Abandoning, Idle, ProcStates
  <2> QED  BY <2>1 DEF Held
<1>4. ASSUME NEW s \in Claiming, s.ticket \in DOMAIN tickets', s.lease \in DOMAIN leases'
      PROVE  Held(s)
  <2>1. s.op = "claim" /\ s \in ProcStates
    BY DEF Claiming, ProcStates
  <2> QED  BY <1>4, <2>1 DEF Held
<1>5. ASSUME NEW s \in Renewing \cup WritingBack, s.lease \in DOMAIN leases' PROVE Held(s)
  <2>1. s.op \in {"renew", "refresh", "writeback"} /\ s \in ProcStates
    BY DEF Renewing, WritingBack, ProcStates
  <2> QED  BY <1>5, <2>1 DEF Held
<1>6. ASSUME NEW s \in Repairing, \A x \in s.issues : x[1] \in DOMAIN tickets' PROVE Held(s)
  <2>1. s.op = "repair" /\ s \in ProcStates
    BY DEF Repairing, ProcStates
  <2> QED  BY <1>6, <2>1 DEF Held
<1> QED  BY <1>1, <1>2, <1>3, <1>4, <1>5, <1>6

ProcSide == procs' \in [Processes -> ProcStates] /\ \A q \in Processes : Held(procs'[q])

LEMMA PresentedLease ==
  ASSUME DispatchTypeOK, NEW i, Presents(i)
  PROVE  /\ i \in DOMAIN leases /\ i \in LeaseIds /\ leases' = leases
         /\ ReadSnapshot(leases[i].workerId) \in SnapshotReads
<1>1. i \in DOMAIN leases /\ leases' = leases /\ leases[i].workerId \in DOMAIN workers
  BY DEF Presents, ValidateWriteAccess, Registered
<1>2. workers[leases[i].workerId] \in Snapshots
  BY <1>1 DEF DispatchTypeOK, TypeOK, RegistryTypeOK, Registered
<1>3. ReadSnapshot(leases[i].workerId) \in SnapshotReads
  BY Zenon, <1>2 DEF ReadSnapshot, SnapshotReads, Snapshots
<1> QED  BY <1>1, <1>3 DEF DispatchTypeOK, TypeOK

(* What each step does to the processes.                                   *)
LEMMA EveryStepKeepsProcs ==
  ASSUME FullDispatchInv, DispatchNext
  PROVE  ProcSide
<1>0. /\ DispatchTypeOK /\ DOMAIN leases \subseteq DOMAIN leases'
      /\ DOMAIN tickets \subseteq DOMAIN tickets' /\ DOMAIN tickets \subseteq TicketIds
      /\ 0 \in Delays
  <2>1. DispatchTypeOK /\ Consistent(leases)
    BY Zenon DEF FullDispatchInv, DispatchInv
  <2>2. TableSide /\ TicketSide
    BY <2>1, EveryStepKeepsLeases, EveryStepKeepsTickets, Zenon
  <2>3. DOMAIN leases \subseteq DOMAIN leases' /\ DOMAIN tickets \subseteq DOMAIN tickets'
    BY <2>2, Zenon DEF TableSide, TicketSide
  <2>4. DOMAIN tickets \subseteq TicketIds
    BY <2>1, Zenon DEF DispatchTypeOK
  <2>5. 0 \in Delays
    BY DispatchAssumption DEF Delays
  <2> QED  BY <2>1, <2>3, <2>4, <2>5, Zenon
<1>1. ASSUME NEW q \in Processes PROVE Held(procs[q])
  BY Zenon, <1>0, ProcFields DEF RefersToRows, Held
<1>2. ASSUME procs' = procs PROVE ProcSide
  BY Zenon, <1>0, <1>1, <1>2 DEF ProcSide, DispatchTypeOK
<1>3. ASSUME NEW p \in Processes, NEW s, Held(s), Becomes(p, s) PROVE ProcSide
  <2>1. procs \in [Processes -> ProcStates] /\ s \in ProcStates
    BY <1>0, <1>3 DEF DispatchTypeOK, Held
  <2>2. procs' \in [Processes -> ProcStates]
        /\ \A q \in Processes : procs'[q] = IF q = p THEN s ELSE procs[q]
    BY <1>3, <2>1 DEF Becomes
  <2> QED  BY <1>1, <1>3, <2>2 DEF ProcSide
<1>4. ASSUME NEW p \in Processes, Becomes(p, Idle) PROVE ProcSide
  BY <1>3, <1>4, HeldStates
<1>5. ASSUME NEW p \in Processes, NEW todo, todo \subseteq DOMAIN tickets, NEW d \in Delays,
             GoOn(p, todo, d)
      PROVE  ProcSide
  <2> DEFINE s == [op |-> "dispatch", todo |-> todo, at |-> d]
  <2>1. s \in Dispatching /\ s.todo \subseteq DOMAIN tickets'
    BY <1>0, <1>5 DEF Dispatching
  <2> HIDE DEF s
  <2>2. Held(s)
    BY <2>1, HeldStates
  <2>3. Becomes(p, Idle) \/ Becomes(p, s)
    BY <1>5 DEF GoOn, s
  <2> QED  BY <1>3, <1>4, <2>2, <2>3
<1>6. ASSUME NEW p \in Processes, NEW t, t \in DOMAIN tickets,
             procs[p].op \in {"dispatch", "preempt", "preempted"}, PassOver(p, t)
      PROVE  ProcSide
  <2> DEFINE s == [op |-> "abandon", execution |-> tickets[t].executionId, at |-> procs[p].at]
  <2>1. procs[p].todo \ {t} \subseteq DOMAIN tickets /\ procs[p].at \in Delays
    BY <1>0, <1>6, ListedTickets
  <2>2. s \in Abandoning
    BY Zenon, <1>0, <1>6, <2>1 DEF Abandoning, DispatchTypeOK
  <2> HIDE DEF s
  <2>3. Held(s)
    BY <2>2, HeldStates
  <2>4. GoOn(p, procs[p].todo \ {t}, procs[p].at) \/ Becomes(p, s) \/ Becomes(p, Idle)
    BY Zenon, <1>6 DEF PassOver, Ends, s
  <2> QED  BY <1>3, <1>4, <1>5, <2>1, <2>3, <2>4
<1>7. ASSUME NEW p \in Processes, CoordinatorStep(p) PROVE ProcSide
  <2>1. CASE DispatchBegin(p)
    <3> DEFINE s == [op |-> "dispatch", todo |-> Dispatchable(tickets), at |-> 0]
    <3>1. s \in Dispatching /\ s.todo \subseteq DOMAIN tickets'
      BY Zenon, <1>0 DEF Dispatching, Dispatchable
    <3> HIDE DEF s
    <3>2. Held(s)
      BY Zenon, <3>1, HeldStates
    <3>3. Becomes(p, s)
      BY <2>1 DEF DispatchBegin, Starts, s
    <3> QED  BY <1>3, <3>2, <3>3
  <2>2. ASSUME NEW t \in TicketIds, DispatchSkip(p, t) PROVE ProcSide
    <3>1. t \in DOMAIN tickets /\ procs[p].op \in {"dispatch", "preempted"}
      BY <1>0, <2>2, LookedAtTicket DEF DispatchSkip, LooksAt
    <3> QED  BY <1>6, <2>2, <3>1 DEF DispatchSkip
  <2>3. ASSUME NEW t \in TicketIds, NEW w \in Workers, DispatchSelect(p, t, w) PROVE ProcSide
    <3> DEFINE s == [op |-> "grant", ticket |-> t, worker |-> w,
                     todo |-> procs[p].todo \ {t}, at |-> procs[p].at]
    <3>1. /\ t \in DOMAIN tickets /\ procs[p].todo \subseteq DOMAIN tickets
          /\ procs[p].todo \subseteq TicketIds /\ procs[p].at \in Delays
      BY Zenon, <1>0, <2>3, LookedAtTicket DEF DispatchSelect
    <3>2. s \in Granting /\ s.ticket \in DOMAIN tickets' /\ s.todo \subseteq DOMAIN tickets'
      BY Zenon, <1>0, <3>1 DEF Granting
    <3> HIDE DEF s
    <3>3. Held(s)
      BY <3>2, HeldStates
    <3>4. Becomes(p, s)
      BY <2>3 DEF DispatchSelect, s
    <3> QED  BY <1>3, <3>3, <3>4
  <2>4. CASE DispatchGrant(p)
    <3>1. procs[p].todo \subseteq DOMAIN tickets /\ procs[p].at \in Delays
      BY Zenon, <1>0, <2>4, GrantFields DEF DispatchGrant
    <3>2. GoOn(p, procs[p].todo, procs[p].at) \/ Becomes(p, Idle)
      BY Zenon, <2>4 DEF DispatchGrant, Ends
    <3> QED  BY <1>4, <1>5, <3>1, <3>2
  <2>5. ASSUME NEW t \in TicketIds, NEW e \in Executions, PreemptSelect(p, t, e) PROVE ProcSide
    <3> DEFINE s == [op |-> "preempt", ticket |-> t, execution |-> e,
                     todo |-> procs[p].todo, at |-> procs[p].at]
    <3>1. /\ t \in DOMAIN tickets /\ procs[p].todo \subseteq DOMAIN tickets
          /\ procs[p].todo \subseteq TicketIds /\ procs[p].at \in Delays
      BY Zenon, <1>0, <2>5, ListedTickets DEF PreemptSelect
    <3>2. s \in Preempting /\ s.ticket \in DOMAIN tickets' /\ s.todo \subseteq DOMAIN tickets'
      BY Zenon, <1>0, <3>1 DEF Preempting
    <3> HIDE DEF s
    <3>3. Held(s)
      BY <3>2, HeldStates
    <3>4. Becomes(p, s)
      BY Zenon, <2>5 DEF PreemptSelect, s
    <3> QED  BY <1>3, <3>3, <3>4
  <2>6. CASE PreemptCommit(p)
    <3> DEFINE s == [op |-> "preempted", ticket |-> procs[p].ticket,
                     todo |-> procs[p].todo, at |-> procs[p].at]
    <3>1. /\ procs[p].op = "preempt" /\ procs[p].ticket \in DOMAIN tickets
          /\ procs[p].todo \subseteq DOMAIN tickets
          /\ procs[p].todo \subseteq TicketIds /\ procs[p].at \in Delays
      BY Zenon, <1>0, <2>6, ListedTickets DEF PreemptCommit
    <3>2. s \in Preempted /\ s.ticket \in DOMAIN tickets' /\ s.todo \subseteq DOMAIN tickets'
      BY Zenon, <1>0, <3>1 DEF Preempted
    <3> HIDE DEF s
    <3>3. Held(s)
      BY Zenon, <3>2, HeldStates
    <3>4. Becomes(p, s) \/ PassOver(p, procs[p].ticket)
      BY Zenon, <2>6 DEF PreemptCommit, s
    <3> QED  BY Zenon, <1>3, <1>6, <3>1, <3>3, <3>4
  <2>7. CASE ReconcileScan(p)
    <3> DEFINE s == [op |-> "repair", issues |-> Issues, at |-> 0]
    <3>1. /\ Issues \in SUBSET (TicketIds \X RepairActions)
          /\ \A x \in Issues : x[1] \in DOMAIN tickets'
      <4> SUFFICES ASSUME NEW x \in Issues
                   PROVE  x \in TicketIds \X RepairActions /\ x[1] \in DOMAIN tickets'
        OBVIOUS
      <4>1. PICK t \in LiveTickets(tickets), a \in RepairActions : x = <<t, a>>
        BY DEF Issues, RepairActions
      <4>2. t \in DOMAIN tickets
        BY DEF LiveTickets
      <4> QED  BY <1>0, <4>1, <4>2
    <3>2. s \in Repairing /\ s.issues = Issues
      BY <1>0, <3>1 DEF Repairing
    <3> HIDE DEF s
    <3>3. Held(s)
      BY <3>1, <3>2, HeldStates
    <3>4. Becomes(p, s)
      BY <2>7 DEF ReconcileScan, Starts, s
    <3> QED  BY <1>3, <3>3, <3>4
  <2>8. ASSUME NEW x \in TicketIds \X RepairActions, ReconcileApply(p, x) PROVE ProcSide
    <3> DEFINE left == procs[p].issues \ {x}
               s == [procs[p] EXCEPT !.issues = left]
    <3>1. procs[p] \in Repairing /\ \A y \in procs[p].issues : y[1] \in DOMAIN tickets
      BY <1>0, <2>8, ProcFields, StateByOp DEF ReconcileApply, RefersToRows
    <3>2. s \in Repairing /\ s.issues = left
      BY <3>1 DEF Repairing
    <3>3. \A y \in s.issues : y[1] \in DOMAIN tickets'
      BY <1>0, <3>1, <3>2
    <3>4. Becomes(p, s) \/ Becomes(p, Idle)
      BY <2>8 DEF ReconcileApply
    <3> HIDE DEF s
    <3>5. Held(s)
      BY <3>2, <3>3, HeldStates
    <3> QED  BY <1>3, <1>4, <3>4, <3>5
  <2> QED  BY Zenon, <1>4, <1>7, <2>1, <2>2, <2>3, <2>4, <2>5, <2>6, <2>7, <2>8
              DEF CoordinatorStep, DispatchAbandon, Crash, Ends
<1>8. ASSUME NEW p \in Processes, WorkerCall(p) PROVE ProcSide
  <2>1. ASSUME NEW t \in TicketIds, ClaimBegin(p, t) PROVE ProcSide
    <3> DEFINE i == tickets[t].claimed.lease
               snapshot == ReadSnapshot(leases[i].workerId)
               status == execStatus[tickets[t].executionId]
               s == [op |-> "claim", ticket |-> t, lease |-> i, snapshot |-> snapshot,
                     status |-> status, at |-> 0]
    <3>1. t \in DOMAIN tickets /\ Presents(i) /\ Becomes(p, s)
      BY Zenon, <2>1 DEF ClaimBegin, Starts
    <3>2. i \in DOMAIN leases /\ i \in LeaseIds /\ snapshot \in SnapshotReads
      BY Zenon, <1>0, <3>1, PresentedLease
    <3>3. status \in ExecutionStatuses
      BY Zenon, <1>0, <3>1 DEF DispatchTypeOK
    <3> HIDE DEF i, snapshot, status
    <3>4. s \in Claiming /\ s.ticket \in DOMAIN tickets' /\ s.lease \in DOMAIN leases'
      BY Zenon, <1>0, <3>1, <3>2, <3>3 DEF Claiming
    <3> HIDE DEF s
    <3> QED  BY Zenon, <1>3, <3>1, <3>4, HeldStates
  <2>2. ASSUME NEW i \in LeaseIds, HeartbeatBegin(p, i) PROVE ProcSide
    <3> DEFINE snapshot == ReadSnapshot(leases[i].workerId)
               s == [op |-> "renew", lease |-> i, snapshot |-> snapshot, at |-> 0]
    <3>1. Presents(i) /\ Becomes(p, s)
      BY <2>2 DEF HeartbeatBegin, Starts
    <3>2. i \in DOMAIN leases /\ snapshot \in SnapshotReads
      BY Zenon, <1>0, <3>1, PresentedLease
    <3> HIDE DEF snapshot
    <3>3. s \in Renewing /\ s.lease \in DOMAIN leases'
      BY Zenon, <1>0, <3>2 DEF Renewing
    <3> HIDE DEF s
    <3> QED  BY Zenon, <1>3, <3>1, <3>3, HeldStates
  <2>3. CASE HeartbeatRenew(p)
    <3> DEFINE s == [procs[p] EXCEPT !.op = "refresh"]
    <3>1. procs[p] \in Renewing /\ procs[p].lease \in DOMAIN leases
      BY <1>0, <2>3, ProcFields, StateByOp, HeldLease DEF HeartbeatRenew
    <3>2. s \in Renewing /\ s.lease \in DOMAIN leases'
      BY <1>0, <3>1 DEF Renewing
    <3>3. Becomes(p, s) \/ Becomes(p, Idle)
      BY <2>3 DEF HeartbeatRenew, Ends
    <3> HIDE DEF s
    <3> QED  BY Zenon, <1>3, <1>4, <3>2, <3>3, HeldStates
  <2>4. ASSUME NEW i \in LeaseIds, NEW outcome \in Outcomes, WritebackBegin(p, i, outcome)
        PROVE  ProcSide
    <3> DEFINE snapshot == ReadSnapshot(leases[i].workerId)
               s == [op |-> "writeback", lease |-> i, outcome |-> outcome,
                     snapshot |-> snapshot, at |-> 0]
    <3>1. Presents(i) /\ Becomes(p, s)
      BY Zenon, <2>4 DEF WritebackBegin, Starts
    <3>2. i \in DOMAIN leases /\ snapshot \in SnapshotReads
      BY <1>0, <3>1, PresentedLease
    <3> HIDE DEF snapshot
    <3>3. s \in WritingBack /\ s.lease \in DOMAIN leases'
      BY <1>0, <3>2 DEF WritingBack
    <3> HIDE DEF s
    <3> QED  BY Zenon, <1>3, <3>1, <3>3, HeldStates
  <2> QED  BY Zenon, <1>4, <1>8, <2>1, <2>2, <2>3, <2>4
              DEF WorkerCall, ClaimCommit, HeartbeatRefresh, WritebackCommit, Ends
<1>9. CASE DispatchTick
  <2>1. procs' = [p \in Processes |->
                    IF procs[p] = Idle THEN Idle ELSE [procs[p] EXCEPT !.at = @ - 1]]
    BY <1>9 DEF DispatchTick
  <2>2. ASSUME NEW p \in Processes PROVE Held(procs'[p])
    <3>1. CASE procs[p] = Idle
      BY <2>1, <3>1, HeldStates
    <3>2. CASE procs[p] # Idle
      <4> DEFINE s == procs[p]
      <4>1. s \in ProcStates /\ s # Idle /\ s.at > 0 - MaxDelay /\ Held(s)
        BY <1>1, <1>9, <3>2 DEF DispatchTick, Held
      <4>2. procs'[p] = [s EXCEPT !.at = @ - 1]
        BY <2>1, <3>2
      <4> HIDE DEF s
      <4> QED  BY <4>1, <4>2, AgedState DEF Held
    <3> QED  BY <3>1, <3>2
  <2>3. \A p \in Processes : procs'[p] \in ProcStates
    BY <2>2 DEF Held
  <2> QED  BY <2>1, <2>2, <2>3 DEF ProcSide
<1> QED  BY Zenon, <1>2, <1>7, <1>8, <1>9
            DEF DispatchNext, StepOf, CreateTickets, CreateTicket, WorkerHeartbeat,
                Administration, dispatchVars
=============================================================================
