----------------------- MODULE ExecutionDispatchProofs -----------------------
(***************************************************************************)
(* Proofs about ExecutionDispatch for any number of processes, tickets,    *)
(* leases and workers.                                                     *)
(***************************************************************************)
EXTENDS DispatchStepProofs

-----------------------------------------------------------------------------
(* The tickets of blocked executions.                                      *)

(* State s neither uses ticket t up without starting its execution nor     *)
(* withdraws it.                                                           *)
Spares(s, t) ==
  /\ s.op = "claim" /\ s.ticket = t => s.status \in StartableStatuses
  /\ s.op = "repair" => <<t, "invalidate_ticket">> \notin s.issues

LEMMA LastingIsSpared ==
  ASSUME NEW t
  PROVE  /\ Lasting(t) <=> \A p \in Processes : Spares(procs[p], t)
         /\ Lasting(t)' <=> \A p \in Processes : Spares(procs'[p], t)
BY DEF Lasting, Spares

(* No process is at work on a ticket before there is one.                  *)
LEMMA FreshIsLasting ==
  ASSUME DispatchTypeOK, NEW t, t \notin DOMAIN tickets
  PROVE  Lasting(t)
<1> SUFFICES ASSUME NEW p \in Processes PROVE Spares(procs[p], t)
  BY LastingIsSpared
<1>1. RefersToRows(procs[p])
  BY ProcFields
<1>2. procs[p].op = "claim" => procs[p].ticket # t
  BY <1>1 DEF RefersToRows
<1>3. ASSUME procs[p].op = "repair" PROVE <<t, "invalidate_ticket">> \notin procs[p].issues
  <2>1. \A x \in procs[p].issues : x[1] \in DOMAIN tickets
    BY <1>1, <1>3 DEF RefersToRows
  <2>2. <<t, "invalidate_ticket">>[1] = t
    OBVIOUS
  <2> QED  BY <2>1, <2>2
<1> QED  BY <1>2, <1>3 DEF Spares

(* A ticket of a blocked execution that is spared stays so: a claim that   *)
(* begins now finds the execution blocked, and a scan has nothing against  *)
(* the ticket that would withdraw it.                                      *)
LEMMA LastingStays ==
  ASSUME DispatchTypeOK, DispatchNext, NEW t, Lasting(t),
         t \in DOMAIN tickets => execStatus[tickets[t].executionId] = "blocked"
  PROVE  Lasting(t)'
<1>1. \A q \in Processes : Spares(procs[q], t)
  BY LastingIsSpared
<1>2. procs \in [Processes -> ProcStates]
  BY DEF DispatchTypeOK
<1> DEFINE Stays == \A q \in Processes : Spares(procs'[q], t)
<1>3. ASSUME procs' = procs PROVE Stays
  BY <1>1, <1>3
<1>4. ASSUME NEW p \in Processes, NEW s, Spares(s, t), Becomes(p, s) PROVE Stays
  <2>1. \A q \in Processes : procs'[q] = IF q = p THEN s ELSE procs[q]
    BY <1>2, <1>4 DEF Becomes
  <2> QED  BY <1>1, <1>4, <2>1
<1>5. ASSUME NEW s, s.op \notin {"claim", "repair"} PROVE Spares(s, t)
  BY <1>5 DEF Spares
<1>6. ASSUME NEW p \in Processes, Becomes(p, Idle) PROVE Stays
  <2>1. Spares(Idle, t)
    BY <1>5 DEF Idle
  <2> QED  BY <1>4, <1>6, <2>1
<1> HIDE DEF Stays
<1>7. ASSUME NEW p \in Processes, NEW todo, NEW d, GoOn(p, todo, d) PROVE Stays
  <2> DEFINE s == [op |-> "dispatch", todo |-> todo, at |-> d]
  <2>1. Spares(s, t)
    BY <1>5
  <2>2. Becomes(p, s) \/ Becomes(p, Idle)
    BY <1>7 DEF GoOn
  <2> HIDE DEF s
  <2> QED  BY <1>4, <1>6, <2>1, <2>2
<1>8. ASSUME NEW p \in Processes, NEW u, PassOver(p, u) PROVE Stays
  <2> DEFINE s == [op |-> "abandon", execution |-> tickets[u].executionId, at |-> procs[p].at]
  <2>1. Spares(s, t)
    BY <1>5
  <2>2. GoOn(p, procs[p].todo \ {u}, procs[p].at) \/ Becomes(p, s) \/ Becomes(p, Idle)
    BY Zenon, <1>8 DEF PassOver, Ends
  <2> HIDE DEF s
  <2> QED  BY Zenon, <1>4, <1>6, <1>7, <2>1, <2>2
<1>9. ASSUME NEW p \in Processes, CoordinatorStep(p) PROVE Stays
  <2>1. CASE DispatchBegin(p)
    <3> DEFINE s == [op |-> "dispatch", todo |-> Dispatchable(tickets), at |-> 0]
    <3>1. Spares(s, t) /\ Becomes(p, s)
      BY Zenon, <1>5, <2>1 DEF DispatchBegin, Starts
    <3> HIDE DEF s
    <3> QED  BY <1>4, <3>1
  <2>2. ASSUME NEW u \in TicketIds, NEW w \in Workers, DispatchSelect(p, u, w) PROVE Stays
    <3> DEFINE s == [op |-> "grant", ticket |-> u, worker |-> w,
                     todo |-> procs[p].todo \ {u}, at |-> procs[p].at]
    <3>1. Spares(s, t) /\ Becomes(p, s)
      BY Zenon, <1>5, <2>2 DEF DispatchSelect
    <3> HIDE DEF s
    <3> QED  BY <1>4, <3>1
  <2>3. CASE DispatchGrant(p)
    BY Zenon, <1>6, <1>7, <2>3 DEF DispatchGrant, Ends
  <2>4. ASSUME NEW u \in TicketIds, NEW e \in Executions, PreemptSelect(p, u, e) PROVE Stays
    <3> DEFINE s == [op |-> "preempt", ticket |-> u, execution |-> e,
                     todo |-> procs[p].todo, at |-> procs[p].at]
    <3>1. Spares(s, t) /\ Becomes(p, s)
      BY Zenon, <1>5, <2>4 DEF PreemptSelect
    <3> HIDE DEF s
    <3> QED  BY <1>4, <3>1
  <2>5. CASE PreemptCommit(p)
    <3> DEFINE s == [op |-> "preempted", ticket |-> procs[p].ticket,
                     todo |-> procs[p].todo, at |-> procs[p].at]
    <3>1. Spares(s, t) /\ (Becomes(p, s) \/ PassOver(p, procs[p].ticket))
      BY Zenon, <1>5, <2>5 DEF PreemptCommit
    <3> HIDE DEF s
    <3> QED  BY <1>4, <1>8, <3>1
  <2>6. CASE ReconcileScan(p)
    <3> DEFINE s == [op |-> "repair", issues |-> Issues, at |-> 0]
    <3>1. ASSUME <<t, "invalidate_ticket">> \in Issues PROVE FALSE
      <4>1. t \in LiveTickets(tickets) /\ NeedsInvalidation(t)
        BY <3>1 DEF Issues
      <4>2. t \in DOMAIN tickets /\ execStatus[tickets[t].executionId] \in TerminalStatuses
        BY <4>1 DEF LiveTickets, NeedsInvalidation
      <4> QED  BY <4>2 DEF TerminalStatuses
    <3>2. Spares(s, t)
      BY <3>1 DEF Spares
    <3>3. Becomes(p, s)
      BY <2>6 DEF ReconcileScan, Starts
    <3> HIDE DEF s
    <3> QED  BY <1>4, <3>2, <3>3
  <2>7. ASSUME NEW x \in TicketIds \X RepairActions, ReconcileApply(p, x) PROVE Stays
    <3> DEFINE left == procs[p].issues \ {x}
               s == [procs[p] EXCEPT !.issues = left]
    <3>1. procs[p] \in Repairing /\ procs[p].op = "repair"
      BY <2>7, ProcFields, StateByOp DEF ReconcileApply
    <3>2. s.op = "repair" /\ s.issues = left
      BY <3>1 DEF Repairing
    <3>3. Spares(procs[p], t)
      BY <1>1
    <3>4. Becomes(p, s) \/ Becomes(p, Idle)
      BY <2>7 DEF ReconcileApply
    <3> HIDE DEF s
    <3>5. Spares(s, t)
      BY <3>1, <3>2, <3>3 DEF Spares
    <3> QED  BY <1>4, <1>6, <3>4, <3>5
  <2> QED  BY Zenon, <1>6, <1>8, <1>9, <2>1, <2>2, <2>3, <2>4, <2>5, <2>6, <2>7
              DEF CoordinatorStep, DispatchSkip, DispatchAbandon, Crash, Ends
<1>10. ASSUME NEW p \in Processes, WorkerCall(p) PROVE Stays
  <2>1. ASSUME NEW u \in TicketIds, ClaimBegin(p, u) PROVE Stays
    <3> DEFINE i == tickets[u].claimed.lease
               status == execStatus[tickets[u].executionId]
               s == [op |-> "claim", ticket |-> u, lease |-> i,
                     snapshot |-> ReadSnapshot(leases[i].workerId), status |-> status, at |-> 0]
    <3>1. u \in DOMAIN tickets /\ Becomes(p, s)
      BY Zenon, <2>1 DEF ClaimBegin, Starts
    <3>2. u = t => status \in StartableStatuses
      BY Zenon, <3>1 DEF StartableStatuses
    <3>3. s.op = "claim" /\ s.ticket = u /\ s.status = status
      BY Zenon
    <3> HIDE DEF s, status
    <3>4. Spares(s, t)
      BY <3>2, <3>3 DEF Spares
    <3> QED  BY <1>4, <3>1, <3>4
  <2>2. ASSUME NEW i \in LeaseIds, HeartbeatBegin(p, i) PROVE Stays
    <3> DEFINE s == [op |-> "renew", lease |-> i,
                     snapshot |-> ReadSnapshot(leases[i].workerId), at |-> 0]
    <3>1. Spares(s, t) /\ Becomes(p, s)
      BY Zenon, <1>5, <2>2 DEF HeartbeatBegin, Starts
    <3> HIDE DEF s
    <3> QED  BY <1>4, <3>1
  <2>3. CASE HeartbeatRenew(p)
    <3> DEFINE s == [procs[p] EXCEPT !.op = "refresh"]
    <3>1. procs[p] \in Renewing
      BY <2>3, ProcFields, StateByOp DEF HeartbeatRenew
    <3>2. s.op = "refresh"
      BY <3>1 DEF Renewing
    <3>3. Becomes(p, s) \/ Becomes(p, Idle)
      BY <2>3 DEF HeartbeatRenew, Ends
    <3> HIDE DEF s
    <3> QED  BY Zenon, <1>4, <1>5, <1>6, <3>2, <3>3
  <2>4. ASSUME NEW i \in LeaseIds, NEW outcome \in Outcomes, WritebackBegin(p, i, outcome)
        PROVE  Stays
    <3> DEFINE s == [op |-> "writeback", lease |-> i, outcome |-> outcome,
                     snapshot |-> ReadSnapshot(leases[i].workerId), at |-> 0]
    <3>1. Spares(s, t) /\ Becomes(p, s)
      BY Zenon, <1>5, <2>4 DEF WritebackBegin, Starts
    <3> HIDE DEF s
    <3> QED  BY <1>4, <3>1
  <2> QED  BY Zenon, <1>6, <1>10, <2>1, <2>2, <2>3, <2>4
              DEF WorkerCall, ClaimCommit, HeartbeatRefresh, WritebackCommit, Ends
<1>11. ASSUME DispatchTick PROVE Stays
  <2> SUFFICES ASSUME NEW p \in Processes PROVE Spares(procs'[p], t)
    BY DEF Stays
  <2>1. procs'[p] = IF procs[p] = Idle THEN Idle ELSE [procs[p] EXCEPT !.at = @ - 1]
    BY <1>11 DEF DispatchTick
  <2>2. CASE procs[p] = Idle
    BY <1>1, <2>1, <2>2
  <2>3. CASE procs[p] # Idle
    <3> DEFINE s == procs[p]
    <3>1. s \in ProcStates /\ s # Idle /\ s.at > 0 - MaxDelay /\ Spares(s, t)
      BY <1>1, <1>2, <1>11, <2>3 DEF DispatchTick
    <3>2. procs'[p] = [s EXCEPT !.at = @ - 1]
      BY <2>1, <2>3
    <3> HIDE DEF s
    <3> QED  BY <3>1, <3>2, AgedState DEF Spares
  <2> QED  BY <2>2, <2>3
<1>12. Stays
  BY Zenon, <1>3, <1>9, <1>10, <1>11
     DEF DispatchNext, StepOf, CreateTickets, CreateTicket, WorkerHeartbeat, Administration,
         dispatchVars
<1> QED  BY <1>12, LastingIsSpared DEF Stays

(* A live, spared ticket of an execution that stays blocked remains, or is *)
(* replaced, whichever operation commits.                                  *)
LEMMA LastingTicketRemains ==
  ASSUME DispatchTypeOK, ~PoisonPill, DispatchNext, NEW t \in LiveTickets(tickets), Lasting(t),
         execStatus'[tickets[t].executionId] = "blocked"
  PROVE  \E u \in LiveTickets(tickets') :
           /\ tickets'[u].executionId = tickets[t].executionId
           /\ u = t \/ u \notin DOMAIN tickets
<1> DEFINE e == tickets[t].executionId
           Remains == \E u \in LiveTickets(tickets') :
                        tickets'[u].executionId = e /\ (u = t \/ u \notin DOMAIN tickets)
<1>0. t \in DOMAIN tickets /\ tickets[t].status \in LiveStatuses /\ e \in Executions
  BY DEF LiveTickets, DispatchTypeOK
<1>1. ASSUME t \in DOMAIN tickets', tickets'[t].status \in LiveStatuses,
             tickets'[t].executionId = e
      PROVE  Remains
  BY <1>1 DEF LiveTickets
<1>2. ASSUME NEW u, u \notin DOMAIN tickets, u \in DOMAIN tickets',
             tickets'[u].executionId = e, tickets'[u].status \in LiveStatuses
      PROVE  Remains
  BY <1>2 DEF LiveTickets
<1> HIDE DEF Remains
<1>3. ASSUME tickets' = tickets PROVE Remains
  BY <1>0, <1>1, <1>3
<1>4. ASSUME NEW u, u # t, NEW st, tickets' = SetTicketStatus(tickets, u, st) PROVE Remains
  <2>1. t \in DOMAIN tickets' /\ tickets'[t] = tickets[t]
    BY <1>0, <1>4 DEF SetTicketStatus
  <2> QED  BY <1>0, <1>1, <2>1
<1>5. ASSUME NEW ts, t \in DOMAIN ts, ts[t] = tickets[t], TicketsLeft, NEW f, NEW a,
             tickets' = InsertTicket(ts, NewTicket, f, a)
      PROVE  Remains
  <2>1. NewTicket # t
    BY <1>0, <1>5, NewTicketIsNew
  <2>2. t \in DOMAIN tickets' /\ tickets'[t] = tickets[t]
    BY <1>5, <2>1 DEF InsertTicket
  <2> QED  BY <1>0, <1>1, <2>2
<1>6. ASSUME NEW f \in Executions, CreateTicket(f) PROVE Remains
  BY <1>0, <1>5, <1>6 DEF CreateTicket
<1>7. ASSUME NEW p \in Processes, DispatchGrant(p) PROVE Remains
  <2>1. CASE tickets' = tickets
    BY <1>3, <2>1
  <2>2. CASE tickets' = ClaimTicket(tickets, procs[p].ticket, procs[p].worker, NewId)
    <3>1. t \in DOMAIN tickets'
      BY Zenon, <1>0, <2>2 DEF ClaimTicket
    <3>2. tickets'[t] = tickets[t] \/ tickets'[t] = TicketRow(e, tickets[t].attempt, "claimed",
                                          [worker |-> procs[p].worker, lease |-> NewId])
      BY Zenon, <1>0, <2>2 DEF ClaimTicket
    <3>3. tickets'[t].status \in LiveStatuses /\ tickets'[t].executionId = e
      <4>1. CASE tickets'[t] = tickets[t]
        BY <1>0, <4>1, Zenon
      <4>2. ASSUME NEW a, NEW as, tickets'[t] = TicketRow(e, a, "claimed", as)
            PROVE  tickets'[t].status = "claimed" /\ tickets'[t].executionId = e
        BY <4>2 DEF TicketRow
      <4> QED  BY <3>2, <4>1, <4>2, Zenon DEF LiveStatuses
    <3> QED  BY <1>1, <3>1, <3>3
  <2> QED  BY Zenon, <1>7, <2>1, <2>2 DEF DispatchGrant
<1>8. ASSUME NEW p \in Processes, NEW u, PassOver(p, u) PROVE Remains
  BY Zenon, <1>3, <1>8 DEF PassOver
<1>9. ASSUME NEW p \in Processes, PreemptCommit(p) PROVE Remains
  BY Zenon, <1>0, <1>5, <1>8, <1>9 DEF PreemptCommit
<1>10. ASSUME NEW p \in Processes, ClaimCommit(p) PROVE Remains
  <2>1. /\ procs[p].op = "claim"
        /\ tickets' = SetTicketStatus(tickets, procs[p].ticket, "consumed")
        /\ execStatus' = [execStatus EXCEPT ![tickets[procs[p].ticket].executionId] =
              IF procs[p].status \in StartableStatuses THEN "executing" ELSE @]
    BY Zenon, <1>10 DEF ClaimCommit, ConsumeTicket
  <2>2. ASSUME procs[p].ticket = t PROVE FALSE
    <3>1. procs[p].status \in StartableStatuses
      BY Zenon, <2>1, <2>2 DEF Lasting
    <3>2. execStatus'[e] = "executing"
      BY Zenon, <1>0, <2>1, <2>2, <3>1 DEF DispatchTypeOK
    <3> QED  BY Zenon, <3>2
  <2> QED  BY Zenon, <1>4, <2>1, <2>2
<1>11. ASSUME NEW p \in Processes, NEW x \in TicketIds \X RepairActions, ReconcileApply(p, x)
       PROVE  Remains
  <2> DEFINE v == x[1]
             f == tickets[v].executionId
             vs == SetTicketStatus(tickets, v, "expired")
  <2>1. procs[p].op = "repair" /\ x \in procs[p].issues /\ x = <<v, x[2]>>
    BY <1>11 DEF ReconcileApply
  <2>2. CASE x[2] = "invalidate_ticket" /\ tickets' = SetTicketStatus(tickets, v, "cancelled")
    <3>1. v # t
      BY Zenon, <2>1, <2>2 DEF Lasting
    <3> QED  BY Zenon, <1>4, <2>2, <3>1
  <2>3. CASE TicketsLeft /\ tickets' = InsertTicket(vs, NewTicket, f, NextAttempt(tickets, f))
    <3>1. CASE v = t
      <4>1. NewTicket \notin DOMAIN tickets
        BY Zenon, <2>3, NewTicketIsNew
      <4>2. /\ NewTicket \in DOMAIN tickets'
            /\ tickets'[NewTicket] = TicketRow(e, NextAttempt(tickets, e), "pending", Unassigned)
        BY Zenon, <2>3, <3>1 DEF InsertTicket
      <4>3. tickets'[NewTicket].executionId = e /\ tickets'[NewTicket].status \in LiveStatuses
        BY <4>2 DEF TicketRow, LiveStatuses
      <4> QED  BY Zenon, <1>2, <4>1, <4>2, <4>3
    <3>2. CASE v # t
      <4>1. t \in DOMAIN vs /\ vs[t] = tickets[t]
        BY Zenon, <1>0, <3>2 DEF SetTicketStatus
      <4> HIDE DEF vs, f
      <4> QED  BY Zenon, <1>5, <2>3, <4>1
    <3> QED  BY <3>1, <3>2
  <2> QED  BY <1>11, <2>2, <2>3 DEF ReconcileApply, InvalidateTicket
<1>12. ASSUME NEW p \in Processes, StepOf(p) PROVE Remains
  BY Zenon, <1>3, <1>7, <1>8, <1>9, <1>10, <1>11, <1>12
     DEF StepOf, CoordinatorStep, WorkerCall, DispatchBegin, DispatchSkip, DispatchAbandon,
         DispatchSelect, PreemptSelect, ClaimBegin, HeartbeatBegin, HeartbeatRenew,
         HeartbeatRefresh, WritebackBegin, WritebackCommit, ReconcileScan, Crash
<1>13. Remains
  BY <1>3, <1>6, <1>12
     DEF DispatchNext, CreateTickets, WorkerHeartbeat, Administration, DispatchTick, dispatchVars
<1> QED  BY <1>13 DEF Remains

(* Only preemption blocks an execution, and it issues a ticket with it.    *)
LEMMA BlockingIssuesTicket ==
  ASSUME DispatchTypeOK, DispatchNext, NEW e \in Executions,
         execStatus[e] # "blocked", execStatus'[e] = "blocked"
  PROVE  \E u \in LiveTickets(tickets') :
           tickets'[u].executionId = e /\ u \notin DOMAIN tickets
<1> DEFINE Issued == \E u \in LiveTickets(tickets') :
                       tickets'[u].executionId = e /\ u \notin DOMAIN tickets
<1>0. execStatus \in [Executions -> ExecutionStatuses]
  BY DEF DispatchTypeOK
<1>1. ASSUME execStatus' = execStatus PROVE Issued
  BY <1>1
<1>2. ASSUME NEW f, NEW st, execStatus' = [execStatus EXCEPT ![f] = st], st # "blocked"
      PROVE  Issued
  BY <1>0, <1>2
<1>3. ASSUME NEW p \in Processes, PreemptCommit(p) PROVE Issued
  <2> DEFINE f == procs[p].execution
  <2>1. CASE execStatus' = execStatus
    BY Zenon, <1>1, <2>1
  <2>2. CASE /\ execStatus' = [execStatus EXCEPT ![f] = "blocked"] /\ TicketsLeft
             /\ tickets' = InsertTicket(tickets, NewTicket, f, NextAttempt(tickets, f))
    <3>1. f = e
      BY <1>0, <2>2
    <3>2. NewTicket \notin DOMAIN tickets
      BY <2>2, NewTicketIsNew
    <3>3. /\ NewTicket \in DOMAIN tickets'
          /\ tickets'[NewTicket] = TicketRow(e, NextAttempt(tickets, e), "pending", Unassigned)
      BY <2>2, <3>1 DEF InsertTicket
    <3>4. tickets'[NewTicket].executionId = e /\ tickets'[NewTicket].status = "pending"
      BY <3>3 DEF TicketRow
    <3>5. "pending" \in LiveStatuses
      BY DEF LiveStatuses
    <3> QED  BY <3>2, <3>5, <3>3, <3>4 DEF LiveTickets
  <2> QED  BY Zenon, <1>3, <2>1, <2>2 DEF PreemptCommit
<1>4. ASSUME NEW p \in Processes, ClaimCommit(p) PROVE Issued
  <2> DEFINE f == tickets[procs[p].ticket].executionId
  <2>1. \/ execStatus' = [execStatus EXCEPT ![f] = "executing"]
        \/ execStatus' = [execStatus EXCEPT ![f] = @]
    BY Zenon, <1>4 DEF ClaimCommit
  <2> HIDE DEF f
  <2>2. CASE execStatus' = [execStatus EXCEPT ![f] = @]
    BY <1>0, <2>2
  <2> QED  BY <1>2, <2>1, <2>2
<1>5. ASSUME NEW p \in Processes, WritebackCommit(p) PROVE Issued
  <2>1. procs[p] \in WritingBack
    BY Zenon, <1>5, ProcFields, StateByOp DEF WritebackCommit
  <2>2. procs[p].outcome # "blocked"
    BY <2>1, DispatchAssumption DEF WritingBack, TerminalStatuses
  <2> QED  BY Zenon, <1>1, <1>2, <1>5, <2>2 DEF WritebackCommit
<1>6. ASSUME NEW p \in Processes, StepOf(p) PROVE Issued
  <2> HIDE DEF Issued
  <2>1. CASE DispatchAbandon(p)
    BY <1>2, <2>1 DEF DispatchAbandon
  <2> QED  BY Zenon, <1>1, <1>3, <1>4, <1>5, <1>6, <2>1
              DEF StepOf, CoordinatorStep, WorkerCall, DispatchBegin, DispatchSkip, PreemptSelect,
                  DispatchSelect, DispatchGrant, ClaimBegin, HeartbeatBegin, HeartbeatRenew,
                  HeartbeatRefresh, WritebackBegin, ReconcileScan, ReconcileApply, Crash
<1> QED  BY <1>1, <1>6
            DEF DispatchNext, CreateTickets, CreateTicket, WorkerHeartbeat, Administration,
                DispatchTick, dispatchVars

LEMMA EveryStepKeepsBlocked ==
  ASSUME DispatchTypeOK, ~PoisonPill, BlockedHasLastingTicket, DispatchNext
  PROVE  BlockedHasLastingTicket'
<1> SUFFICES ASSUME NEW e \in Executions, execStatus'[e] = "blocked"
             PROVE  \E u \in LiveTickets(tickets') : tickets'[u].executionId = e /\ Lasting(u)'
  BY DEF BlockedHasLastingTicket
<1>1. ASSUME NEW u, u \notin DOMAIN tickets PROVE Lasting(u)'
  BY <1>1, FreshIsLasting, LastingStays
<1>2. CASE execStatus[e] = "blocked"
  <2>1. PICK t \in LiveTickets(tickets) : tickets[t].executionId = e /\ Lasting(t)
    BY <1>2 DEF BlockedHasLastingTicket
  <2>2. PICK u \in LiveTickets(tickets') :
          tickets'[u].executionId = e /\ (u = t \/ u \notin DOMAIN tickets)
    BY <2>1, LastingTicketRemains
  <2>3. Lasting(t)'
    BY <1>2, <2>1, LastingStays
  <2> QED  BY <1>1, <2>2, <2>3
<1>3. CASE execStatus[e] # "blocked"
  BY <1>1, <1>3, BlockingIssuesTicket
<1> QED  BY <1>2, <1>3

-----------------------------------------------------------------------------
LEMMA DispatchInvStep == FullDispatchInv /\ [DispatchNext]_allVars => FullDispatchInv'
<1> SUFFICES ASSUME FullDispatchInv, [DispatchNext]_allVars PROVE FullDispatchInv'
  OBVIOUS
<1>1. CASE DispatchNext
  <2>1. DispatchTypeOK /\ Consistent(leases)
    BY DEF FullDispatchInv, DispatchInv
  <2>2. TableSide /\ TicketSide /\ ProcSide /\ SnapshotTable(workers')
        /\ execStatus' \in [Executions -> ExecutionStatuses]
    BY <1>1, <2>1, EveryStepKeepsLeases, EveryStepKeepsTickets, EveryStepKeepsProcs,
       EveryStepKeepsWorkers, EveryStepKeepsStatuses
  <2>3. /\ agent' \in [Executions -> Workers \cup {NoAgent}]
        /\ leaderRegion' \in Regions \cup {NoRegion}
        /\ accepted' \in [Executions -> Nat]
    BY <1>1, <2>1, EveryStepKeepsAgents
  <2>4. TypeOK'
    BY <2>2, <2>3 DEF TypeOK, RegistryTypeOK, Registered, SnapshotTable, TableSide, Consistent
  <2>5. DispatchTypeOK'
    <3>1. \A t \in DOMAIN tickets' :
            /\ tickets'[t].executionId \in Executions
            /\ tickets'[t].attempt \in Nat
            /\ tickets'[t].status \in TicketStatuses
            /\ \/ tickets'[t].claimed = Unassigned
               \/ /\ tickets'[t].claimed.worker \in Workers
                  /\ tickets'[t].claimed.lease \in DOMAIN leases'
      BY <2>2 DEF TicketSide, TicketsSound, ClaimsKnown
    <3>2. DOMAIN tickets' \subseteq TicketIds
      BY <2>2 DEF TicketSide, ClaimsKnown
    <3>3. \A p \in Processes : RefersToRows(procs[p])'
      BY <2>2 DEF ProcSide, Held, RefersToRows
    <3>4. procs' \in [Processes -> ProcStates]
      BY <2>2 DEF ProcSide
    <3> QED  BY Zenon, <2>2, <2>4, <3>1, <3>2, <3>3, <3>4 DEF DispatchTypeOK
  <2>6. HolderHasTopToken' /\ TokensUnique'
    BY <2>2 DEF TableSide, Consistent, HolderHasTopToken, TokensUnique
  <2>7. ASSUME ~PoisonPill PROVE BlockedHasLastingTicket'
    BY <1>1, <2>1, <2>7, EveryStepKeepsBlocked DEF FullDispatchInv, DispatchInv
  <2> QED  BY <2>2, <2>5, <2>6, <2>7 DEF FullDispatchInv, DispatchInv, TableSide, TicketSide
<1>2. CASE UNCHANGED allVars
  <2>1. TypeOK'
    BY <1>2 DEF allVars, vars, FullDispatchInv, DispatchInv, DispatchTypeOK, TypeOK,
                RegistryTypeOK, Registered
  <2>2. DispatchTypeOK'
    BY Zenon, <1>2, <2>1 DEF allVars, dispatchVars, vars, FullDispatchInv, DispatchInv, DispatchTypeOK,
                      RefersToRows
  <2>3. BlockedHasLastingTicket => BlockedHasLastingTicket'
    BY Zenon, <1>2 DEF allVars, dispatchVars, BlockedHasLastingTicket, Lasting
  <2> QED  BY <1>2, <2>2, <2>3
              DEF allVars, dispatchVars, vars, FullDispatchInv, DispatchInv, HolderHasTopToken,
                  TokensUnique
<1> QED  BY <1>1, <1>2

LEMMA DispatchInvInit == DispatchInit => FullDispatchInv
<1> SUFFICES ASSUME DispatchInit PROVE FullDispatchInv
  OBVIOUS
<1>1. DOMAIN tickets = {}
  BY DEF DispatchInit
<1>2. TicketsSound(tickets)
  <2>1. \A e : AttemptsOf(tickets, e) = {}
    BY <1>1 DEF AttemptsOf, TicketsOf
  <2> QED  BY <1>1, <2>1 DEF TicketsSound, HasLastAttempt, LiveAttemptsDiffer, LiveTickets
<1>3. LeaseInv
  BY LeaseInvInit DEF DispatchInit
<1>4. DispatchTypeOK
  <2>1. execStatus \in [Executions -> ExecutionStatuses]
    BY DEF DispatchInit, ExecutionStatuses, StartableStatuses
  <2>2. procs \in [Processes -> ProcStates] /\ \A p \in Processes : procs[p].op = "idle"
    BY DEF DispatchInit, ProcStates, Idle
  <2>3. \A p \in Processes : RefersToRows(procs[p])
    BY <2>2 DEF RefersToRows
  <2> QED  BY <1>1, <1>3, <2>1, <2>2, <2>3 DEF DispatchTypeOK, LeaseInv
<1>5. BlockedHasLastingTicket
  BY DEF DispatchInit, BlockedHasLastingTicket
<1> QED  BY <1>2, <1>3, <1>4, <1>5
            DEF FullDispatchInv, DispatchInv, LeaseInv, Consistent, HolderHasTopToken, TokensUnique

(* However many processes dispatch, preempt, claim, write back and         *)
(* reconcile at once, and wherever they die: rows and processes refer to   *)
(* rows that exist, the holder of an execution's active lease has the      *)
(* newest token and no token is issued twice, although a late writeback    *)
(* closes a lease without looking whether it is closed already; and where  *)
(* no poison pill age is configured, an execution that preemption blocked  *)
(* keeps a ticket that no operation under way takes from it.               *)
THEOREM DispatchInvariant == DispatchSpec => []DispatchInv
<1>1. FullDispatchInv => DispatchInv
  BY DEF FullDispatchInv
<1> QED  BY <1>1, DispatchInvInit, DispatchInvStep, PTL DEF DispatchSpec

(* However many processes dispatch, claim, write back and reconcile at     *)
(* once, and wherever they die, an execution never has two live tickets of *)
(* one attempt: the unique index of execution_tickets never rejects an     *)
(* insert of createTicket, preemption or reconciliation.                   *)
THEOREM LiveTicketsDiffer == DispatchSpec => []OneLiveTicketPerAttempt
<1>1. FullDispatchInv => OneLiveTicketPerAttempt
  BY DEF FullDispatchInv, TicketsSound, OneLiveTicketPerAttempt
<1> QED  BY <1>1, DispatchInvInit, DispatchInvStep, PTL DEF DispatchSpec

(* Where no poison pill age is configured, an execution that               *)
(* preemptForUrgentTicket blocked always has a live ticket to go on with,  *)
(* whatever claims, writebacks and repairs were under way when it lost its *)
(* lease.                                                                  *)
THEOREM BlockedExecutionsHaveTickets ==
  ASSUME ~PoisonPill
  PROVE  DispatchSpec => []BlockedHasTicket
<1>1. FullDispatchInv => BlockedHasTicket
  BY DEF FullDispatchInv, DispatchInv, BlockedHasLastingTicket, BlockedHasTicket
<1> QED  BY <1>1, DispatchInvInit, DispatchInvStep, PTL DEF DispatchSpec

=============================================================================
