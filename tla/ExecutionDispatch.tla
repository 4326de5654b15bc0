-------------------------- MODULE ExecutionDispatch --------------------------
(***************************************************************************)
(* Dispatch, worker handshake, writeback and reconciliation on top of the  *)
(* lease service.  Each of these operations reads tables, decides, and     *)
(* then commits one transaction or several.  The command line tools        *)
(* (dispatch-execution, worker-handshake, worker-writeback,                *)
(* dispatch-reconcile, lease-handover) run them as separate operating      *)
(* system processes on one database, so a process p is suspended between   *)
(* its reads and each commit, and may die there.  With a single process    *)
(* the operations are serial, as they are inside one Node event loop.      *)
(*                                                                         *)
(* The reads and checks an operation makes before its first commit are one *)
(* step; procs[p] keeps what the later commits still use of them, with the *)
(* operation's occurredAt as the offset `at' from the present.             *)
(***************************************************************************)
EXTENDS ExecutionLease, TicketTable

CONSTANTS TicketIds,          \* ids newId("ticket") may return; bounds the tickets
          Processes,          \* operating system processes on the database
          Requires,           \* features each execution's tickets ask for
          Urgent,             \* executions whose tickets have priority "urgent"
          LeaseTtl,           \* leaseTtlMs of dispatchNext, ttlMs of heartbeats
          SafetyMargin,       \* clockSkewSafetyMarginMs of the reconciliation
          MaxDelay,           \* bound on the time between two commits of an operation
          Outcomes,           \* terminal statuses workers write back
          PoisonPill          \* whether poisonPillMaxAgeMs is configured

TerminalStatuses == {"succeeded", "failed", "cancelled", "superseded"}

(* The statuses in which claimExecution starts an execution.               *)
StartableStatuses == {"created", "prechecking", "blocked"}

ExecutionStatuses == TerminalStatuses \cup StartableStatuses \cup {"executing"}

ASSUME DispatchAssumption ==
  /\ 0 \notin LeaseIds
  /\ Requires \in [Executions -> SUBSET Features]
  /\ Urgent \subseteq Executions
  /\ LeaseTtl \in Nat /\ TtlInBounds(LeaseTtl)
  /\ SafetyMargin \in Nat /\ MaxDelay \in Nat
  /\ Horizon > Skew + SafetyMargin + MaxDelay
  /\ Outcomes \subseteq TerminalStatuses
  /\ PoisonPill \in BOOLEAN

VARIABLES tickets,            \* execution_tickets
          execStatus,         \* executions.status
          procs               \* what each process is in the middle of

dispatchVars == <<tickets, execStatus, procs>>
allVars == <<vars, dispatchVars>>

FirstAttempt == 1

-----------------------------------------------------------------------------
(* What a process has in hand between its reads and a commit *)

Idle == [op |-> "idle"]

Delays == (0 - MaxDelay)..0

SnapshotReads == [status : WorkerStatuses, running : SUBSET Executions]

RepairActions == {"requeue_ticket", "invalidate_ticket"}

Dispatching == [op : {"dispatch"}, todo : SUBSET TicketIds, at : Delays]

Granting ==
  [op : {"grant"}, ticket : TicketIds, worker : Workers, todo : SUBSET TicketIds, at : Delays]

Preempting ==
  [op : {"preempt"}, ticket : TicketIds, execution : Executions,
   todo : SUBSET TicketIds, at : Delays]

Preempted == [op : {"preempted"}, ticket : TicketIds, todo : SUBSET TicketIds, at : Delays]

Abandoning == [op : {"abandon"}, execution : Executions, at : Delays]

Claiming ==
  [op : {"claim"}, ticket : TicketIds, lease : LeaseIds, snapshot : SnapshotReads,
   status : ExecutionStatuses, at : Delays]

Renewing == [op : {"renew", "refresh"}, lease : LeaseIds, snapshot : SnapshotReads, at : Delays]

WritingBack ==
  [op : {"writeback"}, lease : LeaseIds, snapshot : SnapshotReads,
   outcome : Outcomes, at : Delays]

Repairing == [op : {"repair"}, issues : SUBSET (TicketIds \X RepairActions), at : Delays]

ProcStates ==
  {Idle} \cup Dispatching \cup Granting \cup Preempting \cup Preempted \cup Abandoning
  \cup Claiming \cup Renewing \cup WritingBack \cup Repairing

(* What process state s refers to exists, as no row is ever deleted.       *)
RefersToRows(s) ==
  /\ s.op \in {"grant", "preempt", "preempted", "claim"} => s.ticket \in DOMAIN tickets
  /\ s.op \in {"dispatch", "grant", "preempt", "preempted"} => s.todo \subseteq DOMAIN tickets
  /\ s.op \in {"claim", "renew", "refresh", "writeback"} => s.lease \in DOMAIN leases
  /\ s.op = "repair" => \A x \in s.issues : x[1] \in DOMAIN tickets

(* Rows refer to existing rows, and processes hold what they may hold.     *)
DispatchTypeOK ==
  /\ TypeOK
  /\ DOMAIN tickets \subseteq TicketIds
  /\ \A t \in DOMAIN tickets :
       /\ tickets[t].executionId \in Executions
       /\ tickets[t].attempt \in Nat
       /\ tickets[t].status \in TicketStatuses
       /\ \/ tickets[t].claimed = Unassigned
          \/ tickets[t].claimed.worker \in Workers /\ tickets[t].claimed.lease \in DOMAIN leases
  /\ execStatus \in [Executions -> ExecutionStatuses]
  /\ procs \in [Processes -> ProcStates]
  /\ \A p \in Processes : RefersToRows(procs[p])

DispatchInit ==
  /\ Init
  /\ tickets = [t \in {} |-> {}]
  /\ execStatus = [e \in Executions |-> "created"]
  /\ procs = [p \in Processes |-> Idle]

Becomes(p, state) == procs' = [procs EXCEPT ![p] = state]

(* Start of an operation in p; End is its last commit.                     *)
Starts(p, state) == procs[p] = Idle /\ Becomes(p, state)

Ends(p) == Becomes(p, Idle)

ReadSnapshot(w) == [status |-> workers[w].status, running |-> workers[w].running]

(* A coordinator-side refresh through recordHeartbeat with the status and  *)
(* running set worked out from a snapshot read earlier.  The row's version *)
(* is read again inside recordHeartbeat, so the write is not refused.      *)
RefreshFrom(w, snapshot, running) ==
  RecordHeartbeat(w, ToWorkerStatus(snapshot, running), running)

NewTicket == CHOOSE t \in TicketIds : t \notin DOMAIN tickets

TicketsLeft == TicketIds \ DOMAIN tickets # {}

-----------------------------------------------------------------------------
\* Variant: does not look for a live ticket first.
CreateTicketUnchecked(e) ==
  /\ TicketsLeft
  /\ tickets' = InsertTicket(tickets, NewTicket, e, FirstAttempt)
  /\ UNCHANGED <<vars, execStatus, procs>>

(* createTicket: one transaction.  Neither the execution's status nor a    *)
(* live ticket of a later attempt is looked at.                            *)
CreateTicket(e) ==
  /\ ActiveTickets(tickets, e, FirstAttempt) = {}
  /\ TicketsLeft
  /\ tickets' = InsertTicket(tickets, NewTicket, e, FirstAttempt)
  /\ UNCHANGED <<vars, execStatus, procs>>

-----------------------------------------------------------------------------
(* dispatchNext.  The order in which the listed tickets are tried depends  *)
(* on priority, tenant and age, and the choice among eligible workers on   *)
(* load figures: any order and any eligible worker here.  A ticket that    *)
(* backpressure holds back is one that is not tried.                       *)

(* evaluateWorkersForTicket, with occurredAt at offset d.                  *)
Eligible(e, d) ==
  {w \in Registered :
     /\ workers[w].silence + d <= HeartbeatTtl
     /\ workers[w].status \notin StickyStatuses
     /\ Trusted(workers[w], w)
     /\ HasAvailableSlot(workers[w], w)
     /\ Requires[e] \subseteq Provides[w]}

DispatchBegin(p) ==
  /\ Dispatchable(tickets) # {}
  /\ Starts(p, [op |-> "dispatch", todo |-> Dispatchable(tickets), at |-> 0])
  /\ UNCHANGED <<vars, tickets, execStatus>>

(* The loop goes on with the tickets listed at the start, or ends.         *)
GoOn(p, todo, d) ==
  Becomes(p, IF todo = {} THEN Idle ELSE [op |-> "dispatch", todo |-> todo, at |-> d])

(* Ticket t is the one p looks at: any of the list, or the one it has just *)
(* made room for.                                                          *)
LooksAt(p, t) ==
  \/ procs[p].op = "dispatch" /\ t \in procs[p].todo
  \/ procs[p].op = "preempted" /\ t = procs[p].ticket

(* No worker for ticket t: it is passed over, or, when it is older than    *)
(* poisonPillMaxAgeMs and still pending, cancelled.                        *)
PassOver(p, t) ==
  \/ /\ GoOn(p, procs[p].todo \ {t}, procs[p].at)
     /\ UNCHANGED tickets
  \/ /\ PoisonPill
     /\ IF tickets[t].status = "pending"
        THEN /\ tickets' = InvalidateTicket(tickets, t, "cancelled")
             /\ Becomes(p, [op |-> "abandon", execution |-> tickets[t].executionId,
                            at |-> procs[p].at])
        ELSE Ends(p) /\ UNCHANGED tickets

DispatchSkip(p, t) ==
  /\ LooksAt(p, t)
  /\ Eligible(tickets[t].executionId, procs[p].at) = {}
  /\ PassOver(p, t)
  /\ UNCHANGED <<vars, execStatus>>

(* The second statement of invalidatePoisonPillTicket.                     *)
DispatchAbandon(p) ==
  /\ procs[p].op = "abandon"
  /\ execStatus' = [execStatus EXCEPT ![procs[p].execution] = "failed"]
  /\ Ends(p)
  /\ UNCHANGED <<vars, tickets>>

DispatchSelect(p, t, w) ==
  /\ LooksAt(p, t)
  /\ w \in Eligible(tickets[t].executionId, procs[p].at)
  /\ Becomes(p, [op |-> "grant", ticket |-> t, worker |-> w,
                 todo |-> procs[p].todo \ {t}, at |-> procs[p].at])
  /\ UNCHANGED <<vars, tickets, execStatus>>

(* The transaction of dispatchNext: acquireLeaseWithinTransaction, then    *)
(* claim the ticket and mark the worker busy.                              *)
DispatchGrant(p) ==
  /\ procs[p].op = "grant"
  /\ LET t     == procs[p].ticket
         w     == procs[p].worker
         d     == procs[p].at
         e     == tickets[t].executionId
         gone  == Outlived(e, d)
         swept == CloseLeases(leases, gone, "expired")
     IN  \/ /\ ~LeadershipAllows(w) \/ ActiveRows(swept, e) # {}
            /\ GoOn(p, procs[p].todo, d)
            /\ UNCHANGED <<vars, tickets>>
         \/ /\ LeadershipAllows(w) /\ ActiveRows(swept, e) = {}
            /\ UnusedIds # {}
            /\ leases' = InsertLease(swept, NewId, e, w, d + LeaseTtl)
            /\ audits' = audits \cup Events(gone, "lease_expired")
                               \cup {<<NewId, "lease_granted">>}
            /\ tickets' = ClaimTicket(tickets, t, w, NewId)
            /\ workers' = [workers EXCEPT ![w].status = "busy", ![w].running = @ \cup {e}]
            /\ Ends(p)
            /\ UNCHANGED <<agent, leaderRegion, accepted>>
  /\ UNCHANGED execStatus

-----------------------------------------------------------------------------
(* preemptForUrgentTicket, for an urgent ticket that no worker can take.   *)

(* The executions whose slot could be given to execution f: the only one   *)
(* of a suitable worker, not urgent itself, and running under that         *)
(* worker's lease.  Which of them stands at its recovery step, and comes   *)
(* first in the order of priority and age, is left open.                   *)
Candidates(f) ==
  {e \in Executions \ (Urgent \cup {f}) :
     \E w \in Registered :
       /\ MaxConcurrency[w] = 1 /\ workers[w].running = {e}
       /\ workers[w].status \notin StickyStatuses
       /\ Trusted(workers[w], w)
       /\ Requires[f] \subseteq Provides[w]
       /\ execStatus[e] = "executing"
       /\ \E i \in ActiveRows(leases, e) : leases[i].workerId = w}

PreemptSelect(p, t, e) ==
  /\ procs[p].op = "dispatch" /\ t \in procs[p].todo
  /\ LET f == tickets[t].executionId
     IN  /\ f \in Urgent
         /\ Eligible(f, procs[p].at) = {}
         /\ e \in Candidates(f)
  /\ Becomes(p, [op |-> "preempt", ticket |-> t, execution |-> e,
                 todo |-> procs[p].todo, at |-> procs[p].at])
  /\ UNCHANGED <<vars, tickets, execStatus>>

\* Variant: issues no replacement ticket.
PreemptCommitUnticketed(p) ==
  /\ procs[p].op = "preempt"
  /\ LET e == procs[p].execution
     IN  \/ /\ ActiveRows(leases, e) = {}
            /\ PassOver(p, procs[p].ticket)
            /\ UNCHANGED <<vars, execStatus>>
         \/ /\ ActiveRows(leases, e) # {}
            /\ ReclaimActiveLease(e)
            /\ execStatus' = [execStatus EXCEPT ![e] = "blocked"]
            /\ Becomes(p, [op |-> "preempted", ticket |-> procs[p].ticket,
                           todo |-> procs[p].todo, at |-> procs[p].at])
            /\ UNCHANGED tickets

(* Its transaction: without a lease to reclaim nothing happens and the     *)
(* ticket is passed over; otherwise the execution is blocked, whatever its *)
(* status and whoever holds the lease by now, and gets a new ticket.       *)
PreemptCommit(p) ==
  /\ procs[p].op = "preempt"
  /\ LET e == procs[p].execution
     IN  \/ /\ ActiveRows(leases, e) = {}
            /\ PassOver(p, procs[p].ticket)
            /\ UNCHANGED <<vars, execStatus>>
         \/ /\ ActiveRows(leases, e) # {}
            /\ TicketsLeft
            /\ ReclaimActiveLease(e)
            /\ execStatus' = [execStatus EXCEPT ![e] = "blocked"]
            /\ tickets' = InsertTicket(tickets, NewTicket, e, NextAttempt(tickets, e))
            /\ Becomes(p, [op |-> "preempted", ticket |-> procs[p].ticket,
                           todo |-> procs[p].todo, at |-> procs[p].at])

-----------------------------------------------------------------------------
(* Worker handshake and writeback.  The holder of lease i presents its id, *)
(* its worker id and its token.                                            *)

(* The checks shared by claim, heartbeat and writeback; validateWriteAccess*)
(* is the last of them.  Rows of worker_snapshots are never deleted.       *)
Presents(i) ==
  LET w == leases[i].workerId
  IN  /\ w \in Registered
      /\ Trusted(workers[w], w)
      /\ ValidateWriteAccess(i, TRUE, 0)

ClaimBegin(p, t) ==
  /\ t \in DOMAIN tickets /\ tickets[t].status = "claimed"
  /\ LET i == tickets[t].claimed.lease
     IN  /\ leases[i].workerId = tickets[t].claimed.worker
         /\ Presents(i)
         /\ Starts(p, [op |-> "claim", ticket |-> t, lease |-> i,
                       snapshot |-> ReadSnapshot(leases[i].workerId),
                       status |-> execStatus[tickets[t].executionId], at |-> 0])
  /\ UNCHANGED <<tickets, execStatus>>

(* The transaction of claimExecution: the ticket's status is not looked at *)
(* again, and the execution's status as it was read decides the update.    *)
ClaimCommit(p) ==
  /\ procs[p].op = "claim"
  /\ LET t == procs[p].ticket
         e == tickets[t].executionId
         w == leases[procs[p].lease].workerId
     IN  /\ tickets' = ConsumeTicket(tickets, t)
         /\ agent' = [agent EXCEPT ![e] = w]
         /\ execStatus' = [execStatus EXCEPT ![e] =
              IF procs[p].status \in StartableStatuses THEN "executing" ELSE @]
         /\ RefreshFrom(w, procs[p].snapshot, procs[p].snapshot.running \cup {e})
  /\ Ends(p)
  /\ UNCHANGED <<leases, audits, leaderRegion, accepted>>

HeartbeatBegin(p, i) ==
  /\ i \in DOMAIN leases
  /\ Presents(i)
  /\ Starts(p, [op |-> "renew", lease |-> i,
                snapshot |-> ReadSnapshot(leases[i].workerId), at |-> 0])
  /\ UNCHANGED <<tickets, execStatus>>

(* renewLease in a transaction of its own.                                 *)
HeartbeatRenew(p) ==
  /\ procs[p].op = "renew"
  /\ LET i == procs[p].lease
     IN  \/ /\ RenewLease(i, LeaseTtl, procs[p].at)
            /\ IF leases'[i].status = "active"
               THEN Becomes(p, [procs[p] EXCEPT !.op = "refresh"])
               ELSE Ends(p)
         \/ /\ i \notin ActiveIds(leases)
            /\ Ends(p)
            /\ UNCHANGED vars
  /\ UNCHANGED <<tickets, execStatus>>

HeartbeatRefresh(p) ==
  /\ procs[p].op = "refresh"
  /\ LET i == procs[p].lease
     IN  RefreshFrom(leases[i].workerId, procs[p].snapshot,
                     procs[p].snapshot.running \cup {leases[i].executionId})
  /\ Ends(p)
  /\ UNCHANGED <<leaseVars, tickets, execStatus>>

WritebackBegin(p, i, outcome) ==
  /\ i \in DOMAIN leases
  /\ execStatus[leases[i].executionId] = "executing"
  /\ Presents(i)
  /\ Starts(p, [op |-> "writeback", lease |-> i, outcome |-> outcome,
                snapshot |-> ReadSnapshot(leases[i].workerId), at |-> 0])
  /\ UNCHANGED <<tickets, execStatus>>

(* The transaction of recordWriteback: applyTaskTerminalState compares the *)
(* execution's status, and rolls everything back when it has changed; the  *)
(* lease is closed by id without comparing anything.                       *)
WritebackCommit(p) ==
  /\ procs[p].op = "writeback"
  /\ LET i == procs[p].lease
         e == leases[i].executionId
     IN  IF execStatus[e] = "executing"
         THEN /\ execStatus' = [execStatus EXCEPT ![e] = procs[p].outcome]
              /\ leases' = CloseLeases(leases, {i}, "released")
              /\ audits' = audits \cup {<<i, "lease_released">>}
              /\ RefreshFrom(leases[i].workerId, procs[p].snapshot,
                             procs[p].snapshot.running \ {e})
              /\ UNCHANGED <<agent, leaderRegion, accepted>>
         ELSE UNCHANGED <<vars, execStatus>>
  /\ Ends(p)
  /\ UNCHANGED tickets

-----------------------------------------------------------------------------
(* Reconciliation: scan collects issues, repair applies them one by one.   *)

(* findIssueForTicket: the repair ticket t needs, if any.                  *)
NeedsInvalidation(t) == execStatus[tickets[t].executionId] \in TerminalStatuses

NeedsRequeue(t) ==
  LET active == ActiveRows(leases, tickets[t].executionId)
  IN  /\ ~NeedsInvalidation(t)
      /\ tickets[t].status = "claimed"
      /\ \/ active = {}
         \/ \E i \in active : \/ leases[i].expiresIn + SafetyMargin < 0
                            \/ tickets[t].claimed # [worker |-> leases[i].workerId, lease |-> i]

\* Variant: only looks at leases that are still marked active.
IssuesOfExpiredLeases ==
  {<<t, "requeue_ticket">> : t \in {u \in LiveTickets(tickets) :
     NeedsRequeue(u) /\ ActiveRows(leases, tickets[u].executionId) # {}}}

Issues ==
  {<<t, "invalidate_ticket">> : t \in {u \in LiveTickets(tickets) : NeedsInvalidation(u)}}
  \cup {<<t, "requeue_ticket">> : t \in {u \in LiveTickets(tickets) : NeedsRequeue(u)}}

ReconcileScan(p) ==
  /\ Issues # {}
  /\ Starts(p, [op |-> "repair", issues |-> Issues, at |-> 0])
  /\ UNCHANGED <<vars, tickets, execStatus>>

(* applyIssue: the issue is taken as found, the ticket's status is not     *)
(* looked at again.                                                        *)
ReconcileApply(p, x) ==
  /\ procs[p].op = "repair" /\ x \in procs[p].issues
  /\ LET t == x[1]
         e == tickets[t].executionId
     IN  \/ /\ x[2] = "invalidate_ticket"
            /\ tickets' = InvalidateTicket(tickets, t, "cancelled")
            /\ UNCHANGED workers
         \/ /\ x[2] = "requeue_ticket"
            /\ TicketsLeft
            /\ tickets' = InsertTicket(InvalidateTicket(tickets, t, "expired"),
                                       NewTicket, e, NextAttempt(tickets, e))
            /\ workers' = RemoveExecution(workers, tickets[t].claimed.worker, e)
  /\ LET left == procs[p].issues \ {x}
     IN  Becomes(p, IF left = {} THEN Idle ELSE [procs[p] EXCEPT !.issues = left])
  /\ UNCHANGED <<leaseVars, execStatus>>

-----------------------------------------------------------------------------
(* Everything else *)

(* A process dies before its next commit; what it committed stays.         *)
Crash(p) ==
  /\ procs[p] # Idle
  /\ Ends(p)
  /\ UNCHANGED <<vars, tickets, execStatus>>

DispatchTick ==
  /\ \A p \in Processes : procs[p] # Idle => procs[p].at > 0 - MaxDelay
  /\ Tick
  /\ procs' = [p \in Processes |->
                 IF procs[p] = Idle THEN Idle ELSE [procs[p] EXCEPT !.at = @ - 1]]
  /\ UNCHANGED <<tickets, execStatus>>

(* Operations that are a single transaction are run by an idle process.    *)
SomeoneIdle == \E p \in Processes : procs[p] = Idle

(* A worker reports executions it has claimed.                             *)
WorkerHeartbeat(w) ==
  /\ SomeoneIdle
  /\ \E s \in ReportedStatuses, run \in SUBSET {e \in Executions : agent[e] = w} :
       RecordHeartbeat(w, s, run)
  /\ UNCHANGED <<leaseVars, dispatchVars>>

(* Handover, the lease reclaims of runtime repair, and the stale sweep.    *)
Administration ==
  /\ SomeoneIdle
  /\ \/ \E i \in LeaseIds, w \in Workers :
          HandoverLease(i, w, Requires[leases[i].executionId], LeaseTtl, 0)
     \/ \E e \in Executions : ReclaimActiveLease(e)
     \/ ReclaimExpiredLeases(0)
     \/ SweepStaleWorkerHeartbeats /\ UNCHANGED leaseVars
  /\ UNCHANGED dispatchVars

(* A process dispatches, preempts or reconciles, or dies.                  *)
CoordinatorStep(p) ==
  \/ DispatchBegin(p)
  \/ \E t \in TicketIds : DispatchSkip(p, t)
  \/ DispatchAbandon(p)
  \/ \E t \in TicketIds, w \in Workers : DispatchSelect(p, t, w)
  \/ DispatchGrant(p)
  \/ \E t \in TicketIds, e \in Executions : PreemptSelect(p, t, e)
  \/ PreemptCommit(p)
  \/ ReconcileScan(p)
  \/ \E x \in TicketIds \X RepairActions : ReconcileApply(p, x)
  \/ Crash(p)

(* A process serves a worker's call.                                       *)
WorkerCall(p) ==
  \/ \E t \in TicketIds : ClaimBegin(p, t)
  \/ ClaimCommit(p)
  \/ \E i \in LeaseIds : HeartbeatBegin(p, i)
  \/ HeartbeatRenew(p)
  \/ HeartbeatRefresh(p)
  \/ \E i \in LeaseIds, outcome \in Outcomes : WritebackBegin(p, i, outcome)
  \/ WritebackCommit(p)

StepOf(p) == CoordinatorStep(p) \/ WorkerCall(p)

CreateTickets ==
  /\ SomeoneIdle
  /\ \E e \in Executions : CreateTicket(e)

DispatchNext ==
  \/ CreateTickets
  \/ \E p \in Processes : StepOf(p)
  \/ \E w \in Workers : WorkerHeartbeat(w)
  \/ Administration
  \/ DispatchTick

DispatchSpec == DispatchInit /\ [][DispatchNext]_allVars

-----------------------------------------------------------------------------
(* Safety *)

(* At most one live ticket per execution and attempt, so inserting a       *)
(* ticket never trips the unique index: createTicket looks for a live one, *)
(* and a replacement gets an attempt number above all others.              *)
OneLiveTicketPerAttempt == LiveAttemptsDiffer(tickets)

(* recordWriteback commits a result only while the lease it was validated  *)
(* under is still the active one.  It does not hold: another process may   *)
(* close the lease between validateWriteAccess and the transaction.        *)
WritebackUnderActiveLease ==
  [][\A p \in Processes :
       /\ procs[p].op = "writeback"
       /\ execStatus' # execStatus
       /\ procs'[p] = Idle
       => procs[p].lease \in ActiveIds(leases)]_allVars

(* A ticket that was cancelled or has expired is never consumed.  It does  *)
(* not hold: claimExecution reads the ticket, another process withdraws    *)
(* it, and consumeExecutionTicket updates it by its id alone.              *)
InvalidatedNeverConsumed ==
  [][\A t \in DOMAIN tickets :
       tickets[t].status \in InvalidStatuses => tickets'[t].status # "consumed"]_allVars

(* A finished execution keeps its result.  It does not hold: of two claims *)
(* of one ticket the second may be committed when the first has run to its *)
(* end, and starts the execution again; and a second ticket that is given  *)
(* up as a poison pill fails the execution whatever became of it.          *)
TerminalStatusKept ==
  [][\A e \in Executions :
       execStatus[e] \in TerminalStatuses => execStatus'[e] = execStatus[e]]_allVars

(* A lease that dispatchNext grants is the lease its ticket names.  It     *)
(* does not hold: two processes list the ticket, the lease of the first is *)
(* taken back, and the second gets one while claimExecutionTicket, whose   *)
(* result nobody looks at, finds the ticket claimed.                       *)
GrantedLeaseHasTicket ==
  [][\A p \in Processes :
       /\ procs[p].op = "grant"
       /\ UnusedIds # {} /\ NewId \in DOMAIN leases' /\ procs'[p] = Idle
       => tickets'[procs[p].ticket].claimed.lease = NewId]_allVars

(* An execution that preemption blocked always has a live ticket to go on  *)
(* with: claims, writebacks and repairs that were under way when it lost   *)
(* its lease neither use up nor withdraw the replacement without starting  *)
(* the execution or issuing another one.  It needs that no ticket is given *)
(* up as a poison pill: that cancels the ticket in one statement and fails *)
(* the execution in the next.                                              *)
BlockedHasTicket ==
  \A e \in Executions :
    execStatus[e] = "blocked" => \E t \in LiveTickets(tickets) : tickets[t].executionId = e

(* The inductive invariant behind it, where no ticket is given up as a     *)
(* poison pill: among these tickets is one that no claim under way uses up *)
(* without starting the execution, and no repair under way withdraws.      *)
Lasting(t) ==
  \A p \in Processes :
    /\ procs[p].op = "claim" /\ procs[p].ticket = t => procs[p].status \in StartableStatuses
    /\ procs[p].op = "repair" => <<t, "invalidate_ticket">> \notin procs[p].issues

BlockedHasLastingTicket ==
  \A e \in Executions :
    execStatus[e] = "blocked" =>
      \E t \in LiveTickets(tickets) : tickets[t].executionId = e /\ Lasting(t)

(* It includes that leases keep their order, however many processes work   *)
(* on them at once.                                                        *)
DispatchInv ==
  /\ DispatchTypeOK
  /\ HolderHasTopToken /\ TokensUnique
  /\ ~PoisonPill => BlockedHasLastingTicket

-----------------------------------------------------------------------------
(* Liveness *)

(* A process in the middle of an operation goes on, if only to die.        *)
(* Reconciliation is run again and again, and not every run dies half way. *)
(* Nothing else is assumed to happen.                                      *)
Proceeds(p) == procs[p] # Idle /\ StepOf(p)

Repairs(p) == \E x \in TicketIds \X RepairActions : ReconcileApply(p, x)

FairSpec ==
  /\ DispatchSpec
  /\ \A p \in Processes :
       WF_allVars(Proceeds(p)) /\ SF_allVars(ReconcileScan(p)) /\ SF_allVars(Repairs(p))

Orphaned(t) == t \in DOMAIN tickets /\ NeedsRequeue(t)

(* A claimed ticket whose lease is gone, has run out beyond the margin, or *)
(* belongs to someone else is taken back by the reconciliation, however    *)
(* often processes die in between (or the bound on tickets is reached).    *)
OrphanedClaimsAreRequeued ==
  \A t \in TicketIds : Orphaned(t) ~> (~Orphaned(t) \/ ~TicketsLeft)

=============================================================================
