# Verification of the automatic agent platform

This directory holds TLA+ specifications of the platform's execution plane, of
the state it keeps, and of the services around it (leadership, events, queues,
approvals, human takeover, the HTTP server's idempotency keys, the circuit
breaker, the bulkhead), the TLC configurations that check them on small instances, and
proofs, checked by TLAPS, that hold for every instance.

## The system

The platform is a TypeScript system (Node 22) of five planes: interface,
control, orchestration, execution, and state and evidence. Its durable state is
one SQLite database. A *task* is worked on in an *execution* (its attempts), has
a *workflow* row and *sessions*. An execution reaches a *worker* by a *ticket*
and is owned through a *lease* with an expiry and a fencing token. What an
execution may spend is reserved from a *budget ledger*.

Within one Node process the services below are synchronous, so an operation is
not interrupted. The commands under `sdk/cli` (dispatch, handshake, writeback,
handover, reconcile, repair) are operating-system processes of their own on the
same database: they interleave with each other and with the server between
their reads and their transactions. SQLite serialises the transactions
themselves. Asynchronous services (elections, event delivery, polls of the
outbox, HTTP handlers, provider calls) interleave at their awaits within one
process as well. That is the concurrency the models have.

### Inventory

| Part | Source (under `src/src/platform`) | Module |
| --- | --- | --- |
| Lease table | `five-plane-state-evidence/truth/sqlite/repositories/execution-ticket-repository.ts` | `LeaseTable` |
| Execution lease service | `five-plane-execution/lease/` | `ExecutionLease` |
| Its promise | (abstract) | `FencedOwnership` |
| Worker registry, heartbeat sweep | `five-plane-execution/worker-pool/worker/`, `http-api-server.ts` | `WorkerRegistry`, `WorkerContact` |
| Ticket table | same repository as the leases | `TicketTable` |
| Dispatch, preemption, handshake, writeback, reconciliation | `five-plane-execution/dispatcher/`, `worker-pool/` | `ExecutionDispatch` |
| SQLite lock adapter | `five-plane-execution/distributed-lock/` | `SqliteLock`, promise in `FencedLock` |
| Budget allocator and ledger | `five-plane-execution/budget-*.ts`, `contracts/executable-contracts` | `BudgetLedger` |
| Human takeover | `five-plane-control-plane/incident-control/`, `admin-routes.ts` | `Takeover` |
| Transition service, single-task runner, startup checker, runtime repair | `five-plane-execution/{state-transition,execution-engine,startup,recovery}` | `TaskLifecycle` |
| HA coordinator, leader election, lease reclaimer | `five-plane-execution/ha/` | `HaCoordinator`, `LeaderElection`, `Leadership`; promise in `FencedLock` |
| Outbox | `shared/outbox/` | `Outbox` |
| Event bus, durable delivery | `five-plane-state-evidence/events/` | `EventDelivery` |
| Event bus, delivery by partition | same | `PartitionQueue` |
| SQLite job queue | `five-plane-execution/queue/sqlite-queue-adapter.ts` | `JobQueue` |
| Approval center | `five-plane-control-plane/approval-center/` | `Approvals` |
| Provider circuit breaker | `model-gateway/provider-registry/circuit-breaker.ts` | `CircuitBreaker` |
| Bulkhead between planes | `stability/bulkhead-isolation.ts` | `Bulkhead` |
| Idempotency keys | `five-plane-interface/api/middleware/` | `IdempotencyKey` |

`PROJECT.json` lists these and every other part of the repository with its
status.

## How the modules correspond to the code

Each transaction, and each statement that runs outside one, is one action.
What an operation reads before its first commit is one step; what later steps
still use of it is kept, so that it may be stale by then. Times are relative
(`expiresIn`, `silence`, the offset `at` of an operation's `occurredAt`) and
`Tick` moves them all. Telemetry, events and messages are left out, except the
audit trail of the leases, which a property is about. Definitions marked
*Variant* are plausible mistakes in the definition that follows them; each
property is checked to fail under one.

**`LeaseTable`, `TicketTable`** have one operator per SQL statement, as a function
on the table. **`WorkerRegistry`** has `workers`, the table `worker_snapshots`.

**`ExecutionLease`** has `leases`, `audits`, `agent` (agent executions),
`leaderRegion`, and the history `accepted` of fenced writes that were let
through; one action per public method of `ExecutionLeaseService`. Each takes
an offset for its caller's clock, within `Skew`. `FencedOwnership` is what it
promises: one holder per execution, every grant with a higher token, and writes
accepted only under the newest.

**`ExecutionDispatch`** puts tickets, execution statuses and processes on top.
`procs[p]` is what process `p` is in the middle of; `Crash(p)` forgets it. With one
process the operations are serial, as in one event loop; with two, they
interleave at every commit. What a writeback does to the rows of the task, its
workflow's included, is in `TaskLifecycle`. An execution's own `attempt` is never changed by
the modelled code and is 1. When no worker can take the ticket of an execution
in `Urgent`, dispatch may preempt: it picks a running execution that fills a
worker's only slot (`PreemptSelect`) and, in a transaction of its own, takes the
lease away, blocks the execution and gives it a replacement ticket
(`PreemptCommit`), whatever happened to that execution in between. A queue that
is unavailable is a dispatch that does not start, and a ticket held back by
back-pressure one that is not tried. Degraded
workers are not admitted (`includeDegraded` is false by default). Ranking and
priorities choose among the eligible: any choice is allowed.
`WorkerContact` adds the history `unheard`: how long a worker itself has been
silent, as opposed to how old its row says its heartbeat is.

**`SqliteLock`** has the lock table, the global counter, and what each owner's
`extend` is in the middle of: unlike `acquire`, `release` and `forceSteal`, it is
several statements without a transaction. An owner is one client.

**`BudgetLedger`** has the persisted ledger, the copy each caller has, of any age,
and the reservations with the ledger they are tracked with. `reserve`, `settle`
and `release` compare the version of the caller's copy. `streamingIncrement` takes
the limit it is held to as a parameter: the tier's, or the hard cap where the
caller names none, as all callers in the repository do. The allocator's other way
of storing a ledger, an `atomicRepository`, has no implementation in the
repository.

**`TaskLifecycle`** has the status columns of one task's rows, its sessions, and
three actors: the runner, statement by statement (`Script` is the list of its
transition calls), which may die anywhere; the repair tool, which scans and then
applies its report (a set of actions with a fixed order) one by one; and a
worker that is given the requeued execution. A requeue also takes the lease
away, which is why it ends what the worker is doing. Reads that a repair action
makes before its own transaction are merged with it. Tickets are reduced to
whether one is pending. The repair of a ticket is in `ExecutionDispatch`. The
finding that `replace_terminal_session` answers never arises here, which
`ActiveTaskHasSession`, a part of `LifecycleInv`, says; it does arise when an
operator retries a task that has just ended, so the repair is an action of
`Takeover`.

**`Takeover`** lets operators work on the same rows, next to runner, worker and
repair. An operator action loads a snapshot and then writes, in one transaction,
what it has made of it; the snapshot may be old by then, since the others are
processes of their own. `verdict` is the history of what an operator ended the task
with, until a retry or a requeue puts the task back. Executions made by
`retryExecution` get no ticket, and are not run here.

**`HaCoordinator`, `LeaderElection`, `Leadership`** are layered like the code: the
coordinator's tables with one action per transaction; the election service of
each node, cut at its awaits; and both with the reclaimers, crashes and
operators. A lease is found by its epoch, since epochs have no gaps and each has
one lease. That leadership is a fenced lock on one key is a refinement of the
same `FencedLock` that the SQLite lock adapter implements.

**`Outbox`** has, of each entry, its row, the copy the service keeps in memory, and
how often the bus took it; entries are numbered by `created_at`, and a slice of the
sorted list is the set of its oldest (`Oldest`). A poll runs up to its first await;
each further chunk is a step that uses what the poll listed. That a database
fails to mark an entry the bus has taken is left out: a crash at that point does
the same.

**`EventDelivery`** is the chain of deliveries to one consumer: each lists the
pending events, hands them to the handler one by one with retries, and gives up
when the subscription changed (its generation). **`PartitionQueue`** is the other
way of delivery, by partition, with the slots of a consumer group.
`processPartitionQueue` is one operator, applied as often as the code calls it.

**`JobQueue`** keeps the closures handlers hold (`deliveries`), which outlive the
attempt they were made for, and, of each process, which statement of `dequeue` or
`nack` it has come to (`adapters`): none of the adapter's calls is a transaction.
The two updates at the beginning of `dequeue` are one step, since they change
different rows. `stale` counts the nacks that wrote "delayed" over the last attempt,
having read the attempts before another process made it. **`Approvals`** has the stored requests and, apart from
them, what the multi-party service keeps in memory and a restart loses.
**`CircuitBreaker`** marks each call with the state it was admitted in, and has the
outcomes in the monitoring window in one sequence; the two lists the code keeps of
them, requests and failures, are each cut to `maxWindowEntries` (`Trimmed`).
**`Bulkhead`** tells a caller that has been answered from a function that has
returned: a call that timed out keeps its place (`late`) until its function
returns, and gives it back in a later turn of the event loop, which is when the
queue is looked at. A function that throws before it has returned a promise
(`thrown`) never gives it back.
**`IdempotencyKey`** numbers the entries in the order they are written, which is
the order they expire in; `evicted` is the history of the keys whose entry had to
make room. A write to an exempt path passes the check without a look at its key
and is recorded under it like any other.

## Runs

Components that share no state are checked side by side: in `MCShared` and
`MCServices` a variable `part` says from the start which of them moves, and the
others keep their initial state. The state space is the sum of theirs, each
component is checked by itself, and a property of one holds trivially where
another moves.

| Run | Instance | Shows |
| --- | --- | --- |
| `lease_safety` | 2 workers (one remote), 2 regions, 1 execution, 2 leases, skew 1 | tokens, audit trail, final closes, fenced writes; implements `FencedOwnership` |
| `dispatch_concurrent` | 2 processes, 1 worker with 1 slot, 2 executions of which one is urgent, 2 leases, 3 tickets | rows stay linked and tokens in order (`DispatchInv`), no two live tickets of one attempt, a preempted execution has a ticket |
| `dispatch_liveness` | 1 process that may die at any commit | orphaned claims are requeued |
| `shared` | lock: 2 owners; budget: 3 callers, cap 5, amounts 1 to 3; leadership: 2 nodes, 2 epochs; keys: 3 requests, 2 keys, room for 1; partitions: 2 with 2 consumers and 1 slot; takeover: 1 task, 2 takeover sessions, 1 retry | no two holders, leaders, writers or executions where there may be one; tokens go up; every slot is counted; an operator's verdict stands |
| `services` | 1 task with up to 3 sessions; 3 outbox entries; 2 events; jobs: 1 with 2 processes, 2 with 1; 3 approvals; breaker: 3 concurrent calls; bulkhead: 3 calls, 1 or 2 at a time, 1 or 2 waiting | what was begun ends, and ends once |
| `writeback_race` | 2 processes | **violated**: a result is committed under a lease closed after validation |
| `withdrawn_ticket` | 2 processes | **violated**: a ticket withdrawn after a worker's checks is consumed |
| `contact` | 1 process | **violated**: a silent worker is picked, its row stamped by a refresh |
| `budget_cap` | 2 callers, cap 2 | **violated**: released amounts are subtracted twice |
| `stale_repair` | 1 task | **violated**: a finished task is requeued from an old report |
| `requeued_task` | 1 task, fair workers | **violated**: a requeued task can never end in done or failed |
| `quorum_restart` | 3 approvers, quorum 2 | **violated**: after a restart one approver is counted twice |

In `shared`, `SharedInv` joins the inductive invariants of the proofs (`LockInv`,
`ReserveInv`, `LeadershipInv`, `TakeoverInv`, `IdempotencyInv`) with the types of the
partitions and with `AuthorityIsTheHolders`.
`ImplementsFencedLock` is about the lock adapter; `HardCapHolds` about a ledger that
is only reserved from; `OneLeaderOneLease`, `OneWriter` and
`LeadershipIsFenced` about leadership, in three parts: one where a node crashes and
the other reclaims, one where an operator promotes, transfers, triggers failovers and
purges, one where an operator removes and drains a node; `OneExecutionPerKey`
about idempotency keys, and about the two ways in which a retry does run a write
again; `SlotsAreCounted` and `ReadyWaitsForASlot` (no lost
wake-up) about the partitions; `VerdictStands` about a task an operator has ended.

In `services`, `ServicesInv` joins the inductive invariants of the proofs
(`LifecycleInv`, `OutboxInv`, `JobInv`, `ApprovalInv`, `BreakerInv`, `BulkheadInv`) with the
types of event delivery, `FullVoteDecides` (approvals) and `ProbesReturn` (circuit
breaker). `DoneTogether`, `ResultFromOwner`, `StalledRunsAreRequeued` and `MismatchesAreReconciled` are about
the task; `SentOncePerInterruption` and `CommittedEntriesSettle` about the outbox;
`PendingSettlesOrParks` about event delivery; `AttemptsAreBounded` and `JobsEnd`
about jobs, in two parts: one job that two processes work on, and two jobs, which
operators also move, with one; `ResolvedOnce` and `OverdueIsResolved` about approvals;
`BreakerRecovers` about the circuit breaker; `PlacesAreUsed` (no place is counted
twice or lost, and nobody waits while one is free) and `CallersAreAnswered` about
the bulkhead.

The seven violated properties state what a document or comment of the
repository says; the findings in `PROJECT.json` quote it and name the line.

### Bounds and why they are enough

*Leases and tickets.* Two leases are the least with which an old holder meets a
new one. One execution is enough where nothing is preempted, since no rule but a
worker's slots relates two. Preemption needs two and a worker with one slot; three
tickets are those of both and a replacement, two leases the one taken away and the
one granted instead. Its run has no delays (`MaxDelay` 0): what makes it hard is
what other processes commit between its steps. To keep it small a worker's heartbeat
does not overlap with another call of the same worker there (`HeartbeatOverlaps`),
and states that differ only in `audits` and `accepted`, which no action reads, are
one (`MCView`). Elsewhere a ttl of 1 with `Horizon` 2 reaches every order of expiry, skew
and delay around the boundary; the proofs need no bound. `RequestedTtls` has one
value beyond the maximum, so that refusals happen.
*Budget.* Cap 5 with amounts up to 3 makes exact fit, refusal and three-way
contention happen; the tier limit is the cap, which is what callers get.
*Lifecycle.* `MaxSessions` stops scans, since each stale requeue of a closed task
adds a session; with 3 a task is requeued after its end at least twice. Two takeover sessions let one
operator work on what another has ended.
*Leadership.* Two epochs let leadership change hands once after it was first
taken, with every stale reclaim, election and renewal around it; a third was
tried without the reclaimers and shows nothing new.
*Outbox, events, jobs.* One entry is refused for ever, chunks hold two of three
entries, and one interruption (crash or `publishPending`) may hit each poll. A
handler may fail every attempt; two subscriptions are enough for an old handler
to return under a new one; two attempts and one manual retry for a closure to
be late, two processes for each statement of one to meet those of the other. The
order of priorities needs two jobs and is the same with one process.
*Approvals.* One request cannot be delivered, two share a session, one of these
takes two votes of two (of three in `quorum_restart`).
*Keys.* Three requests with two keys: a first request, its retry, and one that
makes it leave the storage, which has room for one; any of them may be a write to
an exempt path.
*Breaker.* The window holds four outcomes of which three are kept, so that trimming
happens.
*Bulkhead.* Of three calls one waits behind two places; with one place and two to
wait, the head of the queue may be overdue when the next is taken; with one to wait
the third is refused.
Symmetry is used in `dispatch_concurrent` only, between the two processes: no
property, and no action, tells them apart.

### Fairness

`dispatch_liveness`: a process in the middle of an operation goes on or dies
(weak fairness); reconciliation is run again and again and not each run dies
half way (strong fairness), which is what the periodic scan that
`task_lease_and_fencing_contract.md` asks for amounts to. Workers and dispatchers
may stop altogether.
`services`, the task: the repair tool is run again and again, in the end with the
unmoved execution old enough, and applies its report. Neither runner nor worker
is fair.
`services`, the others: timers fire, handlers return, the event loop goes on
(weak fairness); a crashed process is started again; the outbox's poller, which may
be stopped and started for ever, polls again and again (strong fairness), in the
end with its backoffs over, as they are bounded; the queue is polled; callers of
the breaker keep calling. That the sweep of approvals is run again and again
rests on the header comment of `approval-timeout-executor.ts` ("periodically
scans"): nothing in the repository calls it on a timer. A function called through
the bulkhead need not return: only its timers are fair. Publishers, subscribers,
approvers and operators are not fair.
`requeued_task`: workers, too, take tickets and report within the staleness
limit; even so, the task does not end.

## Proofs

| Module | Theorems |
| --- | --- |
| `ExecutionLeaseProofs` | `TypeCorrect`, `TopTokenHolds`, `TokensNeverShared`, `AuditComplete`, `ClosedIsFinal`, `NewestTokenWrites`, `WritesNeverRegress`, `LeaseRefinesOwnership` |
| `DispatchStepProofs` | lemmas: what each step of `ExecutionDispatch` does to each table |
| `ExecutionDispatchProofs` | `DispatchInvariant`, `LiveTicketsDiffer`, `BlockedExecutionsHaveTickets` |
| `SharedProofs` | the SQLite lock: `TokensStayAhead`, `SqliteLockIsFenced`; the budget: `ReserveInvariant`, `ReservationsWithinHardCap`, `ReservationsAddUp`; idempotency keys: `OneExecution` |
| `TaskLifecycleProofs` | `LifecycleInvariant`, `CompletionIsWhole`, `OpenTaskOpenSession`, `OnlyTheOwnerCompletes`, `OperatorsHaveTheLastWord` |
| `LeadershipProofs` | `LeadershipInvariant`, `OneLeader`, `AuthorityOfTheHolder`, `SingleWriter`, `LeadershipRefinesFencedLock` |
| `DeliveryProofs` | the job queue: `JobAttempts`; the outbox: `OutboxDelivery` |
| `ServicesProofs` | the circuit breaker: `BreakerProbes`; approvals: `ApprovalsResolvedOnce`, `FullVote`; the bulkhead: `BulkheadPlaces` |

They hold for all values of the constants that satisfy the assumptions named in
the modules that declare them (`LeaseAssumption`, `DispatchAssumption`,
`LockAssumption`, `OutboxAssumption` and so on), and, where a theorem says so,
without poison pills or for ledgers that are only reserved from. Every inductive invariant was first checked
by TLC, in the run named above for its module.

*Leases.* `LeaseInv` adds to the type that the table is consistent: per
execution at most one active row, it has the highest token, and tokens differ.
The highest token alone is not inductive: a new row gets the maximum plus one,
so the argument needs that no other row of the execution is active when it is
inserted. That every accepted token was issued (`AcceptedIsIssued`) gives the two
properties of writes. Every action is shown to make a `TableStep` (the table
stays consistent and its closed rows stay as they are) from which the safety
properties and the refinement follow.

*Dispatch.* `FullDispatchInv` joins three things. Leases: the table is consistent
in the sense above; the new cases are the grant of `dispatchNext`, the lease that
preemption takes away, and a late writeback, which closes a lease without looking
whether it is closed already. Tickets: live ones of an execution have different
attempts, since `createTicket` looks for a live first attempt in its transaction
and a replacement takes an attempt above all. Processes: what each has read names
rows that exist (`RefersToRows`), since it is used long after. For
`BlockedHasTicket` the strengthening is `Lasting`: one of the live tickets of a
blocked execution is neither about to be used up by a claim that found the
execution running, nor about to be withdrawn by a repair; the ticket that
preemption inserts is new, so nobody under way knows it. A poison pill cancels the
ticket in one statement and fails the execution in the next, which is why it is
excluded.

*SQLite lock.* The counter is ahead of every row's token and of every token an
`extend` in progress has drawn; a token drawn but not yet written is newer than
the row of its owner. Without the latter, the late UPDATE of an `extend` could put
an old token back.

*Budget.* A copy that has the ledger's version is the ledger. This is not
obvious, since the version moves only while the ledger is open: it holds
because a ledger that is no longer open is full, and a full ledger grants
nothing. That reservations add up is stated with running totals, one for each
reservation, rather than with a fold: a new reservation adds a total, and nothing
has to be proved by induction over the sequence. The theorems are about runs that
only reserve. With releases the cap does not hold (`budget_cap`); and after a settle
or a release the ledger has room again while its status, and so its version,
stands still, so that two callers pass the version check with the same copy and
one reservation is lost from the books.

*Lifecycle.* `LifecycleInv` ties the rows to what is still to be done to them.
Until the runner has begun its precheck nothing can be requeued; a requeued task
is pending or cancelled from then on, and from pending only a cancellation is
accepted, so no result of a runner that lost its execution is. The workflow never
ends before the task, so reconciling never changes the task. An execution is stale
only while its task has not ended, so no report both requeues it and closes a
session, and a session that is closed is always one of an ended task.

*Takeover.* None of `LifecycleInv` but its types survives an operator, who writes
what they like over the rows. `TakeoverInv` says instead what is left of a verdict:
the task's row has it, and the workflow's row has it too or is running, the latter
only once the runner has committed its step; the same holds of a workflow's status
that an operator action has loaded and will write back. So the compare of the
transition service refuses whatever the runner or the worker still tries, and
`reconcile_terminal_state` can only find a workflow that agrees.

*Leadership.* Epochs have one lease each, so that a token identifies a node.
`TokensAreOwn` says of every epoch a service carries through an await (one it saw,
won, or holds a token of) that it was given to this node; together with one
active lease, the newest epoch's, this gives the single writer, and it maps the
coordinator's tables to the fenced lock.

*Keys, queues and services.* `OutboxInv`: what may still be sent (pending, kept in memory or listed by
a poll) has been sent at most once per interruption; a chunk that is sent is marked
in the same step, so it leaves that set. `IdempotencyInv`: the entry of a key is that
of the request that runs, or of the answer still kept, as long as it was not
evicted and no exempt write carries the key. `BulkheadInv`: the queue holds
each waiting call once; the count of the places is a cardinality, kept in step by
the lemmas on cardinalities. `JobInv`: a job that may be handed out has an attempt left, counting
those that retries and overtaken nacks have added. `ApprovalInv`: the stored numbers of votes are at least the votes
given, since a restart may count one twice but loses none. `BreakerInv`: a counted
probe is one call under way in the half-open state.

Induction over data is not available to the provers as a rule with a parameter;
where a least number is needed (the calls that `processQueue` takes, the candidate of a
failover), it comes from the well-foundedness of the numbers (`LeastNumber`).

### Only model-checked

Liveness (fairness and ENABLED are out of the prover's reach).
`SlotsAreCounted` and `ReadyWaitsForASlot` of `PartitionQueue`: a delivery that returns
looks at all partitions in one step, a fold over a set with an operator argument,
which the provers cannot unfold. The types of `EventDelivery` and `PartitionQueue`,
and `SharedInv` and `ServicesInv` as a whole, whose other parts are proved one by one.

## Stated and refuted

Some statements one would expect of the code do not hold. They stand in their
modules, marked *It does not hold*, and can be run by naming them in a
configuration:

- `TerminalStatusKept` (`ExecutionDispatch`): a claim whose process read the status
  before another's writeback starts the finished execution again; and a ticket
  given up as a poison pill fails its execution even if that has succeeded, with one
  process already. `runtime_repository_and_migration_contract.md` asks that terminal
  state not be overwritten.
- `GrantedLeaseHasTicket` (`ExecutionDispatch`): of two dispatchers that chose the
  same ticket, the later one grants a lease although its ticket is claimed.
- `LedgerCountsReservations` (`BudgetLedger`): with settles and releases, see above.
  Its running totals range over `Nat`, which TLC needs replaced by a finite range.
- `OneHandlerPerAttempt` (`JobQueue`): two processes that select a job before either
  makes it active both hand it out. For the same reason `JobsEnd` speaks of one
  process that goes on: a nack between the other's select and update has the job
  handed out without its attempt being counted, again and again.
- `PlacesComeBack` (`Bulkhead`): the place of a function that throws when it is called
  is lost, and `maxConcurrentCalls` such calls close the bulkhead for good.
- `OnlyCommittedIsSent` (`Outbox`): an entry whose transaction rolled back is sent
  from the service's own copy of it.
- `PendingSettles` (`EventDelivery`): after one dead letter the background delivery
  to a consumer throws the kept error instead of delivering, and keeps it again.
- `NothingIsSkipped` (`PartitionQueue`): the implicit sequence starts at 0 again
  when a queue has run empty, and consumers pass such events over.
- `OneProbeAtATime` (`CircuitBreaker`): a call admitted before the breaker opened
  frees the place of the probe when it returns.
- `InFlightIsProcessed` (`IdempotencyKey`): a handler that throws leaves its key
  reserved for a day.
- `VerdictIsWhole` (`Takeover`): after an operator has ended a task, its runner commits
  the step it was at, and the workflow is running again, although `hitl_contract.md`
  asks that a takeover end in a canonical state.

Seen while modelling leadership: a purged lease leaves its leader marked, so that
nobody holds a lease until an election asks again; followers stop asking after
`maxElectionAttempts`; and a failover may promote a node whose service knows
nothing of it.

## Not modelled

The parts of the repository without a model are listed in `PROJECT.json` with the
reason. Tools, plugins, sandboxes, prompts, knowledge and memory are input and
output or text; policies, identity and the business domains are rules over given
data, without concurrency or state that several steps change; the rehearsals under
`stability/` are test drivers. Of the parts that have control of their own, these
are left for later: recovery decisions, hibernation
and several steps in `TaskLifecycle`; the queue and the escalations in front of human
takeover; compensation; `BudgetGuard` on
`BudgetLedger`; the harness; hot upgrade and shutdown; projections.

Theorems that would come next: `SlotsAreCounted`, with the fold over the partitions
written as a recursive function; the types of `EventDelivery`.
