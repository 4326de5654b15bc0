------------------------------- MODULE Outbox -------------------------------
(***************************************************************************)
(* The transactional outbox: OutboxRepository, OutboxService and           *)
(* OutboxPollerService of one process, which may crash.                    *)
(*                                                                         *)
(* Entries are numbered in the order of created_at.  The service keeps a   *)
(* copy of each entry it wrote, localEntries, until it has published it or *)
(* given it up.  A poll runs without interruption up to the end of a       *)
(* chunk; what else the process does comes between two chunks.             *)
(***************************************************************************)
EXTENDS Integers, FiniteSets

CONSTANTS MaxCreated,         \* bound on the entries written
          BatchSize,          \* batchSize
          ChunkSize,          \* maxConcurrentPublishes
          MaxRetries,         \* maxRetries
          Refused,            \* the entries the event bus will not take
          MaxInterruptions    \* bound on crashes and calls of publishPending

Entries == 1..MaxCreated

ASSUME OutboxAssumption ==
  /\ {MaxCreated, BatchSize, ChunkSize, MaxRetries, MaxInterruptions} \subseteq Nat
  /\ BatchSize > 0 /\ ChunkSize > 0 /\ Refused \subseteq Entries

VARIABLES box,                \* the table, the local copies and the bus
          created,            \* number of entries written
          poller,             \* up, whether it runs, and what a poll has still to publish
          interruptions       \* crashes and calls of publishPending so far

outboxVars == <<box, created, poller, interruptions>>

Absent == -1      \* no local copy

Unlisted == [e \in Entries |-> 0]

(* row, tries: status and retry_count of an entry's row; local: retryCount *)
(* of its local copy; sent: how often the bus took it.                     *)
Boxes ==
  [row : [Entries -> {"none", "pending", "published", "dead", "deleted"}],
   tries : [Entries -> Nat], local : [Entries -> Nat \cup {Absent}], sent : [Entries -> Nat]]

Pollers ==
  [up : BOOLEAN, running : BOOLEAN, todo : SUBSET Entries, listed : [Entries -> Nat \cup {Absent}]]

OutboxTypeOK ==
  /\ box \in Boxes /\ poller \in Pollers
  /\ created \in 0..MaxCreated /\ interruptions \in 0..MaxInterruptions

OutboxInit ==
  /\ box = [row |-> [e \in Entries |-> "none"], tries |-> [e \in Entries |-> 0],
            local |-> [e \in Entries |-> Absent], sent |-> [e \in Entries |-> 0]]
  /\ created = 0 /\ interruptions = 0
  /\ poller = [up |-> TRUE, running |-> FALSE, todo |-> {}, listed |-> Unlisted]

-----------------------------------------------------------------------------
(* Effects on the table and the local copies *)

(* slice(0, k) of the entries in S, sorted by created_at                   *)
Oldest(S, k) == {e \in S : Cardinality({d \in S : d < e}) < k}

(* getPendingEntries: the oldest pending rows, and all local copies.       *)
PendingEntries(limit) ==
  LET rows == Oldest({e \in Entries : box.row[e] = "pending"}, limit)
  IN Oldest(rows \cup {e \in Entries : box.local[e] # Absent}, limit)

(* retryCount of each entry that is listed                                 *)
RetryCount == [e \in Entries |-> IF box.row[e] = "pending" THEN box.tries[e] ELSE box.local[e]]

(* The same for one listed by a poll earlier: a record read from the       *)
(* table is as it was then, a local copy is as it is now.                  *)
ListedRetryCount ==
  [e \in Entries |-> IF box.row[e] = "none" /\ box.local[e] # Absent THEN box.local[e]
                     ELSE poller.listed[e]]

\* Variant: the local copy goes, and the row is not marked.
MarkPublishedLocally(b, S) ==
  [b EXCEPT !.local = [e \in Entries |-> IF e \in S THEN Absent ELSE @[e]]]

(* UPDATE outbox SET published_at; localEntries.delete                     *)
MarkPublished(b, S) ==
  [b EXCEPT !.row = [e \in Entries |-> IF e \in S /\ @[e] \notin {"none", "deleted"} THEN "published" ELSE @[e]],
            !.local = [e \in Entries |-> IF e \in S THEN Absent ELSE @[e]]]

MarkDeadLettered(b, S) ==
  [b EXCEPT !.row = [e \in Entries |-> IF e \in S /\ @[e] # "none" THEN "dead" ELSE @[e]],
            !.local = [e \in Entries |-> IF e \in S THEN Absent ELSE @[e]]]

(* retry_count becomes one more than what the caller read.                 *)
MarkFailed(b, S, read) ==
  [b EXCEPT !.tries = [e \in Entries |-> IF e \in S /\ b.row[e] # "none" THEN read[e] + 1 ELSE @[e]],
            !.local = [e \in Entries |-> IF e \in S /\ @[e] # Absent THEN read[e] + 1 ELSE @[e]]]

Send(b, S) == [b EXCEPT !.sent = [e \in Entries |-> IF e \in S THEN @[e] + 1 ELSE @[e]]]

(* publishChunk, by publishEntry or publishEntriesBatch: the bus takes all *)
(* entries of the chunk or none.                                           *)
PublishChunk(b, chunk, read) ==
  IF chunk \cap Refused = {} THEN MarkPublished(Send(b, chunk), chunk)
  ELSE MarkFailed(b, chunk, read)

-----------------------------------------------------------------------------
(* writeOutboxEntry in a transaction that commits                          *)
WriteCommitted ==
  /\ poller.up /\ created < MaxCreated
  /\ created' = created + 1
  /\ box' = [box EXCEPT !.row[created + 1] = "pending", !.local[created + 1] = 0]
  /\ UNCHANGED <<poller, interruptions>>

(* writeOutboxEntry in a transaction that is rolled back                   *)
WriteRolledBack ==
  /\ poller.up /\ created < MaxCreated
  /\ created' = created + 1
  /\ box' = [box EXCEPT !.local[created + 1] = 0]
  /\ UNCHANGED <<poller, interruptions>>

StartPoller ==
  /\ poller.up /\ ~poller.running
  /\ poller' = [poller EXCEPT !.running = TRUE]
  /\ UNCHANGED <<box, created, interruptions>>

(* A stop ends a poll that is under way at its next chunk.                 *)
StopPoller ==
  /\ poller.up /\ poller.running
  /\ poller' = [poller EXCEPT !.running = FALSE, !.todo = {}, !.listed = Unlisted]
  /\ UNCHANGED <<box, created, interruptions>>

(* chunkEntries gives the oldest first, ChunkSize at a time.               *)
Chunk(S) == Oldest(S, ChunkSize)

(* The entries of a poll but those of its first chunk are to come.         *)
Polling(batch) ==
  IF Chunk(batch) = batch THEN poller
  ELSE [poller EXCEPT !.todo = batch \ Chunk(batch), !.listed = RetryCount]

Exhausted ==
  LET read == RetryCount IN {e \in PendingEntries(BatchSize) : read[e] >= MaxRetries}

(* What a poll publishes, where the backoff of the entries in waiting is   *)
(* not over.                                                               *)
Eligible(waiting) == PendingEntries(BatchSize) \ (Exhausted \cup waiting)

\* Variant: an entry without retries left is passed over.
PollKeepingExhausted(waiting) ==
  /\ poller.up /\ poller.running /\ poller.todo = {}
  /\ \E batch \in {Eligible(waiting)} :
       /\ box' = PublishChunk(box, Chunk(batch), RetryCount)
       /\ poller' = Polling(batch)
  /\ UNCHANGED <<created, interruptions>>

(* runPoll up to its first await.                                          *)
Poll(waiting) ==
  /\ poller.up /\ poller.running /\ poller.todo = {}
  /\ \E batch \in {Eligible(waiting)} :
       /\ box' = PublishChunk(MarkDeadLettered(box, Exhausted), Chunk(batch), RetryCount)
       /\ poller' = Polling(batch)
  /\ UNCHANGED <<created, interruptions>>

InBackoff ==
  LET read == RetryCount IN {e \in PendingEntries(BatchSize) : read[e] > 0}

PollTick == \E waiting \in SUBSET InBackoff : Poll(waiting)

NextChunk ==
  /\ poller.up /\ poller.todo # {}
  /\ box' = PublishChunk(box, Chunk(poller.todo), ListedRetryCount)
  /\ poller' = [poller EXCEPT !.todo = @ \ Chunk(@),
                              !.listed = IF poller.todo = Chunk(poller.todo) THEN Unlisted ELSE @]
  /\ UNCHANGED <<created, interruptions>>

(* publishPending: one by one, whatever their retries.                     *)
PublishPending ==
  LET batch == PendingEntries(BatchSize)
      taken == batch \ Refused
  IN /\ poller.up /\ batch # {} /\ interruptions < MaxInterruptions
     /\ box' = MarkPublished(Send(MarkFailed(box, batch \cap Refused, RetryCount), taken), taken)
     /\ interruptions' = interruptions + 1
     /\ UNCHANGED <<created, poller>>

CleanupPublished ==
  /\ \E e \in Entries : /\ box.row[e] = "published"
                        /\ box' = [box EXCEPT !.row[e] = "deleted"]
  /\ UNCHANGED <<created, poller, interruptions>>

(* A crash loses the local copies.                                         *)
Crashed(b) ==
  /\ poller.up /\ interruptions < MaxInterruptions
  /\ interruptions' = interruptions + 1
  /\ poller' = [up |-> FALSE, running |-> FALSE, todo |-> {}, listed |-> Unlisted]
  /\ box' = [b EXCEPT !.local = [e \in Entries |-> Absent]]
  /\ UNCHANGED created

(* It may come after the bus took a chunk and before its rows are marked.  *)
CrashWhileSending ==
  \/ /\ poller.todo # {} /\ Chunk(poller.todo) \cap Refused = {}
     /\ Crashed(Send(box, Chunk(poller.todo)))
  \/ /\ poller.running /\ poller.todo = {}
     /\ \E waiting \in SUBSET InBackoff :
          LET batch == Eligible(waiting)
          IN /\ batch # {} /\ Chunk(batch) \cap Refused = {}
             /\ Crashed(Send(MarkDeadLettered(box, Exhausted), Chunk(batch)))

CrashOutbox == Crashed(box) \/ CrashWhileSending

RestartOutbox ==
  /\ ~poller.up
  /\ poller' = [poller EXCEPT !.up = TRUE]
  /\ UNCHANGED <<box, created, interruptions>>

OutboxNext ==
  \/ WriteCommitted \/ WriteRolledBack \/ StartPoller \/ StopPoller \/ PollTick \/ NextChunk
  \/ PublishPending \/ CleanupPublished \/ CrashOutbox \/ RestartOutbox

(* The poller is started again, and its timer fires.  A backoff is over    *)
(* in the end, as maxBackoffMs bounds it.                                  *)
OutboxFairness ==
  /\ WF_outboxVars(RestartOutbox)
  /\ WF_outboxVars(StartPoller)
  /\ WF_outboxVars(NextChunk)
  /\ SF_outboxVars(Poll({}))

OutboxSpec == OutboxInit /\ [][OutboxNext]_outboxVars /\ OutboxFairness

-----------------------------------------------------------------------------
(* Properties *)

(* The bus is given an entry twice only where a crash came between sending *)
(* and marking it, or publishPending between two chunks of a poll that had *)
(* listed it.                                                              *)
SentOncePerInterruption == \A e \in Entries : box.sent[e] <= 1 + interruptions

(* The inductive invariant: what may still be sent has been sent at most   *)
(* once per interruption, and entries not yet written have not been.       *)
Sendable(e) == box.row[e] = "pending" \/ box.local[e] # Absent \/ e \in poller.todo

OutboxInv ==
  /\ OutboxTypeOK /\ SentOncePerInterruption
  /\ \A e \in Entries : Sendable(e) => box.sent[e] <= interruptions /\ e <= created
  /\ \A e \in Entries : e > created => box.sent[e] = 0

(* At-least-once: an entry whose transaction committed reaches the bus, or *)
(* is dead-lettered for an operator, however many entries before it are    *)
(* refused and waiting for their retries, and whatever crashes.            *)
CommittedEntriesSettle ==
  \A e \in Entries : box.row[e] = "pending" ~> box.row[e] # "pending"

(* Only what a committed transaction wrote is published.  It does not      *)
(* hold: the local copy of an entry outlives the transaction's rollback.   *)
OnlyCommittedIsSent == \A e \in Entries : box.sent[e] > 0 => box.row[e] # "none"

=============================================================================
