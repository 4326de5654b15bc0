--------------------------- MODULE PartitionQueue ---------------------------
(***************************************************************************)
(* DurableEventBus: the volatile delivery of tier-2 and tier-3 events.     *)
(* Each partition (aggregate) has a queue ordered by sequence, whose head  *)
(* is handed to every subscriber that waits for it; the subscribers form   *)
(* one consumer group, with a limit on the deliveries at a time.           *)
(*                                                                         *)
(* Events and consumers are numbered in the order of their publication and *)
(* subscription.  Handlers run concurrently; everything else is one step.  *)
(***************************************************************************)
EXTENDS Integers, Sequences, FiniteSets, Functions, SequencesExt

CONSTANTS Partitions,
          Consumers,          \* a set of numbers
          GivenSequences,     \* the sequences a publisher may give
          MaxPartitionConcurrency, \* maxConcurrency of the consumer group
          MaxPublished        \* bound on the events

ASSUME PartitionAssumption ==
  /\ Consumers \subseteq Nat /\ GivenSequences \subseteq Nat
  /\ MaxPartitionConcurrency \in Nat \ {0} /\ MaxPublished \in Nat

Published == 1..MaxPublished

VARIABLES queues,             \* pendingPartitionEvents
          expected,           \* partitionSequenceNumbers, -1 where unset
          flying,             \* what each consumer's handler is at, per partition
          slots,              \* groupDeliveryCounts
          subscribed,         \* subscribers
          outcome,            \* what became of each event for each consumer
          published           \* number of events published

partitionVars == <<queues, expected, flying, slots, subscribed, outcome, published>>

Unset == -1

NoDelivery == [event |-> 0, sequence |-> 0]

QueueEntries == [event : Published, sequence : Nat, waiting : SUBSET Consumers]

PartitionTypeOK ==
  /\ queues \in [Partitions -> Seq(QueueEntries)]
  /\ expected \in [Partitions -> [Consumers -> Nat \cup {Unset}]]
  /\ flying \in [Partitions -> [Consumers -> [event : 0..MaxPublished, sequence : Nat]]]
  /\ slots \in Nat /\ subscribed \subseteq Consumers /\ published \in 0..MaxPublished
  /\ outcome \in [Consumers -> [Published -> {"none", "waiting", "handled", "failed", "skipped", "gone"}]]

PartitionInit ==
  /\ queues = [p \in Partitions |-> <<>>]
  /\ expected = [p \in Partitions |-> [c \in Consumers |-> Unset]]
  /\ flying = [p \in Partitions |-> [c \in Consumers |-> NoDelivery]]
  /\ slots = 0 /\ subscribed = {} /\ published = 0
  /\ outcome = [c \in Consumers |-> [e \in Published |-> "none"]]

-----------------------------------------------------------------------------
(* processPartitionQueue works on s, which holds queues, flying, slots and *)
(* outcome; seqs is expected.                                              *)
State == [queues |-> queues, flying |-> flying, slots |-> slots, outcome |-> outcome]

(* The consumers an entry still waits for: not those that are gone, or are *)
(* past its sequence.                                                      *)
Awaited(seqs, p, entry) ==
  {c \in entry.waiting \cap subscribed : seqs[p][c] <= entry.sequence}

(* Of those, the ones whose turn it is, while the group has slots          *)
Startable(s, seqs, p, head) ==
  LET ready == {c \in Awaited(seqs, p, head) :
                  seqs[p][c] \in {Unset, head.sequence} /\ s.flying[p][c] = NoDelivery}
  IN {c \in ready : Cardinality({d \in ready : d < c}) < MaxPartitionConcurrency - s.slots}

Dropped(row, events, as) ==
  [e \in Published |-> IF e \in events /\ row[e] = "waiting" THEN as ELSE row[e]]

(* processPartitionQueue: entries nobody waits for are removed up to the   *)
(* first that has consumers left, and this is handed to those whose turn   *)
(* it is.                                                                  *)
ProcessPartitionQueue(s, seqs, p) ==
  LET queue == s.queues[p]
      first == SelectInSeq(queue, LAMBDA e : Awaited(seqs, p, e) # {})
      head == [queue[first] EXCEPT !.waiting = Awaited(seqs, p, queue[first])]
      seen == IF first = 0 THEN queue ELSE SubSeq(queue, 1, first)
      started == IF first = 0 THEN {} ELSE Startable(s, seqs, p, head)
  IN [queues |-> [s.queues EXCEPT ![p] =
                    IF first = 0 THEN <<>> ELSE <<head>> \o SubSeq(queue, first + 1, Len(queue))],
      flying |-> [s.flying EXCEPT ![p] = [c \in Consumers |->
                    IF c \in started THEN [event |-> head.event, sequence |-> head.sequence]
                    ELSE @[c]]],
      slots |-> s.slots + Cardinality(started),
      outcome |-> [c \in Consumers |->
                    Dropped(s.outcome[c],
                            {e.event : e \in {f \in Range(seen) : c \in f.waiting \ Awaited(seqs, p, f)}},
                            IF c \in subscribed THEN "skipped" ELSE "gone")]]

Becoming(s) ==
  /\ queues' = s.queues /\ flying' = s.flying /\ slots' = s.slots /\ outcome' = s.outcome

-----------------------------------------------------------------------------
(* nextImplicitPartitionSequence                                           *)
NextImplicitSequence(p) == IF queues[p] = <<>> THEN 0 ELSE Last(queues[p]).sequence + 1

(* dispatchVolatile inserts before the first entry with a higher sequence; *)
(* scheduleFanOut then looks at the partition.                             *)
PublishVolatile(p, given) ==
  LET event == published + 1
      seq == IF given # Unset THEN given ELSE NextImplicitSequence(p)
      entry == [event |-> event, sequence |-> seq, waiting |-> subscribed]
      later == SelectInSeq(queues[p], LAMBDA e : e.sequence > seq)
      queue == IF later = 0 THEN Append(queues[p], entry) ELSE InsertAt(queues[p], later, entry)
      awaited == [c \in Consumers |-> IF c \in subscribed
                                      THEN [outcome[c] EXCEPT ![event] = "waiting"] ELSE outcome[c]]
  IN /\ published < MaxPublished
     /\ published' = event
     /\ \E s \in {[State EXCEPT !.queues[p] = queue, !.outcome = awaited]} :
          \E t \in {ProcessPartitionQueue(s, expected, p)} : Becoming(t)
     /\ UNCHANGED <<expected, subscribed>>

SubscribeVolatile(c) ==
  /\ c \notin subscribed
  /\ subscribed' = subscribed \cup {c}
  /\ UNCHANGED <<queues, expected, flying, slots, outcome, published>>

UnsubscribeVolatile(c) ==
  /\ c \in subscribed
  /\ subscribed' = subscribed \ {c}
  /\ UNCHANGED <<queues, expected, flying, slots, outcome, published>>

(* finishPartitionConsumerDelivery                                         *)
Finished(s, p, c, event) ==
  LET queue == [i \in DOMAIN s.queues[p] |->
                  IF s.queues[p][i].event = event
                  THEN [s.queues[p][i] EXCEPT !.waiting = @ \ {c}] ELSE s.queues[p][i]]
  IN [s EXCEPT !.queues[p] = queue, !.flying[p][c] = NoDelivery]

(* After a delivery of c: scheduleFanOut looks at the partitions in some   *)
(* order, while c still counts as busy in p, and p is looked at again.     *)
FannedOut(s, seqs, p, c, event) ==
  \E q \in Partitions :
    \E t \in {ProcessPartitionQueue(s, seqs, q)} :
      \E u \in {FoldFunction(LAMBDA r, v : ProcessPartitionQueue(v, seqs, r), t,
                             [r \in Partitions \ {q} |-> r])} :
        \E v \in {Finished(u, p, c, event)} :
          \E w \in {ProcessPartitionQueue(v, seqs, p)} : Becoming(w)

Advanced(p, c, ok) ==
  IF ok THEN [expected EXCEPT ![p][c] = flying[p][c].sequence + 1] ELSE expected

\* Variant: the slot of a handler that failed is not given back.
HandlerReturnsLeaking(p, c, ok) ==
  LET event == flying[p][c].event
  IN /\ event # 0
     /\ expected' = Advanced(p, c, ok)
     /\ \E s \in {[State EXCEPT !.slots = IF ok THEN @ - 1 ELSE @,
                               !.outcome[c][event] = IF ok THEN "handled" ELSE "failed"]} :
          FannedOut(s, expected', p, c, event)
     /\ UNCHANGED <<subscribed, published>>

\* Variant: only the partition of the delivery is looked at.
HandlerReturnsQuietly(p, c, ok) ==
  LET event == flying[p][c].event
  IN /\ event # 0
     /\ expected' = Advanced(p, c, ok)
     /\ \E s \in {[State EXCEPT !.slots = @ - 1,
                               !.outcome[c][event] = IF ok THEN "handled" ELSE "failed"]} :
          \E v \in {Finished(s, p, c, event)} :
            \E w \in {ProcessPartitionQueue(v, expected', p)} : Becoming(w)
     /\ UNCHANGED <<subscribed, published>>

(* A handler returns, or throws and its event becomes a dead letter.       *)
HandlerReturns(p, c, ok) ==
  LET event == flying[p][c].event
  IN /\ event # 0
     /\ expected' = Advanced(p, c, ok)
     /\ \E s \in {[State EXCEPT !.slots = @ - 1,
                               !.outcome[c][event] = IF ok THEN "handled" ELSE "failed"]} :
          FannedOut(s, expected', p, c, event)
     /\ UNCHANGED <<subscribed, published>>

PartitionNext ==
  \/ \E p \in Partitions, given \in GivenSequences \cup {Unset} : PublishVolatile(p, given)
  \/ \E c \in Consumers : SubscribeVolatile(c) \/ UnsubscribeVolatile(c)
  \/ \E p \in Partitions, c \in Consumers, ok \in BOOLEAN : HandlerReturns(p, c, ok)

PartitionSpec == PartitionInit /\ [][PartitionNext]_partitionVars

-----------------------------------------------------------------------------
(* Properties *)

(* groupDeliveryCounts is the number of deliveries under way and keeps to  *)
(* maxConcurrency: a slot is neither lost nor given back twice, however    *)
(* handlers end and consumers come and go.                                 *)
SlotsAreCounted ==
  /\ slots = Cardinality({<<p, c>> \in Partitions \X Consumers : flying[p][c] # NoDelivery})
  /\ slots <= MaxPartitionConcurrency

(* No wake-up is lost: a consumer whose turn it is for the head of a queue *)
(* waits only while every slot of its group is taken.                      *)
ReadyWaitsForASlot ==
  \A p \in Partitions, c \in Consumers :
    \/ queues[p] = <<>>
    \/ c \notin Startable([State EXCEPT !.slots = 0], expected, p, Head(queues[p]))
    \/ slots = MaxPartitionConcurrency

(* No event is passed over for a consumer that is subscribed: it is handed *)
(* to its handler, unless the consumer leaves.  It does not hold: where a  *)
(* queue is empty the implicit sequence starts at 0 again, which consumers *)
(* are past.                                                               *)
NothingIsSkipped == \A c \in Consumers, e \in Published : outcome[c][e] # "skipped"

=============================================================================
