--------------------------- MODULE EventDelivery ---------------------------
(***************************************************************************)
(* DurableEventBus: the durable delivery of tier-1 events to one           *)
(* registered consumer by the bus of one process, with EventOpsService's   *)
(* replay, and crashes.                                                    *)
(*                                                                         *)
(* Events are numbered in the order they were published.  The deliveries   *)
(* of a consumer follow each other in a chain; each lists the pending      *)
(* events when it begins and hands them to the handler one by one.  The    *)
(* zero-delay timer of scheduleDelivery only puts it on the chain a little *)
(* later, and is left out.                                                 *)
(***************************************************************************)
EXTENDS Naturals, Sequences, SequencesExt

CONSTANTS MaxEvents,          \* bound on the events published
          MaxDeliveryRetries, \* MAX_DELIVERY_RETRIES
          MaxSubscribes,      \* bound on calls of subscribe
          MaxCommands         \* bound on calls of deliverPending, replays and crashes

Events == 1..MaxEvents

ASSUME DeliveryAssumption ==
  /\ {MaxEvents, MaxDeliveryRetries, MaxSubscribes, MaxCommands} \subseteq Nat
  /\ MaxDeliveryRetries > 0

VARIABLES acks,               \* event_consumer_acks of the consumer
          bus,                \* what the process holds in memory
          counts              \* events published, calls made

deliveryVars == <<acks, bus, counts>>

NoRun == [kind |-> "none", todo |-> <<>>, generation |-> 0, attempt |-> 0,
          calling |-> FALSE, died |-> FALSE]

(* generation: 0 when nobody is subscribed; parked: pendingDeliveryErrors  *)
(* has an error; timer: the polling timer is set; chain: deliveries that   *)
(* wait; run: the one under way, with the attempt for Head(todo) and       *)
(* whether its handler is at work.                                         *)
NewBus == [generation |-> 0, parked |-> FALSE, timer |-> FALSE, chain |-> <<>>, run |-> NoRun]

Kinds == {"fanout", "poll", "explicit"}

Runs == [kind : Kinds \cup {"none"}, todo : Seq(Events), generation : 0..MaxSubscribes,
         attempt : 0..MaxDeliveryRetries, calling : BOOLEAN, died : BOOLEAN]

DeliveryTypeOK ==
  /\ acks \in [Events -> {"none", "pending", "acked", "dead_lettered"}]
  /\ bus.generation \in 0..MaxSubscribes /\ bus.parked \in BOOLEAN /\ bus.timer \in BOOLEAN
  /\ bus.chain \in Seq(Kinds) /\ bus.run \in Runs
  /\ counts \in [events : 0..MaxEvents, subscribes : 0..MaxSubscribes, commands : 0..MaxCommands]

DeliveryInit ==
  /\ acks = [e \in Events |-> "none"]
  /\ bus = NewBus
  /\ counts = [events |-> 0, subscribes |-> 0, commands |-> 0]

Subscribed == bus.generation # 0

Pending == {e \in Events : acks[e] = "pending"}

-----------------------------------------------------------------------------
(* publish: the event and the pending ack of its registered consumer are   *)
(* one transaction.                                                        *)
Publish ==
  /\ counts.events < MaxEvents
  /\ counts' = [counts EXCEPT !.events = @ + 1]
  /\ acks' = [acks EXCEPT ![counts.events + 1] = "pending"]
  /\ bus' = IF Subscribed THEN [bus EXCEPT !.chain = Append(@, "fanout")] ELSE bus

(* The generation counts the subscriptions since the last unsubscribe.     *)
Subscribe ==
  /\ counts.subscribes < MaxSubscribes
  /\ counts' = [counts EXCEPT !.subscribes = @ + 1]
  /\ bus' = [bus EXCEPT !.generation = @ + 1, !.parked = FALSE, !.timer = TRUE]
  /\ UNCHANGED acks

Unsubscribe ==
  /\ Subscribed
  /\ bus' = [bus EXCEPT !.generation = 0, !.timer = FALSE]
  /\ UNCHANGED <<acks, counts>>

PollingTick ==
  /\ bus.timer
  /\ bus' = [bus EXCEPT !.timer = FALSE, !.chain = Append(@, "poll")]
  /\ UNCHANGED <<acks, counts>>

DeliverPending ==
  /\ counts.commands < MaxCommands
  /\ counts' = [counts EXCEPT !.commands = @ + 1]
  /\ bus' = [bus EXCEPT !.chain = Append(@, "explicit")]
  /\ UNCHANGED acks

(* replayConsumer: resetConsumerReplayState, then deliverPending           *)
ReplayConsumer ==
  /\ counts.commands < MaxCommands
  /\ counts' = [counts EXCEPT !.commands = @ + 1]
  /\ acks' = [e \in Events |-> IF acks[e] \in {"acked", "dead_lettered"} THEN "pending" ELSE acks[e]]
  /\ bus' = [bus EXCEPT !.chain = Append(@, "explicit")]

-----------------------------------------------------------------------------
\* Variant: a poll does not set the timer for the next.
EndedUnarmed(b, throws) ==
  [b EXCEPT !.run = NoRun,
            !.parked = @ \/ (throws /\ b.run.kind # "explicit")]

(* The end of a delivery.  A background one keeps the error it ends with   *)
(* in pendingDeliveryErrors; a poll sets the timer for the next.           *)
Ended(b, throws) ==
  [b EXCEPT !.run = NoRun,
            !.parked = @ \/ (throws /\ b.run.kind # "explicit"),
            !.timer = @ \/ (b.run.kind = "poll" /\ b.generation # 0)]

(* The head of the chain begins: it throws an error kept from before, or   *)
(* lists the pending events.                                               *)
BeginDelivery ==
  /\ bus.run.kind = "none" /\ bus.chain # <<>>
  /\ LET run == [NoRun EXCEPT !.kind = Head(bus.chain), !.generation = bus.generation,
                              !.todo = SetToSortSeq(Pending, <)]
         begun == [bus EXCEPT !.chain = Tail(@), !.run = run]
     IN bus' = IF bus.parked THEN Ended([begun EXCEPT !.parked = FALSE], TRUE)
               ELSE IF ~Subscribed THEN Ended(begun, FALSE)
               ELSE begun
  /\ UNCHANGED <<acks, counts>>

IsCurrent == bus.run.generation = bus.generation

Skipped(r) == [r EXCEPT !.todo = Tail(@), !.attempt = 0, !.calling = FALSE]

(* An attempt at the first event begins, unless the subscription changed.  *)
CallHandler ==
  /\ bus.run.todo # <<>> /\ ~bus.run.calling /\ bus.run.attempt < MaxDeliveryRetries
  /\ bus' = [bus EXCEPT !.run = IF IsCurrent THEN [@ EXCEPT !.calling = TRUE] ELSE Skipped(@)]
  /\ UNCHANGED <<acks, counts>>

HandlerSucceeds ==
  /\ bus.run.calling
  /\ acks' = IF IsCurrent THEN [acks EXCEPT ![Head(bus.run.todo)] = "acked"] ELSE acks
  /\ bus' = [bus EXCEPT !.run = Skipped(@)]
  /\ UNCHANGED counts

HandlerFails ==
  /\ bus.run.calling
  /\ bus' = [bus EXCEPT !.run.calling = FALSE, !.run.attempt = @ + 1]
  /\ UNCHANGED <<acks, counts>>

(* After the last attempt: the ack is marked, then the record, which no    *)
(* delivery reads, is written, in two commits.  Where the second fails the *)
(* delivery ends with it.                                                  *)
DeadLetter ==
  /\ bus.run.todo # <<>> /\ ~bus.run.calling /\ bus.run.attempt = MaxDeliveryRetries
  /\ IF ~IsCurrent
     THEN bus' = [bus EXCEPT !.run = Skipped(@)] /\ UNCHANGED acks
     ELSE /\ acks' = [acks EXCEPT ![Head(bus.run.todo)] = "dead_lettered"]
          /\ \/ bus' = [bus EXCEPT !.run = [Skipped(@) EXCEPT !.died = TRUE]]
             \/ bus' = Ended(bus, TRUE)
  /\ UNCHANGED counts

EndDelivery ==
  /\ bus.run.kind # "none" /\ bus.run.todo = <<>>
  /\ bus' = Ended(bus, bus.run.died)
  /\ UNCHANGED <<acks, counts>>

CrashBus ==
  /\ counts.commands < MaxCommands
  /\ counts' = [counts EXCEPT !.commands = @ + 1]
  /\ bus' = NewBus
  /\ UNCHANGED acks

DeliveryStep == BeginDelivery \/ CallHandler \/ HandlerSucceeds \/ HandlerFails \/ DeadLetter \/ EndDelivery

DeliveryNext ==
  \/ Publish \/ Subscribe \/ Unsubscribe \/ PollingTick \/ DeliverPending \/ ReplayConsumer
  \/ DeliveryStep \/ CrashBus

(* The event loop goes on, handlers return, timers fire.                   *)
DeliveryFairness == WF_deliveryVars(DeliveryStep) /\ WF_deliveryVars(PollingTick)

DeliverySpec == DeliveryInit /\ [][DeliveryNext]_deliveryVars /\ DeliveryFairness

-----------------------------------------------------------------------------
(* Properties *)

(* A pending tier-1 event is acknowledged or dead-lettered without anybody *)
(* asking, while the consumer is subscribed, or an error is kept for it.   *)
PendingSettlesOrParks ==
  \A e \in Events : acks[e] = "pending" ~> acks[e] # "pending" \/ bus.parked \/ ~Subscribed

(* The same without the way out.  It does not hold: a dead letter leaves   *)
(* an error that the next background delivery throws, and keeps again.     *)
PendingSettles ==
  \A e \in Events : acks[e] = "pending" ~> acks[e] # "pending" \/ ~Subscribed

=============================================================================
