------------------------------- MODULE Bulkhead -------------------------------
(***************************************************************************)
(* BulkheadIsolator: how many calls to another plane are under way at a    *)
(* time.  Beyond maxConcurrentCalls they wait in a queue, beyond queueSize *)
(* they are refused.  A call that takes longer than timeoutMs, waiting     *)
(* included, is answered with an error, while the function it runs goes on *)
(* and keeps its place until it returns, if ever.  A function that throws  *)
(* before it has returned a promise keeps its place for good.              *)
(*                                                                         *)
(* A call's answer and the return of its place are two turns of the event  *)
(* loop, in between which others are answered and call again.              *)
(***************************************************************************)
EXTENDS Naturals, Sequences, FiniteSets, FiniteSetsExt

CONSTANTS PlaneCalls,         \* calls of execute
          Limits,             \* values of maxConcurrentCalls, by configuration
          QueueSizes          \* values of queueSize

ASSUME BulkheadAssumption ==
  /\ IsFiniteSet(PlaneCalls)
  /\ Limits \subseteq Nat \ {0} /\ Limits # {}
  /\ QueueSizes \subseteq Nat /\ QueueSizes # {}

VARIABLES limit,              \* config.maxConcurrentCalls
          queueSize,          \* config.queueSize
          activeCalls,
          waiting,            \* queue
          sends,              \* what each call is at
          due                 \* calls whose deadlineAt has passed

bulkheadVars == <<limit, queueSize, activeCalls, waiting, sends, due>>
config == <<limit, queueSize>>

(* late: answered, its function still running; returned: the function has  *)
(* returned and keeps its place until the next turn; thrown: answered, its *)
(* function threw when it was called.                                      *)
SendStates == {"new", "queued", "running", "late", "returned", "thrown", "done", "refused"}

BulkheadTypeOK ==
  /\ limit \in Limits /\ queueSize \in QueueSizes /\ activeCalls \in Nat
  /\ sends \in [PlaneCalls -> SendStates] /\ due \subseteq PlaneCalls
  /\ waiting \in Seq({c \in PlaneCalls : sends[c] = "queued"})

BulkheadInit ==
  /\ limit \in Limits /\ queueSize \in QueueSizes
  /\ activeCalls = 0 /\ waiting = <<>> /\ due = {}
  /\ sends = [c \in PlaneCalls |-> "new"]

-----------------------------------------------------------------------------
(* startCall runs the function inside the executor of a promise.  When it  *)
(* throws there, the promise is rejected before then, catch and finally    *)
(* are attached to what the function would have returned.                  *)
Started == {"running", "thrown"}

(* execute                                                                 *)
Execute(c) ==
  /\ sends[c] = "new"
  /\ \/ /\ activeCalls < limit
        /\ activeCalls' = activeCalls + 1
        /\ \E how \in Started : sends' = [sends EXCEPT ![c] = how]
        /\ UNCHANGED waiting
     \/ /\ activeCalls >= limit /\ Len(waiting) < queueSize
        /\ waiting' = Append(waiting, c)
        /\ sends' = [sends EXCEPT ![c] = "queued"]
        /\ UNCHANGED activeCalls
     \/ /\ activeCalls >= limit /\ Len(waiting) >= queueSize
        /\ sends' = [sends EXCEPT ![c] = "refused"]
        /\ UNCHANGED <<activeCalls, waiting>>
  /\ UNCHANGED <<config, due>>

(* processQueue, with n places taken of max and the calls at ss: it takes  *)
(* calls from the head of the queue, refusing those that are overdue,      *)
(* until the room or the queue is used up.                                 *)
ProcessQueue(n, max, ss) ==
  LET room == IF n < max THEN max - n ELSE 0
      InTime(k) == {waiting[i] : i \in 1..k} \ due
      enough == {k \in 0..Len(waiting) : Cardinality(InTime(k)) = room}
      taken == IF enough = {} THEN Len(waiting) ELSE Min(enough)
      heads == {waiting[i] : i \in 1..taken}
  IN  /\ waiting' = SubSeq(waiting, taken + 1, Len(waiting))
      /\ activeCalls' = n + Cardinality(heads \ due)
      /\ \E how \in [heads \ due -> Started] :
           sends' = [c \in PlaneCalls |-> IF c \notin heads THEN ss[c]
                                          ELSE IF c \in due THEN "refused" ELSE how[c]]

(* The promise of call c's function is fulfilled or rejected; the caller   *)
(* is answered unless it has been already.                                 *)
Return(c) ==
  /\ sends[c] \in {"running", "late"}
  /\ sends' = [sends EXCEPT ![c] = "returned"]
  /\ UNCHANGED <<config, activeCalls, waiting, due>>

\* Variant: the queue is not looked at.
FinallyUnqueued(c) ==
  /\ sends[c] = "returned"
  /\ activeCalls' = activeCalls - 1
  /\ sends' = [sends EXCEPT ![c] = "done"]
  /\ UNCHANGED <<config, waiting, due>>

(* The finally clause of startCall.                                        *)
Finally(c) ==
  /\ sends[c] = "returned"
  /\ ProcessQueue(activeCalls - 1, limit, [sends EXCEPT ![c] = "done"])
  /\ UNCHANGED <<config, due>>

(* queue.splice(index, 1)                                                  *)
Spliced(queue, i) == SubSeq(queue, 1, i - 1) \o SubSeq(queue, i + 1, Len(queue))

\* Variant: only waiting calls have a timer.
TimerFiresInQueue(c) ==
  /\ c \in due /\ sends[c] = "queued"
  /\ \E i \in DOMAIN waiting : waiting[i] = c /\ waiting' = Spliced(waiting, i)
  /\ sends' = [sends EXCEPT ![c] = "refused"]
  /\ UNCHANGED <<config, activeCalls, due>>

(* The timer of a call that waits takes it out of the queue; the timer of  *)
(* one that runs answers its caller.                                       *)
TimerFires(c) ==
  /\ c \in due
  /\ \/ /\ sends[c] = "queued"
        /\ \E i \in DOMAIN waiting : waiting[i] = c /\ waiting' = Spliced(waiting, i)
        /\ sends' = [sends EXCEPT ![c] = "refused"]
     \/ /\ sends[c] = "running"
        /\ sends' = [sends EXCEPT ![c] = "late"]
        /\ UNCHANGED waiting
  /\ UNCHANGED <<config, activeCalls, due>>

DeadlinePasses(c) ==
  /\ sends[c] \in {"queued", "running"} /\ c \notin due
  /\ due' = due \cup {c}
  /\ UNCHANGED <<config, activeCalls, waiting, sends>>

(* updateConfig, when the registry is asked for the bulkhead anew.  Calls  *)
(* keep the deadline they have; a new timeoutMs is that of later ones.     *)
UpdateConfig(max, size) ==
  /\ <<max, size>> # config
  /\ limit' = max /\ queueSize' = size
  /\ ProcessQueue(activeCalls, max, sends)
  /\ UNCHANGED due

BulkheadNext ==
  \/ \E c \in PlaneCalls : \/ Execute(c) \/ Return(c) \/ Finally(c)
                           \/ TimerFires(c) \/ DeadlinePasses(c)
  \/ \E max \in Limits, size \in QueueSizes : UpdateConfig(max, size)

(* Time passes, and the timers of the calls fire.                          *)
BulkheadFairness ==
  \A c \in PlaneCalls : WF_bulkheadVars(DeadlinePasses(c)) /\ WF_bulkheadVars(TimerFires(c))

BulkheadSpec == BulkheadInit /\ [][BulkheadNext]_bulkheadVars /\ BulkheadFairness

-----------------------------------------------------------------------------
(* Properties *)

(* The calls that hold a place: their function has not returned, or threw  *)
(* when it was called and left nobody to give the place back.              *)
Placed == {c \in PlaneCalls : sends[c] \in {"running", "late", "returned", "thrown"}}

(* A place is counted once for each call that holds one, whether or not    *)
(* its caller has been answered, and no call waits while a place is free:  *)
(* a place counted twice or given back twice would let the wrong number of *)
(* calls through, one given back unnoticed would keep the queue waiting.   *)
PlacesAreUsed ==
  /\ activeCalls = Cardinality(Placed)
  /\ waiting # <<>> => activeCalls >= limit

(* The inductive invariant: the queue holds each call that waits once.     *)
BulkheadInv ==
  /\ BulkheadTypeOK
  /\ \A c \in PlaneCalls : sends[c] = "queued" => \E i \in DOMAIN waiting : waiting[i] = c
  /\ \A i, j \in DOMAIN waiting : waiting[i] = waiting[j] => i = j
  /\ PlacesAreUsed

(* The places taken are those of functions that are under way.  It does    *)
(* not hold: the place of a function that throws when it is called is      *)
(* never given back, and maxConcurrentCalls of them close the bulkhead.    *)
PlacesComeBack ==
  activeCalls = Cardinality({c \in PlaneCalls : sends[c] \in {"running", "late", "returned"}})

(* Every caller is answered, also when the function it called, and those   *)
(* it waits for, never return: the timers of the queue and of the call     *)
(* share one deadline.                                                     *)
CallersAreAnswered ==
  \A c \in PlaneCalls :
    sends[c] \in {"queued", "running"} ~> sends[c] \notin {"queued", "running"}

=============================================================================
