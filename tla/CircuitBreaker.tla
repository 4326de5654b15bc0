--------------------------- MODULE CircuitBreaker ---------------------------
(***************************************************************************)
(* The circuit breaker around a model provider.  execute decides on        *)
(* admission when it is called and on the state when the call returns, so  *)
(* a call admitted in one state may return in another.                     *)
(*                                                                         *)
(* The window holds the outcomes of the recent requests, oldest first; an  *)
(* outcome leaves it with time.  Of these the breaker keeps the last       *)
(* maxWindowEntries requests, and as many failures, however old.           *)
(***************************************************************************)
EXTENDS Naturals, Sequences, FiniteSets

CONSTANTS Calls,              \* concurrent callers of execute
          FailureThreshold,   \* failureThreshold
          SuccessThreshold,   \* halfOpenSuccessThreshold
          MinSampleSize,      \* minSampleSize
          MaxWindow,          \* maxWindowEntries
          MaxSeen             \* bound on the outcomes in the monitoring window

ASSUME BreakerAssumption ==
  /\ IsFiniteSet(Calls)
  /\ FailureThreshold \in Nat \ {0} /\ SuccessThreshold \in Nat \ {0}
  /\ MinSampleSize \in Nat /\ MaxWindow \in Nat \ {0}
  /\ MaxSeen \in Nat \ {0}

VARIABLES breaker, window, calls

breakerVars == <<breaker, window, calls>>

Breakers == [state : {"closed", "open", "half_open"}, failures : Nat, successes : Nat,
             inFlight : Nat, due : BOOLEAN]

BreakerTypeOK ==
  /\ breaker \in Breakers
  /\ window \in Seq(BOOLEAN) /\ Len(window) <= MaxSeen
  /\ calls \in [Calls -> {"idle", "call", "probe"}]

BreakerInit ==
  /\ breaker = [state |-> "closed", failures |-> 0, successes |-> 0, inFlight |-> 0, due |-> FALSE]
  /\ window = <<>>
  /\ calls = [c \in Calls |-> "idle"]

-----------------------------------------------------------------------------
(* transitionTo; a window is emptied on closing.                           *)
TransitionTo(b, new) ==
  [b EXCEPT !.state = new, !.due = FALSE, !.successes = 0, !.inFlight = 0,
            !.failures = IF new = "closed" THEN 0 ELSE @]

(* A probe is a call admitted in the half-open state that still lasts.     *)
Plain(k) == IF k = "probe" THEN "call" ELSE k

Enter(b, seen, c) ==
  /\ breaker' = b
  /\ window' = IF b.state = "closed" /\ breaker.state # "closed" THEN <<>> ELSE seen
  /\ calls' = [d \in Calls |-> IF d = c THEN "idle"
                               ELSE IF b.state # breaker.state THEN Plain(calls[d]) ELSE calls[d]]

(* canExecute                                                              *)
Admit(c) ==
  /\ calls[c] = "idle"
  /\ \/ /\ breaker.state = "closed"
        /\ calls' = [calls EXCEPT ![c] = "call"]
        /\ UNCHANGED breaker
     \/ /\ breaker.state = "open" /\ breaker.due
        /\ breaker' = [TransitionTo(breaker, "half_open") EXCEPT !.inFlight = 1]
        /\ calls' = [calls EXCEPT ![c] = "probe"]
     \/ /\ breaker.state = "half_open" /\ breaker.inFlight = 0
        /\ breaker' = [breaker EXCEPT !.inFlight = 1]
        /\ calls' = [calls EXCEPT ![c] = "probe"]
  /\ UNCHANGED window

(* getState moves an open breaker on when it is asked                      *)
GetState ==
  /\ breaker.state = "open" /\ breaker.due
  /\ breaker' = TransitionTo(breaker, "half_open")
  /\ UNCHANGED <<window, calls>>

ResetTimeoutPasses ==
  /\ breaker.state = "open" /\ ~breaker.due
  /\ breaker' = [breaker EXCEPT !.due = TRUE]
  /\ UNCHANGED <<window, calls>>

WindowPasses ==
  /\ window # <<>>
  /\ window' = Tail(window)
  /\ UNCHANGED <<breaker, calls>>

(* requestTimestamps.push and failureTimestamps.push, the oldest pruned    *)
Noted(ok) ==
  IF Len(window) < MaxSeen THEN Append(window, ok) ELSE Append(Tail(window), ok)

(* trimWindow *)
Trimmed(n) == IF n > MaxWindow THEN MaxWindow ELSE n

(* getRecentFailureRate is at least a half.                                *)
FailureRateIsHigh(seen) ==
  LET requests == Trimmed(Len(seen))
      failures == Trimmed(Len(SelectSeq(seen, LAMBDA ok : ~ok)))
  IN requests >= MinSampleSize /\ requests > 0 /\ 2 * failures >= requests

\* Variant: the successes of the half-open state are forgotten like the others.
OnSuccessForgetting(c) ==
  /\ calls[c] # "idle"
  /\ Enter([breaker EXCEPT !.failures = 0, !.successes = 0, !.inFlight = IF @ > 0 THEN @ - 1 ELSE @],
           Noted(TRUE), c)

(* onSuccess                                                               *)
OnSuccess(c) ==
  LET b == [breaker EXCEPT !.failures = 0, !.successes = @ + 1,
                           !.inFlight = IF @ > 0 THEN @ - 1 ELSE @]
  IN /\ calls[c] # "idle"
     /\ Enter(IF breaker.state # "half_open" THEN [breaker EXCEPT !.failures = 0, !.successes = 0]
              ELSE IF b.successes >= SuccessThreshold THEN TransitionTo(b, "closed") ELSE b,
              Noted(TRUE), c)

(* onFailure; in the open state a failure is counted alone.                *)
OnFailure(c) ==
  LET b == [breaker EXCEPT !.failures = IF @ < FailureThreshold THEN @ + 1 ELSE @, !.successes = 0]
      opens == \/ b.state = "half_open"
               \/ b.state = "closed" /\ b.failures >= FailureThreshold
               \/ b.state = "closed" /\ FailureRateIsHigh(Noted(FALSE))
  IN /\ calls[c] # "idle"
     /\ Enter(IF opens THEN TransitionTo(b, "open") ELSE b, Noted(FALSE), c)

BreakerNext ==
  \/ \E c \in Calls : Admit(c) \/ OnSuccess(c) \/ OnFailure(c)
  \/ GetState \/ ResetTimeoutPasses \/ WindowPasses

(* Callers keep calling, calls return, and time passes.                    *)
BreakerFairness ==
  /\ \A c \in Calls : WF_breakerVars(Admit(c)) /\ WF_breakerVars(OnSuccess(c))
  /\ WF_breakerVars(ResetTimeoutPasses)

BreakerSpec == BreakerInit /\ [][BreakerNext]_breakerVars /\ BreakerFairness

-----------------------------------------------------------------------------
(* Properties *)

(* The breaker never refuses for good: while it counts a probe as under    *)
(* way, some call has still to return, and its return frees the place.     *)
ProbesReturn ==
  breaker.inFlight <= Cardinality({c \in Calls : calls[c] # "idle"})

(* The inductive invariant: a probe is counted in the half-open state, one *)
(* at a time, and while some call is under way.                            *)
BreakerInv ==
  /\ BreakerTypeOK
  /\ breaker.inFlight # 0 => /\ breaker.inFlight = 1 /\ breaker.state = "half_open"
                             /\ \E c \in Calls : calls[c] # "idle"

(* Once calls fail no more, the breaker closes.                            *)
BreakerRecovers ==
  <>[][\A c \in Calls : ~OnFailure(c)]_breakerVars => <>[](breaker.state = "closed")

(* In the half-open state at most one probe is under way.  It does not     *)
(* hold: a call admitted earlier that returns now frees the probe's place. *)
OneProbeAtATime ==
  breaker.state = "half_open" => Cardinality({c \in Calls : calls[c] = "probe"}) <= 1

=============================================================================
