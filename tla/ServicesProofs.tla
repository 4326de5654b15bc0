--------------------------- MODULE ServicesProofs ---------------------------
(***************************************************************************)
(* Circuit breaker, approvals and bulkhead, for any number of calls,       *)
(* approvers and requests: each counts something (probes, votes, places)   *)
(* that must stay in step with what there is to count.                     *)
(***************************************************************************)
EXTENDS CircuitBreaker, Approvals, Bulkhead, SequenceTheorems, FiniteSetTheorems,
        WellFoundedInduction, TLAPS

-----------------------------------------------------------------------------
(* Numbers and cardinalities *)

(* A set of natural numbers has a least element.                           *)
LEMMA LeastNumber ==
  ASSUME NEW S, S \subseteq Nat, S # {}
  PROVE  \E n \in S : \A m \in S : n <= m
<1> DEFINE R == OpToRel(<, Nat)
<1>1. PICK n \in S : \A m \in S : ~(<<m, n>> \in R)
  <2> HIDE DEF R
  <2>1. IsWellFoundedOn(R, Nat)
    BY NatLessThanWellFounded DEF R
  <2> QED  BY <2>1, WFMin
<1>2. ASSUME NEW m \in S PROVE n <= m
  <2>1. ~(m < n)
    BY <1>1 DEF OpToRel
  <2> QED  BY <2>1
<1> QED  BY <1>2

(* One more element, one more at most.                                     *)
LEMMA AddedElement ==
  ASSUME NEW S, IsFiniteSet(S), NEW x
  PROVE  /\ IsFiniteSet(S \cup {x})
         /\ Cardinality(S) \in Nat /\ Cardinality(S \cup {x}) \in Nat
         /\ Cardinality(S \cup {x}) <= Cardinality(S) + 1
<1>1. IsFiniteSet(S \cup {x})
  BY FS_AddElement
<1>2. Cardinality(S) \in Nat /\ Cardinality(S \cup {x}) \in Nat
  BY <1>1, FS_CardinalityType
<1>3. Cardinality(S \cup {x}) = IF x \in S THEN Cardinality(S) ELSE Cardinality(S) + 1
  BY FS_AddElement
<1> QED  BY <1>1, <1>2, <1>3

(* Two sets together have no more than the sum.                            *)
LEMMA UnionBound ==
  ASSUME NEW S, IsFiniteSet(S), NEW T, IsFiniteSet(T)
  PROVE  /\ Cardinality(S) \in Nat /\ Cardinality(T) \in Nat /\ Cardinality(S \cup T) \in Nat
         /\ Cardinality(S \cup T) <= Cardinality(S) + Cardinality(T)
<1>1. IsFiniteSet(S \cup T) /\ Cardinality(S \cup T) = Cardinality(S) + Cardinality(T) - Cardinality(S \cap T)
  BY FS_Union
<1>2. IsFiniteSet(S \cap T)
  BY FS_Intersection
<1>3. /\ Cardinality(S) \in Nat /\ Cardinality(T) \in Nat
      /\ Cardinality(S \cup T) \in Nat /\ Cardinality(S \cap T) \in Nat
  BY <1>1, <1>2, FS_CardinalityType
<1> QED  BY <1>1, <1>3

-----------------------------------------------------------------------------
(* The circuit breaker *)

LEMMA BreakerInvInit == BreakerInit => BreakerInv
  BY BreakerAssumption DEF BreakerInit, BreakerInv, BreakerTypeOK, Breakers

LEMMA NotedWindow ==
  ASSUME BreakerTypeOK, NEW ok \in BOOLEAN
  PROVE  Noted(ok) \in Seq(BOOLEAN) /\ Len(Noted(ok)) <= MaxSeen
<1>1. window \in Seq(BOOLEAN) /\ Len(window) \in Nat /\ Len(window) <= MaxSeen /\ MaxSeen \in Nat \ {0}
  BY BreakerAssumption DEF BreakerTypeOK
<1>2. CASE Len(window) < MaxSeen
  BY <1>1, <1>2 DEF Noted
<1>3. CASE ~(Len(window) < MaxSeen)
  <2>1. window # <<>>
    BY <1>1, <1>3
  <2>2. Tail(window) \in Seq(BOOLEAN) /\ Len(Tail(window)) = Len(window) - 1
    BY <1>1, <2>1
  <2> QED  BY <1>1, <1>3, <2>2 DEF Noted
<1> QED  BY <1>2, <1>3

(* A call that returns leaves no probe counted.                            *)
LEMMA EnterStep ==
  ASSUME BreakerInv, NEW c \in Calls, NEW b \in Breakers, b.inFlight = 0,
         NEW ok \in BOOLEAN, Enter(b, Noted(ok), c)
  PROVE  BreakerInv'
<1>1. window' \in Seq(BOOLEAN) /\ Len(window') <= MaxSeen
  <2>1. Noted(ok) \in Seq(BOOLEAN) /\ Len(Noted(ok)) <= MaxSeen
    BY NotedWindow DEF BreakerInv
  <2>2. <<>> \in Seq(BOOLEAN) /\ Len(<<>>) <= MaxSeen
    BY BreakerAssumption
  <2>3. window' = <<>> \/ window' = Noted(ok)
    BY DEF Enter
  <2> QED  BY Zenon, <2>1, <2>2, <2>3
<1>2. calls' \in [Calls -> {"idle", "call", "probe"}]
  BY DEF Enter, Plain, BreakerInv, BreakerTypeOK
<1> QED  BY <1>1, <1>2 DEF BreakerInv, BreakerTypeOK, Enter

LEMMA TransitionToType ==
  ASSUME NEW b \in Breakers, NEW new \in {"closed", "open", "half_open"}
  PROVE  TransitionTo(b, new) \in Breakers /\ TransitionTo(b, new).inFlight = 0
         /\ TransitionTo(b, new).state = new
  BY Zenon DEF TransitionTo, Breakers

LEMMA BreakerInvStep ==
  ASSUME BreakerInv, [BreakerNext]_breakerVars
  PROVE  BreakerInv'
<1>1. breaker \in Breakers /\ BreakerTypeOK
  BY DEF BreakerInv, BreakerTypeOK
<1>2. ASSUME NEW c \in Calls, Admit(c)
      PROVE  BreakerInv'
  <2>1. CASE breaker.state = "closed" /\ calls' = [calls EXCEPT ![c] = "call"] /\ UNCHANGED breaker
    BY <1>2, <2>1 DEF Admit, BreakerInv, BreakerTypeOK
  <2>2. ASSUME NEW b \in Breakers, b.state = "half_open", breaker' = [b EXCEPT !.inFlight = 1],
               calls' = [calls EXCEPT ![c] = "probe"]
        PROVE  BreakerInv'
    <3>1. breaker' \in Breakers /\ breaker'.inFlight = 1 /\ breaker'.state = "half_open"
      BY <2>2 DEF Breakers
    <3>2. calls' \in [Calls -> {"idle", "call", "probe"}] /\ calls'[c] # "idle"
      BY <1>1, <2>2 DEF BreakerTypeOK
    <3> QED  BY <1>1, <1>2, <3>1, <3>2 DEF Admit, BreakerInv, BreakerTypeOK
  <2> QED  BY <1>1, <1>2, <2>1, <2>2, TransitionToType DEF Admit
<1>3. ASSUME NEW c \in Calls, OnSuccess(c)
      PROVE  BreakerInv'
  <2> DEFINE b == [breaker EXCEPT !.failures = 0, !.successes = @ + 1,
                                  !.inFlight = IF @ > 0 THEN @ - 1 ELSE @]
             a == [breaker EXCEPT !.failures = 0, !.successes = 0]
  <2>1. (IF breaker.inFlight > 0 THEN breaker.inFlight - 1 ELSE breaker.inFlight) = 0
    BY <1>1 DEF BreakerInv, Breakers
  <2>2. b \in Breakers /\ b.inFlight = 0
    <3>1. breaker.successes + 1 \in Nat
      BY <1>1 DEF Breakers
    <3>2. b = [breaker EXCEPT !.failures = 0, !.successes = breaker.successes + 1, !.inFlight = 0]
      BY Zenon, <2>1
    <3> HIDE DEF b
    <3> QED  BY Zenon, <1>1, <3>1, <3>2 DEF Breakers
  <2>3. breaker.state # "half_open" => a \in Breakers /\ a.inFlight = 0
    BY Zenon, <1>1 DEF Breakers, BreakerInv
  <2>4. TransitionTo(b, "closed") \in Breakers /\ TransitionTo(b, "closed").inFlight = 0
    <3> HIDE DEF b
    <3> QED  BY <2>2, TransitionToType
  <2>5. PICK d \in Breakers : d.inFlight = 0 /\ Enter(d, Noted(TRUE), c)
    BY Zenon, <1>3, <2>2, <2>3, <2>4 DEF OnSuccess
  <2> QED  BY Zenon, <2>5, EnterStep
<1>4. ASSUME NEW c \in Calls, OnFailure(c)
      PROVE  BreakerInv'
  <2> DEFINE b == [breaker EXCEPT !.failures = IF @ < FailureThreshold THEN @ + 1 ELSE @, !.successes = 0]
  <2>1. (IF breaker.failures < FailureThreshold THEN breaker.failures + 1 ELSE breaker.failures) \in Nat
    BY <1>1 DEF Breakers
  <2>2. b \in Breakers /\ b.state = breaker.state /\ b.inFlight = breaker.inFlight
    BY Zenon, <1>1, <2>1 DEF Breakers
  <2>3. TransitionTo(b, "open") \in Breakers /\ TransitionTo(b, "open").inFlight = 0
    <3> HIDE DEF b
    <3> QED  BY <2>2, TransitionToType
  <2>4. b.state # "half_open" => b.inFlight = 0
    BY <2>2 DEF BreakerInv
  <2>5. Enter(TransitionTo(b, "open"), Noted(FALSE), c) \/ (b.state # "half_open" /\ Enter(b, Noted(FALSE), c))
    BY Zenon, <1>4 DEF OnFailure
  <2> HIDE DEF b
  <2> QED  BY Zenon, <2>2, <2>3, <2>4, <2>5, EnterStep
<1>5. CASE GetState
  BY <1>1, <1>5, TransitionToType DEF GetState, BreakerInv, BreakerTypeOK
<1>6. CASE ResetTimeoutPasses
  <2>1. breaker' \in Breakers /\ breaker'.inFlight = breaker.inFlight /\ breaker.inFlight = 0
    BY Zenon, <1>1, <1>6 DEF ResetTimeoutPasses, Breakers, BreakerInv
  <2> QED  BY <1>6, <2>1 DEF ResetTimeoutPasses, BreakerInv, BreakerTypeOK
<1>7. CASE WindowPasses
  <2>1. Tail(window) \in Seq(BOOLEAN) /\ Len(Tail(window)) <= MaxSeen
    BY <1>1, <1>7, BreakerAssumption DEF WindowPasses, BreakerTypeOK
  <2> QED  BY <1>7, <2>1 DEF WindowPasses, BreakerInv, BreakerTypeOK
<1>8. CASE UNCHANGED breakerVars
  BY <1>8 DEF breakerVars, BreakerInv, BreakerTypeOK
<1> QED  BY <1>2, <1>3, <1>4, <1>5, <1>6, <1>7, <1>8 DEF BreakerNext

(* A breaker that counts a probe as under way has a call that is: its      *)
(* return frees the place, so canExecute never refuses for good.           *)
THEOREM BreakerProbes == BreakerSpec => []ProbesReturn
<1>1. BreakerInv => ProbesReturn
  <2> SUFFICES ASSUME BreakerInv PROVE ProbesReturn
    OBVIOUS
  <2> DEFINE S == {c \in Calls : calls[c] # "idle"}
  <2>1. IsFiniteSet(S) /\ Cardinality(S) \in Nat
    BY BreakerAssumption, FS_Subset, FS_CardinalityType
  <2>2. S # {} => Cardinality(S) # 0
    BY <2>1, FS_EmptySet
  <2>3. breaker.inFlight # 0 => breaker.inFlight = 1 /\ S # {}
    BY DEF BreakerInv
  <2> QED  BY <2>1, <2>2, <2>3 DEF ProbesReturn
<1> QED  BY BreakerInvInit, BreakerInvStep, <1>1, PTL DEF BreakerSpec

-----------------------------------------------------------------------------
(* Approvals *)

(* The fields of a request that the votes are about.                       *)
SameVotes(a) ==
  /\ approvals'[a].approvalsReceived = approvals[a].approvalsReceived
  /\ approvals'[a].rejectionsReceived = approvals[a].rejectionsReceived
  /\ votes'[a] = votes[a]

(* A resolved request stays as it is, and its execution too.               *)
StaysResolved ==
  \A a \in Approvals : Resolved(a) =>
    /\ approvals'[a].status = approvals[a].status
    /\ a \in cancelled' => a \in cancelled

LEMMA ApprovalInvInit == ApprovalInit => ApprovalInv
<1> SUFFICES ASSUME ApprovalInit PROVE ApprovalInv
  OBVIOUS
<1>1. ApprovalTypeOK
  BY DEF ApprovalInit, ApprovalTypeOK, ApprovalRow
<1>2. ASSUME NEW a \in MultiParty
      PROVE  /\ Cardinality(YesVoters(a)) = 0 /\ Cardinality(NoVoters(a)) = 0
             /\ approvals[a].approvalsReceived = 0 /\ approvals[a].rejectionsReceived = 0
             /\ 0 < Quorum[a] /\ 0 < RejectionsRequired(a)
  <2>1. a \in Approvals /\ Quorum[a] \in Nat /\ Quorum[a] > 0 /\ Quorum[a] <= Cardinality(Approvers)
    BY ApprovalAssumption DEF MultiParty
  <2>2. Cardinality(Approvers) \in Nat
    BY ApprovalAssumption, FS_CardinalityType
  <2>3. YesVoters(a) = {} /\ NoVoters(a) = {}
    BY <2>1 DEF ApprovalInit, YesVoters, NoVoters
  <2>4. approvals[a].approvalsReceived = 0 /\ approvals[a].rejectionsReceived = 0
    BY <2>1 DEF ApprovalInit
  <2>5. 0 < RejectionsRequired(a)
    BY <2>1, <2>2 DEF RejectionsRequired
  <2>6. Cardinality(YesVoters(a)) = 0 /\ Cardinality(NoVoters(a)) = 0
    BY <2>3, FS_EmptySet
  <2> QED  BY <2>1, <2>4, <2>5, <2>6
<1>3. ASSUME NEW a \in MultiParty
      PROVE  /\ Cardinality(YesVoters(a)) <= approvals[a].approvalsReceived
             /\ Cardinality(NoVoters(a)) <= approvals[a].rejectionsReceived
             /\ approvals[a].approvalsReceived < Quorum[a]
             /\ approvals[a].rejectionsReceived < RejectionsRequired(a)
  BY <1>2
<1> QED  BY <1>1, <1>3 DEF ApprovalInv

(* Steps that touch no vote: the invariant holds if none is reopened.      *)
LEMMA VotesUntouched ==
  ASSUME ApprovalInv, ApprovalTypeOK', \A a \in Approvals : SameVotes(a),
         \A a \in Approvals : Resolved(a) => Resolved(a)'
  PROVE  ApprovalInv'
<1>1. ASSUME NEW a \in MultiParty
      PROVE  /\ YesVoters(a)' = YesVoters(a) /\ NoVoters(a)' = NoVoters(a)
             /\ SameVotes(a) /\ (Resolved(a) => Resolved(a)')
  BY Zenon DEF MultiParty, YesVoters, NoVoters, SameVotes
<1> QED  BY <1>1 DEF ApprovalInv, SameVotes, RejectionsRequired

(* applyDecision, for a person, a timeout or a sweep.                      *)
LEMMA ApplyStep ==
  ASSUME ApprovalInv, NEW outcome, NEW by \in {"decision", "timeout"}, Apply(outcome, by),
         \A a \in DOMAIN outcome : /\ a \in Approvals /\ Undecided(a)
                                   /\ outcome[a] \in {"approved", "rejected", "expired"}
  PROVE  ApprovalInv' /\ StaysResolved
<1> DEFINE denied == {a \in DOMAIN outcome : outcome[a] \in {"rejected", "expired"}}
           along == UNION {Cascade(a) : a \in {b \in denied : outcome[b] = "rejected"}}
<1>1. denied \subseteq Approvals /\ \A a \in denied : Undecided(a)
  OBVIOUS
<1>2. \A a \in along : a \in Approvals /\ Undecided(a)
  BY DEF Cascade
<1>3. /\ approvals' = [a \in Approvals |->
           IF a \in DOMAIN outcome THEN [approvals[a] EXCEPT !.status = outcome[a], !.by = by]
           ELSE IF a \in along THEN [approvals[a] EXCEPT !.status = "rejected", !.by = by]
           ELSE approvals[a]]
      /\ cancelled' = cancelled \cup (denied \cap blocked) /\ blocked' = blocked \ denied
      /\ UNCHANGED <<tracked, responders, votes>>
  BY Zenon DEF Apply
<1> HIDE DEF denied, along
<1>4. \A a \in Approvals : approvals[a] \in ApprovalRow
  BY DEF ApprovalInv, ApprovalTypeOK
<1>5. ASSUME NEW a \in Approvals
      PROVE  /\ approvals'[a] \in ApprovalRow /\ SameVotes(a)
             /\ Undecided(a) \/ approvals'[a] = approvals[a]
             /\ Resolved(a) => Resolved(a)'
  <2>1. CASE a \in DOMAIN outcome
    BY Zenon, <1>3, <1>4, <2>1 DEF ApprovalRow, SameVotes, Undecided, Resolved
  <2>2. CASE a \notin DOMAIN outcome /\ a \in along
    BY Zenon, <1>2, <1>3, <1>4, <2>2 DEF ApprovalRow, SameVotes, Undecided, Resolved
  <2>3. CASE a \notin DOMAIN outcome /\ a \notin along
    BY Zenon, <1>3, <1>4, <2>3 DEF SameVotes, Resolved
  <2> QED  BY <2>1, <2>2, <2>3
<1>6. ApprovalTypeOK'
  BY Zenon, <1>1, <1>3, <1>5 DEF ApprovalInv, ApprovalTypeOK
<1>7. ApprovalInv'
  BY <1>5, <1>6, VotesUntouched
<1>8. StaysResolved
  BY Zenon, <1>1, <1>3, <1>5 DEF StaysResolved, Resolved, Undecided
<1> QED  BY <1>7, <1>8

(* One vote: the number stored and the set of voters grow together.        *)
LEMMA VoteStep ==
  ASSUME ApprovalInv, NEW a \in Approvals, NEW who \in Approvers, NEW yes \in BOOLEAN,
         Vote(a, who, yes)
  PROVE  ApprovalInv' /\ StaysResolved
<1> DEFINE row == approvals[a]
           counted == IF yes THEN [row EXCEPT !.approvalsReceived = @ + 1]
                      ELSE [row EXCEPT !.rejectionsReceived = @ + 1]
           status == IF yes /\ counted.approvalsReceived >= Quorum[a] THEN "approved"
                     ELSE IF ~yes /\ counted.rejectionsReceived >= RejectionsRequired(a) THEN "rejected"
                     ELSE "requested"
           new == [counted EXCEPT !.status = status, !.by = IF status = "requested" THEN @ ELSE "votes"]
<1>1. /\ a \in MultiParty /\ Undecided(a) /\ row \in ApprovalRow
      /\ approvals' = [approvals EXCEPT ![a] = new]
      /\ responders' = [responders EXCEPT ![a] = IF a \in tracked THEN @ \cup {who} ELSE @]
      /\ votes' = [votes EXCEPT ![a] = @ \cup {<<who, yes>>}]
      /\ UNCHANGED <<blocked, cancelled, tracked>>
  BY DEF Vote, ApprovalInv, ApprovalTypeOK
<1>2. row.approvalsReceived \in Nat /\ row.rejectionsReceived \in Nat
  BY <1>1 DEF ApprovalRow
<1>3. /\ counted \in ApprovalRow
      /\ counted.approvalsReceived = IF yes THEN row.approvalsReceived + 1 ELSE row.approvalsReceived
      /\ counted.rejectionsReceived = IF yes THEN row.rejectionsReceived ELSE row.rejectionsReceived + 1
  <2>1. row.approvalsReceived + 1 \in Nat /\ row.rejectionsReceived + 1 \in Nat
    BY <1>2
  <2>2. CASE yes
    BY <1>1, <2>1, <2>2 DEF ApprovalRow
  <2>3. CASE ~yes
    BY <1>1, <2>1, <2>3 DEF ApprovalRow
  <2> QED  BY <2>2, <2>3
<1>4. /\ new \in ApprovalRow /\ new.status = status
      /\ new.approvalsReceived = counted.approvalsReceived
      /\ new.rejectionsReceived = counted.rejectionsReceived
  <2> HIDE DEF counted
  <2>1. status \in {"approved", "rejected", "requested"}
    OBVIOUS
  <2> HIDE DEF status
  <2> QED  BY Zenon, <1>3, <2>1 DEF ApprovalRow
<1>5. ApprovalTypeOK'
  <2> HIDE DEF new
  <2>1. approvals' \in [Approvals -> ApprovalRow]
    BY <1>1, <1>4 DEF ApprovalInv, ApprovalTypeOK
  <2>2. responders' \in [Approvals -> SUBSET Approvers] /\ votes' \in [Approvals -> SUBSET Ballots]
    BY <1>1 DEF ApprovalInv, ApprovalTypeOK, Ballots
  <2> QED  BY <1>1, <2>1, <2>2 DEF ApprovalInv, ApprovalTypeOK
<1>6. /\ approvals'[a] = new /\ votes'[a] = votes[a] \cup {<<who, yes>>}
      /\ \A b \in Approvals \ {a} : approvals'[b] = approvals[b] /\ votes'[b] = votes[b]
  <2> HIDE DEF new
  <2> QED  BY <1>1 DEF ApprovalInv, ApprovalTypeOK
<1>7. /\ \/ YesVoters(a)' = YesVoters(a)
         \/ yes /\ YesVoters(a)' = YesVoters(a) \cup {who}
      /\ \/ NoVoters(a)' = NoVoters(a)
         \/ ~yes /\ NoVoters(a)' = NoVoters(a) \cup {who}
  <2>1. CASE yes
    <3>1. votes'[a] = votes[a] \cup {<<who, TRUE>>}
      BY <1>6, <2>1
    <3>2. \A w \in Approvers : <<w, TRUE>> \in votes'[a] <=> (<<w, TRUE>> \in votes[a] \/ w = who)
      BY <3>1
    <3>3. \A w \in Approvers : <<w, FALSE>> \in votes'[a] <=> <<w, FALSE>> \in votes[a]
      BY <3>1
    <3>4. YesVoters(a)' = YesVoters(a) \cup {who}
      BY Zenon, <3>2 DEF YesVoters
    <3>5. NoVoters(a)' = NoVoters(a)
      BY Zenon, <3>3 DEF NoVoters
    <3> QED  BY <2>1, <3>4, <3>5
  <2>2. CASE ~yes
    <3>1. votes'[a] = votes[a] \cup {<<who, FALSE>>}
      BY Zenon, <1>6, <2>2
    <3>2. \A w \in Approvers : <<w, FALSE>> \in votes'[a] <=> (<<w, FALSE>> \in votes[a] \/ w = who)
      BY <3>1
    <3>3. \A w \in Approvers : <<w, TRUE>> \in votes'[a] <=> <<w, TRUE>> \in votes[a]
      BY <3>1
    <3>4. NoVoters(a)' = NoVoters(a) \cup {who}
      BY Zenon, <3>2 DEF NoVoters
    <3>5. YesVoters(a)' = YesVoters(a)
      BY Zenon, <3>3 DEF YesVoters
    <3> QED  BY <2>2, <3>4, <3>5
  <2> QED  BY <2>1, <2>2
<1>8. ASSUME NEW b \in MultiParty
      PROVE  /\ Cardinality(YesVoters(b)') <= approvals'[b].approvalsReceived
             /\ Cardinality(NoVoters(b)') <= approvals'[b].rejectionsReceived
             /\ ~Resolved(b)' => /\ approvals'[b].approvalsReceived < Quorum[b]
                                 /\ approvals'[b].rejectionsReceived < RejectionsRequired(b)
  <2>1. CASE b # a
    <3>1. approvals'[b] = approvals[b] /\ YesVoters(b)' = YesVoters(b)
          /\ NoVoters(b)' = NoVoters(b)
      BY Zenon, <1>6, <2>1 DEF MultiParty, YesVoters, NoVoters
    <3> QED  BY <3>1 DEF ApprovalInv, Resolved
  <2>2. CASE b = a
    <3>1. /\ Cardinality(YesVoters(a)) <= row.approvalsReceived
          /\ Cardinality(NoVoters(a)) <= row.rejectionsReceived
          /\ row.approvalsReceived < Quorum[a] /\ row.rejectionsReceived < RejectionsRequired(a)
      BY <1>1 DEF ApprovalInv, Undecided, Resolved
    <3> HIDE DEF row, counted, new
    <3>2. Cardinality(YesVoters(a)') <= counted.approvalsReceived
      <4>1. IsFiniteSet(YesVoters(a))
        BY Zenon, ApprovalAssumption, FS_Subset DEF YesVoters
      <4>2. Cardinality(YesVoters(a)) \in Nat
        BY <4>1, FS_CardinalityType
      <4>3. Cardinality(YesVoters(a) \cup {who}) <= Cardinality(YesVoters(a)) + 1
        BY Zenon, <4>1, AddedElement
      <4>4. CASE YesVoters(a)' = YesVoters(a)
        BY <1>2, <1>3, <3>1, <4>2, <4>4
      <4>5. CASE yes /\ YesVoters(a)' = YesVoters(a) \cup {who}
        <5>1. Cardinality(YesVoters(a)') \in Nat
          BY <4>1, <4>5, FS_AddElement, FS_CardinalityType
        <5> QED  BY <1>2, <1>3, <3>1, <4>2, <4>3, <4>5, <5>1
      <4> QED  BY <1>7, <4>4, <4>5
    <3>3. Cardinality(NoVoters(a)') <= counted.rejectionsReceived
      <4>1. IsFiniteSet(NoVoters(a))
        BY Zenon, ApprovalAssumption, FS_Subset DEF NoVoters
      <4>2. Cardinality(NoVoters(a)) \in Nat
        BY <4>1, FS_CardinalityType
      <4>3. Cardinality(NoVoters(a) \cup {who}) <= Cardinality(NoVoters(a)) + 1
        BY Zenon, <4>1, AddedElement
      <4>4. CASE NoVoters(a)' = NoVoters(a)
        BY <1>2, <1>3, <3>1, <4>2, <4>4
      <4>5. CASE ~yes /\ NoVoters(a)' = NoVoters(a) \cup {who}
        <5>1. Cardinality(NoVoters(a)') \in Nat
          BY <4>1, <4>5, FS_AddElement, FS_CardinalityType
        <5> QED  BY <1>2, <1>3, <3>1, <4>2, <4>3, <4>5, <5>1
      <4> QED  BY <1>7, <4>4, <4>5
    <3>4. Quorum[a] \in Int /\ RejectionsRequired(a) \in Int
      BY ApprovalAssumption, FS_CardinalityType DEF RejectionsRequired
    <3>5. status \notin {"approved", "rejected", "expired"} =>
            counted.approvalsReceived < Quorum[a] /\ counted.rejectionsReceived < RejectionsRequired(a)
      BY <1>2, <1>3, <3>1, <3>4
    <3> QED  BY <1>4, <1>6, <2>2, <3>2, <3>3, <3>5 DEF Resolved
  <2> QED  BY <2>1, <2>2
<1>9. ApprovalInv'
  BY <1>5, <1>8 DEF ApprovalInv, RejectionsRequired
<1>10. StaysResolved
  BY <1>1, <1>6 DEF StaysResolved, Resolved, Undecided
<1> QED  BY <1>9, <1>10

LEMMA ApprovalInvStep ==
  ASSUME ApprovalInv, [ApprovalNext]_approvalVars
  PROVE  ApprovalInv' /\ StaysResolved
<1>1. ASSUME NEW a \in Approvals, CreateRequest(a) \/ BecomeOverdue(a)
      PROVE  ApprovalInv' /\ StaysResolved
  <2>1. \A b \in Approvals : approvals[b] \in ApprovalRow
    BY DEF ApprovalInv, ApprovalTypeOK
  <2>2. PICK row \in ApprovalRow :
          /\ approvals' = [approvals EXCEPT ![a] = row]
          /\ row.approvalsReceived = approvals[a].approvalsReceived
          /\ row.rejectionsReceived = approvals[a].rejectionsReceived
          /\ Resolved(a) => row.status = approvals[a].status
    <3>1. CASE CreateRequest(a)
      <4>1. [approvals[a] EXCEPT !.status = "requested"] \in ApprovalRow
        BY <2>1 DEF ApprovalRow
      <4> QED  BY Zenon, <2>1, <3>1, <4>1 DEF CreateRequest, Resolved, ApprovalRow
    <3>2. CASE BecomeOverdue(a)
      <4>1. [approvals[a] EXCEPT !.overdue = TRUE] \in ApprovalRow
        BY Zenon, <2>1 DEF ApprovalRow
      <4> QED  BY Zenon, <2>1, <3>2, <4>1 DEF BecomeOverdue, ApprovalRow
    <3> QED  BY <1>1, <3>1, <3>2
  <2>3. /\ approvals' \in [Approvals -> ApprovalRow]
        /\ \A b \in Approvals : SameVotes(b) /\ (Resolved(b) => approvals'[b].status = approvals[b].status)
    BY <1>1, <2>2 DEF CreateRequest, BecomeOverdue, ApprovalInv, ApprovalTypeOK, SameVotes
  <2>4. ApprovalTypeOK'
    BY <1>1, <2>3 DEF CreateRequest, BecomeOverdue, ApprovalInv, ApprovalTypeOK
  <2>5. \A b \in Approvals : Resolved(b) => Resolved(b)'
    BY <2>3 DEF Resolved
  <2> QED
    BY <1>1, <2>3, <2>4, <2>5, VotesUntouched DEF StaysResolved, CreateRequest, BecomeOverdue
<1>2. ASSUME ApprovalTypeOK', UNCHANGED <<approvals, cancelled, votes>>
      PROVE  ApprovalInv' /\ StaysResolved
  BY <1>2, VotesUntouched DEF SameVotes, Resolved, StaysResolved
<1>3. ASSUME NEW a \in Approvals, Unblock(a)
      PROVE  ApprovalInv' /\ StaysResolved
  BY <1>2, <1>3 DEF Unblock, ApprovalInv, ApprovalTypeOK
<1>4. CASE RestartService
  BY <1>2, <1>4 DEF RestartService, ApprovalInv, ApprovalTypeOK
<1>5. CASE UNCHANGED approvalVars
  BY <1>2, <1>5 DEF approvalVars, ApprovalInv, ApprovalTypeOK
<1>6. ASSUME NEW a \in Approvals, ExecuteTimeout(a)
      PROVE  ApprovalInv' /\ StaysResolved
  BY <1>6, ApplyStep DEF ExecuteTimeout, TimeoutStatus
<1>7. ASSUME NEW a \in Approvals, NEW status \in {"approved", "rejected"}, ApplyDecision(a, status)
      PROVE  ApprovalInv' /\ StaysResolved
  BY <1>7, ApplyStep DEF ApplyDecision
<1>8. CASE Sweep
  BY <1>8, ApplyStep DEF Sweep, TimeoutStatus
<1> QED
  BY <1>1, <1>3, <1>4, <1>5, <1>6, <1>7, <1>8, VoteStep DEF ApprovalNext

(* A request is resolved once: a late decision, vote, timeout or sweep, or *)
(* the cascade of another rejection, changes neither it nor, by            *)
(* cancelling it, its execution.                                           *)
THEOREM ApprovalsResolvedOnce == ApprovalSpec => ResolvedOnce
<1>1. ApprovalInv /\ [ApprovalNext]_approvalVars => [StaysResolved]_approvalVars
  BY ApprovalInvStep
<1>2. ApprovalSpec => []ApprovalInv
  BY ApprovalInvInit, ApprovalInvStep, PTL DEF ApprovalSpec
<1> QED  BY <1>1, <1>2, PTL DEF ApprovalSpec, ResolvedOnce, StaysResolved

(* When each of the approvers has voted a multi-party request is resolved, *)
(* also when the service was restarted in between and some voted twice.    *)
THEOREM FullVote == ApprovalSpec => []FullVoteDecides
<1>1. ApprovalInv => FullVoteDecides
  <2> SUFFICES ASSUME ApprovalInv, NEW a \in MultiParty, {v[1] : v \in votes[a]} = Approvers,
                      ~Resolved(a)
               PROVE  FALSE
    BY DEF FullVoteDecides
  <2>1. a \in Approvals /\ votes[a] \subseteq Ballots
    BY DEF MultiParty, ApprovalInv, ApprovalTypeOK
  <2>2. YesVoters(a) \cup NoVoters(a) = Approvers
    <3> SUFFICES ASSUME NEW w \in Approvers
                 PROVE  w \in YesVoters(a) \cup NoVoters(a)
      BY Zenon DEF YesVoters, NoVoters
    <3>1. PICK v \in votes[a] : w = v[1]
      OBVIOUS
    <3>2. v[2] \in BOOLEAN /\ v = <<w, v[2]>>
      BY <2>1, <3>1 DEF Ballots
    <3>3. <<w, TRUE>> \in votes[a] \/ <<w, FALSE>> \in votes[a]
      BY Zenon, <3>1, <3>2
    <3> QED  BY <3>3 DEF YesVoters, NoVoters
  <2>3. IsFiniteSet(YesVoters(a)) /\ IsFiniteSet(NoVoters(a))
    BY Zenon, ApprovalAssumption, FS_Subset DEF YesVoters, NoVoters
  <2>4. Cardinality(Approvers) <= Cardinality(YesVoters(a)) + Cardinality(NoVoters(a))
    BY <2>2, <2>3, UnionBound
  <2>5. /\ Cardinality(YesVoters(a)) < Quorum[a]
        /\ Cardinality(NoVoters(a)) < RejectionsRequired(a)
    <3>1. /\ Cardinality(YesVoters(a)) \in Nat /\ Cardinality(NoVoters(a)) \in Nat
          /\ approvals[a].approvalsReceived \in Nat /\ approvals[a].rejectionsReceived \in Nat
          /\ Quorum[a] \in Int /\ RejectionsRequired(a) \in Int
      BY <2>1, <2>3, ApprovalAssumption, FS_CardinalityType
         DEF ApprovalInv, ApprovalTypeOK, ApprovalRow, RejectionsRequired
    <3> QED  BY <3>1 DEF ApprovalInv
  <2>6. Cardinality(Approvers) \in Nat /\ Quorum[a] \in Nat
    BY <2>1, ApprovalAssumption, FS_CardinalityType
  <2> QED  BY <2>3, <2>4, <2>5, <2>6, FS_CardinalityType DEF RejectionsRequired
<1>2. ApprovalSpec => []ApprovalInv
  BY ApprovalInvInit, ApprovalInvStep, PTL DEF ApprovalSpec
<1> QED  BY <1>1, <1>2, PTL

-----------------------------------------------------------------------------
(* The bulkhead *)

(* The calls that keep a place, with the calls at ss.                      *)
Places(ss) == {c \in PlaneCalls : ss[c] \in {"running", "late", "returned", "thrown"}}

(* Queue w holds the calls that wait, each of them once.                   *)
QueueOf(w, ss) ==
  /\ w \in Seq(PlaneCalls)
  /\ \A i \in 1..Len(w) : ss[w[i]] = "queued"
  /\ \A c \in PlaneCalls : ss[c] = "queued" => \E i \in 1..Len(w) : w[i] = c
  /\ \A i, j \in 1..Len(w) : w[i] = w[j] => i = j

LEMMA SameSequence ==
  ASSUME NEW S, NEW T, NEW w \in Seq(S), \A i \in 1..Len(w) : w[i] \in T
  PROVE  w \in Seq(T)
<1>1. Len(w) \in Nat /\ w \in [1..Len(w) -> S]
  BY LenProperties
<1>2. w \in [1..Len(w) -> T]
  BY <1>1
<1> QED  BY <1>1, <1>2

(* The inductive invariant in terms of sets.                               *)
BulkheadSets ==
  /\ limit \in Limits /\ queueSize \in QueueSizes /\ activeCalls \in Nat
  /\ sends \in [PlaneCalls -> SendStates] /\ due \subseteq PlaneCalls
  /\ QueueOf(waiting, sends)
  /\ activeCalls = Cardinality(Places(sends))
  /\ waiting # <<>> => activeCalls >= limit

LEMMA BulkheadInvSplit == BulkheadInv <=> BulkheadSets
<1> DEFINE T == {c \in PlaneCalls : sends[c] = "queued"}
<1>1. waiting \in Seq(T) <=> waiting \in Seq(PlaneCalls) /\ \A i \in 1..Len(waiting) : waiting[i] \in T
  <2>1. ASSUME waiting \in Seq(T)
        PROVE  waiting \in Seq(PlaneCalls) /\ \A i \in 1..Len(waiting) : waiting[i] \in T
    <3>1. T \subseteq PlaneCalls
      OBVIOUS
    <3> HIDE DEF T
    <3> QED  BY <2>1, <3>1, SeqMonotonic, ElementOfSeq
  <2>2. ASSUME waiting \in Seq(PlaneCalls), \A i \in 1..Len(waiting) : waiting[i] \in T
        PROVE  waiting \in Seq(T)
    <3> HIDE DEF T
    <3> QED  BY <2>2, SameSequence
  <2> QED  BY <2>1, <2>2
<1>2. waiting \in Seq(PlaneCalls) =>
        (\A i \in 1..Len(waiting) : waiting[i] \in T) <=> (\A i \in 1..Len(waiting) : sends[waiting[i]] = "queued")
  BY ElementOfSeq
<1>3. waiting \in Seq(PlaneCalls) => DOMAIN waiting = 1..Len(waiting)
  BY LenProperties
<1>4. BulkheadTypeOK <=> /\ limit \in Limits /\ queueSize \in QueueSizes /\ activeCalls \in Nat
                         /\ sends \in [PlaneCalls -> SendStates] /\ due \subseteq PlaneCalls
                         /\ waiting \in Seq(T)
  BY DEF BulkheadTypeOK
<1> HIDE DEF T
<1> QED  BY <1>1, <1>2, <1>3, <1>4 DEF BulkheadInv, BulkheadSets, PlacesAreUsed, QueueOf, Places, Placed

LEMMA BulkheadInvSplitNext == BulkheadInv' <=> BulkheadSets'
BY BulkheadInvSplit, PTL

LEMMA PlacesFinite ==
  ASSUME NEW ss
  PROVE  IsFiniteSet(Places(ss)) /\ Cardinality(Places(ss)) \in Nat
<1>1. Places(ss) \in SUBSET PlaneCalls
  BY DEF Places
<1>2. IsFiniteSet(Places(ss))
  BY <1>1, FS_Subset, BulkheadAssumption
<1> QED  BY <1>2, FS_CardinalityType

(* The rest of a queue after its first t calls.                            *)
LEMMA QueueTail ==
  ASSUME NEW w, NEW ss \in [PlaneCalls -> SendStates], QueueOf(w, ss), NEW t \in 0..Len(w),
         NEW tt \in [PlaneCalls -> SendStates],
         \A c \in PlaneCalls : tt[c] = "queued" <=> ss[c] = "queued" /\ c \notin {w[i] : i \in 1..t}
  PROVE  /\ QueueOf(SubSeq(w, t + 1, Len(w)), tt)
         /\ Len(SubSeq(w, t + 1, Len(w))) = Len(w) - t
<1> DEFINE v == SubSeq(w, t + 1, Len(w))
           m == Len(w)
<1>1. w \in Seq(PlaneCalls) /\ m \in Nat /\ \A i \in 1..m : w[i] \in PlaneCalls
  BY LenProperties, ElementOfSeq DEF QueueOf
<1>2. t \in Nat /\ t <= m /\ t + 1 \in Int /\ m \in Int /\ \A i \in (t + 1)..m : w[i] \in PlaneCalls
  BY <1>1
<1>3. /\ v \in Seq(PlaneCalls)
      /\ Len(v) = IF t + 1 <= m THEN m - (t + 1) + 1 ELSE 0
      /\ \A i \in 1..(m - (t + 1) + 1) : v[i] = w[(t + 1) + i - 1]
  BY <1>2, SubSeqProperties
<1> HIDE DEF v, m
<1>4. Len(v) = m - t
  BY <1>2, <1>3
<1>5. \A i \in 1..Len(v) : v[i] = w[t + i] /\ t + i \in 1..m
  BY <1>1, <1>2, <1>3, <1>4
<1>6. \A i, j \in 1..m : w[i] = w[j] => i = j
  BY DEF QueueOf, m
<1>7. ASSUME NEW i \in 1..Len(v)
      PROVE  tt[v[i]] = "queued"
  <2>1. w[t + i] \in PlaneCalls /\ ss[w[t + i]] = "queued"
    BY <1>1, <1>5 DEF QueueOf, m
  <2>2. ASSUME NEW j \in 1..t PROVE w[t + i] # w[j]
    <3>1. j \in 1..m /\ t + i \in 1..m /\ j # t + i
      BY <1>1, <1>2, <1>4, <1>5
    <3> QED  BY <1>6, <3>1
  <2> QED  BY <1>5, <2>1, <2>2
<1>8. ASSUME NEW c \in PlaneCalls, tt[c] = "queued"
      PROVE  \E i \in 1..Len(v) : v[i] = c
  <2>1. ss[c] = "queued" /\ c \notin {w[i] : i \in 1..t}
    BY <1>8
  <2>2. PICK k \in 1..m : w[k] = c
    BY <2>1 DEF QueueOf, m
  <2>3. k \notin 1..t
    BY <2>1, <2>2
  <2>4. k - t \in 1..Len(v) /\ t + (k - t) = k
    BY <1>1, <1>2, <1>4, <2>3
  <2>5. v[k - t] = w[k]
    BY <1>5, <2>4
  <2> QED  BY Zenon, <2>2, <2>4, <2>5
<1>9. ASSUME NEW i \in 1..Len(v), NEW j \in 1..Len(v), v[i] = v[j]
      PROVE  i = j
  <2>1. t + i = t + j
    BY <1>5, <1>6, <1>9
  <2> QED  BY <1>2, <2>1
<1>10. QueueOf(v, tt)
  BY <1>3, <1>7, <1>8, <1>9 DEF QueueOf
<1> QED  BY <1>4, <1>10 DEF v, m

(* processQueue takes t calls from the queue.  Those that are in time get  *)
(* a place, and it leaves a queue only where no place is free.             *)
LEMMA ProcessQueueFacts ==
  ASSUME NEW n \in Nat, NEW max \in Limits, NEW ss \in [PlaneCalls -> SendStates],
         due \subseteq PlaneCalls, QueueOf(waiting, ss),
         n = Cardinality(Places(ss)), ProcessQueue(n, max, ss)
  PROVE  /\ activeCalls' \in Nat /\ sends' \in [PlaneCalls -> SendStates]
         /\ QueueOf(waiting', sends')
         /\ activeCalls' = Cardinality(Places(sends'))
         /\ waiting' # <<>> => activeCalls' >= max
<1> DEFINE room == IF n < max THEN max - n ELSE 0
           InTime(k) == {waiting[i] : i \in 1..k} \ due
           enough == {k \in 0..Len(waiting) : Cardinality(InTime(k)) = room}
           taken == IF enough = {} THEN Len(waiting) ELSE Min(enough)
           heads == {waiting[i] : i \in 1..taken}
<1>1. /\ waiting' = SubSeq(waiting, taken + 1, Len(waiting))
      /\ activeCalls' = n + Cardinality(heads \ due)
      /\ \E how \in [heads \ due -> Started] :
           sends' = [c \in PlaneCalls |-> IF c \notin heads THEN ss[c]
                                          ELSE IF c \in due THEN "refused" ELSE how[c]]
  BY Zenon DEF ProcessQueue
<1>2. /\ waiting \in Seq(PlaneCalls) /\ Len(waiting) \in Nat
      /\ \A i \in 1..Len(waiting) : waiting[i] \in PlaneCalls /\ ss[waiting[i]] = "queued"
  BY Zenon, LenProperties, ElementOfSeq DEF QueueOf
<1>3. taken \in 0..Len(waiting) /\ (taken < Len(waiting) => Cardinality(heads \ due) = room)
  <2>1. CASE enough = {}
    BY <1>2, <2>1
  <2>2. CASE enough # {}
    <3>1. enough \subseteq Nat
      BY <1>2
    <3>2. \E k \in enough : \A j \in enough : k <= j
      BY Zenon, <2>2, <3>1, LeastNumber
    <3> HIDE DEF enough
    <3>3. Min(enough) \in enough
      BY <3>2 DEF Min
    <3>4. taken \in enough
      BY <2>2, <3>3
    <3> USE DEF enough
    <3> QED  BY Zenon, <3>4
  <2> QED  BY Zenon, <2>1, <2>2
<1>4. max \in Nat /\ IsFiniteSet(PlaneCalls)
  BY BulkheadAssumption
<1>5. room \in Nat /\ n + room >= max
  BY <1>4
<1> HIDE DEF room, InTime, enough, taken
<1>6. heads \in SUBSET PlaneCalls /\ \A c \in heads : ss[c] = "queued"
  <2>1. \A i \in 1..taken : i \in 1..Len(waiting)
    BY <1>2, <1>3
  <2> QED  BY <1>2, <2>1
<1> HIDE DEF heads
<1>7. PICK how \in [heads \ due -> Started] :
        sends' = [c \in PlaneCalls |-> IF c \notin heads THEN ss[c]
                                       ELSE IF c \in due THEN "refused" ELSE how[c]]
  BY Zenon, <1>1
<1>8. /\ sends' \in [PlaneCalls -> SendStates]
      /\ \A c \in PlaneCalls : sends'[c] = "queued" <=> ss[c] = "queued" /\ c \notin heads
  <2>1. \A c \in heads \ due : how[c] \in {"running", "thrown"}
    BY DEF Started
  <2> QED  BY <1>6, <1>7, <2>1 DEF SendStates
<1>9. QueueOf(waiting', sends') /\ Len(waiting') = Len(waiting) - taken
  <2>1. /\ sends' \in [PlaneCalls -> SendStates]
        /\ \A c \in PlaneCalls : sends'[c] = "queued" <=> ss[c] = "queued" /\ c \notin {waiting[i] : i \in 1..taken}
    BY Zenon, <1>8 DEF heads
  <2>2. taken \in 0..Len(waiting) /\ waiting' = SubSeq(waiting, taken + 1, Len(waiting))
    BY Zenon, <1>1, <1>3
  <2> QED  BY Zenon, <2>1, <2>2, QueueTail
<1>10. Places(sends') = Places(ss) \cup (heads \ due) /\ Places(ss) \cap (heads \ due) = {}
  <2>1. \A c \in heads \ due : how[c] \in {"running", "thrown"}
    BY DEF Started
  <2> QED  BY <1>6, <1>7, <2>1 DEF Places
<1>12. IsFiniteSet(heads \ due) /\ Cardinality(heads \ due) \in Nat
  <2>1. IsFiniteSet(heads \ due)
    BY <1>4, <1>6, FS_Subset
  <2> QED  BY <2>1, FS_CardinalityType
<1>13. Cardinality(Places(sends')) = n + Cardinality(heads \ due)
  <2> DEFINE P == Places(ss)
             H == heads \ due
  <2>1. IsFiniteSet(P) /\ IsFiniteSet(H) /\ Cardinality(P) = n /\ Cardinality(H) \in Nat
    BY <1>12, PlacesFinite
  <2>2. Places(sends') = P \cup H /\ P \cap H = {}
    BY <1>10
  <2> HIDE DEF P, H
  <2>3. Cardinality(P \cup H) = Cardinality(P) + Cardinality(H) - Cardinality(P \cap H)
    BY <2>1, FS_Union
  <2>4. Cardinality(P \cap H) = 0
    BY Zenon, <2>2, FS_EmptySet
  <2>5. Cardinality(Places(sends')) = n + Cardinality(H)
    BY <2>1, <2>2, <2>3, <2>4
  <2> QED  BY <2>5 DEF H
<1>14. waiting' # <<>> => activeCalls' >= max
  <2>1. SUFFICES ASSUME waiting' # <<>> PROVE activeCalls' >= max
    OBVIOUS
  <2>2. Len(waiting') \in Nat \ {0}
    BY Zenon, <1>9, <2>1, EmptySeq DEF QueueOf
  <2>3. taken < Len(waiting)
    BY <1>2, <1>3, <1>9, <2>2
  <2> QED  BY <1>1, <1>3, <1>5, <2>3
<1>15. activeCalls' \in Nat /\ activeCalls' = Cardinality(Places(sends'))
  BY <1>1, <1>12, <1>13
<1> QED  BY <1>8, <1>9, <1>14, <1>15

LEMMA BulkheadInitial == BulkheadInit => BulkheadInv
<1> SUFFICES ASSUME BulkheadInit PROVE BulkheadInv
  OBVIOUS
<1>1. waiting \in Seq(PlaneCalls) /\ Len(waiting) = 0
  BY EmptySeq DEF BulkheadInit
<1>2. sends \in [PlaneCalls -> SendStates] /\ \A c \in PlaneCalls : sends[c] = "new"
  BY DEF BulkheadInit, SendStates
<1>3. QueueOf(waiting, sends)
  BY <1>1, <1>2 DEF QueueOf
<1>4. Places(sends) = {}
  BY <1>2 DEF Places
<1>5. Cardinality(Places(sends)) = 0
  BY <1>4, FS_EmptySet
<1> QED  BY <1>1, <1>2, <1>3, <1>5, BulkheadInvSplit DEF BulkheadInit, BulkheadSets

(* A call that neither waits nor begins to keeps the queue as it is.       *)
LEMMA QueueKept ==
  ASSUME NEW w, NEW ss, NEW tt, QueueOf(w, ss),
         \A c \in PlaneCalls : tt[c] = "queued" <=> ss[c] = "queued"
  PROVE  QueueOf(w, tt)
<1>1. \A i \in 1..Len(w) : w[i] \in PlaneCalls
  BY ElementOfSeq DEF QueueOf
<1> QED  BY <1>1 DEF QueueOf

LEMMA ExecuteStep ==
  ASSUME BulkheadInv, NEW c \in PlaneCalls, Execute(c)
  PROVE  BulkheadInv'
<1>1. /\ limit \in Limits /\ queueSize \in QueueSizes /\ activeCalls \in Nat /\ limit \in Nat
      /\ sends \in [PlaneCalls -> SendStates] /\ due \subseteq PlaneCalls
      /\ QueueOf(waiting, sends)
      /\ activeCalls = Cardinality(Places(sends))
      /\ waiting # <<>> => activeCalls >= limit
  BY Zenon, BulkheadInvSplit, BulkheadAssumption DEF BulkheadSets
<1>2. sends[c] = "new" /\ limit' = limit /\ queueSize' = queueSize /\ due' = due
  BY DEF Execute, config
<1>3. CASE /\ activeCalls < limit /\ activeCalls' = activeCalls + 1
           /\ \E how \in Started : sends' = [sends EXCEPT ![c] = how]
           /\ waiting' = waiting
  <2>1. sends' \in [PlaneCalls -> SendStates]
    BY <1>1, <1>3 DEF SendStates, Started
  <2>2. \A d \in PlaneCalls : sends'[d] = "queued" <=> sends[d] = "queued"
    BY <1>1, <1>2, <1>3 DEF Started
  <2>3. QueueOf(waiting', sends')
    BY Zenon, <1>1, <1>3, <2>2, QueueKept
  <2>4. Places(sends') = Places(sends) \cup {c} /\ c \notin Places(sends)
    BY <1>1, <1>2, <1>3 DEF Places, Started
  <2>5. Cardinality(Places(sends')) = Cardinality(Places(sends)) + 1
    BY Zenon, <2>4, PlacesFinite, FS_AddElement
  <2>6. waiting = <<>>
    BY <1>1, <1>3
  <2> QED  BY <1>1, <1>2, <1>3, <2>1, <2>3, <2>5, <2>6, BulkheadInvSplitNext DEF BulkheadSets
<1>4. CASE /\ activeCalls >= limit /\ waiting' = Append(waiting, c)
           /\ sends' = [sends EXCEPT ![c] = "queued"] /\ activeCalls' = activeCalls
  <2>1. sends' \in [PlaneCalls -> SendStates]
    BY <1>1, <1>4 DEF SendStates
  <2>2. waiting \in Seq(PlaneCalls) /\ Len(waiting) \in Nat
    BY <1>1, LenProperties DEF QueueOf
  <2>3. /\ waiting' \in Seq(PlaneCalls) /\ Len(waiting') = Len(waiting) + 1
        /\ \A i \in 1..Len(waiting) : waiting'[i] = waiting[i]
        /\ waiting'[Len(waiting) + 1] = c
    BY <1>4, <2>2
  <2>4. \A i \in 1..Len(waiting) : waiting[i] \in PlaneCalls /\ sends[waiting[i]] = "queued" /\ waiting[i] # c
    BY <1>1, <1>2, ElementOfSeq DEF QueueOf
  <2>5. \A i \in 1..Len(waiting') : i \in 1..Len(waiting) \/ i = Len(waiting) + 1
    BY <2>2, <2>3
  <2>6. \A d \in PlaneCalls : sends'[d] = IF d = c THEN "queued" ELSE sends[d]
    BY <1>1, <1>4
  <2>7. \A i \in 1..Len(waiting') : sends'[waiting'[i]] = "queued"
    BY <2>3, <2>4, <2>5, <2>6
  <2>8. \A i \in 1..Len(waiting) : i \in 1..Len(waiting')
    BY <2>2, <2>3
  <2>9. Len(waiting) + 1 \in 1..Len(waiting')
    BY <2>2, <2>3
  <2>10. ASSUME NEW d \in PlaneCalls, sends'[d] = "queued"
         PROVE  \E i \in 1..Len(waiting') : waiting'[i] = d
    <3>1. CASE d = c
      BY <2>3, <2>9, <3>1
    <3>2. CASE d # c
      <4>1. PICK i \in 1..Len(waiting) : waiting[i] = d
        BY <1>1, <2>6, <2>10, <3>2 DEF QueueOf
      <4> QED  BY <2>3, <2>8, <4>1
    <3> QED  BY <3>1, <3>2
  <2>11. \A i, j \in 1..Len(waiting') : waiting'[i] = waiting'[j] => i = j
    <3>1. \A i, j \in 1..Len(waiting) : waiting[i] = waiting[j] => i = j
      BY <1>1 DEF QueueOf
    <3> QED  BY Zenon, <2>3, <2>4, <2>5, <3>1
  <2>12. QueueOf(waiting', sends')
    BY <2>3, <2>7, <2>10, <2>11 DEF QueueOf
  <2>13. Places(sends') = Places(sends)
    BY <1>2, <2>6 DEF Places
  <2> QED  BY <1>1, <1>2, <1>4, <2>1, <2>12, <2>13, BulkheadInvSplitNext DEF BulkheadSets
<1>5. CASE /\ sends' = [sends EXCEPT ![c] = "refused"]
           /\ activeCalls' = activeCalls /\ waiting' = waiting
  <2>1. sends' \in [PlaneCalls -> SendStates]
    BY <1>1, <1>5 DEF SendStates
  <2>2. \A d \in PlaneCalls : sends'[d] = "queued" <=> sends[d] = "queued"
    BY <1>1, <1>2, <1>5
  <2>3. QueueOf(waiting', sends')
    BY Zenon, <1>1, <1>5, <2>2, QueueKept
  <2>4. Places(sends') = Places(sends)
    BY <1>1, <1>2, <1>5 DEF Places
  <2> QED  BY <1>1, <1>2, <1>5, <2>1, <2>3, <2>4, BulkheadInvSplitNext DEF BulkheadSets
<1> QED  BY <1>3, <1>4, <1>5 DEF Execute

(* A call that runs changes its state and keeps its place.                 *)
LEMMA RunningStep ==
  ASSUME BulkheadInv, NEW c \in PlaneCalls,
         \/ Return(c)
         \/ TimerFires(c) /\ sends[c] = "running"
         \/ DeadlinePasses(c)
  PROVE  BulkheadInv'
<1>1. /\ limit \in Limits /\ queueSize \in QueueSizes /\ activeCalls \in Nat
      /\ sends \in [PlaneCalls -> SendStates] /\ due \subseteq PlaneCalls
      /\ QueueOf(waiting, sends)
      /\ activeCalls = Cardinality(Places(sends))
      /\ waiting # <<>> => activeCalls >= limit
  BY BulkheadInvSplit DEF BulkheadSets
<1>2. /\ limit' = limit /\ queueSize' = queueSize
      /\ activeCalls' = activeCalls /\ waiting' = waiting
      /\ due' \subseteq PlaneCalls
      /\ \/ sends' = sends
         \/ /\ sends[c] \in {"running", "late"}
            /\ \/ sends' = [sends EXCEPT ![c] = "returned"] \/ sends' = [sends EXCEPT ![c] = "late"]
  BY <1>1 DEF Return, TimerFires, DeadlinePasses, config
<1>3. sends' \in [PlaneCalls -> SendStates]
  BY <1>1, <1>2 DEF SendStates
<1>4. \A d \in PlaneCalls : sends'[d] = "queued" <=> sends[d] = "queued"
  BY <1>1, <1>2
<1>5. Places(sends') = Places(sends)
  BY <1>1, <1>2 DEF Places
<1>6. QueueOf(waiting', sends')
  BY <1>1, <1>2, <1>4, QueueKept
<1> QED  BY <1>1, <1>2, <1>3, <1>5, <1>6, BulkheadInvSplitNext DEF BulkheadSets

LEMMA FinallyStep ==
  ASSUME BulkheadInv, NEW c \in PlaneCalls, Finally(c)
  PROVE  BulkheadInv'
<1> DEFINE ss == [sends EXCEPT ![c] = "done"]
           n == activeCalls - 1
<1>1. /\ limit \in Limits /\ queueSize \in QueueSizes /\ activeCalls \in Nat
      /\ sends \in [PlaneCalls -> SendStates] /\ due \subseteq PlaneCalls
      /\ QueueOf(waiting, sends)
      /\ activeCalls = Cardinality(Places(sends))
  BY BulkheadInvSplit DEF BulkheadSets
<1>2. /\ sends[c] = "returned" /\ limit' = limit /\ queueSize' = queueSize /\ due' = due
      /\ ProcessQueue(n, limit, ss)
  BY DEF Finally, config
<1>3. ss \in [PlaneCalls -> SendStates] /\ \A d \in PlaneCalls : ss[d] = IF d = c THEN "done" ELSE sends[d]
  BY <1>1 DEF SendStates
<1> HIDE DEF ss
<1>4. \A d \in PlaneCalls : ss[d] = "queued" <=> sends[d] = "queued"
  BY <1>2, <1>3
<1>5. QueueOf(waiting, ss)
  BY <1>1, <1>4, QueueKept
<1>6. Places(ss) = Places(sends) \ {c} /\ c \in Places(sends)
  BY <1>2, <1>3 DEF Places
<1>7. Cardinality(Places(ss)) = activeCalls - 1
  BY Zenon, <1>1, <1>6, PlacesFinite, FS_RemoveElement
<1>8. n \in Nat /\ n = Cardinality(Places(ss))
  BY <1>7, PlacesFinite
<1> HIDE DEF n
<1>9. /\ activeCalls' \in Nat /\ sends' \in [PlaneCalls -> SendStates]
      /\ QueueOf(waiting', sends')
      /\ activeCalls' = Cardinality(Places(sends'))
      /\ waiting' # <<>> => activeCalls' >= limit
  BY <1>1, <1>2, <1>3, <1>5, <1>8, ProcessQueueFacts
<1> QED  BY <1>1, <1>2, <1>9, BulkheadInvSplitNext DEF BulkheadSets

LEMMA UpdateConfigStep ==
  ASSUME BulkheadInv, NEW max \in Limits, NEW size \in QueueSizes, UpdateConfig(max, size)
  PROVE  BulkheadInv'
<1>1. /\ activeCalls \in Nat
      /\ sends \in [PlaneCalls -> SendStates] /\ due \subseteq PlaneCalls
      /\ QueueOf(waiting, sends)
      /\ activeCalls = Cardinality(Places(sends))
  BY BulkheadInvSplit DEF BulkheadSets
<1>2. limit' = max /\ queueSize' = size /\ due' = due /\ ProcessQueue(activeCalls, max, sends)
  BY DEF UpdateConfig
<1>3. /\ activeCalls' \in Nat /\ sends' \in [PlaneCalls -> SendStates]
      /\ QueueOf(waiting', sends')
      /\ activeCalls' = Cardinality(Places(sends'))
      /\ waiting' # <<>> => activeCalls' >= max
  BY <1>1, <1>2, ProcessQueueFacts
<1> QED  BY <1>1, <1>2, <1>3, BulkheadInvSplitNext DEF BulkheadSets

(* The queue without the call at place i.                                  *)
LEMMA RemovedFromQueue ==
  ASSUME NEW w, NEW ss \in [PlaneCalls -> SendStates], QueueOf(w, ss), NEW i \in 1..Len(w),
         NEW tt \in [PlaneCalls -> SendStates],
         \A c \in PlaneCalls : tt[c] = "queued" <=> ss[c] = "queued" /\ c # w[i]
  PROVE  QueueOf(Spliced(w, i), tt) /\ Len(Spliced(w, i)) = Len(w) - 1
<1> DEFINE m == Len(w)
           l == SubSeq(w, 1, i - 1)
           r == SubSeq(w, i + 1, m)
           v == Spliced(w, i)
           At(j) == IF j < i THEN j ELSE j + 1
<1>1. /\ w \in Seq(PlaneCalls) /\ m \in Nat
      /\ \A j \in 1..m : w[j] \in PlaneCalls /\ ss[w[j]] = "queued"
      /\ \A j, k \in 1..m : w[j] = w[k] => j = k
  BY LenProperties, ElementOfSeq DEF QueueOf
<1>2. v = l \o r
  BY DEF Spliced
<1>3. /\ \A j \in 1..(i - 1) : w[j] \in PlaneCalls
      /\ \A j \in (i + 1)..m : w[j] \in PlaneCalls
      /\ i \in Int /\ i - 1 \in Int /\ i + 1 \in Int /\ m \in Int /\ 1 \in Int
  BY <1>1
<1>4. /\ l \in Seq(PlaneCalls) /\ Len(l) = (IF 1 <= i - 1 THEN (i - 1) - 1 + 1 ELSE 0)
      /\ \A j \in 1..((i - 1) - 1 + 1) : l[j] = w[1 + j - 1]
  BY <1>3, SubSeqProperties
<1>5. /\ r \in Seq(PlaneCalls) /\ Len(r) = (IF i + 1 <= m THEN m - (i + 1) + 1 ELSE 0)
      /\ \A j \in 1..(m - (i + 1) + 1) : r[j] = w[(i + 1) + j - 1]
  BY <1>3, SubSeqProperties
<1> HIDE DEF m, l, r, v
<1>6. /\ Len(l) = i - 1 /\ \A j \in 1..(i - 1) : l[j] = w[j]
      /\ Len(r) = m - i /\ \A j \in 1..(m - i) : r[j] = w[i + j]
  <2>1. i \in 1..m
    BY DEF m
  <2> QED  BY <1>1, <1>4, <1>5, <2>1
<1>7. /\ v \in Seq(PlaneCalls) /\ Len(v) = Len(l) + Len(r)
      /\ \A j \in 1..(Len(l) + Len(r)) : v[j] = IF j <= Len(l) THEN l[j] ELSE r[j - Len(l)]
  BY Zenon, <1>2, <1>4, <1>5, ConcatProperties
<1>8. i \in 1..m /\ Len(v) = m - 1
  BY <1>1, <1>6, <1>7 DEF m
<1>9. ASSUME NEW j \in 1..Len(v)
      PROVE  At(j) \in 1..m /\ At(j) # i /\ v[j] = w[At(j)]
  <2>1. CASE j < i
    BY <1>1, <1>6, <1>7, <1>8, <2>1
  <2>2. CASE ~(j < i)
    <3>1. j - (i - 1) \in 1..(m - i) /\ i + (j - (i - 1)) = j + 1 /\ j \in Nat
      BY <1>1, <1>8, <2>2
    <3>2. v[j] = r[j - (i - 1)]
      BY <1>6, <1>7, <1>8, <2>2, <3>1
    <3>3. v[j] = w[j + 1]
      BY <1>6, <3>1, <3>2
    <3> QED  BY <1>1, <1>8, <2>2, <3>1, <3>3
  <2> QED  BY <2>1, <2>2
<1>10. \A j, k \in 1..Len(v) : At(j) = At(k) => j = k
  BY <1>1, <1>8
<1>11. ASSUME NEW k \in 1..m, k # i
       PROVE  \E j \in 1..Len(v) : At(j) = k
  <2>1. CASE k < i
    BY <1>1, <1>8, <2>1
  <2>2. CASE k > i
    <3>1. k - 1 \in 1..Len(v) /\ At(k - 1) = k
      BY <1>1, <1>8, <2>2
    <3> QED  BY <3>1
  <2> QED  BY <1>1, <1>8, <1>11, <2>1, <2>2
<1> HIDE DEF At
<1>12. \A j \in 1..Len(v) : tt[v[j]] = "queued"
  BY <1>1, <1>8, <1>9
<1>13. ASSUME NEW c \in PlaneCalls, tt[c] = "queued"
       PROVE  \E j \in 1..Len(v) : v[j] = c
  <2>1. PICK k \in 1..m : w[k] = c /\ k # i
    BY <1>13 DEF QueueOf, m
  <2>2. PICK j \in 1..Len(v) : At(j) = k
    BY <1>11, <2>1
  <2> QED  BY Zenon, <1>9, <2>1, <2>2
<1>14. \A j, k \in 1..Len(v) : v[j] = v[k] => j = k
  BY <1>1, <1>9, <1>10
<1>15. QueueOf(v, tt)
  BY <1>7, <1>12, <1>13, <1>14 DEF QueueOf
<1> QED  BY <1>8, <1>15 DEF v, m

LEMMA QueueTimerStep ==
  ASSUME BulkheadInv, NEW c \in PlaneCalls, TimerFires(c), sends[c] = "queued"
  PROVE  BulkheadInv'
<1>1. /\ limit \in Limits /\ queueSize \in QueueSizes /\ activeCalls \in Nat
      /\ sends \in [PlaneCalls -> SendStates] /\ due \subseteq PlaneCalls
      /\ QueueOf(waiting, sends)
      /\ activeCalls = Cardinality(Places(sends))
      /\ waiting # <<>> => activeCalls >= limit
  BY BulkheadInvSplit DEF BulkheadSets
<1>2. Len(waiting) \in Nat /\ DOMAIN waiting = 1..Len(waiting)
  BY <1>1, LenProperties DEF QueueOf
<1>3. PICK i \in 1..Len(waiting) : waiting[i] = c /\ waiting' = Spliced(waiting, i)
  BY <1>2 DEF TimerFires
<1>4. /\ limit' = limit /\ queueSize' = queueSize /\ activeCalls' = activeCalls /\ due' = due
      /\ sends' = [sends EXCEPT ![c] = "refused"]
  BY DEF TimerFires, config
<1>5. sends' \in [PlaneCalls -> SendStates] /\ \A d \in PlaneCalls : sends'[d] = IF d = c THEN "refused" ELSE sends[d]
  BY <1>1, <1>4 DEF SendStates
<1>6. \A d \in PlaneCalls : sends'[d] = "queued" <=> sends[d] = "queued" /\ d # waiting[i]
  BY Zenon, <1>3, <1>5
<1>7. QueueOf(waiting', sends') /\ Len(waiting') = Len(waiting) - 1
  BY <1>1, <1>3, <1>5, <1>6, RemovedFromQueue
<1>8. Places(sends') = Places(sends)
  BY <1>5 DEF Places
<1>9. waiting # <<>>
  BY <1>2, <1>3, EmptySeq
<1> QED  BY Zenon, <1>1, <1>4, <1>5, <1>7, <1>8, <1>9, BulkheadInvSplitNext DEF BulkheadSets

LEMMA BulkheadPreserved == BulkheadInv /\ [BulkheadNext]_bulkheadVars => BulkheadInv'
<1> SUFFICES ASSUME BulkheadInv, [BulkheadNext]_bulkheadVars PROVE BulkheadInv'
  OBVIOUS
<1>1. ASSUME NEW c \in PlaneCalls, TimerFires(c) PROVE BulkheadInv'
  <2>1. sends[c] = "queued" \/ sends[c] = "running"
    BY <1>1 DEF TimerFires
  <2> QED  BY <1>1, <2>1, RunningStep, QueueTimerStep
<1>2. CASE UNCHANGED bulkheadVars
  BY <1>2 DEF bulkheadVars, BulkheadInv, BulkheadTypeOK, PlacesAreUsed, Placed
<1> QED
  BY <1>1, <1>2, ExecuteStep, RunningStep, FinallyStep, UpdateConfigStep DEF BulkheadNext

(* The places taken are those of the functions that have not returned or   *)
(* threw when they were called, and no call waits while a place is free:   *)
(* for any limits, queue sizes and calls, and whenever updateConfig        *)
(* changes them.                                                           *)
THEOREM BulkheadPlaces == BulkheadSpec => []PlacesAreUsed
<1>1. BulkheadInv => PlacesAreUsed
  BY DEF BulkheadInv
<1> QED  BY BulkheadInitial, BulkheadPreserved, <1>1, PTL DEF BulkheadSpec

=============================================================================
