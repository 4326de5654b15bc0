------------------------------ MODULE Approvals ------------------------------
(***************************************************************************)
(* The approval center: ApprovalService resolves a request with one        *)
(* decision, MultiPartyApprovalService with a quorum of votes, and         *)
(* ApprovalTimeoutExecutor resolves what nobody answered in time.  A       *)
(* denial cancels the execution that is blocked on the request.            *)
(*                                                                         *)
(* Requests are numbered; all belong to one task.  Each call is one step,  *)
(* as its reads and writes are synchronous.                                *)
(***************************************************************************)
EXTENDS Naturals, FiniteSets

CONSTANTS MaxApprovals,       \* bound on the requests
          Approvers,
          SessionOf,          \* context.sessionId of each request, 0 if none
          Quorum,             \* requiredApprovals of a multi-party request, else 0
          Policy,             \* timeoutPolicy of each request
          Undeliverable       \* requests whose directive the sink refuses

Approvals == 1..MaxApprovals
MultiParty == {a \in Approvals : Quorum[a] > 0}

ASSUME ApprovalAssumption ==
  /\ IsFiniteSet(Approvers)
  /\ MaxApprovals \in Nat /\ Undeliverable \subseteq Approvals
  /\ SessionOf \in [Approvals -> Nat] /\ Quorum \in [Approvals -> Nat]
  /\ Policy \in [Approvals -> {"reject", "approve", "remain_pending"}]
  /\ \A a \in Approvals : Quorum[a] <= Cardinality(Approvers)

VARIABLES approvals,          \* the stored requests
          blocked,            \* requests whose execution is blocked on them
          cancelled,          \* requests whose execution was cancelled
          tracked,            \* the requests in pendingApprovals, in memory
          responders,         \* pendingApprovals[a].decisions
          votes               \* who voted how, for the properties

approvalVars == <<approvals, blocked, cancelled, tracked, responders, votes>>

ApprovalRow == [status : {"absent", "requested", "approved", "rejected", "expired"},
                approvalsReceived : Nat, rejectionsReceived : Nat, overdue : BOOLEAN,
                by : {"nobody", "decision", "timeout", "votes"}]

Ballots == Approvers \X BOOLEAN

ApprovalTypeOK ==
  /\ approvals \in [Approvals -> ApprovalRow]
  /\ blocked \subseteq Approvals /\ cancelled \subseteq Approvals
  /\ tracked \subseteq MultiParty /\ responders \in [Approvals -> SUBSET Approvers]
  /\ votes \in [Approvals -> SUBSET Ballots]

ApprovalInit ==
  /\ approvals = [a \in Approvals |->
       [status |-> "absent", approvalsReceived |-> 0, rejectionsReceived |-> 0,
        overdue |-> FALSE, by |-> "nobody"]]
  /\ blocked = {} /\ cancelled = {} /\ tracked = {}
  /\ responders = [a \in Approvals |-> {}]
  /\ votes = [a \in Approvals |-> {}]

Undecided(a) == approvals[a].status = "requested"

-----------------------------------------------------------------------------
(* createRequest and createMultiPartyRequest                               *)
CreateRequest(a) ==
  /\ approvals[a].status = "absent"
  /\ approvals' = [approvals EXCEPT ![a].status = "requested"]
  /\ blocked' = blocked \cup {a}
  /\ tracked' = tracked \cup ({a} \cap MultiParty)
  /\ UNCHANGED <<cancelled, responders, votes>>

(* An execution leaves "blocked" by other means, as when it is recovered.  *)
Unblock(a) ==
  /\ a \in blocked
  /\ blocked' = blocked \ {a}
  /\ UNCHANGED <<approvals, cancelled, tracked, responders, votes>>

BecomeOverdue(a) ==
  /\ Undecided(a) /\ ~approvals[a].overdue
  /\ approvals' = [approvals EXCEPT ![a].overdue = TRUE]
  /\ UNCHANGED <<blocked, cancelled, tracked, responders, votes>>

-----------------------------------------------------------------------------
(* The pending siblings a rejection of a takes along                       *)
Cascade(a) ==
  {b \in Approvals \ {a} : Undecided(b) /\ SessionOf[a] # 0 /\ SessionOf[b] = SessionOf[a]}

(* applyDecision resolves the requests in the domain of outcome; it        *)
(* applies the execution effect to these, not to what they cascade to.     *)
Apply(outcome, by) ==
  LET denied == {a \in DOMAIN outcome : outcome[a] \in {"rejected", "expired"}}
      along == UNION {Cascade(a) : a \in {b \in denied : outcome[b] = "rejected"}}
  IN /\ approvals' = [a \in Approvals |->
          IF a \in DOMAIN outcome THEN [approvals[a] EXCEPT !.status = outcome[a], !.by = by]
          ELSE IF a \in along THEN [approvals[a] EXCEPT !.status = "rejected", !.by = by]
          ELSE approvals[a]]
     /\ cancelled' = cancelled \cup (denied \cap blocked)
     /\ blocked' = blocked \ denied
     /\ UNCHANGED <<tracked, responders, votes>>

\* Variant: a request already resolved is decided again.
ApplyAnyDecision(a, status) ==
  /\ approvals[a].status # "absent" /\ a \notin Undeliverable
  /\ Apply([b \in {a} |-> status], "decision")

(* A decision of a person, which ApprovalService takes for a multi-party   *)
(* request too; when the sink throws, all is rolled back.                  *)
ApplyDecision(a, status) ==
  /\ Undecided(a) /\ a \notin Undeliverable
  /\ Apply([b \in {a} |-> status], "decision")

(* What their policies make of requests that time out                      *)
TimeoutStatus(due) ==
  [a \in due |-> IF Policy[a] = "reject" THEN "expired" ELSE "approved"]

\* Variant: a request that cannot be resolved ends the sweep.
SweepUntilError ==
  LET due == {a \in Approvals : Undecided(a) /\ approvals[a].overdue /\ Policy[a] # "remain_pending"}
  IN Apply(TimeoutStatus({a \in due : \A b \in due \cap Undeliverable : a < b}), "timeout")

(* sweep resolves every overdue request it can                             *)
Sweep ==
  LET due == {a \in Approvals : Undecided(a) /\ approvals[a].overdue /\ Policy[a] # "remain_pending"}
  IN Apply(TimeoutStatus(due \ Undeliverable), "timeout")

(* executeTimeout resolves one request, overdue or not.                    *)
ExecuteTimeout(a) ==
  /\ Undecided(a) /\ Policy[a] # "remain_pending" /\ a \notin Undeliverable
  /\ Apply(TimeoutStatus({a}), "timeout")

-----------------------------------------------------------------------------
(* createMultiPartyRequest is given totalApprovers, all of Approvers.      *)
RejectionsRequired(a) == Cardinality(Approvers) - Quorum[a] + 1

(* MultiPartyApprovalService.applyDecision: one vote.  Who has voted is    *)
(* known from memory alone, while the request is tracked; how many have is *)
(* stored.                                                                 *)
Vote(a, who, yes) ==
  LET row == approvals[a]
      counted == IF yes THEN [row EXCEPT !.approvalsReceived = @ + 1]
                 ELSE [row EXCEPT !.rejectionsReceived = @ + 1]
      status == IF yes /\ counted.approvalsReceived >= Quorum[a] THEN "approved"
                ELSE IF ~yes /\ counted.rejectionsReceived >= RejectionsRequired(a) THEN "rejected"
                ELSE "requested"
  IN /\ a \in MultiParty /\ Undecided(a) /\ who \notin responders[a]
     /\ approvals' = [approvals EXCEPT ![a] =
          [counted EXCEPT !.status = status, !.by = IF status = "requested" THEN @ ELSE "votes"]]
     /\ responders' = [responders EXCEPT ![a] = IF a \in tracked THEN @ \cup {who} ELSE @]
     /\ votes' = [votes EXCEPT ![a] = @ \cup {<<who, yes>>}]
     /\ UNCHANGED <<blocked, cancelled, tracked>>

RestartService ==
  /\ tracked' = {}
  /\ responders' = [a \in Approvals |-> {}]
  /\ UNCHANGED <<approvals, blocked, cancelled, votes>>

ApprovalNext ==
  \/ \E a \in Approvals :
       \/ CreateRequest(a) \/ Unblock(a) \/ BecomeOverdue(a) \/ ExecuteTimeout(a)
       \/ \E status \in {"approved", "rejected"} : ApplyDecision(a, status)
       \/ \E who \in Approvers, yes \in BOOLEAN : Vote(a, who, yes)
  \/ Sweep \/ RestartService

(* The sweep runs periodically, and time passes.                           *)
ApprovalFairness ==
  /\ WF_approvalVars(Sweep)
  /\ \A a \in Approvals : WF_approvalVars(BecomeOverdue(a))

ApprovalSpec == ApprovalInit /\ [][ApprovalNext]_approvalVars /\ ApprovalFairness

-----------------------------------------------------------------------------
(* Properties *)

Resolved(a) == approvals[a].status \in {"approved", "rejected", "expired"}

(* A request is resolved once: a late decision, vote or timeout, or the    *)
(* cascade of another rejection, changes nothing about it, and a request   *)
(* approved by a person does not cancel its execution.                     *)
ResolvedOnce ==
  [][\A a \in Approvals : Resolved(a) =>
       /\ approvals'[a].status = approvals[a].status
       /\ a \in cancelled' => a \in cancelled]_approvalVars

(* When each of the approvers has voted, a multi-party request is          *)
(* resolved: the numbers of approvals and of rejections it takes leave no  *)
(* vote of all approvers undecided.                                        *)
FullVoteDecides ==
  \A a \in MultiParty : {v[1] : v \in votes[a]} = Approvers => Resolved(a)

(* The inductive invariant: the stored numbers are no less than the votes  *)
(* given, and of a request not yet resolved no more than leaves it open.   *)
YesVoters(a) == {w \in Approvers : <<w, TRUE>> \in votes[a]}
NoVoters(a) == {w \in Approvers : <<w, FALSE>> \in votes[a]}

ApprovalInv ==
  /\ ApprovalTypeOK
  /\ \A a \in MultiParty :
       /\ Cardinality(YesVoters(a)) <= approvals[a].approvalsReceived
       /\ Cardinality(NoVoters(a)) <= approvals[a].rejectionsReceived
       /\ ~Resolved(a) => /\ approvals[a].approvalsReceived < Quorum[a]
                          /\ approvals[a].rejectionsReceived < RejectionsRequired(a)

(* A request with a timeout policy is resolved in the end, whatever other  *)
(* requests the sweep fails on.                                            *)
OverdueIsResolved ==
  \A a \in Approvals \ Undeliverable :
    Undecided(a) /\ Policy[a] # "remain_pending" ~> Resolved(a)

(* A multi-party request approved by votes has the votes of as many        *)
(* different approvers as it requires.                                     *)
QuorumIsDistinct ==
  \A a \in MultiParty : approvals[a].status = "approved" /\ approvals[a].by = "votes" =>
    Cardinality({w \in Approvers : <<w, TRUE>> \in votes[a]}) >= Quorum[a]

=============================================================================
