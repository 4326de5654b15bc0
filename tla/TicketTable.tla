----------------------------- MODULE TicketTable ----------------------------
(***************************************************************************)
(* The execution_tickets table as ExecutionTicketRepository reads and      *)
(* writes it: a function from the ids inserted so far to the rows.  What a *)
(* ticket asks of a worker is kept per execution (see ExecutionDispatch).  *)
(***************************************************************************)
EXTENDS Integers, FiniteSets, FiniteSetsExt

TicketStatuses == {"pending", "claimed", "consumed", "expired", "cancelled"}

LiveStatuses == {"pending", "claimed"}

InvalidStatuses == {"expired", "cancelled"}

Unassigned == [worker |-> "none", lease |-> 0]

(* claimed holds the assigned worker and the lease it was claimed under.   *)
TicketRow(e, attempt, status, claimed) ==
  [executionId |-> e, attempt |-> attempt, status |-> status, claimed |-> claimed]

TicketsOf(ts, e) == {t \in DOMAIN ts : ts[t].executionId = e}

LiveTickets(ts) == {t \in DOMAIN ts : ts[t].status \in LiveStatuses}

ActiveTickets(ts, e, attempt) ==
  {t \in TicketsOf(ts, e) \cap LiveTickets(ts) : ts[t].attempt = attempt}

Dispatchable(ts) == {t \in DOMAIN ts : ts[t].status = "pending"}

(* resolveNextTicketAttempt; no caller asks for an execution without any.  *)
NextAttempt(ts, e) == Max({ts[t].attempt : t \in TicketsOf(ts, e)} \cup {0}) + 1

InsertTicket(ts, t, e, attempt) ==
  [u \in DOMAIN ts \cup {t} |->
     IF u = t THEN TicketRow(e, attempt, "pending", Unassigned) ELSE ts[u]]

\* Variant: forgets the lease id.
ClaimTicketWithoutLease(ts, t, w, i) ==
  [u \in DOMAIN ts |->
     IF u = t /\ ts[u].status = "pending"
     THEN TicketRow(ts[u].executionId, ts[u].attempt, "claimed", [worker |-> w, lease |-> 0])
     ELSE ts[u]]

(* UPDATE ... WHERE status = 'pending': otherwise nothing happens, and the *)
(* caller is not told.                                                     *)
ClaimTicket(ts, t, w, i) ==
  [u \in DOMAIN ts |->
     IF u = t /\ ts[u].status = "pending"
     THEN TicketRow(ts[u].executionId, ts[u].attempt, "claimed", [worker |-> w, lease |-> i])
     ELSE ts[u]]

(* UPDATE ... WHERE id = ?, whatever the status is.                        *)
SetTicketStatus(ts, t, status) ==
  [u \in DOMAIN ts |->
     IF u = t THEN TicketRow(ts[u].executionId, ts[u].attempt, status, ts[u].claimed)
     ELSE ts[u]]

ConsumeTicket(ts, t) == SetTicketStatus(ts, t, "consumed")

InvalidateTicket(ts, t, status) == SetTicketStatus(ts, t, status)

-----------------------------------------------------------------------------
(* The unique index on live tickets of one attempt of an execution.        *)
LiveAttemptsDiffer(ts) ==
  \A t, u \in LiveTickets(ts) :
    ts[t].executionId = ts[u].executionId /\ ts[t].attempt = ts[u].attempt => t = u

=============================================================================
