----------------------------- MODULE LeaseTable -----------------------------
(***************************************************************************)
(* The execution_leases table as ExecutionTicketRepository reads and       *)
(* writes it.  A table is a function from the ids of the rows inserted so  *)
(* far to the rows; every operator below maps a table to a value or to the *)
(* table one SQL statement leaves behind.                                  *)
(*                                                                         *)
(* A row's expires_at is kept relative to the reference clock: expiresIn   *)
(* is expires_at minus the present instant, so a row is past its expiry at *)
(* an instant d units away from the present iff expiresIn < d.  No code    *)
(* reads the expiry of a closed row, so closing sets it to 0.              *)
(***************************************************************************)
EXTENDS Integers, FiniteSets, FiniteSetsExt

LeaseStatuses == {"active", "released", "expired", "reclaimed"}

RowsOf(ls, e) == {i \in DOMAIN ls : ls[i].executionId = e}

ActiveRows(ls, e) == {i \in RowsOf(ls, e) : ls[i].status = "active"}

ActiveIds(ls) == {i \in DOMAIN ls : ls[i].status = "active"}

TokensOf(ls, e) == {ls[i].fencingToken : i \in RowsOf(ls, e)}

LatestFencingToken(ls, e) == Max(TokensOf(ls, e) \cup {0})

ExpiredIds(ls, d) == {i \in ActiveIds(ls) : ls[i].expiresIn < d}

LeaseRow(e, w, token, status, expiresIn) ==
  [executionId |-> e, workerId |-> w, fencingToken |-> token,
   status |-> status, expiresIn |-> expiresIn]

\* Variant: hands the newest token out again.
InsertLeaseSameToken(ls, i, e, w, expiresIn) ==
  [j \in DOMAIN ls \cup {i} |->
     IF j = i THEN LeaseRow(e, w, Max({1, LatestFencingToken(ls, e)}), "active", expiresIn)
     ELSE ls[j]]

InsertLease(ls, i, e, w, expiresIn) ==
  [j \in DOMAIN ls \cup {i} |->
     IF j = i THEN LeaseRow(e, w, LatestFencingToken(ls, e) + 1, "active", expiresIn)
     ELSE ls[j]]

RenewLeaseRow(ls, i, expiresIn) == [ls EXCEPT ![i].expiresIn = expiresIn]

\* Variant: deletes the rows instead of marking them.
CloseLeasesDeleting(ls, ids, status) == [i \in DOMAIN ls \ ids |-> ls[i]]

CloseLeases(ls, ids, status) ==
  [i \in DOMAIN ls |->
     IF i \in ids
     THEN LeaseRow(ls[i].executionId, ls[i].workerId, ls[i].fencingToken, status, 0)
     ELSE ls[i]]

Elapsed(ls, horizon) ==
  [i \in DOMAIN ls |->
     IF ls[i].status = "active" /\ ls[i].expiresIn > 0 - horizon
     THEN [ls[i] EXCEPT !.expiresIn = @ - 1] ELSE ls[i]]

-----------------------------------------------------------------------------
(* Consistency of a table *)

(* An active row's token is above that of every other row of its execution.*)
NewestHolds(ls) ==
  \A i \in ActiveIds(ls) : \A j \in RowsOf(ls, ls[i].executionId) :
    j # i => ls[j].fencingToken < ls[i].fencingToken

TokensDiffer(ls) ==
  \A i, j \in DOMAIN ls :
    /\ ls[i].executionId = ls[j].executionId
    /\ ls[i].fencingToken = ls[j].fencingToken
    => i = j

(* The audit rows say how each lease ended: a grant row for every lease,   *)
(* and a closing row exactly when the lease has the status it reports.     *)
AuditExplains(ls, log) ==
  \A i \in DOMAIN ls :
    /\ <<i, "lease_granted">> \in log
    /\ <<i, "lease_released">>  \in log <=> ls[i].status = "released"
    /\ <<i, "lease_expired">>   \in log <=> ls[i].status = "expired"
    /\ <<i, "lease_reclaimed">> \in log <=> ls[i].status = "reclaimed"

(* Table ns is a later version of ls: no row is lost or reassigned, no     *)
(* token changes, and a closed row keeps the status it was closed with.    *)
Continues(ls, ns) ==
  \A i \in DOMAIN ls :
    /\ i \in DOMAIN ns
    /\ ns[i].executionId = ls[i].executionId
    /\ ns[i].workerId = ls[i].workerId
    /\ ns[i].fencingToken = ls[i].fencingToken
    /\ ls[i].status # "active" => ns[i].status = ls[i].status

=============================================================================
