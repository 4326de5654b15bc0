----------------------------- MODULE MCApprovals -----------------------------
(***************************************************************************)
(* Three requests of one task: the first has no session and a directive    *)
(* that cannot be delivered, the second takes two votes, and the third is  *)
(* of the second's session.                                                *)
(***************************************************************************)
EXTENDS Approvals

MCSessionOf == <<0, 1, 1>>

MCQuorum == <<0, 2, 0>>

MCPolicy == <<"reject", "approve", "reject">>

=============================================================================
