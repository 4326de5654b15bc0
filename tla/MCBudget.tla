------------------------------ MODULE MCBudget ------------------------------
(***************************************************************************)
(* Callers that share one ledger; amounts and cap are set so that the cap  *)
(* is met exactly, missed by one and exceeded.                             *)
(***************************************************************************)
EXTENDS BudgetLedger

CONSTANTS c1, c2, c3

MCCallers == {c1, c2}

MCThreeCallers == {c1, c2, c3}

=============================================================================
