---------------------------- MODULE MCSqliteLock ----------------------------
(***************************************************************************)
(* Two owners and one key; locks last for one or three units of the skew.  *)
(***************************************************************************)
EXTENDS SqliteLock

CONSTANTS o1, o2, k1

MCOwners == {o1, o2}

MCKeys == {k1}

=============================================================================
