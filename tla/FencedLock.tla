----------------------------- MODULE FencedLock -----------------------------
(***************************************************************************)
(* What a distributed lock adapter promises: a key has at most one holder, *)
(* and every grant or extension of a key carries a token above all tokens  *)
(* the key has had before.                                                 *)
(***************************************************************************)
EXTENDS Naturals

CONSTANTS Keys, Owners, Nobody

VARIABLES holder,             \* who holds the key, or Nobody
          newest              \* the newest token of the key

lockVars == <<holder, newest>>

LockInit ==
  /\ holder = [k \in Keys |-> Nobody]
  /\ newest = [k \in Keys |-> 0]

Grant(k, o) ==
  /\ newest'[k] > newest[k]
  /\ newest' = [newest EXCEPT ![k] = newest'[k]]
  /\ holder' = [holder EXCEPT ![k] = o]

Free(k) ==
  /\ holder' = [holder EXCEPT ![k] = Nobody]
  /\ UNCHANGED newest

LockNext == \E k \in Keys : Free(k) \/ \E o \in Owners : Grant(k, o)

LockSpec == LockInit /\ [][LockNext]_lockVars

=============================================================================
