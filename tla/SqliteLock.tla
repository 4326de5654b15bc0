----------------------------- MODULE SqliteLock -----------------------------
(***************************************************************************)
(* SqliteLockAdapter: the distributed_locks table and the one row of       *)
(* distributed_lock_fencing_counter, shared by processes on one database.  *)
(* acquire and forceSteal run in BEGIN IMMEDIATE transactions and are one  *)
(* step each.  extend does not: each of its statements commits by itself,  *)
(* and other processes come in between.                                    *)
(*                                                                         *)
(* Each owner is one client that makes one call at a time.  Times are in   *)
(* units of the skew; left is the time to a row's acquired_at + ttl_ms, and *)
(* metadata is NULL or gives a force steal's reason.  Every row is written *)
(* with status 'held', so the column is left out.                          *)
(***************************************************************************)
EXTENDS Integers

CONSTANTS Keys, Owners, Nobody,
          Ttls,               \* what normalizeTtlMs returns for callers' ttlMs
          StealTtl,           \* DEFAULT_FORCE_STEAL_TTL_MS
          ExpirySkew,         \* EXPIRY_SKEW_MS
          MaxCounter          \* bound on the tokens drawn

ASSUME LockAssumption ==
  /\ Nobody \notin Owners
  /\ Ttls \subseteq Nat /\ StealTtl \in Nat
  /\ ExpirySkew \in Nat /\ MaxCounter \in Nat

VARIABLES rows,               \* distributed_locks
          counter,            \* distributed_lock_fencing_counter
          clients,            \* the extend call each owner is in the middle of
          newest              \* history: the newest token a key's row has had

lockVars == <<rows, counter, clients, newest>>

IdleClient == [op |-> "idle"]

Metadata == {"null", "stolen"}

Row(o, t, ttl, metadata) ==
  [owner |-> o, token |-> t, ttl |-> ttl, left |-> ttl, metadata |-> metadata]

RowOK(row) ==
  /\ row \in [owner : Owners, token : Nat, ttl : Ttls \cup {StealTtl}, left : Nat,
              metadata : Metadata]
  /\ row.left <= row.ttl

Calls ==
  {IdleClient} \cup [op : {"read"}, key : Keys, ttl : Ttls]
         \cup [op : {"write"}, key : Keys, ttl : Ttls, token : Nat]
         \cup [op : {"inspect"}, key : Keys]

AdapterTypeOK ==
  /\ DOMAIN rows \subseteq Keys
  /\ \A k \in DOMAIN rows : RowOK(rows[k])
  /\ counter \in Nat
  /\ clients \in [Owners -> Calls]
  /\ newest \in [Keys -> Nat]

AdapterInit ==
  /\ rows = [k \in {} |-> {}]
  /\ counter = 0
  /\ clients = [o \in Owners |-> IdleClient]
  /\ newest = [k \in Keys |-> 0]

Holds(o, k) == k \in DOMAIN rows /\ rows[k].owner = o

ClientBecomes(o, call) == clients' = [clients EXCEPT ![o] = call]

-----------------------------------------------------------------------------
(* The UPDATE of nextFencingToken.                                         *)
Bump == counter < MaxCounter /\ counter' = counter + 1

Store(k, row) ==
  /\ rows' = [j \in DOMAIN rows \cup {k} |-> IF j = k THEN row ELSE rows[j]]
  /\ newest' = [newest EXCEPT ![k] = row.token]

(* The owner takes its own lock again whether it ran out or not; another's *)
(* lock only once it is within the skew of running out.                    *)
Takeable(o, k) ==
  k \in DOMAIN rows => rows[k].owner = o \/ rows[k].left <= ExpirySkew

\* Variant: keeps the token of a lock its owner acquires again.
AcquireKeepingToken(o, k, ttl) ==
  /\ clients[o] = IdleClient
  /\ Takeable(o, k)
  /\ Bump
  /\ Store(k, Row(o, IF k \in DOMAIN rows THEN rows[k].token ELSE counter', ttl, "null"))
  /\ UNCHANGED clients

(* acquire; when the lock cannot be had, nothing changes.  The UPDATE of   *)
(* an own row leaves its metadata.                                         *)
Acquire(o, k, ttl) ==
  /\ clients[o] = IdleClient
  /\ Takeable(o, k)
  /\ Bump
  /\ Store(k, Row(o, counter', ttl, IF Holds(o, k) THEN rows[k].metadata ELSE "null"))
  /\ UNCHANGED clients

Release(o, k) ==
  /\ clients[o] = IdleClient
  /\ Holds(o, k)
  /\ rows' = [j \in DOMAIN rows \ {k} |-> rows[j]]
  /\ UNCHANGED <<counter, clients, newest>>

(* forceSteal: the new owner gets what the row had for a ttl.              *)
ForceSteal(o, k) ==
  /\ clients[o] = IdleClient
  /\ Bump
  /\ Store(k, Row(o, counter', IF k \in DOMAIN rows THEN rows[k].ttl ELSE StealTtl, "stolen"))
  /\ UNCHANGED clients

(* extend, statement by statement: UPDATE counter, SELECT counter, UPDATE  *)
(* the row where key and owner match, SELECT the row for the result.       *)
ExtendBump(o, k, ttl) ==
  /\ clients[o] = IdleClient
  /\ Bump
  /\ ClientBecomes(o, [op |-> "read", key |-> k, ttl |-> ttl])
  /\ UNCHANGED <<rows, newest>>

\* Variant: reads the counter before raising it.
ExtendReadEarly(o) ==
  /\ clients[o].op = "read"
  /\ ClientBecomes(o, [op |-> "write", key |-> clients[o].key, ttl |-> clients[o].ttl,
                 token |-> counter - 1])
  /\ UNCHANGED <<rows, counter, newest>>

ExtendRead(o) ==
  /\ clients[o].op = "read"
  /\ ClientBecomes(o, [op |-> "write", key |-> clients[o].key, ttl |-> clients[o].ttl,
                 token |-> counter])
  /\ UNCHANGED <<rows, counter, newest>>

ExtendWrite(o) ==
  /\ clients[o].op = "write"
  /\ IF Holds(o, clients[o].key)
     THEN /\ Store(clients[o].key, Row(o, clients[o].token, clients[o].ttl,
                                      rows[clients[o].key].metadata))
          /\ ClientBecomes(o, [op |-> "inspect", key |-> clients[o].key])
     ELSE /\ ClientBecomes(o, IdleClient)
          /\ UNCHANGED <<rows, newest>>
  /\ UNCHANGED counter

(* The row found is the result, whoever owns it by now.                    *)
ExtendInspect(o) ==
  /\ clients[o].op = "inspect"
  /\ ClientBecomes(o, IdleClient)
  /\ UNCHANGED <<rows, counter, newest>>

(* The call throws on a ttl out of range, or its process dies.             *)
Abort(o) ==
  /\ clients[o] # IdleClient
  /\ ClientBecomes(o, IdleClient)
  /\ UNCHANGED <<rows, counter, newest>>

LockTick ==
  /\ \E k \in DOMAIN rows : rows[k].left > 0
  /\ rows' = [k \in DOMAIN rows |->
                [rows[k] EXCEPT !.left = IF @ > 0 THEN @ - 1 ELSE 0]]
  /\ UNCHANGED <<counter, clients, newest>>

ClientStep(o) ==
  \/ \E k \in Keys, ttl \in Ttls : Acquire(o, k, ttl) \/ ExtendBump(o, k, ttl)
  \/ \E k \in Keys : Release(o, k) \/ ForceSteal(o, k)
  \/ ExtendRead(o)
  \/ ExtendWrite(o)
  \/ ExtendInspect(o)
  \/ Abort(o)

AdapterNext == LockTick \/ \E o \in Owners : ClientStep(o)

AdapterSpec == AdapterInit /\ [][AdapterNext]_lockVars

-----------------------------------------------------------------------------
(* Properties *)

(* Every token that goes into a key's row is above all the key has had:    *)
(* although extend draws its token outside a transaction, no acquire,      *)
(* extend or forceSteal puts an older token over a newer one.              *)
Lock ==
  INSTANCE FencedLock WITH
    holder <- [k \in Keys |-> IF k \in DOMAIN rows THEN rows[k].owner ELSE Nobody]

ImplementsFencedLock == Lock!LockSpec

-----------------------------------------------------------------------------
(* What makes the invariants inductive *)

NewestIsNewest ==
  /\ \A k \in Keys : newest[k] <= counter
  /\ \A k \in DOMAIN rows : rows[k].token = newest[k]

(* While its client is in extend, a row keeps its owner only by keeping    *)
(* its token: the token drawn is above it.                                 *)
DrawnIsNewer ==
  \A o \in Owners :
    /\ clients[o].op = "read" /\ Holds(o, clients[o].key)
         => newest[clients[o].key] < counter
    /\ clients[o].op = "write"
         => /\ clients[o].token <= counter
            /\ Holds(o, clients[o].key) => newest[clients[o].key] < clients[o].token

LockInv == AdapterTypeOK /\ NewestIsNewest /\ DrawnIsNewer

=============================================================================
