---------------------------- MODULE SharedProofs ----------------------------
(***************************************************************************)
(* Three stores that several callers update at once, each with a protocol  *)
(* of its own: the fenced lock table, the budget ledger and the            *)
(* idempotency keys.                                                       *)
(***************************************************************************)
EXTENDS SqliteLock, BudgetLedger, IdempotencyKey, TLAPS

-----------------------------------------------------------------------------
(* SqliteLockAdapter implements FencedLock, for any keys, owners, times    *)
(* and number of tokens.  The argument: a row's token is the newest of its *)
(* key and at most the counter (NewestIsNewest), so a token drawn in the   *)
(* same transaction is above it; and an owner in extend either still has   *)
(* the row it had when it drew its token, or no longer owns it, and then   *)
(* the UPDATE finds nothing (DrawnIsNewer).                                *)


(* What writing a row does to the table, to the tokens and to the others.  *)
LEMMA StoreFacts ==
  ASSUME LockInv,
         NEW o \in Owners, NEW k \in Keys, NEW t \in Nat,
         NEW ttl \in Ttls \cup {StealTtl}, NEW md \in Metadata,
         Store(k, Row(o, t, ttl, md))
  PROVE  /\ DOMAIN rows' = DOMAIN rows \cup {k}
         /\ rows'[k] = Row(o, t, ttl, md)
         /\ \A j \in DOMAIN rows : j # k => rows'[j] = rows[j]
         /\ newest' \in [Keys -> Nat]
         /\ newest'[k] = t
         /\ \A j \in Keys : j # k => newest'[j] = newest[j]
         /\ \A p \in Owners, j \in Keys :
              Holds(p, j)' <=> IF j = k THEN p = o ELSE Holds(p, j)
PROOF
  BY DEF Store, Row, LockInv, AdapterTypeOK, Holds

LEMMA StoreKeepsRowTypes ==
  ASSUME LockInv, LockAssumption,
         NEW o \in Owners, NEW k \in Keys, NEW t \in Nat,
         NEW ttl \in Ttls \cup {StealTtl}, NEW md \in Metadata,
         Store(k, Row(o, t, ttl, md))
  PROVE  /\ DOMAIN rows' \subseteq Keys
         /\ \A j \in DOMAIN rows' : RowOK(rows[j])'
PROOF
<1>1. RowOK(Row(o, t, ttl, md))
  BY DEF RowOK, Row, LockAssumption
<1>2. /\ DOMAIN rows' = DOMAIN rows \cup {k}
      /\ rows'[k] = Row(o, t, ttl, md)
      /\ \A j \in DOMAIN rows : j # k => rows'[j] = rows[j]
  BY StoreFacts
<1>3. DOMAIN rows \subseteq Keys /\ \A j \in DOMAIN rows : RowOK(rows[j])
  BY DEF LockInv, AdapterTypeOK
<1>4. ASSUME NEW j \in DOMAIN rows' PROVE RowOK(rows'[j])
  BY <1>1, <1>2, <1>3
<1> QED
  BY <1>2, <1>3, <1>4 DEF RowOK

(* acquire and forceSteal draw a token and store it in one transaction.    *)
LEMMA DrawAndStoreKeepsInv ==
  ASSUME LockInv, LockAssumption,
         NEW o \in Owners, NEW k \in Keys,
         NEW ttl \in Ttls \cup {StealTtl}, NEW md \in Metadata,
         clients[o] = IdleClient, UNCHANGED clients,
         Bump, Store(k, Row(o, counter', ttl, md))
  PROVE  LockInv'
PROOF
<1>1. counter \in Nat /\ counter' = counter + 1 /\ counter' \in Nat
  BY DEF LockInv, AdapterTypeOK, Bump
<1>2. /\ DOMAIN rows' = DOMAIN rows \cup {k}
      /\ rows'[k] = Row(o, counter', ttl, md)
      /\ \A j \in DOMAIN rows : j # k => rows'[j] = rows[j]
      /\ newest' \in [Keys -> Nat]
      /\ newest'[k] = counter'
      /\ \A j \in Keys : j # k => newest'[j] = newest[j]
      /\ \A p \in Owners, j \in Keys :
           Holds(p, j)' <=> IF j = k THEN p = o ELSE Holds(p, j)
  <2>1. PICK t \in Nat : t = counter'
    BY <1>1
  <2>2. Store(k, Row(o, t, ttl, md))
    BY <2>1
  <2>3. QED
    BY <2>1, <2>2, StoreFacts
<1>3. AdapterTypeOK'
  <2>1. DOMAIN rows' \subseteq Keys /\ \A j \in DOMAIN rows' : RowOK(rows[j])'
    <3>1. PICK t \in Nat : t = counter'
      BY <1>1
    <3>2. Store(k, Row(o, t, ttl, md))
      BY <3>1
    <3>3. QED
      BY <3>2, StoreKeepsRowTypes
  <2>3. clients' \in [Owners -> Calls]'
    BY DEF LockInv, AdapterTypeOK, Calls, IdleClient
  <2>4. QED
    BY <1>1, <1>2, <2>1, <2>3 DEF AdapterTypeOK
<1>4. NewestIsNewest'
  BY <1>1, <1>2 DEF LockInv, AdapterTypeOK, NewestIsNewest, Row
<1>5. DrawnIsNewer'
  <2>1. SUFFICES ASSUME NEW p \in Owners
                 PROVE  /\ clients[p].op = "read" /\ Holds(p, clients[p].key)'
                             => newest'[clients[p].key] < counter'
                        /\ clients[p].op = "write"
                             => /\ clients[p].token <= counter'
                                /\ Holds(p, clients[p].key)'
                                     => newest'[clients[p].key] < clients[p].token
    BY DEF DrawnIsNewer, Holds
  <2>2. CASE p = o
    BY <2>2 DEF IdleClient
  <2>3. CASE p # o /\ clients[p].op = "read"
    <3>1. clients[p].key \in Keys
      BY <2>3 DEF LockInv, AdapterTypeOK, Calls, IdleClient
    <3>2. QED
      BY <1>1, <1>2, <2>3, <3>1 DEF LockInv, AdapterTypeOK, DrawnIsNewer
  <2>4. CASE p # o /\ clients[p].op = "write"
    <3>1. clients[p].key \in Keys /\ clients[p].token \in Nat
      BY <2>4 DEF LockInv, AdapterTypeOK, Calls, IdleClient
    <3>2. QED
      BY <1>1, <1>2, <2>4, <3>1 DEF LockInv, AdapterTypeOK, DrawnIsNewer
  <2>5. QED
    BY <2>2, <2>3, <2>4
<1>6. QED
  BY <1>3, <1>4, <1>5 DEF LockInv

(* Steps that leave the rows alone and only change o's call.               *)
LEMMA CallKeepsInv ==
  ASSUME LockInv, NEW o \in Owners, NEW call \in Calls,
         ClientBecomes(o, call), UNCHANGED <<rows, newest>>,
         counter' \in Nat, counter <= counter',
         call.op = "read" => newest[call.key] < counter',
         call.op = "write" => /\ call.token <= counter'
                              /\ Holds(o, call.key) => newest[call.key] < call.token
  PROVE  LockInv'
PROOF
<1>1. counter \in Nat
  BY DEF LockInv, AdapterTypeOK
<1>2. clients' \in [Owners -> Calls] /\ clients'[o] = call
  BY DEF LockInv, AdapterTypeOK, ClientBecomes
<1>3. \A p \in Owners : p # o => clients'[p] = clients[p]
  BY DEF LockInv, AdapterTypeOK, ClientBecomes
<1>4. AdapterTypeOK'
  BY <1>2 DEF LockInv, AdapterTypeOK, RowOK, Calls, IdleClient
<1>5. NewestIsNewest'
  BY <1>1 DEF LockInv, AdapterTypeOK, NewestIsNewest
<1>6. DrawnIsNewer'
  <2>1. SUFFICES ASSUME NEW p \in Owners
                 PROVE  /\ clients'[p].op = "read" /\ Holds(p, clients'[p].key)
                             => newest[clients'[p].key] < counter'
                        /\ clients'[p].op = "write"
                             => /\ clients'[p].token <= counter'
                                /\ Holds(p, clients'[p].key)
                                     => newest[clients'[p].key] < clients'[p].token
    BY DEF DrawnIsNewer, Holds
  <2>2. CASE p = o
    BY <1>2, <2>2
  <2>3. CASE p # o /\ clients[p].op = "read"
    <3>1. clients[p].key \in Keys
      BY <2>3 DEF LockInv, AdapterTypeOK, Calls, IdleClient
    <3>2. QED
      BY <1>1, <1>3, <2>3, <3>1 DEF LockInv, AdapterTypeOK, DrawnIsNewer
  <2>4. CASE p # o /\ clients[p].op = "write"
    <3>1. clients[p].token \in Nat
      BY <2>4 DEF LockInv, AdapterTypeOK, Calls, IdleClient
    <3>2. QED
      BY <1>1, <1>3, <2>4, <3>1 DEF LockInv, AdapterTypeOK, DrawnIsNewer
  <2>5. QED
    BY <1>3, <2>2, <2>3, <2>4
<1>7. QED
  BY <1>4, <1>5, <1>6 DEF LockInv

(* Fewer rows, or rows with less time left.                                *)
LEMMA RowsKeepInv ==
  ASSUME LockInv, UNCHANGED <<counter, clients, newest>>,
         DOMAIN rows' \subseteq DOMAIN rows,
         \A k \in DOMAIN rows' :
           RowOK(rows'[k]) /\ rows'[k].owner = rows[k].owner /\ rows'[k].token = rows[k].token
  PROVE  LockInv'
PROOF
<1>1. AdapterTypeOK'
  BY DEF LockInv, AdapterTypeOK, RowOK, Calls, IdleClient
<1>2. NewestIsNewest'
  BY DEF LockInv, NewestIsNewest
<1>3. DrawnIsNewer'
  BY DEF LockInv, DrawnIsNewer, Holds
<1>4. QED
  BY <1>1, <1>2, <1>3 DEF LockInv

(* The UPDATE of extend.                                                   *)
LEMMA ExtendWriteKeepsInv ==
  ASSUME LockInv, LockAssumption, NEW o \in Owners, ExtendWrite(o)
  PROVE  LockInv'
PROOF
<1> DEFINE k == clients[o].key
           t == clients[o].token
           ttl == clients[o].ttl
<1>1. k \in Keys /\ t \in Nat /\ ttl \in Ttls /\ t <= counter /\ counter \in Nat
  BY DEF ExtendWrite, LockInv, AdapterTypeOK, Calls, IdleClient, DrawnIsNewer
<1>2. CASE ~Holds(o, k)
  <2>1. IdleClient \in Calls /\ IdleClient.op = "idle"
    BY DEF Calls, IdleClient
  <2>2. ClientBecomes(o, IdleClient) /\ UNCHANGED <<rows, counter, newest>>
    BY <1>2 DEF ExtendWrite
  <2>3. QED
    BY <1>1, <2>1, <2>2, CallKeepsInv
<1>3. CASE Holds(o, k)
  <2> DEFINE md == rows[k].metadata
  <2>1. /\ Store(k, Row(o, t, ttl, md))
        /\ ClientBecomes(o, [op |-> "inspect", key |-> k])
        /\ UNCHANGED counter
    BY <1>3 DEF ExtendWrite
  <2>2. md \in Metadata /\ ttl \in Ttls \cup {StealTtl}
    BY <1>1, <1>3 DEF Holds, LockInv, AdapterTypeOK, RowOK
  <2>3. clients' \in [Owners -> Calls] /\ clients'[o].op = "inspect"
    BY <1>1, <2>1 DEF LockInv, AdapterTypeOK, ClientBecomes, Calls
  <2>4. \A p \in Owners : p # o => clients'[p] = clients[p]
    BY <2>1 DEF LockInv, AdapterTypeOK, ClientBecomes
  <2> HIDE DEF k, t, ttl, md
  <2>5. /\ DOMAIN rows' = DOMAIN rows \cup {k}
        /\ rows'[k] = Row(o, t, ttl, md)
        /\ \A j \in DOMAIN rows : j # k => rows'[j] = rows[j]
        /\ newest' \in [Keys -> Nat]
        /\ newest'[k] = t
        /\ \A j \in Keys : j # k => newest'[j] = newest[j]
        /\ \A p \in Owners, j \in Keys :
             Holds(p, j)' <=> IF j = k THEN p = o ELSE Holds(p, j)
    BY <1>1, <2>1, <2>2, StoreFacts
  <2>6. AdapterTypeOK'
    <3>1. DOMAIN rows' \subseteq Keys /\ \A j \in DOMAIN rows' : RowOK(rows[j])'
      BY <1>1, <2>1, <2>2, StoreKeepsRowTypes
    <3>2. QED
      BY <1>1, <2>1, <2>3, <2>5, <3>1 DEF LockInv, AdapterTypeOK, Calls, IdleClient
  <2>7. NewestIsNewest'
    BY <1>1, <2>1, <2>5 DEF LockInv, AdapterTypeOK, NewestIsNewest, Row
  <2>8. DrawnIsNewer'
    <3>1. SUFFICES ASSUME NEW p \in Owners, p # o
                   PROVE  /\ clients[p].op = "read" /\ Holds(p, clients[p].key)'
                               => newest'[clients[p].key] < counter
                          /\ clients[p].op = "write"
                               => /\ clients[p].token <= counter
                                  /\ Holds(p, clients[p].key)'
                                       => newest'[clients[p].key] < clients[p].token
      BY <2>1, <2>3, <2>4 DEF DrawnIsNewer, Holds
    <3>2. CASE clients[p].op = "read"
      <4>1. clients[p].key \in Keys
        BY <3>2 DEF LockInv, AdapterTypeOK, Calls, IdleClient
      <4>2. QED
        BY <2>4, <2>5, <3>1, <3>2, <4>1 DEF LockInv, DrawnIsNewer
    <3>3. CASE clients[p].op = "write"
      <4>1. clients[p].key \in Keys
        BY <3>3 DEF LockInv, AdapterTypeOK, Calls, IdleClient
      <4>2. QED
        BY <2>4, <2>5, <3>1, <3>3, <4>1 DEF LockInv, DrawnIsNewer
    <3>4. QED
      BY <3>2, <3>3
  <2>9. QED
    BY <2>6, <2>7, <2>8 DEF LockInv
<1>4. QED
  BY <1>2, <1>3

LEMMA LockInvStep ==
  ASSUME LockInv, LockAssumption, [AdapterNext]_lockVars
  PROVE  LockInv'
PROOF
<1>1. /\ IdleClient \in Calls /\ IdleClient.op = "idle"
      /\ counter \in Nat
      /\ \A k \in DOMAIN rows : k \in Keys /\ RowOK(rows[k])
      /\ \A k \in Keys : newest[k] \in Nat /\ newest[k] <= counter
  BY DEF LockInv, AdapterTypeOK, NewestIsNewest, Calls, IdleClient
<1>2. CASE UNCHANGED lockVars
  BY <1>2 DEF lockVars, LockInv, AdapterTypeOK, NewestIsNewest, DrawnIsNewer, Holds, RowOK, Calls, IdleClient
<1>3. CASE LockTick
  <2>1. ASSUME NEW k \in DOMAIN rows'
        PROVE  /\ RowOK(rows'[k])
               /\ rows'[k].owner = rows[k].owner /\ rows'[k].token = rows[k].token
    BY <1>1, <1>3 DEF LockTick, RowOK, LockAssumption
  <2>2. QED
    BY <1>3, <2>1, RowsKeepInv DEF LockTick
<1>4. ASSUME NEW o \in Owners, ClientStep(o) PROVE LockInv'
  <2>1. ASSUME NEW k \in Keys, NEW ttl \in Ttls, Acquire(o, k, ttl) PROVE LockInv'
    <3>1. PICK md \in Metadata : Store(k, Row(o, counter', ttl, md))
      BY <1>1, <2>1 DEF Acquire, Holds, RowOK, Metadata
    <3>2. QED
      BY <2>1, <3>1, DrawAndStoreKeepsInv DEF Acquire
  <2>2. ASSUME NEW k \in Keys, ForceSteal(o, k) PROVE LockInv'
    <3>1. PICK ttl \in Ttls \cup {StealTtl} : Store(k, Row(o, counter', ttl, "stolen"))
      BY <1>1, <2>2 DEF ForceSteal, RowOK
    <3>2. "stolen" \in Metadata
      BY DEF Metadata
    <3>3. QED
      BY <2>2, <3>1, <3>2, DrawAndStoreKeepsInv DEF ForceSteal
  <2>3. ASSUME NEW k \in Keys, Release(o, k) PROVE LockInv'
    BY <1>1, <2>3, RowsKeepInv DEF Release
  <2>4. ASSUME NEW k \in Keys, NEW ttl \in Ttls, ExtendBump(o, k, ttl) PROVE LockInv'
    <3> DEFINE call == [op |-> "read", key |-> k, ttl |-> ttl]
    <3>1. call \in Calls /\ call.op = "read" /\ call.key = k
      BY DEF Calls
    <3>2. ClientBecomes(o, call) /\ UNCHANGED <<rows, newest>>
      BY <2>4 DEF ExtendBump
    <3>3. counter' \in Nat /\ counter <= counter' /\ newest[k] < counter'
      BY <1>1, <2>4 DEF ExtendBump, Bump
    <3> HIDE DEF call
    <3>4. QED
      BY <3>1, <3>2, <3>3, CallKeepsInv
  <2>5. CASE ExtendRead(o)
    <3> DEFINE call == [op |-> "write", key |-> clients[o].key, ttl |-> clients[o].ttl,
                        token |-> counter]
    <3>1. clients[o].key \in Keys /\ clients[o].ttl \in Ttls
      BY <2>5 DEF ExtendRead, LockInv, AdapterTypeOK, Calls, IdleClient
    <3>2. /\ call \in Calls /\ call.op = "write"
          /\ call.key = clients[o].key /\ call.token = counter
      BY <1>1, <3>1 DEF Calls
    <3>3. Holds(o, clients[o].key) => newest[clients[o].key] < counter
      BY <2>5 DEF ExtendRead, LockInv, DrawnIsNewer
    <3>4. ClientBecomes(o, call) /\ UNCHANGED <<rows, counter, newest>>
      BY <2>5 DEF ExtendRead
    <3> HIDE DEF call
    <3>5. QED
      BY <1>1, <3>2, <3>3, <3>4, CallKeepsInv
  <2>6. CASE ExtendWrite(o)
    BY <2>6, ExtendWriteKeepsInv
  <2>7. CASE ExtendInspect(o)
    <3>1. IdleClient \in Calls /\ IdleClient.op = "idle"
      BY DEF Calls, IdleClient
    <3>2. ClientBecomes(o, IdleClient) /\ UNCHANGED <<rows, counter, newest>>
      BY <2>7 DEF ExtendInspect
    <3>3. QED
      BY <1>1, <3>1, <3>2, CallKeepsInv
  <2>8. CASE Abort(o)
    BY <1>1, <2>8, CallKeepsInv DEF Abort
  <2>9. QED
    BY <1>4, <2>1, <2>2, <2>3, <2>4, <2>5, <2>6, <2>7, <2>8 DEF ClientStep
<1>5. QED
  BY <1>2, <1>3, <1>4 DEF AdapterNext

(* The fencing counter is at least every token in the table, a row's token *)
(* is the newest its key has had, and an extend in progress carries a      *)
(* token above the row it is about to update.                              *)
THEOREM TokensStayAhead == AdapterSpec => []LockInv
PROOF
<1>1. AdapterInit => LockInv
  BY DEF AdapterInit, LockInv, AdapterTypeOK, NewestIsNewest, DrawnIsNewer, Calls, IdleClient
<1>2. LockInv /\ [AdapterNext]_lockVars => LockInv'
  BY LockInvStep, LockAssumption
<1>3. QED
  BY <1>1, <1>2, PTL DEF AdapterSpec

-----------------------------------------------------------------------------
(* Refinement *)

Holder == [k \in Keys |-> IF k \in DOMAIN rows THEN rows[k].owner ELSE Nobody]

(* A row written with a newer token is a grant.                            *)
LEMMA StoreIsGrant ==
  ASSUME LockInv,
         NEW o \in Owners, NEW k \in Keys, NEW t \in Nat,
         NEW ttl \in Ttls \cup {StealTtl}, NEW md \in Metadata,
         Store(k, Row(o, t, ttl, md)), t > newest[k]
  PROVE  Lock!Grant(k, o)
PROOF
<1>1. /\ DOMAIN rows' = DOMAIN rows \cup {k}
      /\ rows'[k] = Row(o, t, ttl, md)
      /\ \A j \in DOMAIN rows : j # k => rows'[j] = rows[j]
      /\ newest'[k] = t
  BY StoreFacts
<1>2. newest' = [newest EXCEPT ![k] = t]
  BY DEF Store, Row
<1>3. Holder' = [Holder EXCEPT ![k] = o]
  <2>1. rows'[k].owner = o
    BY <1>1 DEF Row
  <2>2. ASSUME NEW j \in Keys
        PROVE  (IF j \in DOMAIN rows' THEN rows'[j].owner ELSE Nobody)
                 = IF j = k THEN o ELSE Holder[j]
    BY <1>1, <2>1 DEF Holder
  <2>3. QED
    BY <2>2 DEF Holder
<1>4. QED
  BY <1>1, <1>2, <1>3 DEF Lock!Grant, Holder

LEMMA StepIsLockStep ==
  ASSUME LockInv, [AdapterNext]_lockVars
  PROVE  [Lock!LockNext]_Lock!lockVars
PROOF
<1>1. /\ counter \in Nat
      /\ \A k \in DOMAIN rows : k \in Keys /\ RowOK(rows[k])
      /\ \A k \in Keys : newest[k] \in Nat /\ newest[k] <= counter
  BY DEF LockInv, AdapterTypeOK, NewestIsNewest
<1>2. ASSUME UNCHANGED <<rows, newest>> PROVE UNCHANGED Lock!lockVars
  BY <1>2 DEF Lock!lockVars
<1>3. ASSUME NEW o \in Owners, NEW k \in Keys, NEW ttl \in Ttls \cup {StealTtl},
             NEW md \in Metadata, Bump, Store(k, Row(o, counter', ttl, md))
      PROVE  Lock!LockNext
  <2>1. PICK t \in Nat : t = counter' /\ t > newest[k]
    BY <1>1, <1>3 DEF Bump
  <2>2. Store(k, Row(o, t, ttl, md))
    BY <1>3, <2>1
  <2>3. Lock!Grant(k, o)
    BY <2>1, <2>2, StoreIsGrant
  <2>4. QED
    BY <2>3 DEF Lock!LockNext
<1>4. CASE UNCHANGED lockVars
  BY <1>2, <1>4 DEF lockVars
<1>5. CASE LockTick
  <2>1. Holder' = Holder
    BY <1>1, <1>5 DEF LockTick, Holder, RowOK
  <2>2. UNCHANGED newest
    BY <1>5 DEF LockTick
  <2>3. QED
    BY <2>1, <2>2 DEF Lock!lockVars, Holder
<1>6. ASSUME NEW o \in Owners, ClientStep(o) PROVE [Lock!LockNext]_Lock!lockVars
  <2>1. ASSUME NEW k \in Keys, NEW ttl \in Ttls, Acquire(o, k, ttl)
        PROVE  Lock!LockNext
    <3>1. PICK md \in Metadata : Store(k, Row(o, counter', ttl, md))
      BY <1>1, <2>1 DEF Acquire, Holds, RowOK, Metadata
    <3>2. QED
      BY <1>3, <2>1, <3>1 DEF Acquire
  <2>2. ASSUME NEW k \in Keys, ForceSteal(o, k) PROVE Lock!LockNext
    <3>1. PICK ttl \in Ttls \cup {StealTtl} : Store(k, Row(o, counter', ttl, "stolen"))
      BY <1>1, <2>2 DEF ForceSteal, RowOK
    <3>2. "stolen" \in Metadata
      BY DEF Metadata
    <3>3. QED
      BY <1>3, <2>2, <3>1, <3>2 DEF ForceSteal
  <2>3. ASSUME NEW k \in Keys, Release(o, k) PROVE Lock!LockNext
    <3>1. Holder' = [Holder EXCEPT ![k] = Nobody] /\ UNCHANGED newest
      BY <1>1, <2>3 DEF Release, Holder
    <3>2. QED
      BY <3>1 DEF Lock!LockNext, Lock!Free, Holder
  <2>4. CASE ExtendWrite(o) /\ Holds(o, clients[o].key)
    <3> DEFINE k == clients[o].key
               t == clients[o].token
               ttl == clients[o].ttl
               md == rows[k].metadata
    <3>1. k \in Keys /\ t \in Nat /\ ttl \in Ttls
      BY <2>4 DEF ExtendWrite, LockInv, AdapterTypeOK, Calls, IdleClient
    <3>2. md \in Metadata /\ t > newest[k]
      BY <1>1, <2>4, <3>1 DEF ExtendWrite, LockInv, DrawnIsNewer, Holds, RowOK
    <3>3. Store(k, Row(o, t, ttl, md))
      BY <2>4 DEF ExtendWrite
    <3> HIDE DEF k, t, ttl, md
    <3>4. Lock!Grant(k, o)
      BY <3>1, <3>2, <3>3, StoreIsGrant
    <3>5. QED
      BY <3>1, <3>4 DEF Lock!LockNext
  <2>5. ASSUME \/ \E k \in Keys, ttl \in Ttls : ExtendBump(o, k, ttl)
               \/ ExtendRead(o)
               \/ ExtendWrite(o) /\ ~Holds(o, clients[o].key)
               \/ ExtendInspect(o)
               \/ Abort(o)
        PROVE  UNCHANGED <<rows, newest>>
    BY <2>5 DEF ExtendBump, ExtendRead, ExtendWrite, ExtendInspect, Abort
  <2>6. QED
    BY <1>2, <1>6, <2>1, <2>2, <2>3, <2>4, <2>5 DEF ClientStep
<1>7. QED
  BY <1>4, <1>5, <1>6 DEF AdapterNext

(* SqliteLockAdapter implements the fenced lock: whatever processes do     *)
(* between the statements of extend, a token that reaches a key's row is   *)
(* above every token the key has had.                                      *)
THEOREM SqliteLockIsFenced == AdapterSpec => ImplementsFencedLock
PROOF
<1>1. AdapterInit => Lock!LockInit
  BY DEF AdapterInit, Lock!LockInit
<1>2. LockInv /\ [AdapterNext]_lockVars => [Lock!LockNext]_Lock!lockVars
  BY StepIsLockStep
<1>3. QED
  BY <1>1, <1>2, TokensStayAhead, PTL DEF AdapterSpec, ImplementsFencedLock, Lock!LockSpec


-----------------------------------------------------------------------------
(* Reservations alone never exceed the hard cap, for any number of callers *)
(* and any amounts.  The argument: a ledger that is not open is full, and  *)
(* grants nothing; while it is open every reservation moves the version;   *)
(* so a copy that passes the comparison of versions is the ledger itself,  *)
(* and the check made on the copy is a check of the ledger.                *)


(* A new ledger satisfies the invariant.                                   *)
LEMMA ReserveInvInit == BudgetInit => ReserveInv
BY BudgetAssumption
   DEF BudgetInit, ReserveInv, BudgetTypeOK, Ledgers, LedgerStatuses, NewLedger,
       CopiesAreCurrent, Current, OnlyReserved, HardCapHolds

(* getLedger gives its caller a current copy.                              *)
LEMMA ReadKeepsReserveInv ==
  ASSUME ReserveInv, NEW c \in Callers, Read(c)
  PROVE  ReserveInv'
BY DEF ReserveInv, BudgetTypeOK, Ledgers, LedgerStatuses, Read,
       CopiesAreCurrent, Current, OnlyReserved, HardCapHolds

(* reserve: checked on the copy, granted on the ledger.                    *)
LEMMA ReserveKeepsReserveInv ==
  ASSUME ReserveInv, NEW c \in Callers, NEW amount \in Amounts, Reserve(c, amount)
  PROVE  ReserveInv'
<1> DEFINE next == [reserved |-> held[c].reserved + amount,
                    settled  |-> held[c].settled,
                    released |-> held[c].released,
                    status   |-> IF Committed(held[c]) + amount = HardCap
                                 THEN "hard_cap_reached" ELSE held[c].status,
                    version  |-> IF held[c].status = "open"
                                 THEN held[c].version + 1 ELSE held[c].version]
<1> DEFINE new == [amount |-> amount, status |-> "reserved",
                   tracked |-> next, orphaned |-> FALSE]
<1>1. /\ ledger' = next
      /\ held' = [held EXCEPT ![c] = next]
      /\ reservations' = Append(reservations, new)
      /\ Committed(held[c]) + amount <= HardCap
  BY DEF Reserve, Persist
<1>2. held[c] = ledger
  BY DEF Reserve, ReserveInv, CopiesAreCurrent
<1>3. /\ ledger \in Ledgers /\ amount \in Nat /\ amount > 0 /\ HardCap \in Nat
      /\ held \in [Callers -> Ledgers] /\ reservations \in Seq(Reservations)
  BY BudgetAssumption DEF ReserveInv, BudgetTypeOK
<1>4. Committed(held[c]) = ledger.reserved
  BY <1>2, <1>3 DEF ReserveInv, OnlyReserved, Committed, Ledgers
<1>5. ledger.status = "open"
  BY <1>1, <1>3, <1>4 DEF ReserveInv, OnlyReserved, Ledgers
<1>6. /\ next.reserved = ledger.reserved + amount /\ next.settled = 0 /\ next.released = 0
      /\ next.version = ledger.version + 1
      /\ next.status = IF ledger.reserved + amount = HardCap THEN "hard_cap_reached" ELSE "open"
  BY <1>2, <1>4, <1>5 DEF ReserveInv, OnlyReserved
<1>7. next \in Ledgers
  BY <1>2, <1>3, <1>5 DEF Ledgers, LedgerStatuses
<1>8. new \in Reservations
  BY <1>3, <1>7 DEF Reservations
<1> HIDE DEF next, new
<1>9. BudgetTypeOK'
  BY <1>1, <1>3, <1>7, <1>8 DEF BudgetTypeOK
<1>10. CopiesAreCurrent'
  <2> SUFFICES ASSUME NEW d \in Callers
               PROVE  /\ held'[d].version <= next.version
                      /\ held'[d].version = next.version => held'[d] = next
    BY <1>1 DEF CopiesAreCurrent, Current
  <2>1. CASE d = c
    BY <2>1, <1>1, <1>3, <1>7 DEF Ledgers
  <2>2. CASE d # c
    <3>1. held'[d] = held[d] /\ held[d] \in Ledgers
      BY <2>2, <1>1, <1>3
    <3>2. held[d].version <= ledger.version
      BY DEF ReserveInv, CopiesAreCurrent
    <3>3. held[d].version \in Nat /\ ledger.version \in Nat
      BY <3>1, <1>3 DEF Ledgers
    <3>4. held[d].version < next.version
      BY <3>2, <3>3, <1>6
    <3> QED  BY <3>1, <3>3, <3>4, <1>6
  <2> QED  BY <2>1, <2>2
<1>11. OnlyReserved' /\ HardCapHolds'
  BY <1>1, <1>3, <1>4, <1>6 DEF OnlyReserved, HardCapHolds, Ledgers
<1> QED  BY <1>9, <1>10, <1>11 DEF ReserveInv

(* The inductive invariant of runs that reserve.                           *)
THEOREM ReserveInvariant == ReserveSpec => []ReserveInv
<1>1. ReserveInv /\ [ReserveNext]_budgetVars => ReserveInv'
  <2> SUFFICES ASSUME ReserveInv, [ReserveNext]_budgetVars
               PROVE  ReserveInv'
    OBVIOUS
  <2>1. CASE ReserveNext
    BY <2>1, ReadKeepsReserveInv, ReserveKeepsReserveInv DEF ReserveNext
  <2>2. CASE UNCHANGED budgetVars
    BY <2>2 DEF budgetVars, ReserveInv, BudgetTypeOK, CopiesAreCurrent, Current,
                OnlyReserved, HardCapHolds
  <2> QED  BY <2>1, <2>2
<1> QED  BY <1>1, ReserveInvInit, PTL DEF ReserveSpec

(* reserveBudgetLedger never grants beyond the hard cap, however the       *)
(* callers' reads and reservations interleave.                             *)
THEOREM ReservationsWithinHardCap == ReserveSpec => []HardCapHolds
<1>1. ReserveInv => HardCapHolds
  BY DEF ReserveInv
<1> QED  BY <1>1, ReserveInvariant, PTL

(* Of a ledger that is only reserved from, no two reservations are made    *)
(* from the same copy: what reserve adds to the ledger is added to all the *)
(* reservations before it.  Settling and releasing are left out of         *)
(* ReserveSpec because with them it is false.                              *)
THEOREM ReservationsAddUp == ReserveSpec => []LedgerCountsReservations
<1>1. BudgetInit => LedgerCountsReservations
  <2> SUFFICES ASSUME BudgetInit PROVE LedgerCountsReservations
    OBVIOUS
  <2> DEFINE total == [k \in 0..0 |-> 0]
  <2>1. total \in [0..0 -> Nat] /\ total[0] = 0
    OBVIOUS
  <2>2. Len(reservations) = 0 /\ DOMAIN reservations = {} /\ ledger.reserved = 0
    BY DEF BudgetInit, NewLedger
  <2> HIDE DEF total
  <2> QED  BY <2>1, <2>2 DEF LedgerCountsReservations
<1>2. ASSUME ReserveInv, ReserveInv', LedgerCountsReservations, [ReserveNext]_budgetVars
      PROVE  LedgerCountsReservations'
  <2>1. CASE UNCHANGED <<ledger, reservations>>
    BY <1>2, <2>1 DEF LedgerCountsReservations
  <2>2. ASSUME NEW c \in Callers, NEW amount \in Amounts, Reserve(c, amount)
        PROVE  LedgerCountsReservations'
    <3> DEFINE n == Len(reservations)
               new == [amount |-> amount, status |-> "reserved",
                       tracked |-> ledger', orphaned |-> FALSE]
    <3>1. held[c] = ledger
      BY <1>2, <2>2 DEF Reserve, ReserveInv, CopiesAreCurrent
    <3>2. /\ reservations' = Append(reservations, new)
          /\ ledger'.reserved = ledger.reserved + amount
      BY <2>2, <3>1 DEF Reserve, Persist
    <3>3. /\ amount \in Nat /\ HardCap \in Nat
          /\ ledger.reserved \in Nat /\ ledger'.settled = 0
          /\ n \in Nat /\ reservations \in Seq(Reservations)
      BY <1>2, BudgetAssumption DEF ReserveInv, BudgetTypeOK, Ledgers, OnlyReserved
    <3>4. ledger.reserved + amount \in Nat
      BY <3>3
    <3>5. OpenAmount(new) = amount
      BY DEF OpenAmount
    <3> HIDE DEF new
    <3>6. /\ Len(reservations') = n + 1 /\ DOMAIN reservations' = 1..(n + 1)
          /\ DOMAIN reservations = 1..n
          /\ reservations'[n + 1] = new
          /\ \A r \in 1..n : reservations'[r] = reservations[r]
      BY <3>2, <3>3
    <3>7. PICK total \in [0..n -> Nat] :
            /\ total[0] = 0
            /\ \A r \in 1..n : total[r] = total[r - 1] + OpenAmount(reservations[r])
            /\ ledger.reserved = total[n]
      BY <1>2, <3>6 DEF LedgerCountsReservations
    <3> HIDE DEF n
    <3> DEFINE more == [k \in 0..(n + 1) |-> IF k = n + 1 THEN total[n] + amount ELSE total[k]]
    <3>8. /\ more \in [0..(n + 1) -> Nat]
          /\ more[n + 1] = ledger'.reserved
          /\ \A k \in 0..n : more[k] = total[k]
      BY <3>2, <3>3, <3>4, <3>7
    <3> HIDE DEF more
    <3>9. ASSUME NEW r \in 1..(n + 1)
          PROVE  more[r] = more[r - 1] + OpenAmount(reservations'[r])
      <4>1. CASE r = n + 1
        BY <3>2, <3>3, <3>5, <3>6, <3>7, <3>8, <4>1
      <4>2. CASE r # n + 1
        <5>1. r \in 1..n /\ r \in 0..n /\ r - 1 \in 0..n
          BY <3>3, <4>2
        <5> QED  BY <3>6, <3>7, <3>8, <5>1
      <4> QED  BY <4>1, <4>2
    <3>10. more[0] = 0
      BY <3>3, <3>7, <3>8
    <3> QED  BY <3>6, <3>8, <3>9, <3>10 DEF LedgerCountsReservations
  <2>3. CASE \E c \in Callers : Read(c)
    BY <2>1, <2>3 DEF Read
  <2> QED  BY <1>2, <2>1, <2>2, <2>3 DEF ReserveNext, budgetVars
<1> QED  BY <1>1, <1>2, ReserveInvariant, PTL DEF ReserveSpec

-----------------------------------------------------------------------------
(* Idempotency keys *)

StoredEntries == [status : {"pending", "recorded"}, method : Methods, by : Requests, born : Nat]

RequestRecords ==
  {NoRequest} \cup
  [phase : {"running"}, key : IdempotencyKeys, method : Methods, born : Nat] \cup
  [phase : {"exempt", "exempt_done"}, key : IdempotencyKeys, method : Methods] \cup
  [phase : {"answered"}, key : IdempotencyKeys, born : Nat] \cup
  [phase : {"conflict", "in_flight", "replayed", "failed"}, key : IdempotencyKeys, by : Requests]

(* Request r holds its key: the entry is its reservation or its answer.    *)
HoldsKey(r) ==
  /\ requests[r].phase \in {"running", "answered"} /\ requests[r].born > expired
  /\ requests[r].key \in Guarded

LEMMA RequestFields ==
  ASSUME IdempotencyTypeOK, NEW r \in Requests
  PROVE  /\ requests[r] \in RequestRecords
         /\ requests[r].phase \in {"running", "answered"} =>
              requests[r].key \in IdempotencyKeys /\ requests[r].born \in Nat
         /\ requests[r].phase \in {"running", "exempt"} =>
              requests[r].key \in IdempotencyKeys /\ requests[r].method \in Methods
<1>1. requests[r] \in RequestRecords
  BY DEF IdempotencyTypeOK, RequestRecords
<1> QED  BY <1>1 DEF RequestRecords, NoRequest

LEMMA EntryFields ==
  ASSUME IdempotencyTypeOK, NEW k \in IdempotencyKeys
  PROVE  /\ entries[k] \in {NoEntry} \cup StoredEntries
         /\ entries[k].status # "none" => entries[k] \in StoredEntries
<1>1. entries[k] \in {NoEntry} \cup StoredEntries
  BY DEF IdempotencyTypeOK, StoredEntries
<1> QED  BY <1>1 DEF NoEntry

(* cleanupExpired takes away no entry that has not expired.                *)
LEMMA KeptEntries ==
  ASSUME IdempotencyTypeOK
  PROVE  /\ Kept(entries) \in [IdempotencyKeys -> {NoEntry} \cup StoredEntries]
         /\ \A k \in IdempotencyKeys :
              entries[k].status # "none" /\ entries[k].born > expired => Kept(entries)[k] = entries[k]
<1>1. \A k \in IdempotencyKeys : Kept(entries)[k] \in {NoEntry} \cup StoredEntries
  BY EntryFields DEF Kept
<1>2. ASSUME NEW k \in IdempotencyKeys, entries[k].status # "none", entries[k].born > expired
      PROVE  Kept(entries)[k] = entries[k]
  <2>1. entries[k].born \in Nat /\ expired \in Nat
    BY <1>2, EntryFields DEF StoredEntries, IdempotencyTypeOK
  <2>2. ~(entries[k].born <= expired)
    BY <1>2, <2>1
  <2> QED  BY <2>2 DEF Kept
<1> QED  BY <1>1, <1>2 DEF Kept

(* evictOldestEntry takes entries away and changes none.                   *)
LEMMA RoomFacts ==
  ASSUME NEW table \in [IdempotencyKeys -> {NoEntry} \cup StoredEntries], NEW key
  PROVE  /\ WithRoomFor(key, table) \in [IdempotencyKeys -> {NoEntry} \cup StoredEntries]
         /\ \A k \in Used(WithRoomFor(key, table)) : WithRoomFor(key, table)[k] = table[k]
<1> DEFINE oldest == {k \in Used(table) : \A j \in Used(table) : table[k].born <= table[j].born}
           less == [k \in IdempotencyKeys |-> IF k \in oldest THEN NoEntry ELSE table[k]]
<1>1. WithRoomFor(key, table) = table \/ WithRoomFor(key, table) = less
  BY Zenon DEF WithRoomFor
<1> HIDE DEF oldest
<1>2. less \in [IdempotencyKeys -> {NoEntry} \cup StoredEntries]
  OBVIOUS
<1>3. \A k \in Used(less) : less[k] = table[k]
  BY DEF Used, NoEntry
<1> HIDE DEF less
<1> QED  BY Zenon, <1>1, <1>2, <1>3

(* No key comes under guard again: requests to exempt paths stay what they *)
(* are, and what was evicted was.                                          *)
LEMMA GuardedShrinks ==
  ASSUME NEW r \in Requests, \A q \in Requests \ {r} : requests'[q] = requests[q],
         evicted \subseteq evicted',
         requests[r].phase \in {"exempt", "exempt_done"} =>
           requests'[r].phase \in {"exempt", "exempt_done"} /\ requests'[r].key = requests[r].key
  PROVE  Guarded' \subseteq Guarded
<1>1. ExemptKeys \subseteq ExemptKeys'
  BY Zenon DEF ExemptKeys
<1> QED  BY Zenon, <1>1 DEF Guarded

(* What the inductive invariant says of a request that holds its key.      *)
LEMMA HoldersEntry ==
  ASSUME IdempotencyInv, NEW q \in Requests, HoldsKey(q)
  PROVE  /\ requests[q].key \in IdempotencyKeys
         /\ entries[requests[q].key].status = IF requests[q].phase = "running" THEN "pending" ELSE "recorded"
         /\ entries[requests[q].key].by = q
         /\ entries[requests[q].key].born = requests[q].born
         /\ entries[requests[q].key].born > expired
         /\ entries[requests[q].key].status # "none"
<1>1. requests[q].key \in IdempotencyKeys
  BY RequestFields DEF IdempotencyInv, HoldsKey
<1>2. /\ entries[requests[q].key].status = IF requests[q].phase = "running" THEN "pending" ELSE "recorded"
      /\ entries[requests[q].key].by = q
      /\ entries[requests[q].key].born = requests[q].born
  BY DEF IdempotencyInv, HoldsKey
<1> QED  BY <1>1, <1>2 DEF HoldsKey

(* A step of request r on its key that leaves the others' entries.         *)
LEMMA RequestMove ==
  ASSUME IdempotencyInv, IdempotencyTypeOK', NEW r \in Requests,
         expired' = expired, written' \in {written, written + 1},
         \A q \in Requests \ {r} : requests'[q] = requests[q], Guarded' \subseteq Guarded,
         \A q \in Requests \ {r} : HoldsKey(q) /\ requests[q].key \in Guarded' =>
                                     entries'[requests[q].key] = entries[requests[q].key],
         requests'[r].phase \in {"running", "answered"} =>
           /\ requests'[r].born = written + 1 /\ written' = written + 1
           /\ entries'[requests'[r].key].status =
                IF requests'[r].phase = "running" THEN "pending" ELSE "recorded"
           /\ entries'[requests'[r].key].by = r
           /\ entries'[requests'[r].key].born = written + 1
  PROVE  IdempotencyInv'
<1>1. written \in Nat /\ expired \in Nat /\ expired <= written /\ written' \in Nat
  BY DEF IdempotencyInv, IdempotencyTypeOK
<1>2. ASSUME NEW q \in Requests, requests'[q].phase \in {"running", "answered"}
      PROVE  /\ requests'[q].born <= written'
             /\ requests'[q].born > expired' /\ requests'[q].key \in Guarded' =>
                  /\ entries'[requests'[q].key].status =
                       IF requests'[q].phase = "running" THEN "pending" ELSE "recorded"
                  /\ entries'[requests'[q].key].by = q
                  /\ entries'[requests'[q].key].born = requests'[q].born
             /\ requests'[q].phase = "running" => requests'[q].born > expired'
  <2>1. CASE q = r
    BY <1>1, <1>2, <2>1
  <2>2. CASE q # r
    <3>1. requests'[q] = requests[q]
      BY Zenon, <2>2
    <3>2. /\ requests[q].born <= written
          /\ requests[q].phase = "running" => requests[q].born > expired
      BY Zenon, <1>2, <3>1 DEF IdempotencyInv, Running
    <3>3. requests[q].born \in Nat
      BY Zenon, <1>2, <3>1, RequestFields DEF IdempotencyInv
    <3>4. requests'[q].born > expired' /\ requests'[q].key \in Guarded' => HoldsKey(q)
      BY Zenon, <1>2, <3>1 DEF HoldsKey
    <3>5. HoldsKey(q) /\ requests[q].key \in Guarded' =>
            /\ entries'[requests[q].key].status =
                 IF requests[q].phase = "running" THEN "pending" ELSE "recorded"
            /\ entries'[requests[q].key].by = q
            /\ entries'[requests[q].key].born = requests[q].born
      BY <2>2, HoldersEntry
    <3>6. requests'[q].born <= written'
      BY <1>1, <3>1, <3>2, <3>3
    <3> QED  BY Zenon, <3>1, <3>2, <3>4, <3>5, <3>6
  <2> QED  BY Zenon, <2>1, <2>2
<1> QED  BY Zenon, <1>2 DEF IdempotencyInv, Running

LEMMA IdempotencyInitial == IdempotencyInit => IdempotencyInv
<1> SUFFICES ASSUME IdempotencyInit PROVE IdempotencyInv
  OBVIOUS
<1>1. \A r \in Requests : requests[r].phase = "new"
  BY DEF IdempotencyInit, NoRequest
<1>2. 0 \in Nat /\ 0 \in 0..0
  OBVIOUS
<1>3. IdempotencyTypeOK
  BY <1>2 DEF IdempotencyInit, IdempotencyTypeOK
<1> QED  BY <1>1, <1>3 DEF IdempotencyInv, Running

(* Write: the entry of the key, and those of the others that have neither  *)
(* expired nor made room.                                                  *)
LEMMA WriteFacts ==
  ASSUME IdempotencyTypeOK, NEW key \in IdempotencyKeys,
         NEW status \in {"pending", "recorded"}, NEW method \in Methods, NEW r \in Requests,
         Write(key, status, method, r)
  PROVE  /\ entries' \in [IdempotencyKeys -> {NoEntry} \cup StoredEntries]
         /\ entries'[key] = [status |-> status, method |-> method, by |-> r, born |-> written + 1]
         /\ \A k \in IdempotencyKeys \ {key} :
              /\ entries[k].status # "none" /\ entries[k].born > expired /\ k \notin evicted'
              => entries'[k] = entries[k]
         /\ written' = written + 1 /\ evicted \subseteq evicted' /\ evicted' \subseteq IdempotencyKeys
<1> DEFINE e == [status |-> status, method |-> method, by |-> r, born |-> written + 1]
           kept == Kept(entries)
           table == WithRoomFor(key, kept)
<1>1. written + 1 \in Nat
  BY DEF IdempotencyTypeOK
<1>2. e \in StoredEntries
  BY <1>1 DEF StoredEntries
<1>3. /\ entries' = [table EXCEPT ![key] = e] /\ written' = written + 1
      /\ evicted' = evicted \cup (Used(kept) \ Used(table))
  BY Zenon DEF Write
<1>4. /\ kept \in [IdempotencyKeys -> {NoEntry} \cup StoredEntries]
      /\ \A k \in IdempotencyKeys :
           entries[k].status # "none" /\ entries[k].born > expired => kept[k] = entries[k]
  BY KeptEntries
<1> HIDE DEF e, kept
<1>5. /\ table \in [IdempotencyKeys -> {NoEntry} \cup StoredEntries]
      /\ \A k \in Used(table) : table[k] = kept[k]
  BY <1>4, RoomFacts
<1> HIDE DEF table
<1>6. /\ entries' \in [IdempotencyKeys -> {NoEntry} \cup StoredEntries]
      /\ entries'[key] = e
      /\ \A k \in IdempotencyKeys \ {key} : entries'[k] = table[k]
  BY <1>2, <1>3, <1>5
<1>7. ASSUME NEW k \in IdempotencyKeys \ {key}, entries[k].status # "none",
             entries[k].born > expired, k \notin evicted'
      PROVE  entries'[k] = entries[k]
  <2>1. kept[k] = entries[k] /\ k \in Used(kept)
    BY Zenon, <1>4, <1>7 DEF Used
  <2>2. k \in Used(table)
    BY Zenon, <1>3, <1>7, <2>1
  <2> QED  BY Zenon, <1>5, <1>6, <2>1, <2>2
<1>8. evicted \subseteq evicted' /\ evicted' \subseteq IdempotencyKeys
  BY Zenon, <1>3 DEF IdempotencyTypeOK, Used
<1> QED  BY Zenon, <1>3, <1>6, <1>7, <1>8 DEF e

(* A request that runs its handler shares its key with no holder.          *)
LEMMA OwnKey ==
  ASSUME IdempotencyInv, NEW r \in Requests, requests[r].phase \in {"running", "exempt"},
         NEW q \in Requests \ {r}, HoldsKey(q)
  PROVE  requests[q].key # requests[r].key
<1>1. CASE requests[r].phase = "exempt"
  <2>1. requests[r].key \notin Guarded
    BY Zenon, <1>1 DEF Guarded, ExemptKeys
  <2> QED  BY Zenon, <2>1 DEF HoldsKey
<1>2. CASE requests[r].phase = "running"
  <2>1. requests[r].key \in Guarded => HoldsKey(r)
    BY Zenon, <1>2 DEF IdempotencyInv, Running, HoldsKey
  <2>2. requests[q].key \in Guarded /\ entries[requests[q].key].by = q
    BY Zenon, HoldersEntry DEF HoldsKey
  <2>3. HoldsKey(r) => entries[requests[r].key].by = r
    BY Zenon, HoldersEntry
  <2> QED  BY Zenon, <2>1, <2>2, <2>3
<1> QED  BY <1>1, <1>2

(* What others hold is not touched when request r writes under a key of    *)
(* its own.                                                                *)
LEMMA OthersKept ==
  ASSUME IdempotencyInv, NEW r \in Requests, NEW key \in IdempotencyKeys,
         \A q \in Requests \ {r} : HoldsKey(q) => requests[q].key # key,
         \A k \in IdempotencyKeys \ {key} :
           /\ entries[k].status # "none" /\ entries[k].born > expired /\ k \notin evicted'
           => entries'[k] = entries[k]
  PROVE  \A q \in Requests \ {r} : HoldsKey(q) /\ requests[q].key \in Guarded' =>
           entries'[requests[q].key] = entries[requests[q].key]
<1> SUFFICES ASSUME NEW q \in Requests \ {r}, HoldsKey(q), requests[q].key \in Guarded'
             PROVE  entries'[requests[q].key] = entries[requests[q].key]
  OBVIOUS
<1>1. /\ requests[q].key \in IdempotencyKeys \ {key}
      /\ entries[requests[q].key].born > expired
      /\ entries[requests[q].key].status # "none"
  BY Zenon, HoldersEntry
<1>2. requests[q].key \notin evicted'
  BY Zenon DEF Guarded
<1> QED  BY Zenon, <1>1, <1>2

LEMMA ReserveKeyStep ==
  ASSUME IdempotencyInv, NEW r \in Requests, NEW key \in IdempotencyKeys,
         NEW method \in Methods, ReserveKey(r, key, method)
  PROVE  IdempotencyInv'
<1> DEFINE new == [phase |-> "running", key |-> key, method |-> method, born |-> written + 1]
<1>1. /\ IdempotencyTypeOK /\ Write(key, "pending", method, r) /\ expired' = expired
      /\ requests' = [requests EXCEPT ![r] = new] /\ requests[r].phase = "new"
  BY Zenon DEF ReserveKey, IdempotencyInv
<1>2. /\ entries' \in [IdempotencyKeys -> {NoEntry} \cup StoredEntries]
      /\ entries'[key] = [status |-> "pending", method |-> method, by |-> r, born |-> written + 1]
      /\ \A k \in IdempotencyKeys \ {key} :
           /\ entries[k].status # "none" /\ entries[k].born > expired /\ k \notin evicted'
           => entries'[k] = entries[k]
      /\ written' = written + 1 /\ evicted \subseteq evicted' /\ evicted' \subseteq IdempotencyKeys
  BY Zenon, <1>1, WriteFacts
<1>3. written + 1 \in Nat /\ expired \in 0..(written + 1)
  BY <1>1 DEF IdempotencyTypeOK
<1>4. new \in RequestRecords
  BY Zenon, <1>3 DEF RequestRecords
<1>5. requests \in [Requests -> RequestRecords]
  BY Zenon, <1>1 DEF IdempotencyTypeOK, RequestRecords
<1>6. IdempotencyTypeOK'
  <2>1. requests' \in [Requests -> RequestRecords]
    BY <1>1, <1>4, <1>5
  <2> QED  BY Zenon, <1>1, <1>2, <1>3, <2>1 DEF IdempotencyTypeOK, RequestRecords, StoredEntries
<1>7. requests'[r] = new /\ \A q \in Requests \ {r} : requests'[q] = requests[q]
  BY <1>1, <1>5
<1>8. Guarded' \subseteq Guarded
  BY <1>1, <1>2, <1>7, GuardedShrinks
<1>9. ASSUME NEW q \in Requests \ {r}, HoldsKey(q)
      PROVE  requests[q].key # key
  <2>1. /\ requests[q].key \in IdempotencyKeys
        /\ entries[requests[q].key].born > expired
        /\ entries[requests[q].key].status # "none"
    BY Zenon, <1>9, HoldersEntry
  <2>2. Kept(entries)[requests[q].key].status # "none"
    BY Zenon, <1>1, <2>1, KeptEntries
  <2> QED  BY Zenon, <2>2 DEF ReserveKey
<1>10. \A q \in Requests \ {r} : HoldsKey(q) /\ requests[q].key \in Guarded' =>
         entries'[requests[q].key] = entries[requests[q].key]
  BY <1>2, <1>9, OthersKept
<1>11. /\ requests'[r].phase = "running" /\ requests'[r].born = written + 1 /\ requests'[r].key = key
       /\ entries'[key].status = "pending" /\ entries'[key].by = r /\ entries'[key].born = written + 1
  BY <1>2, <1>7
<1> QED  BY Zenon, <1>1, <1>2, <1>6, <1>7, <1>8, <1>10, <1>11, RequestMove

LEMMA RespondStep ==
  ASSUME IdempotencyInv, NEW r \in Requests, Respond(r)
  PROVE  IdempotencyInv'
<1> DEFINE key == requests[r].key
           method == requests[r].method
           new == IF requests[r].phase = "running"
                  THEN [phase |-> "answered", key |-> key, born |-> written + 1]
                  ELSE [requests[r] EXCEPT !.phase = "exempt_done"]
<1>1. /\ IdempotencyTypeOK /\ Write(key, "recorded", method, r) /\ expired' = expired
      /\ requests[r].phase \in {"running", "exempt"}
  BY Zenon DEF Respond, IdempotencyInv
<1>2. /\ key \in IdempotencyKeys /\ method \in Methods
      /\ requests[r] \in RequestRecords /\ requests \in [Requests -> RequestRecords]
  BY <1>1, RequestFields DEF IdempotencyTypeOK, RequestRecords
<1>3. requests' = [requests EXCEPT ![r] = new]
  BY Zenon, <1>2 DEF Respond
<1>4. \A q \in Requests \ {r} : HoldsKey(q) => requests[q].key # key
  BY Zenon, <1>1, OwnKey
<1>5. written + 1 \in Nat /\ expired \in 0..(written + 1)
  BY <1>1 DEF IdempotencyTypeOK
<1>6. /\ new \in RequestRecords /\ new.key = key
      /\ requests[r].phase = "running" => new.phase = "answered" /\ new.born = written + 1
      /\ requests[r].phase = "exempt" => new.phase = "exempt_done"
  <2>1. CASE requests[r].phase = "running"
    <3>1. new = [phase |-> "answered", key |-> key, born |-> written + 1]
      BY <2>1
    <3> HIDE DEF new, key
    <3> QED  BY <1>2, <1>5, <2>1, <3>1 DEF RequestRecords
  <2>2. CASE requests[r].phase = "exempt"
    <3>1. /\ new = [requests[r] EXCEPT !.phase = "exempt_done"]
          /\ requests[r] \in [phase : {"exempt", "exempt_done"}, key : IdempotencyKeys, method : Methods]
      BY <1>2, <2>2 DEF RequestRecords, NoRequest
    <3>2. /\ new \in [phase : {"exempt", "exempt_done"}, key : IdempotencyKeys, method : Methods]
          /\ new.phase = "exempt_done" /\ new.key = key
      BY <3>1
    <3> HIDE DEF new
    <3> QED  BY <2>2, <3>2 DEF RequestRecords
  <2> QED  BY <1>1, <2>1, <2>2
<1> HIDE DEF key, method, new
<1>7. /\ entries' \in [IdempotencyKeys -> {NoEntry} \cup StoredEntries]
      /\ entries'[key] = [status |-> "recorded", method |-> method, by |-> r, born |-> written + 1]
      /\ \A k \in IdempotencyKeys \ {key} :
           /\ entries[k].status # "none" /\ entries[k].born > expired /\ k \notin evicted'
           => entries'[k] = entries[k]
      /\ written' = written + 1 /\ evicted \subseteq evicted' /\ evicted' \subseteq IdempotencyKeys
  BY Zenon, <1>1, <1>2, WriteFacts
<1>8. requests'[r] = new /\ \A q \in Requests \ {r} : requests'[q] = requests[q]
  BY <1>2, <1>3
<1>9. IdempotencyTypeOK'
  <2>1. requests' \in [Requests -> RequestRecords]
    BY <1>2, <1>3, <1>6
  <2> QED  BY Zenon, <1>1, <1>5, <1>7, <2>1 DEF IdempotencyTypeOK, RequestRecords, StoredEntries
<1>10. Guarded' \subseteq Guarded
  BY <1>1, <1>6, <1>7, <1>8, GuardedShrinks DEF key
<1>11. \A q \in Requests \ {r} : HoldsKey(q) /\ requests[q].key \in Guarded' =>
         entries'[requests[q].key] = entries[requests[q].key]
  BY <1>2, <1>4, <1>7, OthersKept
<1>12. /\ entries'[key].status = "recorded" /\ entries'[key].by = r /\ entries'[key].born = written + 1
       /\ requests'[r].key = key
       /\ requests'[r].phase \in {"running", "answered"} =>
            requests'[r].phase = "answered" /\ requests'[r].born = written + 1
  BY <1>1, <1>6, <1>7, <1>8
<1> QED  BY Zenon, <1>1, <1>7, <1>8, <1>9, <1>10, <1>11, <1>12, RequestMove

(* A request that ends without an answer of its own.                       *)
LEMMA EndsWithFacts ==
  ASSUME IdempotencyTypeOK, NEW r \in Requests, NEW key \in IdempotencyKeys, NEW by \in Requests,
         NEW how \in {"conflict", "in_flight", "replayed", "failed"}, EndsWith(r, key, how, by)
  PROVE  /\ requests' \in [Requests -> RequestRecords]
         /\ requests'[r].phase \notin {"running", "answered"}
         /\ \A q \in Requests \ {r} : requests'[q] = requests[q]
<1> DEFINE new == [phase |-> how, key |-> key, by |-> by]
<1>1. new \in RequestRecords /\ new.phase \notin {"running", "answered"}
  BY Zenon DEF RequestRecords
<1>2. requests' = [requests EXCEPT ![r] = new]
  BY DEF EndsWith
<1>3. requests \in [Requests -> RequestRecords]
  BY DEF IdempotencyTypeOK, RequestRecords
<1> HIDE DEF new
<1> QED  BY <1>1, <1>2, <1>3

LEMMA DuplicateStep ==
  ASSUME IdempotencyInv, NEW r \in Requests, NEW key \in IdempotencyKeys,
         NEW method \in Methods, Duplicate(r, key, method)
  PROVE  IdempotencyInv'
<1>1. /\ IdempotencyTypeOK /\ entries' = Kept(entries) /\ written' = written /\ expired' = expired
      /\ requests[r].phase = "new" /\ evicted' = evicted /\ Kept(entries)[key].status # "none"
  BY Zenon DEF Duplicate, IdempotencyInv
<1>2. entries[key].status # "none"
  BY <1>1 DEF Kept
<1>3. entries[key].by \in Requests
  BY <1>1, <1>2, EntryFields DEF StoredEntries
<1>4. \E how \in {"conflict", "in_flight", "replayed", "failed"}, by \in Requests : EndsWith(r, key, how, by)
  BY <1>3 DEF Duplicate
<1>5. /\ requests' \in [Requests -> RequestRecords]
      /\ requests'[r].phase \notin {"running", "answered"}
      /\ \A q \in Requests \ {r} : requests'[q] = requests[q]
  BY <1>1, <1>4, EndsWithFacts
<1>6. entries' \in [IdempotencyKeys -> {NoEntry} \cup StoredEntries]
  BY <1>1, KeptEntries
<1>7. IdempotencyTypeOK'
  BY <1>1, <1>5, <1>6 DEF IdempotencyTypeOK, RequestRecords, StoredEntries
<1>8. \A q \in Requests \ {r} : HoldsKey(q) => entries'[requests[q].key] = entries[requests[q].key]
  BY Zenon, <1>1, HoldersEntry, KeptEntries
<1>9. Guarded' \subseteq Guarded
  BY <1>1, <1>5, GuardedShrinks
<1> QED  BY Zenon, <1>1, <1>5, <1>7, <1>8, <1>9, RequestMove

(* A write to an exempt path is let through.                               *)
LEMMA PassStep ==
  ASSUME IdempotencyInv, NEW r \in Requests, NEW key \in IdempotencyKeys,
         NEW method \in Methods, PassExempt(r, key, method)
  PROVE  IdempotencyInv'
<1> DEFINE new == [phase |-> "exempt", key |-> key, method |-> method]
<1>1. /\ IdempotencyTypeOK /\ UNCHANGED <<entries, written, expired, evicted>>
      /\ requests[r].phase = "new" /\ requests' = [requests EXCEPT ![r] = new]
      /\ requests \in [Requests -> RequestRecords]
  BY Zenon DEF PassExempt, IdempotencyInv, IdempotencyTypeOK, RequestRecords
<1>2. new \in RequestRecords /\ new.phase = "exempt"
  BY Zenon DEF RequestRecords
<1> HIDE DEF new
<1>3. /\ requests' \in [Requests -> RequestRecords] /\ requests'[r] = new
      /\ \A q \in Requests \ {r} : requests'[q] = requests[q]
  BY <1>1, <1>2
<1>4. IdempotencyTypeOK'
  BY Zenon, <1>1, <1>3 DEF IdempotencyTypeOK, RequestRecords
<1>5. Guarded' \subseteq Guarded
  BY <1>1, <1>3, GuardedShrinks
<1>6. requests'[r].phase \notin {"running", "answered"}
  BY <1>2, <1>3
<1> QED  BY Zenon, <1>1, <1>3, <1>4, <1>5, <1>6, RequestMove

LEMMA FailureStep ==
  ASSUME IdempotencyInv, NEW r \in Requests, RespondFailure(r) \/ Throw(r)
  PROVE  IdempotencyInv'
<1> DEFINE key == requests[r].key
           new == IF requests[r].phase = "running"
                  THEN [phase |-> "failed", key |-> key, by |-> r]
                  ELSE [requests[r] EXCEPT !.phase = "exempt_done"]
<1>1. /\ IdempotencyTypeOK /\ UNCHANGED <<written, expired, evicted>>
      /\ requests[r].phase \in {"running", "exempt"}
      /\ entries' \in {entries, [entries EXCEPT ![key] = NoEntry]}
  BY Zenon DEF RespondFailure, Throw, Fails, IdempotencyInv
<1>2. /\ key \in IdempotencyKeys /\ requests[r] \in RequestRecords
      /\ requests \in [Requests -> RequestRecords]
  BY <1>1, RequestFields DEF IdempotencyTypeOK, RequestRecords
<1>3. requests' = [requests EXCEPT ![r] = new]
  BY Zenon, <1>2 DEF RespondFailure, Throw, Fails
<1>4. \A q \in Requests \ {r} : HoldsKey(q) => requests[q].key \in IdempotencyKeys \ {key}
  BY Zenon, <1>1, OwnKey, HoldersEntry
<1>5. /\ new \in RequestRecords /\ new.phase \notin {"running", "answered"}
      /\ requests[r].phase = "exempt" => new.phase = "exempt_done" /\ new.key = key
  <2>1. CASE requests[r].phase = "running"
    <3>1. new = [phase |-> "failed", key |-> key, by |-> r]
      BY <2>1
    <3> HIDE DEF new, key
    <3> QED  BY <1>2, <2>1, <3>1 DEF RequestRecords
  <2>2. CASE requests[r].phase = "exempt"
    <3>1. /\ new = [requests[r] EXCEPT !.phase = "exempt_done"]
          /\ requests[r] \in [phase : {"exempt", "exempt_done"}, key : IdempotencyKeys, method : Methods]
      BY <1>2, <2>2 DEF RequestRecords, NoRequest
    <3>2. /\ new \in [phase : {"exempt", "exempt_done"}, key : IdempotencyKeys, method : Methods]
          /\ new.phase = "exempt_done" /\ new.key = key
      BY <3>1
    <3> HIDE DEF new
    <3> QED  BY <2>2, <3>2 DEF RequestRecords
  <2> QED  BY <1>1, <2>1, <2>2
<1> HIDE DEF key, new
<1>6. /\ requests' \in [Requests -> RequestRecords] /\ requests'[r] = new
      /\ \A q \in Requests \ {r} : requests'[q] = requests[q]
  BY <1>2, <1>3, <1>5
<1>7. /\ entries' \in [IdempotencyKeys -> {NoEntry} \cup StoredEntries]
      /\ \A k \in IdempotencyKeys \ {key} : entries'[k] = entries[k]
  <2>1. entries \in [IdempotencyKeys -> {NoEntry} \cup StoredEntries]
    BY Zenon, <1>1 DEF IdempotencyTypeOK, StoredEntries
  <2> QED  BY Zenon, <1>1, <1>2, <2>1
<1>8. IdempotencyTypeOK'
  BY Zenon, <1>1, <1>6, <1>7 DEF IdempotencyTypeOK, RequestRecords, StoredEntries
<1>9. \A q \in Requests \ {r} : HoldsKey(q) => entries'[requests[q].key] = entries[requests[q].key]
  BY Zenon, <1>4, <1>7
<1>10. Guarded' \subseteq Guarded
  BY <1>1, <1>5, <1>6, GuardedShrinks DEF key
<1>11. requests'[r].phase \notin {"running", "answered"}
  BY Zenon, <1>5, <1>6
<1> QED  BY Zenon, <1>1, <1>6, <1>8, <1>9, <1>10, <1>11, RequestMove

LEMMA TtlStep ==
  ASSUME IdempotencyInv, TtlPasses
  PROVE  IdempotencyInv'
<1>1. /\ expired' = expired + 1 /\ UNCHANGED <<entries, requests, written, evicted>>
      /\ \A r \in Running : requests[r].born # expired + 1
      /\ written \in Nat /\ expired \in Nat /\ expired < written
  BY DEF TtlPasses, IdempotencyInv, IdempotencyTypeOK
<1>2. IdempotencyTypeOK'
  BY <1>1 DEF IdempotencyInv, IdempotencyTypeOK
<1>3. ASSUME NEW r \in Requests, requests[r].phase \in {"running", "answered"}
      PROVE  /\ requests[r].born > expired' => requests[r].born > expired
             /\ r \in Running => requests[r].born > expired'
  <2>1. requests[r].born \in Nat /\ (r \in Running => requests[r].born > expired)
    BY <1>3, RequestFields DEF IdempotencyInv
  <2> QED  BY <1>1, <2>1
<1>4. Running' = Running /\ Guarded' = Guarded
  BY Zenon, <1>1 DEF Running, Guarded, ExemptKeys
<1>5. \A r \in Running' : requests'[r].born > expired'
  BY <1>1, <1>3, <1>4 DEF Running
<1> QED  BY Zenon, <1>1, <1>2, <1>3, <1>4, <1>5 DEF IdempotencyInv

LEMMA IdempotencyPreserved ==
  IdempotencyInv /\ [IdempotencyNext]_idempotencyVars => IdempotencyInv'
<1> SUFFICES ASSUME IdempotencyInv, [IdempotencyNext]_idempotencyVars PROVE IdempotencyInv'
  OBVIOUS
<1>1. CASE UNCHANGED idempotencyVars
  <2>1. Running' = Running /\ Guarded' = Guarded /\ (IdempotencyTypeOK => IdempotencyTypeOK')
    BY Zenon, <1>1 DEF idempotencyVars, IdempotencyTypeOK, Running, Guarded, ExemptKeys
  <2> QED  BY Zenon, <1>1, <2>1 DEF idempotencyVars, IdempotencyInv
<1> QED
  BY <1>1, ReserveKeyStep, DuplicateStep, PassStep, RespondStep, FailureStep, TtlStep
     DEF IdempotencyNext

(* For any bound of the storage: no two requests with one key both run     *)
(* their handlers, and none runs while the answer of another is still      *)
(* kept, unless the key's entry was evicted to make room or a write to an  *)
(* exempt path came with the same key.                                     *)
THEOREM OneExecution == IdempotencySpec => []OneExecutionPerKey
<1>1. IdempotencyInv => OneExecutionPerKey
  <2> SUFFICES ASSUME IdempotencyInv, NEW r \in Running, NEW q \in Requests \ {r},
                      requests[r].key \in Guarded,
                      requests[q].phase \in {"running", "answered"},
                      requests[q].key = requests[r].key
               PROVE  requests[q].phase = "answered" /\ requests[q].born <= expired
    BY Zenon DEF OneExecutionPerKey
  <2>1. r \in Requests /\ requests[r].phase = "running"
    BY DEF Running
  <2>2. ~HoldsKey(q)
    BY Zenon, <2>1, OwnKey
  <2>3. requests[q].born \in Nat /\ expired \in Nat
    BY RequestFields DEF IdempotencyInv, IdempotencyTypeOK
  <2>4. requests[q].born <= expired
    BY <2>2, <2>3 DEF HoldsKey
  <2>5. q \notin Running
    BY <2>3, <2>4 DEF IdempotencyInv
  <2> QED  BY <2>4, <2>5 DEF Running
<1> QED  BY IdempotencyInitial, IdempotencyPreserved, <1>1, PTL DEF IdempotencySpec

=============================================================================
