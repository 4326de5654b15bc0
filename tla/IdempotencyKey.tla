--------------------------- MODULE IdempotencyKey ---------------------------
(***************************************************************************)
(* The Idempotency-Key middleware of the HTTP server with its in-memory    *)
(* storage.  A write request reserves its key, runs its handler, and       *)
(* records the response under the key; other requests with the key run in  *)
(* between, as every await of dispatchRequest lets them.  A write to an    *)
(* exempt path (tokens, webhooks) reserves nothing, yet if it carries a    *)
(* key its response is recorded like any other.                            *)
(*                                                                         *)
(* All entries live equally long, so the order in which they are written   *)
(* is the order in which they expire: entry number i has expired when      *)
(* i <= expired.  The clock stands still inside check, and a handler       *)
(* returns within ttlMs, a day.  The route timeout answers the client      *)
(* alone: dispatchRequest goes on and records, so it is no step here.      *)
(***************************************************************************)
EXTENDS Naturals, FiniteSets

CONSTANTS Requests,           \* write requests with a key, first and retried
          IdempotencyKeys,    \* the storage keys they carry
          Methods,            \* their HTTP methods
          MaxEntries          \* maxEntries of the storage

ASSUME IdempotencyAssumption == MaxEntries \in Nat \ {0}

VARIABLES entries,            \* the Map of the storage
          requests,           \* what became of each request
          written,            \* entries written so far
          expired,            \* how many of them have expired
          evicted             \* keys whose entry was evicted before it expired

idempotencyVars == <<entries, requests, written, expired, evicted>>

NoRequest == [phase |-> "new"]
NoEntry == [status |-> "none"]

IdempotencyTypeOK ==
  /\ entries \in [IdempotencyKeys -> {NoEntry} \cup
       [status : {"pending", "recorded"}, method : Methods, by : Requests, born : Nat]]
  /\ requests \in [Requests -> {NoRequest} \cup
       [phase : {"running"}, key : IdempotencyKeys, method : Methods, born : Nat] \cup
       [phase : {"exempt", "exempt_done"}, key : IdempotencyKeys, method : Methods] \cup
       [phase : {"answered"}, key : IdempotencyKeys, born : Nat] \cup
       [phase : {"conflict", "in_flight", "replayed", "failed"}, key : IdempotencyKeys, by : Requests]]
  /\ written \in Nat /\ expired \in 0..written /\ evicted \subseteq IdempotencyKeys

IdempotencyInit ==
  /\ entries = [k \in IdempotencyKeys |-> NoEntry]
  /\ requests = [r \in Requests |-> NoRequest]
  /\ written = 0
  /\ expired = 0 /\ evicted = {}

-----------------------------------------------------------------------------
(* cleanupExpired                                                          *)
Kept(table) ==
  [k \in IdempotencyKeys |->
     IF table[k].status # "none" /\ table[k].born <= expired THEN NoEntry ELSE table[k]]

Used(table) == {k \in IdempotencyKeys : table[k].status # "none"}

(* evictOldestEntry, when a new key finds the map full                     *)
WithRoomFor(key, table) ==
  LET oldest == {k \in Used(table) : \A j \in Used(table) : table[k].born <= table[j].born}
  IN IF key \in Used(table) \/ Cardinality(Used(table)) < MaxEntries THEN table
     ELSE [k \in IdempotencyKeys |-> IF k \in oldest THEN NoEntry ELSE table[k]]

Write(key, status, method, by) ==
  LET table == WithRoomFor(key, Kept(entries))
  IN /\ entries' = [table EXCEPT
          ![key] = [status |-> status, method |-> method, by |-> by, born |-> written + 1]]
     /\ evicted' = evicted \cup (Used(Kept(entries)) \ Used(table))
     /\ written' = written + 1

EndsWith(r, key, how, by) ==
  requests' = [requests EXCEPT ![r] = [phase |-> how, key |-> key, by |-> by]]

\* Variant: a reservation that is still pending does not stop a second one.
ReserveOverPending(r, key, method) ==
  /\ requests[r].phase = "new"
  /\ Kept(entries)[key].status \in {"none", "pending"}
  /\ Write(key, "pending", method, r)
  /\ requests' = [requests EXCEPT ![r] = [phase |-> "running", key |-> key, method |-> method,
                                          born |-> written + 1]]
  /\ UNCHANGED expired

(* check: reservePending finds the key free, and the handler is called     *)
ReserveKey(r, key, method) ==
  /\ requests[r].phase = "new"
  /\ Kept(entries)[key].status = "none"
  /\ Write(key, "pending", method, r)
  /\ requests' = [requests EXCEPT ![r] = [phase |-> "running", key |-> key, method |-> method,
                                          born |-> written + 1]]
  /\ UNCHANGED expired

(* check: the key is taken.  Another method is a conflict, a pending entry *)
(* means "in flight", and a recorded response is replayed.                 *)
Duplicate(r, key, method) ==
  /\ requests[r].phase = "new"
  /\ Kept(entries)[key].status # "none"
  /\ entries' = Kept(entries)
  /\ \/ /\ entries[key].method # method
        /\ EndsWith(r, key, "conflict", r)
     \/ /\ entries[key].method = method /\ entries[key].status = "pending"
        /\ EndsWith(r, key, "in_flight", entries[key].by)
     \/ /\ entries[key].method = method /\ entries[key].status = "recorded"
        /\ EndsWith(r, key, "replayed", entries[key].by)
  /\ UNCHANGED <<written, expired, evicted>>

(* check: a write to an exempt path is let through, whatever its key.      *)
PassExempt(r, key, method) ==
  /\ requests[r].phase = "new"
  /\ requests' = [requests EXCEPT ![r] = [phase |-> "exempt", key |-> key, method |-> method]]
  /\ UNCHANGED <<entries, written, expired, evicted>>

(* The handler answers below 500, and record keeps the response.           *)
Respond(r) ==
  /\ requests[r].phase \in {"running", "exempt"}
  /\ Write(requests[r].key, "recorded", requests[r].method, r)
  /\ requests' = [requests EXCEPT ![r] =
       IF @.phase = "running" THEN [phase |-> "answered", key |-> @.key, born |-> written + 1]
       ELSE [@ EXCEPT !.phase = "exempt_done"]]
  /\ UNCHANGED expired

Fails(r) ==
  /\ requests[r].phase \in {"running", "exempt"}
  /\ requests' = [requests EXCEPT ![r] =
       IF @.phase = "running" THEN [phase |-> "failed", key |-> @.key, by |-> r]
       ELSE [@ EXCEPT !.phase = "exempt_done"]]

(* The handler answers 500 or above, and record frees the key.             *)
RespondFailure(r) ==
  /\ Fails(r)
  /\ entries' = [entries EXCEPT ![requests[r].key] = NoEntry]
  /\ UNCHANGED <<written, expired, evicted>>

(* The handler throws, finds no route, or answers with more than can be    *)
(* cached: dispatchRequest answers the error and records nothing.          *)
Throw(r) ==
  /\ Fails(r)
  /\ UNCHANGED <<entries, written, expired, evicted>>

Running == {r \in Requests : requests[r].phase = "running"}

TtlPasses ==
  /\ expired < written
  /\ \A r \in Running : requests[r].born # expired + 1
  /\ expired' = expired + 1
  /\ UNCHANGED <<entries, requests, written, evicted>>

IdempotencyNext ==
  \/ \E r \in Requests :
       \/ \E key \in IdempotencyKeys, method \in Methods :
            ReserveKey(r, key, method) \/ Duplicate(r, key, method) \/ PassExempt(r, key, method)
       \/ Respond(r) \/ RespondFailure(r) \/ Throw(r)
  \/ TtlPasses

IdempotencySpec == IdempotencyInit /\ [][IdempotencyNext]_idempotencyVars

-----------------------------------------------------------------------------
(* Properties *)

(* The keys that writes to exempt paths carry                              *)
ExemptKeys == {requests[r].key : r \in {q \in Requests : requests[q].phase \in {"exempt", "exempt_done"}}}

(* The keys the storage keeps for the writes that reserved them            *)
Guarded == IdempotencyKeys \ (ExemptKeys \cup evicted)

(* Retries do not run a write twice: while a request runs its handler, no  *)
(* other request with its key runs, or has an answer that is still kept.   *)
(* Two things alone may break it: the entry of the key had to make room,   *)
(* or a write to an exempt path came with the same key.                    *)
OneExecutionPerKey ==
  \A r \in Running : \A q \in Requests \ {r} :
    /\ requests[r].key \in Guarded
    /\ requests[q].phase \in {"running", "answered"}
    /\ requests[q].key = requests[r].key
    => requests[q].phase = "answered" /\ requests[q].born <= expired

(* The inductive invariant: the entry of a key is that of the request that *)
(* runs its handler, or of the answer that is still kept.                  *)
IdempotencyInv ==
  /\ IdempotencyTypeOK
  /\ \A r \in Requests : requests[r].phase \in {"running", "answered"} =>
       /\ requests[r].born <= written
       /\ requests[r].born > expired /\ requests[r].key \in Guarded =>
            LET entry == entries[requests[r].key]
            IN /\ entry.status = IF requests[r].phase = "running" THEN "pending" ELSE "recorded"
               /\ entry.by = r /\ entry.born = requests[r].born
  /\ \A r \in Running : requests[r].born > expired

(* A key whose reservation is pending belongs to a request that is still   *)
(* being processed, which is what the in-flight answer tells the client.   *)
(* It does not hold: a handler that throws leaves its reservation behind.  *)
InFlightIsProcessed ==
  \A k \in IdempotencyKeys :
    Kept(entries)[k].status = "pending" => entries[k].by \in Running

=============================================================================
