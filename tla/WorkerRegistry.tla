--------------------------- MODULE WorkerRegistry ---------------------------
(***************************************************************************)
(* The worker snapshot table and the operations of WorkerRegistryService,  *)
(* together with the heartbeat sweep of the HTTP API server.               *)
(*                                                                         *)
(* A snapshot keeps what scheduling reads: the reported status, the set of *)
(* running executions, how long ago the snapshot was last stamped with a   *)
(* heartbeat, and whether a remote registration was verified.  Telemetry   *)
(* (CPU, memory, rates, restart lineage) is left out.                      *)
(***************************************************************************)
EXTENDS Integers, FiniteSets

CONSTANTS Workers,            \* worker ids
          Executions,         \* execution ids
          Remote,             \* workers whose placement is "remote"
          MaxConcurrency,     \* maxConcurrency each worker registers with
          ReportedStatuses,   \* statuses workers put in their heartbeats
          HeartbeatTtl,       \* staleness threshold, in clock units
          MaxSilence          \* cap on the heartbeat age that is tracked

WorkerStatuses == {"idle", "busy", "degraded", "draining",
                   "unavailable", "quarantined", "offline"}

ASSUME RegistryAssumption ==
  /\ Remote \subseteq Workers
  /\ MaxConcurrency \in [Workers -> Nat]
  /\ ReportedStatuses \subseteq WorkerStatuses
  /\ HeartbeatTtl \in Nat
  /\ MaxSilence \in Nat

VARIABLE workers              \* worker_snapshots: registered id -> snapshot

\* Statuses a coordinator-side refresh never overwrites (toWorkerStatus).
StickyStatuses == {"unavailable", "quarantined", "offline", "draining", "degraded"}

Snapshots == [status   : WorkerStatuses,
              running  : SUBSET Executions,
              silence  : Nat,
              verified : BOOLEAN]

Registered == DOMAIN workers

RegistryTypeOK ==
  /\ Registered \subseteq Workers
  /\ workers \in [Registered -> Snapshots]

RegistryInit == workers = [w \in {} |-> {}]

-----------------------------------------------------------------------------
(* Pure helpers *)

ToWorkerStatus(snapshot, running) ==
  IF snapshot.status \in StickyStatuses THEN snapshot.status
  ELSE IF running # {} THEN "busy" ELSE "idle"

(* What recordHeartbeat leaves in the row when the coordinator refreshes a *)
(* worker's snapshot on its own account (handover, reclaim, reconcile):    *)
(* the heartbeat stamp is renewed although the worker said nothing.        *)
Refreshed(snapshot, running) ==
  [snapshot EXCEPT !.status  = ToWorkerStatus(snapshot, running),
                   !.running = running,
                   !.silence = 0]

RefreshIn(ws, w, running) ==
  IF w \in DOMAIN ws THEN [ws EXCEPT ![w] = Refreshed(@, running)] ELSE ws

RemoveExecution(ws, w, e) ==
  IF w \in DOMAIN ws THEN RefreshIn(ws, w, ws[w].running \ {e}) ELSE ws

MergeExecution(ws, w, e) ==
  IF w \in DOMAIN ws THEN RefreshIn(ws, w, ws[w].running \cup {e}) ELSE ws

Trusted(snapshot, w) == w \notin Remote \/ snapshot.verified

HasAvailableSlot(snapshot, w) == Cardinality(snapshot.running) < MaxConcurrency[w]

AgeBy1(snapshot) ==
  [snapshot EXCEPT !.silence = IF @ < MaxSilence THEN @ + 1 ELSE @]

Aged(ws) == [w \in DOMAIN ws |-> AgeBy1(ws[w])]

-----------------------------------------------------------------------------
(* Operations *)

(* A worker's own heartbeat overwrites status and running set wholesale,   *)
(* registering the worker when it has no row yet.                          *)
RecordHeartbeat(w, status, running) ==
  workers' = [v \in Registered \cup {w} |->
                IF v = w
                THEN [status   |-> status,
                      running  |-> running,
                      silence  |-> 0,
                      verified |-> w \in Registered /\ workers[w].verified]
                ELSE workers[v]]

VerifyRemoteWorkerRegistration(w) ==
  /\ w \in Remote
  /\ workers' = [v \in Registered \cup {w} |->
                   IF v = w
                   THEN [status   |-> IF w \in Registered THEN workers[w].status  ELSE "idle",
                         running  |-> IF w \in Registered THEN workers[w].running ELSE {},
                         silence  |-> 0,
                         verified |-> TRUE]
                   ELSE workers[v]]

SweepStaleWorkerHeartbeats ==
  workers' = [w \in Registered |->
                IF workers[w].silence > HeartbeatTtl
                THEN [workers[w] EXCEPT !.status = "offline"]
                ELSE workers[w]]

=============================================================================
