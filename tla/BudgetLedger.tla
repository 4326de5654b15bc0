---------------------------- MODULE BudgetLedger ----------------------------
(***************************************************************************)
(* One budget ledger, the reservations made on it, and the callers of      *)
(* BudgetAllocator and of reserveBudgetLedger.  A caller works on a copy   *)
(* of the ledger it got earlier; the version it carries is compared with   *)
(* the ledger's when the call is made.  Runs that reserve on budget_ledgers *)
(* rows (ReserveSpec) never settle them; allocators that live as long as   *)
(* their process also settle, release, increment and sweep (BudgetSpec).   *)
(***************************************************************************)
EXTENDS Integers, Sequences

CONSTANTS Callers,
          Amounts,            \* amounts asked for and spent
          HardCap,            \* hardCap of the ledger
          TierLimits,         \* the limits callers' contexts resolve to
          MaxReservations     \* bound on the reservations made

ASSUME BudgetAssumption ==
  /\ Amounts \subseteq Nat \ {0}
  /\ HardCap \in Nat /\ MaxReservations \in Nat /\ TierLimits \subseteq Nat

VARIABLES ledger,             \* the ledger as last persisted
          held,               \* the copy of it each caller has
          reservations        \* in the order they were tracked

budgetVars == <<ledger, held, reservations>>

LedgerStatuses == {"open", "hard_cap_reached"}

Ledgers == [reserved : Nat, settled : Nat, released : Nat,
            status : LedgerStatuses, version : Nat]

(* A reservation; tracked is the ledger its activeReservations entry has,  *)
(* orphaned says that its run is over and its time, too.                   *)
Reservations == [amount : Nat, status : {"reserved", "settled", "released"},
                 tracked : Ledgers, orphaned : BOOLEAN]

BudgetTypeOK ==
  /\ ledger \in Ledgers
  /\ held \in [Callers -> Ledgers]
  /\ reservations \in Seq(Reservations)

(* createBudgetLedger, persisted by ensureBudgetLedger.                    *)
NewLedger == [reserved |-> 0, settled |-> 0, released |-> 0,
              status |-> "open", version |-> 0]

BudgetInit ==
  /\ ledger = NewLedger
  /\ held = [c \in Callers |-> NewLedger]
  /\ reservations = <<>>

AtLeast0(n) == IF n < 0 THEN 0 ELSE n

(* activeCommittedAmount *)
Committed(l) == l.reserved + l.settled - l.released

-----------------------------------------------------------------------------
(* getLedger *)
Read(c) ==
  /\ held' = [held EXCEPT ![c] = ledger]
  /\ UNCHANGED <<ledger, reservations>>

(* The compare-and-set of the ledger's version.                            *)
Current(l) == l.version = ledger.version

Persist(c, next) ==
  /\ ledger' = next
  /\ held' = [held EXCEPT ![c] = next]

\* Variant: looks at what is settled only.
ReserveIgnoringReserved(c, amount) ==
  LET l    == held[c]
      next == [reserved |-> l.reserved + amount, settled |-> l.settled,
               released |-> l.released, status |-> "open", version |-> l.version + 1]
  IN  /\ Len(reservations) < MaxReservations
      /\ Current(l)
      /\ l.settled + amount <= HardCap
      /\ Persist(c, next)
      /\ reservations' = Append(reservations,
           [amount |-> amount, status |-> "reserved", tracked |-> next, orphaned |-> FALSE])

(* reserve and reserveBudgetHardCap: the version moves only while the      *)
(* ledger is open.                                                         *)
Reserve(c, amount) ==
  LET l    == held[c]
      next == [reserved |-> l.reserved + amount,
               settled  |-> l.settled,
               released |-> l.released,
               status   |-> IF Committed(l) + amount = HardCap
                            THEN "hard_cap_reached" ELSE l.status,
               version  |-> IF l.status = "open" THEN l.version + 1 ELSE l.version]
  IN  /\ Len(reservations) < MaxReservations
      /\ Current(l)
      /\ Committed(l) + amount <= HardCap
      /\ Persist(c, next)
      /\ reservations' = Append(reservations,
           [amount |-> amount, status |-> "reserved", tracked |-> next, orphaned |-> FALSE])

(* The reservations a caller may still work with.                          *)
Usable == {r \in DOMAIN reservations :
             reservations[r].status = "reserved" /\ ~reservations[r].orphaned}

(* streamingIncrement; limit is the caller's tierLimit, or the hard cap.   *)
StreamingIncrement(c, r, amount, limit) ==
  LET next == [held[c] EXCEPT !.reserved = @ + amount, !.version = @ + 1]
  IN  /\ Current(held[c])
      /\ Committed(held[c]) + amount <= limit
      /\ Persist(c, next)
      /\ reservations' = [reservations EXCEPT ![r].amount = @ + amount, ![r].tracked = next]

SettledLedger(l, amount, actual) ==
  [l EXCEPT !.reserved = AtLeast0(@ - amount),
            !.settled  = @ + actual,
            !.released = @ + AtLeast0(amount - actual),
            !.version  = @ + 1]

ReleasedLedger(l, amount) ==
  [l EXCEPT !.reserved = AtLeast0(@ - amount), !.released = @ + amount, !.version = @ + 1]

(* settle: may cost more than was reserved, within the hard cap.           *)
Settle(c, r, actual) ==
  LET l      == held[c]
      amount == reservations[r].amount
  IN  /\ Current(l)
      /\ AtLeast0(l.reserved - amount) + l.settled + actual <= HardCap
      /\ Persist(c, SettledLedger(l, amount, actual))
      /\ reservations' = [reservations EXCEPT ![r].status = "settled"]

ReleaseReservation(c, r) ==
  /\ Current(held[c])
  /\ Persist(c, ReleasedLedger(held[c], reservations[r].amount))
  /\ reservations' = [reservations EXCEPT ![r].status = "released"]

(* The run of a reservation ends without settling it, and it expires.      *)
Abandon(r) ==
  /\ reservations' = [reservations EXCEPT ![r].orphaned = TRUE]
  /\ UNCHANGED <<ledger, held>>

Orphans == {r \in DOMAIN reservations :
              reservations[r].status = "reserved" /\ reservations[r].orphaned}

(* sweepExpiredReservations goes through the entries in order and releases *)
(* each from the ledger the entry has.  The first whose version is no      *)
(* longer the ledger's throws, and ends the sweep; a release moves the     *)
(* version, so that of one ledger's entries it gets to release one.        *)
SweepExpiredReservations ==
  \E r \in Orphans :
    /\ \A q \in Orphans : r <= q
    /\ Current(reservations[r].tracked)
    /\ ledger' = ReleasedLedger(reservations[r].tracked, reservations[r].amount)
    /\ reservations' = [reservations EXCEPT ![r].status = "released"]
    /\ UNCHANGED held

-----------------------------------------------------------------------------
ReserveNext ==
  \E c \in Callers : Read(c) \/ \E amount \in Amounts : Reserve(c, amount)

ReserveSpec == BudgetInit /\ [][ReserveNext]_budgetVars

BudgetNext ==
  \/ ReserveNext
  \/ \E c \in Callers, r \in Usable :
       \/ \E amount \in Amounts : \/ \E limit \in TierLimits : StreamingIncrement(c, r, amount, limit)
                                  \/ Settle(c, r, amount)
       \/ ReleaseReservation(c, r)
  \/ \E r \in Usable : Abandon(r)
  \/ SweepExpiredReservations

BudgetSpec == BudgetInit /\ [][BudgetNext]_budgetVars

-----------------------------------------------------------------------------
(* Properties *)

(* What is settled and reserved at a time is within the hard cap: however  *)
(* reservations interleave, none is granted beyond it.                     *)
HardCapHolds == ledger.settled + ledger.reserved <= HardCap

(* What a reservation that is neither settled nor released counts for.     *)
OpenAmount(reservation) ==
  IF reservation.status = "reserved" THEN reservation.amount ELSE 0

(* No reservation is lost from the books: the ledger's reserved amount is  *)
(* the sum of the reservations that are open, added up one by one.  Where  *)
(* a ledger is only reserved from, it holds: the version stands still on a *)
(* full ledger alone, from which nothing more is granted.  Where it is     *)
(* settled or released as well it does not: that leaves room on a ledger   *)
(* whose status stays hard_cap_reached, two callers reserve with the same  *)
(* version, and the second overwrites the first.                           *)
LedgerCountsReservations ==
  \E total \in [0..Len(reservations) -> Nat] :
    /\ total[0] = 0
    /\ \A r \in DOMAIN reservations :
         total[r] = total[r - 1] + OpenAmount(reservations[r])
    /\ ledger.reserved = total[Len(reservations)]

-----------------------------------------------------------------------------
(* What makes HardCapHolds inductive for runs that only reserve.           *)

(* A copy with the ledger's version is the ledger.                         *)
CopiesAreCurrent ==
  \A c \in Callers :
    /\ held[c].version <= ledger.version
    /\ Current(held[c]) => held[c] = ledger

(* Nothing is settled or released, and only a full ledger is not open.     *)
OnlyReserved ==
  /\ ledger.settled = 0 /\ ledger.released = 0
  /\ ledger.status # "open" => ledger.reserved = HardCap

ReserveInv == BudgetTypeOK /\ CopiesAreCurrent /\ OnlyReserved /\ HardCapHolds

=============================================================================
