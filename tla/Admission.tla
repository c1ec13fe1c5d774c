------------------------------- MODULE Admission -------------------------------
(***************************************************************************)
(* run.rs try_reserve and EntryResv: the two walls around a session, the   *)
(* position cap and the spend budget.  Up to 64 entry tasks run it at once *)
(* on several threads.  The cap is checked against two counters that are   *)
(* read one after the other (open positions under the position lock, slot  *)
(* reservations as an atomic), the budget under a third lock; a            *)
(* reservation is later dropped, committed or retained.  Every access to   *)
(* shared state is an action of its own.                                   *)
(***************************************************************************)
EXTENDS Integers, FiniteSets, FiniteSetsExt

CONSTANTS
  Entry,      \* entry tasks of the session
  Held,       \* positions open when the session starts (restored or recovered)
  MaxOpen,    \* rules.max_open_positions
  Budget,     \* rules.session_budget_wei
  Cost,       \* possible risk_cost: eth_per_buy + worst-case burst gas
  Booked      \* possible actual entry value plus mined gas

ASSUME AdmissionAssumption ==
  /\ MaxOpen \in Nat /\ Budget \in Nat
  /\ Cost \subseteq Nat /\ Booked \subseteq Nat
  /\ IsFiniteSet(Entry) /\ IsFiniteSet(Held) /\ Entry \cap Held = {}

VARIABLES
  positions,  \* positions.open_positions()
  open_res,   \* open_res: AtomicU64
  spent,      \* spent: Mutex<U256>
  pc,         \* where each entry task is
  open_now,   \* try_reserve's local of that name
  cost,       \* EntryResv.cost
  booked,     \* history: what commit has booked for each entry
  overrun     \* history: total by which commits exceeded their reservation

vars == <<positions, open_res, spent, pc, open_now, cost, booked, overrun>>

Sat(a, b) == IF a > b THEN a - b ELSE 0

\* A slot is counted, the reserved cost is charged, try_reserve has said yes.
HoldsSlot    == {"undo", "budget", "reserved", "filled", "retained", "slot"}
HoldsCost    == {"reserved", "filled", "retained", "unspend"}
Granted      == {"reserved", "filled", "retained", "slot"}
PC == {"idle", "read", "undo", "budget", "reserved", "filled", "retained",
       "slot", "unspend", "done"}

TypeOK ==
  /\ positions \subseteq Entry \cup Held
  /\ open_res \in Nat
  /\ spent \in Nat
  /\ pc \in [Entry -> PC]
  /\ open_now \in [Entry -> Nat]
  /\ cost \in [Entry -> Nat]
  /\ booked \in [Entry -> Nat]
  /\ overrun \in Nat

Init ==
  /\ positions = Held
  /\ open_res = 0
  /\ spent = 0
  /\ pc = [e \in Entry |-> "idle"]
  /\ open_now = [e \in Entry |-> 0]
  /\ cost = [e \in Entry |-> 0]
  /\ booked = [e \in Entry |-> 0]
  /\ overrun = 0

Goto(e, to) == pc' = [pc EXCEPT ![e] = to]

-----------------------------------------------------------------------------
(* try_reserve *)

\* let open_now = positions.open_positions().len();
ReadOpen(e) ==
  /\ pc[e] = "idle"
  /\ open_now' = [open_now EXCEPT ![e] = Cardinality(positions)]
  /\ Goto(e, "read")
  /\ UNCHANGED <<positions, open_res, spent, cost, booked, overrun>>

\* Mutant: the cap comparison is off by one.
FetchAddPast(e) ==
  /\ pc[e] = "read"
  /\ open_res' = open_res + 1
  /\ open_now' = [open_now EXCEPT ![e] = 0]
  /\ Goto(e, IF open_now[e] + open_res > MaxOpen THEN "undo" ELSE "budget")
  /\ UNCHANGED <<positions, spent, cost, booked, overrun>>

\* let prior = open_res.fetch_add(1): the cap check uses `prior` and the
\* earlier open_now.
FetchAdd(e) ==
  /\ pc[e] = "read"
  /\ open_res' = open_res + 1
  /\ open_now' = [open_now EXCEPT ![e] = 0]
  /\ Goto(e, IF open_now[e] + open_res >= MaxOpen THEN "undo" ELSE "budget")
  /\ UNCHANGED <<positions, spent, cost, booked, overrun>>

\* Mutant: the cost is compared with the whole budget, not with what is left.
ReserveWhole(e, c) ==
  /\ pc[e] = "budget"
  /\ c <= Budget
  /\ spent' = spent + c
  /\ cost' = [cost EXCEPT ![e] = c]
  /\ Goto(e, "reserved")
  /\ UNCHANGED <<positions, open_res, open_now, booked, overrun>>

\* Under spent.lock(): the cost fits what is left of the budget.
Reserve(e, c) ==
  /\ pc[e] = "budget"
  /\ c <= Sat(Budget, spent)
  /\ spent' = spent + c
  /\ cost' = [cost EXCEPT ![e] = c]
  /\ Goto(e, "reserved")
  /\ UNCHANGED <<positions, open_res, open_now, booked, overrun>>

\* Mutant: the budget refusal gives the slot back itself, and again on return.
RefuseTwice(e, c) ==
  /\ pc[e] = "budget"
  /\ c > Sat(Budget, spent)
  /\ open_res' = open_res - 1
  /\ Goto(e, "undo")
  /\ UNCHANGED <<positions, spent, open_now, cost, booked, overrun>>

\* Under spent.lock(): it does not.
RefuseBudget(e, c) ==
  /\ pc[e] = "budget"
  /\ c > Sat(Budget, spent)
  /\ Goto(e, "undo")
  /\ UNCHANGED <<positions, open_res, spent, open_now, cost, booked, overrun>>

\* open_res.fetch_sub(1); return None
Undo(e) ==
  /\ pc[e] = "undo"
  /\ open_res' = open_res - 1
  /\ Goto(e, "done")
  /\ UNCHANGED <<positions, spent, open_now, cost, booked, overrun>>

-----------------------------------------------------------------------------
(* The life of an EntryResv *)

\* handle_launch after a fill (or a paper fill): open_position.
OpenPosition(e) ==
  /\ pc[e] = "reserved"
  /\ positions' = positions \cup {e}
  /\ Goto(e, "filled")
  /\ UNCHANGED <<open_res, spent, open_now, cost, booked, overrun>>

\* Mutant: the booking is added without releasing the reservation.
CommitOnTop(e, b) ==
  /\ pc[e] = "filled" \/ (pc[e] = "reserved" /\ b > 0)
  /\ spent' = spent + b
  /\ booked' = [booked EXCEPT ![e] = b]
  /\ overrun' = overrun + Sat(b, cost[e])
  /\ Goto(e, "slot")
  /\ UNCHANGED <<positions, open_res, open_now, cost>>

\* commit(booked): after a fill, or after reverts that cost gas.
Commit(e, b) ==
  /\ pc[e] = "filled" \/ (pc[e] = "reserved" /\ b > 0)
  /\ spent' = IF b >= cost[e] THEN spent + (b - cost[e]) ELSE Sat(spent, cost[e] - b)
  /\ booked' = [booked EXCEPT ![e] = b]
  /\ overrun' = overrun + Sat(b, cost[e])
  /\ Goto(e, "slot")
  /\ UNCHANGED <<positions, open_res, open_now, cost>>

\* Mutant: a committed reservation keeps its slot.
DropNothing(e) ==
  /\ pc[e] = "slot"
  /\ cost' = [cost EXCEPT ![e] = 0]
  /\ Goto(e, "done")
  /\ UNCHANGED <<positions, open_res, spent, open_now, booked, overrun>>

\* The rest of commit: Drop of a committed reservation gives the slot back.
DropCommitted(e) ==
  /\ pc[e] = "slot"
  /\ open_res' = open_res - 1
  /\ cost' = [cost EXCEPT ![e] = 0]
  /\ Goto(e, "done")
  /\ UNCHANGED <<positions, spent, open_now, booked, overrun>>

\* An entry path that sent nothing, or filled nothing at no cost, returns:
\* Drop of an uncommitted reservation, slot first ...
DropSlot(e) ==
  /\ pc[e] = "reserved"
  /\ open_res' = open_res - 1
  /\ Goto(e, "unspend")
  /\ UNCHANGED <<positions, spent, open_now, cost, booked, overrun>>

\* ... then the spend.
DropSpend(e) ==
  /\ pc[e] = "unspend"
  /\ spent' = Sat(spent, cost[e])
  /\ cost' = [cost EXCEPT ![e] = 0]
  /\ Goto(e, "done")
  /\ UNCHANGED <<positions, open_res, open_now, booked, overrun>>

\* keep_all: an ambiguous send keeps slot and spend for the session.
KeepAll(e) ==
  /\ pc[e] = "reserved"
  /\ Goto(e, "retained")
  /\ UNCHANGED <<positions, open_res, spent, open_now, cost, booked, overrun>>

\* An exit closes a position (apply_exit leaves nothing held).
Close(p) ==
  /\ p \in positions
  /\ positions' = positions \ {p}
  /\ UNCHANGED <<open_res, spent, pc, open_now, cost, booked, overrun>>

Next ==
  \/ \E e \in Entry : ReadOpen(e)
  \/ \E e \in Entry : FetchAdd(e)
  \/ \E e \in Entry, c \in Cost : Reserve(e, c)
  \/ \E e \in Entry, c \in Cost : RefuseBudget(e, c)
  \/ \E e \in Entry : Undo(e)
  \/ \E e \in Entry : OpenPosition(e)
  \/ \E e \in Entry, b \in Booked : Commit(e, b)
  \/ \E e \in Entry : DropCommitted(e)
  \/ \E e \in Entry : DropSlot(e)
  \/ \E e \in Entry : DropSpend(e)
  \/ \E e \in Entry : KeepAll(e)
  \/ \E p \in Entry \cup Held : Close(p)

Spec == Init /\ [][Next]_vars

-----------------------------------------------------------------------------
(* Properties *)

In(S) == {e \in Entry : pc[e] \in S}

\* Every slot counted in open_res belongs to one task that will still give it
\* back, or to a retained ambiguous send: no path leaks a slot (the session
\* would slowly refuse everything) or gives one back twice (u64 wrap-around).
SlotLedger == open_res = Cardinality(In(HoldsSlot))

\* `spent` is what the live reservations hold plus what commits booked: no
\* saturating subtraction ever hides a release that was not covered.
SpendLedger ==
  spent = MapThenSumSet(LAMBDA e : cost[e], In(HoldsCost))
          + MapThenSumSet(LAMBDA e : booked[e], Entry)

\* The session budget.  Only a commit whose booking exceeds its own
\* reservation can carry the spend past the budget, and only by that excess.
BudgetBound == spent <= Budget + overrun

\* However the tasks interleave, try_reserve never has more than max_open
\* reservations out at once: the atomic counter alone enforces that much.
ReservationsWithinCap == Cardinality(In(Granted)) <= MaxOpen

\* docs/SAFETY.md: "The position cap (--max-open): how many entries can be open
\* at once", and run.rs: "Reserve ... one position slot atomically".
OpenWithinCap == Cardinality(positions) <= MaxOpen
=============================================================================
