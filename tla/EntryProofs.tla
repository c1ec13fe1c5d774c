----------------------------- MODULE EntryProofs ------------------------------
(***************************************************************************)
(* Theorems about the two modules an entry passes before it is sent: the   *)
(* admission of the session (Admission) and the chain's clock with the     *)
(* window of the entry (EntryClock).  The two share no state.              *)
(***************************************************************************)
EXTENDS Admission, EntryClock, SumLemmas, FiniteSetTheorems, TLAPS

-----------------------------------------------------------------------------
(***************************************************************************)
(* Theorems about Admission for any number of entry tasks and held         *)
(* positions, any cap, budget, costs and bookings.                         *)
(*                                                                         *)
(* The types alone are not inductive: that open_res never goes below zero  *)
(* (it is a u64) needs the slot ledger, which says whose slot each one is. *)
(* The cap on reservations needs the ledger too: a task is admitted while  *)
(* the counter it has just raised was below the cap.                       *)
(***************************************************************************)

\* Past the cap check: reserved already, or at the budget.
Admitted == Granted \cup {"budget"}
AdmittedWithinCap == Cardinality(In(Admitted)) <= MaxOpen

Inv == TypeOK /\ SlotLedger /\ AdmittedWithinCap

-----------------------------------------------------------------------------
(* Counting tasks *)

LEMMA InFinite ==
  ASSUME NEW S
  PROVE  IsFiniteSet(In(S)) /\ Cardinality(In(S)) \in Nat
<1>1. In(S) \in SUBSET Entry
  BY DEF In
<1>2. IsFiniteSet(In(S))
  BY <1>1, FS_Subset, AdmissionAssumption
<1> QED
  BY <1>2, FS_CardinalityType

\* One task's step raises, lowers or keeps the number of tasks in S.
LEMMA CountMove ==
  ASSUME TypeOK, NEW S, NEW e \in Entry, NEW to \in PC, Goto(e, to)
  PROVE  /\ pc[e] \notin S /\ to \in S => Cardinality(In(S)') = Cardinality(In(S)) + 1
         /\ pc[e] \in S /\ to \notin S => Cardinality(In(S)') = Cardinality(In(S)) - 1
         /\ (pc[e] \in S <=> to \in S) => In(S)' = In(S)
<1>1. ASSUME pc[e] \notin S, to \in S
      PROVE  Cardinality(In(S)') = Cardinality(In(S)) + 1
  <2>1. In(S)' = In(S) \cup {e} /\ e \notin In(S)
    BY <1>1 DEF In, Goto, TypeOK
  <2> QED
    BY <2>1, InFinite, FS_AddElement
<1>2. ASSUME pc[e] \in S, to \notin S
      PROVE  Cardinality(In(S)') = Cardinality(In(S)) - 1
  <2>1. In(S)' = In(S) \ {e} /\ e \in In(S)
    BY <1>2 DEF In, Goto, TypeOK
  <2> QED
    BY <2>1, InFinite, FS_RemoveElement
<1>3. ASSUME pc[e] \in S <=> to \in S
      PROVE  In(S)' = In(S)
  BY <1>3 DEF In, Goto, TypeOK
<1> QED
  BY <1>1, <1>2, <1>3

\* Every admitted task holds a slot, so there are never more of them than slots.
LEMMA AdmittedHoldSlots == Cardinality(In(Admitted)) <= Cardinality(In(HoldsSlot))
<1>1. In(Admitted) \in SUBSET In(HoldsSlot)
  BY DEF In, Admitted, Granted, HoldsSlot
<1> QED
  BY <1>1, InFinite, FS_Subset

\* A task that holds a slot is counted.
LEMMA HolderCounted ==
  ASSUME SlotLedger, NEW e \in Entry, pc[e] \in HoldsSlot
  PROVE  open_res >= 1
<1>1. e \in In(HoldsSlot)
  BY DEF In
<1>2. Cardinality(In(HoldsSlot)) # 0
  BY <1>1, InFinite, FS_EmptySet
<1> QED
  BY <1>2, InFinite DEF SlotLedger

-----------------------------------------------------------------------------
(* The inductive invariant *)

LEMMA InitInv == Init => Inv
<1> SUFFICES ASSUME Init
             PROVE  Inv
  OBVIOUS
<1>1. In(HoldsSlot) = {} /\ In(Admitted) = {}
  BY DEF Init, In, HoldsSlot, Admitted, Granted
<1>2. TypeOK
  BY DEF Init, TypeOK, PC
<1>3. SlotLedger
  BY <1>1, FS_EmptySet DEF Init, SlotLedger
<1>4. AdmittedWithinCap
  BY <1>1, FS_EmptySet, AdmissionAssumption DEF AdmittedWithinCap
<1> QED
  BY <1>2, <1>3, <1>4 DEF Inv

LEMMA OpenCounted ==
  ASSUME TypeOK
  PROVE  Cardinality(positions) \in Nat
<1>1. IsFiniteSet(Entry \cup Held)
  BY AdmissionAssumption, FS_Union
<1> QED
  BY <1>1, FS_Subset, FS_CardinalityType DEF TypeOK

LEMMA NextInv == Inv /\ [Next]_vars => Inv'
<1> SUFFICES ASSUME Inv, [Next]_vars
             PROVE  Inv'
  OBVIOUS
<1> USE AdmissionAssumption DEF Inv
<1>1. ASSUME NEW e \in Entry, ReadOpen(e)
      PROVE  Inv'
  <2>1. In(HoldsSlot)' = In(HoldsSlot) /\ In(Admitted)' = In(Admitted)
    BY <1>1, CountMove DEF ReadOpen, PC, HoldsSlot, Admitted, Granted
  <2>2. TypeOK'
    BY <1>1, OpenCounted DEF ReadOpen, Goto, TypeOK, PC
  <2> QED
    BY <1>1, <2>1, <2>2 DEF ReadOpen, SlotLedger, AdmittedWithinCap
<1>2. ASSUME NEW e \in Entry, FetchAdd(e)
      PROVE  Inv'
  <2> DEFINE to == IF open_now[e] + open_res >= MaxOpen THEN "undo" ELSE "budget"
  <2>0. pc[e] = "read" /\ open_res' = open_res + 1 /\ Goto(e, to) /\ to \in PC
    BY <1>2 DEF FetchAdd, PC
  <2>1. Cardinality(In(HoldsSlot)') = Cardinality(In(HoldsSlot)) + 1
    BY <2>0, CountMove DEF HoldsSlot
  <2>2. TypeOK'
    BY <1>2, <2>0 DEF FetchAdd, Goto, TypeOK
  <2>3. AdmittedWithinCap'
    <3>1. CASE to = "undo"
      <4>1. In(Admitted)' = In(Admitted)
        BY <3>1, <2>0, CountMove DEF Admitted, Granted
      <4> QED
        BY <4>1 DEF AdmittedWithinCap
    <3>2. CASE to = "budget"
      <4>1. Cardinality(In(Admitted)') = Cardinality(In(Admitted)) + 1
        BY <3>2, <2>0, CountMove DEF Admitted, Granted
      <4>2. open_res < MaxOpen
        BY <3>2 DEF TypeOK
      <4>3. Cardinality(In(Admitted)) <= open_res
        BY AdmittedHoldSlots DEF SlotLedger
      <4> QED
        BY <4>1, <4>2, <4>3, InFinite DEF AdmittedWithinCap, TypeOK
    <3> QED
      BY <3>1, <3>2
  <2> QED
    BY <2>0, <2>1, <2>2, <2>3 DEF SlotLedger
<1>3. ASSUME NEW e \in Entry, NEW c \in Cost, Reserve(e, c)
      PROVE  Inv'
  <2>1. In(HoldsSlot)' = In(HoldsSlot) /\ In(Admitted)' = In(Admitted)
    BY <1>3, CountMove DEF Reserve, PC, HoldsSlot, Admitted, Granted
  <2>2. TypeOK'
    BY <1>3 DEF Reserve, Goto, TypeOK, PC
  <2> QED
    BY <1>3, <2>1, <2>2 DEF Reserve, SlotLedger, AdmittedWithinCap
<1>4. ASSUME NEW e \in Entry, NEW c \in Cost, RefuseBudget(e, c)
      PROVE  Inv'
  <2>1. In(HoldsSlot)' = In(HoldsSlot)
    BY <1>4, CountMove DEF RefuseBudget, PC, HoldsSlot
  <2>2. Cardinality(In(Admitted)') = Cardinality(In(Admitted)) - 1
    BY <1>4, CountMove DEF RefuseBudget, PC, Admitted, Granted
  <2>3. TypeOK'
    BY <1>4 DEF RefuseBudget, Goto, TypeOK, PC
  <2> QED
    BY <1>4, <2>1, <2>2, <2>3, InFinite DEF RefuseBudget, SlotLedger, AdmittedWithinCap
<1>5. ASSUME NEW e \in Entry, Undo(e)
      PROVE  Inv'
  <2>1. Cardinality(In(HoldsSlot)') = Cardinality(In(HoldsSlot)) - 1
    BY <1>5, CountMove DEF Undo, PC, HoldsSlot
  <2>2. In(Admitted)' = In(Admitted)
    BY <1>5, CountMove DEF Undo, PC, Admitted, Granted
  <2>3. TypeOK'
    BY <1>5, HolderCounted DEF Undo, Goto, TypeOK, PC, HoldsSlot
  <2> QED
    BY <1>5, <2>1, <2>2, <2>3 DEF Undo, SlotLedger, AdmittedWithinCap
<1>6. ASSUME NEW e \in Entry, OpenPosition(e)
      PROVE  Inv'
  <2>1. In(HoldsSlot)' = In(HoldsSlot) /\ In(Admitted)' = In(Admitted)
    BY <1>6, CountMove DEF OpenPosition, PC, HoldsSlot, Admitted, Granted
  <2>2. TypeOK'
    BY <1>6 DEF OpenPosition, Goto, TypeOK, PC
  <2> QED
    BY <1>6, <2>1, <2>2 DEF OpenPosition, SlotLedger, AdmittedWithinCap
<1>7. ASSUME NEW e \in Entry, NEW b \in Booked, Commit(e, b)
      PROVE  Inv'
  <2>1. In(HoldsSlot)' = In(HoldsSlot) /\ In(Admitted)' = In(Admitted)
    BY <1>7, CountMove DEF Commit, PC, HoldsSlot, Admitted, Granted
  <2>2. TypeOK'
    BY <1>7 DEF Commit, Goto, TypeOK, PC, Sat
  <2> QED
    BY <1>7, <2>1, <2>2 DEF Commit, SlotLedger, AdmittedWithinCap
<1>8. ASSUME NEW e \in Entry, DropCommitted(e) \/ DropSlot(e)
      PROVE  Inv'
  <2>1. Cardinality(In(HoldsSlot)') = Cardinality(In(HoldsSlot)) - 1
    BY <1>8, CountMove DEF DropCommitted, DropSlot, PC, HoldsSlot
  <2>2. Cardinality(In(Admitted)') = Cardinality(In(Admitted)) - 1
    BY <1>8, CountMove DEF DropCommitted, DropSlot, PC, Admitted, Granted
  <2>3. TypeOK'
    BY <1>8, HolderCounted DEF DropCommitted, DropSlot, Goto, TypeOK, PC, HoldsSlot
  <2> QED
    BY <1>8, <2>1, <2>2, <2>3, InFinite DEF DropCommitted, DropSlot, SlotLedger, AdmittedWithinCap
<1>9. ASSUME NEW e \in Entry, DropSpend(e)
      PROVE  Inv'
  <2>1. In(HoldsSlot)' = In(HoldsSlot) /\ In(Admitted)' = In(Admitted)
    BY <1>9, CountMove DEF DropSpend, PC, HoldsSlot, Admitted, Granted
  <2>2. TypeOK'
    BY <1>9 DEF DropSpend, Goto, TypeOK, PC, Sat
  <2> QED
    BY <1>9, <2>1, <2>2 DEF DropSpend, SlotLedger, AdmittedWithinCap
<1>10. ASSUME NEW e \in Entry, KeepAll(e)
       PROVE  Inv'
  <2>1. In(HoldsSlot)' = In(HoldsSlot) /\ In(Admitted)' = In(Admitted)
    BY <1>10, CountMove DEF KeepAll, PC, HoldsSlot, Admitted, Granted
  <2>2. TypeOK'
    BY <1>10 DEF KeepAll, Goto, TypeOK, PC
  <2> QED
    BY <1>10, <2>1, <2>2 DEF KeepAll, SlotLedger, AdmittedWithinCap
<1>11. ASSUME NEW p \in Entry \cup Held, Close(p)
       PROVE  Inv'
  BY <1>11 DEF Close, TypeOK, SlotLedger, AdmittedWithinCap, In
<1>12. CASE UNCHANGED vars
  BY <1>12 DEF vars, TypeOK, SlotLedger, AdmittedWithinCap, In
<1> QED
  BY <1>1, <1>2, <1>3, <1>4, <1>5, <1>6, <1>7, <1>8, <1>9, <1>10, <1>11, <1>12 DEF Next

LEMMA Invariance == Spec => []Inv
  BY InitInv, NextInv, PTL DEF Spec

-----------------------------------------------------------------------------
(* The theorems *)

\* The counters stay counters: open_res and spent never go below zero.
THEOREM TypeCorrect == Spec => []TypeOK
<1>1. Inv => TypeOK
  BY DEF Inv
<1> QED
  BY <1>1, Invariance, PTL

\* Every slot counted in open_res belongs to exactly one task or to a retained
\* send: no interleaving leaks a slot or gives one back twice.
THEOREM SlotsAccounted == Spec => []SlotLedger
<1>1. Inv => SlotLedger
  BY DEF Inv
<1> QED
  BY <1>1, Invariance, PTL

\* try_reserve never has more than max_open reservations out, whatever stale
\* number of open positions each task has read.
THEOREM ReservationsCapped == Spec => []ReservationsWithinCap
<1>1. Inv => ReservationsWithinCap
  <2> SUFFICES ASSUME Inv
               PROVE  ReservationsWithinCap
    OBVIOUS
  <2>1. In(Granted) \in SUBSET In(Admitted)
    BY DEF In, Admitted
  <2>2. Cardinality(In(Granted)) <= Cardinality(In(Admitted))
    BY <2>1, InFinite, FS_Subset
  <2> QED
    BY <2>2, InFinite, AdmissionAssumption DEF Inv, AdmittedWithinCap, ReservationsWithinCap
<1> QED
  BY <1>1, Invariance, PTL

\* The session's spend passes its budget only by what commits booked beyond
\* their own reservations.
THEOREM BudgetKept == Spec => []BudgetBound
<1>1. Init => BudgetBound
  BY AdmissionAssumption DEF Init, BudgetBound
<1>2. TypeOK /\ BudgetBound /\ [Next]_vars => BudgetBound'
  <2> SUFFICES ASSUME TypeOK, BudgetBound, [Next]_vars
               PROVE  BudgetBound'
    OBVIOUS
  <2> USE AdmissionAssumption DEF TypeOK, BudgetBound, Sat
  <2>1. ASSUME NEW e \in Entry, NEW c \in Cost, Reserve(e, c)
        PROVE  BudgetBound'
    BY <2>1 DEF Reserve
  <2>2. ASSUME NEW e \in Entry, NEW b \in Booked, Commit(e, b)
        PROVE  BudgetBound'
    BY <2>2 DEF Commit
  <2>3. ASSUME NEW e \in Entry, DropSpend(e)
        PROVE  BudgetBound'
    BY <2>3 DEF DropSpend
  <2>4. ASSUME UNCHANGED <<spent, overrun>>
        PROVE  BudgetBound'
    BY <2>4
  <2> QED
    BY <2>1, <2>2, <2>3, <2>4
       DEF Next, vars, ReadOpen, FetchAdd, RefuseBudget, Undo, OpenPosition, DropCommitted,
           DropSlot, KeepAll, Close
<1> QED
  BY <1>1, <1>2, TypeCorrect, PTL DEF Spec

-----------------------------------------------------------------------------
(* The spend ledger *)

Charges == SumOf(cost, In(HoldsCost))
Bookings == SumOf(booked, Entry)

\* A reservation that has not been committed has booked nothing: the first commit of a
\* task is its only one.
Unbooked == \A e \in Entry : pc[e] \notin {"slot", "done"} => booked[e] = 0

LedgerInv == TypeOK /\ spent = Charges + Bookings /\ Unbooked

LEMMA SumsType ==
  ASSUME TypeOK
  PROVE  Charges \in Nat /\ Bookings \in Nat /\ \A e \in In(HoldsCost) : cost[e] <= Charges
<1>1. IsFiniteSet(In(HoldsCost)) /\ \A e \in In(HoldsCost) : cost[e] \in Nat
  BY InFinite DEF In, TypeOK
<1>2. Charges \in Nat /\ \A e \in In(HoldsCost) : cost[e] <= Charges
  BY <1>1, SumNat DEF Charges
<1>3. Bookings \in Nat
  <2>1. \A e \in Entry : booked[e] \in Nat
    BY DEF TypeOK
  <2> QED
    BY <2>1, SumNat, AdmissionAssumption DEF Bookings
<1> QED
  BY <1>2, <1>3

\* What the step of one task changes of the two sums.
LEMMA SumsMove ==
  ASSUME TypeOK, TypeOK', NEW e \in Entry, NEW to \in PC, Goto(e, to),
         \A d \in Entry \ {e} : cost'[d] = cost[d] /\ booked'[d] = booked[d]
  PROVE  /\ Charges' = Charges - (IF pc[e] \in HoldsCost THEN cost[e] ELSE 0)
                              + (IF to \in HoldsCost THEN cost'[e] ELSE 0)
         /\ Bookings' = Bookings - booked[e] + booked'[e]
<1>1. /\ IsFiniteSet(In(HoldsCost)) /\ IsFiniteSet(In(HoldsCost)')
      /\ \A d \in In(HoldsCost) : cost[d] \in Int
      /\ \A d \in In(HoldsCost)' : cost'[d] \in Int
  <2>1. In(HoldsCost) \in SUBSET Entry /\ In(HoldsCost)' \in SUBSET Entry
    BY DEF In
  <2>2. IsFiniteSet(In(HoldsCost)) /\ IsFiniteSet(In(HoldsCost)')
    BY <2>1, FS_Subset, AdmissionAssumption
  <2> QED
    BY <2>1, <2>2 DEF TypeOK
<1>2. In(HoldsCost) \ {e} = In(HoldsCost)' \ {e}
  BY DEF In, Goto, TypeOK
<1>3. \A d \in In(HoldsCost) \ {e} : cost'[d] = cost[d]
  BY DEF In
<1>4. (e \in In(HoldsCost) <=> pc[e] \in HoldsCost) /\ (e \in In(HoldsCost)' <=> to \in HoldsCost)
  BY DEF In, Goto, TypeOK
<1>5. Charges' = Charges - (IF e \in In(HoldsCost) THEN cost[e] ELSE 0)
                         + (IF e \in In(HoldsCost)' THEN cost'[e] ELSE 0)
  BY <1>1, <1>2, <1>3, SumMove DEF Charges
<1>6. Bookings' = Bookings - booked[e] + booked'[e]
  <2>1. \A d \in Entry : booked[d] \in Int /\ booked'[d] \in Int
    BY DEF TypeOK
  <2>2. Bookings' = Bookings - (IF e \in Entry THEN booked[e] ELSE 0)
                             + (IF e \in Entry THEN booked'[e] ELSE 0)
    BY <2>1, SumMove, AdmissionAssumption DEF Bookings
  <2> QED
    BY <2>2
<1> QED
  BY <1>4, <1>5, <1>6

LEMMA LedgerInit == Init => LedgerInv
<1> SUFFICES ASSUME Init
             PROVE  LedgerInv
  OBVIOUS
<1>1. TypeOK
  BY InitInv DEF Inv
<1>2. Charges = 0
  <2>1. In(HoldsCost) = {}
    BY DEF Init, In, HoldsCost
  <2> QED
    BY <2>1, SumNone DEF Charges
<1>3. Bookings = 0
  <2> DEFINE G == {S \in SUBSET Entry : SumOf(booked, S) = 0}
  <2>1. ASSUME NEW S \in SUBSET Entry, \A U \in SUBSET S : U # S => U \in G
        PROVE  S \in G
    <3>1. CASE S = {}
      BY <3>1, SumNone
    <3>2. CASE S # {}
      <4>1. PICK x \in S : TRUE
        BY <3>2
      <4>2. IsFiniteSet(S) /\ \A y \in S : booked[y] \in Int
        BY FS_Subset, AdmissionAssumption DEF Init
      <4>3. SumOf(booked, S) = booked[x] + SumOf(booked, S \ {x})
        BY <4>1, <4>2, SumWithout
      <4>4. S \ {x} \in SUBSET S /\ S \ {x} # S
        BY <4>1
      <4> QED
        BY <2>1, <4>1, <4>3, <4>4 DEF Init
    <3> QED
      BY <3>1, <3>2
  <2>2. SUBSET Entry \subseteq G
    <3> HIDE DEF G
    <3> QED
      BY <2>1, SubsetInduct, AdmissionAssumption
  <2> QED
    BY <2>2 DEF Bookings
<1> QED
  BY <1>1, <1>2, <1>3 DEF Init, LedgerInv, Unbooked

\* What a task's step does to the ledger: the spend moves by what the task books and by
\* what it charges and gives back.
LedgerStep(e, to) ==
  /\ to \in PC /\ Goto(e, to)
  /\ \A d \in Entry \ {e} : cost'[d] = cost[d] /\ booked'[d] = booked[d]
  /\ spent' = spent + booked'[e] - booked[e]
               - (IF pc[e] \in HoldsCost THEN cost[e] ELSE 0)
               + (IF to \in HoldsCost THEN cost'[e] ELSE 0)
  /\ to \notin {"slot", "done"} => booked'[e] = 0

LEMMA LedgerStepKeeps ==
  ASSUME LedgerInv, TypeOK', NEW e \in Entry, NEW to, LedgerStep(e, to)
  PROVE  LedgerInv'
<1>0. TypeOK /\ spent = Charges + Bookings /\ Unbooked
  BY DEF LedgerInv
<1>1. /\ Charges' = Charges - (IF pc[e] \in HoldsCost THEN cost[e] ELSE 0)
                           + (IF to \in HoldsCost THEN cost'[e] ELSE 0)
      /\ Bookings' = Bookings - booked[e] + booked'[e]
  BY <1>0, SumsMove DEF LedgerStep
<1>2. /\ Charges \in Int /\ Bookings \in Int
      /\ cost[e] \in Int /\ cost'[e] \in Int /\ booked[e] \in Int /\ booked'[e] \in Int
  BY <1>0, SumsType DEF TypeOK
<1>3. spent' = Charges' + Bookings'
  BY <1>0, <1>1, <1>2 DEF LedgerStep
<1>4. Unbooked'
  BY <1>0 DEF Unbooked, LedgerStep, Goto, TypeOK
<1> QED
  BY <1>3, <1>4 DEF LedgerInv

LEMMA LedgerNext == LedgerInv /\ TypeOK' /\ [Next]_vars => LedgerInv'
<1> SUFFICES ASSUME LedgerInv, TypeOK', [Next]_vars
             PROVE  LedgerInv'
  OBVIOUS
<1>0. TypeOK /\ spent = Charges + Bookings /\ Unbooked
  BY DEF LedgerInv
\* No release is larger than what the ledger holds.
<1>1. ASSUME NEW e \in Entry, pc[e] \in HoldsCost
      PROVE  cost[e] <= spent
  <2>1. cost[e] <= Charges /\ Charges \in Nat /\ Bookings \in Nat
    BY <1>0, <1>1, SumsType DEF In
  <2> QED
    BY <1>0, <2>1 DEF TypeOK
<1>2. ASSUME NEW e \in Entry, ReadOpen(e)
      PROVE  LedgerInv'
  <2>1. LedgerStep(e, "read")
    BY <1>0, <1>2, AdmissionAssumption
       DEF ReadOpen, Goto, TypeOK, Unbooked, LedgerStep, HoldsCost, PC
  <2> QED
    BY <2>1, LedgerStepKeeps
<1>3. ASSUME NEW e \in Entry, FetchAdd(e)
      PROVE  LedgerInv'
  <2>1. LedgerStep(e, IF open_now[e] + open_res >= MaxOpen THEN "undo" ELSE "budget")
    BY <1>0, <1>3, AdmissionAssumption
       DEF FetchAdd, Goto, TypeOK, Unbooked, LedgerStep, HoldsCost, PC
  <2> QED
    BY <2>1, LedgerStepKeeps
<1>4. ASSUME NEW e \in Entry, NEW c \in Cost, Reserve(e, c)
      PROVE  LedgerInv'
  <2>1. LedgerStep(e, "reserved")
    BY <1>0, <1>4, AdmissionAssumption
       DEF Reserve, Goto, TypeOK, Unbooked, LedgerStep, HoldsCost, PC, Sat
  <2> QED
    BY <2>1, LedgerStepKeeps
<1>5. ASSUME NEW e \in Entry, NEW c \in Cost, RefuseBudget(e, c)
      PROVE  LedgerInv'
  <2>1. LedgerStep(e, "undo")
    BY <1>0, <1>5, AdmissionAssumption
       DEF RefuseBudget, Goto, TypeOK, Unbooked, LedgerStep, HoldsCost, PC
  <2> QED
    BY <2>1, LedgerStepKeeps
<1>6. ASSUME NEW e \in Entry, Undo(e)
      PROVE  LedgerInv'
  <2>1. LedgerStep(e, "done")
    BY <1>0, <1>6, AdmissionAssumption
       DEF Undo, Goto, TypeOK, Unbooked, LedgerStep, HoldsCost, PC
  <2> QED
    BY <2>1, LedgerStepKeeps
<1>7. ASSUME NEW e \in Entry, OpenPosition(e)
      PROVE  LedgerInv'
  <2>1. LedgerStep(e, "filled")
    BY <1>0, <1>7, AdmissionAssumption
       DEF OpenPosition, Goto, TypeOK, Unbooked, LedgerStep, HoldsCost, PC
  <2> QED
    BY <2>1, LedgerStepKeeps
<1>8. ASSUME NEW e \in Entry, NEW b \in Booked, Commit(e, b)
      PROVE  LedgerInv'
  <2>1. LedgerStep(e, "slot")
    BY <1>0, <1>1, <1>8, AdmissionAssumption
       DEF Commit, Goto, TypeOK, Unbooked, LedgerStep, HoldsCost, PC, Sat
  <2> QED
    BY <2>1, LedgerStepKeeps
<1>9. ASSUME NEW e \in Entry, DropCommitted(e)
      PROVE  LedgerInv'
  <2>1. LedgerStep(e, "done")
    BY <1>0, <1>9, AdmissionAssumption
       DEF DropCommitted, Goto, TypeOK, Unbooked, LedgerStep, HoldsCost, PC
  <2> QED
    BY <2>1, LedgerStepKeeps
<1>10. ASSUME NEW e \in Entry, DropSlot(e)
      PROVE  LedgerInv'
  <2>1. LedgerStep(e, "unspend")
    BY <1>0, <1>10, AdmissionAssumption
       DEF DropSlot, Goto, TypeOK, Unbooked, LedgerStep, HoldsCost, PC
  <2> QED
    BY <2>1, LedgerStepKeeps
<1>11. ASSUME NEW e \in Entry, DropSpend(e)
      PROVE  LedgerInv'
  <2>1. LedgerStep(e, "done")
    BY <1>0, <1>1, <1>11, AdmissionAssumption
       DEF DropSpend, Goto, TypeOK, Unbooked, LedgerStep, HoldsCost, PC, Sat
  <2> QED
    BY <2>1, LedgerStepKeeps
<1>12. ASSUME NEW e \in Entry, KeepAll(e)
      PROVE  LedgerInv'
  <2>1. LedgerStep(e, "retained")
    BY <1>0, <1>12, AdmissionAssumption
       DEF KeepAll, Goto, TypeOK, Unbooked, LedgerStep, HoldsCost, PC
  <2> QED
    BY <2>1, LedgerStepKeeps
<1>13. ASSUME UNCHANGED <<spent, pc, cost, booked>>
       PROVE  LedgerInv'
  BY <1>0, <1>13 DEF LedgerInv, Charges, Bookings, Unbooked, In
<1> QED
  BY <1>2, <1>3, <1>4, <1>5, <1>6, <1>7, <1>8, <1>9, <1>10, <1>11, <1>12, <1>13 DEF Next, vars, Close

\* `spent` is what the live reservations hold plus what commits booked: no saturating
\* subtraction in commit or in drop ever hides a release that nothing covered.
THEOREM SpendAccounted == Spec => []SpendLedger
<1>1. LedgerInv => SpendLedger
  BY SumIsSumOf DEF LedgerInv, SpendLedger, Charges, Bookings
<1>2. Spec => []LedgerInv
  BY LedgerInit, LedgerNext, TypeCorrect, PTL DEF Spec
<1> QED
  BY <1>1, <1>2, PTL

-----------------------------------------------------------------------------
(***************************************************************************)
(* Theorems about EntryClock for any delay of the headers, any step of the *)
(* blocks and any lead.                                                    *)
(***************************************************************************)

ClockType == [boundary : Nat, at : Nat, count : Nat, jitter : Nat, block : Nat, seen : Nat, silence : Nat]

\* What the clock and the entry hold.
ClockTypes ==
  /\ now \in Nat /\ now >= Second
  /\ clock \in ClockType
  /\ headers \in [at : {"connect", "stream", "poll"}, next : Nat]
  /\ entry \in [at : {"screened", "healthy", "planned", "wait", "flow", "curve", "lane", "acquire",
                      "granted", "armed", "fired", "held"},
                until : Int, dispatch : Int, sent : Nat, silence : Nat]

\* A header that is on its way is at most the delay old.
OnTime ==
  /\ now % Step = 0
  /\ headers.at = "stream" =>
       headers.next % Step = 0 /\ headers.next >= Second /\ now <= headers.next + Delay

\* The last header seen is of the second that is pinned, and was at most the delay old.
LastSeen ==
  /\ clock.boundary = 0 <=> clock.seen = 0
  /\ clock.boundary = 0 => clock = Unseeded
  /\ clock.boundary > 0 =>
       /\ clock.block \div Second = clock.boundary
       /\ clock.seen <= clock.block + Delay /\ clock.seen <= now

\* The clock is never ahead of the sequencer; and once a second second was pinned, it is
\* behind by no more than the delay and the silence before.
Pinned ==
  /\ clock.boundary * Second <= clock.at
  /\ clock.boundary > 0 => clock.count >= 1
  /\ clock.count >= 2 => clock.at <= clock.boundary * Second + Delay + clock.silence

Armed == entry.at = "armed" => DispatchMs <= entry.until

ClockInv == ClockTypes /\ OnTime /\ LastSeen /\ Pinned /\ Armed /\ SentInWindow

-----------------------------------------------------------------------------
(* Multiples of the step, and milliseconds *)

LEMMA MultipleIs ==
  ASSUME NEW a \in Nat, a % Step = 0
  PROVE  a = Step * (a \div Step) /\ a \div Step \in Nat
BY ClockAssumption

\* What is due at a multiple of the step and not now is not due a step later.
LEMMA NextMultiple ==
  ASSUME NEW a \in Nat, NEW b \in Nat, a % Step = 0, b % Step = 0, a < b
  PROVE  a + Step <= b
<1>1. PICK s \in Nat \ {0} : s = Step
  BY ClockAssumption
<1>2. PICK p \in Nat, q \in Nat : a = s * p /\ b = s * q
  BY <1>1, MultipleIs
<1>3. p + 1 <= q
  <2>1. q <= p => s * q <= s * p
    OBVIOUS
  <2> QED
    BY <1>2, <2>1
<1>4. s * (p + 1) <= s * q
  BY <1>3
<1> QED
  BY <1>1, <1>2, <1>4

LEMMA MultiplesAdd ==
  ASSUME NEW a \in Nat, NEW b \in Nat, a % Step = 0, b % Step = 0
  PROVE  (a + b) % Step = 0
<1>1. PICK s \in Nat \ {0} : s = Step
  BY ClockAssumption
<1>2. PICK p \in Nat, q \in Nat : a = s * p /\ b = s * q
  BY <1>1, MultipleIs
<1>3. a + b = s * (p + q)
  BY <1>2
<1>4. (s * (p + q)) % s = 0
  OBVIOUS
<1> QED
  BY <1>1, <1>3, <1>4

LEMMA StepMultiple == Step \in Nat \ {0} /\ Step % Step = 0 /\ Delay \in Nat /\ Delay % Step = 0
BY ClockAssumption

LEMMA SecondOf ==
  ASSUME NEW b \in Nat
  PROVE  /\ b \div Second \in Nat
         /\ Second * (b \div Second) <= b /\ b < Second * (b \div Second) + Second
BY DEF Second

-----------------------------------------------------------------------------
(* The clock takes a header *)

LEMMA JitterType ==
  ASSUME ClockTypes, NEW second \in Nat
  PROVE  Jitter(second) \in Nat
<1>0. clock.jitter \in Nat /\ now \in Nat /\ clock.at \in Nat /\ clock.boundary \in Nat
  BY DEF ClockTypes, ClockType
<1>1. PICK j \in Nat, off \in Nat :
        j = clock.jitter /\ off = Distance(now - clock.at, Second * (second - clock.boundary))
  <2>1. now - clock.at \in Int /\ Second * (second - clock.boundary) \in Int
    BY <1>0 DEF Second
  <2>2. \A a, b \in Int : Distance(a, b) \in Nat
    BY DEF Distance
  <2> QED
    BY <1>0, <2>1, <2>2
<1>2. (j * 7 + off) \div 8 \in Nat
  OBVIOUS
<1> QED
  BY <1>1, <1>2 DEF Jitter

SeenAt(c, block, seen) == [c EXCEPT !.block = block, !.seen = seen]

LEMMA ClockSeen ==
  ASSUME NEW c \in ClockType, NEW block \in Nat, NEW seen \in Nat
  PROVE  SeenAt(c, block, seen) \in ClockType
BY ZenonT(30) DEF ClockType, SeenAt

PinnedAt(c, block, seen, second, n, j, quiet) ==
  [c EXCEPT !.block = block, !.seen = seen, !.boundary = second, !.at = seen,
            !.count = n, !.jitter = j, !.silence = quiet]

LEMMA ClockPinned ==
  ASSUME NEW c \in ClockType, NEW block \in Nat, NEW seen \in Nat, NEW second \in Nat,
         NEW n \in Nat, NEW j \in Nat, NEW quiet \in Nat
  PROVE  PinnedAt(c, block, seen, second, n, j, quiet) \in ClockType
BY ZenonT(30) DEF ClockType, PinnedAt

LEMMA NotedKeeps ==
  ASSUME ClockTypes, LastSeen, Pinned, NEW block \in Nat, block >= Second, block <= now, now <= block + Delay,
         clock' = Noted(block), now' = now
  PROVE  clock' \in ClockType /\ LastSeen' /\ Pinned'
<1>0. clock \in ClockType /\ now \in Nat /\ now >= 1000 /\ Second = 1000 /\ Delay \in Nat
  BY ClockAssumption DEF ClockTypes, Second
<1> DEFINE second == block \div Second
<1>1. second \in Nat /\ second > 0 /\ Second * second <= block /\ block < Second * second + Second
  BY <1>0, SecondOf
<1> HIDE DEF second
<1>2. CASE block < clock.block
  <2>1. clock' = clock
    BY <1>0, <1>2 DEF Noted, ClockType
  <2> QED
    BY <1>0, <2>1 DEF LastSeen, Pinned
<1>3. CASE block >= clock.block /\ NewSecond(second)
  <2> DEFINE j == Jitter(second)
             quiet == IF clock.seen = 0 THEN 0 ELSE now - clock.seen
  <2>1. clock' = [clock EXCEPT !.block = block, !.seen = now, !.boundary = second, !.at = now,
                               !.count = @ + 1, !.jitter = j, !.silence = quiet]
    BY <1>3 DEF Noted, second
  <2>2. j \in Nat
    BY <1>1, JitterType
  <2>3. clock.seen \in Nat /\ quiet \in Nat /\ (clock.seen # 0 => quiet = now - clock.seen)
    BY <1>0 DEF LastSeen, ClockType, Unseeded
  <2> HIDE DEF j, quiet
  <2>4. clock' \in ClockType
    <3>1. PICK n \in Nat : n = clock.count + 1
      BY <1>0 DEF ClockType
    <3>2. clock' = PinnedAt(clock, block, now, second, n, j, quiet)
      BY <2>1, <3>1 DEF PinnedAt
    <3>3. /\ clock \in ClockType /\ block \in Nat /\ now \in Nat /\ second \in Nat
          /\ j \in Nat /\ quiet \in Nat
      BY <1>0, <1>1, <2>2, <2>3
    <3>4. PinnedAt(clock, block, now, second, n, j, quiet) \in ClockType
      BY <3>3, ClockPinned
    <3> QED
      BY <3>2, <3>4
  <2>5. /\ clock'.block = block /\ clock'.seen = now /\ clock'.boundary = second /\ clock'.at = now
        /\ clock'.count = clock.count + 1 /\ clock'.silence = quiet
    BY <1>0, <2>1 DEF ClockType
  <2>6. LastSeen'
    BY <1>0, <1>1, <2>5 DEF LastSeen, second
  <2>7. clock.count >= 1 => clock.seen # 0 /\ clock.seen <= Second * second + Delay
    <3>1. SUFFICES ASSUME clock.count >= 1
                   PROVE  clock.seen # 0 /\ clock.seen <= Second * second + Delay
      OBVIOUS
    <3>2. clock.boundary > 0
      BY <1>0, <3>1 DEF LastSeen, Unseeded, ClockType
    <3>3. clock.boundary + 1 <= second
      BY <1>0, <1>1, <1>3, <3>2 DEF NewSecond, ClockType
    <3>4. clock.block < Second * clock.boundary + Second
      BY <1>0, <3>2, SecondOf DEF LastSeen, ClockType
    <3> QED
      BY <1>0, <1>1, <3>2, <3>3, <3>4 DEF LastSeen, ClockType
  <2>8. Pinned'
    <3>1. clock'.boundary * Second <= clock'.at
      BY <1>0, <1>1, <2>5
    <3> QED
      BY <1>0, <1>1, <2>3, <2>5, <2>7, <3>1 DEF Pinned, ClockType
  <2> QED
    BY <2>4, <2>6, <2>8
<1>4. CASE block >= clock.block /\ ~ NewSecond(second)
  <2>1. clock' = [clock EXCEPT !.block = block, !.seen = now]
    BY <1>0, <1>4 DEF Noted, second, ClockType
  <2>2. clock' \in ClockType
    <3>1. clock' = SeenAt(clock, block, now)
      BY <2>1 DEF SeenAt
    <3> QED
      BY <1>0, <3>1, ClockSeen
  <2>3. /\ clock'.block = block /\ clock'.seen = now /\ clock'.boundary = clock.boundary
        /\ clock'.at = clock.at /\ clock'.count = clock.count /\ clock'.silence = clock.silence
    BY <1>0, <2>1 DEF ClockType
  <2>4. clock.boundary > 0 /\ second <= clock.boundary
    BY <1>0, <1>1, <1>4 DEF NewSecond, ClockType
  <2>5. second = clock.boundary
    <3>1. clock.block >= Second * clock.boundary
      BY <1>0, <2>4, SecondOf DEF LastSeen, ClockType
    <3> QED
      BY <1>0, <1>1, <1>4, <2>4, <3>1 DEF ClockType
  <2>6. LastSeen'
    BY <1>0, <1>1, <2>3, <2>4, <2>5 DEF LastSeen, second
  <2>7. Pinned'
    BY <2>3 DEF Pinned
  <2> QED
    BY <2>2, <2>6, <2>7
<1> QED
  BY <1>0, <1>1, <1>2, <1>3, <1>4 DEF ClockType

-----------------------------------------------------------------------------
(* The steps *)

LEMMA ClockInitInv == ClockInit => ClockInv
<1> SUFFICES ASSUME ClockInit
             PROVE  ClockInv
  OBVIOUS
<1>1. now \in Nat /\ now >= Second /\ now % Step = 0 /\ Second = 1000
  BY ClockAssumption DEF ClockInit, Second
<1>2. ClockTypes
  BY <1>1 DEF ClockInit, ClockTypes, ClockType, Unseeded
<1>3. OnTime
  BY <1>1 DEF ClockInit, OnTime
<1>4. LastSeen /\ Pinned
  BY <1>1 DEF ClockInit, LastSeen, Pinned, Unseeded
<1>5. Armed /\ SentInWindow
  BY DEF ClockInit, Armed, SentInWindow
<1> QED
  BY <1>2, <1>3, <1>4, <1>5 DEF ClockInv

\* A step that leaves the entry and the clock alone.
LEMMA StreamKeeps ==
  ASSUME ClockInv, UNCHANGED <<clock, entry>>, now' \in Nat, now' >= now, OnTime',
         headers' \in [at : {"connect", "stream", "poll"}, next : Nat]
  PROVE  ClockInv'
<1>1. ClockTypes'
  BY DEF ClockInv, ClockTypes, Second
<1>2. LastSeen' /\ Pinned' /\ Armed' /\ SentInWindow'
  BY DEF ClockInv, LastSeen, Pinned, Armed, SentInWindow, ClockTypes, ClockType
<1> QED
  BY <1>1, <1>2 DEF ClockInv

LEMMA HeaderTypes ==
  ASSUME ClockTypes
  PROVE  /\ headers.at \in {"connect", "stream", "poll"} /\ headers.next \in Nat
         /\ \A at \in {"connect", "stream", "poll"} :
              [headers EXCEPT !.at = at] \in [at : {"connect", "stream", "poll"}, next : Nat]
         /\ \A n \in Nat : [headers EXCEPT !.next = n] \in [at : {"connect", "stream", "poll"}, next : Nat]
BY DEF ClockTypes

LEMMA SubscribeKeeps ==
  ASSUME ClockInv, Subscribe
  PROVE  ClockInv'
<1>1. PICK block \in {x \in Larger(now - Delay, Second) .. now + Step : x % Step = 0} :
        headers' = [at |-> "stream", next |-> block]
  BY DEF Subscribe
<1>2. now \in Nat /\ now' = now /\ clock' = clock /\ entry' = entry
  BY DEF Subscribe, ClockInv, ClockTypes
<1>3. block \in Nat /\ block >= Second /\ now <= block + Delay /\ block % Step = 0
  BY <1>2, StepMultiple DEF Larger, Second
<1>4. OnTime'
  BY <1>1, <1>2, <1>3 DEF OnTime, ClockInv
<1> QED
  BY <1>1, <1>2, <1>3, <1>4, StreamKeeps

LEMMA HeaderKeeps ==
  ASSUME ClockInv, Header
  PROVE  ClockInv'
<1>0. ClockTypes /\ headers.at = "stream" /\ headers.next <= now /\ now' = now /\ entry' = entry
  BY DEF ClockInv, Header
<1>1. /\ headers.next \in Nat /\ headers.next % Step = 0 /\ headers.next >= Second
      /\ now <= headers.next + Delay /\ now \in Nat
  BY <1>0, HeaderTypes DEF ClockInv, OnTime, ClockTypes
<1>2. clock' \in ClockType /\ LastSeen' /\ Pinned'
  BY <1>0, <1>1, NotedKeeps DEF ClockInv, Header
<1>3. PICK n \in Nat : n = headers.next + Step
  BY <1>1, StepMultiple
<1>4. headers' = [headers EXCEPT !.next = n]
  BY <1>3 DEF Header
<1>5. headers'.at = "stream" /\ headers'.next = n /\ headers' \in [at : {"connect", "stream", "poll"}, next : Nat]
  BY <1>0, <1>4, HeaderTypes DEF ClockTypes
<1>6. n % Step = 0
  BY <1>1, <1>3, StepMultiple, MultiplesAdd
<1>7. OnTime'
  BY <1>0, <1>1, <1>3, <1>5, <1>6, StepMultiple DEF OnTime, ClockInv, Second
<1>8. ClockTypes'
  BY <1>0, <1>2, <1>5 DEF ClockTypes
<1>9. Armed' /\ SentInWindow'
  BY <1>0 DEF ClockInv, Armed, SentInWindow
<1> QED
  BY <1>2, <1>7, <1>8, <1>9 DEF ClockInv

LEMMA StreamEndsKeeps ==
  ASSUME ClockInv, StreamEnds
  PROVE  ClockInv'
<1>1. headers' = [at |-> "poll", next |-> 0] /\ now' = now /\ clock' = clock /\ entry' = entry
  BY DEF StreamEnds
<1>2. now \in Nat
  BY DEF ClockInv, ClockTypes
<1>3. OnTime'
  BY <1>1 DEF ClockInv, OnTime
<1> QED
  BY <1>1, <1>2, <1>3, StreamKeeps

LEMMA PollKeeps ==
  ASSUME ClockInv, Poll
  PROVE  ClockInv'
<1>1. /\ headers' = [headers EXCEPT !.at = "connect"] /\ now' = now /\ entry' = entry
      /\ ClockTypes /\ now \in Nat
  BY DEF Poll, ClockInv, ClockTypes
<1>2. headers'.at = "connect" /\ headers' \in [at : {"connect", "stream", "poll"}, next : Nat]
  BY <1>1, HeaderTypes DEF ClockTypes
<1>3. OnTime'
  BY <1>1, <1>2 DEF ClockInv, OnTime
<1>4. CASE clock' = clock
  BY <1>1, <1>2, <1>3, <1>4, StreamKeeps
<1>5. CASE \E block \in {x \in Larger(now - Delay, Second) .. now : x % Step = 0} : clock' = Noted(block)
  <2>1. PICK block \in {x \in Larger(now - Delay, Second) .. now : x % Step = 0} : clock' = Noted(block)
    BY <1>5
  <2>2. block \in Nat /\ block >= Second /\ now <= block + Delay /\ block <= now
    BY <1>1, StepMultiple DEF Larger, Second
  <2>3. clock' \in ClockType /\ LastSeen' /\ Pinned'
    BY <1>1, <2>1, <2>2, NotedKeeps DEF ClockInv
  <2>4. ClockTypes'
    BY <1>1, <1>2, <2>3 DEF ClockTypes
  <2>5. Armed' /\ SentInWindow'
    BY <1>1 DEF ClockInv, Armed, SentInWindow
  <2> QED
    BY <1>3, <2>3, <2>4, <2>5 DEF ClockInv
<1> QED
  BY <1>4, <1>5 DEF Poll

LEMMA TimePassesKeeps ==
  ASSUME ClockInv, TimePasses
  PROVE  ClockInv'
<1>1. /\ now \in Nat /\ now' = now + Step /\ headers' = headers /\ clock' = clock /\ entry' = entry
      /\ headers.at = "stream" => now < headers.next + Delay
      /\ headers \in [at : {"connect", "stream", "poll"}, next : Nat] /\ now % Step = 0
  BY DEF TimePasses, ClockInv, ClockTypes, OnTime
<1>2. now' \in Nat /\ now' % Step = 0 /\ now' >= now
  <2>1. PICK s \in Nat : s = Step
    BY StepMultiple
  <2>2. now' = now + s /\ s % Step = 0
    BY <1>1, <2>1, StepMultiple
  <2>3. (now + s) % Step = 0
    BY <1>1, <2>2, MultiplesAdd
  <2> QED
    BY <1>1, <2>1, <2>2, <2>3
<1>3. ASSUME headers.at = "stream"
      PROVE  now' <= headers.next + Delay
  <2>1. PICK due \in Nat : due = headers.next + Delay
    BY <1>1, StepMultiple
  <2>2. due % Step = 0
    <3>1. headers.next \in Nat /\ headers.next % Step = 0
      BY <1>1, <1>3 DEF ClockInv, OnTime
    <3> QED
      BY <2>1, <3>1, StepMultiple, MultiplesAdd
  <2> QED
    BY <1>1, <1>3, <2>1, <2>2, NextMultiple
<1>4. OnTime'
  BY <1>1, <1>2, <1>3 DEF ClockInv, OnTime
<1> QED
  BY <1>1, <1>2, <1>4, StreamKeeps

\* The dispatch instant is never before the dispatch time, and never after what the
\* sequencer's clock says of it by more than the clock is behind.
LEMMA InstantsAreLate ==
  ASSUME ClockInv
  PROVE  /\ DispatchMs \in Nat /\ LatestDispatchMs \in Nat
         /\ InstantFor(DispatchMs) \in Int /\ DispatchMs <= InstantFor(DispatchMs)
         /\ Quality /\ DispatchOpen => now <= LatestDispatchMs + Delay + clock.silence
<1>1. /\ clock.at \in Nat /\ clock.boundary \in Nat /\ now \in Nat /\ clock.count \in Nat
      /\ clock.silence \in Nat /\ Delay \in Nat /\ LeadMs \in Nat /\ WakeTolerance \in Nat
      /\ LaunchedAt \in Nat /\ EntrySecond \in Nat
  BY ClockAssumption DEF ClockInv, ClockTypes, ClockType
<1>2. DispatchMs \in Nat /\ LatestDispatchMs \in Nat
  BY <1>1 DEF LatestDispatchMs, DispatchMs, Larger, Smaller, Boundary, Second
<1>3. PICK b \in Nat : b = clock.boundary * Second
  BY <1>1 DEF Second
<1>4. b <= clock.at /\ (clock.count >= 2 => clock.at <= b + Delay + clock.silence)
  BY <1>3 DEF ClockInv, Pinned
<1>5. InstantFor(DispatchMs) = clock.at + (DispatchMs - b)
  BY <1>3 DEF InstantFor
<1>6. ASSUME Quality, DispatchOpen
      PROVE  now <= LatestDispatchMs + Delay + clock.silence
  <2>1. b + (now - clock.at) <= LatestDispatchMs
    BY <1>1, <1>3, <1>6 DEF Quality, DispatchOpen, ChainNow
  <2> QED
    BY <1>1, <1>2, <1>4, <1>6, <2>1 DEF Quality
<1> QED
  BY <1>1, <1>2, <1>4, <1>5, <1>6

EntryType ==
  [at : {"screened", "healthy", "planned", "wait", "flow", "curve", "lane", "acquire",
         "granted", "armed", "fired", "held"},
   until : Int, dispatch : Int, sent : Nat, silence : Nat]

\* A step of the entry.
LEMMA EntryKeeps ==
  ASSUME ClockInv, UNCHANGED <<now, clock, headers>>, entry' \in EntryType,
         entry'.at = "armed" => DispatchMs <= entry'.until,
         SentInWindow'
  PROVE  ClockInv'
<1>1. ClockTypes'
  BY DEF ClockInv, ClockTypes, EntryType
<1>2. OnTime' /\ LastSeen' /\ Pinned' /\ Armed'
  BY DEF ClockInv, OnTime, LastSeen, Pinned, Armed
<1> QED
  BY <1>1, <1>2 DEF ClockInv

Places == {"screened", "healthy", "planned", "wait", "flow", "curve", "lane", "acquire", "granted", "held"}

LEMMA EntryFields ==
  ASSUME ClockInv
  PROVE  /\ entry \in EntryType
         /\ \A at \in Places : [entry EXCEPT !.at = at] \in EntryType /\ [entry EXCEPT !.at = at].at = at
         /\ \A n \in Int :
              /\ [entry EXCEPT !.at = "planned", !.dispatch = n] \in EntryType
              /\ [entry EXCEPT !.at = "planned", !.dispatch = n].at = "planned"
BY DEF ClockInv, ClockTypes, EntryType, Places

LEMMA AdvanceKeeps ==
  ASSUME ClockInv, NEW at \in Places, Advance(at)
  PROVE  ClockInv'
<1>1. entry' = [entry EXCEPT !.at = at] /\ UNCHANGED <<now, clock, headers>>
  BY DEF Advance
<1>2. entry' \in EntryType /\ entry'.at = at
  BY <1>1, EntryFields
<1>3. at # "armed" /\ at # "fired"
  BY DEF Places
<1> QED
  BY <1>1, <1>2, <1>3, EntryKeeps DEF SentInWindow

LEMMA AdvanceUntilKeeps ==
  ASSUME ClockInv, NEW at \in Places \cup {"armed"}, NEW n \in Int, at = "armed" => DispatchMs <= n,
         AdvanceUntil(at, n)
  PROVE  ClockInv'
<1>1. entry' = [entry EXCEPT !.at = at, !.until = n] /\ UNCHANGED <<now, clock, headers>>
  BY DEF AdvanceUntil
<1>2. entry' \in EntryType /\ entry'.at = at /\ entry'.until = n
  BY <1>1 DEF ClockInv, ClockTypes, EntryType, Places
<1>3. at # "fired"
  BY DEF Places
<1>4. DispatchMs' = DispatchMs
  BY DEF DispatchMs, Boundary
<1> QED
  BY <1>1, <1>2, <1>3, EntryKeeps DEF SentInWindow

LEMMA EntryStepKeeps ==
  ASSUME ClockInv, EntryStep
  PROVE  ClockInv'
<1>0. /\ clock.at \in Nat /\ clock.boundary \in Nat /\ now \in Nat /\ entry.dispatch \in Int
      /\ clock.silence \in Nat /\ Deferral \in Nat /\ LaunchedAt \in Nat /\ EntrySecond \in Nat
  BY ClockAssumption DEF ClockInv, ClockTypes, ClockType
<1>1. CASE EntryHealthy
  BY <1>1, AdvanceKeeps DEF EntryHealthy, Places
<1>2. CASE EntryPlan
  <2>1. InstantFor(DispatchMs) \in Int
    BY InstantsAreLate
  <2>2. entry' = [entry EXCEPT !.at = "planned", !.dispatch = InstantFor(DispatchMs)]
        /\ UNCHANGED <<now, clock, headers>>
    BY <1>2 DEF EntryPlan
  <2> QED
    BY <2>1, <2>2, EntryFields, EntryKeeps DEF SentInWindow
<1>3. CASE EntrySleep
  <2>1. InstantFor(Boundary - Second) \in Int
    BY <1>0 DEF InstantFor, Boundary, Second
  <2> QED
    BY <1>3, <2>1, AdvanceUntilKeeps DEF EntrySleep, Places
<1>4. CASE EntryWake
  BY <1>4, AdvanceKeeps DEF EntryWake, Places
<1>5. CASE EntryFlow
  BY <1>5, AdvanceKeeps DEF EntryFlow, Places
<1>6. CASE EntryCurve
  <2>1. entry.dispatch - Deferral \in Int
    BY <1>0
  <2> QED
    BY <1>6, <2>1, AdvanceUntilKeeps DEF EntryCurve, Places
<1>7. CASE EntryLane
  BY <1>7, AdvanceKeeps DEF EntryLane, Places
<1>8. CASE EntryGranted
  BY <1>8, AdvanceKeeps DEF EntryGranted, Places
<1>9. CASE EntryArm
  BY <1>9, InstantsAreLate, AdvanceUntilKeeps DEF EntryArm
<1>10. CASE EntryFire
  <2>1. /\ entry' = [entry EXCEPT !.at = "fired", !.sent = now, !.silence = clock.silence]
        /\ UNCHANGED <<now, clock, headers>> /\ entry.at = "armed" /\ now >= entry.until
        /\ Quality /\ DispatchOpen
    BY <1>10 DEF EntryFire
  <2>2. /\ entry' \in EntryType /\ entry'.at = "fired" /\ entry'.sent = now
        /\ entry'.silence = clock.silence
    <3>1. PICK n \in Nat, k \in Nat : n = now /\ k = clock.silence
      BY <1>0
    <3>2. entry' = [entry EXCEPT !.at = "fired", !.sent = n, !.silence = k]
      BY <2>1, <3>1
    <3> QED
      BY <3>1, <3>2 DEF ClockInv, ClockTypes, EntryType
  <2>3. DispatchMs <= entry.until /\ entry.until \in Int
    BY <2>1 DEF ClockInv, Armed, ClockTypes
  <2>4. DispatchMs <= now /\ now <= LatestDispatchMs + Delay + clock.silence
    BY <1>0, <2>1, <2>3, InstantsAreLate
  <2>5. SentInWindow'
    BY <2>2, <2>4 DEF SentInWindow, DispatchMs, LatestDispatchMs, Boundary
  <2> QED
    BY <2>1, <2>2, <2>5, EntryKeeps
<1>11. CASE EntryHeld
  BY <1>11, AdvanceKeeps DEF EntryHeld, Places
<1> QED
  BY <1>1, <1>2, <1>3, <1>4, <1>5, <1>6, <1>7, <1>8, <1>9, <1>10, <1>11 DEF EntryStep

LEMMA ClockInvariance == ClockSpec => []ClockInv
<1>1. ClockInv /\ [ClockNext]_clockVars => ClockInv'
  <2> SUFFICES ASSUME ClockInv, [ClockNext]_clockVars
               PROVE  ClockInv'
    OBVIOUS
  <2>1. CASE UNCHANGED clockVars
    <3>1. now' = now /\ clock' = clock /\ headers' = headers /\ entry' = entry
      BY <2>1 DEF clockVars
    <3> QED
      BY <3>1 DEF ClockInv, ClockTypes, OnTime, LastSeen, Pinned, Armed, SentInWindow
  <2> QED
    BY <2>1, SubscribeKeeps, HeaderKeeps, StreamEndsKeeps, PollKeeps, TimePassesKeeps, EntryStepKeeps
       DEF ClockNext
<1> QED
  BY <1>1, ClockInitInv, PTL DEF ClockSpec

\* Whatever the delays of the headers, the ends of the stream and the anchors the clock
\* takes between plan and send, a burst goes no earlier than the dispatch time and no
\* later than the tolerance, the delay and the silence before the anchor allow.
THEOREM BurstInWindow == ClockSpec => []SentInWindow
<1>1. ClockInv => SentInWindow
  BY DEF ClockInv
<1> QED
  BY <1>1, ClockInvariance, PTL
=============================================================================
