SPECIFICATION Spec
CONSTANTS
  Entry = {e1, e2, e3}
  Held = {h1}
  MaxOpen = 2
  Budget = 5
  Cost = {2, 3}
  Booked = {0, 1, 4}
SYMMETRY EntrySymmetry
CHECK_DEADLOCK FALSE
INVARIANTS TypeOK SlotLedger SpendLedger BudgetBound ReservationsWithinCap
