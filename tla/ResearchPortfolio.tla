--------------------------- MODULE ResearchPortfolio ---------------------------
(***************************************************************************)
(* research.rs: the modelled ledger of a research session.  It is a value, *)
(* and each operation is a function of it; ResearchPortfolioBook keeps one *)
(* under a lock and writes it out after every change.  An operation that   *)
(* the code refuses has a predicate here that is false.                    *)
(***************************************************************************)
EXTENDS Integers, FiniteSets, FiniteSetsExt

CONSTANTS
  StartingEquity,    \* starting_equity_wei
  MaxCommitmentBps,
  MaxDrawdownBps,
  MaxOpenPositions,
  EntryGas,          \* modeled_entry_gas at the base fee, which stays the same
  ExitGas            \* modeled_exit_gas

\* ResearchProfile::validate
ASSUME ProfileValid ==
  /\ StartingEquity \in Nat \ {0} /\ MaxOpenPositions \in Nat \ {0}
  /\ MaxCommitmentBps \in 1 .. 10000 /\ MaxDrawdownBps \in 1 .. 10000
  /\ EntryGas \in Nat /\ ExitGas \in Nat

Unknown == -1
Known(value) == value # Unknown

BpsOf(value, bps) == (value * bps) \div 10000

SatSub(a, b) == IF a > b THEN a - b ELSE 0

Greater(a, b) == IF a > b THEN a ELSE b

\* What may be spent on an entry; below zero, modelled gas consumes the ceiling.
EntryValueForEquity(equity) == BpsOf(equity, MaxCommitmentBps) - EntryGas

NewPortfolio ==
  [cash |-> StartingEquity, peak |-> StartingEquity, reserved |-> 0,
   pos |-> [id \in {} |-> 0], risk |-> "Active", breached |-> FALSE]

Held(p) == DOMAIN p.pos

KnownEquity(p) ==
  IF \E id \in Held(p) : ~ Known(p.pos[id].mark) THEN Unknown
  ELSE p.cash + MapThenSumSet(LAMBDA id : p.pos[id].mark, Held(p))

DrawdownBps(peak, equity) ==
  IF peak = 0 \/ equity >= peak THEN 0 ELSE ((peak - equity) * 10000) \div peak

\* Mutant: the latch is computed afresh from each valuation.
RefreshRiskRearmed(p) ==
  LET equity == KnownEquity(p)
      peak   == Greater(p.peak, equity)
      down   == DrawdownBps(peak, equity) >= MaxDrawdownBps
  IN  IF ~ Known(equity) THEN [p EXCEPT !.risk = "ValuationUnknown"]
      ELSE [p EXCEPT !.peak = peak, !.breached = down,
              !.risk = IF ~ down THEN "Active" ELSE IF Held(p) = {} THEN "Halted" ELSE "Liquidating"]

\* An unknown value stops admissions, unless the drawdown already has; a known one
\* may set the latch, and nothing clears it.
RefreshRisk(p) ==
  LET equity == KnownEquity(p)
      peak   == Greater(p.peak, equity)
      latch  == p.breached \/ DrawdownBps(peak, equity) >= MaxDrawdownBps
  IN  IF ~ Known(equity)
      THEN [p EXCEPT !.risk = IF p.breached THEN @ ELSE "ValuationUnknown"]
      ELSE [p EXCEPT !.peak = peak, !.breached = latch,
              !.risk = IF ~ latch THEN "Active" ELSE IF Held(p) = {} THEN "Halted" ELSE "Liquidating"]

-----------------------------------------------------------------------------
(* Admission and entry.  bump_revision makes every outstanding admission    *)
(* stale; the caller says whether the one it holds is current.             *)

Admissible(p, value) ==
  /\ p.risk = "Active"
  /\ Cardinality(Held(p)) < MaxOpenPositions
  /\ Known(KnownEquity(p))
  /\ value + EntryGas \in 1 .. BpsOf(KnownEquity(p), MaxCommitmentBps)
  /\ p.reserved <= p.cash
  /\ value + EntryGas + ExitGas <= p.cash - p.reserved

\* Mutant: whatever happened since the admission, it is honoured.
ValidAdmissionOld(p, current) == Cardinality(Held(p)) < MaxOpenPositions

ValidAdmission(p, current) ==
  /\ current
  /\ p.risk = "Active"
  /\ Cardinality(Held(p)) < MaxOpenPositions

CanSettleEntry(p, current, id, tokens, value) ==
  /\ ValidAdmission(p, current)
  /\ id \notin Held(p) /\ tokens > 0
  /\ value + EntryGas <= p.cash

SettleEntry(p, id, tokens, value) ==
  RefreshRisk([p EXCEPT
    !.cash = @ - (value + EntryGas),
    !.reserved = @ + ExitGas,
    !.pos = [x \in DOMAIN @ \cup {id} |->
               IF x = id THEN [tokens |-> tokens, reserve |-> ExitGas, mark |-> Unknown]
               ELSE @[x]]])

-----------------------------------------------------------------------------
(* Valuation and exit *)

CanMark(p, id) == id \in Held(p)

Mark(p, id, value) == RefreshRisk([p EXCEPT !.pos[id].mark = value])

CanSettleExit(p, id, sold, proceeds) ==
  /\ id \in Held(p)
  /\ sold \in 1 .. p.pos[id].tokens
  /\ ExitGas <= p.cash + proceeds

\* Mutant: every exit releases the gas reserved for the position.
SettleExitReleasing(p, id, sold, proceeds) ==
  RefreshRisk([p EXCEPT
    !.cash = @ + proceeds - ExitGas,
    !.reserved = @ - p.pos[id].reserve,
    !.pos = IF sold = @[id].tokens THEN [x \in DOMAIN @ \ {id} |-> @[x]]
            ELSE [@ EXCEPT ![id].tokens = @ - sold]])

\* A full exit releases the gas reserved for it; a partial one scales the mark.
SettleExit(p, id, sold, proceeds) ==
  LET old  == p.pos[id]
      left == old.tokens - sold
      paid == [p EXCEPT !.cash = @ + proceeds - ExitGas]
  IN  RefreshRisk(
        IF left = 0
        THEN [paid EXCEPT !.reserved = @ - old.reserve,
                          !.pos = [x \in DOMAIN @ \ {id} |-> @[x]]]
        ELSE [paid EXCEPT !.pos[id].tokens = left,
                          !.pos[id].mark = IF Known(@) THEN (@ * left) \div old.tokens ELSE @])

-----------------------------------------------------------------------------
PortfolioTypeOK(p) ==
  /\ {p.cash, p.peak, p.reserved} \subseteq Nat
  /\ p.risk \in {"Active", "ValuationUnknown", "Liquidating", "Halted"}
  /\ p.breached \in BOOLEAN
  /\ \A id \in Held(p) : p.pos[id].tokens > 0 /\ p.pos[id].mark \in Nat \cup {Unknown}
================================================================================
