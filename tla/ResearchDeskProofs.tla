--------------------------- MODULE ResearchDeskProofs ---------------------------
(***************************************************************************)
(* Theorems about ResearchDesk for any launches, prices and number of      *)
(* faults, any profile that validates and any size of the queue and of the *)
(* slots.                                                                  *)
(*                                                                         *)
(* That store and book agree is not inductive by itself: an entry and an   *)
(* exit each change them one after the other, so that what is under way    *)
(* must be known to be in the one and not yet in the other, and nothing    *)
(* else may be under way on the same position.                             *)
(***************************************************************************)
EXTENDS ResearchDesk, SumLemmas, TLAPS

Position == [tokens : Nat \ {0}, reserve : Nat, mark : Nat \cup {Unknown}]

Books ==
  [cash : Nat, peak : Nat, reserved : Nat, pos : UNION {[S -> Position] : S \in SUBSET Launch},
   risk : {"Active", "ValuationUnknown", "Liquidating", "Halted"}, breached : BOOLEAN]

Reserves(p) == [id \in Held(p) |-> p.pos[id].reserve]

\* A book that its operations keep: the gas reserved is that of its positions, and a
\* drawdown has taken it out of the active state.
BookOK(p) ==
  /\ p \in Books
  /\ p.reserved = SumOf(Reserves(p), Held(p))
  /\ p.breached => p.risk \in {"Liquidating", "Halted"}

Entries == [at : {"unseen", "screen", "gate", "admit", "admitted", "opened", "settled", "done"},
            value : Int]
Exits == [at : {"free", "value", "decide", "sell", "applied", "settled", "kept"},
          by : {"none", "manager", "hand"}, sold : Nat, out : Nat]

DeskTypes ==
  /\ session \in {"up", "down", "refused"} /\ main \in {"loop", "drain", "join"}
  /\ paused \in BOOLEAN /\ stop \in BOOLEAN /\ resuming \in BOOLEAN /\ dirty \in BOOLEAN
  /\ current \subseteq Launch /\ store \in [Launch -> Nat] /\ saved \in [Launch -> Nat]
  /\ entry \in [Launch -> Entries] /\ exit \in [Launch -> Exits]
  /\ sweep \subseteq Launch /\ requests \subseteq Launch
  /\ queue \in Seq(Launch) /\ Len(queue) <= QueueSize

\* Outside a session no task is left over.
DownIsIdle ==
  session # "up" =>
    /\ main = "loop" /\ sweep = {}
    /\ \A id \in Launch : ~ InFlight(id) /\ exit[id] = Free

\* A launch whose entry has not opened it is in no inventory, and nobody sells it.
UnopenedIsNowhere(id) ==
  entry[id].at \in {"unseen", "screen", "gate", "admit", "admitted"} =>
    /\ store[id] = 0 /\ saved[id] = 0
    /\ id \notin Held(portfolio) /\ id \notin Held(ledger)
    /\ exit[id].at = "free"

\* Between the two steps of an entry the store has its tokens and the book has not; a
\* sale may wait, and cannot start.
OpenedIsWhole(id) ==
  entry[id].at = "opened" =>
    /\ store[id] = Tokens[id] /\ id \notin Held(portfolio)
    /\ exit[id].at \in {"free", "value", "sell"}

SaleIsCovered(id) == exit[id].at = "sell" => exit[id].sold <= store[id]

\* Between the two steps of an exit the book has what was sold on top of the store.
AppliedIsOwed(id) ==
  session = "up" /\ ~ stop /\ exit[id].at = "applied" => BookTokens(id) = store[id] + exit[id].sold

InventoriesAgree(id) ==
  session = "up" /\ ~ stop =>
    entry[id].at = "opened" \/ exit[id].at = "applied" \/ store[id] = BookTokens(id)

\* The book has not changed since an admission that is current.
AdmissionHolds(id) ==
  id \in current /\ entry[id].at \in {"admitted", "opened"} =>
    entry[id].value + EntryGas <= BpsOf(KnownEquity(portfolio), MaxCommitmentBps)

Local(id) ==
  /\ UnopenedIsNowhere(id) /\ OpenedIsWhole(id) /\ SaleIsCovered(id)
  /\ AppliedIsOwed(id) /\ InventoriesAgree(id) /\ AdmissionHolds(id)

\* The file is the book or an earlier one.
LedgerBehind ==
  ledger.breached => portfolio.breached /\ Held(portfolio) \subseteq Held(ledger)

DeskInv ==
  /\ DeskTypes /\ BookOK(portfolio) /\ BookOK(ledger)
  /\ DownIsIdle /\ LedgerBehind
  /\ \A id \in Launch : Local(id)

-----------------------------------------------------------------------------
(* The portfolio: what its operations keep, whatever the desk does *)

LEMMA ProductType == \A a, b \in Nat : a * b \in Nat
OBVIOUS

LEMMA QuotientType == \A a \in Nat, b \in Nat \ {0} : a \div b \in Nat
OBVIOUS

LEMMA HeldFinite ==
  ASSUME NEW p \in Books
  PROVE  /\ Held(p) \in SUBSET Launch /\ IsFiniteSet(Held(p)) /\ p.pos \in [Held(p) -> Position]
         /\ Cardinality(Held(p)) \in Nat
<1>1. Held(p) \in SUBSET Launch /\ p.pos \in [Held(p) -> Position]
  BY DEF Books, Held
<1>2. IsFiniteSet(Held(p))
  BY <1>1, FS_Subset, DeskAssumption
<1> QED
  BY <1>1, <1>2, FS_CardinalityType

LEMMA BooksFields ==
  ASSUME NEW p \in Books
  PROVE  /\ p.cash \in Nat /\ p.peak \in Nat /\ p.reserved \in Nat /\ p.breached \in BOOLEAN
         /\ p.risk \in {"Active", "ValuationUnknown", "Liquidating", "Halted"}
BY DEF Books

Marks(p) == [id \in Held(p) |-> p.pos[id].mark]

\* The two sums over the positions are sums of a function on them.
LEMMA MarksSum ==
  ASSUME NEW p
  PROVE  MapThenSumSet(LAMBDA id : p.pos[id].mark, Held(p)) = SumOf(Marks(p), Held(p))
<1> DEFINE S == Held(p)
           L(g) == [s \in SUBSET S |->
                      IF s = {} THEN 0
                      ELSE p.pos[CHOOSE x \in s : TRUE].mark + g[s \ {CHOOSE x \in s : TRUE}]]
           R(g) == [s \in SUBSET S |->
                      IF s = {} THEN 0
                      ELSE Marks(p)[CHOOSE x \in s : TRUE] + g[s \ {CHOOSE x \in s : TRUE}]]
<1>1. ASSUME NEW g
      PROVE  L(g) = R(g)
  <2>1. \A s \in SUBSET S : s # {} =>
          Marks(p)[CHOOSE x \in s : TRUE] = p.pos[CHOOSE x \in s : TRUE].mark
    BY DEF Marks
  <2> QED
    BY <2>1
<1>2. (CHOOSE g : g = L(g)) = (CHOOSE g : g = R(g))
  <2> HIDE DEF L, R
  <2>1. \A g : g = L(g) <=> g = R(g)
    BY <1>1
  <2> QED
    BY <2>1
<1>3. MapThenSumSet(LAMBDA id : p.pos[id].mark, Held(p)) = (CHOOSE g : g = L(g))[S]
  BY DEF MapThenSumSet, MapThenFoldSet
<1>4. SumOf(Marks(p), Held(p)) = (CHOOSE g : g = R(g))[S]
  BY DEF SumOf, SumFcn, Chosen
<1> QED
  BY <1>2, <1>3, <1>4

LEMMA ReservesSum ==
  ASSUME NEW p
  PROVE  MapThenSumSet(LAMBDA id : p.pos[id].reserve, Held(p)) = SumOf(Reserves(p), Held(p))
<1> DEFINE S == Held(p)
           L(g) == [s \in SUBSET S |->
                      IF s = {} THEN 0
                      ELSE p.pos[CHOOSE x \in s : TRUE].reserve + g[s \ {CHOOSE x \in s : TRUE}]]
           Q(g) == [s \in SUBSET S |->
                      IF s = {} THEN 0
                      ELSE Reserves(p)[CHOOSE x \in s : TRUE] + g[s \ {CHOOSE x \in s : TRUE}]]
<1>1. ASSUME NEW g
      PROVE  L(g) = Q(g)
  <2>1. \A s \in SUBSET S : s # {} =>
          Reserves(p)[CHOOSE x \in s : TRUE] = p.pos[CHOOSE x \in s : TRUE].reserve
    BY DEF Reserves
  <2> QED
    BY <2>1
<1>2. (CHOOSE g : g = L(g)) = (CHOOSE g : g = Q(g))
  <2> HIDE DEF L, Q
  <2>1. \A g : g = L(g) <=> g = Q(g)
    BY <1>1
  <2> QED
    BY <2>1
<1>3. MapThenSumSet(LAMBDA id : p.pos[id].reserve, Held(p)) = (CHOOSE g : g = L(g))[S]
  BY DEF MapThenSumSet, MapThenFoldSet
<1>4. SumOf(Reserves(p), Held(p)) = (CHOOSE g : g = Q(g))[S]
  BY DEF SumOf, SumFcn, Chosen
<1> QED
  BY <1>2, <1>3, <1>4


LEMMA EquityType ==
  ASSUME NEW p \in Books
  PROVE  /\ KnownEquity(p) \in Nat \cup {Unknown}
         /\ KnownEquity(p) \in Int
         /\ Known(KnownEquity(p)) => KnownEquity(p) \in Nat
<1>1. CASE \E id \in Held(p) : ~ Known(p.pos[id].mark)
  BY <1>1 DEF KnownEquity, Known, Unknown
<1>2. CASE \A id \in Held(p) : Known(p.pos[id].mark)
  <2>1. \A id \in Held(p) : Marks(p)[id] \in Nat
    BY <1>2, HeldFinite DEF Marks, Known, Position
  <2>2. SumOf(Marks(p), Held(p)) \in Nat
    BY <2>1, HeldFinite, SumNat
  <2>3. KnownEquity(p) = p.cash + SumOf(Marks(p), Held(p))
    BY <1>2, MarksSum DEF KnownEquity
  <2> QED
    BY <2>2, <2>3, BooksFields
<1> QED
  BY <1>1, <1>2

\* A new valuation changes the peak, the risk state and the latch, which it never clears.
LEMMA RefreshKeeps ==
  ASSUME NEW p, BookOK(p)
  PROVE  /\ BookOK(RefreshRisk(p))
         /\ RefreshRisk(p).pos = p.pos
         /\ p.breached => RefreshRisk(p).breached
<1>0. p \in Books
  BY DEF BookOK
<1> DEFINE r == RefreshRisk(p)
<1>1. /\ r \in Books /\ r.cash = p.cash /\ r.reserved = p.reserved /\ r.pos = p.pos
      /\ p.breached => r.breached
      /\ r.breached => r.risk \in {"Liquidating", "Halted"}
  <2>1. CASE ~ Known(KnownEquity(p))
    BY <1>0, <2>1 DEF RefreshRisk, BookOK, Books
  <2>2. CASE Known(KnownEquity(p))
    <3>1. KnownEquity(p) \in Nat
      BY <1>0, <2>2, EquityType
    <3>2. Greater(p.peak, KnownEquity(p)) \in Nat
      BY <1>0, <3>1, BooksFields DEF Greater
    <3> QED
      BY <1>0, <2>2, <3>2 DEF RefreshRisk, BookOK, Books
  <2> QED
    BY <2>1, <2>2
<1>2. r.reserved = SumOf(Reserves(r), Held(r))
  BY <1>1 DEF BookOK, Reserves, Held
<1> QED
  BY <1>1, <1>2 DEF BookOK

LEMMA NewOK == BookOK(NewPortfolio) /\ Held(NewPortfolio) = {} /\ ~ NewPortfolio.breached
<1>1. NewPortfolio \in Books
  <2> DEFINE maps == UNION {[S -> Position] : S \in SUBSET Launch}
  <2>1. [id \in {} |-> 0] \in maps
    <3>1. [id \in {} |-> 0] \in [{} -> Position] /\ {} \in SUBSET Launch
      OBVIOUS
    <3> QED
      BY <3>1
  <2>2. Books = [cash : Nat, peak : Nat, reserved : Nat, pos : maps,
                 risk : {"Active", "ValuationUnknown", "Liquidating", "Halted"}, breached : BOOLEAN]
    BY DEF Books
  <2>3. StartingEquity \in Nat
    BY ProfileValid
  <2> HIDE DEF maps
  <2> QED
    BY <2>1, <2>2, <2>3 DEF NewPortfolio
<1>2. Held(NewPortfolio) = {}
  BY DEF Held, NewPortfolio
<1>3. NewPortfolio.reserved = SumOf(Reserves(NewPortfolio), Held(NewPortfolio))
  BY <1>2, SumNone DEF NewPortfolio
<1> QED
  BY <1>1, <1>2, <1>3 DEF BookOK, NewPortfolio

LEMMA MarkKeeps ==
  ASSUME NEW p, BookOK(p), NEW id \in Held(p), NEW value \in Nat \cup {Unknown}
  PROVE  /\ BookOK(Mark(p, id, value))
         /\ Held(Mark(p, id, value)) = Held(p)
         /\ \A x \in Held(p) : Mark(p, id, value).pos[x].tokens = p.pos[x].tokens
         /\ p.breached => Mark(p, id, value).breached
<1> DEFINE q == [p EXCEPT !.pos[id].mark = value]
<1>0. p \in Books
  BY DEF BookOK
<1>1. /\ q.pos \in [Held(p) -> Position]
      /\ \A x \in Held(p) : q.pos[x].tokens = p.pos[x].tokens /\ q.pos[x].reserve = p.pos[x].reserve
  BY <1>0, HeldFinite DEF Position, Books
<1>2. /\ q.cash = p.cash /\ q.peak = p.peak /\ q.reserved = p.reserved
      /\ q.risk = p.risk /\ q.breached = p.breached
  BY <1>0 DEF Books
<1>3. q \in Books /\ Held(q) = Held(p)
  BY <1>0, <1>1, <1>2, HeldFinite DEF Books, Held
<1>4. q.reserved = SumOf(Reserves(q), Held(q))
  <2>1. Reserves(q) = Reserves(p)
    BY <1>1, <1>3 DEF Reserves
  <2> QED
    BY <1>2, <1>3, <2>1 DEF BookOK
<1>5. BookOK(q)
  BY <1>2, <1>3, <1>4 DEF BookOK
<1>6. Mark(p, id, value) = RefreshRisk(q)
  BY DEF Mark
<1> HIDE DEF q
<1>7. BookOK(RefreshRisk(q)) /\ RefreshRisk(q).pos = q.pos /\ (q.breached => RefreshRisk(q).breached)
  BY <1>5, RefreshKeeps
<1> QED
  BY <1>1, <1>2, <1>3, <1>6, <1>7 DEF Held

\* A book with other money and other positions is a book.
LEMMA BookWith ==
  ASSUME NEW p \in Books, NEW c \in Nat, NEW r \in Nat, NEW S \in SUBSET Launch, NEW f \in [S -> Position]
  PROVE  [p EXCEPT !.cash = c, !.reserved = r, !.pos = f] \in Books
<1>1. f \in UNION {[T -> Position] : T \in SUBSET Launch}
  OBVIOUS
<1> HIDE DEF Position
<1> QED
  BY <1>1 DEF Books

LEMMA SettleEntryKeeps ==
  ASSUME NEW p, BookOK(p), NEW id \in Launch, NEW tokens \in Nat \ {0}, NEW value \in Int,
         id \notin Held(p), value + EntryGas <= p.cash
  PROVE  LET q == SettleEntry(p, id, tokens, value)
         IN  /\ BookOK(q)
             /\ Held(q) = Held(p) \cup {id}
             /\ q.pos[id].tokens = tokens
             /\ \A x \in Held(p) : q.pos[x].tokens = p.pos[x].tokens
             /\ p.breached => q.breached
<1> DEFINE new == [x \in DOMAIN p.pos \cup {id} |->
                     IF x = id THEN [tokens |-> tokens, reserve |-> ExitGas, mark |-> Unknown]
                     ELSE p.pos[x]]
           q == [p EXCEPT !.cash = @ - (value + EntryGas), !.reserved = @ + ExitGas,
                   !.pos = [x \in DOMAIN @ \cup {id} |->
                     IF x = id THEN [tokens |-> tokens, reserve |-> ExitGas, mark |-> Unknown]
                     ELSE @[x]]]
<1>0. p \in Books
  BY DEF BookOK
<1>1. /\ q.pos = new /\ q.cash = p.cash - (value + EntryGas) /\ q.reserved = p.reserved + ExitGas
      /\ q.peak = p.peak /\ q.risk = p.risk /\ q.breached = p.breached
  BY <1>0 DEF Books, Held
<1>2. new \in [Held(p) \cup {id} -> Position] /\ Held(p) \cup {id} \in SUBSET Launch
  <2>1. p.pos \in [Held(p) -> Position] /\ Held(p) \in SUBSET Launch
    BY <1>0, HeldFinite
  <2>2. [tokens |-> tokens, reserve |-> ExitGas, mark |-> Unknown] \in Position
    BY ProfileValid DEF Position
  <2> QED
    BY <2>1, <2>2 DEF Held
<1>3. q.cash \in Nat /\ q.reserved \in Nat
  <2>1. p.cash \in Nat /\ p.reserved \in Nat /\ EntryGas \in Nat /\ ExitGas \in Nat
    BY <1>0, BooksFields, ProfileValid
  <2> HIDE DEF q
  <2> QED
    BY <1>1, <2>1
<1>4. Held(q) = Held(p) \cup {id}
  BY <1>1 DEF Held
<1>5. q \in Books
  <2>1. q = [p EXCEPT !.cash = p.cash - (value + EntryGas), !.reserved = p.reserved + ExitGas, !.pos = new]
    OBVIOUS
  <2>2. p.cash - (value + EntryGas) \in Nat /\ p.reserved + ExitGas \in Nat
    BY <1>1, <1>3
  <2> HIDE DEF q, new
  <2> QED
    BY <1>0, <1>2, <2>1, <2>2, BookWith
<1>6. q.reserved = SumOf(Reserves(q), Held(q))
  <2>1. IsFiniteSet(Held(p)) /\ IsFiniteSet(Held(q))
    BY <1>0, <1>5, HeldFinite
  <2>2. /\ \A x \in Held(p) : Reserves(p)[x] \in Int /\ Reserves(q)[x] = Reserves(p)[x]
        /\ \A x \in Held(q) : Reserves(q)[x] \in Int
        /\ Reserves(q)[id] = ExitGas
    <3>1. \A x \in Held(p) : q.pos[x] = p.pos[x]
      BY <1>1 DEF Held
    <3>2. q.pos[id].reserve = ExitGas
      BY <1>1
    <3>3. \A x \in Held(p) : p.pos[x].reserve \in Int
      BY <1>0, HeldFinite DEF Position
    <3> HIDE DEF q, new
    <3>4. \A x \in Held(p) : Reserves(p)[x] = p.pos[x].reserve
      BY DEF Reserves
    <3>5. \A x \in Held(p) \cup {id} : Reserves(q)[x] = q.pos[x].reserve
      BY <1>4 DEF Reserves
    <3> QED
      <4>1. ExitGas \in Int
        BY ProfileValid
      <4>2. \A x \in Held(p) : Reserves(q)[x] = Reserves(p)[x]
        BY <3>1, <3>4, <3>5
      <4>3. Reserves(q)[id] = ExitGas
        BY <3>2, <3>5
      <4>4. \A x \in Held(p) : Reserves(p)[x] \in Int
        BY <3>3, <3>4
      <4> QED
        BY <1>4, <4>1, <4>2, <4>3, <4>4
  <2>3. Held(p) \ {id} = Held(q) \ {id}
    BY <1>4
  <2>4. id \notin Held(p) /\ id \in Held(q)
    BY <1>4
  <2> HIDE DEF q, new
  <2>5. SumOf(Reserves(q), Held(q)) = SumOf(Reserves(p), Held(p)) - (IF id \in Held(p) THEN Reserves(p)[id] ELSE 0)
                                      + (IF id \in Held(q) THEN Reserves(q)[id] ELSE 0)
    BY <2>1, <2>2, <2>3, SumMove
  <2>6. SumOf(Reserves(p), Held(p)) \in Int
    BY <2>1, <2>2, SumType
  <2> QED
    BY <1>1, <2>2, <2>4, <2>5, <2>6 DEF BookOK
<1>7. BookOK(q)
  BY <1>1, <1>5, <1>6 DEF BookOK
<1>8. SettleEntry(p, id, tokens, value) = RefreshRisk(q)
  BY DEF SettleEntry
<1>9. q.pos[id].tokens = tokens /\ \A x \in Held(p) : q.pos[x].tokens = p.pos[x].tokens
  <2> HIDE DEF q
  <2> QED
    BY <1>1 DEF Held
<1> HIDE DEF q
<1>10. BookOK(RefreshRisk(q)) /\ RefreshRisk(q).pos = q.pos /\ (q.breached => RefreshRisk(q).breached)
  BY <1>7, RefreshKeeps
<1> QED
  BY <1>1, <1>4, <1>8, <1>9, <1>10 DEF Held

LEMMA SettleExitKeeps ==
  ASSUME NEW p, BookOK(p), NEW id \in Held(p), NEW sold \in Nat, NEW proceeds \in Nat,
         CanSettleExit(p, id, sold, proceeds)
  PROVE  LET q == SettleExit(p, id, sold, proceeds)
         IN  /\ BookOK(q)
             /\ Held(q) = IF sold = p.pos[id].tokens THEN Held(p) \ {id} ELSE Held(p)
             /\ id \in Held(q) => q.pos[id].tokens = p.pos[id].tokens - sold
             /\ \A x \in Held(q) \ {id} : q.pos[x].tokens = p.pos[x].tokens
             /\ p.breached => q.breached
<1> DEFINE old == p.pos[id]
           left == old.tokens - sold
           paid == [p EXCEPT !.cash = @ + proceeds - ExitGas]
<1>0. p \in Books /\ p.pos \in [Held(p) -> Position] /\ old \in Position
  BY HeldFinite DEF BookOK
<1>1. /\ paid \in Books /\ paid.cash = p.cash + proceeds - ExitGas /\ paid.peak = p.peak
      /\ paid.reserved = p.reserved /\ paid.pos = p.pos /\ paid.risk = p.risk /\ paid.breached = p.breached
  BY SMTT(30), <1>0, BooksFields, ProfileValid DEF CanSettleExit, Books
<1>2. sold \in 1 .. old.tokens /\ left \in Nat /\ old.tokens \in Nat \ {0}
  BY <1>0 DEF CanSettleExit, Position
<1>3. IsFiniteSet(Held(p)) /\ \A x \in Held(p) : Reserves(p)[x] \in Nat
  BY <1>0, HeldFinite DEF Reserves, Position
<1>4. CASE left = 0
  <2> DEFINE new == [x \in DOMAIN p.pos \ {id} |-> p.pos[x]]
             q == [paid EXCEPT !.reserved = @ - old.reserve,
                               !.pos = [x \in DOMAIN @ \ {id} |-> @[x]]]
  <2>1. /\ q.pos = new /\ q.reserved = p.reserved - old.reserve /\ q.cash = paid.cash
        /\ q.peak = p.peak /\ q.risk = p.risk /\ q.breached = p.breached
    BY <1>0, <1>1 DEF Books, Held
  <2>2. new \in [Held(p) \ {id} -> Position] /\ Held(p) \ {id} \in SUBSET Launch
    BY <1>0, HeldFinite DEF Held
  <2>3. Held(q) = Held(p) \ {id}
    BY <2>1 DEF Held
  <2>4. old.reserve <= p.reserved
    <3>1. Reserves(p)[id] <= SumOf(Reserves(p), Held(p))
      BY <1>3, SumNat
    <3> QED
      BY <3>1 DEF Reserves, BookOK
  <2>5. q.reserved \in Nat
    BY <1>0, <2>1, <2>4, BooksFields DEF Position
  <2>6. q \in Books
    <3>1. q = [p EXCEPT !.cash = p.cash + proceeds - ExitGas, !.reserved = p.reserved - old.reserve, !.pos = new]
      BY <1>0 DEF Books
    <3>2. p.cash + proceeds - ExitGas \in Nat /\ p.reserved - old.reserve \in Nat
      BY <1>1, <2>1, <2>5, BooksFields
    <3> HIDE DEF q, new, old, paid
    <3> QED
      BY <1>0, <2>2, <3>1, <3>2, BookWith
  <2>7. q.reserved = SumOf(Reserves(q), Held(q))
    <3>1. SumOf(Reserves(p), Held(p)) = Reserves(p)[id] + SumOf(Reserves(p), Held(p) \ {id})
      <4>1. \A x \in Held(p) : Reserves(p)[x] \in Int
        BY <1>3
      <4> QED
        BY <1>3, <4>1, SumWithout
    <3>2. IsFiniteSet(Held(q)) /\ \A x \in Held(q) : Reserves(q)[x] = Reserves(p)[x] /\ Reserves(p)[x] \in Int
      <4>1. \A x \in Held(q) : q.pos[x] = p.pos[x]
        BY <2>1, <2>3 DEF Held
      <4> HIDE DEF q
      <4>2. IsFiniteSet(Held(q))
        BY <2>6, HeldFinite
      <4>3. \A x \in Held(q) : Reserves(q)[x] = Reserves(p)[x]
        BY <2>3, <4>1 DEF Reserves
      <4> QED
        BY <1>3, <2>3, <4>2, <4>3
    <3> HIDE DEF q
    <3>3. SumOf(Reserves(q), Held(q)) = SumOf(Reserves(p), Held(q)) /\ SumOf(Reserves(p), Held(q)) \in Int
      BY <3>2, SumAgree, SumType
    <3>4. Reserves(p)[id] = old.reserve /\ old.reserve \in Nat
      BY <1>0 DEF Reserves, Position
    <3> QED
      BY <2>1, <2>3, <3>1, <3>3, <3>4 DEF BookOK
  <2>8. BookOK(q)
    BY <2>1, <2>6, <2>7 DEF BookOK
  <2>9. SettleExit(p, id, sold, proceeds) = RefreshRisk(q)
    BY <1>4 DEF SettleExit
  <2>10. sold = old.tokens
    BY <1>2, <1>4
  <2>11. \A x \in Held(q) \ {id} : q.pos[x].tokens = p.pos[x].tokens
    <3> HIDE DEF q
    <3> QED
      BY <2>1, <2>3 DEF Held
  <2> HIDE DEF q
  <2>12. BookOK(RefreshRisk(q)) /\ RefreshRisk(q).pos = q.pos /\ (q.breached => RefreshRisk(q).breached)
    BY <2>8, RefreshKeeps
  <2> QED
    BY <2>1, <2>3, <2>9, <2>10, <2>11, <2>12 DEF Held
<1>5. CASE left # 0
  <2> DEFINE q == [paid EXCEPT !.pos[id].tokens = left,
                               !.pos[id].mark = IF Known(@) THEN (@ * left) \div old.tokens ELSE @]
             mark == IF Known(old.mark) THEN (old.mark * left) \div old.tokens ELSE old.mark
  <2>1. mark \in Nat \cup {Unknown}
    <3>1. CASE Known(old.mark)
      <4>1. old.mark \in Nat
        BY <1>0, <3>1 DEF Position, Known
      <4>2. old.mark * left \in Nat
        BY <1>2, <4>1, ProductType
      <4> QED
        BY <1>2, <3>1, <4>2, QuotientType
    <3>2. CASE ~ Known(old.mark)
      BY <1>0, <3>2 DEF Position
    <3> QED
      BY <3>1, <3>2
  <2>2. q.pos = [p.pos EXCEPT ![id] = [old EXCEPT !.tokens = left, !.mark = mark]]
    BY <1>0, <1>1 DEF Books, Position
  <2>3. q.pos \in [Held(p) -> Position]
    <3>1. [old EXCEPT !.tokens = left, !.mark = mark] \in Position
      <4> HIDE DEF mark, left
      <4> QED
        BY <1>0, <1>2, <1>5, <2>1 DEF Position
    <3> HIDE DEF q, mark, left, old
    <3> QED
      BY <1>0, <2>2, <3>1
  <2>4. /\ q.pos[id].tokens = left /\ \A x \in Held(p) \ {id} : q.pos[x] = p.pos[x]
        /\ q.pos[id].reserve = old.reserve
    <3> HIDE DEF q
    <3> QED
      BY <1>0, <2>2 DEF Position
  <2>5. /\ q.reserved = p.reserved /\ q.cash = paid.cash
        /\ q.peak = p.peak /\ q.risk = p.risk /\ q.breached = p.breached
    BY <1>1 DEF Books
  <2>6. q \in Books /\ Held(q) = Held(p)
    <3>1. q = [p EXCEPT !.cash = paid.cash, !.reserved = p.reserved, !.pos = q.pos]
      BY <1>0, <1>1 DEF Books
    <3>2. paid.cash \in Nat /\ p.reserved \in Nat /\ Held(p) \in SUBSET Launch
      BY <1>0, <1>1, BooksFields, HeldFinite
    <3> HIDE DEF q, paid
    <3>3. \A f \in [Held(p) -> Position] :
            [p EXCEPT !.cash = paid.cash, !.reserved = p.reserved, !.pos = f] \in Books
      BY <1>0, <3>2, BookWith
    <3>4. q \in Books
      BY <2>3, <3>1, <3>3, Zenon
    <3> QED
      BY <3>4, <2>3 DEF Held
  <2>7. q.reserved = SumOf(Reserves(q), Held(q))
    <3>1. Reserves(q) = Reserves(p)
      <4> HIDE DEF q
      <4> QED
        BY <2>4, <2>6 DEF Reserves
    <3> QED
      BY <2>5, <2>6, <3>1 DEF BookOK
  <2>8. BookOK(q)
    BY <2>5, <2>6, <2>7 DEF BookOK
  <2>9. SettleExit(p, id, sold, proceeds) = RefreshRisk(q)
    BY <1>5 DEF SettleExit
  <2>10. sold # old.tokens
    BY <1>2, <1>5
  <2> HIDE DEF q
  <2>12. BookOK(RefreshRisk(q)) /\ RefreshRisk(q).pos = q.pos /\ (q.breached => RefreshRisk(q).breached)
    BY <2>8, RefreshKeeps
  <2> QED
    BY <2>4, <2>5, <2>6, <2>9, <2>10, <2>12 DEF Held
<1> QED
  BY <1>4, <1>5

-----------------------------------------------------------------------------
(* The desk: the inductive invariant *)

EntryPlaces == {"unseen", "screen", "gate", "admit", "admitted", "opened", "settled", "done"}
ExitPlaces == {"free", "value", "decide", "sell", "applied", "settled", "kept"}

LEMMA EntryWith == \A e \in Entries, a \in EntryPlaces : [e EXCEPT !.at = a] \in Entries
<1> SUFFICES ASSUME NEW e \in Entries, NEW a \in EntryPlaces
             PROVE  [e EXCEPT !.at = a] \in Entries
  OBVIOUS
<1>1. [e EXCEPT !.at = a].at = a /\ [e EXCEPT !.at = a].value = e.value
  BY DEF Entries
<1> QED
  BY <1>1 DEF Entries, EntryPlaces

LEMMA ExitWith ==
  /\ Free \in Exits
  /\ \A e \in Exits, a \in ExitPlaces, n \in Nat :
       /\ [e EXCEPT !.at = a] \in Exits
       /\ [e EXCEPT !.at = a, !.sold = n] \in Exits
       /\ [e EXCEPT !.at = a, !.out = n] \in Exits
BY ZenonT(40) DEF Exits, ExitPlaces, Free

LEMMA DeskInitInv == Init => DeskInv
<1> SUFFICES ASSUME Init
             PROVE  DeskInv
  OBVIOUS
<1> USE DEF Init
<1>1. DeskTypes
  <2>1. <<>> \in Seq(Launch) /\ Len(<<>>) = 0
    OBVIOUS
  <2>2. Fresh \in Entries /\ Free \in Exits
    BY DEF Entries, Exits, Fresh, Free
  <2>3. queue \in Seq(Launch) /\ Len(queue) <= QueueSize
    BY <2>1, DeskAssumption
  <2>4. store \in [Launch -> Nat] /\ entry \in [Launch -> Entries] /\ exit \in [Launch -> Exits]
    BY <2>2
  <2> QED
    BY <2>3, <2>4 DEF DeskTypes
<1>2. BookOK(portfolio) /\ BookOK(ledger) /\ Held(portfolio) = {} /\ Held(ledger) = {} /\ ~ ledger.breached
  BY NewOK
<1>3. DownIsIdle /\ LedgerBehind
  BY <1>2 DEF DownIsIdle, LedgerBehind
<1>4. \A id \in Launch : Local(id)
  BY <1>2 DEF Local, UnopenedIsNowhere, OpenedIsWhole, SaleIsCovered, AppliedIsOwed,
         InventoriesAgree, AdmissionHolds, BookTokens, Fresh, Free
<1> QED
  BY <1>1, <1>2, <1>3, <1>4 DEF DeskInv

\* The book changes and its file does, or does not.
BookStep(new) ==
  /\ portfolio' = new /\ current' = {} /\ ledger' \in {new, ledger}
  /\ BookOK(new)
  /\ portfolio.breached => new.breached /\ Held(new) \subseteq Held(portfolio)

LEMMA BookStepKeeps ==
  ASSUME DeskInv, NEW new, BookStep(new)
  PROVE  BookOK(portfolio') /\ BookOK(ledger') /\ LedgerBehind'
BY DEF DeskInv, BookStep, LedgerBehind

\* What a step leaves alone of the launches it is not about.
Frame(x) ==
  /\ entry'[x] = entry[x] /\ exit'[x] = exit[x]
  /\ store'[x] = store[x] /\ saved'[x] \in {saved[x], store[x]}
  /\ session' = session /\ (stop => stop')
  /\ x \in Held(portfolio') <=> x \in Held(portfolio)
  /\ BookTokens(x)' = BookTokens(x)
  /\ x \in Held(ledger') => x \in Held(portfolio) \cup Held(ledger)
  /\ x \in current' => x \in current /\ portfolio' = portfolio

LEMMA FrameKeeps ==
  ASSUME DeskTypes, NEW x \in Launch, Local(x), Frame(x)
  PROVE  Local(x)'
<1>1. UnopenedIsNowhere(x)' /\ OpenedIsWhole(x)' /\ SaleIsCovered(x)'
  BY DEF Local, Frame, UnopenedIsNowhere, OpenedIsWhole, SaleIsCovered
<1>2. AppliedIsOwed(x)' /\ InventoriesAgree(x)'
  BY DEF Local, Frame, AppliedIsOwed, InventoriesAgree, DeskTypes
<1>3. AdmissionHolds(x)'
  BY DEF Local, Frame, AdmissionHolds
<1> QED
  BY <1>1, <1>2, <1>3 DEF Local

\* A step that leaves the book and its file alone, and is about one launch at most.
LEMMA TaskStepKeeps ==
  ASSUME DeskInv, DeskTypes', DownIsIdle', portfolio' = portfolio, ledger' = ledger,
         \A x \in Launch : Frame(x) \/ Local(x)'
  PROVE  DeskInv'
BY FrameKeeps DEF DeskInv, LedgerBehind

\* A step that changes the book, about one launch.
LEMMA BookingKeeps ==
  ASSUME DeskInv, DeskTypes', DownIsIdle', NEW new, BookStep(new),
         \A x \in Launch : Frame(x) \/ Local(x)'
  PROVE  DeskInv'
BY FrameKeeps, BookStepKeeps DEF DeskInv

LEMMA DeskNextInv == DeskInv /\ [Next]_deskVars => DeskInv'
<1> SUFFICES ASSUME DeskInv, [Next]_deskVars
             PROVE  DeskInv'
  OBVIOUS
<1>0. /\ DeskTypes /\ BookOK(portfolio) /\ BookOK(ledger) /\ DownIsIdle /\ LedgerBehind
      /\ \A id \in Launch : Local(id)
  BY DEF DeskInv
<1> USE DEF sessionVars, controlVars, bookVars, storeVars, workVars, boardVars
<1>1. ASSUME SweepStart
      PROVE  DeskInv'
  <2>1. DeskTypes'
    BY <1>0, <1>1 DEF SweepStart, OpenIn, DeskTypes
  <2>2. DownIsIdle'
    BY <1>0, <1>1 DEF SweepStart, OpenIn, DeskTypes, DownIsIdle, InFlight
  <2>3. \A x \in Launch : Frame(x)
    BY <1>0, <1>1 DEF SweepStart, OpenIn, Frame, DeskTypes, BookTokens
  <2> QED
    BY <1>1, <2>1, <2>2, <2>3, TaskStepKeeps DEF SweepStart, OpenIn
<1>2. ASSUME FlushIfDue
      PROVE  DeskInv'
  <2>1. DeskTypes'
    BY <1>0, <1>2 DEF FlushIfDue, FlushStore, FlushFails, Faults, DeskTypes
  <2>2. DownIsIdle'
    BY <1>0, <1>2 DEF FlushIfDue, FlushStore, FlushFails, Faults, DeskTypes, DownIsIdle, InFlight
  <2>3. \A x \in Launch : Frame(x)
    BY <1>0, <1>2 DEF FlushIfDue, FlushStore, FlushFails, Faults, Frame, DeskTypes, BookTokens
  <2> QED
    BY <1>2, <2>1, <2>2, <2>3, TaskStepKeeps DEF FlushIfDue, FlushStore, FlushFails, Faults
<1>3. ASSUME NEW id \in Launch, RequestClose(id)
      PROVE  DeskInv'
  <2>1. DeskTypes'
    BY <1>0, <1>3, DeskAssumption DEF RequestClose, DeskTypes
  <2>2. DownIsIdle'
    BY <1>0, <1>3 DEF RequestClose, DeskTypes, DownIsIdle, InFlight
  <2>3. \A x \in Launch : Frame(x)
    BY <1>0, <1>3 DEF RequestClose, Frame, DeskTypes, BookTokens
  <2> QED
    BY <1>3, <2>1, <2>2, <2>3, TaskStepKeeps DEF RequestClose
<1>4. ASSUME Pause
      PROVE  DeskInv'
  <2>1. DeskTypes'
    BY <1>0, <1>4 DEF Pause, DeskTypes
  <2>2. DownIsIdle'
    BY <1>0, <1>4 DEF Pause, DeskTypes, DownIsIdle, InFlight
  <2>3. \A x \in Launch : Frame(x)
    BY <1>0, <1>4 DEF Pause, Frame, DeskTypes, BookTokens
  <2> QED
    BY <1>4, <2>1, <2>2, <2>3, TaskStepKeeps DEF Pause
<1>5. ASSUME ResumeCheck
      PROVE  DeskInv'
  <2>1. DeskTypes'
    BY <1>0, <1>5 DEF ResumeCheck, DeskTypes
  <2>2. DownIsIdle'
    BY <1>0, <1>5 DEF ResumeCheck, DeskTypes, DownIsIdle, InFlight
  <2>3. \A x \in Launch : Frame(x)
    BY <1>0, <1>5 DEF ResumeCheck, Frame, DeskTypes, BookTokens
  <2> QED
    BY <1>5, <2>1, <2>2, <2>3, TaskStepKeeps DEF ResumeCheck
<1>6. ASSUME ResumeStore
      PROVE  DeskInv'
  <2>1. DeskTypes'
    BY <1>0, <1>6 DEF ResumeStore, DeskTypes
  <2>2. DownIsIdle'
    BY <1>0, <1>6 DEF ResumeStore, DeskTypes, DownIsIdle, InFlight
  <2>3. \A x \in Launch : Frame(x)
    BY <1>0, <1>6 DEF ResumeStore, Frame, DeskTypes, BookTokens
  <2> QED
    BY <1>6, <2>1, <2>2, <2>3, TaskStepKeeps DEF ResumeStore
<1>7. ASSUME Stop
      PROVE  DeskInv'
  <2>1. DeskTypes'
    BY <1>0, <1>7 DEF Stop, Halt, Faults, DeskTypes
  <2>2. DownIsIdle'
    BY <1>0, <1>7 DEF Stop, Halt, Faults, DeskTypes, DownIsIdle, InFlight
  <2>3. \A x \in Launch : Frame(x)
    BY <1>0, <1>7 DEF Stop, Halt, Faults, Frame, DeskTypes, BookTokens
  <2> QED
    BY <1>7, <2>1, <2>2, <2>3, TaskStepKeeps DEF Stop, Halt, Faults
<1>8. ASSUME MainExit
      PROVE  DeskInv'
  <2>1. DeskTypes'
    BY <1>0, <1>8 DEF MainExit, DeskTypes
  <2>2. DownIsIdle'
    BY <1>0, <1>8 DEF MainExit, DeskTypes, DownIsIdle, InFlight
  <2>3. \A x \in Launch : Frame(x)
    BY <1>0, <1>8 DEF MainExit, Frame, DeskTypes, BookTokens
  <2> QED
    BY <1>8, <2>1, <2>2, <2>3, TaskStepKeeps DEF MainExit
<1>9. ASSUME Drain
      PROVE  DeskInv'
  <2>1. DeskTypes'
    BY <1>0, <1>9 DEF Drain, DeskTypes
  <2>2. DownIsIdle'
    BY <1>0, <1>9 DEF Drain, DeskTypes, DownIsIdle, InFlight
  <2>3. \A x \in Launch : Frame(x)
    BY <1>0, <1>9 DEF Drain, Frame, DeskTypes, BookTokens
  <2> QED
    BY <1>9, <2>1, <2>2, <2>3, TaskStepKeeps DEF Drain
<1>10. ASSUME NEW id \in Launch, Launched(id)
      PROVE  DeskInv'
  <2>1. DeskTypes'
    <3>1. Done \in Entries
      BY <1>0, <1>10 DEF Done, Entries
    <3>2. [entry[id] EXCEPT !.at = "screen"] \in Entries
      BY <1>0, <1>10, EntryWith DEF EntryPlaces, DeskTypes
    <3>3. entry' \in [Launch -> Entries]
      BY <1>0, <1>10, <3>1, <3>2 DEF Launched, DeskTypes
    <3>4. main' \in {"loop", "drain", "join"}
      BY <1>0, <1>10 DEF Launched, TakeEvent
    <3> QED
      BY <1>0, <1>10, <3>1, <3>2, <3>3, <3>4 DEF Launched, TakeEvent, Done, InFlight, DeskTypes
  <2>2. DownIsIdle'
    BY <1>0, <1>10 DEF Launched, TakeEvent, Done, InFlight, DeskTypes, DownIsIdle, InFlight
  <2>3. \A x \in Launch \ {id} : Frame(x)
    BY <1>0, <1>10 DEF Launched, TakeEvent, Done, InFlight, Frame, DeskTypes, BookTokens
  <2>4. Local(id)'
    BY <1>0, <1>10, <2>1
       DEF Launched, TakeEvent, Done, InFlight, DeskTypes, Entries, Exits, Local, UnopenedIsNowhere,
           OpenedIsWhole, SaleIsCovered, AppliedIsOwed, InventoriesAgree, AdmissionHolds, BookTokens
  <2> QED
    BY <1>10, <2>1, <2>2, <2>3, <2>4, TaskStepKeeps DEF Launched, TakeEvent, Done, InFlight
<1>11. ASSUME NEW id \in Launch, EntryHeld(id)
      PROVE  DeskInv'
  <2>1. DeskTypes'
    BY <1>0, <1>11 DEF EntryHeld, Done, InFlight, DeskTypes, Entries, Exits
  <2>2. DownIsIdle'
    BY <1>0, <1>11 DEF EntryHeld, Done, InFlight, DeskTypes, DownIsIdle, InFlight
  <2>3. \A x \in Launch \ {id} : Frame(x)
    BY <1>0, <1>11 DEF EntryHeld, Done, InFlight, Frame, DeskTypes, BookTokens
  <2>4. Local(id)'
    BY <1>0, <1>11, <2>1
       DEF EntryHeld, Done, InFlight, DeskTypes, Entries, Exits, Local, UnopenedIsNowhere,
           OpenedIsWhole, SaleIsCovered, AppliedIsOwed, InventoriesAgree, AdmissionHolds, BookTokens
  <2> QED
    BY <1>11, <2>1, <2>2, <2>3, <2>4, TaskStepKeeps DEF EntryHeld, Done, InFlight
<1>12. ASSUME NEW id \in Launch, EntryScreen(id)
      PROVE  DeskInv'
  <2>1. DeskTypes'
    <3>1. EntryValueForEquity(KnownEquity(portfolio)) \in Int
      BY <1>0, <1>12, EquityType, ProfileValid DEF BookOK, EntryValueForEquity, BpsOf
    <3>2. [at |-> "gate", value |-> EntryValueForEquity(KnownEquity(portfolio))] \in Entries
      BY <1>0, <1>12, <3>1 DEF Entries
    <3>3. entry' \in [Launch -> Entries]
      BY <1>0, <1>12, <3>2 DEF EntryScreen, DeskTypes
    <3> QED
      BY <1>0, <1>12, <3>1, <3>2, <3>3 DEF EntryScreen, InFlight, DeskTypes
  <2>2. DownIsIdle'
    BY <1>0, <1>12 DEF EntryScreen, InFlight, DeskTypes, DownIsIdle, InFlight
  <2>3. \A x \in Launch \ {id} : Frame(x)
    BY <1>0, <1>12 DEF EntryScreen, InFlight, Frame, DeskTypes, BookTokens
  <2>4. Local(id)'
    BY <1>0, <1>12, <2>1
       DEF EntryScreen, InFlight, DeskTypes, Entries, Exits, Local, UnopenedIsNowhere,
           OpenedIsWhole, SaleIsCovered, AppliedIsOwed, InventoriesAgree, AdmissionHolds, BookTokens
  <2> QED
    BY <1>12, <2>1, <2>2, <2>3, <2>4, TaskStepKeeps DEF EntryScreen, InFlight
<1>13. ASSUME NEW id \in Launch, EntryGate(id)
      PROVE  DeskInv'
  <2>1. DeskTypes'
    BY ZenonT(40), <1>0, <1>13 DEF EntryGate, DeskTypes, Entries, Exits
  <2>2. DownIsIdle'
    BY <1>0, <1>13 DEF EntryGate, DeskTypes, DownIsIdle, InFlight
  <2>3. \A x \in Launch \ {id} : Frame(x)
    BY <1>0, <1>13 DEF EntryGate, Frame, DeskTypes, BookTokens
  <2>4. Local(id)'
    BY <1>0, <1>13, <2>1
       DEF EntryGate, DeskTypes, Entries, Exits, Local, UnopenedIsNowhere, OpenedIsWhole,
           SaleIsCovered, AppliedIsOwed, InventoriesAgree, AdmissionHolds, BookTokens
  <2> QED
    BY <1>13, <2>1, <2>2, <2>3, <2>4, TaskStepKeeps DEF EntryGate
<1>14. ASSUME NEW id \in Launch, EntryAdmit(id)
      PROVE  DeskInv'
  <2>1. DeskTypes'
    BY <1>0, <1>14 DEF EntryAdmit, Admissible, DeskTypes, Entries, Exits
  <2>2. DownIsIdle'
    BY <1>0, <1>14 DEF EntryAdmit, Admissible, DeskTypes, DownIsIdle, InFlight
  <2>3. \A x \in Launch \ {id} : Frame(x)
    BY <1>0, <1>14 DEF EntryAdmit, Admissible, Frame, DeskTypes, BookTokens
  <2>4. Local(id)'
    BY <1>0, <1>14, <2>1
       DEF EntryAdmit, Admissible, DeskTypes, Entries, Exits, Local, UnopenedIsNowhere,
           OpenedIsWhole, SaleIsCovered, AppliedIsOwed, InventoriesAgree, AdmissionHolds, BookTokens
  <2> QED
    BY <1>14, <2>1, <2>2, <2>3, <2>4, TaskStepKeeps DEF EntryAdmit, Admissible
<1>15. ASSUME NEW id \in Launch, EntryOpen(id)
      PROVE  DeskInv'
  <2>1. DeskTypes'
    BY ZenonT(40), <1>0, <1>15, DeskAssumption DEF EntryOpen, PermitFree, DeskTypes, Entries, Exits
  <2>2. DownIsIdle'
    BY <1>0, <1>15 DEF EntryOpen, PermitFree, DeskTypes, DownIsIdle, InFlight
  <2>3. \A x \in Launch \ {id} : Frame(x)
    BY <1>0, <1>15 DEF EntryOpen, PermitFree, Frame, DeskTypes, BookTokens
  <2>4. Local(id)'
    BY <1>0, <1>15, <2>1, DeskAssumption
       DEF EntryOpen, PermitFree, DeskTypes, Entries, Exits, Local, UnopenedIsNowhere,
           OpenedIsWhole, SaleIsCovered, AppliedIsOwed, InventoriesAgree, AdmissionHolds, BookTokens
  <2> QED
    BY <1>15, <2>1, <2>2, <2>3, <2>4, TaskStepKeeps DEF EntryOpen, PermitFree
<1>16. ASSUME NEW id \in Launch, EntryFlush(id)
      PROVE  DeskInv'
  <2>1. DeskTypes'
    <3>1. Done \in Entries
      BY <1>0, <1>16 DEF Done, Entries
    <3>2. entry' \in [Launch -> Entries]
      BY <1>0, <1>16, <3>1 DEF EntryFlush, DeskTypes
    <3> QED
      BY <1>0, <1>16, <3>1, <3>2 DEF EntryFlush, FlushStore, FlushFails, Faults, Done, DeskTypes
  <2>2. DownIsIdle'
    BY <1>0, <1>16 DEF EntryFlush, FlushStore, FlushFails, Faults, Done, DeskTypes, DownIsIdle, InFlight
  <2>3. \A x \in Launch \ {id} : Frame(x)
    BY <1>0, <1>16 DEF EntryFlush, FlushStore, FlushFails, Faults, Done, Frame, DeskTypes, BookTokens
  <2>4. Local(id)'
    BY <1>0, <1>16, <2>1
       DEF EntryFlush, FlushStore, FlushFails, Faults, Done, DeskTypes, Entries, Exits, Local,
           UnopenedIsNowhere, OpenedIsWhole, SaleIsCovered, AppliedIsOwed, InventoriesAgree,
           AdmissionHolds, BookTokens
  <2> QED
    BY <1>16, <2>1, <2>2, <2>3, <2>4, TaskStepKeeps DEF EntryFlush, FlushStore, FlushFails, Faults, Done
<1>17. ASSUME NEW id \in Launch, ManageTake(id)
      PROVE  DeskInv'
  <2>1. DeskTypes'
    BY <1>0, <1>17 DEF ManageTake, Free, DeskTypes, Entries, Exits
  <2>2. DownIsIdle'
    BY <1>0, <1>17 DEF ManageTake, Free, DeskTypes, DownIsIdle, InFlight
  <2>3. \A x \in Launch \ {id} : Frame(x)
    BY <1>0, <1>17 DEF ManageTake, Free, Frame, DeskTypes, BookTokens
  <2>4. Local(id)'
    BY <1>0, <1>17, <2>1
       DEF ManageTake, Free, DeskTypes, Entries, Exits, Local, UnopenedIsNowhere, OpenedIsWhole,
           SaleIsCovered, AppliedIsOwed, InventoriesAgree, AdmissionHolds, BookTokens
  <2> QED
    BY <1>17, <2>1, <2>2, <2>3, <2>4, TaskStepKeeps DEF ManageTake, Free
<1>18. ASSUME NEW id \in Launch, ManageDecide(id)
      PROVE  DeskInv'
  <2>1. DeskTypes'
    <3>1. \A sold \in {0, store[id] \div 2, store[id]} : sold \in Nat
      BY <1>0, <1>18 DEF DeskTypes
    <3>2. Free \in Exits /\ \A sold \in Nat : [exit[id] EXCEPT !.at = "sell", !.sold = sold] \in Exits
      BY <1>0, <1>18, ExitWith DEF ExitPlaces, DeskTypes
    <3>3. exit'[id] \in Exits
      BY ZenonT(40), <1>0, <1>18, <3>1, <3>2 DEF ManageDecide, DeskTypes
    <3>4. exit' \in [Launch -> Exits]
      BY <1>0, <1>18, <3>3 DEF ManageDecide, DeskTypes
    <3> QED
      BY <1>0, <1>18, <3>1, <3>2, <3>3, <3>4 DEF ManageDecide, Free, DeskTypes
  <2>2. DownIsIdle'
    BY <1>0, <1>18 DEF ManageDecide, Free, DeskTypes, DownIsIdle, InFlight
  <2>3. \A x \in Launch \ {id} : Frame(x)
    BY <1>0, <1>18 DEF ManageDecide, Free, Frame, DeskTypes, BookTokens
  <2>4. Local(id)'
    BY <1>0, <1>18, <2>1
       DEF ManageDecide, Free, DeskTypes, Entries, Exits, Local, UnopenedIsNowhere, OpenedIsWhole,
           SaleIsCovered, AppliedIsOwed, InventoriesAgree, AdmissionHolds, BookTokens
  <2> QED
    BY <1>18, <2>1, <2>2, <2>3, <2>4, TaskStepKeeps DEF ManageDecide, Free
<1>19. ASSUME NEW id \in Launch, ManageNoFlow(id)
      PROVE  DeskInv'
  <2>1. DeskTypes'
    BY <1>0, <1>19 DEF ManageNoFlow, Free, Faults, DeskTypes, Entries, Exits
  <2>2. DownIsIdle'
    BY <1>0, <1>19 DEF ManageNoFlow, Free, Faults, DeskTypes, DownIsIdle, InFlight
  <2>3. \A x \in Launch \ {id} : Frame(x)
    BY <1>0, <1>19 DEF ManageNoFlow, Free, Faults, Frame, DeskTypes, BookTokens
  <2>4. Local(id)'
    BY <1>0, <1>19, <2>1
       DEF ManageNoFlow, Free, Faults, DeskTypes, Entries, Exits, Local, UnopenedIsNowhere,
           OpenedIsWhole, SaleIsCovered, AppliedIsOwed, InventoriesAgree, AdmissionHolds, BookTokens
  <2> QED
    BY <1>19, <2>1, <2>2, <2>3, <2>4, TaskStepKeeps DEF ManageNoFlow, Free, Faults
<1>20. ASSUME NEW id \in Launch, ExitApply(id)
      PROVE  DeskInv'
  <2>1. DeskTypes'
    <3>1. \A price \in Price : exit[id].sold * price \in Nat
      BY <1>0, <1>20, ProductType, DeskAssumption DEF DeskTypes, Exits
    <3>2. \A n \in Nat : [exit[id] EXCEPT !.at = "applied", !.out = n] \in Exits
      BY <1>0, <1>20, ExitWith DEF ExitPlaces, DeskTypes
    <3>3. exit'[id] \in Exits
      BY ZenonT(40), <1>0, <1>20, <3>1, <3>2 DEF ExitApply, DeskTypes
    <3>4. exit' \in [Launch -> Exits]
      BY <1>0, <1>20, <3>3 DEF ExitApply, DeskTypes
    <3>5. store[id] - exit[id].sold \in Nat
      BY <1>0, <1>20 DEF ExitApply, Local, SaleIsCovered, DeskTypes, Exits
    <3>6. store' \in [Launch -> Nat]
      BY <1>0, <1>20, <3>5 DEF ExitApply, DeskTypes
    <3> QED
      BY <1>0, <1>20, <3>1, <3>2, <3>3, <3>4, <3>5, <3>6 DEF ExitApply, PermitFree, Free, DeskTypes
  <2>2. DownIsIdle'
    BY <1>0, <1>20 DEF ExitApply, PermitFree, Free, DeskTypes, DownIsIdle, InFlight
  <2>3. \A x \in Launch \ {id} : Frame(x)
    BY <1>0, <1>20 DEF ExitApply, PermitFree, Free, Frame, DeskTypes, BookTokens
  <2>4. Local(id)'
    BY <1>0, <1>20, <2>1
       DEF ExitApply, PermitFree, Free, DeskTypes, Entries, Exits, Local, UnopenedIsNowhere,
           OpenedIsWhole, SaleIsCovered, AppliedIsOwed, InventoriesAgree, AdmissionHolds, BookTokens
  <2> QED
    BY <1>20, <2>1, <2>2, <2>3, <2>4, TaskStepKeeps DEF ExitApply, PermitFree, Free
<1>21. ASSUME NEW id \in Launch, ExitFails(id)
      PROVE  DeskInv'
  <2>1. DeskTypes'
    BY <1>0, <1>21 DEF ExitFails, Free, Faults, DeskTypes, Entries, Exits
  <2>2. DownIsIdle'
    BY <1>0, <1>21 DEF ExitFails, Free, Faults, DeskTypes, DownIsIdle, InFlight
  <2>3. \A x \in Launch \ {id} : Frame(x)
    BY <1>0, <1>21 DEF ExitFails, Free, Faults, Frame, DeskTypes, BookTokens
  <2>4. Local(id)'
    BY <1>0, <1>21, <2>1
       DEF ExitFails, Free, Faults, DeskTypes, Entries, Exits, Local, UnopenedIsNowhere,
           OpenedIsWhole, SaleIsCovered, AppliedIsOwed, InventoriesAgree, AdmissionHolds, BookTokens
  <2> QED
    BY <1>21, <2>1, <2>2, <2>3, <2>4, TaskStepKeeps DEF ExitFails, Free, Faults
<1>22. ASSUME NEW id \in Launch, ExitFlush(id)
      PROVE  DeskInv'
  <2>1. DeskTypes'
    <3>1. exit'[id] \in Exits
      BY ZenonT(40), <1>0, <1>22, ExitWith DEF ExitFlush, ExitPlaces, DeskTypes
    <3>2. exit' \in [Launch -> Exits]
      BY <1>0, <1>22, <3>1 DEF ExitFlush, DeskTypes
    <3>3. saved' \in [Launch -> Nat] /\ store' = store /\ dirty' \in BOOLEAN
      BY <1>0, <1>22 DEF ExitFlush, FlushStore, FlushFails, DeskTypes
    <3>4. paused' \in BOOLEAN /\ stop' \in BOOLEAN /\ resuming' \in BOOLEAN
      BY <1>0, <1>22 DEF ExitFlush, Halt, DeskTypes
    <3> QED
      BY <1>0, <1>22, <3>1, <3>2, <3>3, <3>4
         DEF ExitFlush, FlushStore, FlushFails, Faults, Free, Halt, DeskTypes
  <2>2. DownIsIdle'
    BY <1>0, <1>22
       DEF ExitFlush, FlushStore, FlushFails, Faults, Free, Halt, DeskTypes, DownIsIdle, InFlight
  <2>3. \A x \in Launch \ {id} : Frame(x)
    BY <1>0, <1>22
       DEF ExitFlush, FlushStore, FlushFails, Faults, Free, Halt, Frame, DeskTypes, BookTokens
  <2>4. Local(id)'
    <3>1. exit[id].at = "settled" /\ exit'[id].at \in {"free", "kept"} /\ store' = store
      BY <1>0, <1>22, <2>1
         DEF ExitFlush, FlushStore, FlushFails, Faults, Free, Halt, DeskTypes, Local, Exits
    <3>2. UnopenedIsNowhere(id)' /\ OpenedIsWhole(id)' /\ SaleIsCovered(id)'
      BY <1>0, <1>22, <2>1, <3>1
         DEF ExitFlush, FlushStore, FlushFails, Faults, Free, Halt, DeskTypes, Local,
             UnopenedIsNowhere, OpenedIsWhole, SaleIsCovered
    <3>3. AppliedIsOwed(id)' /\ InventoriesAgree(id)'
      BY <1>0, <1>22, <2>1
         DEF ExitFlush, FlushStore, FlushFails, Faults, Free, Halt, DeskTypes, Local, AppliedIsOwed,
             InventoriesAgree, BookTokens
    <3>4. AdmissionHolds(id)'
      BY <1>0, <1>22, <2>1
         DEF ExitFlush, FlushStore, FlushFails, Faults, Free, Halt, DeskTypes, Local, AdmissionHolds
    <3> QED
      BY <3>1, <3>2, <3>3, <3>4 DEF Local
  <2> QED
    BY <1>22, <2>1, <2>2, <2>3, <2>4, TaskStepKeeps
       DEF ExitFlush, FlushStore, FlushFails, Faults, Free, Halt
<1>23. ASSUME NEW id \in Launch, EntrySettle(id)
      PROVE  DeskInv'
  <2> DEFINE ok == CanSettleEntry(portfolio, id \in current, id, Tokens[id], entry[id].value)
             new == SettleEntry(portfolio, id, Tokens[id], entry[id].value)
  <2>0. /\ entry[id].at = "opened" /\ entry[id].value \in Int /\ Tokens[id] \in Nat \ {0}
        /\ store[id] = Tokens[id] /\ exit[id].at \in {"free", "value", "sell"}
    BY <1>0, <1>23, DeskAssumption DEF EntrySettle, DeskTypes, Entries, Local, OpenedIsWhole
  <2>1. DeskTypes'
    <3>1. [entry[id] EXCEPT !.at = "settled"] \in Entries
      BY <1>0, EntryWith DEF EntryPlaces, DeskTypes
    <3>2. Done \in Entries
      BY DEF Entries, Done
    <3>3. entry' \in [Launch -> Entries]
      BY <1>0, <1>23, <3>1, <3>2 DEF EntrySettle, DeskTypes
    <3> HIDE DEF ok, new
    <3> QED
      BY <1>0, <1>23, <3>3 DEF EntrySettle, DeskTypes, Persist, PersistFails, Halt, ok, new
  <2>2. DownIsIdle'
    BY <1>0, <1>23 DEF EntrySettle, DeskTypes, DownIsIdle, InFlight, Done
  <2>3. CASE ok
    <3>1. /\ BookOK(new) /\ Held(new) = Held(portfolio) \cup {id}
          /\ new.pos[id].tokens = Tokens[id]
          /\ \A x \in Held(portfolio) : new.pos[x].tokens = portfolio.pos[x].tokens
          /\ id \notin Held(portfolio)
      BY <1>0, <2>0, <2>3, SettleEntryKeeps DEF CanSettleEntry
    <3>2. ~ portfolio.breached
      BY <1>0, <2>3 DEF CanSettleEntry, ValidAdmission, BookOK
    <3> HIDE DEF ok, new
    <3>3. /\ portfolio' = new /\ current' = {} /\ ledger' \in {new, ledger}
          /\ entry'[id].at \in {"settled", "done"} /\ \A x \in Launch \ {id} : entry'[x] = entry[x]
          /\ store' = store /\ saved' = saved /\ exit' = exit /\ session' = session /\ (stop => stop')
      BY <1>0, <1>23, <2>3 DEF EntrySettle, DeskTypes, Entries, Persist, PersistFails, Halt, Done, ok, new
    <3>4. BookStep(new)
      BY <3>1, <3>2, <3>3 DEF BookStep
    <3>5. \A x \in Launch \ {id} : Frame(x)
      BY <3>1, <3>3 DEF Frame, BookTokens
    <3>6. Local(id)'
      <4>1. UnopenedIsNowhere(id)' /\ OpenedIsWhole(id)' /\ SaleIsCovered(id)' /\ AdmissionHolds(id)'
        BY <1>0, <3>3 DEF Local, UnopenedIsNowhere, OpenedIsWhole, SaleIsCovered, AdmissionHolds
      <4>2. AppliedIsOwed(id)' /\ InventoriesAgree(id)'
        BY <2>0, <3>1, <3>3 DEF AppliedIsOwed, InventoriesAgree, BookTokens
      <4> QED
        BY <4>1, <4>2 DEF Local
    <3> QED
      BY <2>1, <2>2, <3>4, <3>5, <3>6, BookingKeeps
  <2>4. CASE ~ ok
    <3> HIDE DEF ok, new
    <3>1. /\ portfolio' = portfolio /\ current' = current /\ ledger' = ledger /\ stop'
          /\ entry'[id].at = "done" /\ \A x \in Launch \ {id} : entry'[x] = entry[x]
          /\ store' = store /\ saved' = saved /\ exit' = exit /\ session' = session
      BY <1>0, <1>23, <2>4 DEF EntrySettle, DeskTypes, Halt, Done, ok, new
    <3>2. \A x \in Launch \ {id} : Frame(x)
      BY <3>1 DEF Frame, BookTokens
    <3>3. Local(id)'
      BY <1>0, <3>1 DEF Local, UnopenedIsNowhere, OpenedIsWhole, SaleIsCovered, AppliedIsOwed,
                        InventoriesAgree, AdmissionHolds
    <3> QED
      BY <2>1, <2>2, <3>1, <3>2, <3>3, TaskStepKeeps
  <2> QED
    BY <2>3, <2>4
<1>24. ASSUME NEW id \in Launch, ManageNoValue(id) \/ ManageMark(id)
      PROVE  DeskInv'
  <2>1. DeskTypes'
    <3>1. Free \in Exits /\ [exit[id] EXCEPT !.at = "decide"] \in Exits
      BY <1>0, ExitWith DEF ExitPlaces, DeskTypes
    <3>2. exit' \in [Launch -> Exits]
      BY <1>0, <1>24, <3>1 DEF ManageNoValue, ManageMark, DeskTypes
    <3> QED
      BY ZenonT(40), <1>0, <1>24, <3>2 DEF ManageNoValue, ManageMark, DeskTypes, Persist, PersistFails, Halt
  <2>2. DownIsIdle'
    BY <1>0, <1>24 DEF ManageNoValue, ManageMark, DeskTypes, DownIsIdle, InFlight, Free
  <2>3. /\ exit[id].at = "value" /\ exit'[id].at \in {"free", "decide"}
        /\ \A x \in Launch \ {id} : exit'[x] = exit[x]
        /\ store' = store /\ saved' = saved /\ entry' = entry /\ session' = session /\ (stop => stop')
    BY <1>0, <1>24 DEF ManageNoValue, ManageMark, DeskTypes, Exits, Free, Halt
  <2>4. CASE id \in Held(portfolio)
    <3>1. PICK value \in Nat \cup {Unknown} :
            /\ portfolio' = Mark(portfolio, id, value) /\ current' = {}
            /\ ledger' \in {Mark(portfolio, id, value), ledger}
      <4>1. CASE ManageNoValue(id)
        BY <2>4, <4>1 DEF ManageNoValue, CanMark, Unknown
      <4>2. CASE ManageMark(id)
        <5>1. PICK price \in Price :
                \/ Persist(Mark(portfolio, id, SatSub(store[id] * price, ExitGas)))
                \/ PersistFails(Mark(portfolio, id, SatSub(store[id] * price, ExitGas)))
          BY <2>4, <4>2 DEF ManageMark, CanMark
        <5>2. SatSub(store[id] * price, ExitGas) \in Nat
          <6>1. store[id] * price \in Nat
            BY <1>0, ProductType, DeskAssumption DEF DeskTypes
          <6> QED
            BY <6>1, ProfileValid DEF SatSub
        <5> QED
          BY <5>1, <5>2 DEF Persist, PersistFails
      <4> QED
        BY <1>24, <4>1, <4>2
    <3> DEFINE new == Mark(portfolio, id, value)
    <3>2. /\ BookOK(new) /\ Held(new) = Held(portfolio) /\ (portfolio.breached => new.breached)
          /\ \A x \in Held(portfolio) : new.pos[x].tokens = portfolio.pos[x].tokens
      BY <1>0, <2>4, MarkKeeps
    <3> HIDE DEF new
    <3>3. portfolio' = new /\ current' = {} /\ ledger' \in {new, ledger}
      BY <3>1 DEF new
    <3>4. BookStep(new)
      BY <3>2, <3>3 DEF BookStep
    <3>5. \A x \in Launch \ {id} : Frame(x)
      BY <2>3, <3>2, <3>3 DEF Frame, BookTokens
    <3>6. Local(id)'
      <4>1. UnopenedIsNowhere(id)' /\ OpenedIsWhole(id)' /\ SaleIsCovered(id)' /\ AdmissionHolds(id)'
        BY <1>0, <2>3, <2>4, <3>3
           DEF Local, UnopenedIsNowhere, OpenedIsWhole, SaleIsCovered, AdmissionHolds
      <4>2. AppliedIsOwed(id)' /\ InventoriesAgree(id)'
        BY <1>0, <2>3, <3>2, <3>3 DEF Local, AppliedIsOwed, InventoriesAgree, BookTokens, DeskTypes
      <4> QED
        BY <4>1, <4>2 DEF Local
    <3> QED
      BY <2>1, <2>2, <3>4, <3>5, <3>6, BookingKeeps
  <2>5. CASE id \notin Held(portfolio)
    <3>1. portfolio' = portfolio /\ current' = current /\ ledger' = ledger /\ stop' /\ exit'[id].at = "free"
      BY <1>0, <1>24, <2>5 DEF ManageNoValue, ManageMark, CanMark, Halt, DeskTypes, Exits, Free
    <3>2. \A x \in Launch \ {id} : Frame(x)
      BY <2>3, <3>1 DEF Frame, BookTokens
    <3>3. Local(id)'
      BY <1>0, <2>3, <3>1 DEF Local, UnopenedIsNowhere, OpenedIsWhole, SaleIsCovered, AppliedIsOwed,
                              InventoriesAgree, AdmissionHolds
    <3> QED
      BY <2>1, <2>2, <3>1, <3>2, <3>3, TaskStepKeeps
  <2> QED
    BY <2>4, <2>5
<1>25. ASSUME NEW id \in Launch, ExitSettle(id)
      PROVE  DeskInv'
  <2> DEFINE sold == exit[id].sold
             ok == CanSettleExit(portfolio, id, exit[id].sold, exit[id].out)
             new == SettleExit(portfolio, id, exit[id].sold, exit[id].out)
  <2>0. /\ exit[id].at = "applied" /\ exit[id].sold \in Nat /\ exit[id].out \in Nat
        /\ entry[id].at \notin {"unseen", "screen", "gate", "admit", "admitted", "opened"}
        /\ session = "up" /\ ~ stop => BookTokens(id) = store[id] + sold
    BY <1>0, <1>25 DEF ExitSettle, DeskTypes, Exits, Local, UnopenedIsNowhere, OpenedIsWhole, AppliedIsOwed
  <2>1. DeskTypes'
    <3>1. \A a \in ExitPlaces : [exit[id] EXCEPT !.at = a] \in Exits
      BY <1>0, ExitWith DEF DeskTypes
    <3>2. exit' \in [Launch -> Exits]
      BY <1>0, <1>25, <3>1 DEF ExitSettle, DeskTypes, ExitPlaces
    <3> HIDE DEF ok, new
    <3> QED
      BY <1>0, <1>25, <3>2 DEF ExitSettle, DeskTypes, Persist, PersistFails, Halt, ok, new
  <2>2. DownIsIdle'
    BY <1>0, <1>25 DEF ExitSettle, DeskTypes, DownIsIdle, InFlight, Free
  <2>3. CASE ok
    <3>1. /\ BookOK(new)
          /\ Held(new) = IF sold = portfolio.pos[id].tokens THEN Held(portfolio) \ {id} ELSE Held(portfolio)
          /\ id \in Held(new) => new.pos[id].tokens = portfolio.pos[id].tokens - sold
          /\ \A x \in Held(new) \ {id} : new.pos[x].tokens = portfolio.pos[x].tokens
          /\ portfolio.breached => new.breached
      BY <1>0, <2>0, <2>3, SettleExitKeeps DEF CanSettleExit
    <3>2. id \in Held(portfolio) /\ portfolio.pos[id].tokens \in Nat
      BY <1>0, <2>3, HeldFinite DEF CanSettleExit, BookOK, Position
    <3> HIDE DEF ok, new
    <3>3. /\ portfolio' = new /\ current' = {} /\ ledger' \in {new, ledger}
          /\ exit'[id].at \in {"settled", "kept"} /\ \A x \in Launch \ {id} : exit'[x] = exit[x]
          /\ store' = store /\ saved' = saved /\ entry' = entry /\ session' = session /\ (stop => stop')
      BY <1>0, <1>25, <2>3 DEF ExitSettle, DeskTypes, Exits, Persist, PersistFails, Halt, ok, new
    <3>4. BookStep(new)
      BY <3>1, <3>3 DEF BookStep
    <3>5. \A x \in Launch \ {id} : Frame(x)
      BY <3>1, <3>3 DEF Frame, BookTokens
    <3>6. Local(id)'
      <4>1. UnopenedIsNowhere(id)' /\ OpenedIsWhole(id)' /\ SaleIsCovered(id)' /\ AdmissionHolds(id)'
        BY <2>0, <3>3 DEF UnopenedIsNowhere, OpenedIsWhole, SaleIsCovered, AdmissionHolds
      <4>2. BookTokens(id) = portfolio.pos[id].tokens /\ BookTokens(id)' = portfolio.pos[id].tokens - sold
        BY <2>0, <3>1, <3>2, <3>3 DEF BookTokens
      <4>3. AppliedIsOwed(id)' /\ InventoriesAgree(id)'
        <5>1. stop' \in BOOLEAN /\ stop \in BOOLEAN /\ store[id] \in Nat
          BY <1>0, <2>1 DEF DeskTypes
        <5> HIDE DEF sold
        <5> QED
          BY <2>0, <3>2, <3>3, <4>2, <5>1 DEF AppliedIsOwed, InventoriesAgree, sold
      <4> QED
        BY <4>1, <4>3 DEF Local
    <3> QED
      BY <2>1, <2>2, <3>4, <3>5, <3>6, BookingKeeps
  <2>4. CASE ~ ok
    <3> HIDE DEF ok, new
    <3>1. /\ portfolio' = portfolio /\ current' = current /\ ledger' = ledger /\ stop'
          /\ exit'[id].at = "kept" /\ \A x \in Launch \ {id} : exit'[x] = exit[x]
          /\ store' = store /\ saved' = saved /\ entry' = entry /\ session' = session
      BY <1>0, <1>25, <2>4 DEF ExitSettle, DeskTypes, Exits, Halt, ok, new
    <3>2. \A x \in Launch \ {id} : Frame(x)
      BY <3>1 DEF Frame, BookTokens
    <3>3. Local(id)'
      BY <1>0, <2>0, <3>1 DEF Local, UnopenedIsNowhere, OpenedIsWhole, SaleIsCovered, AppliedIsOwed,
                              InventoriesAgree, AdmissionHolds
    <3> QED
      BY <2>1, <2>2, <3>1, <3>2, <3>3, TaskStepKeeps
  <2> QED
    BY <2>3, <2>4
<1>26. ASSUME CloseTake
      PROVE  DeskInv'
  <2>1. DeskTypes'
    <3>1. Head(queue) \in Launch /\ Tail(queue) \in Seq(Launch) /\ Len(Tail(queue)) <= QueueSize
      BY SMTT(30), <1>0, <1>26, DeskAssumption DEF CloseTake, DeskTypes
    <3>2. \A id \in Launch : [Free EXCEPT !.at = "sell", !.by = "hand", !.sold = store[id]] \in Exits
      BY <1>0 DEF Exits, Free, DeskTypes
    <3>3. exit' \in [Launch -> Exits]
      BY <1>0, <1>26, <3>1, <3>2 DEF CloseTake, DeskTypes
    <3> QED
      BY <1>0, <1>26, <3>1, <3>3 DEF CloseTake, TakeEvent, DeskTypes
  <2>2. DownIsIdle'
    BY <1>0, <1>26 DEF CloseTake, TakeEvent, DeskTypes, DownIsIdle
  <2>3. PICK id \in Launch :
          exit' = IF exit[id].at = "free" /\ store[id] > 0
                  THEN [exit EXCEPT ![id] = [Free EXCEPT !.at = "sell", !.by = "hand", !.sold = store[id]]]
                  ELSE exit
    <3>1. Head(queue) \in Launch
      BY <1>0, <1>26 DEF CloseTake, DeskTypes
    <3> QED
      BY <1>26, <3>1 DEF CloseTake
  <2>4. UNCHANGED <<session, portfolio, ledger, current, stop, store, saved, entry>>
    BY <1>26 DEF CloseTake, TakeEvent
  <2>5. \A x \in Launch \ {id} : Frame(x)
    BY <1>0, <2>3, <2>4 DEF Frame, BookTokens, DeskTypes
  <2>6. Local(id)'
    <3>1. CASE exit[id].at = "free" /\ store[id] > 0
      <4>1. /\ exit'[id].at = "sell" /\ exit'[id].sold = store[id]
            /\ entry[id].at \notin {"unseen", "screen", "gate", "admit", "admitted"}
        BY <1>0, <2>3, <3>1 DEF DeskTypes, Exits, Free, Local, UnopenedIsNowhere
      <4> QED
        BY <1>0, <2>4, <3>1, <4>1
           DEF DeskTypes, Local, UnopenedIsNowhere, OpenedIsWhole, SaleIsCovered, AppliedIsOwed,
               InventoriesAgree, AdmissionHolds, BookTokens
    <3>2. CASE ~ (exit[id].at = "free" /\ store[id] > 0)
      BY <1>0, <2>3, <2>4, <3>2
         DEF Local, UnopenedIsNowhere, OpenedIsWhole, SaleIsCovered, AppliedIsOwed,
             InventoriesAgree, AdmissionHolds, BookTokens
    <3> QED
      BY <3>1, <3>2
  <2> QED
    BY <2>1, <2>2, <2>4, <2>5, <2>6, TaskStepKeeps
<1>27. ASSUME Join \/ Crash
      PROVE  DeskInv'
  <2>1. DeskTypes'
    <3>1. Done \in Entries /\ Free \in Exits
      BY DEF Done, Entries, Free, Exits
    <3>2. <<>> \in Seq(Launch) /\ Len(<<>>) <= QueueSize
      BY DeskAssumption
    <3>3. entry' \in [Launch -> Entries] /\ exit' \in [Launch -> Exits]
      BY <1>0, <1>27, <3>1 DEF Join, Crash, Volatile, DeskTypes
    <3>4. queue' \in Seq(Launch) /\ Len(queue') <= QueueSize
      BY <1>27, <3>2 DEF Join, Crash, Volatile
    <3> QED
      BY <1>0, <1>27, <3>3, <3>4 DEF Join, Crash, Volatile, DeskTypes
  <2>2. /\ session' = "down" /\ main' = "loop" /\ sweep' = {} /\ current' = {}
        /\ \A x \in Launch :
             /\ entry'[x].at = IF InFlight(x) THEN "done" ELSE entry[x].at
             /\ exit'[x] = Free
        /\ store' = store /\ portfolio' = portfolio /\ ledger' = ledger
        /\ saved' \in {saved, store}
    BY <1>27 DEF Join, Crash, Volatile, Done
  <2>3. DownIsIdle'
    BY <2>2 DEF DownIsIdle, InFlight
  <2>4. ASSUME NEW x \in Launch
        PROVE  Local(x)'
    BY <1>0, <2>2 DEF Local, UnopenedIsNowhere, OpenedIsWhole, SaleIsCovered, AppliedIsOwed,
                      InventoriesAgree, AdmissionHolds, InFlight, Free
  <2> QED
    BY <1>0, <2>1, <2>2, <2>3, <2>4 DEF DeskInv, LedgerBehind
<1>28. ASSUME Start
      PROVE  DeskInv'
  <2>1. /\ session = "down" /\ session' = IF Agree(saved, ledger) THEN "up" ELSE "refused"
        /\ store' = saved /\ portfolio' = ledger
        /\ UNCHANGED <<main, controlVars, ledger, current, saved, dirty, workVars, sweep, boardVars>>
    BY <1>28 DEF Start
  <2>2. DeskTypes'
    BY <1>0, <2>1 DEF DeskTypes
  <2>3. DownIsIdle'
    BY <1>0, <2>1 DEF DownIsIdle, InFlight
  <2>4. ASSUME NEW x \in Launch
        PROVE  Local(x)'
    <3>1. entry[x].at \in {"unseen", "done"} /\ exit[x] = Free
      BY <1>0, <2>1 DEF DownIsIdle, InFlight
    <3>2. UnopenedIsNowhere(x)' /\ OpenedIsWhole(x)' /\ SaleIsCovered(x)' /\ AppliedIsOwed(x)' /\ AdmissionHolds(x)'
      BY <1>0, <2>1, <3>1 DEF Local, UnopenedIsNowhere, OpenedIsWhole, SaleIsCovered, AppliedIsOwed,
                              AdmissionHolds, Free
    <3>3. InventoriesAgree(x)'
      <4> SUFFICES ASSUME Agree(saved, ledger)
                   PROVE  saved[x] = IF x \in Held(ledger) THEN ledger.pos[x].tokens ELSE 0
        BY <2>1 DEF InventoriesAgree, BookTokens
      <4>1. saved[x] \in Nat
        BY <1>0 DEF DeskTypes
      <4> QED
        BY <4>1 DEF Agree, OpenIn
    <3> QED
      BY <3>2, <3>3 DEF Local
  <2> QED
    BY <1>0, <2>1, <2>2, <2>3, <2>4 DEF DeskInv, LedgerBehind
<1>29. CASE UNCHANGED deskVars
  <2>1. DeskTypes' /\ DownIsIdle'
    BY <1>0, <1>29 DEF deskVars, DeskTypes, DownIsIdle, InFlight
  <2>2. \A x \in Launch : Frame(x)
    BY <1>29 DEF deskVars, Frame, BookTokens
  <2> QED
    BY <1>29, <2>1, <2>2, TaskStepKeeps DEF deskVars
<1> QED
  BY <1>1, <1>2, <1>3, <1>4, <1>5, <1>6, <1>7, <1>8, <1>9, <1>10, <1>11, <1>12, <1>13, <1>14, <1>15, <1>16, <1>17, <1>18, <1>19, <1>20, <1>21, <1>22, <1>23, <1>24, <1>25, <1>26, <1>27, <1>28, <1>29
     DEF Next, EntryStep, ManageStep, ExitStep

LEMMA DeskInvariance == Spec => []DeskInv
  BY DeskInitInv, DeskNextInv, PTL DEF Spec

-----------------------------------------------------------------------------
(* The theorems *)

\* Cash and the gas reserved never go below zero: what a settlement may take of them is
\* checked before it does.
THEOREM DeskTypeCorrect == Spec => []DeskTypeOK
<1>1. ASSUME NEW p, BookOK(p)
      PROVE  PortfolioTypeOK(p)
  BY <1>1, HeldFinite, BooksFields DEF BookOK, PortfolioTypeOK, Position
<1>2. DeskInv => DeskTypeOK
  BY <1>1 DEF DeskInv, DeskTypes, DeskTypeOK, Entries, Exits
<1> QED
  BY <1>2, DeskInvariance, PTL

\* A running engine has one inventory, and keeps the gas to sell it: whatever tasks,
\* failed writes, stops, crashes and restarts interleave, store and book differ only
\* between the two steps of an entry or of an exit, or in an engine that was halted.
THEOREM InventoryAgrees == Spec => []BooksAgree
<1>1. DeskInv => BooksAgree
  BY ReservesSum DEF DeskInv, BookOK, BooksAgree, ReservesMatch, Local, InventoriesAgree
<1> QED
  BY <1>1, DeskInvariance, PTL

-----------------------------------------------------------------------------
(* How a step may change the book: everything but the settlement of an entry *)
(* and the start of a session keeps or shrinks what it holds                 *)

EntryBooked(id) ==
  /\ EntrySettle(id)
  /\ CanSettleEntry(portfolio, id \in current, id, Tokens[id], entry[id].value)
  /\ BookStep(SettleEntry(portfolio, id, Tokens[id], entry[id].value))

Shrunk(new) == BookStep(new) /\ Held(new) \subseteq Held(portfolio)

LEMMA EntryBooks ==
  ASSUME DeskInv, NEW id \in Launch, EntrySettle(id)
  PROVE  EntryBooked(id) \/ (portfolio' = portfolio /\ ledger' = ledger)
<1> DEFINE q == SettleEntry(portfolio, id, Tokens[id], entry[id].value)
<1>0. BookOK(portfolio)
  BY DEF DeskInv
<1>1. CASE CanSettleEntry(portfolio, id \in current, id, Tokens[id], entry[id].value)
  <2>1. portfolio' = q /\ current' = {} /\ ledger' \in {q, ledger}
    BY <1>1 DEF EntrySettle, Persist, PersistFails
  <2>2. /\ entry[id].value \in Int /\ Tokens[id] \in Nat \ {0}
        /\ id \notin Held(portfolio) /\ entry[id].value + EntryGas <= portfolio.cash
    BY <1>1, DeskAssumption DEF DeskInv, DeskTypes, Entries, CanSettleEntry, ValidAdmission
  <2>3. BookOK(q) /\ (portfolio.breached => q.breached)
    BY <1>0, <2>2, SettleEntryKeeps
  <2>4. ~ portfolio.breached
    BY <1>0, <1>1 DEF CanSettleEntry, ValidAdmission, BookOK
  <2> HIDE DEF q
  <2>5. BookStep(q)
    BY <2>1, <2>3, <2>4 DEF BookStep
  <2> QED
    BY <1>1, <2>5 DEF EntryBooked, q
<1>2. CASE ~ CanSettleEntry(portfolio, id \in current, id, Tokens[id], entry[id].value)
  BY <1>2 DEF EntrySettle, bookVars
<1> QED
  BY <1>1, <1>2

LEMMA MarkBooks ==
  ASSUME DeskInv, NEW id \in Launch, ManageNoValue(id) \/ ManageMark(id)
  PROVE  (\E new : Shrunk(new)) \/ (portfolio' = portfolio /\ ledger' = ledger)
<1>0. BookOK(portfolio) /\ store \in [Launch -> Nat]
  BY DEF DeskInv, DeskTypes
<1>1. ASSUME NEW value \in Nat \cup {Unknown}, CanMark(portfolio, id),
             portfolio' = Mark(portfolio, id, value), current' = {},
             ledger' \in {Mark(portfolio, id, value), ledger}
      PROVE  \E new : Shrunk(new)
  <2>1. id \in Held(portfolio)
    BY <1>1 DEF CanMark
  <2> DEFINE q == Mark(portfolio, id, value)
  <2>2. BookOK(q) /\ Held(q) = Held(portfolio) /\ (portfolio.breached => q.breached)
    BY <1>0, <2>1, MarkKeeps
  <2>3. portfolio' = q /\ ledger' \in {q, ledger}
    BY <1>1
  <2> HIDE DEF q
  <2>4. Shrunk(q)
    BY <1>1, <2>2, <2>3 DEF Shrunk, BookStep
  <2> QED
    BY <2>4
<1>2. CASE ManageNoValue(id)
  BY <1>1, <1>2 DEF ManageNoValue, bookVars
<1>3. CASE ManageMark(id)
  <2>1. \A price \in Price : SatSub(store[id] * price, ExitGas) \in Nat
    <3>1. \A price \in Price : store[id] * price \in Nat
      BY <1>0, ProductType, DeskAssumption
    <3> QED
      BY <3>1, ProfileValid DEF SatSub
  <2>2. PICK price \in Price :
          LET new == Mark(portfolio, id, SatSub(store[id] * price, ExitGas))
          IN  \/ CanMark(portfolio, id) /\ (Persist(new) \/ PersistFails(new))
              \/ UNCHANGED bookVars
    BY <1>3 DEF ManageMark
  <2> DEFINE value == SatSub(store[id] * price, ExitGas)
  <2>3. value \in Nat \cup {Unknown}
    BY <2>1
  <2>4. \/ CanMark(portfolio, id) /\ (Persist(Mark(portfolio, id, value)) \/ PersistFails(Mark(portfolio, id, value)))
        \/ UNCHANGED bookVars
    BY <2>2
  <2> HIDE DEF value
  <2> QED
    BY <1>1, <2>3, <2>4 DEF Persist, PersistFails, bookVars
<1> QED
  BY <1>2, <1>3

LEMMA ExitBooks ==
  ASSUME DeskInv, NEW id \in Launch, ExitSettle(id)
  PROVE  (\E new : Shrunk(new)) \/ (portfolio' = portfolio /\ ledger' = ledger)
<1> DEFINE q == SettleExit(portfolio, id, exit[id].sold, exit[id].out)
<1>0. BookOK(portfolio) /\ exit[id].sold \in Nat /\ exit[id].out \in Nat
  BY DEF DeskInv, DeskTypes, Exits
<1>1. CASE CanSettleExit(portfolio, id, exit[id].sold, exit[id].out)
  <2>1. portfolio' = q /\ current' = {} /\ ledger' \in {q, ledger}
    BY <1>1 DEF ExitSettle, Persist, PersistFails
  <2>2. id \in Held(portfolio)
    BY <1>1 DEF CanSettleExit
  <2>3. BookOK(q) /\ Held(q) \subseteq Held(portfolio) /\ (portfolio.breached => q.breached)
    BY <1>0, <1>1, <2>2, SettleExitKeeps
  <2> HIDE DEF q
  <2>4. Shrunk(q)
    BY <2>1, <2>3 DEF Shrunk, BookStep
  <2> QED
    BY <2>4
<1>2. CASE ~ CanSettleExit(portfolio, id, exit[id].sold, exit[id].out)
  BY <1>2 DEF ExitSettle, bookVars
<1> QED
  BY <1>1, <1>2

LEMMA BookChanges ==
  ASSUME DeskInv, [Next]_deskVars
  PROVE  \/ portfolio' = portfolio /\ ledger' = ledger
         \/ session # "up" /\ portfolio' = ledger /\ ledger' = ledger
         \/ \E new : Shrunk(new)
         \/ \E id \in Launch : EntryBooked(id)
<1> USE DEF bookVars
<1>1. ASSUME NEW id \in Launch, EntryStep(id)
      PROVE  EntrySettle(id) \/ (portfolio' = portfolio /\ ledger' = ledger)
  BY <1>1 DEF EntryStep, EntryHeld, EntryScreen, EntryGate, EntryAdmit, EntryOpen, EntryFlush
<1>2. ASSUME NEW id \in Launch, ManageStep(id)
      PROVE  ManageNoValue(id) \/ ManageMark(id) \/ (portfolio' = portfolio /\ ledger' = ledger)
  BY <1>2 DEF ManageStep, ManageTake, ManageDecide, ManageNoFlow
<1>3. ASSUME NEW id \in Launch, ExitStep(id)
      PROVE  ExitSettle(id) \/ (portfolio' = portfolio /\ ledger' = ledger)
  BY <1>3 DEF ExitStep, ExitApply, ExitFails, ExitFlush
<1>4. ASSUME NEW id \in Launch, Launched(id) \/ RequestClose(id)
      PROVE  portfolio' = portfolio /\ ledger' = ledger
  BY <1>4 DEF Launched, RequestClose
<1>5. CASE Start
  BY <1>5 DEF Start
<1>6. ASSUME \/ SweepStart \/ FlushIfDue \/ CloseTake \/ Pause \/ ResumeCheck \/ ResumeStore \/ Stop
             \/ MainExit \/ Drain \/ Join \/ Crash \/ UNCHANGED deskVars
      PROVE  portfolio' = portfolio /\ ledger' = ledger
  BY <1>6 DEF SweepStart, FlushIfDue, CloseTake, Pause, ResumeCheck, ResumeStore, Stop, MainExit, Drain,
              Join, Crash, deskVars
<1> QED
  BY <1>1, <1>2, <1>3, <1>4, <1>5, <1>6, EntryBooks, MarkBooks, ExitBooks DEF Next

\* An entry settles in an active portfolio, within the number of positions, and within
\* the share of the equity at that moment: an admission that a change of the book made
\* stale is refused.
THEOREM EntriesWithinLimits == Spec => EntryWithinLimits
<1> DEFINE Limits(id) == /\ portfolio.risk = "Active"
                         /\ Cardinality(Held(portfolio')) <= MaxOpenPositions
                         /\ entry[id].value + EntryGas <= BpsOf(KnownEquity(portfolio), MaxCommitmentBps)
           A == \A id \in Held(portfolio') \ Held(portfolio) : session = "up" => Limits(id)
<1>1. ASSUME DeskInv, NEW x \in Launch, EntryBooked(x)
      PROVE  Held(portfolio') = Held(portfolio) \cup {x} /\ Limits(x)
  <2>0. BookOK(portfolio) /\ DeskTypes /\ Local(x)
    BY <1>1 DEF DeskInv
  <2>1. /\ entry[x].at = "opened"
        /\ portfolio' = SettleEntry(portfolio, x, Tokens[x], entry[x].value)
    BY <1>1 DEF EntryBooked, BookStep, EntrySettle
  <2>2. /\ portfolio.risk = "Active" /\ x \in current /\ Cardinality(Held(portfolio)) < MaxOpenPositions
        /\ x \notin Held(portfolio) /\ entry[x].value + EntryGas <= portfolio.cash
    BY <1>1 DEF EntryBooked, CanSettleEntry, ValidAdmission
  <2>3. Held(portfolio') = Held(portfolio) \cup {x}
    <3>1. entry[x].value \in Int /\ Tokens[x] \in Nat \ {0}
      BY <2>0, DeskAssumption DEF DeskTypes, Entries
    <3> QED
      BY <2>0, <2>1, <2>2, <3>1, SettleEntryKeeps
  <2>4. Cardinality(Held(portfolio')) = Cardinality(Held(portfolio)) + 1
    BY <2>0, <2>2, <2>3, HeldFinite, FS_AddElement DEF BookOK
  <2>5. Cardinality(Held(portfolio')) <= MaxOpenPositions
    BY <2>0, <2>2, <2>4, HeldFinite, ProfileValid DEF BookOK
  <2>6. entry[x].value + EntryGas <= BpsOf(KnownEquity(portfolio), MaxCommitmentBps)
    BY <2>0, <2>1, <2>2 DEF Local, AdmissionHolds
  <2> QED
    BY <2>2, <2>3, <2>5, <2>6
<1>2. DeskInv /\ [Next]_deskVars => A
  <2> SUFFICES ASSUME DeskInv, [Next]_deskVars, session = "up", NEW id \in Held(portfolio') \ Held(portfolio)
               PROVE  Limits(id)
    OBVIOUS
  <2>1. CASE \E x \in Launch : EntryBooked(x)
    BY <2>1, <1>1
  <2>2. ~ (portfolio' = portfolio) /\ ~ (\E new : Shrunk(new))
    BY DEF Shrunk, BookStep
  <2> QED
    BY <2>1, <2>2, BookChanges
<1>3. DeskInv /\ [Next]_deskVars => [A]_deskVars
  BY <1>2
<1> QED
  BY <1>3, DeskInvariance, PTL DEF Spec, EntryWithinLimits

\* A drawdown on file is final, through restarts too: the latch stays and no position is
\* opened again.  A book that a failed write left behind in its file is only ever later
\* than the file.
THEOREM DrawdownIsFinal == Spec => DrawdownFinal
<1> DEFINE A == ledger.breached => ledger'.breached /\ Held(ledger') \subseteq Held(ledger)
<1>1. ASSUME DeskInv, [Next]_deskVars
      PROVE  A
  <2>1. CASE ledger' = ledger
    BY <2>1
  <2>2. ASSUME NEW new, BookStep(new)
        PROVE  A
    BY <1>1, <2>2 DEF DeskInv, LedgerBehind, BookStep
  <2>3. (\E new : BookStep(new)) \/ ledger' = ledger
    BY <1>1, BookChanges DEF Shrunk, EntryBooked
  <2> QED
    BY <2>1, <2>2, <2>3
<1>2. DeskInv /\ [Next]_deskVars => [A]_deskVars
  BY <1>1
<1> QED
  BY <1>2, DeskInvariance, PTL DEF Spec, DrawdownFinal
================================================================================
