-------------------------- MODULE HeldPositionProofs --------------------------
(***************************************************************************)
(* Theorems about HeldPosition for any curve, any fees, any trades of      *)
(* others and any exit rules.                                              *)
(***************************************************************************)
EXTENDS HeldPosition, SumLemmas, TLAPS

-----------------------------------------------------------------------------
(* Whole numbers *)

LEMMA DivIs ==
  ASSUME NEW a \in Nat, NEW b \in Nat \ {0}
  PROVE  a \div b \in Nat /\ b * (a \div b) <= a /\ a < b * (a \div b) + b
OBVIOUS

LEMMA ProductNat == \A a, b \in Nat : a * b \in Nat
OBVIOUS

\* A product grows with its factors.
LEMMA ProductGrows ==
  ASSUME NEW a \in Nat, NEW b \in Nat, NEW c \in Nat, a <= b
  PROVE  a * c <= b * c
OBVIOUS

\* What is less times a number is less.
LEMMA FactorLess ==
  ASSUME NEW a \in Nat, NEW b \in Nat, NEW c \in Nat, a * c < b * c
  PROVE  a < b
<1>1. b <= a => b * c <= a * c
  BY ProductGrows
<1> QED
  BY <1>1

\* The shift of the opening tax.
LEMMA ShiftNat == \A k \in 0 .. 13 : 2 ^ k \in Nat \ {0}
<1>1. /\ 2 ^ 0 \in Nat \ {0} /\ 2 ^ 1 \in Nat \ {0} /\ 2 ^ 2 \in Nat \ {0} /\ 2 ^ 3 \in Nat \ {0}
      /\ 2 ^ 4 \in Nat \ {0} /\ 2 ^ 5 \in Nat \ {0} /\ 2 ^ 6 \in Nat \ {0} /\ 2 ^ 7 \in Nat \ {0}
      /\ 2 ^ 8 \in Nat \ {0} /\ 2 ^ 9 \in Nat \ {0} /\ 2 ^ 10 \in Nat \ {0} /\ 2 ^ 11 \in Nat \ {0}
      /\ 2 ^ 12 \in Nat \ {0} /\ 2 ^ 13 \in Nat \ {0}
  OBVIOUS
<1>2. \A k \in 0 .. 13 : \/ k = 0 \/ k = 1 \/ k = 2 \/ k = 3 \/ k = 4 \/ k = 5 \/ k = 6 \/ k = 7
                         \/ k = 8 \/ k = 9 \/ k = 10 \/ k = 11 \/ k = 12 \/ k = 13
  OBVIOUS
<1> QED
  BY <1>1, <1>2, ZenonT(30)

-----------------------------------------------------------------------------
(* The quotes *)

Reserves == [quote_reserve : Int, real_quote_reserve : Int, token_reserve : Int, sellable : Int]

\* A quote is left in the reserve, and tokens that are not for sale.
CurveOK(s) ==
  /\ s \in Reserves
  /\ s.quote_reserve \in Nat \ {0} /\ s.real_quote_reserve \in Int
  /\ s.token_reserve \in Nat \ {0} /\ s.sellable \in Nat
  /\ s.sellable < s.token_reserve

LEMMA SnipeType ==
  ASSUME NEW elapsed \in Nat
  PROVE  SnipeTaxBps(elapsed) \in Nat
<1>1. StartBps \in Nat /\ WindowSecs \in Nat
  BY QuoteAssumption
<1>2. CASE elapsed < WindowSecs
  <2>1. (14 * elapsed) \div WindowSecs \in 0 .. 13
    <3>1. PICK q \in Nat : q = (14 * elapsed) \div WindowSecs
      BY <1>1, <1>2, DivIs
    <3>2. WindowSecs * q <= 14 * elapsed
      BY <1>1, <1>2, <3>1, DivIs
    <3>3. q * WindowSecs < 14 * WindowSecs
      BY <1>1, <1>2, <3>2
    <3>4. q < 14
      BY <1>1, <3>3, FactorLess
    <3> QED
      BY <3>1, <3>4
  <2>2. PICK p \in Nat \ {0} : p = 2 ^ ((14 * elapsed) \div WindowSecs)
    BY <2>1, ShiftNat
  <2>3. StartBps \div p \in Nat
    BY <1>1, DivIs
  <2> QED
    BY <1>1, <1>2, <2>2, <2>3 DEF SnipeTaxBps
<1> QED
  BY <1>1, <1>2 DEF SnipeTaxBps

LEMMA BpsIs ==
  ASSUME NEW amount \in Nat, NEW bps \in Nat
  PROVE  Bps(amount, bps) \in Nat /\ BPS * Bps(amount, bps) <= amount * bps
<1>1. amount * bps \in Nat
  OBVIOUS
<1> QED
  BY <1>1, DivIs DEF Bps, BPS

\* Fees that are rounded one by one do not take more than all.
LEMMA FeesFit ==
  ASSUME NEW amount \in Nat, NEW x \in Nat, NEW y \in Nat, NEW z \in Nat, x + y + z <= BPS
  PROVE  /\ Bps(amount, x) \in Nat /\ Bps(amount, y) \in Nat /\ Bps(amount, z) \in Nat
         /\ Bps(amount, x) + Bps(amount, y) + Bps(amount, z) <= amount
<1>1. /\ Bps(amount, x) \in Nat /\ BPS * Bps(amount, x) <= amount * x
      /\ Bps(amount, y) \in Nat /\ BPS * Bps(amount, y) <= amount * y
      /\ Bps(amount, z) \in Nat /\ BPS * Bps(amount, z) <= amount * z
  BY BpsIs
<1>2. PICK a \in Nat, b \in Nat, c \in Nat : a = Bps(amount, x) /\ b = Bps(amount, y) /\ c = Bps(amount, z)
  BY <1>1
<1>3. amount * x + amount * y + amount * z = (x + y + z) * amount
  OBVIOUS
<1>4. (x + y + z) * amount <= BPS * amount
  BY ProductGrows DEF BPS
<1>5. BPS * (a + b + c) <= BPS * amount
  BY <1>1, <1>2, <1>3, <1>4 DEF BPS
<1>6. a + b + c <= amount
  BY <1>5 DEF BPS
<1> QED
  BY <1>2, <1>6

LEMMA RatesFit ==
  ASSUME NEW opening \in Nat
  PROVE  /\ FeeBps \in Nat /\ CreatorTaxBps \in Nat /\ EffectiveOpeningBps(opening) \in Nat
         /\ FeeBps + CreatorTaxBps + EffectiveOpeningBps(opening) + 100 <= BPS
BY QuoteAssumption DEF EffectiveOpeningBps, Smaller, BPS

LEMMA NetType ==
  ASSUME NEW spent \in Nat, NEW opening \in Nat
  PROVE  NetOf(spent, opening) \in Nat
<1>1. /\ FeeBps \in Nat /\ CreatorTaxBps \in Nat /\ EffectiveOpeningBps(opening) \in Nat
      /\ FeeBps + CreatorTaxBps + EffectiveOpeningBps(opening) <= BPS
  BY RatesFit DEF BPS
<1>2. PICK x \in Nat, y \in Nat, z \in Nat :
        x = FeeBps /\ y = CreatorTaxBps /\ z = EffectiveOpeningBps(opening) /\ x + y + z <= BPS
  BY <1>1
<1>3. /\ Bps(spent, x) \in Nat /\ Bps(spent, y) \in Nat /\ Bps(spent, z) \in Nat
      /\ Bps(spent, x) + Bps(spent, y) + Bps(spent, z) <= spent
  BY <1>2, FeesFit
<1>4. NetOf(spent, opening) = spent - Bps(spent, x) - Bps(spent, y) - Bps(spent, z)
  BY <1>2 DEF NetOf
<1> QED
  BY <1>3, <1>4

\* Nothing that is put in takes all there is.
LEMMA AmountOutIs ==
  ASSUME NEW in \in Nat, NEW ri \in Nat \ {0}, NEW ro \in Nat \ {0}
  PROVE  AmountOut(in, ri, ro) \in Nat /\ AmountOut(in, ri, ro) < ro
<1>1. PICK d \in Nat \ {0} : d = ri + in
  OBVIOUS
<1>2. in * ro \in Nat
  OBVIOUS
<1>3. PICK q \in Nat : q = (in * ro) \div d
  BY <1>2, DivIs
<1>4. d * q <= in * ro
  BY <1>2, <1>3, DivIs
<1>5. in * ro < d * ro
  <2>1. d * ro = ri * ro + in * ro
    BY <1>1
  <2>2. ri * ro > 0
    OBVIOUS
  <2> QED
    BY <1>2, <2>1, <2>2
<1>6. q * d < ro * d
  BY <1>4, <1>5
<1>7. q < ro
  BY <1>6, FactorLess
<1> QED
  BY <1>1, <1>3, <1>7 DEF AmountOut

LEMMA QuoteBuyIs ==
  ASSUME NEW s, CurveOK(s), NEW opening \in Nat, NEW offered \in Nat
  PROVE  LET q == QuoteBuy(s, opening, offered)
         IN  q.tokens_out \in Nat /\ q.tokens_out <= s.sellable /\ q.spent \in Nat
<1>0. /\ s.quote_reserve \in Nat \ {0} /\ s.token_reserve \in Nat \ {0} /\ s.sellable \in Nat
      /\ s.sellable < s.token_reserve
  BY DEF CurveOK
<1> DEFINE asked == AmountOut(NetOf(offered, opening), s.quote_reserve, s.token_reserve)
           net == AmountIn(s.sellable, s.quote_reserve, s.token_reserve)
           rest == BPS - FeeBps - CreatorTaxBps - EffectiveOpeningBps(opening)
           grossed == CeilDiv(net * BPS, rest)
<1>1. asked \in Nat
  BY <1>0, NetType, AmountOutIs
<1>2. net \in Nat
  <2>1. s.sellable * s.quote_reserve \in Nat /\ s.token_reserve - s.sellable \in Nat \ {0}
    BY <1>0
  <2> QED
    BY <2>1, DivIs DEF AmountIn
<1>3. rest \in Nat \ {0}
  BY RatesFit DEF BPS
<1> HIDE DEF net, rest
<1>4. grossed \in Nat
  <2>1. net * BPS + rest - 1 \in Nat
    BY <1>2, <1>3 DEF BPS
  <2> QED
    BY <1>3, <2>1, DivIs DEF CeilDiv
<1> HIDE DEF asked, grossed
<1>5. QuoteBuy(s, opening, offered) =
        [tokens_out |-> IF asked > s.sellable THEN s.sellable ELSE asked,
         spent |-> IF asked > s.sellable THEN Smaller(grossed, offered) ELSE offered]
  BY DEF QuoteBuy, asked, grossed, net, rest
<1> QED
  BY <1>0, <1>1, <1>4, <1>5 DEF Smaller

\* A curve with other reserves.
With(s, quote, real, tokens, sellable) ==
  [s EXCEPT !.quote_reserve = quote, !.real_quote_reserve = real,
            !.token_reserve = tokens, !.sellable = sellable]

LEMMA WithIs ==
  ASSUME NEW s \in Reserves, NEW quote \in Int, NEW real \in Int, NEW tokens \in Int, NEW sellable \in Int
  PROVE  LET w == With(s, quote, real, tokens, sellable)
         IN  /\ w \in Reserves
             /\ w.quote_reserve = quote /\ w.real_quote_reserve = real
             /\ w.token_reserve = tokens /\ w.sellable = sellable
BY DEF With, Reserves

LEMMA WithKeeps ==
  ASSUME NEW s, CurveOK(s), NEW quote \in Nat \ {0}, NEW real \in Int, NEW tokens \in Nat,
         NEW sellable \in Nat, sellable < tokens
  PROVE  CurveOK(With(s, quote, real, tokens, sellable))
BY WithIs DEF CurveOK

LEMMA BoughtKeeps ==
  ASSUME NEW s, CurveOK(s), NEW opening \in Nat, NEW offered \in Nat
  PROVE  CurveOK(Bought(s, opening, offered))
<1>1. PICK q : q = QuoteBuy(s, opening, offered)
  OBVIOUS
<1>2. q.tokens_out \in Nat /\ q.tokens_out <= s.sellable /\ q.spent \in Nat
  BY <1>1, QuoteBuyIs
<1>3. PICK net \in Nat : net = NetOf(q.spent, opening)
  BY <1>2, NetType
<1>4. PICK quote \in Nat \ {0}, real \in Int, tokens \in Nat \ {0}, sellable \in Nat :
        /\ quote = s.quote_reserve + net /\ real = s.real_quote_reserve + net
        /\ tokens = s.token_reserve - q.tokens_out /\ sellable = s.sellable - q.tokens_out
        /\ sellable < tokens
  BY <1>2, <1>3 DEF CurveOK
<1>5. Bought(s, opening, offered) = With(s, quote, real, tokens, sellable)
  <2>1. Bought(s, opening, offered) =
          With(s, s.quote_reserve + net, s.real_quote_reserve + net,
               s.token_reserve - q.tokens_out, s.sellable - q.tokens_out)
    BY <1>1, <1>3 DEF Bought, With, CurveOK, Reserves
  <2> QED
    BY <1>4, <2>1
<1>6. CurveOK(With(s, quote, real, tokens, sellable))
  BY <1>4, WithKeeps
<1> QED
  BY <1>5, <1>6

LEMMA GrossSaleIs ==
  ASSUME NEW s, CurveOK(s), NEW tokens \in Nat
  PROVE  GrossSale(s, tokens) \in Nat /\ GrossSale(s, tokens) < s.quote_reserve
<1>1. s.quote_reserve \in Nat \ {0} /\ s.token_reserve \in Nat \ {0}
  BY DEF CurveOK
<1> QED
  BY <1>1, AmountOutIs DEF GrossSale

LEMMA SoldKeeps ==
  ASSUME NEW s, CurveOK(s), NEW tokens \in Nat
  PROVE  CurveOK(Sold(s, tokens))
<1>1. PICK gross \in Nat : gross = GrossSale(s, tokens) /\ gross < s.quote_reserve
  BY GrossSaleIs
<1>2. PICK quote \in Nat \ {0}, real \in Int, left \in Nat \ {0}, sellable \in Nat :
        /\ quote = s.quote_reserve - gross /\ real = s.real_quote_reserve - gross
        /\ left = s.token_reserve + tokens /\ sellable = s.sellable + tokens /\ sellable < left
  BY <1>1 DEF CurveOK
<1>3. Sold(s, tokens) = With(s, quote, real, left, sellable)
  <2>1. Sold(s, tokens) =
          With(s, s.quote_reserve - gross, s.real_quote_reserve - gross,
               s.token_reserve + tokens, s.sellable + tokens)
    BY <1>1 DEF Sold, With, CurveOK, Reserves
  <2> QED
    BY <1>2, <2>1
<1>4. CurveOK(With(s, quote, real, left, sellable))
  BY <1>2, WithKeeps
<1> QED
  BY <1>3, <1>4

LEMMA QuoteSellType ==
  ASSUME NEW s, CurveOK(s), NEW tokens \in Nat
  PROVE  QuoteSell(s, tokens) \in Nat
<1>1. PICK gross \in Nat : gross = GrossSale(s, tokens)
  BY GrossSaleIs
<1>2. FeeBps \in Nat /\ CreatorTaxBps \in Nat /\ FeeBps + CreatorTaxBps + 0 <= BPS
  BY QuoteAssumption DEF BPS
<1>3. /\ Bps(gross, FeeBps) \in Nat /\ Bps(gross, CreatorTaxBps) \in Nat /\ Bps(gross, 0) \in Nat
      /\ Bps(gross, FeeBps) + Bps(gross, CreatorTaxBps) + Bps(gross, 0) <= gross
  BY <1>2, FeesFit
<1> QED
  BY <1>1, <1>3 DEF QuoteSell

\* The curve a minimum is computed on has given the siblings' tokens.
LEMMA MinOutType ==
  ASSUME NEW s, CurveOK(s), NEW opening \in Nat, NEW offered \in Nat, NEW sibling \in Nat
  PROVE  MinOutAsLastInBlock(s, opening, offered, sibling) \in Nat
<1>1. PICK q : q = QuoteBuy(s, opening, sibling)
  OBVIOUS
<1>2. q.tokens_out \in Nat /\ q.tokens_out <= s.sellable /\ q.spent \in Nat
  BY <1>1, QuoteBuyIs
<1>3. PICK spent \in Nat, out \in Nat : spent = q.spent /\ out = q.tokens_out
  BY <1>2
<1>4. PICK rate \in Nat : rate = FeeBps + CreatorTaxBps + EffectiveOpeningBps(opening) /\ rate + 0 + 0 <= BPS
  BY RatesFit DEF BPS
<1>5. PICK taxed \in Nat : taxed = Bps(spent, rate) /\ taxed <= spent
  <2>1. /\ Bps(spent, rate) \in Nat /\ Bps(spent, 0) \in Nat
        /\ Bps(spent, rate) + Bps(spent, 0) + Bps(spent, 0) <= spent
    BY <1>4, FeesFit
  <2> QED
    BY <2>1
<1>6. PICK after : after = [s EXCEPT !.quote_reserve = @ + spent - taxed,
                                     !.token_reserve = @ - out, !.sellable = @ - out]
  OBVIOUS
<1>7. CurveOK(after)
  <2>1. after = With(s, s.quote_reserve + spent - taxed, s.real_quote_reserve,
                     s.token_reserve - out, s.sellable - out)
    BY <1>6 DEF With, CurveOK, Reserves
  <2>2. PICK quote \in Nat \ {0}, tokens \in Nat \ {0}, sellable \in Nat :
          /\ quote = s.quote_reserve + spent - taxed /\ tokens = s.token_reserve - out
          /\ sellable = s.sellable - out /\ sellable < tokens
    BY <1>2, <1>3, <1>5 DEF CurveOK
  <2>3. after = With(s, quote, s.real_quote_reserve, tokens, sellable) /\ s.real_quote_reserve \in Int
    BY <2>1, <2>2 DEF CurveOK
  <2> QED
    BY <2>2, <2>3, WithKeeps
<1>8. QuoteBuy(after, opening, offered).tokens_out \in Nat
  BY <1>7, QuoteBuyIs
<1>9. MinOutAsLastInBlock(s, opening, offered, sibling) = MinOutFromRate(QuoteBuy(after, opening, offered).tokens_out)
  BY <1>1, <1>3, <1>4, <1>5, <1>6 DEF MinOutAsLastInBlock
<1>10. BPS - SlippageBps \in Nat
  BY QuoteAssumption DEF BPS
<1> QED
  BY <1>8, <1>9, <1>10, BpsIs DEF MinOutFromRate

-----------------------------------------------------------------------------
(* What was taken out of a position *)

PoolReasons == {"none", "take profit", "stop loss", "trailing stop", "max hold"}

Reason ==
  {<<r>> : r \in PoolReasons \cup {"insider sold", "stale", "curve"}} \cup {<<"ladder", n>> : n \in Int}

Exit == [reason : Reason, out : Int, gas : Int]

Amounts(exits, field) == [i \in DOMAIN exits |-> exits[i][field]]

LEMMA TotalIs ==
  ASSUME NEW exits, NEW field
  PROVE  Total(exits, field) = SumOf(Amounts(exits, field), DOMAIN exits)
<1> DEFINE amount == Amounts(exits, field)
<1>1. Total(exits, field) = MapThenSumSet(LAMBDA i : amount[i], DOMAIN exits)
  BY DEF Total, Amounts
<1> HIDE DEF amount
<1>2. MapThenSumSet(LAMBDA i : amount[i], DOMAIN exits) = SumOf(amount, DOMAIN exits)
  BY SumIsSumOf
<1> QED
  BY <1>1, <1>2 DEF amount

LEMMA AmountsType ==
  ASSUME NEW exits \in Seq(Exit), NEW field \in {"out", "gas"}
  PROVE  IsFiniteSet(DOMAIN exits) /\ \A i \in DOMAIN exits : Amounts(exits, field)[i] \in Int
<1>1. DOMAIN exits = 1 .. Len(exits) /\ Len(exits) \in Nat /\ \A i \in DOMAIN exits : exits[i] \in Exit
  OBVIOUS
<1>2. IsFiniteSet(DOMAIN exits)
  BY <1>1, FS_Interval
<1> QED
  BY <1>1, <1>2 DEF Amounts, Exit

LEMMA TotalType ==
  ASSUME NEW exits \in Seq(Exit), NEW field \in {"out", "gas"}
  PROVE  Total(exits, field) \in Int
BY AmountsType, TotalIs, SumType

LEMMA TotalNone == ASSUME NEW field PROVE Total(<<>>, field) = 0
<1>1. DOMAIN <<>> = {}
  OBVIOUS
<1> QED
  BY <1>1, TotalIs, SumNone

\* An exit more adds what it took out and its gas.
LEMMA TotalAppend ==
  ASSUME NEW exits \in Seq(Exit), NEW e \in Exit, NEW field \in {"out", "gas"}
  PROVE  Total(Append(exits, e), field) = Total(exits, field) + e[field]
<1> DEFINE n == Len(exits) + 1
           more == Append(exits, e)
           f == Amounts(exits, field)
           g == Amounts(more, field)
<1>1. /\ more \in Seq(Exit) /\ n \in Nat /\ DOMAIN more = 1 .. n /\ DOMAIN exits = 1 .. (n - 1)
      /\ more[n] = e /\ \A i \in DOMAIN exits : more[i] = exits[i]
  OBVIOUS
<1>2. DOMAIN more \ {n} = DOMAIN exits /\ DOMAIN exits \ {n} = DOMAIN exits /\ n \in DOMAIN more /\ n \notin DOMAIN exits
  BY <1>1
<1>3. g[n] = e[field] /\ \A i \in DOMAIN exits : g[i] = f[i]
  BY <1>1, <1>2 DEF Amounts
<1> HIDE DEF more, n
<1>4. /\ IsFiniteSet(DOMAIN exits) /\ \A i \in DOMAIN exits : f[i] \in Int
      /\ IsFiniteSet(DOMAIN more) /\ \A i \in DOMAIN more : g[i] \in Int
  BY <1>1, AmountsType
<1> HIDE DEF f, g
<1>5. SumOf(g, DOMAIN more) = g[n] + SumOf(g, DOMAIN more \ {n})
  BY <1>2, <1>4, SumWithout
<1>6. SumOf(g, DOMAIN exits) = SumOf(f, DOMAIN exits)
  BY <1>3, <1>4, SumAgree
<1>7. SumOf(g, DOMAIN more) = e[field] + SumOf(f, DOMAIN exits)
  BY <1>2, <1>3, <1>5, <1>6
<1>8. SumOf(f, DOMAIN exits) \in Int /\ e[field] \in Int
  BY <1>2, <1>3, <1>4, SumType
<1>9. Total(more, field) = SumOf(g, DOMAIN more) /\ Total(exits, field) = SumOf(f, DOMAIN exits)
  BY TotalIs DEF f, g
<1> QED
  BY <1>7, <1>8, <1>9 DEF more

-----------------------------------------------------------------------------
(* The reasons to sell *)

LEMMA LeastIs ==
  ASSUME NEW S, S \subseteq Nat, S # {}
  PROVE  \E i \in S : \A k \in S : i <= k
<1> SUFFICES ASSUME \A i \in S : \E k \in S : k < i
             PROVE  FALSE
  OBVIOUS
<1> DEFINE G == {n \in Nat : \A m \in 0 .. n : m \notin S}
<1>1. 0 \in G
  OBVIOUS
<1>2. ASSUME NEW n \in Nat, n \in G
      PROVE  n + 1 \in G
  <2>1. n + 1 \notin S
    BY <1>2
  <2> QED
    BY <1>2, <2>1
<1>3. Nat \subseteq G
  <2> HIDE DEF G
  <2> QED
    BY <1>1, <1>2, NatInduct
<1>4. PICK n \in S : TRUE
  OBVIOUS
<1>5. n \in 0 .. n /\ n \in G
  BY <1>3
<1> QED
  BY <1>5

\* The rung that is sold at is one of the ladder.
LEMMA LadderIs ==
  ASSUME NEW p, NEW value, RungsHit(p, value) # {}
  PROVE  \E pct \in 0 .. 100, gain \in Int : LadderReason(p, value) = <<pct, <<"ladder", gain>>>>
<1>1. /\ DOMAIN Rungs \subseteq Nat
      /\ \A i \in DOMAIN Rungs : Rungs[i][1] \in 1 .. 100 /\ Rungs[i][2] \in Int
  BY PositionAssumption
<1>2. RungsHit(p, value) \subseteq DOMAIN Rungs
  BY DEF RungsHit
<1>3. \E i \in RungsHit(p, value) : \A k \in RungsHit(p, value) : i <= k
  BY <1>1, <1>2, LeastIs
<1>4. PICK i \in RungsHit(p, value) :
        i = CHOOSE j \in RungsHit(p, value) : \A k \in RungsHit(p, value) : j <= k
  BY <1>3
<1>5. LadderReason(p, value) = <<Rungs[i][1], <<"ladder", Rungs[i][2]>>>>
  BY <1>4 DEF LadderReason
<1> QED
  BY <1>1, <1>2, <1>5

LEMMA CurveReasonIs ==
  ASSUME NEW p, NEW value, NEW progress
  PROVE  \E pct \in 0 .. 100, r \in Reason :
           CurveReason(p, value, progress) = <<pct, r>> /\ r # <<"trailing stop">>
<1> DEFINE Is(c) == \E pct \in 0 .. 100, r \in Reason : c = <<pct, r>> /\ r # <<"trailing stop">>
<1>1. Is(<<100, <<"insider sold">>>>) /\ Is(<<100, <<"stale">>>>) /\ Is(<<100, <<"curve">>>>) /\ Is(<<0, <<"none">>>>)
  <2>1. /\ <<"insider sold">> \in Reason /\ <<"stale">> \in Reason /\ <<"curve">> \in Reason /\ <<"none">> \in Reason
    BY DEF Reason, PoolReasons
  <2>2. /\ <<"insider sold">> # <<"trailing stop">> /\ <<"stale">> # <<"trailing stop">>
        /\ <<"curve">> # <<"trailing stop">> /\ <<"none">> # <<"trailing stop">>
    OBVIOUS
  <2>3. 100 \in 0 .. 100 /\ 0 \in 0 .. 100
    OBVIOUS
  <2> QED
    BY <2>1, <2>2, <2>3, Zenon
<1>2. RungsHit(p, value) # {} => Is(LadderReason(p, value))
  <2> SUFFICES ASSUME RungsHit(p, value) # {}
               PROVE  Is(LadderReason(p, value))
    OBVIOUS
  <2>1. PICK pct \in 0 .. 100, gain \in Int : LadderReason(p, value) = <<pct, <<"ladder", gain>>>>
    BY LadderIs
  <2>2. <<"ladder", gain>> \in Reason /\ <<"ladder", gain>> # <<"trailing stop">>
    BY DEF Reason
  <2> QED
    BY <2>1, <2>2
<1> HIDE DEF Is
<1>3. Is(CurveReason(p, value, progress))
  BY <1>1, <1>2 DEF CurveReason
<1> QED
  BY <1>3 DEF Is

\* The trailing stop is the reason only if the price of the bag fell by it.
LEMMA PoolReasonIs ==
  ASSUME NEW p, p.peak \in Nat, p.basis \in Nat, NEW value \in Nat, NEW high \in Nat,
         high = IF value > p.peak THEN value ELSE p.peak
  PROVE  /\ PoolReason(p, value) \in PoolReasons
         /\ PoolReason(p, value) = "trailing stop" =>
              high > 0 /\ (high - value) * 100 >= TrailingPct * high
<1>1. high = IF p.peak > value THEN p.peak ELSE value
  OBVIOUS
<1>2. PoolReason(p, value) \in PoolReasons
  BY DEF PoolReason, PoolReasons
<1>3. PoolReason(p, value) = "trailing stop" => high > p.basis /\ (high - value) * 100 >= TrailingPct * high
  BY <1>1, Zenon DEF PoolReason
<1>4. high > p.basis => high > 0
  OBVIOUS
<1> QED
  BY <1>2, <1>3, <1>4, Zenon

-----------------------------------------------------------------------------
(* The position *)

Fields ==
  [status : {"open", "closed"}, opened_at : Int, entry : Int, entry_gas : Int, basis : Int, basis_gas : Int,
   overhead : Int, overhead_ops : SUBSET {1}, tokens : Int, peak : Int, exits : Seq(Exit)]

PositionOK(p) ==
  /\ p \in Fields
  /\ p.status \in {"open", "closed"}
  /\ p.entry \in Int /\ p.entry_gas \in Int /\ p.basis \in Nat /\ p.basis_gas \in Nat
  /\ p.overhead \in Int /\ p.overhead_ops \subseteq {1}
  /\ p.tokens \in Nat /\ p.peak \in Nat /\ p.exits \in Seq(Exit)
  /\ p.status = "open" => p.tokens > 0

WithExit(p, tokens, basis, basis_gas, peakOf, status, exits) ==
  [p EXCEPT !.tokens = tokens, !.basis = basis, !.basis_gas = basis_gas, !.peak = peakOf,
            !.status = status, !.exits = exits]

LEMMA WithExitIs ==
  ASSUME NEW p \in Fields, NEW tokens, NEW basis, NEW basis_gas, NEW peakOf, NEW status, NEW exits
  PROVE  LET q == WithExit(p, tokens, basis, basis_gas, peakOf, status, exits)
         IN  /\ q.tokens = tokens /\ q.basis = basis /\ q.basis_gas = basis_gas /\ q.peak = peakOf
             /\ q.status = status /\ q.exits = exits
             /\ q.entry = p.entry /\ q.entry_gas = p.entry_gas
             /\ q.overhead = p.overhead /\ q.overhead_ops = p.overhead_ops
             /\ (/\ tokens \in Int /\ basis \in Int /\ basis_gas \in Int /\ peakOf \in Int
                 /\ status \in {"open", "closed"} /\ exits \in Seq(Exit)) => q \in Fields
BY DEF WithExit, Fields

LEMMA ScaleIs ==
  ASSUME NEW value \in Nat, NEW part \in Nat, NEW whole \in Nat \ {0}, part <= whole
  PROVE  /\ Scale(value, part, whole) \in Nat /\ Scale(value, part, whole) <= value
         /\ whole * Scale(value, part, whole) <= value * part
         /\ part = whole => Scale(value, part, whole) = value
<1>1. PICK m \in Nat : m = value * part
  OBVIOUS
<1>2. PICK q \in Nat : q = m \div whole
  BY DivIs
<1>3. whole * q <= m /\ m < whole * q + whole
  BY <1>2, DivIs
<1>4. m <= value * whole
  <2>1. part * value <= whole * value
    BY ProductGrows
  <2> QED
    BY <1>1, <2>1
<1>5. q <= value
  <2> SUFFICES ASSUME value + 1 <= q
               PROVE  FALSE
    OBVIOUS
  <2>1. (value + 1) * whole <= q * whole
    BY ProductGrows
  <2>2. (value + 1) * whole = value * whole + whole
    OBVIOUS
  <2>3. q * whole <= value * whole
    BY <1>3, <1>4
  <2>4. q * whole \in Nat /\ value * whole \in Nat
    OBVIOUS
  <2> QED
    BY <2>1, <2>2, <2>3, <2>4
<1>6. ASSUME part = whole
      PROVE  q = value
  <2>1. value * whole < (q + 1) * whole
    BY <1>1, <1>3, <1>6
  <2>2. value < q + 1
    BY <2>1, FactorLess
  <2> QED
    BY <1>5, <2>2
<1> QED
  BY <1>1, <1>2, <1>3, <1>5, <1>6 DEF Scale

LEMMA BasisIs ==
  ASSUME NEW p, PositionOK(p)
  PROVE  p.basis \in Nat /\ p.basis_gas \in Nat
BY DEF PositionOK

LEMMA NetIs ==
  ASSUME NEW p, PositionOK(p)
  PROVE  /\ NetRealized(p) \in Int
         /\ Total(p.exits, "out") \in Int /\ Total(p.exits, "gas") \in Int
<1>1. Total(p.exits, "out") \in Int /\ Total(p.exits, "gas") \in Int
  BY TotalType DEF PositionOK
<1>2. p.entry \in Int /\ p.entry_gas \in Int /\ p.basis \in Int /\ p.basis_gas \in Int /\ p.overhead \in Int
  BY DEF PositionOK
<1>3. PICK a \in Int, b \in Int : a = Total(p.exits, "out") /\ b = Total(p.exits, "gas")
  BY <1>1
<1>4. NetRealized(p) = a - (p.entry - p.basis) - (p.entry_gas - p.basis_gas) - (b + p.overhead)
  BY <1>3 DEF NetRealized
<1> QED
  BY <1>1, <1>2, <1>4

\* A sale adds to the profit what it reports.
LEMMA ApplyExitIs ==
  ASSUME NEW p, PositionOK(p), p.status = "open", NEW tokens \in Nat, tokens > 0, tokens <= p.tokens,
         NEW out \in Int, NEW gas \in Int, NEW reason \in Reason
  PROVE  LET q == ApplyExit(p, tokens, out, gas, reason)
         IN  /\ PositionOK(q) /\ q.tokens = p.tokens - tokens
             /\ NetRealized(q) = NetRealized(p) + NetOfExit(p, q, out, gas)
             /\ q.status = "closed" => q.basis = 0 /\ q.basis_gas = 0
             /\ q.peak = Scale(p.peak, p.tokens - tokens, p.tokens)
<1> DEFINE sale == [reason |-> reason, out |-> out, gas |-> gas]
           more == Append(p.exits, sale)
<1>0. /\ p \in Fields /\ p.tokens \in Nat \ {0} /\ p.basis \in Nat /\ p.basis_gas \in Nat /\ p.peak \in Nat
      /\ p.exits \in Seq(Exit)
  BY DEF PositionOK
<1>1. /\ sale \in Exit /\ more \in Seq(Exit) /\ sale.out = out /\ sale.gas = gas
  BY <1>0 DEF Exit
<1> HIDE DEF sale
<1>2. PICK whole \in Nat \ {0}, rest \in Nat :
        whole = p.tokens /\ rest = whole - tokens /\ tokens <= whole /\ rest <= whole
  BY <1>0
<1>3. PICK b \in Nat : b = Scale(p.basis, tokens, whole) /\ b <= p.basis /\ (rest = 0 => b = p.basis)
  <2>1. PICK v \in Nat : v = p.basis
    BY <1>0
  <2>2. /\ Scale(v, tokens, whole) \in Nat /\ Scale(v, tokens, whole) <= v
        /\ tokens = whole => Scale(v, tokens, whole) = v
    BY <1>2, ScaleIs
  <2> QED
    BY <1>2, <2>1, <2>2
<1>4. PICK g \in Nat : g = Scale(p.basis_gas, tokens, whole) /\ g <= p.basis_gas /\ (rest = 0 => g = p.basis_gas)
  <2>1. PICK v \in Nat : v = p.basis_gas
    BY <1>0
  <2>2. /\ Scale(v, tokens, whole) \in Nat /\ Scale(v, tokens, whole) <= v
        /\ tokens = whole => Scale(v, tokens, whole) = v
    BY <1>2, ScaleIs
  <2> QED
    BY <1>2, <2>1, <2>2
<1>5. PICK h \in Nat : h = Scale(p.peak, rest, whole)
  <2>1. PICK v \in Nat : v = p.peak
    BY <1>0
  <2>2. Scale(v, rest, whole) \in Nat
    BY <1>2, ScaleIs
  <2> QED
    BY <2>1, <2>2
<1>6. PICK basis \in Nat, basis_gas \in Nat : basis = p.basis - b /\ basis_gas = p.basis_gas - g
  BY <1>0, <1>3, <1>4
<1>6a. PICK status \in {"open", "closed"} : status = IF rest = 0 THEN "closed" ELSE "open"
  <2>1. (IF rest = 0 THEN "closed" ELSE "open") \in {"open", "closed"}
    OBVIOUS
  <2> QED
    BY <2>1
<1>7. PICK q : q = ApplyExit(p, tokens, out, gas, reason)
  OBVIOUS
<1>8. q = WithExit(p, rest, basis, basis_gas, h, status, more)
  <2>1. Smaller(tokens, p.tokens) = tokens
    BY <1>0 DEF Smaller
  <2>2. q = WithExit(p, p.tokens - tokens, p.basis - Scale(p.basis, tokens, p.tokens),
                     p.basis_gas - Scale(p.basis_gas, tokens, p.tokens),
                     Scale(p.peak, p.tokens - tokens, p.tokens),
                     IF p.tokens - tokens = 0 THEN "closed" ELSE p.status, more)
    BY <1>0, <1>7, <2>1 DEF ApplyExit, WithExit, Fields, sale
  <2> QED
    BY <1>2, <1>3, <1>4, <1>5, <1>6, <1>6a, <2>2
<1> HIDE DEF more
<1>9. /\ q \in Fields
      /\ q.tokens = rest /\ q.basis = basis /\ q.basis_gas = basis_gas /\ q.peak = h
      /\ q.status = status /\ q.exits = more
      /\ q.entry = p.entry /\ q.entry_gas = p.entry_gas
      /\ q.overhead = p.overhead /\ q.overhead_ops = p.overhead_ops
  <2>1. /\ rest \in Int /\ basis \in Int /\ basis_gas \in Int /\ h \in Int
    OBVIOUS
  <2>2. p \in Fields /\ more \in Seq(Exit) /\ status \in {"open", "closed"}
    BY <1>0, <1>1
  <2> DEFINE r == WithExit(p, rest, basis, basis_gas, h, status, more)
  <2>3. /\ r \in Fields
        /\ r.tokens = rest /\ r.basis = basis /\ r.basis_gas = basis_gas /\ r.peak = h
        /\ r.status = status /\ r.exits = more
        /\ r.entry = p.entry /\ r.entry_gas = p.entry_gas
        /\ r.overhead = p.overhead /\ r.overhead_ops = p.overhead_ops
    BY <2>1, <2>2, WithExitIs
  <2> QED
    BY <1>8, <2>3
<1>10. PositionOK(q)
  <2>1. /\ q.status \in {"open", "closed"} /\ q.exits \in Seq(Exit)
        /\ q.tokens \in Nat /\ q.basis \in Nat /\ q.basis_gas \in Nat /\ q.peak \in Nat
    BY <1>1, <1>9
  <2>2. q.status = "open" => q.tokens > 0
    BY <1>6a, <1>9
  <2>3. /\ q.entry \in Int /\ q.entry_gas \in Int /\ q.overhead \in Int /\ q.overhead_ops \subseteq {1}
    BY <1>9 DEF PositionOK
  <2> QED
    BY <1>9, <2>1, <2>2, <2>3 DEF PositionOK
<1>11. NetRealized(q) = NetRealized(p) + NetOfExit(p, q, out, gas)
  <2>1. PICK a \in Int, c \in Int : a = Total(p.exits, "out") /\ c = Total(p.exits, "gas")
    BY NetIs
  <2>2. Total(more, "out") = a + out /\ Total(more, "gas") = c + gas
    BY <1>0, <1>1, <2>1, TotalAppend DEF more
  <2>3. p.entry \in Int /\ p.entry_gas \in Int /\ p.overhead \in Int
    BY DEF PositionOK
  <2>4. NetRealized(p) = a - (p.entry - p.basis) - (p.entry_gas - p.basis_gas) - (c + p.overhead)
    BY <2>1 DEF NetRealized
  <2>5. NetRealized(q) = (a + out) - (p.entry - basis) - (p.entry_gas - basis_gas) - ((c + gas) + p.overhead)
    BY <1>9, <2>2 DEF NetRealized
  <2>6. NetOfExit(p, q, out, gas) = out - ((p.basis - basis) + (p.basis_gas - basis_gas) + gas)
    BY <1>9 DEF NetOfExit
  <2> QED
    <3>0. p.basis \in Int /\ p.basis_gas \in Int
      BY <1>0
    <3>1. PICK e \in Int, eg \in Int, u \in Int, ug \in Int, o \in Int :
            e = p.entry /\ eg = p.entry_gas /\ u = p.basis /\ ug = p.basis_gas /\ o = p.overhead
      BY <2>3, <3>0
    <3>2. NetRealized(p) = a - (e - u) - (eg - ug) - (c + o)
      BY <2>4, <3>1
    <3>3. NetRealized(q) = (a + out) - (e - basis) - (eg - basis_gas) - ((c + gas) + o)
      BY <2>5, <3>1
    <3>4. NetOfExit(p, q, out, gas) = out - ((u - basis) + (ug - basis_gas) + gas)
      BY <2>6, <3>1
    <3> QED
      BY <3>2, <3>3, <3>4
<1>12. q.status = "closed" => q.basis = 0 /\ q.basis_gas = 0
  BY <1>0, <1>3, <1>4, <1>6, <1>6a, <1>9
<1> QED
  BY <1>2, <1>5, <1>7, <1>9, <1>10, <1>11, <1>12

\* The gas of a failed sale is charged once.
LEMMA ChargeIs ==
  ASSUME NEW p, PositionOK(p), NEW gas \in Int
  PROVE  LET q == ChargeOverhead(p, 1, gas)
         IN  /\ PositionOK(q) /\ q.tokens = p.tokens /\ q.peak = p.peak /\ q.status = p.status
             /\ q.basis = p.basis /\ q.basis_gas = p.basis_gas
             /\ NetRealized(q) = NetRealized(p) - IF p.overhead_ops = {} THEN gas ELSE 0
<1>0. p \in Fields /\ p.overhead \in Int /\ p.overhead_ops \subseteq {1} /\ p.exits \in Seq(Exit)
  BY DEF PositionOK
<1>1. PICK a \in Int, c \in Int : a = Total(p.exits, "out") /\ c = Total(p.exits, "gas")
  BY NetIs
<1>2. /\ p.entry \in Int /\ p.entry_gas \in Int /\ p.basis \in Int /\ p.basis_gas \in Int
  BY DEF PositionOK
<1>3. NetRealized(p) = a - (p.entry - p.basis) - (p.entry_gas - p.basis_gas) - (c + p.overhead)
  BY <1>1 DEF NetRealized
<1>4. CASE p.overhead_ops = {}
  <2>0. p.overhead_ops \cup {1} \in SUBSET {1} /\ p.overhead + gas \in Int
    BY <1>0
  <2>1. PICK over \in Int, ops \in SUBSET {1} : over = p.overhead + gas /\ ops = p.overhead_ops \cup {1}
    BY <2>0
  <2>2. PICK q : q = [p EXCEPT !.overhead = over, !.overhead_ops = ops]
    OBVIOUS
  <2>3. q = ChargeOverhead(p, 1, gas)
    BY <1>0, <1>4, <2>1, <2>2 DEF ChargeOverhead, Fields
  <2>4. /\ q \in Fields /\ q.overhead = over /\ q.overhead_ops = ops
        /\ q.tokens = p.tokens /\ q.peak = p.peak /\ q.status = p.status /\ q.exits = p.exits
        /\ q.basis = p.basis /\ q.basis_gas = p.basis_gas /\ q.entry = p.entry /\ q.entry_gas = p.entry_gas
    BY <1>0, <2>1, <2>2 DEF Fields
  <2>5. PositionOK(q)
    BY <1>0, <2>1, <2>4 DEF PositionOK
  <2>6. NetRealized(q) = a - (p.entry - p.basis) - (p.entry_gas - p.basis_gas) - (c + over)
    BY <1>1, <2>4 DEF NetRealized
  <2>7. NetRealized(q) = NetRealized(p) - gas
    <3>1. PICK e \in Int, eg \in Int, b \in Int, bg \in Int, o \in Int :
            e = p.entry /\ eg = p.entry_gas /\ b = p.basis /\ bg = p.basis_gas /\ o = p.overhead
      BY <1>0, <1>2
    <3>2. NetRealized(p) = a - (e - b) - (eg - bg) - (c + o)
      BY <1>3, <3>1
    <3>3. NetRealized(q) = a - (e - b) - (eg - bg) - (c + (o + gas))
      BY <2>1, <2>6, <3>1
    <3> QED
      BY <3>2, <3>3
  <2> QED
    BY <1>4, <2>3, <2>4, <2>5, <2>7
<1>5. CASE p.overhead_ops # {}
  <2>1. ChargeOverhead(p, 1, gas) = p
    BY <1>0, <1>5 DEF ChargeOverhead
  <2> QED
    BY <1>5, <2>1, NetIs
<1> QED
  BY <1>4, <1>5

-----------------------------------------------------------------------------
(* What a token was worth *)

\* The peak that is kept for the rest of a bag is no more than its share.
LEMMA PeakScales ==
  ASSUME NEW high \in Nat, NEW bag \in Nat, NEW value \in Nat, NEW tokens \in Nat \ {0}, NEW rest \in Nat,
         rest <= tokens, high * bag <= value * tokens
  PROVE  Scale(high, rest, tokens) * bag <= value * rest
<1>1. PICK q \in Nat : q = Scale(high, rest, tokens) /\ tokens * q <= high * rest
  BY ScaleIs
<1>2. (tokens * q) * bag <= (high * rest) * bag
  BY <1>1, ProductNat, ProductGrows
<1>3. (high * bag) * rest <= (value * tokens) * rest
  BY ProductNat, ProductGrows
<1>4. (q * bag) * tokens <= (value * rest) * tokens
  <2>1. /\ (q * bag) * tokens = (tokens * q) * bag /\ (high * rest) * bag = (high * bag) * rest
        /\ (value * rest) * tokens = (value * tokens) * rest
    OBVIOUS
  <2>2. /\ (tokens * q) * bag \in Nat /\ (high * bag) * rest \in Nat /\ (value * tokens) * rest \in Nat
    BY ProductNat
  <2> QED
    BY <1>2, <1>3, <2>1, <2>2
<1>5. PICK x \in Nat, y \in Nat : x = q * bag /\ y = value * rest
  BY ProductNat
<1>6. ~(y * tokens < x * tokens)
  BY <1>4, <1>5
<1>7. x <= y
  <2> SUFFICES ASSUME y + 1 <= x
               PROVE  FALSE
    OBVIOUS
  <2>1. (y + 1) * tokens <= x * tokens
    BY ProductGrows
  <2>2. (y + 1) * tokens = y * tokens + tokens /\ y * tokens \in Nat
    OBVIOUS
  <2> QED
    BY <1>6, <2>1, <2>2
<1> QED
  BY <1>1, <1>5, <1>7

\* A token that is worth more than ever makes the bag worth more than its peak.
LEMMA HigherIs ==
  ASSUME NEW high \in Nat, NEW bag \in Nat, NEW value \in Nat, NEW tokens \in Nat, NEW worth \in Nat,
         high * bag <= value * tokens, worth * bag > value * tokens
  PROVE  high <= worth
<1>1. high * bag < worth * bag
  <2>1. high * bag \in Nat /\ value * tokens \in Nat /\ worth * bag \in Nat
    BY ProductNat
  <2> QED
    BY <2>1
<1> QED
  BY <1>1, FactorLess

AtMost(high, bag, value, tokens) == high * bag <= value * tokens

FellBy(pct, high, worth) == (high - worth) * 100 >= pct * high

PriceFell(pct, worth, bag, value, tokens) == worth * bag * 100 <= (100 - pct) * value * tokens

\* A fall of the value of the bag from its peak is one of the price.
LEMMA FallIs ==
  ASSUME NEW high \in Nat, high > 0, NEW bag \in Nat, NEW value \in Nat, NEW tokens \in Nat, NEW worth \in Nat,
         AtMost(high, bag, value, tokens), NEW pct \in Nat, FellBy(pct, high, worth)
  PROVE  PriceFell(pct, worth, bag, value, tokens)
<1>1. worth * 100 <= (100 - pct) * high
  BY DEF FellBy
<1>2. pct <= 100
  <2> SUFFICES ASSUME pct > 100
               PROVE  FALSE
    OBVIOUS
  <2>1. PICK n \in Nat : n = pct - 101
    OBVIOUS
  <2>2. (100 - pct) * high = -(n * high) - high
    BY <2>1
  <2>3. n * high \in Nat
    BY ProductNat
  <2> QED
    BY <1>1, <2>2, <2>3
<1>3. PICK d \in Nat : d = 100 - pct
  BY <1>2
<1>4. (worth * 100) * bag <= (d * high) * bag
  BY <1>1, <1>3, ProductNat, ProductGrows
<1>5. (high * bag) * d <= (value * tokens) * d
  BY ProductNat, ProductGrows DEF AtMost
<1>6. /\ (worth * 100) * bag = worth * bag * 100 /\ (d * high) * bag = (high * bag) * d
      /\ (value * tokens) * d = d * value * tokens
  OBVIOUS
<1>7. (worth * 100) * bag \in Nat /\ (high * bag) * d \in Nat /\ (value * tokens) * d \in Nat
  BY ProductNat
<1> QED
  BY <1>3, <1>4, <1>5, <1>6, <1>7 DEF PriceFell

-----------------------------------------------------------------------------
(* The inductive invariant *)

HeldTypes ==
  /\ CurveOK(curve) /\ price \in Nat /\ now \in Nat /\ wallet \in Int /\ reported \in Int
  /\ entry \in [at : {"idle", "sent", "done", "reverted"}, min_out : Nat, opening : Nat, since : Nat]
  /\ peak \in [value : Nat, bag : Nat \ {0}]
  /\ pending \in [reason : Reason, tokens : Nat, value : Nat, bag : Nat]
  /\ position = NoPosition \/ PositionOK(position)

\* Until the buy has landed nothing is held, and nothing is gained or lost.
Before ==
  entry.at \in {"idle", "sent"} => wallet = 0 /\ reported = 0 /\ position = NoPosition /\ pending = NoExit

\* The bag is still the one the exit was decided for.
Decided ==
  pending # NoExit => Open /\ pending.tokens \in 1 .. position.tokens /\ pending.bag = position.tokens

\* What is left of the peak is what the rest of the bag was worth at most.
PeakKept == Open => position.peak * peak.bag <= peak.value * position.tokens

HeldInv == HeldTypes /\ Before /\ Decided /\ PeakKept /\ BooksBalance /\ TrailingNeedsFall

LEMMA TypesAre ==
  ASSUME HeldTypes
  PROVE  /\ entry.at \in {"idle", "sent", "done", "reverted"}
         /\ entry.opening \in Nat /\ entry.since \in Nat /\ entry.min_out \in Nat
         /\ peak.value \in Nat /\ peak.bag \in Nat \ {0}
         /\ pending.reason \in Reason /\ pending.tokens \in Nat /\ pending.value \in Nat /\ pending.bag \in Nat
         /\ Open => PositionOK(position) /\ position.tokens \in Nat \ {0}
<1>1. Open => position # NoPosition
  BY DEF Open, NoPosition
<1>2. PositionOK(position) => position.tokens \in Nat /\ (Open => position.tokens # 0)
  BY DEF PositionOK, Open
<1> QED
  BY <1>1, <1>2 DEF HeldTypes

LEMMA NoneIs ==
  /\ NoExit \in [reason : Reason, tokens : Nat, value : Nat, bag : Nat]
  /\ NoExit.tokens = 0 /\ NoExit.reason # <<"trailing stop">>
  /\ NoPosition.status = "none"
<1>1. <<"none">> \in Reason /\ <<"none">> # <<"trailing stop">>
  BY DEF Reason, PoolReasons
<1> QED
  BY <1>1 DEF NoExit, NoPosition

LEMMA HeldInitInv == PositionInit => HeldInv
<1> SUFFICES ASSUME PositionInit
             PROVE  HeldInv
  OBVIOUS
<1>1. CurveOK(curve)
  BY PositionAssumption DEF PositionInit, CurveOK, Reserves
<1>2. price \in Nat /\ now \in Nat /\ wallet = 0 /\ reported = 0
  BY PositionAssumption DEF PositionInit
<1>3. entry \in [at : {"idle", "sent", "done", "reverted"}, min_out : Nat, opening : Nat, since : Nat]
  BY DEF PositionInit, NoEntry
<1>4. peak \in [value : Nat, bag : Nat \ {0}]
  BY DEF PositionInit
<1>5. pending = NoExit /\ position = NoPosition
  BY DEF PositionInit
<1>6. HeldTypes
  <2>1. wallet \in Int /\ reported \in Int
    BY <1>2
  <2>2. pending \in [reason : Reason, tokens : Nat, value : Nat, bag : Nat]
    BY <1>5, NoneIs, Zenon
  <2> QED
    BY <1>1, <1>2, <1>3, <1>4, <1>5, <2>1, <2>2, Zenon DEF HeldTypes
<1>7. ~Open /\ position.status \notin {"open", "closed"}
  BY <1>5, NoneIs DEF Open
<1>8. Before /\ Decided /\ PeakKept
  BY <1>2, <1>5, <1>7 DEF Before, Decided, PeakKept
<1>9. BooksBalance
  BY <1>7 DEF BooksBalance
<1>10. TrailingNeedsFall
  BY <1>5, NoneIs DEF TrailingNeedsFall
<1> QED
  BY <1>6, <1>8, <1>9, <1>10 DEF HeldInv

\* What is held does not depend on the market.
LEMMA MarketKeeps ==
  ASSUME HeldInv, UNCHANGED heldVars,
         CurveOK(curve'), price' \in Nat, now' \in Nat,
         entry' \in [at : {"idle", "sent", "done", "reverted"}, min_out : Nat, opening : Nat, since : Nat],
         entry'.at \in {"idle", "sent"} => entry.at \in {"idle", "sent"}
  PROVE  HeldInv'
<1>1. position' = position /\ pending' = pending /\ wallet' = wallet /\ reported' = reported /\ peak' = peak
  BY DEF heldVars
<1>2. HeldTypes'
  BY <1>1 DEF HeldInv, HeldTypes
<1>3. Before'
  BY <1>1 DEF HeldInv, Before
<1>4. Decided' /\ PeakKept'
  BY <1>1 DEF HeldInv, Decided, PeakKept, Open
<1>5. BooksBalance'
  BY <1>1 DEF HeldInv, BooksBalance
<1>6. TrailingNeedsFall'
  BY <1>1 DEF HeldInv, TrailingNeedsFall
<1> QED
  BY <1>2, <1>3, <1>4, <1>5, <1>6 DEF HeldInv

-----------------------------------------------------------------------------
(* The market *)

LEMMA OpeningType == now \in Nat => SnipeTaxBps(now) \in Nat
BY SnipeType

LEMMA PrepareKeeps == HeldInv /\ Prepare => HeldInv'
<1> SUFFICES ASSUME HeldInv, Prepare
             PROVE  HeldInv'
  OBVIOUS
<1>1. HeldTypes
  BY DEF HeldInv
<1>2. UNCHANGED heldVars /\ UNCHANGED <<curve, price, now>> /\ entry.at = "idle"
  BY DEF Prepare, marketVars
<1>3. PICK opening \in Nat : opening = SnipeTaxBps(now)
  BY <1>1, SnipeType DEF HeldTypes
<1>4. PICK least \in Nat : least = MinOutAsLastInBlock(curve, opening, EthPerBuy, Sibling)
  BY <1>1, MinOutType, PositionAssumption DEF HeldTypes
<1>5. entry' = [at |-> "sent", opening |-> opening, since |-> 0, min_out |-> least]
  BY <1>3, <1>4 DEF Prepare
<1>6. entry' \in [at : {"idle", "sent", "done", "reverted"}, min_out : Nat, opening : Nat, since : Nat]
  BY <1>5
<1>7. CurveOK(curve') /\ price' \in Nat /\ now' \in Nat
  BY <1>1, <1>2 DEF HeldTypes
<1> QED
  BY <1>2, <1>6, <1>7, MarketKeeps

LEMMA OthersBuyKeeps == HeldInv /\ OthersBuy => HeldInv'
<1> SUFFICES ASSUME HeldInv, OthersBuy
             PROVE  HeldInv'
  OBVIOUS
<1>1. HeldTypes
  BY DEF HeldInv
<1>2. PICK offered \in Offers :
        /\ curve' = Bought(curve, SnipeTaxBps(now), offered)
        /\ entry' = IF entry.at = "sent" THEN [entry EXCEPT !.since = @ + offered] ELSE entry
        /\ UNCHANGED <<price, now, insider, heldVars>>
  BY DEF OthersBuy
<1>3. offered \in Nat /\ CurveOK(curve) /\ price \in Nat /\ now \in Nat
  BY <1>1, PositionAssumption DEF HeldTypes
<1>4. CurveOK(curve')
  BY <1>2, <1>3, SnipeType, BoughtKeeps
<1>5. /\ entry' \in [at : {"idle", "sent", "done", "reverted"}, min_out : Nat, opening : Nat, since : Nat]
      /\ entry'.at = entry.at
  BY <1>1, <1>2, <1>3 DEF HeldTypes
<1>6. UNCHANGED heldVars /\ price' \in Nat /\ now' \in Nat
  BY <1>2, <1>3
<1> QED
  BY <1>4, <1>5, <1>6, MarketKeeps

LEMMA OthersSellKeeps == HeldInv /\ OthersSell => HeldInv'
<1> SUFFICES ASSUME HeldInv, OthersSell
             PROVE  HeldInv'
  OBVIOUS
<1>1. HeldTypes
  BY DEF HeldInv
<1>2. PICK theirs : theirs = NewCurve.token_reserve - curve.token_reserve - IF Open THEN position.tokens ELSE 0
  OBVIOUS
<1>3. /\ theirs > 0 /\ \E tokens \in {1, theirs} : curve' = Sold(curve, tokens)
      /\ UNCHANGED <<price, now, heldVars, entry>>
  BY <1>2 DEF OthersSell
<1>4. theirs \in Nat
  <2>1. NewCurve.token_reserve \in Int /\ curve.token_reserve \in Int
    BY <1>1, PositionAssumption DEF HeldTypes, CurveOK
  <2>2. (IF Open THEN position.tokens ELSE 0) \in Int
    BY <1>1, TypesAre
  <2> QED
    BY <1>2, <1>3, <2>1, <2>2
<1>5. PICK tokens \in Nat : curve' = Sold(curve, tokens)
  BY <1>3, <1>4
<1>6. CurveOK(curve')
  BY <1>1, <1>5, SoldKeeps DEF HeldTypes
<1>7. UNCHANGED heldVars /\ price' \in Nat /\ now' \in Nat /\ entry' = entry
  BY <1>1, <1>3 DEF HeldTypes
<1>8. entry' \in [at : {"idle", "sent", "done", "reverted"}, min_out : Nat, opening : Nat, since : Nat]
  BY <1>1, <1>7 DEF HeldTypes
<1> QED
  BY <1>6, <1>7, <1>8, MarketKeeps

LEMMA OtherwiseKeeps == HeldInv /\ (Graduate \/ PriceMoves \/ Tick) => HeldInv'
<1> SUFFICES ASSUME HeldInv, Graduate \/ PriceMoves \/ Tick
             PROVE  HeldInv'
  OBVIOUS
<1>1. HeldTypes
  BY DEF HeldInv
<1>2. UNCHANGED heldVars /\ curve' = curve /\ entry' = entry
  BY DEF Graduate, PriceMoves, Tick
<1>3. price' \in Nat /\ now' \in Nat
  <2>0. price \in Nat /\ now \in Nat /\ PoolPrice \subseteq Nat
    BY <1>1, PositionAssumption DEF HeldTypes
  <2>1. CASE Graduate
    BY <2>0, <2>1 DEF Graduate
  <2>2. CASE PriceMoves
    BY <2>0, <2>2 DEF PriceMoves
  <2>3. CASE Tick
    BY <2>0, <2>3 DEF Tick
  <2> QED
    BY <2>1, <2>2, <2>3
<1>4. /\ CurveOK(curve')
      /\ entry' \in [at : {"idle", "sent", "done", "reverted"}, min_out : Nat, opening : Nat, since : Nat]
  BY <1>1, <1>2 DEF HeldTypes
<1> QED
  BY <1>2, <1>3, <1>4, MarketKeeps

-----------------------------------------------------------------------------
(* The position and its exits *)

LEMMA ValueType ==
  ASSUME HeldTypes, NEW tokens \in Nat
  PROVE  Value(tokens) \in Nat
<1>1. tokens * price \in Nat
  BY ProductNat DEF HeldTypes
<1>2. QuoteSell(curve, tokens) \in Nat
  BY QuoteSellType DEF HeldTypes
<1> QED
  BY <1>1, <1>2 DEF Value

\* A position that is opened has what was paid for it in its books.
LEMMA OpenedIs ==
  ASSUME NEW spent \in Nat, NEW tokens \in Nat, tokens > 0, now \in Nat
  PROVE  LET p == Opened(spent, Gas, tokens)
         IN  /\ PositionOK(p) /\ p.status = "open" /\ p.tokens = tokens /\ p.peak = spent
             /\ p.basis = spent /\ p.basis_gas = Gas /\ NetRealized(p) = 0
<1>0. Gas \in Nat
  BY PositionAssumption
<1>1. PICK p : p = Opened(spent, Gas, tokens)
  OBVIOUS
<1>2. <<>> \in Seq(Exit) /\ {} \in SUBSET {1}
  OBVIOUS
<1>3. /\ p.status = "open" /\ p.entry = spent /\ p.entry_gas = Gas /\ p.basis = spent /\ p.basis_gas = Gas
      /\ p.overhead = 0 /\ p.overhead_ops = {} /\ p.tokens = tokens /\ p.peak = spent /\ p.exits = <<>>
  BY <1>1 DEF Opened
<1>4. p \in Fields
  BY <1>0, <1>1, <1>2 DEF Opened, Fields
<1>5. PositionOK(p)
  BY <1>0, <1>2, <1>3, <1>4 DEF PositionOK
<1>6. NetRealized(p) = 0
  <2>1. Total(p.exits, "out") = 0 /\ Total(p.exits, "gas") = 0
    BY <1>3, TotalNone
  <2> QED
    BY <1>0, <1>3, <2>1 DEF NetRealized
<1> QED
  BY <1>1, <1>3, <1>5, <1>6

LEMMA LandKeeps == HeldInv /\ Land => HeldInv'
<1> SUFFICES ASSUME HeldInv, Land
             PROVE  HeldInv'
  OBVIOUS
<1>1. HeldTypes /\ Before
  BY DEF HeldInv
<1>2. PICK q : q = QuoteBuy(curve, entry.opening, EthPerBuy)
  OBVIOUS
<1>3. /\ entry.at = "sent" /\ UNCHANGED <<price, now, insider, pending, reported>>
  BY DEF Land
<1>4. /\ wallet = 0 /\ reported = 0 /\ position = NoPosition /\ pending = NoExit
      /\ pending' = NoExit /\ reported' = 0
  BY <1>1, <1>3 DEF Before
<1>5. q.tokens_out \in Nat /\ q.spent \in Nat
  BY <1>1, <1>2, TypesAre, QuoteBuyIs, PositionAssumption DEF HeldTypes
<1>6. CASE phase = "curve" /\ q.tokens_out > 0 /\ q.tokens_out >= entry.min_out
  <2>1. /\ position' = Opened(q.spent, Gas, q.tokens_out)
        /\ curve' = Bought(curve, entry.opening, EthPerBuy)
        /\ wallet' = wallet - q.spent - Gas
        /\ peak' = [value |-> q.spent, bag |-> q.tokens_out]
        /\ entry' = [entry EXCEPT !.at = "done"]
    BY <1>2, <1>6 DEF Land
  <2>2. PICK spent \in Nat, tokens \in Nat : spent = q.spent /\ tokens = q.tokens_out /\ tokens > 0
    BY <1>5, <1>6
  <2>3. /\ PositionOK(position') /\ position'.status = "open" /\ position'.tokens = tokens
        /\ position'.peak = spent /\ position'.basis = spent /\ position'.basis_gas = Gas
        /\ NetRealized(position') = 0
    <3>1. now \in Nat
      BY <1>1 DEF HeldTypes
    <3>2. position' = Opened(spent, Gas, tokens)
      BY <2>1, <2>2
    <3> QED
      BY <2>2, <3>1, <3>2, OpenedIs
  <2>4. CurveOK(curve')
    BY <1>1, <2>1, TypesAre, BoughtKeeps, PositionAssumption DEF HeldTypes
  <2>5. /\ entry' \in [at : {"idle", "sent", "done", "reverted"}, min_out : Nat, opening : Nat, since : Nat]
        /\ entry'.at = "done"
    BY <1>1, <2>1 DEF HeldTypes
  <2>6. /\ peak' \in [value : Nat, bag : Nat \ {0}] /\ peak'.value = spent /\ peak'.bag = tokens
    BY <2>1, <2>2
  <2>7. Gas \in Nat /\ wallet' = -spent - Gas
    BY <1>4, <2>1, <2>2, PositionAssumption
  <2>8. HeldTypes'
    <3>1. price' \in Nat /\ now' \in Nat
      BY <1>1, <1>3 DEF HeldTypes
    <3>2. wallet' \in Int /\ reported' \in Int
      BY <1>4, <2>7
    <3>3. pending' \in [reason : Reason, tokens : Nat, value : Nat, bag : Nat]
      BY <1>4, NoneIs, Zenon
    <3> QED
      BY <2>3, <2>4, <2>5, <2>6, <3>1, <3>2, <3>3, Zenon DEF HeldTypes
  <2>9. Before' /\ Decided' /\ TrailingNeedsFall'
    BY <1>4, <2>5, NoneIs DEF Before, Decided, TrailingNeedsFall
  <2>10. PeakKept'
    BY <2>3, <2>6 DEF PeakKept
  <2>11. BooksBalance'
    BY <1>4, <2>3, <2>7 DEF BooksBalance
  <2> QED
    BY <2>8, <2>9, <2>10, <2>11 DEF HeldInv
<1>7. CASE ~(phase = "curve" /\ q.tokens_out > 0 /\ q.tokens_out >= entry.min_out)
  <2>1. /\ entry' = [entry EXCEPT !.at = "reverted"] /\ wallet' = wallet - Gas
        /\ UNCHANGED <<position, curve, peak>>
    BY <1>2, <1>7 DEF Land
  <2>2. /\ entry' \in [at : {"idle", "sent", "done", "reverted"}, min_out : Nat, opening : Nat, since : Nat]
        /\ entry'.at = "reverted"
    BY <1>1, <2>1 DEF HeldTypes
  <2>3. wallet' \in Int /\ reported' \in Int
    BY <1>4, <2>1, PositionAssumption
  <2>4. HeldTypes'
    <3>1. price' \in Nat /\ now' \in Nat /\ CurveOK(curve') /\ peak' \in [value : Nat, bag : Nat \ {0}]
      BY <1>1, <1>3, <2>1 DEF HeldTypes
    <3>2. pending' \in [reason : Reason, tokens : Nat, value : Nat, bag : Nat] /\ position' = NoPosition
      BY <1>4, <2>1, NoneIs, Zenon
    <3> QED
      BY <2>2, <2>3, <3>1, <3>2, Zenon DEF HeldTypes
  <2>5. Before' /\ Decided' /\ TrailingNeedsFall'
    BY <1>4, <2>2, NoneIs DEF Before, Decided, TrailingNeedsFall
  <2>6. PeakKept' /\ BooksBalance'
    BY <1>4, <2>1, NoneIs DEF PeakKept, BooksBalance, Open
  <2> QED
    BY <2>4, <2>5, <2>6 DEF HeldInv
<1> QED
  BY <1>6, <1>7

\* The share to sell, in percent, and the reason.
Act(value) ==
  IF phase = "pool"
  THEN <<IF PoolReason(position, value) = "none" THEN 0 ELSE 100, <<PoolReason(position, value)>>>>
  ELSE CurveReason(position, value, ProgressPct(curve, Threshold))

\* What a look decides: a share of the bag, and why.
LEMMA LookIs ==
  ASSUME HeldTypes, Look, NEW value \in Nat, value = Value(position.tokens),
         NEW high \in Nat, high = IF value > position.peak THEN value ELSE position.peak
  PROVE  \E sold \in Nat, r \in Reason :
           /\ sold <= position.tokens
           /\ pending' = IF sold = 0 THEN NoExit
                         ELSE [reason |-> r, tokens |-> sold, value |-> value, bag |-> position.tokens]
           /\ r = <<"trailing stop">> => high > 0 /\ (high - value) * 100 >= TrailingPct * high
<1>1. PositionOK(position) /\ position.tokens \in Nat \ {0} /\ position.peak \in Nat /\ position.basis \in Nat
  BY TypesAre DEF Look, PositionOK
<1>2. PICK act :
        /\ act = Act(value)
        /\ pending' = IF Scale(position.tokens, act[1], 100) = 0 THEN NoExit
                      ELSE [reason |-> act[2], tokens |-> Scale(position.tokens, act[1], 100),
                            value |-> value, bag |-> position.tokens]
  <2>1. PICK v : v = Value(position.tokens)
    OBVIOUS
  <2>2. PICK act : act = Act(v)
    OBVIOUS
  <2>3. pending' = IF Scale(position.tokens, act[1], 100) = 0 THEN NoExit
                   ELSE [reason |-> act[2], tokens |-> Scale(position.tokens, act[1], 100),
                         value |-> v, bag |-> position.tokens]
    BY <2>1, <2>2 DEF Look, Act
  <2>4. v = value
    BY <2>1
  <2> QED
    BY <2>2, <2>3, <2>4, Zenon
<1>3. PICK pct \in 0 .. 100, r \in Reason :
        /\ act = <<pct, r>>
        /\ r = <<"trailing stop">> => high > 0 /\ (high - value) * 100 >= TrailingPct * high
  <2>1. CASE phase = "pool"
    <3>1. PICK name \in PoolReasons : name = PoolReason(position, value)
      BY <1>1, PoolReasonIs
    <3>2. <<name>> \in Reason /\ (<<name>> = <<"trailing stop">> => name = "trailing stop")
      BY DEF Reason
    <3>3. name = "trailing stop" => high > 0 /\ (high - value) * 100 >= TrailingPct * high
      BY <1>1, <3>1, PoolReasonIs
    <3>4. PICK pct \in 0 .. 100 : pct = IF name = "none" THEN 0 ELSE 100
      OBVIOUS
    <3>5. act = <<pct, <<name>>>>
      BY <1>2, <2>1, <3>1, <3>4 DEF Act
    <3> QED
      BY <3>2, <3>3, <3>5
  <2>2. CASE phase # "pool"
    <3>1. act = CurveReason(position, value, ProgressPct(curve, Threshold))
      BY <1>2, <2>2 DEF Act
    <3>2. PICK pct \in 0 .. 100, r \in Reason : act = <<pct, r>> /\ r # <<"trailing stop">>
      <4>1. PICK p, v, progress : p = position /\ v = value /\ progress = ProgressPct(curve, Threshold)
        OBVIOUS
      <4>2. \E pct \in 0 .. 100, r \in Reason :
              CurveReason(p, v, progress) = <<pct, r>> /\ r # <<"trailing stop">>
        BY CurveReasonIs, ZenonT(60)
      <4> QED
        BY <3>1, <4>1, <4>2, ZenonT(40)
    <3> QED
      BY <3>2
  <2> QED
    BY <2>1, <2>2
<1>4. PICK sold \in Nat : sold = Scale(position.tokens, act[1], 100) /\ sold <= position.tokens
  <2>1. act[1] = pct
    BY <1>3
  <2>2. PICK bag \in Nat : bag = position.tokens
    BY <1>1
  <2>3. 100 \in Nat \ {0} /\ pct \in Nat /\ pct <= 100
    OBVIOUS
  <2>4. Scale(bag, pct, 100) \in Nat /\ Scale(bag, pct, 100) <= bag
    BY <2>3, ScaleIs
  <2> QED
    BY <2>1, <2>2, <2>4
<1>5. act[2] = r
  BY <1>3
<1>6. pending' = IF sold = 0 THEN NoExit
                 ELSE [reason |-> r, tokens |-> sold, value |-> value, bag |-> position.tokens]
  BY <1>2, <1>4, <1>5
<1> QED
  BY <1>3, <1>4, <1>6

LEMMA HigherKeeps ==
  ASSUME NEW p, PositionOK(p), NEW high \in Nat
  PROVE  LET q == [p EXCEPT !.peak = high]
         IN  /\ PositionOK(q) /\ q.tokens = p.tokens /\ q.peak = high /\ q.status = p.status
             /\ q.basis = p.basis /\ q.basis_gas = p.basis_gas /\ NetRealized(q) = NetRealized(p)
<1>1. PICK q : q = [p EXCEPT !.peak = high]
  OBVIOUS
<1>2. p \in Fields /\ high \in Int
  BY DEF PositionOK
<1>3. /\ q \in Fields /\ q.peak = high
      /\ q.tokens = p.tokens /\ q.status = p.status /\ q.exits = p.exits
      /\ q.basis = p.basis /\ q.basis_gas = p.basis_gas /\ q.entry = p.entry /\ q.entry_gas = p.entry_gas
      /\ q.overhead = p.overhead /\ q.overhead_ops = p.overhead_ops
  BY <1>1, <1>2 DEF Fields
<1>4. PositionOK(q)
  BY <1>3 DEF PositionOK
<1>5. NetRealized(q) = NetRealized(p)
  BY <1>3, Zenon DEF NetRealized
<1> QED
  BY <1>1, <1>3, <1>4, <1>5

LEMMA LookKeeps == HeldInv /\ Look => HeldInv'
<1> SUFFICES ASSUME HeldInv, Look
             PROVE  HeldInv'
  OBVIOUS
<1>1. HeldTypes /\ Before /\ PeakKept /\ BooksBalance
  BY DEF HeldInv
<1>2. /\ Open /\ pending = NoExit
      /\ UNCHANGED <<curve, price, now, entry, wallet, reported>>
  BY DEF Look, marketVars
<1>3. /\ PositionOK(position) /\ position.status = "open"
      /\ peak.value \in Nat /\ peak.bag \in Nat \ {0}
  BY <1>1, <1>2, TypesAre DEF Open
<1>4. PICK bag \in Nat, kept \in Nat : bag = position.tokens /\ bag > 0 /\ kept = position.peak
  BY <1>1, <1>2, <1>3, TypesAre DEF PositionOK
<1>5. PICK value \in Nat : value = Value(position.tokens)
  BY <1>1, <1>4, ValueType
<1>6. PICK high \in Nat : high = IF value > kept THEN value ELSE kept
  OBVIOUS
<1>7. PICK sold \in Nat, r \in Reason :
        /\ sold <= bag
        /\ pending' = IF sold = 0 THEN NoExit ELSE [reason |-> r, tokens |-> sold, value |-> value, bag |-> bag]
        /\ r = <<"trailing stop">> => high > 0 /\ (high - value) * 100 >= TrailingPct * high
  <2>1. value = Value(position.tokens) /\ high = IF value > position.peak THEN value ELSE position.peak
    BY <1>4, <1>5, <1>6
  <2>2. PICK sold \in Nat, r \in Reason :
           /\ sold <= position.tokens
           /\ pending' = IF sold = 0 THEN NoExit
                         ELSE [reason |-> r, tokens |-> sold, value |-> value, bag |-> position.tokens]
           /\ r = <<"trailing stop">> => high > 0 /\ (high - value) * 100 >= TrailingPct * high
    BY <1>1, <2>1, LookIs, ZenonT(40)
  <2> QED
    BY <1>4, <2>2, Zenon
<1>8. /\ PositionOK(position') /\ position'.tokens = bag /\ position'.peak = high /\ position'.status = "open"
      /\ position'.basis = position.basis /\ position'.basis_gas = position.basis_gas
      /\ NetRealized(position') = NetRealized(position)
  <2>1. position' = [position EXCEPT !.peak = high]
    BY <1>4, <1>5, <1>6 DEF Look
  <2> QED
    BY <1>3, <1>4, <2>1, HigherKeeps
<1>9. PICK v \in Nat, b \in Nat \ {0} : v = peak.value /\ b = peak.bag /\ kept * b <= v * bag
  BY <1>1, <1>2, <1>3, <1>4 DEF PeakKept
<1>10. PICK w \in Nat, c \in Nat \ {0} :
         peak'.value = w /\ peak'.bag = c /\ peak' \in [value : Nat, bag : Nat \ {0}] /\ high * c <= w * bag
  <2>1. peak' = IF value * b > v * bag THEN [value |-> value, bag |-> bag] ELSE peak
    BY <1>4, <1>5, <1>9 DEF Look
  <2>2. CASE value * b > v * bag
    <3>1. kept <= value
      BY <1>9, <2>2, HigherIs
    <3>2. high = value
      BY <1>6, <3>1
    <3>3. high * bag <= value * bag
      BY <3>2
    <3>4. peak' = [value |-> value, bag |-> bag] /\ bag \in Nat \ {0}
      BY <1>4, <2>1, <2>2
    <3> QED
      BY <3>3, <3>4
  <2>3. CASE ~(value * b > v * bag)
    <3>1. value * b <= v * bag
      BY <2>3, ProductNat
    <3>2. high * b <= v * bag
      BY <1>6, <1>9, <3>1
    <3>3. peak' = peak
      BY <2>1, <2>3
    <3> QED
      BY <1>1, <1>9, <3>2, <3>3 DEF HeldTypes
  <2> QED
    BY <2>2, <2>3
<1>11. pending' \in [reason : Reason, tokens : Nat, value : Nat, bag : Nat]
  <2>1. [reason |-> r, tokens |-> sold, value |-> value, bag |-> bag] \in [reason : Reason, tokens : Nat, value : Nat, bag : Nat]
    OBVIOUS
  <2> QED
    BY <1>7, <2>1, NoneIs, Zenon
<1>12. HeldTypes'
  <2>1. /\ CurveOK(curve') /\ price' \in Nat /\ now' \in Nat /\ wallet' \in Int /\ reported' \in Int
        /\ entry' \in [at : {"idle", "sent", "done", "reverted"}, min_out : Nat, opening : Nat, since : Nat]
    BY <1>1, <1>2 DEF HeldTypes
  <2>2. peak' \in [value : Nat, bag : Nat \ {0}]
    BY <1>10
  <2> QED
    BY <1>8, <1>11, <2>1, <2>2, Zenon DEF HeldTypes
<1>13. Before'
  <2>1. position # NoPosition
    BY <1>3, NoneIs
  <2> QED
    BY <1>1, <1>2, <2>1 DEF Before
<1>14. Decided'
  <2> SUFFICES ASSUME pending' # NoExit
               PROVE  Open' /\ pending'.tokens \in 1 .. position'.tokens /\ pending'.bag = position'.tokens
    BY DEF Decided
  <2>1. sold # 0 /\ pending' = [reason |-> r, tokens |-> sold, value |-> value, bag |-> bag]
    BY <1>7
  <2>2. pending'.tokens = sold /\ pending'.bag = bag
    BY <2>1
  <2>3. sold \in 1 .. bag
    <3>1. sold <= bag
      BY <1>7, Zenon
    <3> QED
      BY <2>1, <3>1
  <2> QED
    BY <1>8, <2>2, <2>3, Zenon DEF Open
<1>15. PeakKept'
  BY <1>8, <1>10 DEF PeakKept
<1>16. BooksBalance'
  BY <1>1, <1>2, <1>3, <1>8 DEF BooksBalance
<1>17. TrailingNeedsFall'
  <2> SUFFICES ASSUME pending'.reason = <<"trailing stop">>
               PROVE  pending'.value * peak'.bag * 100 <= (100 - TrailingPct) * peak'.value * pending'.bag
    BY DEF TrailingNeedsFall
  <2>1. pending' # NoExit
    BY NoneIs
  <2>2. pending' = [reason |-> r, tokens |-> sold, value |-> value, bag |-> bag]
    BY <1>7, <2>1
  <2>3. pending'.reason = r /\ pending'.value = value /\ pending'.bag = bag
    BY <2>2
  <2>4. high > 0 /\ (high - value) * 100 >= TrailingPct * high
    BY <1>7, <2>3
  <2>5. value * c * 100 <= (100 - TrailingPct) * w * bag
    <3>1. PICK pct \in Nat : pct = TrailingPct
      BY PositionAssumption
    <3>2. PICK most \in Nat : most = c
      OBVIOUS
    <3>3. AtMost(high, most, w, bag) /\ FellBy(pct, high, value) /\ high > 0
      BY <1>10, <2>4, <3>1, <3>2 DEF AtMost, FellBy
    <3>4. PriceFell(pct, value, most, w, bag)
      BY <3>3, FallIs
    <3> QED
      BY <3>1, <3>2, <3>4 DEF PriceFell
  <2> QED
    BY <1>10, <2>3, <2>5
<1> QED
  BY <1>12, <1>13, <1>14, <1>15, <1>16, <1>17 DEF HeldInv

LEMMA SellKeeps == HeldInv /\ Sell => HeldInv'
<1> SUFFICES ASSUME HeldInv, Sell
             PROVE  HeldInv'
  OBVIOUS
<1>1. HeldTypes /\ Before /\ Decided /\ PeakKept /\ BooksBalance
  BY DEF HeldInv
<1>2. PICK out \in Nat :
        /\ out = Value(pending.tokens)
        /\ position' = ApplyExit(position, pending.tokens, out, Gas, pending.reason)
        /\ reported' = reported + NetOfExit(position, position', out, Gas)
        /\ wallet' = wallet + out - Gas
  BY <1>1, ValueType, TypesAre DEF Sell
<1>3. /\ pending # NoExit /\ pending' = NoExit
      /\ curve' = IF phase = "curve" THEN Sold(curve, pending.tokens) ELSE curve
      /\ UNCHANGED <<price, now, entry, peak>>
  BY DEF Sell
<1>4. Open /\ PositionOK(position) /\ position.status = "open"
  BY <1>1, <1>3, TypesAre DEF Decided, Open
<1>5. PICK tokens \in Nat, bag \in Nat \ {0}, rest \in Nat :
        tokens = pending.tokens /\ bag = position.tokens /\ 0 < tokens /\ tokens <= bag /\ rest = bag - tokens
  <2>1. pending.tokens \in 1 .. position.tokens /\ position.tokens \in Nat
    BY <1>1, <1>3, <1>4 DEF Decided, PositionOK
  <2> QED
    BY <2>1
<1>6. pending.reason \in Reason /\ Gas \in Nat /\ peak.value \in Nat /\ peak.bag \in Nat
  BY <1>1, TypesAre, PositionAssumption
<1>7. /\ PositionOK(position') /\ position'.tokens = rest
      /\ NetRealized(position') = NetRealized(position) + NetOfExit(position, position', out, Gas)
      /\ position'.status = "closed" => position'.basis = 0 /\ position'.basis_gas = 0
      /\ position'.peak = Scale(position.peak, rest, bag)
  <2>1. /\ PositionOK(position') /\ position'.tokens = position.tokens - tokens
        /\ NetRealized(position') = NetRealized(position) + NetOfExit(position, position', out, Gas)
        /\ position'.status = "closed" => position'.basis = 0 /\ position'.basis_gas = 0
        /\ position'.peak = Scale(position.peak, position.tokens - tokens, position.tokens)
    BY <1>2, <1>4, <1>5, <1>6, ApplyExitIs
  <2> QED
    BY <1>5, <2>1
<1>8. NetOfExit(position, position', out, Gas) \in Int /\ NetRealized(position) \in Int
  <2>1. /\ position.basis \in Int /\ position.basis_gas \in Int
        /\ position'.basis \in Int /\ position'.basis_gas \in Int
    BY <1>4, <1>7, BasisIs
  <2> QED
    BY <1>4, <1>6, <2>1, NetIs DEF NetOfExit
<1>9. HeldTypes'
  <2>1. CurveOK(curve')
    BY <1>1, <1>3, <1>5, SoldKeeps DEF HeldTypes
  <2>2. /\ price' \in Nat /\ now' \in Nat /\ peak' \in [value : Nat, bag : Nat \ {0}]
        /\ entry' \in [at : {"idle", "sent", "done", "reverted"}, min_out : Nat, opening : Nat, since : Nat]
    BY <1>1, <1>3 DEF HeldTypes
  <2>3. wallet \in Int /\ reported \in Int
    BY <1>1 DEF HeldTypes
  <2>4. wallet' \in Int /\ reported' \in Int
    BY <1>2, <1>6, <1>8, <2>3
  <2>5. pending' \in [reason : Reason, tokens : Nat, value : Nat, bag : Nat]
    BY <1>3, NoneIs, Zenon
  <2> QED
    BY <1>7, <2>1, <2>2, <2>4, <2>5, Zenon DEF HeldTypes
<1>10. Before'
  BY <1>1, <1>3 DEF Before
<1>11. Decided' /\ TrailingNeedsFall'
  BY <1>3, NoneIs DEF Decided, TrailingNeedsFall
<1>12. PeakKept'
  <2>1. PICK high \in Nat, v \in Nat, b \in Nat :
          /\ high = position.peak /\ v = peak.value /\ b = peak.bag /\ high * b <= v * bag
    <3>1. position.peak \in Nat
      BY <1>4 DEF PositionOK
    <3> QED
      BY <1>1, <1>4, <1>5, <1>6, <3>1 DEF PeakKept
  <2>2. Scale(high, rest, bag) * b <= v * rest
    <3>1. rest <= bag
      BY <1>5
    <3> QED
      BY <2>1, <3>1, PeakScales
  <2>3. peak' = peak
    BY <1>3
  <2> QED
    BY <1>7, <2>1, <2>2, <2>3 DEF PeakKept
<1>13. BooksBalance'
  <2>1. NetRealized(position) = wallet + position.basis + position.basis_gas /\ NetRealized(position) = reported
    BY <1>1, <1>4 DEF BooksBalance
  <2>2. PICK b \in Int, g \in Int, left \in Int, gasLeft \in Int :
          b = position.basis /\ g = position.basis_gas /\ left = position'.basis /\ gasLeft = position'.basis_gas
    <3>1. /\ position.basis \in Int /\ position.basis_gas \in Int
          /\ position'.basis \in Int /\ position'.basis_gas \in Int
      BY <1>4, <1>7, BasisIs
    <3> QED
      BY <3>1
  <2>3. NetOfExit(position, position', out, Gas) = out - ((b - left) + (g - gasLeft) + Gas)
    BY <2>2 DEF NetOfExit
  <2>4. wallet \in Int /\ reported \in Int
    BY <1>1 DEF HeldTypes
  <2>5. NetRealized(position') = wallet' + left + gasLeft
    <3>1. NetRealized(position) = wallet + b + g
      BY <2>1, <2>2
    <3>2. NetRealized(position') = (wallet + b + g) + (out - ((b - left) + (g - gasLeft) + Gas))
      BY <1>7, <2>3, <3>1
    <3>3. wallet' = wallet + out - Gas
      BY <1>2
    <3> QED
      BY <1>6, <2>4, <3>2, <3>3
  <2>6. NetRealized(position') = reported'
    BY <1>2, <1>7, <2>1
  <2> QED
    BY <1>7, <2>2, <2>5, <2>6 DEF BooksBalance
<1> QED
  BY <1>9, <1>10, <1>11, <1>12, <1>13 DEF HeldInv

LEMMA ChargedKeeps == HeldInv /\ (SellFails \/ Recover) => HeldInv'
<1> SUFFICES ASSUME HeldInv, SellFails \/ Recover
             PROVE  HeldInv'
  OBVIOUS
<1>1. HeldTypes /\ Before /\ Decided /\ PeakKept /\ BooksBalance /\ TrailingNeedsFall
  BY DEF HeldInv
<1>2. /\ Open /\ position' = ChargeOverhead(position, 1, Gas)
      /\ UNCHANGED <<curve, price, now, entry, peak>>
      /\ pending' = NoExit \/ pending' = pending
  BY <1>1 DEF SellFails, Recover, Decided, marketVars
<1>3. Gas \in Nat /\ wallet \in Int /\ reported \in Int /\ PositionOK(position) /\ position # NoPosition
  BY <1>1, <1>2, TypesAre, NoneIs, PositionAssumption DEF HeldTypes, Open
<1>4. PICK charge \in Int :
        /\ charge = IF position.overhead_ops = {} THEN Gas ELSE 0
        /\ wallet' = wallet - charge /\ reported' = reported - charge
  <2>1. CASE SellFails
    BY <1>3, <2>1 DEF SellFails
  <2>2. CASE Recover
    BY <1>3, <2>2 DEF Recover
  <2> QED
    BY <2>1, <2>2
<1>5. /\ PositionOK(position') /\ position'.tokens = position.tokens /\ position'.peak = position.peak
      /\ position'.status = position.status
      /\ position'.basis = position.basis /\ position'.basis_gas = position.basis_gas
      /\ NetRealized(position') = NetRealized(position) - charge
  <2>1. Gas \in Int
    BY <1>3
  <2>2. LET q == ChargeOverhead(position, 1, Gas)
        IN  /\ PositionOK(q) /\ q.tokens = position.tokens /\ q.peak = position.peak
            /\ q.status = position.status
            /\ q.basis = position.basis /\ q.basis_gas = position.basis_gas
            /\ NetRealized(q) = NetRealized(position) - IF position.overhead_ops = {} THEN Gas ELSE 0
    BY <1>3, <2>1, ChargeIs
  <2> QED
    BY <1>2, <1>4, <2>2
<1>6. HeldTypes'
  <2>1. /\ CurveOK(curve') /\ price' \in Nat /\ now' \in Nat /\ peak' \in [value : Nat, bag : Nat \ {0}]
        /\ entry' \in [at : {"idle", "sent", "done", "reverted"}, min_out : Nat, opening : Nat, since : Nat]
    BY <1>1, <1>2 DEF HeldTypes
  <2>2. wallet' \in Int /\ reported' \in Int
    BY <1>3, <1>4
  <2>3. pending' \in [reason : Reason, tokens : Nat, value : Nat, bag : Nat]
    BY <1>1, <1>2, NoneIs, Zenon DEF HeldTypes
  <2> QED
    BY <1>5, <2>1, <2>2, <2>3, Zenon DEF HeldTypes
<1>7. Before'
  BY <1>1, <1>2, <1>3 DEF Before
<1>8. Decided' /\ PeakKept'
  BY <1>1, <1>2, <1>5 DEF Decided, PeakKept, Open
<1>9. TrailingNeedsFall'
  BY <1>1, <1>2, NoneIs DEF TrailingNeedsFall
<1>10. BooksBalance'
  <2>1. NetRealized(position) = wallet + position.basis + position.basis_gas /\ NetRealized(position) = reported
    BY <1>1, <1>2 DEF BooksBalance, Open
  <2>2. PICK b \in Int, g \in Int : b = position.basis /\ g = position.basis_gas
    BY <1>3 DEF PositionOK
  <2>3. NetRealized(position') = wallet' + b + g
    BY <1>3, <1>4, <1>5, <2>1, <2>2
  <2>4. NetRealized(position') = reported'
    BY <1>4, <1>5, <2>1
  <2> QED
    BY <1>2, <1>5, <2>2, <2>3, <2>4 DEF BooksBalance, Open
<1> QED
  BY <1>6, <1>7, <1>8, <1>9, <1>10 DEF HeldInv

LEMMA HeldNextInv == HeldInv /\ [PositionNext]_positionVars => HeldInv'
<1>1. HeldInv /\ UNCHANGED positionVars => HeldInv'
  <2> SUFFICES ASSUME HeldInv, UNCHANGED positionVars
               PROVE  HeldInv'
    OBVIOUS
  <2>1. UNCHANGED heldVars /\ UNCHANGED <<curve, price, now, entry>>
    BY DEF positionVars, marketVars
  <2>2. HeldTypes
    BY DEF HeldInv
  <2> QED
    BY <2>1, <2>2, MarketKeeps DEF HeldTypes
<1> QED
  BY <1>1, PrepareKeeps, LandKeeps, LookKeeps, SellKeeps, ChargedKeeps, OthersBuyKeeps, OthersSellKeeps,
     OtherwiseKeeps DEF PositionNext

LEMMA HeldInvariance == PositionSpec => []HeldInv
BY HeldInitInv, HeldNextInv, PTL DEF PositionSpec

\* positions.rs (apply_exit, charge_overhead_gas, net_realized_pnl_wei): however a position
\* is sold, and however often the gas of a failed sale is charged, its profit and the sum
\* of what its exits reported are what the wallet gained, but for what is held at cost.
THEOREM BooksAlwaysBalance == PositionSpec => []BooksBalance
<1>1. HeldInv => BooksBalance
  BY DEF HeldInv
<1> QED
  BY <1>1, HeldInvariance, PTL

\* positions.rs (exit_reason): the peak that apply_exit keeps for the rest of a bag never
\* exceeds what a token was worth at most, so a partial exit does not look like a fall.
THEOREM TrailingStopIsFall == PositionSpec => []TrailingNeedsFall
<1>1. HeldInv => TrailingNeedsFall
  BY DEF HeldInv
<1> QED
  BY <1>1, HeldInvariance, PTL

-----------------------------------------------------------------------------
(* The minimum of the entry.  What a trade rounds is left in the curve: the   *)
(* product of its reserves never shrinks.                                     *)

LEMMA ProductLess ==
  ASSUME NEW a \in Nat, NEW b \in Nat, NEW c \in Nat, NEW d \in Nat, a <= b, c <= d
  PROVE  a * c <= b * d
<1>1. a * c <= b * c
  BY ProductGrows
<1>2. c * b <= d * b
  BY ProductGrows
<1>3. a * c \in Nat /\ b * c \in Nat /\ b * d \in Nat /\ c * b = b * c /\ d * b = b * d
  OBVIOUS
<1> QED
  BY <1>1, <1>2, <1>3

\* The quotient is the greatest number that fits.
LEMMA QuotientMost ==
  ASSUME NEW a \in Nat, NEW b \in Nat \ {0}, NEW q \in Nat, b * q <= a
  PROVE  q <= a \div b
<1>1. PICK d \in Nat : d = a \div b /\ a < b * d + b
  BY DivIs
<1>2. q * b < (d + 1) * b
  <2>1. (d + 1) * b = b * d + b /\ q * b = b * q
    BY <1>1
  <2> QED
    BY <1>1, <2>1
<1>3. q < d + 1
  BY <1>1, <1>2, FactorLess
<1> QED
  BY <1>1, <1>3

LEMMA OutIs ==
  ASSUME NEW in \in Nat, NEW ri \in Nat \ {0}, NEW ro \in Nat \ {0}
  PROVE  /\ AmountOut(in, ri, ro) \in Nat /\ AmountOut(in, ri, ro) < ro
         /\ (ri + in) * AmountOut(in, ri, ro) <= in * ro
<1>1. PICK d \in Nat \ {0} : d = ri + in
  OBVIOUS
<1>2. in * ro \in Nat
  OBVIOUS
<1>3. d * ((in * ro) \div d) <= in * ro
  BY <1>1, <1>2, DivIs
<1> QED
  BY <1>1, <1>3, AmountOutIs DEF AmountOut

\* (ri + in) * (ro - out) >= ri * ro
LEMMA ProductKept ==
  ASSUME NEW in \in Nat, NEW ri \in Nat \ {0}, NEW ro \in Nat \ {0}
  PROVE  ri * ro <= (ri + in) * (ro - AmountOut(in, ri, ro))
<1>1. PICK out \in Nat : out = AmountOut(in, ri, ro) /\ (ri + in) * out <= in * ro
  BY OutIs
<1>2. (ri + in) * (ro - out) = ri * ro + in * ro - (ri + in) * out
  OBVIOUS
<1>3. (ri + in) * out \in Nat /\ in * ro \in Nat /\ ri * ro \in Nat
  OBVIOUS
<1> QED
  BY <1>1, <1>2, <1>3

\* Who has put in no more, into no smaller a product, has taken out no more.
LEMMA LeftAtLeast ==
  ASSUME NEW ri \in Nat \ {0}, NEW ro \in Nat \ {0}, NEW in \in Nat,
         NEW quote \in Nat \ {0}, NEW tokens \in Nat \ {0},
         ri * ro <= quote * tokens, quote <= ri + in
  PROVE  ro - AmountOut(in, ri, ro) <= tokens
<1>1. CASE ro <= tokens
  <2>1. AmountOut(in, ri, ro) \in Nat
    BY OutIs
  <2> QED
    BY <1>1, <2>1
<1>2. CASE tokens < ro
  <2>1. PICK taken \in Nat : taken = ro - tokens
    BY <1>2
  <2>2. PICK d \in Nat \ {0} : d = ri + in
    OBVIOUS
  <2>3. quote * tokens <= d * tokens
    BY <2>2, ProductGrows
  <2>4. d * tokens = d * ro - d * taken /\ d * ro = ri * ro + in * ro
    <3>1. d * (ro - taken) = d * ro - d * taken
      OBVIOUS
    <3>2. (ri + in) * ro = ri * ro + in * ro
      OBVIOUS
    <3> QED
      BY <2>1, <2>2, <3>1, <3>2
  <2>5. d * taken \in Nat /\ in * ro \in Nat /\ ri * ro \in Nat /\ quote * tokens \in Nat /\ d * tokens \in Nat
    BY <2>1, <2>2
  <2>6. d * taken <= in * ro
    BY <2>3, <2>4, <2>5
  <2>7. taken <= (in * ro) \div d
    BY <2>1, <2>2, <2>5, <2>6, QuotientMost
  <2>8. taken <= AmountOut(in, ri, ro) /\ AmountOut(in, ri, ro) \in Nat
    BY <2>2, <2>7, OutIs DEF AmountOut
  <2> QED
    BY <2>1, <2>8
<1> QED
  BY <1>1, <1>2

\* A trade that does not sell the curve out is not clamped.
LEMMA BoughtIs ==
  ASSUME NEW s, CurveOK(s), NEW opening \in Nat, NEW offered \in Nat,
         AmountOut(NetOf(offered, opening), s.quote_reserve, s.token_reserve) <= s.sellable
  PROVE  LET net == NetOf(offered, opening)
             out == AmountOut(net, s.quote_reserve, s.token_reserve)
             q   == QuoteBuy(s, opening, offered)
             b   == Bought(s, opening, offered)
         IN  /\ q.tokens_out = out /\ q.spent = offered
             /\ b.quote_reserve = s.quote_reserve + net /\ b.token_reserve = s.token_reserve - out
             /\ b.sellable = s.sellable - out
<1>1. PICK net \in Nat : net = NetOf(offered, opening)
  BY NetType
<1>2. s.quote_reserve \in Nat \ {0} /\ s.token_reserve \in Nat \ {0} /\ s.sellable \in Nat /\ s \in Reserves
  BY DEF CurveOK
<1>3. PICK out \in Nat : out = AmountOut(net, s.quote_reserve, s.token_reserve)
  BY <1>1, <1>2, OutIs
<1>4. ~ (out > s.sellable)
  BY <1>1, <1>2, <1>3
<1>5. QuoteBuy(s, opening, offered) = [tokens_out |-> out, spent |-> offered]
  BY <1>1, <1>3, <1>4 DEF QuoteBuy
<1>6. Bought(s, opening, offered) =
        With(s, s.quote_reserve + net, s.real_quote_reserve + net, s.token_reserve - out, s.sellable - out)
  BY <1>1, <1>2, <1>5 DEF Bought, With, Reserves
<1>7. /\ s.quote_reserve + net \in Int /\ s.real_quote_reserve + net \in Int
      /\ s.token_reserve - out \in Int /\ s.sellable - out \in Int
  BY <1>1, <1>2, <1>3 DEF CurveOK
<1> QED
  BY <1>1, <1>2, <1>3, <1>5, <1>6, <1>7, WithIs

LEMMA SoldOutIs ==
  ASSUME NEW s, CurveOK(s), NEW opening \in Nat, NEW offered \in Nat,
         Bought(s, opening, offered).sellable # 0
  PROVE  AmountOut(NetOf(offered, opening), s.quote_reserve, s.token_reserve) <= s.sellable
<1>1. PICK net \in Nat : net = NetOf(offered, opening)
  BY NetType
<1>2. s.quote_reserve \in Nat \ {0} /\ s.token_reserve \in Nat \ {0} /\ s.sellable \in Nat /\ s \in Reserves
  BY DEF CurveOK
<1>3. PICK out \in Nat : out = AmountOut(net, s.quote_reserve, s.token_reserve)
  BY <1>1, <1>2, OutIs
<1>4. ASSUME out > s.sellable
      PROVE  FALSE
  <2>1. QuoteBuy(s, opening, offered).tokens_out = s.sellable
    BY <1>1, <1>3, <1>4 DEF QuoteBuy
  <2>2. Bought(s, opening, offered).sellable = s.sellable - s.sellable
    BY <1>2, <2>1 DEF Bought, Reserves
  <2> QED
    BY <1>2, <2>2
<1> QED
  BY <1>1, <1>2, <1>3, <1>4

LEMMA SoldIs ==
  ASSUME NEW s, CurveOK(s), NEW tokens \in Nat
  PROVE  LET gross == AmountOut(tokens, s.token_reserve, s.quote_reserve)
             b     == Sold(s, tokens)
         IN  /\ gross \in Nat
             /\ b.quote_reserve = s.quote_reserve - gross /\ b.token_reserve = s.token_reserve + tokens
             /\ b.sellable = s.sellable + tokens
             /\ s.quote_reserve * s.token_reserve <= b.quote_reserve * b.token_reserve
<1>1. s.quote_reserve \in Nat \ {0} /\ s.token_reserve \in Nat \ {0} /\ s.sellable \in Nat /\ s \in Reserves
  BY DEF CurveOK
<1>2. PICK ri \in Nat \ {0}, ro \in Nat \ {0} : ri = s.token_reserve /\ ro = s.quote_reserve
  BY <1>1
<1>3. PICK gross \in Nat : gross = AmountOut(tokens, ri, ro) /\ gross < ro
  BY OutIs
<1>4. Sold(s, tokens) =
        With(s, s.quote_reserve - gross, s.real_quote_reserve - gross, s.token_reserve + tokens, s.sellable + tokens)
  BY <1>1, <1>2, <1>3 DEF Sold, GrossSale, With, Reserves
<1>5. /\ s.quote_reserve - gross \in Int /\ s.real_quote_reserve - gross \in Int
      /\ s.token_reserve + tokens \in Int /\ s.sellable + tokens \in Int
  BY <1>1, <1>3 DEF CurveOK
<1>6. /\ Sold(s, tokens).quote_reserve = ro - gross /\ Sold(s, tokens).token_reserve = ri + tokens
      /\ Sold(s, tokens).sellable = s.sellable + tokens
  BY <1>1, <1>2, <1>4, <1>5, WithIs
<1>7. ri * ro <= (ri + tokens) * (ro - gross)
  BY <1>3, ProductKept
<1>8. ro * ri = ri * ro /\ (ro - gross) * (ri + tokens) = (ri + tokens) * (ro - gross)
  OBVIOUS
<1> QED
  BY <1>2, <1>3, <1>6, <1>7, <1>8

-----------------------------------------------------------------------------
(* What the minimum is computed from *)

\* Three fees rounded one by one are at most two less than their sum rounded once.
LEMMA FeesAtOnce ==
  ASSUME NEW amount \in Nat, NEW x \in Nat, NEW y \in Nat, NEW z \in Nat
  PROVE  Bps(amount, x + y + z) <= Bps(amount, x) + Bps(amount, y) + Bps(amount, z) + 2
<1>1. PICK a \in Nat, b \in Nat, c \in Nat, d \in Nat :
        a = amount * x /\ b = amount * y /\ c = amount * z /\ d = amount * (x + y + z)
  BY ProductNat
<1>2. d = a + b + c
  <2>1. amount * (x + y + z) = amount * x + amount * y + amount * z
    OBVIOUS
  <2> QED
    BY <1>1, <2>1
<1>3. d \div BPS <= a \div BPS + b \div BPS + c \div BPS + 2
  BY <1>2 DEF BPS
<1> QED
  BY <1>1, <1>3 DEF Bps

\* The rate of all the fees of a buy, and what the fees taken in one sum leave.
RateOf(opening) == FeeBps + CreatorTaxBps + EffectiveOpeningBps(opening)
NetAtOnce(spent, opening) == spent - Bps(spent, RateOf(opening))

LEMMA NetAtOnceIs ==
  ASSUME NEW spent \in Nat, NEW opening \in Nat
  PROVE  /\ NetAtOnce(spent, opening) \in Nat
         /\ NetOf(spent, opening) <= NetAtOnce(spent, opening) + 2
<1>1. PICK x \in Nat, y \in Nat, z \in Nat :
        x = FeeBps /\ y = CreatorTaxBps /\ z = EffectiveOpeningBps(opening) /\ x + y + z + 100 <= BPS
  BY RatesFit
<1>2. PICK rate \in Nat : rate = x + y + z /\ rate + 0 + 0 <= BPS
  BY <1>1 DEF BPS
<1>3. Bps(spent, rate) \in Nat /\ Bps(spent, rate) <= spent
  <2>1. /\ Bps(spent, rate) \in Nat /\ Bps(spent, 0) \in Nat
        /\ Bps(spent, rate) + Bps(spent, 0) + Bps(spent, 0) <= spent
    BY <1>2, FeesFit
  <2> QED
    BY <2>1
<1>4. Bps(spent, rate) <= Bps(spent, x) + Bps(spent, y) + Bps(spent, z) + 2
  BY <1>2, FeesAtOnce
<1>5. Bps(spent, x) \in Nat /\ Bps(spent, y) \in Nat /\ Bps(spent, z) \in Nat
  BY BpsIs
<1>6. NetAtOnce(spent, opening) = spent - Bps(spent, rate)
  BY <1>1, <1>2 DEF NetAtOnce, RateOf
<1>7. NetOf(spent, opening) = spent - Bps(spent, x) - Bps(spent, y) - Bps(spent, z)
  BY <1>1 DEF NetOf
<1> QED
  BY <1>3, <1>4, <1>5, <1>6, <1>7

\* A minimum above zero is of a curve on which the siblings have left tokens to buy.
LEMMA MinOutIs ==
  ASSUME NEW s, CurveOK(s), NEW opening \in Nat, NEW offered \in Nat, NEW sibling \in Nat,
         MinOutAsLastInBlock(s, opening, offered, sibling) > 0
  PROVE  LET least  == MinOutAsLastInBlock(s, opening, offered, sibling)
             out    == AmountOut(NetOf(sibling, opening), s.quote_reserve, s.token_reserve)
             quote  == s.quote_reserve + NetAtOnce(sibling, opening)
             tokens == s.token_reserve - out
             net    == NetOf(offered, opening)
         IN  \E rate \in Nat :
               /\ BPS * least <= rate * (BPS - SlippageBps)
               /\ rate > 0 /\ rate <= s.sellable - out
               /\ (quote + net) * rate <= net * tokens
<1>1. s.quote_reserve \in Nat \ {0} /\ s.token_reserve \in Nat \ {0} /\ s.sellable \in Nat /\ s \in Reserves
  BY DEF CurveOK
<1>2. PICK q : q = QuoteBuy(s, opening, sibling)
  OBVIOUS
<1>3. PICK spent \in Nat, given \in Nat : spent = q.spent /\ given = q.tokens_out /\ given <= s.sellable
  BY <1>2, QuoteBuyIs
<1>4. PICK net1 \in Nat : net1 = NetAtOnce(spent, opening)
  BY <1>3, NetAtOnceIs
<1>5. PICK after : after = With(s, s.quote_reserve + net1, s.real_quote_reserve,
                                s.token_reserve - given, s.sellable - given)
  OBVIOUS
<1>6. /\ after.quote_reserve = s.quote_reserve + net1
      /\ after.token_reserve = s.token_reserve - given
      /\ after.sellable = s.sellable - given /\ CurveOK(after)
  <2>1. PICK quote \in Nat \ {0}, tokens \in Nat \ {0}, sellable \in Nat :
          /\ quote = s.quote_reserve + net1 /\ tokens = s.token_reserve - given
          /\ sellable = s.sellable - given /\ sellable < tokens
    BY <1>1, <1>3 DEF CurveOK
  <2>2. after = With(s, quote, s.real_quote_reserve, tokens, sellable) /\ s.real_quote_reserve \in Int
    BY <1>5, <2>1 DEF CurveOK
  <2>3. CurveOK(after)
    BY <2>1, <2>2, WithKeeps
  <2>4. after.quote_reserve = quote /\ after.token_reserve = tokens /\ after.sellable = sellable
    <3>1. quote \in Int /\ tokens \in Int /\ sellable \in Int
      BY <2>1
    <3> QED
      BY <1>1, <2>2, <3>1, WithIs
  <2> QED
    BY <2>1, <2>3, <2>4
<1>7. PICK rate \in Nat : rate = QuoteBuy(after, opening, offered).tokens_out /\ rate <= after.sellable
  BY <1>6, QuoteBuyIs
<1>8. MinOutAsLastInBlock(s, opening, offered, sibling) = MinOutFromRate(rate)
  <2>1. after = [s EXCEPT !.quote_reserve = @ + spent - Bps(spent, RateOf(opening)),
                          !.token_reserve = @ - given, !.sellable = @ - given]
    <3>1. Bps(spent, RateOf(opening)) \in Nat
      <4>1. RateOf(opening) \in Nat
        BY RatesFit DEF RateOf
      <4> QED
        BY <4>1, <1>3, BpsIs
    <3>2. s.quote_reserve + spent - Bps(spent, RateOf(opening)) = s.quote_reserve + net1
      BY <1>1, <1>3, <1>4, <3>1 DEF NetAtOnce
    <3> QED
      BY <1>1, <1>5, <3>2 DEF With, Reserves
  <2> QED
    BY <1>2, <1>3, <1>7, <2>1 DEF MinOutAsLastInBlock, RateOf
<1>9. PICK keep \in Nat : keep = BPS - SlippageBps
  BY QuoteAssumption DEF BPS
<1>10. BPS * Bps(rate, keep) <= rate * keep
  BY <1>7, <1>9, BpsIs
<1>11. rate > 0
  <2>1. PICK least \in Nat : least = Bps(rate, keep) /\ least > 0
    BY <1>7, <1>8, <1>9, BpsIs DEF MinOutFromRate
  <2>2. BPS * least > 0 /\ BPS * least <= rate * keep
    BY <1>10, <2>1 DEF BPS
  <2>3. rate = 0 => rate * keep = 0
    BY <1>9
  <2> QED
    BY <1>7, <1>9, <2>2, <2>3 DEF BPS
<1>12. AmountOut(NetOf(sibling, opening), s.quote_reserve, s.token_reserve) <= s.sellable
  <2>1. ASSUME AmountOut(NetOf(sibling, opening), s.quote_reserve, s.token_reserve) > s.sellable
        PROVE  FALSE
    <3>1. given = s.sellable
      BY <1>2, <1>3, <2>1 DEF QuoteBuy
    <3> QED
      BY <1>1, <1>6, <1>7, <1>11, <3>1
  <2>2. AmountOut(NetOf(sibling, opening), s.quote_reserve, s.token_reserve) \in Nat
    BY <1>1, NetType, OutIs
  <2> QED
    BY <1>1, <2>1, <2>2
<1>13. spent = sibling /\ given = AmountOut(NetOf(sibling, opening), s.quote_reserve, s.token_reserve)
  BY <1>2, <1>3, <1>12, BoughtIs
<1>14. rate <= AmountOut(NetOf(offered, opening), after.quote_reserve, after.token_reserve)
  <2>1. AmountOut(NetOf(offered, opening), after.quote_reserve, after.token_reserve) \in Nat /\ after.sellable \in Nat
    BY <1>6, NetType, OutIs DEF CurveOK
  <2> QED
    BY <1>7, <2>1 DEF QuoteBuy
<1>15. PICK quote \in Nat \ {0}, tokens \in Nat \ {0}, net \in Nat, most \in Nat :
         /\ quote = after.quote_reserve /\ tokens = after.token_reserve /\ net = NetOf(offered, opening)
         /\ most = AmountOut(net, quote, tokens) /\ rate <= most
         /\ (quote + net) * most <= net * tokens
  <2>1. PICK quote \in Nat \ {0}, tokens \in Nat \ {0}, net \in Nat :
          quote = after.quote_reserve /\ tokens = after.token_reserve /\ net = NetOf(offered, opening)
    BY <1>6, NetType DEF CurveOK
  <2>2. AmountOut(net, quote, tokens) \in Nat /\ (quote + net) * AmountOut(net, quote, tokens) <= net * tokens
    BY <2>1, OutIs
  <2> QED
    BY <1>14, <2>1, <2>2
<1>16. (quote + net) * rate <= net * tokens
  <2>1. rate * (quote + net) <= most * (quote + net)
    BY <1>7, <1>15, ProductGrows
  <2>2. rate * (quote + net) = (quote + net) * rate /\ most * (quote + net) = (quote + net) * most
    BY <1>7, <1>15
  <2>3. (quote + net) * rate \in Nat /\ (quote + net) * most \in Nat /\ net * tokens \in Nat
    BY <1>7, <1>15
  <2> QED
    BY <1>15, <2>1, <2>2, <2>3
<1> QED
  BY <1>4, <1>6, <1>7, <1>8, <1>9, <1>10, <1>11, <1>13, <1>15, <1>16 DEF MinOutFromRate

-----------------------------------------------------------------------------
(* While others have spent no more than the sibling quote *)

\* The opening tax is that of a second of its window, or none.
LEMMA TaxedAlikeEver ==
  ASSUME TaxedAlike, NEW elapsed \in Nat, NEW offered \in Offers, offered <= Sibling
  PROVE  NetOf(offered, SnipeTaxBps(elapsed)) * Sibling <= NetOf(Sibling, SnipeTaxBps(elapsed)) * offered
<1>1. WindowSecs \in Nat
  BY QuoteAssumption
<1>2. PICK second \in 0 .. WindowSecs : SnipeTaxBps(second) = SnipeTaxBps(elapsed)
  <2>1. CASE elapsed <= WindowSecs
    BY <1>1, <2>1
  <2>2. CASE elapsed > WindowSecs
    <3>1. SnipeTaxBps(WindowSecs) = 0 /\ SnipeTaxBps(elapsed) = 0
      BY <1>1, <2>2 DEF SnipeTaxBps
    <3>2. WindowSecs \in 0 .. WindowSecs
      BY <1>1
    <3> QED
      BY <3>1, <3>2
  <2> QED
    BY <1>1, <2>1, <2>2
<1> QED
  BY <1>2 DEF TaxedAlike

\* What is left to buy is no less than the minimum was computed from.
LEMMA LeftFor ==
  ASSUME NEW s, CurveOK(s), NEW net \in Nat, NEW since \in Nat,
         NEW quote \in Nat \ {0}, NEW tokens \in Nat \ {0}, NEW sellable \in Int,
         s.sellable - s.token_reserve = sellable - tokens,
         s.quote_reserve * s.token_reserve <= quote * tokens,
         since <= Sibling, Sibling * (quote - s.quote_reserve) <= since * net,
         since = 0 => quote <= s.quote_reserve
  PROVE  LET out == AmountOut(net, s.quote_reserve, s.token_reserve)
         IN  /\ quote <= s.quote_reserve + net
             /\ s.token_reserve - out <= tokens /\ s.sellable - out <= sellable
<1>1. PICK ri \in Nat \ {0}, ro \in Nat \ {0}, left \in Nat :
        ri = s.quote_reserve /\ ro = s.token_reserve /\ left = s.sellable
  BY DEF CurveOK
<1>2. Sibling \in Nat
  BY PositionAssumption
<1>3. quote <= ri + net
  <2>1. CASE quote <= ri
    BY <2>1
  <2>2. CASE ri < quote
    <3>1. PICK more \in Nat : more = quote - ri
      BY <2>2
    <3>2. PICK sib \in Nat : sib = Sibling /\ sib > 0
      BY <1>1, <1>2, <2>2
    <3>3. more * sib <= net * sib
      <4>1. since * net <= sib * net
        BY <3>2, ProductGrows
      <4>2. sib * more <= since * net
        BY <1>1, <3>1, <3>2
      <4>3. sib * more \in Nat /\ since * net \in Nat /\ sib * net \in Nat
        BY <3>1, <3>2
      <4>4. sib * more <= sib * net
        BY <4>1, <4>2, <4>3
      <4>5. sib * more = more * sib /\ sib * net = net * sib
        BY <3>1, <3>2
      <4> QED
        BY <4>4, <4>5
    <3>4. net < more => net * sib < more * sib
      <4>1. PICK gap \in Nat : net < more => more = net + gap /\ gap > 0
        <5>1. net < more => more - net \in Nat /\ more - net > 0 /\ more = net + (more - net)
          BY <3>1
        <5> QED
          BY <5>1
      <4>2. (net + gap) * sib = net * sib + gap * sib
        BY <3>2, <4>1
      <4>3. gap > 0 => gap * sib > 0
        BY <3>2, <4>1
      <4>4. net * sib \in Nat /\ gap * sib \in Nat
        BY <3>2, <4>1
      <4> QED
        BY <4>1, <4>2, <4>3, <4>4
    <3>5. more * sib \in Nat /\ net * sib \in Nat
      BY <3>1, <3>2
    <3>6. ~ (net < more)
      <4>1. PICK x \in Nat, y \in Nat : x = more * sib /\ y = net * sib
        BY <3>5
      <4> QED
        BY <3>3, <3>4, <4>1
    <3> QED
      BY <1>1, <3>1, <3>6
  <2> QED
    BY <1>1, <2>1, <2>2
<1>4. ro - AmountOut(net, ri, ro) <= tokens
  BY <1>1, <1>3, LeftAtLeast
<1>5. AmountOut(net, ri, ro) \in Nat
  BY OutIs
<1> QED
  BY <1>1, <1>3, <1>4, <1>5

\* The slippage covers a quote that is two units above the one the rate was read at.
LEMMA RateCovers ==
  ASSUME NEW least \in Nat, NEW rate \in Nat, NEW net \in Nat, NEW keep \in Nat, NEW slip \in Nat,
         NEW quote \in Nat \ {0}, NEW tokens \in Nat \ {0},
         NEW quoteNow \in Nat \ {0}, NEW tokensNow \in Nat \ {0},
         keep + slip = BPS, 2 * keep <= slip * quote,
         BPS * least <= rate * keep, (quote + net) * rate <= net * tokens,
         quoteNow <= quote + 2, tokens <= tokensNow
  PROVE  least <= AmountOut(net, quoteNow, tokensNow)
<1>1. PICK d \in Nat \ {0}, e \in Nat \ {0} : d = quote + net /\ e = quoteNow + net /\ e <= d + 2
  <2>1. quote + net \in Nat \ {0} /\ quoteNow + net \in Nat \ {0} /\ quoteNow + net <= quote + net + 2
    OBVIOUS
  <2> QED
    BY <2>1
<1>2. keep * e <= BPS * d
  <2>1. e * keep <= (d + 2) * keep
    BY <1>1, ProductGrows
  <2>2. quote * slip <= d * slip
    BY <1>1, ProductGrows
  <2>3. /\ (d + 2) * keep = d * keep + 2 * keep /\ d * keep + d * slip = BPS * d
        /\ e * keep = keep * e /\ quote * slip = slip * quote
    <3>1. d * (keep + slip) = d * keep + d * slip
      OBVIOUS
    <3>2. d * (keep + slip) = BPS * d
      BY DEF BPS
    <3>3. (d + 2) * keep = d * keep + 2 * keep
      OBVIOUS
    <3>4. e * keep = keep * e /\ quote * slip = slip * quote
      OBVIOUS
    <3> QED
      BY <3>1, <3>2, <3>3, <3>4
  <2>4. /\ e * keep \in Nat /\ (d + 2) * keep \in Nat /\ quote * slip \in Nat /\ d * slip \in Nat /\ d * keep \in Nat
        /\ BPS * d \in Nat
    BY DEF BPS
  <2> QED
    BY <2>1, <2>2, <2>3, <2>4
<1>3. BPS * (least * e) <= BPS * (net * tokensNow)
  <2>1. PICK a \in Nat, b \in Nat, c \in Nat : a = BPS * least /\ b = keep * e /\ c = BPS * d
    <3>1. BPS * least \in Nat /\ keep * e \in Nat /\ BPS * d \in Nat
      BY DEF BPS
    <3> QED
      BY <3>1
  <2>2. a * e <= (rate * keep) * e
    <3>1. rate * keep \in Nat
      OBVIOUS
    <3> QED
      BY <2>1, <3>1, ProductGrows
  <2>3. b * rate <= c * rate
    BY <1>2, <2>1, ProductGrows
  <2>4. (rate * keep) * e = b * rate
    BY <2>1
  <2>5. c * rate = BPS * (d * rate)
    BY <2>1 DEF BPS
  <2>6. d * rate <= net * tokensNow
    <3>1. tokens * net <= tokensNow * net
      BY ProductGrows
    <3>2. tokens * net = net * tokens /\ tokensNow * net = net * tokensNow
      OBVIOUS
    <3>3. d * rate \in Nat /\ net * tokens \in Nat /\ net * tokensNow \in Nat
      OBVIOUS
    <3> QED
      BY <1>1, <3>1, <3>2, <3>3
  <2>7. a * e = BPS * (least * e)
    BY <2>1 DEF BPS
  <2>8. d * rate \in Nat /\ net * tokensNow \in Nat /\ least * e \in Nat /\ b * rate \in Nat
    BY <2>1
  <2> QED
    BY <2>2, <2>3, <2>4, <2>5, <2>6, <2>7, <2>8 DEF BPS
<1>4. e * least <= net * tokensNow /\ net * tokensNow \in Nat
  <2>1. least * e \in Nat /\ net * tokensNow \in Nat /\ e * least = least * e
    OBVIOUS
  <2> QED
    BY <1>3, <2>1 DEF BPS
<1>5. least <= (net * tokensNow) \div e
  BY <1>1, <1>4, QuotientMost
<1> QED
  BY <1>1, <1>5 DEF AmountOut

\* The buy on its way has read the curve as s; while others have spent no more than the
\* sibling quote, they have put in no more than it would have, for no more tokens.
Fair == entry.since <= Sibling /\ entry.min_out > 0

ReadAs(s) ==
  /\ CurveOK(s) /\ NewCurve.quote_reserve <= s.quote_reserve
  /\ entry.min_out = MinOutAsLastInBlock(s, entry.opening, EthPerBuy, Sibling)
  /\ Fair =>
       /\ phase = "curve"
       /\ s.sellable - s.token_reserve = curve.sellable - curve.token_reserve
       /\ s.quote_reserve * s.token_reserve <= curve.quote_reserve * curve.token_reserve
       /\ Sibling * (curve.quote_reserve - s.quote_reserve) <= entry.since * NetOf(Sibling, entry.opening)
       /\ entry.since = 0 => curve.quote_reserve <= s.quote_reserve

\* A curve that is not sold out has at least the quote it was launched with.
NotBelowLaunch ==
  /\ curve.token_reserve <= NewCurve.token_reserve
  /\ NewCurve.quote_reserve * NewCurve.token_reserve <= curve.quote_reserve * curve.token_reserve

MinInv ==
  /\ entry.at = "idle" /\ phase = "curve" => NotBelowLaunch
  /\ entry.at = "sent" => entry.opening = SnipeTaxBps(now) /\ \E s : ReadAs(s)
  /\ MinOutHolds

LEMMA MinInit == PositionInit => MinInv
<1> SUFFICES ASSUME PositionInit
             PROVE  MinInv
  OBVIOUS
<1>1. entry.at = "idle" /\ curve = NewCurve
  BY DEF PositionInit, NoEntry
<1>2. NewCurve.token_reserve \in Nat /\ NewCurve.quote_reserve \in Nat
  BY PositionAssumption
<1>3. NewCurve.quote_reserve * NewCurve.token_reserve \in Nat
  BY <1>2, ProductNat
<1> QED
  BY <1>1, <1>2, <1>3 DEF MinInv, MinOutHolds, NotBelowLaunch

LEMMA MinStays ==
  ASSUME MinInv, entry' = entry,
         entry.at \in {"done", "reverted"} \/ UNCHANGED <<curve, phase, now>>
  PROVE  MinInv'
<1>1. MinOutHolds'
  BY DEF MinInv, MinOutHolds
<1>2. CASE entry.at \in {"done", "reverted"}
  BY <1>1, <1>2 DEF MinInv
<1>3. CASE UNCHANGED <<curve, phase, now>>
  <2>1. ASSUME NEW s, ReadAs(s)
        PROVE  ReadAs(s)'
    BY <1>3, <2>1 DEF ReadAs, Fair
  <2>2. NotBelowLaunch => NotBelowLaunch'
    BY <1>3 DEF NotBelowLaunch
  <2> QED
    BY <1>1, <1>3, <2>1, <2>2 DEF MinInv
<1> QED
  BY <1>2, <1>3

LEMMA MinPrepare == HeldInv /\ MinInv /\ Prepare => MinInv'
<1> SUFFICES ASSUME HeldInv, MinInv, Prepare
             PROVE  MinInv'
  OBVIOUS
<1>1. HeldTypes
  BY DEF HeldInv
<1>2. UNCHANGED <<curve, phase, now>> /\ entry.at = "idle" /\ phase = "curve"
  BY DEF Prepare, marketVars
<1>3. PICK opening \in Nat : opening = SnipeTaxBps(now)
  BY <1>1, SnipeType DEF HeldTypes
<1>4. PICK least : least = MinOutAsLastInBlock(curve, opening, EthPerBuy, Sibling)
  OBVIOUS
<1>5. entry' = [at |-> "sent", opening |-> opening, since |-> 0, min_out |-> least]
  BY <1>3, <1>4 DEF Prepare
<1>6. CurveOK(curve)
  BY <1>1 DEF HeldTypes
<1>7. PICK quote \in Nat \ {0}, tokens \in Nat \ {0}, quote1 \in Nat \ {0}, tokens1 \in Nat :
        /\ quote = curve.quote_reserve /\ tokens = curve.token_reserve
        /\ quote1 = NewCurve.quote_reserve /\ tokens1 = NewCurve.token_reserve
  BY <1>6, PositionAssumption DEF CurveOK
<1>8. quote1 <= quote
  <2>1. tokens <= tokens1 /\ quote1 * tokens1 <= quote * tokens
    BY <1>2, <1>7 DEF MinInv, NotBelowLaunch
  <2>2. ASSUME quote < quote1
        PROVE  FALSE
    <3>1. PICK one \in Nat : one = quote + 1 /\ one <= quote1
      BY <2>2
    <3>2. one * tokens <= quote1 * tokens1
      BY <2>1, <3>1, ProductLess
    <3>3. one * tokens = quote * tokens + tokens
      BY <3>1
    <3>4. quote * tokens \in Nat /\ quote1 * tokens1 \in Nat
      BY ProductNat
    <3> QED
      BY <2>1, <3>2, <3>3, <3>4
  <2> QED
    BY <2>2
<1>9. ReadAs(curve)'
  <2>1. quote * tokens \in Nat
    BY ProductNat
  <2>2. Sibling * (quote - quote) = 0 /\ 0 * NetOf(Sibling, opening) = 0
    BY <1>3, PositionAssumption, NetType
  <2> QED
    BY <1>2, <1>4, <1>5, <1>6, <1>7, <1>8, <2>1, <2>2 DEF ReadAs
<1>10. (\E s : ReadAs(s))'
  BY <1>2, <1>9
<1> QED
  BY <1>2, <1>3, <1>5, <1>10 DEF MinInv, MinOutHolds

\* Others who sell give tokens back, for quote the curve has.
LEMMA MinOthersSell == HeldInv /\ MinInv /\ OthersSell => MinInv'
<1> SUFFICES ASSUME HeldInv, MinInv, OthersSell
             PROVE  MinInv'
  OBVIOUS
<1>1. HeldTypes /\ Before
  BY DEF HeldInv
<1>2. UNCHANGED <<phase, now, entry>>
  BY DEF OthersSell
<1>3. CASE entry.at \notin {"idle", "sent"}
  <2>1. entry.at \in {"done", "reverted"}
    BY <1>1, <1>3, TypesAre
  <2> QED
    BY <1>2, <2>1, MinStays
<1>4. CASE entry.at \in {"idle", "sent"}
  <2>1. ~ Open
    BY <1>1, <1>4, NoneIs DEF Before, Open
  <2>2. PICK tokens \in {1, NewCurve.token_reserve - curve.token_reserve - 0} :
          curve' = Sold(curve, tokens) /\ NewCurve.token_reserve - curve.token_reserve - 0 > 0
    BY <2>1 DEF OthersSell
  <2>3. CurveOK(curve) /\ entry.since \in Nat /\ entry.opening \in Nat
    BY <1>1, TypesAre DEF HeldTypes
  <2>4. PICK quote \in Nat \ {0}, left \in Nat \ {0}, all \in Nat :
          quote = curve.quote_reserve /\ left = curve.token_reserve /\ all = NewCurve.token_reserve
    BY <2>3, PositionAssumption DEF CurveOK
  <2>5. tokens \in Nat /\ left + tokens <= all
    BY <2>2, <2>4
  <2>6. PICK gross \in Nat :
          /\ curve'.quote_reserve = quote - gross /\ curve'.token_reserve = left + tokens
          /\ curve'.sellable = curve.sellable + tokens
          /\ quote * left <= curve'.quote_reserve * curve'.token_reserve
    BY <2>2, <2>3, <2>4, <2>5, SoldIs
  <2>7. PICK product \in Nat, product1 \in Int, launch \in Nat :
          /\ product = quote * left /\ product1 = curve'.quote_reserve * curve'.token_reserve
          /\ launch = NewCurve.quote_reserve * NewCurve.token_reserve /\ product <= product1
    <3>1. quote * left \in Nat /\ (quote - gross) * (left + tokens) \in Int
      BY <2>5
    <3>2. NewCurve.quote_reserve * NewCurve.token_reserve \in Nat
      BY PositionAssumption, ProductNat
    <3> QED
      BY <2>6, <3>1, <3>2
  <2>8. NotBelowLaunch => NotBelowLaunch'
    BY <2>4, <2>5, <2>6, <2>7 DEF NotBelowLaunch
  <2>9. ASSUME NEW s, ReadAs(s)
        PROVE  ReadAs(s)'
    <3>1. CASE ~ Fair
      BY <1>2, <2>9, <3>1 DEF ReadAs, Fair
    <3>2. CASE Fair
      <4>1. PICK read \in Nat, tokens0 \in Nat, for \in Int, sib \in Nat, bound \in Nat :
              /\ read = s.quote_reserve /\ tokens0 = s.token_reserve /\ for = s.sellable /\ sib = Sibling
              /\ bound = entry.since * NetOf(Sibling, entry.opening)
        <5>1. s.quote_reserve \in Nat /\ s.token_reserve \in Nat /\ s.sellable \in Int
          BY <2>9 DEF ReadAs, CurveOK
        <5>2. Sibling \in Nat
          BY PositionAssumption
        <5>3. entry.since * NetOf(Sibling, entry.opening) \in Nat
          BY <2>3, <5>2, NetType, ProductNat
        <5> QED
          BY <5>1, <5>2, <5>3
      <4>2. /\ phase = "curve" /\ for - tokens0 = curve.sellable - left
            /\ read * tokens0 <= product
            /\ sib * (quote - read) <= bound
            /\ entry.since = 0 => quote <= read
        BY <2>4, <2>7, <2>9, <3>2, <4>1 DEF ReadAs
      <4>3. read * tokens0 <= product1
        <5>1. read * tokens0 \in Nat
          BY <4>1
        <5> QED
          BY <2>7, <4>2, <5>1
      <4>4. sib * ((quote - gross) - read) <= bound
        <5>1. sib * ((quote - gross) - read) = sib * (quote - read) - sib * gross
          BY <4>1
        <5>2. sib * (quote - read) \in Int /\ sib * gross \in Nat
          BY <4>1
        <5> QED
          BY <4>1, <4>2, <5>1, <5>2
      <4>5. for - tokens0 = curve'.sellable - curve'.token_reserve
        BY <2>3, <2>4, <2>5, <2>6, <4>1, <4>2 DEF CurveOK
      <4>6. entry.since = 0 => quote - gross <= read
        BY <4>1, <4>2
      <4> QED
        BY <1>2, <2>6, <2>7, <2>9, <4>1, <4>2, <4>3, <4>4, <4>5, <4>6 DEF ReadAs, Fair
    <3> QED
      BY <3>1, <3>2
  <2>10. (\E s : ReadAs(s)) => (\E s : ReadAs(s))'
    BY <2>9
  <2> QED
    BY <1>2, <2>8, <2>10 DEF MinInv, MinOutHolds
<1> QED
  BY <1>3, <1>4

\* A buy of others that does not sell the curve out takes its tokens for its net.
LEMMA OthersBought ==
  ASSUME HeldTypes, NEW offered \in Nat, curve' = Bought(curve, SnipeTaxBps(now), offered),
         AmountOut(NetOf(offered, SnipeTaxBps(now)), curve.quote_reserve, curve.token_reserve) <= curve.sellable
  PROVE  \E net \in Nat, out \in Nat :
           /\ net = NetOf(offered, SnipeTaxBps(now))
           /\ out = AmountOut(net, curve.quote_reserve, curve.token_reserve)
           /\ curve'.quote_reserve = curve.quote_reserve + net
           /\ curve'.token_reserve = curve.token_reserve - out /\ curve'.sellable = curve.sellable - out
           /\ curve.quote_reserve * curve.token_reserve <= curve'.quote_reserve * curve'.token_reserve
<1>1. CurveOK(curve) /\ now \in Nat
  BY DEF HeldTypes
<1>2. PICK opening \in Nat : opening = SnipeTaxBps(now)
  BY <1>1, SnipeType
<1>3. PICK net \in Nat : net = NetOf(offered, opening)
  BY NetType
<1>4. PICK quote \in Nat \ {0}, tokens \in Nat \ {0} :
        quote = curve.quote_reserve /\ tokens = curve.token_reserve
  BY <1>1 DEF CurveOK
<1>5. PICK out \in Nat : out = AmountOut(net, quote, tokens)
  BY OutIs
<1>6. /\ curve'.quote_reserve = quote + net
      /\ curve'.token_reserve = tokens - out /\ curve'.sellable = curve.sellable - out
  BY <1>1, <1>2, <1>3, <1>4, <1>5, BoughtIs
<1>7. quote * tokens <= (quote + net) * (tokens - out)
  BY <1>5, ProductKept
<1> QED
  BY <1>2, <1>3, <1>4, <1>5, <1>6, <1>7

\* What others put in, by the offer, is no more of the sibling quote's net than of the quote.
LEMMA PutIn ==
  ASSUME NEW sib \in Nat, NEW over \in Int, NEW since \in Nat, NEW all \in Nat,
         NEW net \in Nat, NEW offered \in Nat,
         sib * over <= since * all, net * sib <= all * offered
  PROVE  sib * (over + net) <= (since + offered) * all
<1>1. sib * (over + net) = sib * over + net * sib /\ (since + offered) * all = since * all + all * offered
  OBVIOUS
<1>2. sib * over \in Int /\ net * sib \in Nat /\ since * all \in Nat /\ all * offered \in Nat
  OBVIOUS
<1> QED
  BY <1>1, <1>2

LEMMA OthersBuyRead ==
  ASSUME HeldTypes, TaxedAlike, NEW offered \in Offers, entry.at = "sent",
         entry.opening = SnipeTaxBps(now), curve' = Bought(curve, SnipeTaxBps(now), offered),
         phase' = IF curve'.sellable = 0 THEN "ready" ELSE phase,
         entry' = [entry EXCEPT !.since = @ + offered],
         NEW s, ReadAs(s)
  PROVE  ReadAs(s)'
<1>1. /\ entry'.since = entry.since + offered /\ entry'.opening = entry.opening
      /\ entry'.min_out = entry.min_out /\ offered \in Nat
      /\ entry.since \in Nat /\ entry.opening \in Nat
  BY TypesAre, PositionAssumption DEF HeldTypes
<1>2. CASE ~ Fair'
  BY <1>1, <1>2 DEF ReadAs
<1>3. CASE Fair'
  <2>1. CurveOK(curve) /\ CurveOK(s) /\ now \in Nat /\ Sibling \in Nat
    BY PositionAssumption DEF HeldTypes, ReadAs
  <2>2. Fair /\ offered <= Sibling /\ entry.since + offered <= Sibling /\ entry.min_out > 0
    BY <1>1, <1>3, <2>1 DEF Fair
  <2>3. PICK net \in Nat, all \in Nat :
          /\ net = NetOf(offered, entry.opening) /\ all = NetOf(Sibling, entry.opening)
          /\ net * Sibling <= all * offered
    BY <1>1, <2>1, <2>2, NetType, TaxedAlikeEver
  <2>4. PICK quote \in Nat \ {0}, tokens \in Nat \ {0}, sellable \in Nat :
          quote = curve.quote_reserve /\ tokens = curve.token_reserve /\ sellable = curve.sellable
    BY <2>1 DEF CurveOK
  <2>5. PICK read \in Nat \ {0}, tokens0 \in Nat \ {0}, for \in Nat :
          read = s.quote_reserve /\ tokens0 = s.token_reserve /\ for = s.sellable
    BY <2>1 DEF CurveOK
  <2>6. /\ phase = "curve" /\ for - tokens0 = sellable - tokens
        /\ read * tokens0 <= quote * tokens
        /\ Sibling * (quote - read) <= entry.since * all
        /\ entry.since = 0 => quote <= read
    BY <2>2, <2>3, <2>4, <2>5 DEF ReadAs
  <2>7. PICK out \in Nat : out = AmountOut(net, quote, tokens) /\ out < tokens
    BY OutIs
  <2>8. PICK quote1 \in Nat \ {0}, tokens1 \in Nat \ {0}, sellable1 \in Int, since1 \in Nat :
          /\ quote1 = quote + net /\ tokens1 = tokens - out /\ sellable1 = sellable - out
          /\ since1 = entry.since + offered
    BY <1>1, <2>7
  <2>9. read * tokens0 <= quote1 * tokens1
    <3>1. quote * tokens <= quote1 * tokens1
      BY <2>7, <2>8, ProductKept
    <3>2. read * tokens0 \in Nat /\ quote * tokens \in Nat /\ quote1 * tokens1 \in Nat
      OBVIOUS
    <3> QED
      BY <2>6, <3>1, <3>2
  <2>10. Sibling * (quote1 - read) <= since1 * all
    <3>1. quote - read \in Int /\ (quote - read) + net = quote1 - read
      BY <2>8
    <3>2. Sibling * ((quote - read) + net) <= (entry.since + offered) * all
      BY <1>1, <2>1, <2>3, <2>6, <3>1, PutIn
    <3> QED
      BY <2>8, <3>1, <3>2
  <2>11. since1 = 0 => quote1 <= read
    <3>1. ASSUME since1 = 0
          PROVE  quote1 <= read
      <4>1. entry.since = 0 /\ offered = 0
        BY <1>1, <2>8, <3>1
      <4>2. net = 0
        <5>1. /\ Bps(0, FeeBps) \in Nat /\ Bps(0, CreatorTaxBps) \in Nat
              /\ Bps(0, EffectiveOpeningBps(entry.opening)) \in Nat
          BY <1>1, RatesFit, BpsIs
        <5> QED
          BY <2>3, <4>1, <5>1 DEF NetOf
      <4> QED
        BY <2>6, <2>8, <4>1, <4>2
    <3> QED
      BY <3>1
  <2>12. sellable1 > 0
    <3>1. PICK given \in Nat : given = AmountOut(all, read, tokens0)
      BY OutIs
    <3>2. for - given <= sellable1
      <4>1. for - tokens0 = sellable1 - tokens1 /\ since1 <= Sibling
        BY <2>2, <2>6, <2>8
      <4> QED
        BY <2>1, <2>5, <2>9, <2>10, <2>11, <3>1, <4>1, LeftFor
    <3>3. for - given > 0
      <4>1. entry.min_out = MinOutAsLastInBlock(s, entry.opening, EthPerBuy, Sibling) /\ EthPerBuy \in Nat
        BY PositionAssumption DEF ReadAs
      <4>2. PICK rate \in Nat : rate > 0 /\ rate <= for - given
        BY <1>1, <2>1, <2>2, <2>3, <2>5, <3>1, <4>1, MinOutIs
      <4> QED
        BY <4>2
    <3> QED
      BY <3>1, <3>2, <3>3
  <2>13. /\ curve'.quote_reserve = quote1 /\ curve'.token_reserve = tokens1 /\ curve'.sellable = sellable1
    <3>1. out <= sellable
      BY <2>8, <2>12
    <3> QED
      BY <1>1, <2>3, <2>4, <2>7, <2>8, <3>1, OthersBought
  <2>14. phase' = "curve" /\ for - tokens0 = sellable1 - tokens1
    BY <2>6, <2>8, <2>12, <2>13
  <2> QED
    BY <1>1, <2>3, <2>5, <2>8, <2>9, <2>10, <2>11, <2>13, <2>14 DEF ReadAs
<1> QED
  BY <1>2, <1>3

LEMMA MinOthersBuy ==
  ASSUME TaxedAlike
  PROVE  HeldInv /\ MinInv /\ OthersBuy => MinInv'
<1> SUFFICES ASSUME HeldInv, MinInv, OthersBuy
             PROVE  MinInv'
  OBVIOUS
<1>1. HeldTypes
  BY DEF HeldInv
<1>2. PICK offered \in Offers :
        /\ phase = "curve" /\ curve' = Bought(curve, SnipeTaxBps(now), offered)
        /\ phase' = IF curve'.sellable = 0 THEN "ready" ELSE phase
        /\ entry' = IF entry.at = "sent" THEN [entry EXCEPT !.since = @ + offered] ELSE entry
        /\ now' = now
  BY DEF OthersBuy
<1>3. CurveOK(curve) /\ now \in Nat /\ offered \in Nat
  BY <1>1, PositionAssumption DEF HeldTypes
<1>4. CASE entry.at = "sent"
  <2>1. entry' = [entry EXCEPT !.since = @ + offered] /\ entry'.at = "sent" /\ entry'.opening = entry.opening
    BY <1>1, <1>2, <1>4 DEF HeldTypes
  <2>2. entry.opening = SnipeTaxBps(now)
    BY <1>4 DEF MinInv
  <2>3. PICK s : ReadAs(s)
    BY <1>4 DEF MinInv
  <2>4. ReadAs(s)'
    BY <1>1, <1>2, <1>4, <2>1, <2>2, <2>3, OthersBuyRead
  <2>5. (\E r : ReadAs(r))'
    BY <2>4
  <2>6. MinOutHolds'
    BY <2>1 DEF MinOutHolds
  <2> QED
    BY <1>2, <2>1, <2>2, <2>5, <2>6 DEF MinInv
<1>5. CASE entry.at \in {"done", "reverted"}
  BY <1>2, <1>5, MinStays
<1>6. CASE entry.at = "idle"
  <2>1. entry' = entry
    BY <1>2, <1>6
  <2>2. ASSUME phase' = "curve"
        PROVE  NotBelowLaunch'
    <3>1. curve'.sellable # 0
      BY <1>2, <2>2
    <3>2. PICK opening \in Nat : opening = SnipeTaxBps(now)
      BY <1>3, SnipeType
    <3>3. AmountOut(NetOf(offered, opening), curve.quote_reserve, curve.token_reserve) <= curve.sellable
      BY <1>2, <1>3, <3>1, <3>2, SoldOutIs
    <3>4. PICK out \in Nat :
            /\ curve'.token_reserve = curve.token_reserve - out
            /\ curve.quote_reserve * curve.token_reserve <= curve'.quote_reserve * curve'.token_reserve
      BY <1>1, <1>2, <1>3, <3>2, <3>3, OthersBought
    <3>5. CurveOK(curve')
      BY <1>2, <1>3, <3>2, BoughtKeeps
    <3>6. PICK launch \in Nat, before \in Nat, after \in Nat :
            /\ launch = NewCurve.quote_reserve * NewCurve.token_reserve
            /\ before = curve.quote_reserve * curve.token_reserve
            /\ after = curve'.quote_reserve * curve'.token_reserve
      <4>1. /\ NewCurve.quote_reserve \in Nat /\ NewCurve.token_reserve \in Nat
            /\ curve.quote_reserve \in Nat /\ curve.token_reserve \in Nat
            /\ curve'.quote_reserve \in Nat /\ curve'.token_reserve \in Nat
        BY <1>3, <3>5, PositionAssumption DEF CurveOK
      <4> QED
        BY <4>1, ProductNat
    <3>7. NotBelowLaunch
      BY <1>2, <1>6 DEF MinInv
    <3>8. curve.token_reserve \in Nat /\ NewCurve.token_reserve \in Nat
      BY <1>3, PositionAssumption DEF CurveOK
    <3> QED
      BY <3>4, <3>6, <3>7, <3>8 DEF NotBelowLaunch
  <2>3. MinOutHolds'
    BY <1>6, <2>1 DEF MinOutHolds
  <2> QED
    BY <1>6, <2>1, <2>2, <2>3 DEF MinInv
<1> QED
  BY <1>1, <1>4, <1>5, <1>6, TypesAre

\* A buy that lands while others have spent no more than the sibling quote gets its minimum.
LEMMA GetsMinimum ==
  ASSUME HeldTypes, SlippageCovers, NEW s, ReadAs(s), Fair
  PROVE  phase = "curve" /\ entry.min_out <= QuoteBuy(curve, entry.opening, EthPerBuy).tokens_out
<1>1. CurveOK(curve) /\ CurveOK(s) /\ entry.since \in Nat /\ entry.opening \in Nat /\ entry.min_out \in Nat
  BY TypesAre DEF HeldTypes, ReadAs
<1>2. /\ Sibling \in Nat /\ EthPerBuy \in Nat /\ entry.min_out > 0 /\ entry.since <= Sibling
      /\ entry.min_out = MinOutAsLastInBlock(s, entry.opening, EthPerBuy, Sibling)
      /\ NewCurve.quote_reserve <= s.quote_reserve /\ NewCurve.quote_reserve \in Nat
  BY PositionAssumption DEF ReadAs, Fair
<1>3. PICK quote \in Nat \ {0}, tokens \in Nat \ {0}, sellable \in Nat :
        quote = curve.quote_reserve /\ tokens = curve.token_reserve /\ sellable = curve.sellable
  BY <1>1 DEF CurveOK
<1>4. PICK read \in Nat \ {0}, tokens0 \in Nat \ {0}, for \in Nat :
        read = s.quote_reserve /\ tokens0 = s.token_reserve /\ for = s.sellable
  BY <1>1 DEF CurveOK
<1>5. PICK all \in Nat, once \in Nat, net \in Nat :
        /\ all = NetOf(Sibling, entry.opening) /\ once = NetAtOnce(Sibling, entry.opening)
        /\ all <= once + 2 /\ net = NetOf(EthPerBuy, entry.opening)
  BY <1>1, <1>2, NetType, NetAtOnceIs
<1>6. PICK given \in Nat : given = AmountOut(all, read, tokens0) /\ given < tokens0
  BY OutIs
<1>7. /\ phase = "curve" /\ for - tokens0 = sellable - tokens
      /\ read * tokens0 <= quote * tokens
      /\ Sibling * (quote - read) <= entry.since * all
      /\ entry.since = 0 => quote <= read
  BY <1>3, <1>4, <1>5 DEF ReadAs
<1>8. quote <= read + all /\ tokens0 - given <= tokens /\ for - given <= sellable
  <2>1. PICK since \in Nat : since = entry.since
    BY <1>1
  <2>2. since <= Sibling /\ Sibling * (quote - read) <= since * all /\ (since = 0 => quote <= read)
    BY <1>2, <1>7, <2>1
  <2>3. sellable \in Int
    BY <1>3
  <2> QED
    BY <1>1, <1>3, <1>4, <1>5, <1>6, <1>7, <2>1, <2>2, <2>3, LeftFor
<1>9. PICK keep \in Nat, slip \in Nat : keep = BPS - SlippageBps /\ slip = SlippageBps /\ keep + slip = BPS
  BY QuoteAssumption DEF BPS
<1>10. PICK quote0 \in Nat \ {0}, left \in Nat \ {0} : quote0 = read + once /\ left = tokens0 - given
  BY <1>4, <1>5, <1>6
<1>11. PICK rate \in Nat :
         /\ BPS * entry.min_out <= rate * keep /\ rate <= for - given
         /\ (quote0 + net) * rate <= net * left
  <2>1. PICK least \in Nat : least = entry.min_out /\ least > 0
    BY <1>1, <1>2
  <2>2. \E rate \in Nat :
          /\ BPS * least <= rate * (BPS - SlippageBps)
          /\ rate > 0 /\ rate <= s.sellable - AmountOut(NetOf(Sibling, entry.opening), s.quote_reserve, s.token_reserve)
          /\ (s.quote_reserve + NetAtOnce(Sibling, entry.opening) + NetOf(EthPerBuy, entry.opening)) * rate
               <= NetOf(EthPerBuy, entry.opening)
                    * (s.token_reserve - AmountOut(NetOf(Sibling, entry.opening), s.quote_reserve, s.token_reserve))
    BY <1>1, <1>2, <2>1, MinOutIs
  <2> QED
    BY <1>4, <1>5, <1>6, <1>9, <1>10, <2>1, <2>2
<1>12. 2 * keep <= slip * quote0
  <2>1. PICK launch \in Nat : launch = NewCurve.quote_reserve /\ launch <= quote0
    BY <1>2, <1>4, <1>10
  <2>2. launch * slip <= quote0 * slip
    BY <2>1, ProductGrows
  <2>3. launch * slip = slip * launch /\ quote0 * slip = slip * quote0
    BY <2>1
  <2>4. 2 * keep <= slip * launch
    BY <1>9, <2>1 DEF SlippageCovers
  <2>5. slip * launch \in Nat /\ slip * quote0 \in Nat /\ 2 * keep \in Nat
    BY <2>1
  <2> QED
    BY <2>2, <2>3, <2>4, <2>5
<1>13. entry.min_out <= AmountOut(net, quote, tokens)
  <2>1. quote <= quote0 + 2 /\ left <= tokens
    BY <1>5, <1>8, <1>10
  <2> QED
    BY <1>1, <1>9, <1>11, <1>12, <2>1, RateCovers
<1>14. entry.min_out <= sellable
  <2>1. entry.min_out <= rate
    <3>1. PICK least \in Nat : least = entry.min_out
      BY <1>1
    <3>2. rate * keep <= BPS * rate
      <4>1. keep * rate <= BPS * rate
        BY <1>9, ProductGrows DEF BPS
      <4> QED
        BY <4>1
    <3>3. rate * keep \in Nat
      OBVIOUS
    <3>4. BPS * least <= BPS * rate
      BY <1>11, <3>1, <3>2, <3>3 DEF BPS
    <3> QED
      BY <3>1, <3>4 DEF BPS
  <2> QED
    BY <1>1, <1>8, <1>11, <2>1
<1>15. AmountOut(net, quote, tokens) \in Nat
  BY OutIs
<1>16. QuoteBuy(curve, entry.opening, EthPerBuy).tokens_out =
         IF AmountOut(net, quote, tokens) > sellable THEN sellable ELSE AmountOut(net, quote, tokens)
  BY <1>3, <1>5 DEF QuoteBuy
<1> QED
  BY <1>7, <1>13, <1>14, <1>16

LEMMA MinLand ==
  ASSUME SlippageCovers
  PROVE  HeldInv /\ MinInv /\ Land => MinInv'
<1> SUFFICES ASSUME HeldInv, MinInv, Land
             PROVE  MinInv'
  OBVIOUS
<1>1. HeldTypes
  BY DEF HeldInv
<1>2. entry.at = "sent" /\ entry' \in {[entry EXCEPT !.at = "done"], [entry EXCEPT !.at = "reverted"]}
  BY DEF Land
<1>3. /\ entry'.at \in {"done", "reverted"}
      /\ entry'.since = entry.since /\ entry'.min_out = entry.min_out
      /\ entry.since \in Nat /\ entry.min_out \in Nat
  BY <1>1, <1>2, TypesAre DEF HeldTypes
<1>4. PICK s : ReadAs(s)
  BY <1>2 DEF MinInv
<1>5. Fair => entry'.at = "done"
  <2>1. ASSUME Fair
        PROVE  entry'.at = "done"
    <3>1. phase = "curve" /\ entry.min_out <= QuoteBuy(curve, entry.opening, EthPerBuy).tokens_out
      BY <1>1, <1>4, <2>1, GetsMinimum
    <3>2. QuoteBuy(curve, entry.opening, EthPerBuy).tokens_out \in Nat
      BY <1>1, TypesAre, QuoteBuyIs, PositionAssumption DEF HeldTypes
    <3>3. /\ QuoteBuy(curve, entry.opening, EthPerBuy).tokens_out > 0
          /\ QuoteBuy(curve, entry.opening, EthPerBuy).tokens_out >= entry.min_out
      BY <1>3, <2>1, <3>1, <3>2 DEF Fair
    <3>4. entry' = [entry EXCEPT !.at = "done"]
      BY <3>1, <3>3 DEF Land
    <3> QED
      BY <1>1, <3>4 DEF HeldTypes
  <2> QED
    BY <2>1
<1>6. MinOutHolds'
  BY <1>3, <1>5, PositionAssumption DEF MinOutHolds, Fair
<1> QED
  BY <1>3, <1>6 DEF MinInv

LEMMA MinNext ==
  ASSUME TaxedAlike, SlippageCovers
  PROVE  HeldInv /\ MinInv /\ [PositionNext]_positionVars => MinInv'
<1> SUFFICES ASSUME HeldInv, MinInv, [PositionNext]_positionVars
             PROVE  MinInv'
  OBVIOUS
<1>1. HeldTypes /\ Before /\ Decided
  BY DEF HeldInv
<1>2. entry.at \in {"idle", "sent"} => ~ Open /\ pending = NoExit
  BY <1>1, NoneIs DEF Before, Open
<1>3. CASE Look \/ Sell \/ SellFails \/ Recover
  <2>1. entry' = entry /\ entry.at \notin {"idle", "sent"}
    BY <1>2, <1>3 DEF Look, Sell, SellFails, Recover
  <2>2. entry.at \in {"done", "reverted"}
    BY <1>1, <2>1, TypesAre
  <2> QED
    BY <2>1, <2>2, MinStays
<1>4. CASE Graduate
  <2>1. entry' = entry /\ phase = "ready" /\ phase' = "pool" /\ UNCHANGED <<curve, now>>
    BY <1>4 DEF Graduate
  <2>2. ASSUME NEW s, ReadAs(s)
        PROVE  ReadAs(s)'
    BY <2>1, <2>2 DEF ReadAs, Fair
  <2>3. (\E s : ReadAs(s)) => (\E s : ReadAs(s))'
    BY <2>2
  <2> QED
    BY <2>1, <2>3 DEF MinInv, MinOutHolds
<1>5. CASE PriceMoves \/ UNCHANGED positionVars
  BY <1>5, MinStays DEF PriceMoves, positionVars, marketVars
<1>6. CASE Tick
  <2>1. entry' = entry /\ entry.at # "sent" /\ UNCHANGED <<curve, phase>>
    BY <1>6 DEF Tick
  <2>2. NotBelowLaunch => NotBelowLaunch'
    BY <2>1 DEF NotBelowLaunch
  <2> QED
    BY <2>1, <2>2 DEF MinInv, MinOutHolds
<1> QED
  BY <1>3, <1>4, <1>5, <1>6, MinPrepare, MinLand, MinOthersBuy, MinOthersSell DEF PositionNext

\* curve.rs: "size minTokensOut as if this buy is last in the entry block": the entry is
\* reverted only if others spent more than the sibling quote before it, or if that alone
\* would have left nothing to buy.  So it is for any curve, fees, opening tax, offers and
\* trades where the roundings of the fees do not matter: they favour none of the others'
\* buys over the sibling quote, and the slippage covers two units in the launch's quote.
THEOREM MinimumHolds ==
  ASSUME TaxedAlike, SlippageCovers
  PROVE  PositionSpec => []MinOutHolds
<1>1. HeldInv /\ MinInv /\ [PositionNext]_positionVars => HeldInv' /\ MinInv'
  BY HeldNextInv, MinNext
<1>2. PositionInit => HeldInv /\ MinInv
  BY HeldInitInv, MinInit
<1>3. MinInv => MinOutHolds
  BY DEF MinInv
<1> QED
  BY <1>1, <1>2, <1>3, PTL DEF PositionSpec

================================================================================
