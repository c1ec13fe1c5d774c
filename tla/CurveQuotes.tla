------------------------------ MODULE CurveQuotes ------------------------------
(***************************************************************************)
(* pons/curve.rs and pons/tax.rs: what a bonding curve gives for a buy and *)
(* for a sale, with the code's integer divisions.  A curve is a record of  *)
(* the fields of CurveState that the quotes read.                          *)
(***************************************************************************)
EXTENDS Integers

CONSTANTS
  FeeBps, CreatorTaxBps,
  StartBps, WindowSecs,     \* of the opening tax
  SlippageBps

BPS == 10000

\* The opening tax leaves a buyer 1%, and so do the two others; SnipeRules::validate.
ASSUME QuoteAssumption ==
  /\ {FeeBps, CreatorTaxBps, StartBps, WindowSecs, SlippageBps} \subseteq Nat
  /\ FeeBps + CreatorTaxBps + 100 <= BPS /\ SlippageBps < BPS

Bps(amount, bps) == (amount * bps) \div BPS

Smaller(a, b) == IF a < b THEN a ELSE b

\* snipe_tax_bps: start_bps >> floor(14 elapsed / window)
SnipeTaxBps(elapsed) ==
  IF elapsed >= WindowSecs THEN 0 ELSE StartBps \div 2 ^ ((14 * elapsed) \div WindowSecs)

AmountOut(in, reserve_in, reserve_out) == (in * reserve_out) \div (reserve_in + in)

AmountIn(out, reserve_in, reserve_out) == (out * reserve_in) \div (reserve_out - out) + 1

CeilDiv(a, b) == (a + b - 1) \div b

EffectiveOpeningBps(opening) == Smaller(opening, BPS - FeeBps - CreatorTaxBps - 100)

\* What of a spend reaches the reserves: each fee is rounded by itself.
NetOf(spent, opening) ==
  spent - Bps(spent, FeeBps) - Bps(spent, CreatorTaxBps) - Bps(spent, EffectiveOpeningBps(opening))

\* A buy that would take more than is for sale is clamped, and pays what that costs,
\* grossed up, or all it offered.
QuoteBuy(s, opening, offered) ==
  LET asked   == AmountOut(NetOf(offered, opening), s.quote_reserve, s.token_reserve)
      clamped == asked > s.sellable
      net     == AmountIn(s.sellable, s.quote_reserve, s.token_reserve)
      grossed == CeilDiv(net * BPS, BPS - FeeBps - CreatorTaxBps - EffectiveOpeningBps(opening))
  IN  [tokens_out |-> IF clamped THEN s.sellable ELSE asked,
       spent |-> IF clamped THEN Smaller(grossed, offered) ELSE offered]

GrossSale(s, tokens) == AmountOut(tokens, s.token_reserve, s.quote_reserve)

QuoteSell(s, tokens) ==
  LET gross == GrossSale(s, tokens)
  IN  gross - Bps(gross, FeeBps) - Bps(gross, CreatorTaxBps)

MinOutFromRate(quote) == Bps(quote, BPS - SlippageBps)

\* Mutant: the siblings of the block are left out of the rate.
MinOutAsFirstInBlock(s, opening, offered, sibling) ==
  MinOutFromRate(QuoteBuy(s, opening, offered).tokens_out)

\* The least a buy accepts, as the last in its block: the fees of the siblings' buy
\* are taken in one sum here.
MinOutAsLastInBlock(s, opening, offered, sibling) ==
  LET q     == QuoteBuy(s, opening, sibling)
      taxed == Bps(q.spent, FeeBps + CreatorTaxBps + EffectiveOpeningBps(opening))
      after == [s EXCEPT !.quote_reserve = @ + q.spent - taxed,
                         !.token_reserve = @ - q.tokens_out,
                         !.sellable = @ - q.tokens_out]
  IN  MinOutFromRate(QuoteBuy(after, opening, offered).tokens_out)

\* progress(s) as a percentage, at most 100.
ProgressPct(s, threshold) == Smaller((s.real_quote_reserve * 100) \div threshold, 100)

-----------------------------------------------------------------------------
(* The curve contract, as replay.rs (state_before) follows it by its events *)

Bought(s, opening, offered) ==
  LET q == QuoteBuy(s, opening, offered)
      net == NetOf(q.spent, opening)
  IN  [s EXCEPT !.quote_reserve = @ + net, !.real_quote_reserve = @ + net,
                !.token_reserve = @ - q.tokens_out, !.sellable = @ - q.tokens_out]

Sold(s, tokens) ==
  LET gross == GrossSale(s, tokens)
  IN  [s EXCEPT !.quote_reserve = @ - gross, !.real_quote_reserve = @ - gross,
                !.token_reserve = @ + tokens, !.sellable = @ + tokens]
================================================================================
