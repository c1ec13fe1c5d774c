----------------------------- MODULE HeldPosition -----------------------------
(***************************************************************************)
(* One launch from its entry to the last exit: positions.rs (Position),    *)
(* engine.rs (pick_exit) and the value and sell steps of run.rs, on a      *)
(* bonding curve others trade on, and on the pool it graduates to.         *)
(***************************************************************************)
EXTENDS CurveQuotes, FiniteSetsExt, Sequences

CONSTANTS
  NewCurve,          \* the curve at launch
  Threshold,         \* graduation_threshold
  Offers, Sibling,   \* what others offer, and sibling_quote of the entry
  EthPerBuy, Gas,    \* of one entry; of one transaction
  Rungs,             \* the ladder: <<fraction in percent, gain in percent>>
  StaleSec, StaleMinPct,
  TakeProfitPct, StopLossPct, TrailingPct, MaxHoldSec,
  PoolPrice,         \* prices of a token in the pool
  MaxTrades, MaxMarks, MaxTime   \* bounds: trades of others and moves of the price, looks at the position, seconds

\* Part of the supply is not for sale, and the virtual quote is never taken out.
ASSUME PositionAssumption ==
  /\ NewCurve \in [quote_reserve : Nat \ {0}, real_quote_reserve : Nat, token_reserve : Nat, sellable : Nat]
  /\ NewCurve.sellable < NewCurve.token_reserve
  /\ EthPerBuy \in Nat \ {0} /\ Gas \in Nat /\ Threshold \in Nat \ {0}
  /\ Sibling \in Nat /\ Offers \subseteq Nat /\ PoolPrice \subseteq Nat /\ TrailingPct \in Nat
  /\ Rungs \in Seq((1 .. 100) \X Int)

VARIABLES
  curve, phase,      \* "curve", "ready" and, graduated, "pool"
  price,             \* of the pool
  now,
  insider,           \* flow: insider_sold
  position,          \* the Position, "none" before the entry
  entry,             \* the buy on its way: its minimum, the tax it was quoted at, what others bought since
  pending,           \* the exit decided on: reason, tokens, and the value and bag it was decided at
  wallet,            \* what the wallet has gained or lost in all
  reported,          \* the sum of net_realized over the exits, less overhead gas
  peak,              \* value and bag when a token of it was worth most
  used               \* trades and marks so far

marketVars == <<curve, phase, price, now, insider>>
heldVars == <<position, pending, wallet, reported, peak>>
positionVars == <<marketVars, heldVars, entry, used>>

NoEntry == [at |-> "idle", min_out |-> 0, opening |-> 0, since |-> 0]
NoExit == [reason |-> <<"none">>, tokens |-> 0, value |-> 0, bag |-> 0]
NoPosition == [status |-> "none"]

PositionInit ==
  /\ curve = NewCurve /\ phase = "curve" /\ price \in PoolPrice /\ now = 0 /\ insider = FALSE
  /\ position = NoPosition /\ entry = NoEntry /\ pending = NoExit
  /\ wallet = 0 /\ reported = 0 /\ peak = [value |-> 0, bag |-> 1]
  /\ used = [trades |-> 0, marks |-> 0]

Open == position.status = "open"

-----------------------------------------------------------------------------
(* positions.rs *)

Opened(spent, gas, tokens) ==
  [status |-> "open", opened_at |-> now, entry |-> spent, entry_gas |-> gas, basis |-> spent,
   basis_gas |-> gas, overhead |-> 0, overhead_ops |-> {}, tokens |-> tokens, peak |-> spent, exits |-> <<>>]

Scale(value, part, whole) == (value * part) \div whole

\* Mutant: the peak of the whole bag is kept for what is left of it.
ApplyExitPeak(p, tokens, out, gas, reason) ==
  LET sold == Smaller(tokens, p.tokens)
      rest == p.tokens - sold
  IN  [p EXCEPT !.tokens = rest,
                !.basis = @ - Scale(@, sold, p.tokens), !.basis_gas = @ - Scale(@, sold, p.tokens),
                !.status = IF rest = 0 THEN "closed" ELSE @,
                !.exits = Append(@, [reason |-> reason, out |-> out, gas |-> gas])]

\* A sale takes its share of basis, entry gas and peak; the last one takes the rest.
ApplyExit(p, tokens, out, gas, reason) ==
  LET sold == Smaller(tokens, p.tokens)
      rest == p.tokens - sold
  IN  [p EXCEPT !.tokens = rest,
                !.basis = @ - Scale(@, sold, p.tokens), !.basis_gas = @ - Scale(@, sold, p.tokens),
                !.peak = Scale(@, rest, p.tokens),
                !.status = IF rest = 0 THEN "closed" ELSE @,
                !.exits = Append(@, [reason |-> reason, out |-> out, gas |-> gas])]

NetOfExit(before, after, out, gas) ==
  out - ((before.basis - after.basis) + (before.basis_gas - after.basis_gas) + gas)

\* Mutant: the operation is not looked up.
ChargeOverheadAgain(p, operation, gas) ==
  [p EXCEPT !.overhead = @ + gas, !.overhead_ops = @ \cup {operation}]

\* charge_overhead_gas: an operation is charged once.
ChargeOverhead(p, operation, gas) ==
  IF operation \in p.overhead_ops THEN p
  ELSE [p EXCEPT !.overhead = @ + gas, !.overhead_ops = @ \cup {operation}]

Total(exits, field) ==
  LET amount == [i \in DOMAIN exits |-> exits[i][field]]
  IN  MapThenSumSet(LAMBDA i : amount[i], DOMAIN exits)

\* net_realized_pnl_wei: what was taken out, less the basis and the gas released, the
\* gas of the exits and the overhead.
NetRealized(p) ==
  Total(p.exits, "out") - (p.entry - p.basis)
    - (p.entry_gas - p.basis_gas) - (Total(p.exits, "gas") + p.overhead)

-----------------------------------------------------------------------------
(* engine.rs: when to sell, and how much *)

\* ExitLadder::hit: the first rung reached that no earlier exit has as its reason.
RungsHit(p, value) ==
  {i \in DOMAIN Rungs :
     /\ p.basis > 0 /\ (value - p.basis) * 100 >= Rungs[i][2] * p.basis
     /\ \A k \in DOMAIN p.exits : p.exits[k].reason # <<"ladder", Rungs[i][2]>>}

LadderReason(p, value) ==
  LET i == CHOOSE i \in RungsHit(p, value) : \A k \in RungsHit(p, value) : i <= k
  IN  <<Rungs[i][1], <<"ladder", Rungs[i][2]>>>>

\* exit_reason, after the graduation
PoolReason(p, value) ==
  LET high == IF p.peak > value THEN p.peak ELSE value
      gain == (value - p.basis) * 100
  IN  IF p.basis = 0 THEN "none"
      ELSE IF gain >= TakeProfitPct * p.basis THEN "take profit"
      ELSE IF gain <= -(StopLossPct * p.basis) THEN "stop loss"
      ELSE IF high > p.basis /\ (high - value) * 100 >= TrailingPct * high THEN "trailing stop"
      ELSE IF now - p.opened_at >= MaxHoldSec THEN "max hold" ELSE "none"

\* pick_exit, before it: the reason and the percentage of the bag
CurveReason(p, value, progress) ==
  IF insider THEN <<100, <<"insider sold">>>>
  ELSE IF RungsHit(p, value) # {} THEN LadderReason(p, value)
  ELSE IF now - p.opened_at >= StaleSec /\ progress < StaleMinPct THEN <<100, <<"stale">>>>
  ELSE IF progress >= 90 THEN <<100, <<"curve">>>> ELSE <<0, <<"none">>>>

-----------------------------------------------------------------------------
(* The entry *)

\* The curve is read and the minimum computed from it; the buy is on its way.
Prepare ==
  /\ entry.at = "idle" /\ position = NoPosition /\ phase = "curve"
  /\ LET opening == SnipeTaxBps(now)
     IN  /\ QuoteBuy(curve, opening, EthPerBuy).tokens_out > 0
         /\ entry' = [at |-> "sent", opening |-> opening, since |-> 0,
                      min_out |-> MinOutAsLastInBlock(curve, opening, EthPerBuy, Sibling)]
  /\ UNCHANGED <<marketVars, heldVars, used>>

\* It lands in the same second, after what others bought, and gets its minimum or is
\* reverted.
Land ==
  LET q == QuoteBuy(curve, entry.opening, EthPerBuy)
  IN  /\ entry.at = "sent"
      /\ IF phase = "curve" /\ q.tokens_out > 0 /\ q.tokens_out >= entry.min_out
         THEN /\ position' = Opened(q.spent, Gas, q.tokens_out)
              /\ curve' = Bought(curve, entry.opening, EthPerBuy)
              /\ phase' = IF curve'.sellable = 0 THEN "ready" ELSE phase
              /\ wallet' = wallet - q.spent - Gas
              /\ peak' = [value |-> q.spent, bag |-> q.tokens_out]
              /\ entry' = [entry EXCEPT !.at = "done"]
         ELSE /\ entry' = [entry EXCEPT !.at = "reverted"] /\ wallet' = wallet - Gas
              /\ UNCHANGED <<position, curve, phase, peak>>
      /\ UNCHANGED <<price, now, insider, pending, reported, used>>

-----------------------------------------------------------------------------
(* The manage loop: a look at the position, then the sale it decided on *)

\* value_now; nothing between the end of the curve and the pool.
Value(tokens) == IF phase = "pool" THEN tokens * price ELSE QuoteSell(curve, tokens)

Look ==
  LET value == Value(position.tokens)
      act   == IF phase = "pool"
               THEN <<IF PoolReason(position, value) = "none" THEN 0 ELSE 100, <<PoolReason(position, value)>>>>
               ELSE CurveReason(position, value, ProgressPct(curve, Threshold))
      sold  == Scale(position.tokens, act[1], 100)
  IN  /\ Open /\ pending = NoExit /\ phase # "ready" /\ used.marks < MaxMarks
      /\ position' = [position EXCEPT !.peak = IF value > @ THEN value ELSE @]
      /\ peak' = IF value * peak.bag > peak.value * position.tokens
                 THEN [value |-> value, bag |-> position.tokens] ELSE peak
      /\ pending' = IF sold = 0 THEN NoExit
                    ELSE [reason |-> act[2], tokens |-> sold, value |-> value, bag |-> position.tokens]
      /\ used' = [used EXCEPT !.marks = @ + 1]
      /\ UNCHANGED <<marketVars, entry, wallet, reported>>

\* sell_anywhere, at the quote of now, and apply_exit; the reason is kept with it.
Sell ==
  LET out  == Value(pending.tokens)
      sold == ApplyExit(position, pending.tokens, out, Gas, pending.reason)
  IN  /\ pending # NoExit /\ phase # "ready" /\ out > 0
      /\ position' = sold /\ pending' = NoExit
      /\ wallet' = wallet + out - Gas
      /\ reported' = reported + NetOfExit(position, sold, out, Gas)
      /\ curve' = IF phase = "curve" THEN Sold(curve, pending.tokens) ELSE curve
      /\ UNCHANGED <<phase, price, now, insider, entry, peak, used>>

\* The sale fails on chain: its gas is charged, and recovery may charge it again.
SellFails ==
  /\ pending # NoExit /\ position.overhead_ops = {}
  /\ position' = ChargeOverhead(position, 1, Gas) /\ pending' = NoExit
  /\ wallet' = wallet - Gas /\ reported' = reported - Gas
  /\ UNCHANGED <<marketVars, entry, peak, used>>

Recover ==
  /\ Open /\ position.overhead_ops # {}
  /\ position' = ChargeOverhead(position, 1, Gas)
  /\ UNCHANGED <<marketVars, pending, wallet, reported, peak, entry, used>>

-----------------------------------------------------------------------------
(* The others *)

Trade == used.trades < MaxTrades /\ used' = [used EXCEPT !.trades = @ + 1]

OthersBuy ==
  \E offered \in Offers :
    /\ Trade /\ phase = "curve"
    /\ curve' = Bought(curve, SnipeTaxBps(now), offered)
    /\ phase' = IF curve'.sellable = 0 THEN "ready" ELSE phase
    /\ entry' = IF entry.at = "sent" THEN [entry EXCEPT !.since = @ + offered] ELSE entry
    /\ UNCHANGED <<price, now, insider, heldVars>>

\* Others sell what they hold, the deployer's wallets perhaps among them.
OthersSell ==
  LET theirs == NewCurve.token_reserve - curve.token_reserve - IF Open THEN position.tokens ELSE 0
  IN  /\ Trade /\ phase = "curve" /\ theirs > 0
      /\ \E tokens \in {1, theirs} : curve' = Sold(curve, tokens)
      /\ insider' \in {insider, TRUE}
      /\ UNCHANGED <<phase, price, now, heldVars, entry>>

Graduate ==
  /\ phase = "ready" /\ phase' = "pool"
  /\ UNCHANGED <<curve, price, now, insider, heldVars, entry, used>>

PriceMoves ==
  /\ Trade /\ phase = "pool" /\ price' \in PoolPrice \ {price}
  /\ UNCHANGED <<curve, phase, now, insider, heldVars, entry>>

\* A buy on its way lands in the second it was sent in.
Tick ==
  /\ now < MaxTime /\ entry.at # "sent" /\ now' = now + 1
  /\ UNCHANGED <<curve, phase, price, insider, heldVars, entry, used>>

PositionNext ==
  \/ Prepare \/ Land \/ Look \/ Sell \/ SellFails \/ Recover
  \/ OthersBuy \/ OthersSell \/ Graduate \/ PriceMoves \/ Tick

PositionSpec == PositionInit /\ [][PositionNext]_positionVars

-----------------------------------------------------------------------------
(* Properties *)

\* positions.rs: whatever was sold in parts, and however gas was charged, the profit
\* of the position and the sum of what its exits reported are what the wallet gained,
\* but for what is still held at cost.
BooksBalance ==
  position.status \in {"open", "closed"} =>
    /\ NetRealized(position) = wallet + position.basis + position.basis_gas
    /\ NetRealized(position) = reported
    /\ position.status = "closed" => position.basis = 0 /\ position.basis_gas = 0

\* positions.rs (exit_reason): a partial exit on the curve is no fall of the price.  A
\* trailing stop sells only if a token has lost TrailingPct since it was worth most.
TrailingNeedsFall ==
  pending.reason = <<"trailing stop">> =>
    pending.value * peak.bag * 100 <= (100 - TrailingPct) * peak.value * pending.bag

\* curve.rs: "size minTokensOut as if this buy is last in the entry block": the entry
\* is reverted only if others spent more than the sibling quote before it, or if that
\* alone would have left nothing to buy.
MinOutHolds == entry.at = "reverted" /\ entry.min_out > 0 => entry.since > Sibling

\* What it needs for every curve, where the roundings of several buys could pass those
\* of one.  The fees of what others offer take no less of it, for its size, than those
\* of the sibling quote: so they do where they are whole, as for multiples of BPS, and
\* where nobody offers less than the sibling quote.
TaxedAlike ==
  \A second \in 0 .. WindowSecs, offered \in Offers :
    offered <= Sibling =>
      NetOf(offered, SnipeTaxBps(second)) * Sibling <= NetOf(Sibling, SnipeTaxBps(second)) * offered

\* The slippage covers the two units by which one sum of the fees may pass the three.
SlippageCovers == 2 * (BPS - SlippageBps) <= SlippageBps * NewCurve.quote_reserve
================================================================================
