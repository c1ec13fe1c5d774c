------------------------------ MODULE WalletChain ------------------------------
(***************************************************************************)
(* External: the chain, the sequencer and the RPC view of one wallet, as   *)
(* the code under src/ uses them.  Every mined transaction of the wallet   *)
(* consumes one nonce, so the chain is the sequence of what the wallet has *)
(* had mined.  A delivered transaction is in flight, then pooled, then     *)
(* mined in nonce order; it can be lost before any of these.  A reorg      *)
(* takes back the last transaction.                                        *)
(*                                                                         *)
(* `signed` is what a transaction hash determines: its nonce and calldata. *)
(***************************************************************************)
EXTENDS Integers, Sequences, FiniteSets, FiniteSetsExt

CONSTANTS
  Token,          \* tokens that may be launched
  Lot,            \* tokens one buyOnce fill delivers
  MaxReorgs       \* bound: reorgs in a behaviour

ASSUME ChainAssumption == Lot \in Nat \ {0} /\ MaxReorgs \in Nat

VARIABLES
  signed,   \* hash -> [nonce, kind, token, qty]
  mined,    \* the wallet's transactions on the canonical chain
  flight,   \* delivered, not yet in the pool
  pool,     \* pending at the sequencer
  forks     \* reorgs so far; tells a block from its replacement

chainVars == <<signed, mined, flight, pool, forks>>

Kind == {"buy", "approve", "sell"}

ChainTypeOK ==
  /\ \A h \in DOMAIN signed :
       signed[h] \in [nonce : Nat, kind : Kind, token : Token, qty : Nat]
  /\ \A i \in DOMAIN mined :
       mined[i] \in [tx : DOMAIN signed, ok : BOOLEAN, fork : Nat]
  /\ flight \subseteq DOMAIN signed
  /\ pool \subseteq DOMAIN signed
  /\ forks \in Nat

ChainInit ==
  /\ signed = <<>>
  /\ mined = <<>>
  /\ flight = {}
  /\ pool = {}
  /\ forks = 0

Nonce(h) == signed[h].nonce
Landed(h) == \E i \in DOMAIN mined : mined[i].tx = h
Height(h) == CHOOSE i \in DOMAIN mined : mined[i].tx = h

\* eth_getTransactionReceipt: status and block of a mined transaction.
Status(h) == mined[Height(h)].ok
Block(h) == [number |-> Height(h), fork |-> mined[Height(h)].fork]

\* eth_getTransactionCount, latest and pending.  The pending count stops at the
\* first gap: a pooled transaction behind a missing nonce is not counted.
LatestCount == Len(mined)
PendingCount ==
  Min({n \in LatestCount .. LatestCount + Cardinality(pool) :
         \A h \in pool : Nonce(h) # n})

\* balanceOf(wallet)
Effect(m) ==
  CASE m.ok /\ signed[m.tx].kind = "buy" -> Lot
    [] m.ok /\ signed[m.tx].kind = "sell" -> - signed[m.tx].qty
    [] OTHER -> 0

Balance(t) ==
  MapThenSumSet(LAMBDA i : Effect(mined[i]),
                {i \in DOMAIN mined : signed[mined[i].tx].token = t})

\* What calls allow: buyOnce reverts unless balanceOf(recipient) == 0, a sell
\* needs the tokens; anything may revert (slippage, tax, a closed curve).
MayReturn(h, ok) ==
  ok => CASE signed[h].kind = "buy" -> Balance(signed[h].token) = 0
          [] signed[h].kind = "sell" -> signed[h].qty <= Balance(signed[h].token)
          [] OTHER -> TRUE

-----------------------------------------------------------------------------
Arrive(h) ==
  /\ h \in flight
  /\ flight' = flight \ {h}
  /\ pool' = IF Nonce(h) >= LatestCount /\ \A g \in pool : Nonce(g) # Nonce(h)
             THEN pool \cup {h} ELSE pool
  /\ UNCHANGED <<signed, mined, forks>>

Lose(h) ==
  /\ h \in flight
  /\ flight' = flight \ {h}
  /\ UNCHANGED <<signed, mined, pool, forks>>

Mine(h, ok) ==
  /\ h \in pool
  /\ Nonce(h) = LatestCount
  /\ MayReturn(h, ok)
  /\ mined' = Append(mined, [tx |-> h, ok |-> ok, fork |-> forks])
  /\ pool' = pool \ {h}
  /\ UNCHANGED <<signed, flight, forks>>

\* The sequencer drops a pooled transaction, and with it what waits behind it.
Evict(h) ==
  /\ h \in pool
  /\ pool' = {g \in pool : Nonce(g) < Nonce(h)}
  /\ UNCHANGED <<signed, mined, flight, forks>>

\* The last transaction is taken back: pending again, or gone.
Reorg ==
  /\ mined # <<>>
  /\ forks < MaxReorgs
  /\ mined' = SubSeq(mined, 1, Len(mined) - 1)
  /\ pool' \in {pool \cup {mined[Len(mined)].tx}, {}}
  /\ forks' = forks + 1
  /\ UNCHANGED <<signed, flight>>

Delivery == \E h \in flight : Arrive(h) \/ Lose(h)
Inclusion == \E h \in pool : Evict(h) \/ \E ok \in BOOLEAN : Mine(h, ok)

ChainNext == Delivery \/ Inclusion \/ Reorg

\* The network's promise recover's `Dropped` rests on: a minute after it was
\* sent, a transaction has been mined, lost, or is counted as pending.
Accounted(h) == h \notin flight /\ (h \in pool => Nonce(h) < PendingCount)
=============================================================================
