------------------------------ MODULE CanonChain ------------------------------
(***************************************************************************)
(* External: the chain as the observers of Bodkin read it.  A block holds  *)
(* the logs of interest; its hash is its number and the fork it was built  *)
(* on.  A reorg takes back the last blocks, whose logs may be mined again  *)
(* in others, and every block after it is of a new fork.                   *)
(***************************************************************************)
EXTENDS Integers, Sequences, FiniteSets, FiniteSetsExt

CONSTANTS
  Event,       \* logs that may be mined, each named by (transaction hash, log index)
  MaxHeight,   \* bound: blocks, one less for each reorg
  MaxForks,    \* bound: reorgs
  MaxDepth,    \* bound: blocks a reorg takes back
  MaxFailures  \* bound: RPC calls that fail, or are given up

ASSUME ChainBounds ==
  MaxHeight \in Nat /\ MaxForks \in Nat /\ MaxDepth \in Nat /\ MaxFailures \in Nat /\ IsFiniteSet(Event)

VARIABLES
  chain,   \* canonical blocks, the first one being number 1
  forks,   \* reorgs so far
  failures \* failed calls so far

chainVars == <<chain, forks, failures>>

Tip == Len(chain)
Hash(b) == <<b, chain[b].fork>>
NoHash == <<0, 0>>

\* The hash of a block that may have vanished since its number was read.
HashAt(b) == IF b \in 1 .. Tip THEN Hash(b) ELSE NoHash
Canonical(hash) == hash[1] \in 1 .. Tip /\ Hash(hash[1]) = hash

LogsIn(from, to) == UNION {chain[b].logs : b \in {x \in 1 .. Tip : from <= x /\ x <= to}}
Mined == LogsIn(1, Tip)
BlockOf(e) == CHOOSE b \in 1 .. Tip : e \in chain[b].logs

ChainTypeOK ==
  /\ chain \in Seq([fork : Nat, logs : SUBSET Event])
  /\ forks \in 0 .. MaxForks /\ failures \in 0 .. MaxFailures

ChainInit == chain = <<[fork |-> 0, logs |-> {}]>> /\ forks = 0 /\ failures = 0

Extend(logs) ==
  /\ Tip + forks < MaxHeight
  /\ logs \cap Mined = {}
  /\ chain' = Append(chain, [fork |-> forks, logs |-> logs])
  /\ UNCHANGED <<forks, failures>>

\* Block `keep` and those before it stay.
Reorg(keep) ==
  /\ forks < MaxForks /\ Tip - keep <= MaxDepth
  /\ chain' = SubSeq(chain, 1, keep)
  /\ forks' = forks + 1
  /\ UNCHANGED failures

\* A call fails that might have been answered.
CallFails ==
  /\ failures < MaxFailures
  /\ failures' = failures + 1
  /\ UNCHANGED <<chain, forks>>
==============================================================================
