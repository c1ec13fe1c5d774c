------------------------------- MODULE TxJournal -------------------------------
(***************************************************************************)
(* trade/journal.rs: the records of the operation journal and the          *)
(* functions over them.  A transaction is named by its place in its        *)
(* operation (a hash identifies exactly one signed transaction); a block   *)
(* by its number and the fork it is on (its hash).                         *)
(***************************************************************************)
EXTENDS Integers, Sequences, FiniteSets, FiniteSetsExt

CONSTANT CanonicalityDepth   \* CANONICALITY_DEPTH, in blocks holding our transactions

ASSUME DepthAssumption == CanonicalityDepth \in Nat

OperationState == {"Pending", "Applied", "Failed"}
TxState == {"Prepared", "Submitted", "Confirmed", "Reverted",
            "Rejected", "Unresolved", "Dropped"}
Step == {"entry", "approval", "sell"}   \* the two approvals and two sells are alike

NoBlock == [number |-> 0, fork |-> 0]

TxRecord ==
  [step : Step, nonce : Nat, state : TxState,
   block : [number : Nat, fork : Nat], gas : Nat]

-----------------------------------------------------------------------------
(* apply_event *)

Staged(step, nonce) ==
  [step |-> step, nonce |-> nonce, state |-> "Prepared", block |-> NoBlock, gas |-> 0]

\* Stage, StageMany
StageMany(op, step, nonces) ==
  [op EXCEPT !.txs = @ \o [i \in DOMAIN nonces |-> Staged(step, nonces[i])]]

\* set_record: the new state replaces block and gas as well.
SetRecord(op, k, state, block, gas) ==
  [op EXCEPT !.txs[k] = [@ EXCEPT !.state = state, !.block = block, !.gas = gas]]

\* Submitted, Rejected, Unresolved
Mark(op, k, state) == SetRecord(op, k, state, NoBlock, 0)

\* Confirmed, Reverted
Resolve(op, k, ok, block) ==
  SetRecord(op, k, IF ok THEN "Confirmed" ELSE "Reverted", block, 1)

\* set_tx_state(Dropped): the block number goes, the gas stays.
Drop(op, k) ==
  LET tx == op.txs[k]
  IN  SetRecord(op, k, "Dropped", [tx.block EXCEPT !.number = 0], tx.gas)

AmbiguousState == {"Prepared", "Submitted", "Unresolved"}
ResolvedState == {"Confirmed", "Reverted"}

AllRejected(op) ==
  [op EXCEPT !.txs = [k \in DOMAIN op.txs |->
     IF op.txs[k].state \in AmbiguousState
     THEN [op.txs[k] EXCEPT !.state = "Rejected"] ELSE op.txs[k]]]

-----------------------------------------------------------------------------
HasAmbiguous(op) == \E k \in DOMAIN op.txs : op.txs[k].state \in AmbiguousState

\* tx_has_effect: approvals move nothing.
HasEffect(tx) == tx.step # "approval"

RequiresRecovery(op) ==
  /\ op.state = "Pending"
  /\ \/ HasAmbiguous(op)
     \/ \E k \in DOMAIN op.txs : op.txs[k].state = "Confirmed" /\ HasEffect(op.txs[k])

OperationGas(op) == MapThenSumSet(LAMBDA k : op.txs[k].gas, DOMAIN op.txs)

InDepth(tx, head) ==
  tx.state \in ResolvedState /\ head <= tx.block.number + CanonicalityDepth

\* recover's filter
NeedsRecovery(op, head) ==
  \/ op.state = "Pending"
  \/ op.state = "Applied" /\ \E k \in DOMAIN op.txs : InDepth(op.txs[k], head)

ResolvedReceiptsChanged(before, after) ==
  \E k \in DOMAIN before.txs :
    /\ before.txs[k].state \in ResolvedState
    /\ \/ after.txs[k].state # before.txs[k].state
       \/ after.txs[k].block # before.txs[k].block

\* same_subject among the pending operations: begin refuses a second one.
PendingSubject(ops, kind, subject) ==
  \E o \in DOMAIN ops :
    ops[o].state = "Pending" /\ ops[o].kind = kind /\ ops[o].subject = subject
=============================================================================
