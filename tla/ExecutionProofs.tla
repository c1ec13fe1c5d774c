---------------------------- MODULE ExecutionProofs ----------------------------
(***************************************************************************)
(* Theorems about the execution owner and its recovery, for any number of  *)
(* tokens, attempts, operations, faults and reorgs.                        *)
(*                                                                         *)
(* The invariant says what the owner of the permit holds at each place of  *)
(* its program, and whose each exit that waits is.                         *)
(***************************************************************************)
EXTENDS ExecutionRecovery, SumLemmas, TLAPS

PosId == Nat \X {"live", "recover"}
OpRecord ==
  [kind : {"Entry", "Exit"}, subject : Token \cup PosId, state : OperationState,
   txs : Seq(TxRecord)]
SignedTx == [nonce : Nat, kind : Kind, token : Token, qty : Nat]
BlockId == [number : Nat, fork : Nat]
Answered == {"accepted", "refused", "error"}
Answer == [ans : Answered \cup {"none", "confirmed", "reverted", "unresolved"}, block : BlockId]
Job == [pos : PosId, qty : Nat]
Hash == Nat \X Nat
Recovery ==
  [todo : SUBSET Nat, k : Nat \ {0}, snap : Seq(OpRecord), latest : Nat, pending : Nat,
   booked : BOOLEAN, blocked : BOOLEAN]

JournalTyped ==
  /\ ops \in Seq(OpRecord)
  /\ \A o \in DOMAIN ops :
       ops[o].subject \in IF ops[o].kind = "Entry" THEN Token ELSE PosId

ChainTyped ==
  /\ signed \in [DOMAIN signed -> SignedTx] /\ IsFiniteSet(DOMAIN signed)
  /\ mined \in Seq([tx : DOMAIN signed, ok : BOOLEAN, fork : Nat])
  /\ flight \subseteq DOMAIN signed /\ pool \subseteq DOMAIN signed
  /\ forks \in Nat

\* Every transaction of the journal has been signed.
Signed == \A o \in DOMAIN ops : \A k \in DOMAIN ops[o].txs : <<o, k>> \in DOMAIN signed

\* An operation opens one position at most: its first id component is the operation.
Books(ps) ==
  /\ \A p \in ps : p \in Position /\ p.id[1] = p.entry[1] /\ p.id[1] \in DOMAIN ops
  /\ \A p, q \in ps : p.id[1] = q.id[1] => p = q

Scalars ==
  /\ nonce \in Nat /\ stop \in BOOLEAN /\ bad \in BOOLEAN /\ faults \in Nat
  /\ aged \in 0 .. Len(ops) /\ pc \in PC
  /\ rec \in Recovery /\ rec.todo \subseteq DOMAIN ops

-----------------------------------------------------------------------------
(* The owner of the permit *)

Quiet == Boot \cup {"idle"}
EntryPlace == {"sign", "armed", "answers", "confirm", "refresh", "settle", "flush", "apply"}
ExitPlace ==
  {"trade", "send", "answer", "confirm", "book", "unwind", "flush", "charged", "apply", "fail"}
InEntry == pc \notin Quiet /\ Op.kind = "Entry"
InExit == pc \notin Quiet /\ Op.kind = "Exit"

OwnerOK ==
  /\ pc \in Quiet => cur = 0 /\ job = NoJob /\ out = <<>>
  /\ pc \notin Quiet => cur \in DOMAIN ops
  /\ InEntry => pc \in EntryPlace /\ job = NoJob
  /\ InExit => pc \in ExitPlace /\ job \in Job /\ job.pos = Op.subject

\* What has been sent, and what has come back for it.
AnswersOK ==
  /\ pc \notin Quiet => out \in [DOMAIN out -> Answer] /\ DOMAIN out \subseteq DOMAIN Op.txs
  /\ pc = "sign" => Op.txs = <<>>
  /\ pc \in {"armed", "answers"} =>
       /\ DOMAIN out = DOMAIN Op.txs /\ Op.txs # <<>>
       /\ Op.txs[Last].state = "Prepared"
  /\ pc \in {"send", "answer"} \/ (pc = "confirm" /\ InExit) => Op.txs # <<>> /\ DOMAIN out = {Last}
  /\ pc \in {"answers", "answer"} => \A k \in DOMAIN out : out[k].ans \in Answered

\* An entry opens its position once.
OpensOnce ==
  InEntry /\ pc \notin {"flush", "apply"} => \A p \in positions : p.id[1] # cur

-----------------------------------------------------------------------------
(* The exits and the positions they are of *)

Holds(j) == \E p \in positions : p.id = j.pos /\ j.qty <= p.held

Selling == {"trade", "send", "answer", "confirm", "book"}

Claims ==
  /\ closing \subseteq {p.id : p \in positions}
  /\ \A j \in queue : j \in Job /\ j.pos \in closing /\ Holds(j)
  /\ \A i, j \in queue : i.pos = j.pos => i = j
  /\ InExit => job.pos \in closing /\ \A j \in queue : j.pos # job.pos
  /\ InExit /\ pc \in Selling => Holds(job)
  /\ pc \in Boot => closing = {} /\ queue = {}

ExecInv ==
  /\ JournalTyped /\ ChainTyped /\ Signed /\ Books(positions) /\ Books(saved) /\ Scalars
  /\ OwnerOK /\ AnswersOK /\ OpensOnce /\ Claims

-----------------------------------------------------------------------------
(* Operators *)

\* A set of naturals has a least element, and Min is it.
LEMMA MinIs ==
  ASSUME NEW S \in SUBSET Nat, S # {}
  PROVE  Min(S) \in S /\ \A y \in S : Min(S) <= y
<1> DEFINE G == {n \in Nat : (\E x \in S : x <= n) => \E x \in S : \A y \in S : x <= y}
<1>1. 0 \in G
  OBVIOUS
<1>2. ASSUME NEW n \in Nat, n \in G
      PROVE  n + 1 \in G
  <2>1. CASE \E x \in S : x <= n
    BY <1>2, <2>1
  <2>2. CASE ~ \E x \in S : x <= n
    <3>1. \A y \in S : n + 1 <= y
      BY <2>2
    <3> QED
      BY <3>1
  <2> QED
    BY <2>1, <2>2
<1>3. Nat \subseteq G
  <2> HIDE DEF G
  <2> QED
    BY <1>1, <1>2, NatInduct
<1>4. PICK x \in S : x \in Nat
  OBVIOUS
<1>5. x \in G
  BY <1>3, <1>4
<1>6. \E z \in S : \A y \in S : z <= y
  BY <1>4, <1>5
<1> QED
  BY <1>6 DEF Min

Gas(op) == [k \in DOMAIN op.txs |-> op.txs[k].gas]

\* The gas of an operation is a sum of a function on its transactions.
LEMMA GasSum ==
  ASSUME NEW op
  PROVE  OperationGas(op) = SumOf(Gas(op), DOMAIN op.txs)
<1> DEFINE S == DOMAIN op.txs
           L(g) == [s \in SUBSET S |->
                      IF s = {} THEN 0
                      ELSE op.txs[CHOOSE x \in s : TRUE].gas + g[s \ {CHOOSE x \in s : TRUE}]]
           Q(g) == [s \in SUBSET S |->
                      IF s = {} THEN 0
                      ELSE Gas(op)[CHOOSE x \in s : TRUE] + g[s \ {CHOOSE x \in s : TRUE}]]
<1>1. ASSUME NEW g
      PROVE  L(g) = Q(g)
  <2>1. \A s \in SUBSET S : s # {} =>
          Gas(op)[CHOOSE x \in s : TRUE] = op.txs[CHOOSE x \in s : TRUE].gas
    BY DEF Gas
  <2> QED
    BY <2>1
<1>2. (CHOOSE g : g = L(g)) = (CHOOSE g : g = Q(g))
  <2> HIDE DEF L, Q
  <2>1. \A g : g = L(g) <=> g = Q(g)
    BY <1>1
  <2> QED
    BY <2>1
<1>3. OperationGas(op) = (CHOOSE g : g = L(g))[S]
  BY DEF OperationGas, MapThenSumSet, MapThenFoldSet
<1>4. SumOf(Gas(op), S) = (CHOOSE g : g = Q(g))[S]
  BY DEF SumOf, SumFcn, Chosen
<1> QED
  BY <1>2, <1>3, <1>4

LEMMA GasType ==
  ASSUME NEW op \in OpRecord
  PROVE  OperationGas(op) \in Nat
<1>1. op.txs \in Seq(TxRecord)
  BY DEF OpRecord
<1>2. DOMAIN op.txs = 1 .. Len(op.txs) /\ Len(op.txs) \in Nat
  BY <1>1
<1>3. \A k \in DOMAIN op.txs : op.txs[k] \in TxRecord
  BY <1>1
<1>4. IsFiniteSet(DOMAIN op.txs)
  BY <1>2, FS_Interval
<1>5. \A k \in DOMAIN op.txs : Gas(op)[k] \in Nat
  BY <1>3 DEF Gas, TxRecord
<1> QED
  BY <1>4, <1>5, GasSum, SumNat

\* One operation of the journal replaced by one of the same kind and subject.
LEMMA PutKeeps ==
  ASSUME JournalTyped, NEW o \in DOMAIN ops, NEW op \in OpRecord, Put(o, op),
         op.kind = ops[o].kind, op.subject = ops[o].subject
  PROVE  /\ JournalTyped' /\ DOMAIN ops' = DOMAIN ops /\ Len(ops') = Len(ops)
         /\ ops'[o] = op /\ \A p \in DOMAIN ops \ {o} : ops'[p] = ops[p]
<1>1. ops \in Seq(OpRecord) /\ ops' = [ops EXCEPT ![o] = op]
  BY DEF JournalTyped, Put
<1>2. ops' \in Seq(OpRecord) /\ DOMAIN ops' = DOMAIN ops /\ Len(ops') = Len(ops) /\ ops'[o] = op
      /\ \A p \in DOMAIN ops \ {o} : ops'[p] = ops[p]
  BY <1>1
<1> QED
  BY <1>2 DEF JournalTyped

\* The same operation, with other transactions or in another state.
Same(new, op) ==
  new \in OpRecord /\ new.kind = op.kind /\ new.subject = op.subject

LEMMA WithTxs ==
  ASSUME NEW op \in OpRecord, NEW txs \in Seq(TxRecord), NEW new, new = [op EXCEPT !.txs = txs]
  PROVE  Same(new, op) /\ new.state = op.state /\ new.txs = txs
BY DEF OpRecord, Same

LEMMA WithStateIs ==
  ASSUME NEW op \in OpRecord, NEW state \in OperationState
  PROVE  /\ Same(WithState(op, state), op) /\ WithState(op, state).state = state
         /\ WithState(op, state).txs = op.txs
BY DEF OpRecord, Same, WithState

\* The same operation with another k-th transaction, of the same step and nonce.
Rewritten(new, op, k) ==
  /\ Same(new, op) /\ new.state = op.state
  /\ DOMAIN new.txs = DOMAIN op.txs /\ Len(new.txs) = Len(op.txs)
  /\ \A i \in DOMAIN op.txs \ {k} : new.txs[i] = op.txs[i]
  /\ new.txs[k].step = op.txs[k].step /\ new.txs[k].nonce = op.txs[k].nonce

LEMMA WithTx ==
  ASSUME NEW op \in OpRecord, NEW k \in DOMAIN op.txs, NEW tx \in TxRecord,
         tx.step = op.txs[k].step, tx.nonce = op.txs[k].nonce,
         NEW new, new = [op EXCEPT !.txs = [op.txs EXCEPT ![k] = tx]]
  PROVE  Rewritten(new, op, k) /\ new.txs[k] = tx
<1>1. op.txs \in Seq(TxRecord)
  BY DEF OpRecord
<1> DEFINE txs == [op.txs EXCEPT ![k] = tx]
<1>2. txs \in Seq(TxRecord) /\ DOMAIN txs = DOMAIN op.txs /\ Len(txs) = Len(op.txs)
      /\ txs[k] = tx /\ \A i \in DOMAIN op.txs \ {k} : txs[i] = op.txs[i]
  BY <1>1
<1> HIDE DEF txs
<1>3. new = [op EXCEPT !.txs = txs]
  BY DEF txs
<1>4. Same(new, op) /\ new.state = op.state /\ new.txs = txs
  BY <1>2, <1>3, WithTxs
<1> QED
  BY <1>2, <1>4 DEF Rewritten

LEMMA SetRecordIs ==
  ASSUME NEW op \in OpRecord, NEW k \in DOMAIN op.txs, NEW state \in TxState,
         NEW block \in BlockId, NEW gas \in Nat, NEW new, new = SetRecord(op, k, state, block, gas)
  PROVE  Rewritten(new, op, k) /\ new.txs[k].state = state /\ new.txs[k].block = block
         /\ new.txs[k].gas = gas
<1> DEFINE tx == [op.txs[k] EXCEPT !.state = state, !.block = block, !.gas = gas]
<1>0. op.txs \in Seq(TxRecord)
  BY DEF OpRecord
<1>1. op.txs[k] \in TxRecord
  BY <1>0
<1>2. tx \in TxRecord /\ tx.state = state /\ tx.step = op.txs[k].step /\ tx.nonce = op.txs[k].nonce
      /\ tx.block = block /\ tx.gas = gas
  BY <1>1 DEF TxRecord, BlockId
<1>3. new = [op EXCEPT !.txs = [op.txs EXCEPT ![k] = tx]]
  BY DEF SetRecord, OpRecord
<1> HIDE DEF tx
<1>4. Rewritten(new, op, k) /\ new.txs[k] = tx
  BY <1>2, <1>3, WithTx
<1> QED
  BY <1>2, <1>4

Marked(new, op, k, state) ==
  Rewritten(new, op, k) /\ new.txs[k].state = state /\ new.txs[k].gas = 0

LEMMA MarkIs ==
  ASSUME NEW op \in OpRecord, NEW k \in DOMAIN op.txs, NEW state \in TxState,
         NEW new, new = Mark(op, k, state)
  PROVE  Marked(new, op, k, state)
<1>1. NoBlock \in BlockId /\ 0 \in Nat
  BY DEF NoBlock, BlockId
<1>2. new = SetRecord(op, k, state, NoBlock, 0)
  BY DEF Mark
<1> QED
  BY <1>1, <1>2, SetRecordIs DEF Marked

LEMMA ResolveIs ==
  ASSUME NEW op \in OpRecord, NEW k \in DOMAIN op.txs, NEW ok \in BOOLEAN, NEW block \in BlockId,
         NEW new, new = Resolve(op, k, ok, block)
  PROVE  Rewritten(new, op, k) /\ new.txs[k].state = (IF ok THEN "Confirmed" ELSE "Reverted")
         /\ new.txs[k].block = block /\ new.txs[k].gas = 1
<1> DEFINE state == IF ok THEN "Confirmed" ELSE "Reverted"
<1>1. state \in TxState /\ 1 \in Nat
  BY DEF TxState
<1>2. new = SetRecord(op, k, state, block, 1)
  BY DEF Resolve
<1> HIDE DEF state
<1>3. Rewritten(new, op, k) /\ new.txs[k].state = state /\ new.txs[k].block = block /\ new.txs[k].gas = 1
  BY <1>1, <1>2, SetRecordIs
<1> QED
  BY <1>3 DEF state

LEMMA DropIs ==
  ASSUME NEW op \in OpRecord, NEW k \in DOMAIN op.txs, NEW new, new = Drop(op, k)
  PROVE  Rewritten(new, op, k) /\ new.txs[k].state = "Dropped" /\ new.txs[k].gas = op.txs[k].gas
<1> DEFINE block == [op.txs[k].block EXCEPT !.number = 0]
           gas == op.txs[k].gas
<1>0. op.txs \in Seq(TxRecord)
  BY DEF OpRecord
<1>1. op.txs[k] \in TxRecord
  BY <1>0
<1>2. block \in BlockId /\ gas \in Nat /\ "Dropped" \in TxState
  BY <1>1 DEF TxRecord, BlockId, TxState
<1>3. new = SetRecord(op, k, "Dropped", block, gas)
  BY DEF Drop
<1> HIDE DEF block, gas
<1>4. Rewritten(new, op, k) /\ new.txs[k].state = "Dropped" /\ new.txs[k].gas = gas
  BY <1>2, <1>3, SetRecordIs
<1> QED
  BY <1>4 DEF gas

LEMMA AllRejectedIs ==
  ASSUME NEW op \in OpRecord
  PROVE  LET new == AllRejected(op) IN
         /\ Same(new, op) /\ new.state = op.state
         /\ DOMAIN new.txs = DOMAIN op.txs
         /\ \A k \in DOMAIN op.txs :
              /\ new.txs[k].state = IF op.txs[k].state \in AmbiguousState THEN "Rejected" ELSE op.txs[k].state
              /\ new.txs[k].step = op.txs[k].step /\ new.txs[k].nonce = op.txs[k].nonce
              /\ new.txs[k].gas = op.txs[k].gas
<1> DEFINE txs == [k \in DOMAIN op.txs |->
                     IF op.txs[k].state \in AmbiguousState
                     THEN [op.txs[k] EXCEPT !.state = "Rejected"] ELSE op.txs[k]]
<1>0. op.txs \in Seq(TxRecord) /\ DOMAIN op.txs = 1 .. Len(op.txs) /\ Len(op.txs) \in Nat
  BY DEF OpRecord
<1>1. \A k \in DOMAIN op.txs : op.txs[k] \in TxRecord
  BY <1>0
<1>2. \A k \in DOMAIN op.txs : txs[k] \in TxRecord /\ txs[k].step = op.txs[k].step
        /\ txs[k].nonce = op.txs[k].nonce /\ txs[k].gas = op.txs[k].gas
        /\ txs[k].state = IF op.txs[k].state \in AmbiguousState THEN "Rejected" ELSE op.txs[k].state
  BY <1>1 DEF TxRecord, TxState
<1>3. txs \in Seq(TxRecord)
  <2>1. txs \in [1 .. Len(op.txs) -> TxRecord]
    BY <1>0, <1>2
  <2> HIDE DEF txs
  <2> QED
    BY <1>0, <2>1
<1>4. AllRejected(op) = [op EXCEPT !.txs = txs]
  BY DEF AllRejected
<1>5. DOMAIN txs = DOMAIN op.txs
  OBVIOUS
<1> HIDE DEF txs
<1>6. Same(AllRejected(op), op) /\ AllRejected(op).state = op.state /\ AllRejected(op).txs = txs
  BY <1>3, <1>4, WithTxs
<1> QED
  BY <1>2, <1>5, <1>6

LEMMA ConcatIs ==
  ASSUME NEW S, NEW a \in Seq(S), NEW b \in Seq(S)
  PROVE  /\ a \o b \in Seq(S) /\ Len(a \o b) = Len(a) + Len(b)
         /\ DOMAIN (a \o b) = 1 .. Len(a) + Len(b)
         /\ DOMAIN a = 1 .. Len(a) /\ Len(a) \in Nat
         /\ \A k \in DOMAIN a : (a \o b)[k] = a[k]
         /\ \A i \in 1 .. Len(b) : (a \o b)[Len(a) + i] = b[i]
OBVIOUS

\* The n nonces from base on.
Nonces(base, n) == [i \in 1 .. n |-> base + i - 1]

\* The same operation with n more transactions, of consecutive nonces.
Extended(new, op, step, n, base) ==
  /\ Same(new, op) /\ new.state = op.state
  /\ Len(new.txs) = Len(op.txs) + n /\ DOMAIN new.txs = 1 .. Len(op.txs) + n
  /\ DOMAIN op.txs = 1 .. Len(op.txs) /\ Len(op.txs) \in Nat
  /\ \A k \in DOMAIN op.txs : new.txs[k] = op.txs[k]
  /\ \A i \in 1 .. n : new.txs[Len(op.txs) + i] = Staged(step, base + i - 1)

LEMMA StagedIs ==
  ASSUME NEW op \in OpRecord, NEW step \in Step, NEW n \in Nat, NEW base \in Nat, NEW new,
         new = StageMany(op, step, Nonces(base, n))
  PROVE  Extended(new, op, step, n, base)
<1> DEFINE nonces == [i \in 1 .. n |-> base + i - 1]
           more == [i \in DOMAIN nonces |-> Staged(step, nonces[i])]
<1>0. op.txs \in Seq(TxRecord) /\ DOMAIN op.txs = 1 .. Len(op.txs) /\ Len(op.txs) \in Nat
  BY DEF OpRecord
<1>1. DOMAIN more = 1 .. n /\ \A i \in 1 .. n : more[i] = Staged(step, base + i - 1)
  OBVIOUS
<1>2. \A i \in 1 .. n : Staged(step, base + i - 1) \in TxRecord
  BY DEF Staged, TxRecord, NoBlock, TxState
<1>3. more \in Seq(TxRecord) /\ Len(more) = n
  <2>1. more \in [1 .. n -> TxRecord]
    BY <1>1, <1>2
  <2> HIDE DEF more
  <2> QED
    BY <2>1
<1>4. new = [op EXCEPT !.txs = op.txs \o more]
  BY DEF StageMany, OpRecord, Nonces
<1> HIDE DEF more, nonces
<1>5. /\ op.txs \o more \in Seq(TxRecord) /\ Len(op.txs \o more) = Len(op.txs) + n
      /\ DOMAIN (op.txs \o more) = 1 .. Len(op.txs) + n
      /\ \A k \in DOMAIN op.txs : (op.txs \o more)[k] = op.txs[k]
      /\ \A i \in 1 .. n : (op.txs \o more)[Len(op.txs) + i] = more[i]
  <2> DEFINE old == op.txs
  <2>1. old \in Seq(TxRecord)
    BY <1>0
  <2> HIDE DEF old
  <2>2. /\ old \o more \in Seq(TxRecord) /\ Len(old \o more) = Len(old) + n
        /\ DOMAIN (old \o more) = 1 .. Len(old) + n
        /\ \A k \in DOMAIN old : (old \o more)[k] = old[k]
        /\ \A i \in 1 .. n : (old \o more)[Len(old) + i] = more[i]
    <3>0. more \in Seq(TxRecord)
      BY <1>3
    <3>1. /\ old \o more \in Seq(TxRecord) /\ Len(old \o more) = Len(old) + Len(more)
          /\ DOMAIN (old \o more) = 1 .. Len(old) + Len(more)
          /\ \A k \in DOMAIN old : (old \o more)[k] = old[k]
          /\ \A i \in 1 .. Len(more) : (old \o more)[Len(old) + i] = more[i]
      BY <3>0, <2>1, ConcatIs
    <3> QED
      BY <1>3, <3>1
  <2> QED
    BY <2>2 DEF old
<1>6. Same(new, op) /\ new.state = op.state /\ new.txs = op.txs \o more
  <2> DEFINE all == op.txs \o more
  <2>1. all \in Seq(TxRecord) /\ new = [op EXCEPT !.txs = all]
    BY <1>4, <1>5
  <2> HIDE DEF all
  <2>2. Same(new, op) /\ new.state = op.state /\ new.txs = all
    BY <2>1, WithTxs
  <2> QED
    BY <2>2 DEF all
<1> QED
  BY <1>0, <1>1, <1>5, <1>6 DEF Extended

-----------------------------------------------------------------------------
(* The chain *)

LEMMA ElementIs ==
  ASSUME NEW S, NEW seq \in Seq(S), NEW i \in DOMAIN seq
  PROVE  seq[i] \in S /\ i \in Nat /\ i \in 1 .. Len(seq) /\ Len(seq) \in Nat
OBVIOUS

LEMMA MinedIs ==
  ASSUME ChainTyped, NEW h, Landed(h)
  PROVE  h \in DOMAIN signed /\ Status(h) \in BOOLEAN /\ Block(h) \in BlockId
<1>1. mined \in Seq([tx : DOMAIN signed, ok : BOOLEAN, fork : Nat])
  BY DEF ChainTyped
<1>2. Height(h) \in DOMAIN mined /\ mined[Height(h)].tx = h
  BY DEF Landed, Height
<1>3. mined[Height(h)] \in [tx : DOMAIN signed, ok : BOOLEAN, fork : Nat] /\ Height(h) \in Nat
  BY <1>1, <1>2, ElementIs
<1> QED
  BY <1>2, <1>3 DEF Status, Block, BlockId

\* A pool of n transactions leaves one of n + 1 nonces free; the pending count is
\* the first that is.
LEMMA PendingCountNat ==
  ASSUME ChainTyped
  PROVE  /\ LatestCount \in Nat /\ PendingCount \in Nat /\ LatestCount <= PendingCount
         /\ \A h \in pool : Nonce(h) \in Nat /\ Nonce(h) # PendingCount
         /\ \A n \in Nat : LatestCount <= n /\ n < PendingCount => \E g \in pool : Nonce(g) = n
<1> DEFINE n == Cardinality(pool)
           I == LatestCount .. LatestCount + n
           Free == {i \in I : \A h \in pool : Nonce(h) # i}
<1>1. IsFiniteSet(pool) /\ n \in Nat /\ LatestCount \in Nat /\ \A h \in pool : Nonce(h) \in Nat
  <2>1. IsFiniteSet(pool)
    BY FS_Subset DEF ChainTyped
  <2>2. \A h \in pool : signed[h] \in SignedTx
    BY DEF ChainTyped
  <2>3. LatestCount \in Nat
    BY DEF ChainTyped, LatestCount
  <2> QED
    BY <2>1, <2>2, <2>3, FS_CardinalityType DEF SignedTx, Nonce
<1>2. IsFiniteSet(I) /\ Cardinality(I) = n + 1
  <2> DEFINE a == LatestCount
             b == LatestCount + n
  <2>1. a \in Int /\ b \in Int /\ a <= b /\ b - a + 1 = n + 1
    BY <1>1
  <2>2. I = a .. b
    OBVIOUS
  <2> HIDE DEF a, b, I
  <2>3. IsFiniteSet(a .. b) /\ Cardinality(a .. b) = (IF a > b THEN 0 ELSE b - a + 1)
    BY <2>1, FS_Interval
  <2> QED
    BY <2>1, <2>2, <2>3
<1>3. Free # {}
  <2> SUFFICES ASSUME Free = {}
               PROVE  FALSE
    OBVIOUS
  <2> DEFINE Used == {Nonce(h) : h \in pool}
  <2>1. I \subseteq Used
    OBVIOUS
  <2>2. IsFiniteSet(Used) /\ Cardinality(Used) <= n
    <3> DEFINE f == [h \in pool |-> Nonce(h)]
    <3>1. f \in Surjection(pool, Used)
      BY DEF Surjection
    <3> QED
      BY <1>1, <3>1, FS_Surjection
  <2>3. Cardinality(I) <= Cardinality(Used) /\ Cardinality(Used) \in Nat
    BY <2>1, <2>2, FS_Subset, FS_CardinalityType
  <2> QED
    BY <1>1, <1>2, <2>2, <2>3
<1>4. Free \in SUBSET Nat /\ PendingCount = Min(Free)
  BY <1>1 DEF PendingCount
<1>5. PendingCount \in Free /\ \A i \in Free : PendingCount <= i
  <2> HIDE DEF Free
  <2> QED
    BY <1>3, <1>4, MinIs
<1>6. ASSUME NEW i \in Nat, LatestCount <= i, i < PendingCount
      PROVE  \E g \in pool : Nonce(g) = i
  <2>1. i \notin Free
    <3> HIDE DEF Free
    <3> QED
      BY <1>1, <1>4, <1>5, <1>6
  <2>2. i \in I
    BY <1>1, <1>5, <1>6
  <2> QED
    BY <2>1, <2>2
<1> QED
  BY <1>1, <1>5, <1>6

-----------------------------------------------------------------------------
(* What most steps keep *)

LEMMA AppendKeeps ==
  ASSUME JournalTyped, NEW op \in OpRecord, ops' = Append(ops, op),
         op.subject \in IF op.kind = "Entry" THEN Token ELSE PosId
  PROVE  /\ JournalTyped' /\ Len(ops) \in Nat /\ Len(ops') = Len(ops) + 1
         /\ DOMAIN ops = 1 .. Len(ops) /\ DOMAIN ops' = 1 .. Len(ops) + 1
         /\ ops'[Len(ops) + 1] = op /\ \A o \in DOMAIN ops : ops'[o] = ops[o]
<1>1. ops \in Seq(OpRecord)
  BY DEF JournalTyped
<1>2. /\ ops' \in Seq(OpRecord) /\ Len(ops) \in Nat /\ Len(ops') = Len(ops) + 1
      /\ DOMAIN ops = 1 .. Len(ops) /\ DOMAIN ops' = 1 .. Len(ops) + 1
      /\ ops'[Len(ops) + 1] = op /\ \A o \in DOMAIN ops : ops'[o] = ops[o]
  BY <1>1
<1> QED
  BY <1>2 DEF JournalTyped

LEMMA OpIs ==
  ASSUME JournalTyped, NEW o \in DOMAIN ops
  PROVE  /\ ops[o] \in OpRecord /\ ops[o].txs \in Seq(TxRecord) /\ o \in Nat /\ Len(ops[o].txs) \in Nat
         /\ DOMAIN ops[o].txs = 1 .. Len(ops[o].txs)
         /\ \A k \in DOMAIN ops[o].txs : ops[o].txs[k] \in TxRecord
         /\ ops[o].kind \in {"Entry", "Exit"}
         /\ o \in 1 .. Len(ops) /\ Len(ops) \in Nat /\ DOMAIN ops = 1 .. Len(ops)
<1>1. ops \in Seq(OpRecord)
  BY DEF JournalTyped
<1>2. ops[o] \in OpRecord /\ o \in Nat /\ o \in 1 .. Len(ops) /\ Len(ops) \in Nat /\ DOMAIN ops = 1 .. Len(ops)
  BY <1>1
<1>3. ops[o].txs \in Seq(TxRecord) /\ ops[o].kind \in {"Entry", "Exit"}
  BY <1>2 DEF OpRecord
<1> QED
  BY <1>2, <1>3

\* A journal in which no operation is taken back.
LEMMA BooksKeep ==
  ASSUME Books(positions), Books(saved), DOMAIN ops \subseteq DOMAIN ops',
         positions' = positions \/ positions' = saved, saved' = saved \/ saved' = positions
  PROVE  Books(positions)' /\ Books(saved)'
BY DEF Books

\* A position replaced by itself with other amounts.
LEMMA UpdateKeeps ==
  ASSUME Books(positions), NEW p \in positions, NEW q \in Position, q.id = p.id, q.entry = p.entry,
         Update(p, q), DOMAIN ops \subseteq DOMAIN ops'
  PROVE  /\ Books(positions)' /\ q \in positions'
         /\ \A r \in positions' : r = q \/ (r \in positions /\ r # p /\ r.id[1] # p.id[1])
         /\ \A r \in positions : r # p => r \in positions'
BY DEF Books, Update

LEMMA PosIs ==
  ASSUME Books(positions), NEW p \in positions
  PROVE  Pos(p.id) = p /\ Known(p.id)
<1>1. \A q \in positions : q.id = p.id => q = p
  BY DEF Books
<1> QED
  BY <1>1 DEF Pos, Known

LEMMA KnownIs ==
  ASSUME Books(positions), NEW id, Known(id)
  PROVE  Pos(id) \in positions /\ Pos(id).id = id /\ Pos(id) \in Position
<1>1. PICK p \in positions : p.id = id
  BY DEF Known
<1>2. Pos(id) = p
  BY <1>1, PosIs
<1> QED
  BY <1>1, <1>2 DEF Books

\* A step of the chain, of the clock or of the disk alone.
LEMMA AsideKeeps ==
  ASSUME ExecInv, UNCHANGED <<ops, signed, positions, pc, cur, job, out, closing, queue>>,
         ChainTyped', Scalars', saved' = saved \/ saved' = positions
  PROVE  ExecInv'
<1>1. JournalTyped' /\ Signed' /\ Books(positions)' /\ Books(saved)'
  <2>1. JournalTyped' /\ Signed'
    BY DEF ExecInv, JournalTyped, Signed
  <2> QED
    BY <2>1, BooksKeep DEF ExecInv
<1>2. OwnerOK' /\ AnswersOK' /\ OpensOnce' /\ Claims'
  BY DEF ExecInv, OwnerOK, AnswersOK, OpensOnce, Claims, InEntry, InExit, Op, Last, Holds
<1> QED
  BY <1>1, <1>2 DEF ExecInv

\* The owner returns and drops its permit.
LEMMA ReturnKeeps ==
  ASSUME ExecInv, NEW keep \in BOOLEAN, Return(keep), pc \notin Quiet,
         positions' = positions, queue' = queue
  PROVE  OwnerOK' /\ AnswersOK' /\ OpensOnce' /\ Claims' /\ bad' \in BOOLEAN /\ pc' \in PC
<1>1. /\ pc' = "idle" /\ cur' = 0 /\ job' = NoJob /\ out' = <<>> /\ bad' = FALSE
      /\ closing' \subseteq closing /\ \A id \in closing : id # job.pos => id \in closing'
  BY DEF Return
<1>2. pc' \in Quiet /\ pc' \notin Boot /\ pc' \in PC
  BY <1>1 DEF Quiet, Boot, PC
<1>3. \A j \in queue : j.pos # job.pos
  <2>1. CASE Op.kind = "Exit"
    BY <2>1 DEF ExecInv, Claims, InExit
  <2>2. CASE Op.kind # "Exit"
    <3>1. Op.kind = "Entry"
      BY <2>2, OpIs DEF ExecInv, OwnerOK, Op
    <3>2. job.pos = <<0, "none">>
      BY <3>1 DEF ExecInv, OwnerOK, InEntry, NoJob
    <3>3. \A j \in queue : j.pos \in PosId
      BY DEF ExecInv, Claims, Job
    <3> QED
      BY <3>2, <3>3 DEF PosId
  <2> QED
    BY <2>1, <2>2
<1>4. OwnerOK' /\ AnswersOK' /\ OpensOnce'
  BY <1>1, <1>2 DEF OwnerOK, AnswersOK, OpensOnce, InEntry, InExit, Quiet, Boot
<1>5. Claims'
  BY <1>1, <1>2, <1>3 DEF ExecInv, Claims, InExit, Holds
<1> QED
  BY <1>1, <1>2, <1>4, <1>5

-----------------------------------------------------------------------------
(* The owner's steps, by what they may touch *)

\* At most one operation is rewritten, and it stays the operation it was.
Rewrites(o) ==
  \/ ops' = ops
  \/ \E op : /\ Same(op, ops[o]) /\ Put(o, op)
             /\ \A k \in DOMAIN op.txs : <<o, k>> \in DOMAIN signed'

LEMMA PutRewrites ==
  ASSUME Signed, NEW o \in DOMAIN ops, NEW op, Same(op, ops[o]), DOMAIN op.txs = DOMAIN ops[o].txs,
         Put(o, op), DOMAIN signed \subseteq DOMAIN signed'
  PROVE  Rewrites(o)
BY DEF Signed, Rewrites

LEMMA RewriteKeeps ==
  ASSUME JournalTyped, Signed, NEW o \in DOMAIN ops, Rewrites(o), DOMAIN signed \subseteq DOMAIN signed'
  PROVE  /\ JournalTyped' /\ Signed' /\ DOMAIN ops' = DOMAIN ops /\ Len(ops') = Len(ops)
         /\ \A p \in DOMAIN ops :
              ops'[p].kind = ops[p].kind /\ ops'[p].subject = ops[p].subject
         /\ \A p \in DOMAIN ops \ {o} : ops'[p] = ops[p]
<1>1. CASE ops' = ops
  BY <1>1 DEF JournalTyped, Signed
<1>2. ASSUME NEW op, Same(op, ops[o]), Put(o, op), \A k \in DOMAIN op.txs : <<o, k>> \in DOMAIN signed'
      PROVE  JournalTyped' /\ Signed' /\ DOMAIN ops' = DOMAIN ops /\ Len(ops') = Len(ops)
             /\ ops'[o].kind = ops[o].kind /\ ops'[o].subject = ops[o].subject
             /\ \A p \in DOMAIN ops \ {o} : ops'[p] = ops[p]
  <2>1. /\ JournalTyped' /\ DOMAIN ops' = DOMAIN ops /\ Len(ops') = Len(ops)
        /\ ops'[o] = op /\ \A p \in DOMAIN ops \ {o} : ops'[p] = ops[p]
    BY <1>2, PutKeeps DEF Same
  <2>2. Signed'
    BY <1>2, <2>1 DEF Signed
  <2> QED
    BY <1>2, <2>1, <2>2 DEF Same
<1> QED
  BY <1>1, <1>2 DEF Rewrites

LEMMA ScalarsKeep ==
  ASSUME Scalars, UNCHANGED <<rec, aged>>, DOMAIN ops' = DOMAIN ops, Len(ops') = Len(ops),
         nonce' \in Nat, stop' \in BOOLEAN, bad' \in BOOLEAN, faults' \in Nat, pc' \in PC
  PROVE  Scalars'
BY DEF Scalars

\* A step of the owner that keeps the permit.
LEMMA WorkKeeps ==
  ASSUME ExecInv, pc \notin Quiet, pc' \notin Quiet,
         UNCHANGED <<positions, closing, queue, cur, job, rec, aged>>,
         saved' = saved \/ saved' = positions, Rewrites(cur),
         Op.kind = "Entry" => pc' \in EntryPlace /\ (pc \in {"flush", "apply"} => pc' \in {"flush", "apply"}),
         Op.kind = "Exit" => pc' \in ExitPlace /\ (pc' \in Selling => pc \in Selling),
         nonce' \in Nat, stop' \in BOOLEAN, bad' \in BOOLEAN, faults' \in Nat,
         ChainTyped', DOMAIN signed \subseteq DOMAIN signed', AnswersOK'
  PROVE  ExecInv'
<1>1. cur \in DOMAIN ops /\ JournalTyped /\ Signed /\ Op.kind \in {"Entry", "Exit"}
  BY OpIs DEF ExecInv, OwnerOK, Op
<1>2. /\ JournalTyped' /\ Signed' /\ DOMAIN ops' = DOMAIN ops /\ Len(ops') = Len(ops)
      /\ ops'[cur].kind = ops[cur].kind /\ ops'[cur].subject = ops[cur].subject
  BY <1>1, RewriteKeeps
<1>3. Books(positions)' /\ Books(saved)'
  BY <1>2, BooksKeep DEF ExecInv
<1>4. pc' \in PC
  BY <1>1 DEF EntryPlace, ExitPlace, PC
<1>5. Scalars'
  BY <1>2, <1>4, ScalarsKeep DEF ExecInv
<1>6. InEntry' <=> InEntry
  BY <1>1, <1>2 DEF InEntry, Op
<1>7. InExit' <=> InExit
  BY <1>1, <1>2 DEF InExit, Op
<1>8. OwnerOK'
  BY <1>1, <1>2, <1>6, <1>7 DEF ExecInv, OwnerOK, Op, InEntry, InExit
<1>9. OpensOnce'
  BY <1>6 DEF ExecInv, OpensOnce, InEntry
<1>10. Claims'
  <2>1. pc' \notin Boot
    BY DEF Quiet
  <2>2. InExit' => InExit /\ (pc' \in Selling => pc \in Selling)
    BY <1>7 DEF InExit
  <2> QED
    BY <2>1, <2>2 DEF ExecInv, Claims, Holds
<1> QED
  BY <1>2, <1>3, <1>5, <1>8, <1>9, <1>10 DEF ExecInv

\* A step of the owner that gives the permit back.
LEMMA DoneKeeps ==
  ASSUME ExecInv, pc \notin Quiet, NEW keep \in BOOLEAN, Return(keep),
         UNCHANGED <<positions, saved, queue, rec, aged>>, Rewrites(cur),
         nonce' \in Nat, stop' \in BOOLEAN, faults' \in Nat, ChainTyped', signed' = signed
  PROVE  ExecInv'
<1>1. cur \in DOMAIN ops /\ JournalTyped /\ Signed
  BY DEF ExecInv, OwnerOK
<1>2. JournalTyped' /\ Signed' /\ DOMAIN ops' = DOMAIN ops /\ Len(ops') = Len(ops)
  BY <1>1, RewriteKeeps
<1>3. Books(positions)' /\ Books(saved)'
  BY <1>2, BooksKeep DEF ExecInv
<1>4. OwnerOK' /\ AnswersOK' /\ OpensOnce' /\ Claims' /\ bad' \in BOOLEAN /\ pc' \in PC
  BY ReturnKeeps
<1>5. Scalars'
  BY <1>2, <1>4, ScalarsKeep DEF ExecInv
<1> QED
  BY <1>2, <1>3, <1>4, <1>5 DEF ExecInv

\* A step of the startup.
LEMMA BootKeeps ==
  ASSUME ExecInv, pc \in Boot, UNCHANGED <<pc, cur, job, out, closing, queue, aged, nonce, stop, bad>>,
         UNCHANGED chainVars,
         NEW o \in DOMAIN ops, Rewrites(o), Books(positions)', Books(saved)',
         rec' \in Recovery, rec'.todo \subseteq rec.todo, faults' \in Nat
  PROVE  ExecInv'
<1>1. JournalTyped' /\ Signed' /\ DOMAIN ops' = DOMAIN ops /\ Len(ops') = Len(ops)
  BY RewriteKeeps DEF ExecInv, chainVars
<1>2. ChainTyped' /\ Scalars'
  BY <1>1 DEF ExecInv, ChainTyped, Scalars, chainVars
<1>3. OwnerOK' /\ AnswersOK' /\ OpensOnce' /\ Claims'
  <2>1. pc \in Quiet /\ pc' \in Quiet /\ pc' \in Boot
    BY DEF Quiet
  <2>2. ~ InEntry' /\ ~ InExit' /\ pc' \notin {"sign", "armed", "answers", "send", "answer", "confirm"}
    BY <2>1 DEF InEntry, InExit, Quiet, Boot
  <2>3. closing' = {} /\ queue' = {}
    BY DEF ExecInv, Claims
  <2> QED
    BY <2>1, <2>2, <2>3 DEF ExecInv, OwnerOK, AnswersOK, OpensOnce, Claims
<1> QED
  BY <1>1, <1>2, <1>3 DEF ExecInv

\* The process ends.
LEMMA EndKeeps ==
  ASSUME ExecInv, ProcessEnds(saved) \/ ProcessEnds(positions), UNCHANGED <<ops, aged, chainVars>>,
         faults' \in Nat
  PROVE  ExecInv'
<1>1. JournalTyped' /\ ChainTyped' /\ Signed'
  BY DEF ExecInv, JournalTyped, ChainTyped, Signed, chainVars
<1>2. Books(positions)' /\ Books(saved)'
  BY DEF ExecInv, ProcessEnds, Books
<1>3. NoRec \in Recovery /\ NoRec.todo = {} /\ "down" \in PC /\ 0 \in Nat
  <2>1. <<>> \in Seq(OpRecord)
    OBVIOUS
  <2> QED
    BY <2>1 DEF NoRec, Recovery, PC
<1>4. Scalars'
  BY <1>3 DEF ExecInv, Scalars, ProcessEnds
<1>5. OwnerOK' /\ AnswersOK' /\ OpensOnce' /\ Claims'
  <2>1. pc' = "down" /\ cur' = 0 /\ job' = NoJob /\ out' = <<>> /\ closing' = {} /\ queue' = {}
    BY DEF ProcessEnds
  <2>2. pc' \in Quiet
    BY <2>1 DEF Quiet, Boot
  <2> QED
    BY <2>1, <2>2 DEF OwnerOK, AnswersOK, OpensOnce, Claims, InEntry, InExit
<1> QED
  BY <1>1, <1>2, <1>4, <1>5 DEF ExecInv

-----------------------------------------------------------------------------
(* The session around the owner *)

LEMMA BackstageKeeps ==
  ASSUME ExecInv, CanonicalCheck \/ StopRequest \/ FlushIfDue \/ Age
  PROVE  ExecInv'
<1>1. ChainTyped'
  BY DEF ExecInv, ChainTyped, CanonicalCheck, StopRequest, FlushIfDue, Age, chainVars
<1>2. Scalars'
  <2>1. CASE CanonicalCheck \/ StopRequest
    BY <2>1 DEF ExecInv, Scalars, CanonicalCheck, StopRequest, Halt
  <2>2. CASE FlushIfDue
    BY <2>2 DEF ExecInv, Scalars, FlushIfDue, memVars
  <2>3. CASE Age
    <3>1. Len(ops) \in Nat
      BY DEF ExecInv, JournalTyped
    <3> QED
      BY <2>3, <3>1 DEF ExecInv, Scalars, Age, memVars
  <2> QED
    BY <2>1, <2>2, <2>3
<1>3. UNCHANGED <<ops, signed, positions, pc, cur, job, out, closing, queue>> /\ (saved' = saved \/ saved' = positions)
  BY DEF CanonicalCheck, StopRequest, FlushIfDue, Age, memVars, chainVars
<1> QED
  BY <1>1, <1>2, <1>3, AsideKeeps

LEMMA ChainKeeps ==
  ASSUME ChainTyped, ChainNext
  PROVE  ChainTyped' /\ signed' = signed
<1> DEFINE T == [tx : DOMAIN signed, ok : BOOLEAN, fork : Nat]
<1>1. ASSUME NEW h \in flight, Arrive(h) \/ Lose(h)
      PROVE  ChainTyped' /\ signed' = signed
  BY <1>1 DEF ChainTyped, Arrive, Lose
<1>2. ASSUME NEW h \in pool, Evict(h)
      PROVE  ChainTyped' /\ signed' = signed
  BY <1>2 DEF ChainTyped, Evict
<1>3. ASSUME NEW h \in pool, NEW ok \in BOOLEAN, Mine(h, ok)
      PROVE  ChainTyped' /\ signed' = signed
  <2>1. [tx |-> h, ok |-> ok, fork |-> forks] \in T
    BY DEF ChainTyped
  <2>2. mined' \in Seq(T)
    BY <1>3, <2>1 DEF ChainTyped, Mine
  <2> QED
    BY <1>3, <2>2 DEF ChainTyped, Mine
<1>4. CASE Reorg
  <2>1. mined \in Seq(T) /\ mined # <<>>
    BY <1>4 DEF ChainTyped, Reorg
  <2>2. mined' \in Seq(T) /\ mined[Len(mined)].tx \in DOMAIN signed
    <3> HIDE DEF T
    <3>1. Len(mined) \in DOMAIN mined /\ mined[Len(mined)] \in T
      BY <2>1
    <3>2. mined' \in Seq(T)
      BY <1>4, <2>1 DEF Reorg
    <3> QED
      BY <3>1, <3>2 DEF T
  <2> QED
    BY <1>4, <2>2 DEF ChainTyped, Reorg
<1> QED
  BY <1>1, <1>2, <1>3, <1>4 DEF ChainNext, Delivery, Inclusion

LEMMA EnvironmentKeeps ==
  ASSUME ExecInv, Environment
  PROVE  ExecInv'
<1>1. ChainTyped' /\ signed' = signed
  BY ChainKeeps DEF ExecInv, Environment
<1>2. Scalars' /\ UNCHANGED <<ops, positions, pc, cur, job, out, closing, queue>> /\ saved' = saved
  BY DEF ExecInv, Scalars, Environment, processVars, memVars
<1> QED
  BY <1>1, <1>2, AsideKeeps

LEMMA EndsKeep ==
  ASSUME ExecInv, Shutdown \/ Crash \/ BootFails
  PROVE  ExecInv'
<1>1. faults \in Nat
  BY DEF ExecInv, Scalars
<1>2. faults' \in Nat
  BY <1>1 DEF Shutdown, Crash, BootFails, Fault
<1>3. (ProcessEnds(saved) \/ ProcessEnds(positions)) /\ UNCHANGED <<ops, aged, chainVars>>
  BY DEF Shutdown, Crash, BootFails
<1> QED
  BY <1>2, <1>3, EndKeeps

-----------------------------------------------------------------------------
(* Startup *)

LEMMA RestartKeeps ==
  ASSUME ExecInv, Restart
  PROVE  ExecInv'
<1>1. JournalTyped' /\ ChainTyped' /\ Signed' /\ Books(positions)' /\ Books(saved)'
  BY DEF ExecInv, JournalTyped, ChainTyped, Signed, Books, Restart, chainVars
<1>2. rec' \in Recovery /\ rec'.todo \subseteq DOMAIN ops
  <2>1. LatestCount \in Nat /\ PendingCount \in Nat /\ ops \in Seq(OpRecord)
    BY PendingCountNat DEF ExecInv, JournalTyped
  <2>2. DOMAIN ops \subseteq Nat
    BY <2>1
  <2>3. {o \in DOMAIN ops : NeedsRecovery(ops[o], LatestCount)} \subseteq DOMAIN ops
    OBVIOUS
  <2> DEFINE todo == {o \in DOMAIN ops : NeedsRecovery(ops[o], LatestCount)}
  <2>4. rec' = [NoRec EXCEPT !.todo = todo, !.snap = ops, !.latest = LatestCount, !.pending = PendingCount]
    BY DEF Restart
  <2>5. rec' = [todo |-> todo, k |-> 1, snap |-> ops, latest |-> LatestCount,
                pending |-> PendingCount, booked |-> FALSE, blocked |-> FALSE]
    <3> HIDE DEF todo
    <3> QED
      BY <2>4 DEF NoRec
  <2>6. todo \in SUBSET Nat /\ todo \subseteq DOMAIN ops
    BY <2>2, <2>3
  <2> HIDE DEF todo
  <2> QED
    BY <2>1, <2>5, <2>6 DEF Recovery
<1>3. Scalars'
  BY <1>2 DEF ExecInv, Scalars, Restart, PC
<1>4. pc \in Boot /\ pc' \in Boot /\ pc' = "boot"
  BY DEF Restart, Boot
<1>5. OwnerOK' /\ AnswersOK' /\ OpensOnce' /\ Claims'
  BY <1>4 DEF ExecInv, OwnerOK, AnswersOK, OpensOnce, Claims, InEntry, InExit, Quiet, Boot, Restart
<1> QED
  BY <1>1, <1>3, <1>5 DEF ExecInv

LEMMA StartKeeps ==
  ASSUME ExecInv, Start
  PROVE  ExecInv'
<1>1. JournalTyped' /\ ChainTyped' /\ Signed' /\ Books(positions)' /\ Books(saved)'
  BY DEF ExecInv, JournalTyped, ChainTyped, Signed, Books, Start, chainVars
<1>2. NoRec \in Recovery /\ NoRec.todo = {}
  <2>1. <<>> \in Seq(OpRecord)
    OBVIOUS
  <2> QED
    BY <2>1 DEF NoRec, Recovery
<1>3. Scalars'
  <2>1. PendingCount \in Nat
    BY PendingCountNat DEF ExecInv
  <2> QED
    BY <1>2, <2>1 DEF ExecInv, Scalars, Start, PC
<1>4. pc \in Quiet /\ pc \in Boot /\ pc' \in Quiet /\ pc' = "idle"
  BY DEF Start, Boot, Quiet
<1>5. OwnerOK' /\ AnswersOK' /\ OpensOnce' /\ Claims'
  BY <1>4 DEF ExecInv, OwnerOK, AnswersOK, OpensOnce, Claims, InEntry, InExit, Quiet, Boot, Start, Holds
<1> QED
  BY <1>1, <1>3, <1>5 DEF ExecInv

\* What recovery has in hand.
LEMMA TargetIs ==
  ASSUME ExecInv, Recovering
  PROVE  /\ Target \in DOMAIN ops /\ Target \in Nat /\ Current \in OpRecord /\ Target \in rec.todo
         /\ pc \in Boot /\ rec \in Recovery /\ rec.k \in Nat \ {0}
         /\ DOMAIN Current.txs = 1 .. Len(Current.txs) /\ Len(Current.txs) \in Nat
<1>1. rec \in Recovery /\ rec.todo \subseteq DOMAIN ops /\ rec.todo # {} /\ pc = "boot"
  BY DEF ExecInv, Scalars, Recovering
<1>2. rec.todo \in SUBSET Nat /\ rec.k \in Nat \ {0}
  BY <1>1 DEF Recovery
<1>3. Target \in rec.todo
  BY <1>1, <1>2, MinIs DEF Target
<1>4. Target \in DOMAIN ops
  BY <1>1, <1>3
<1>5. Current \in OpRecord /\ DOMAIN Current.txs = 1 .. Len(Current.txs) /\ Len(Current.txs) \in Nat /\ Target \in Nat
  BY <1>4, OpIs DEF ExecInv, Current
<1> QED
  BY <1>1, <1>2, <1>3, <1>4, <1>5 DEF Boot

LEMMA NextTargetIs ==
  ASSUME rec \in Recovery, NEW blocked \in BOOLEAN, NextTarget(blocked)
  PROVE  rec' \in Recovery /\ rec'.todo = rec.todo \ {Target}
<1> DEFINE todo == rec.todo \ {Target}
           block == rec.blocked \/ blocked
<1>1. rec' = [rec EXCEPT !.todo = todo, !.k = 1, !.booked = FALSE, !.blocked = block]
  BY DEF NextTarget
<1>2. todo \in SUBSET Nat /\ block \in BOOLEAN
  BY DEF Recovery
<1> HIDE DEF todo, block
<1>3. rec' = [todo |-> todo, k |-> 1, snap |-> rec.snap, latest |-> rec.latest,
              pending |-> rec.pending, booked |-> FALSE, blocked |-> block]
  BY <1>1 DEF Recovery
<1>4. rec.snap \in Seq(OpRecord) /\ rec.latest \in Nat /\ rec.pending \in Nat /\ 1 \in Nat \ {0}
  BY DEF Recovery
<1>5. rec' \in Recovery
  BY <1>2, <1>3, <1>4 DEF Recovery
<1> QED
  BY <1>3, <1>5 DEF todo

LEMMA RecSteps ==
  ASSUME rec \in Recovery
  PROVE  /\ LET new == [rec EXCEPT !.k = @ + 1] IN new \in Recovery /\ new.todo = rec.todo
         /\ LET new == [rec EXCEPT !.booked = TRUE] IN new \in Recovery /\ new.todo = rec.todo
<1> DEFINE k == rec.k + 1
<1>1. k \in Nat \ {0} /\ TRUE \in BOOLEAN
  BY DEF Recovery
<1>2. [rec EXCEPT !.k = @ + 1] = [rec EXCEPT !.k = k]
  OBVIOUS
<1> HIDE DEF k
<1>3. [rec EXCEPT !.k = k] \in Recovery /\ [rec EXCEPT !.k = k].todo = rec.todo
  BY <1>1 DEF Recovery
<1>4. [rec EXCEPT !.booked = TRUE] \in Recovery /\ [rec EXCEPT !.booked = TRUE].todo = rec.todo
  BY <1>1 DEF Recovery
<1> QED
  BY <1>2, <1>3, <1>4

\* What a refresh makes of a transaction without a receipt.
LEMMA MissingIs ==
  ASSUME NEW op \in OpRecord, NEW k \in DOMAIN op.txs, NEW new,
         new = Drop(op, k) \/ new = Mark(op, k, "Unresolved")
  PROVE  Rewritten(new, op, k)
<1>1. "Unresolved" \in TxState
  BY DEF TxState
<1> QED
  BY <1>1, DropIs, MarkIs DEF Marked

LEMMA RefreshTxKeeps ==
  ASSUME ExecInv, RefreshTx
  PROVE  ExecInv'
<1> DEFINE k == rec.k
           h == <<Target, k>>
           missing == IF Droppable(Target, Current.txs[k]) THEN Drop(Current, k)
                                                           ELSE Mark(Current, k, "Unresolved")
<1>0. Recovering /\ ~ Refreshed
  BY DEF RefreshTx
<1>1. /\ Target \in DOMAIN ops /\ Current \in OpRecord /\ Current = ops[Target]
      /\ pc \in Boot /\ rec \in Recovery /\ k \in DOMAIN Current.txs
  <2>1. /\ Target \in DOMAIN ops /\ Current \in OpRecord /\ pc \in Boot /\ rec \in Recovery
        /\ k \in Nat \ {0} /\ DOMAIN Current.txs = 1 .. Len(Current.txs) /\ Len(Current.txs) \in Nat
    BY <1>0, TargetIs
  <2>2. ~ k > Len(Current.txs)
    BY <1>0 DEF Refreshed
  <2> QED
    BY <2>1, <2>2 DEF Current
<1>2. Rewrites(Target)
  <2>0. signed' = signed
    BY DEF RefreshTx, chainVars
  <2>1. CASE Put(Target, missing)
    <3>1. Same(missing, Current) /\ DOMAIN missing.txs = DOMAIN Current.txs
      BY <1>1, MissingIs DEF Rewritten
    <3> QED
      BY <1>1, <2>0, <2>1, <3>1, PutRewrites DEF ExecInv
  <2>2. CASE Landed(h) /\ Put(Target, Resolve(Current, k, Status(h), Block(h)))
    <3>1. Status(h) \in BOOLEAN /\ Block(h) \in BlockId
      BY <2>2, MinedIs DEF ExecInv
    <3> DEFINE new == Resolve(Current, k, Status(h), Block(h))
    <3>2. Same(new, Current) /\ DOMAIN new.txs = DOMAIN Current.txs
      BY <1>1, <3>1, ResolveIs DEF Rewritten
    <3> HIDE DEF new
    <3>3. Put(Target, new)
      BY <2>2 DEF new
    <3> QED
      BY <1>1, <2>0, <3>2, <3>3, PutRewrites DEF ExecInv
  <2>3. CASE UNCHANGED ops
    BY <2>3 DEF Rewrites
  <2> QED
    BY <2>1, <2>2, <2>3 DEF RefreshTx
<1>3. rec' \in Recovery /\ rec'.todo \subseteq rec.todo
  BY <1>1, RecSteps DEF RefreshTx
<1>4. faults' \in Nat
  BY DEF RefreshTx, Fault, ExecInv, Scalars
<1>5. Books(positions)' /\ Books(saved)'
  <2>1. DOMAIN ops' = DOMAIN ops
    BY <1>1, <1>2, RewriteKeeps DEF ExecInv, RefreshTx, chainVars
  <2> QED
    BY <2>1, BooksKeep DEF ExecInv, RefreshTx
<1> QED
  BY <1>1, <1>2, <1>3, <1>4, <1>5, BootKeeps DEF RefreshTx

LEMMA VerdictKeeps ==
  ASSUME ExecInv, Recovering, NEW blocked \in BOOLEAN, NEW state \in OperationState,
         Verdict(blocked, state)
  PROVE  ExecInv'
<1>1. /\ Target \in DOMAIN ops /\ Current \in OpRecord /\ Current = ops[Target]
      /\ pc \in Boot /\ rec \in Recovery
  BY TargetIs DEF Current
<1>2. Rewrites(Target)
  <2> DEFINE new == WithState(Current, state)
  <2>1. Same(new, Current) /\ new.txs = Current.txs
    BY <1>1, WithStateIs
  <2>2. UNCHANGED ops \/ Put(Target, new)
    BY DEF Verdict
  <2>3. signed' = signed
    BY DEF Verdict, chainVars
  <2> HIDE DEF new
  <2> QED
    BY <1>1, <2>1, <2>2, <2>3, PutRewrites DEF Rewrites, ExecInv
<1>3. rec' \in Recovery /\ rec'.todo \subseteq rec.todo
  BY <1>1, NextTargetIs DEF Verdict
<1>4. faults' \in Nat
  BY DEF Verdict, ExecInv, Scalars
<1>5. Books(positions)' /\ Books(saved)'
  <2>1. DOMAIN ops' = DOMAIN ops
    BY <1>1, <1>2, RewriteKeeps DEF ExecInv, Verdict, chainVars
  <2> QED
    BY <2>1, BooksKeep DEF ExecInv, Verdict
<1> QED
  BY <1>1, <1>2, <1>3, <1>4, <1>5, BootKeeps DEF Verdict

LEMMA BookedKeeps ==
  ASSUME ExecInv, Recovering, Booked, Books(positions)'
  PROVE  ExecInv'
<1>1. Target \in DOMAIN ops /\ pc \in Boot /\ rec \in Recovery
  BY TargetIs
<1>2. Rewrites(Target)
  BY DEF Booked, Rewrites
<1>3. rec' \in Recovery /\ rec'.todo \subseteq rec.todo
  BY <1>1, RecSteps DEF Booked
<1>4. faults' \in Nat
  BY DEF Booked, ExecInv, Scalars
<1>5. Books(saved)'
  BY DEF Booked, Books
<1> QED
  BY <1>1, <1>2, <1>3, <1>4, <1>5, BootKeeps DEF Booked

LEMMA RecoverAppliedKeeps ==
  ASSUME ExecInv, RecoverApplied
  PROVE  ExecInv'
<1> DEFINE changed == ResolvedReceiptsChanged(rec.snap[Target], Current)
<1>1. changed \in BOOLEAN
  BY DEF ResolvedReceiptsChanged
<1>2. Target \in DOMAIN ops /\ pc \in Boot /\ rec \in Recovery
  BY TargetIs DEF RecoverApplied
<1>3. rec' \in Recovery /\ rec'.todo \subseteq rec.todo
  <2> HIDE DEF changed
  <2>1. NextTarget(changed)
    BY DEF RecoverApplied, changed
  <2> QED
    BY <1>1, <1>2, <2>1, NextTargetIs
<1>4. Rewrites(Target)
  BY DEF RecoverApplied, Rewrites
<1>5. faults' \in Nat
  BY DEF RecoverApplied, ExecInv, Scalars
<1>6. Books(positions)' /\ Books(saved)'
  BY BooksKeep DEF ExecInv, RecoverApplied
<1> QED
  BY <1>2, <1>3, <1>4, <1>5, <1>6, BootKeeps DEF RecoverApplied

-----------------------------------------------------------------------------
(* Positions *)

\* The attempts of an operation that filled.
LEMMA ChosenIs ==
  ASSUME NEW S \in SUBSET Nat, S # {}, NEW n \in Nat, \A k \in S : k <= n
  PROVE  Min(S) \in S /\ Min(S) \in Nat /\ Cardinality(S) \in Nat
<1>1. Min(S) \in S
  BY MinIs
<1>2. S \subseteq 0 .. n /\ 0 \in Int /\ n \in Int
  OBVIOUS
<1>3. IsFiniteSet(S)
  BY <1>2, FS_Interval, FS_Subset
<1> QED
  BY <1>1, <1>3, FS_CardinalityType

LEMMA NewPositionIs ==
  ASSUME JournalTyped, NEW o \in DOMAIN ops, ops[o].kind = "Entry", NEW by \in {"live", "recover"},
         NEW entry \in Nat, NEW fills \in Nat, NEW gas \in Nat,
         NEW p, p = NewPosition(o, by, entry, fills, gas)
  PROVE  /\ p \in Position /\ p.id[1] = o /\ p.entry[1] = o
         /\ p.exits = {} /\ p.overhead = {} /\ p.exitGas = 0
<1>1. ops[o].subject \in Token /\ o \in Nat
  BY OpIs DEF JournalTyped
<1>2. Lot * fills \in Nat
  BY ChainAssumption
<1> QED
  BY <1>1, <1>2 DEF NewPosition, Position

\* A position joins those of the operations before it.
LEMMA JoinKeeps ==
  ASSUME Books(positions), NEW p \in Position, p.id[1] = p.entry[1], p.id[1] \in DOMAIN ops,
         \A q \in positions : q.id[1] # p.id[1],
         positions' = positions \cup {p}, DOMAIN ops' = DOMAIN ops
  PROVE  Books(positions)'
BY DEF Books

\* A position after a sale, and after a charge.
SoldFrom(q, p, qty, h, gas) ==
  /\ q \in Position /\ q.id = p.id /\ q.entry = p.entry /\ q.token = p.token
  /\ q.held >= p.held - qty /\ q.held <= p.held /\ q.exits = p.exits \cup {h}
  /\ q.exitGas = p.exitGas + gas /\ q.overhead = p.overhead

Charged(q, p, o, gas) ==
  /\ q \in Position /\ q.id = p.id /\ q.entry = p.entry /\ q.token = p.token
  /\ q.held = p.held /\ q.exits = p.exits /\ q.overhead = p.overhead \cup {o}
  /\ o \in p.overhead => q.exitGas = p.exitGas
  /\ o \notin p.overhead => q.exitGas = p.exitGas + gas

LEMMA ApplyExitIs ==
  ASSUME NEW p \in Position, NEW qty \in Nat, NEW h \in Hash, NEW gas \in Nat,
         NEW q, q = ApplyExit(p, qty, h, gas)
  PROVE  SoldFrom(q, p, qty, h, gas)
<1> DEFINE held == p.held - Min({qty, p.held})
           exits == p.exits \cup {h}
           exitGas == p.exitGas + gas
<1>1. p.held \in Nat /\ p.exitGas \in Nat /\ p.exits \in SUBSET (Nat \X Nat)
  BY DEF Position
<1>2. held \in Nat /\ held >= p.held - qty /\ held <= p.held
  <2>1. {qty, p.held} \in SUBSET Nat /\ {qty, p.held} # {}
    BY <1>1
  <2>2. /\ Min({qty, p.held}) \in {qty, p.held}
        /\ Min({qty, p.held}) <= p.held /\ Min({qty, p.held}) <= qty
    BY <2>1, MinIs
  <2> QED
    BY <1>1, <2>2
<1>3. exits \in SUBSET (Nat \X Nat) /\ exitGas \in Nat
  BY <1>1 DEF Hash
<1>4. ApplyExit(p, qty, h, gas) = [p EXCEPT !.held = held, !.exits = exits, !.exitGas = exitGas]
  BY DEF ApplyExit
<1> HIDE DEF held, exits, exitGas
<1>5. /\ q \in Position /\ q.id = p.id /\ q.entry = p.entry /\ q.token = p.token
      /\ q.held = held /\ q.exits = exits /\ q.exitGas = exitGas /\ q.overhead = p.overhead
  BY <1>2, <1>3, <1>4 DEF Position
<1> QED
  BY <1>2, <1>5 DEF exits, exitGas, SoldFrom

LEMMA ChargeIs ==
  ASSUME NEW p \in Position, NEW o \in Nat, NEW gas \in Nat,
         NEW q, q = ChargeOverhead(p, o, gas)
  PROVE  Charged(q, p, o, gas)
<1>1. CASE o \in p.overhead
  <2>1. ChargeOverhead(p, o, gas) = p
    BY <1>1 DEF ChargeOverhead
  <2>2. p.overhead \cup {o} = p.overhead
    BY <1>1
  <2> QED
    BY <1>1, <2>1, <2>2 DEF Charged
<1>2. CASE o \notin p.overhead
  <2> DEFINE exitGas == p.exitGas + gas
             overhead == p.overhead \cup {o}
  <2>1. exitGas \in Nat /\ overhead \in SUBSET Nat
    BY DEF Position
  <2>2. ChargeOverhead(p, o, gas) = [p EXCEPT !.exitGas = exitGas, !.overhead = overhead]
    BY <1>2 DEF ChargeOverhead
  <2> HIDE DEF exitGas, overhead
  <2>3. /\ q \in Position /\ q.id = p.id /\ q.entry = p.entry /\ q.token = p.token
        /\ q.held = p.held /\ q.exits = p.exits /\ q.exitGas = exitGas /\ q.overhead = overhead
    BY <2>1, <2>2 DEF Position
  <2> QED
    BY <1>2, <2>3 DEF exitGas, overhead, Charged
<1> QED
  BY <1>1, <1>2

-----------------------------------------------------------------------------
(* Recovery of entries and exits *)

LEMMA RecoverEntryKeeps ==
  ASSUME ExecInv, RecoverEntry
  PROVE  ExecInv'
<1> DEFINE blocked == HasAmbiguous(Current)
           state == IF HasPosition(Target) THEN "Applied" ELSE "Failed"
<1>1. blocked \in BOOLEAN
  BY DEF HasAmbiguous
<1>2. state \in OperationState
  BY DEF OperationState
<1> HIDE DEF blocked, state
<1>3. Verdict(blocked, state)
  BY DEF RecoverEntry, blocked, state
<1> QED
  BY <1>1, <1>2, <1>3, VerdictKeeps DEF RecoverEntry, Recovered

LEMMA RecoverFillKeeps ==
  ASSUME ExecInv, RecoverFill
  PROVE  ExecInv'
<1>0. Recovering /\ Current.kind = "Entry"
  BY DEF RecoverFill, Recovered
<1>1. /\ Target \in DOMAIN ops /\ Current \in OpRecord /\ Current = ops[Target]
      /\ DOMAIN Current.txs = 1 .. Len(Current.txs) /\ Len(Current.txs) \in Nat
  BY <1>0, TargetIs DEF Current
<1>2. Fill \subseteq 1 .. Len(Current.txs) /\ Fill # {} /\ OperationGas(Current) \in Nat
  BY <1>1, GasType DEF RecoverFill, Fill, ConfirmedIn
<1> DEFINE p == NewPosition(Target, "recover", Min(Fill), Cardinality(Fill), OperationGas(Current))
<1>3. p \in Position /\ p.id[1] = Target /\ p.entry[1] = Target
  <2> DEFINE o == Target
             entry == Min(Fill)
             fills == Cardinality(Fill)
             gas == OperationGas(Current)
  <2>1. entry \in Nat /\ fills \in Nat
    <3>1. Fill \in SUBSET Nat /\ Fill # {} /\ \A k \in Fill : k <= Len(Current.txs)
      BY <1>1, <1>2
    <3> QED
      BY <1>1, <3>1, ChosenIs
  <2>2. /\ o \in DOMAIN ops /\ ops[o].kind = "Entry" /\ gas \in Nat
        /\ p = NewPosition(o, "recover", entry, fills, gas)
    BY <1>0, <1>1, <1>2
  <2> HIDE DEF o, entry, fills, gas, p
  <2>3. p \in Position /\ p.id[1] = o /\ p.entry[1] = o
    BY <2>1, <2>2, NewPositionIs DEF ExecInv
  <2> QED
    BY <2>3 DEF o
<1>4. \A q \in positions : q.id[1] # p.id[1]
  BY <1>3 DEF RecoverFill, HasPosition, ExecInv, Books
<1>5. positions' = positions \cup {p} /\ Booked
  BY DEF RecoverFill
<1>6. DOMAIN ops' = DOMAIN ops
  BY <1>5 DEF Booked
<1> HIDE DEF p
<1>7. Books(positions)'
  BY <1>1, <1>3, <1>4, <1>5, <1>6, JoinKeeps DEF ExecInv
<1> QED
  BY <1>0, <1>5, <1>7, BookedKeeps

LEMMA RecoverExitKeeps ==
  ASSUME ExecInv, RecoverExit
  PROVE  ExecInv'
<1>1. Recovering
  BY DEF RecoverExit, Recovered
<1>2. Verdict(FALSE, "Applied") \/ Verdict(TRUE, "Pending") \/ Verdict(FALSE, "Failed")
  BY DEF RecoverExit
<1>3. {"Applied", "Pending", "Failed"} \subseteq OperationState /\ {TRUE, FALSE} \subseteq BOOLEAN
  BY DEF OperationState
<1> QED
  BY <1>1, <1>2, <1>3, VerdictKeeps

LEMMA RecoverSaleKeeps ==
  ASSUME ExecInv, RecoverSale
  PROVE  ExecInv'
<1> DEFINE k == Min(Sale)
           h == <<Target, k>>
           q == ApplyExit(Holder, signed[h].qty, h, OperationGas(Current))
<1>0. Recovering
  BY DEF RecoverSale, Recovered
<1>1. /\ Target \in DOMAIN ops /\ Target \in Nat /\ Current \in OpRecord
      /\ DOMAIN Current.txs = 1 .. Len(Current.txs) /\ Len(Current.txs) \in Nat
  BY <1>0, TargetIs
<1>2. CASE Known(Current.subject) /\ Open(Holder)
  <2>1. Holder \in positions /\ Holder \in Position
    BY <1>2, KnownIs DEF ExecInv, Holder
  <2>2. k \in Nat
    <3>1. Sale \in SUBSET Nat /\ Sale # {}
      BY <1>1 DEF RecoverSale, Sale, ConfirmedIn
    <3> QED
      BY <3>1, MinIs
  <2>3. signed[h].qty \in Nat
    <3>1. h \in DOMAIN signed
      BY MinedIs DEF RecoverSale, ExecInv
    <3> QED
      BY <3>1 DEF ExecInv, ChainTyped, SignedTx
  <2>4. q \in Position /\ q.id = Holder.id /\ q.entry = Holder.entry
    <3>1. h \in Hash /\ OperationGas(Current) \in Nat
      BY <1>1, <2>2, GasType DEF Hash
    <3> DEFINE p == Holder
               qty == signed[h].qty
               gas == OperationGas(Current)
    <3>2. p \in Position /\ qty \in Nat /\ gas \in Nat /\ q = ApplyExit(p, qty, h, gas)
      BY <2>1, <2>3, <3>1
    <3> HIDE DEF p, qty, gas, h, q
    <3>3. SoldFrom(q, p, qty, h, gas)
      BY <3>1, <3>2, ApplyExitIs
    <3> QED
      BY <3>3 DEF p, SoldFrom
  <2>5. Update(Holder, q) /\ Booked
    BY <1>2 DEF RecoverSale
  <2>6. DOMAIN ops \subseteq DOMAIN ops'
    BY <2>5 DEF Booked
  <2> HIDE DEF q
  <2>7. Books(positions)'
    BY <2>1, <2>4, <2>5, <2>6, UpdateKeeps DEF ExecInv
  <2> QED
    BY <1>0, <2>5, <2>7, BookedKeeps
<1>3. CASE ~ (Known(Current.subject) /\ Open(Holder))
  <2>1. Verdict(TRUE, "Pending") /\ "Pending" \in OperationState /\ TRUE \in BOOLEAN
    BY <1>3 DEF RecoverSale, OperationState
  <2> QED
    BY <1>0, <2>1, VerdictKeeps
<1> QED
  BY <1>2, <1>3

LEMMA RecoverGasKeeps ==
  ASSUME ExecInv, RecoverGas
  PROVE  ExecInv'
<1> DEFINE q == ChargeOverhead(Holder, Target, OperationGas(Current))
<1>0. Recovering
  BY DEF RecoverGas, Recovered
<1>1. Target \in DOMAIN ops /\ Target \in Nat /\ Current \in OpRecord
  BY <1>0, TargetIs
<1>2. CASE Known(Current.subject)
  <2>1. Holder \in positions /\ Holder \in Position
    BY <1>2, KnownIs DEF ExecInv, Holder
  <2>2. q \in Position /\ q.id = Holder.id /\ q.entry = Holder.entry
    <3>1. OperationGas(Current) \in Nat
      BY <1>1, GasType
    <3> DEFINE p == Holder
               o == Target
               gas == OperationGas(Current)
    <3>2. p \in Position /\ o \in Nat /\ gas \in Nat /\ q = ChargeOverhead(p, o, gas)
      BY <1>1, <2>1, <3>1
    <3> HIDE DEF p, o, gas, q
    <3>3. Charged(q, p, o, gas)
      BY <3>2, ChargeIs
    <3> QED
      BY <3>3 DEF p, Charged
  <2>3. Update(Holder, q) /\ Booked
    BY <1>2 DEF RecoverGas
  <2>4. DOMAIN ops \subseteq DOMAIN ops'
    BY <2>3 DEF Booked
  <2> HIDE DEF q
  <2>5. Books(positions)'
    BY <2>1, <2>2, <2>3, <2>4, UpdateKeeps DEF ExecInv
  <2> QED
    BY <1>0, <2>3, <2>5, BookedKeeps
<1>3. CASE ~ Known(Current.subject)
  <2>1. Verdict(TRUE, "Pending") /\ "Pending" \in OperationState /\ TRUE \in BOOLEAN
    BY <1>3 DEF RecoverGas, OperationState
  <2> QED
    BY <1>0, <2>1, VerdictKeeps
<1> QED
  BY <1>2, <1>3

LEMMA RecordBookedKeeps ==
  ASSUME ExecInv, RecordBooked
  PROVE  ExecInv'
<1> DEFINE blocked == Current.kind = "Entry" /\ HasAmbiguous(Current)
           state == IF Fill # {} \/ Sale # {} THEN "Applied" ELSE "Failed"
<1>1. blocked \in BOOLEAN
  BY DEF HasAmbiguous
<1>2. state \in OperationState
  BY DEF OperationState
<1> HIDE DEF blocked, state
<1>3. Verdict(blocked, state)
  BY DEF RecordBooked, blocked, state
<1> QED
  BY <1>1, <1>2, <1>3, VerdictKeeps DEF RecordBooked

-----------------------------------------------------------------------------
(* The entry burst *)

\* An operation begins.
LEMMA BeginIs ==
  ASSUME ExecInv, NEW op \in OpRecord, ops' = Append(ops, op), cur' = Len(ops) + 1,
         op.subject \in IF op.kind = "Entry" THEN Token ELSE PosId, op.txs = <<>>,
         UNCHANGED <<positions, saved, nonce, bad, rec, aged, faults, chainVars>>,
         stop' \in BOOLEAN, pc' \in PC
  PROVE  /\ JournalTyped' /\ ChainTyped' /\ Signed' /\ Books(positions)' /\ Books(saved)' /\ Scalars'
         /\ cur' \in DOMAIN ops' /\ Op' = op /\ \A p \in positions : p.id[1] # cur'
<1>1. /\ JournalTyped' /\ Len(ops) \in Nat /\ Len(ops') = Len(ops) + 1
      /\ DOMAIN ops = 1 .. Len(ops) /\ DOMAIN ops' = 1 .. Len(ops) + 1
      /\ ops'[Len(ops) + 1] = op /\ \A o \in DOMAIN ops : ops'[o] = ops[o]
  BY AppendKeeps DEF ExecInv
<1>2. cur' \in DOMAIN ops' /\ Op' = op /\ cur' \notin DOMAIN ops /\ DOMAIN ops \subseteq DOMAIN ops'
  BY <1>1 DEF Op
<1>3. ChainTyped'
  BY DEF ExecInv, ChainTyped, chainVars
<1>4. Books(positions)' /\ Books(saved)'
  BY <1>2, BooksKeep DEF ExecInv
<1>5. Scalars'
  <2>1. rec.todo \subseteq DOMAIN ops'
    BY <1>2 DEF ExecInv, Scalars
  <2> QED
    BY <1>1, <2>1 DEF ExecInv, Scalars
<1>6. \A p \in positions : p.id[1] # cur'
  BY <1>2 DEF ExecInv, Books
<1>7. Signed'
  <2>1. ASSUME NEW o \in DOMAIN ops', NEW k \in DOMAIN ops'[o].txs
        PROVE  <<o, k>> \in DOMAIN signed
    <3>1. CASE o \in DOMAIN ops
      BY <1>1, <2>1, <3>1 DEF ExecInv, Signed
    <3>2. CASE o \notin DOMAIN ops
      <4>1. ops'[o] = op /\ DOMAIN op.txs = {}
        BY <1>1, <3>2
      <4> QED
        BY <2>1, <4>1
    <3> QED
      BY <3>1, <3>2
  <2>2. signed' = signed
    BY DEF chainVars
  <2> QED
    BY <2>1, <2>2 DEF Signed
<1> QED
  BY <1>1, <1>2, <1>3, <1>4, <1>5, <1>6, <1>7

\* A new operation has no transactions.
LEMMA FreshIs ==
  ASSUME NEW kind \in {"Entry", "Exit"}, NEW subject \in Token \cup PosId, NEW op,
         op = [kind |-> kind, subject |-> subject, state |-> "Pending", txs |-> <<>>]
  PROVE  op \in OpRecord /\ op.kind = kind /\ op.subject = subject /\ op.txs = <<>>
<1>1. <<>> \in Seq(TxRecord)
  OBVIOUS
<1> QED
  BY <1>1 DEF OpRecord, OperationState

LEMMA BeginEntryKeeps ==
  ASSUME ExecInv, NEW t \in Token, BeginEntry(t)
  PROVE  ExecInv'
<1>0. pc = "idle" /\ pc \in Quiet /\ pc \notin Boot
  BY DEF BeginEntry, Quiet, Boot
<1>1. CASE PendingSubject(ops, "Entry", t)
  <2>1. Halt(TRUE) /\ UNCHANGED <<ops, pc, cur>>
    BY <1>1 DEF BeginEntry
  <2>2. ChainTyped' /\ Scalars'
    BY <2>1 DEF ExecInv, ChainTyped, Scalars, BeginEntry, chainVars, Halt
  <2> QED
    BY <2>1, <2>2, AsideKeeps DEF BeginEntry, chainVars
<1>2. CASE ~ PendingSubject(ops, "Entry", t)
  <2> DEFINE op == [kind |-> "Entry", subject |-> t, state |-> "Pending", txs |-> <<>>]
  <2>1. ops' = Append(ops, op) /\ cur' = Len(ops) + 1 /\ pc' = "sign" /\ stop' = stop
    BY <1>2 DEF BeginEntry
  <2>2. op \in OpRecord /\ op.kind = "Entry" /\ op.subject = t /\ op.txs = <<>>
    BY FreshIs
  <2> HIDE DEF op
  <2>3. op.subject \in IF op.kind = "Entry" THEN Token ELSE PosId
    BY <2>2
  <2>4. stop' \in BOOLEAN /\ pc' \in PC
    BY <2>1 DEF ExecInv, Scalars, PC
  <2>5. /\ JournalTyped' /\ ChainTyped' /\ Signed' /\ Books(positions)' /\ Books(saved)' /\ Scalars'
        /\ cur' \in DOMAIN ops' /\ Op' = op /\ \A p \in positions : p.id[1] # cur'
    BY <2>1, <2>2, <2>3, <2>4, BeginIs DEF BeginEntry
  <2>6. UNCHANGED <<positions, closing, queue, job, out>> /\ job = NoJob /\ out = <<>>
    BY <1>0 DEF BeginEntry, ExecInv, OwnerOK
  <2>7. Op'.kind = "Entry" /\ Op'.txs = <<>>
    BY <2>2, <2>5
  <2>8. pc' \notin Quiet /\ pc' \notin Boot
    BY <2>1 DEF Quiet, Boot
  <2>9. OwnerOK'
    BY <2>1, <2>5, <2>6, <2>7, <2>8 DEF OwnerOK, InEntry, InExit, EntryPlace
  <2>10. AnswersOK'
    BY <2>1, <2>6, <2>7 DEF AnswersOK
  <2>11. OpensOnce' /\ Claims'
    BY <1>0, <2>5, <2>6, <2>7, <2>8 DEF OpensOnce, ExecInv, Claims, InExit, Holds
  <2> QED
    BY <2>5, <2>9, <2>10, <2>11 DEF ExecInv
<1> QED
  BY <1>1, <1>2

LEMMA PresignFailsKeeps ==
  ASSUME ExecInv, PresignFails
  PROVE  ExecInv'
<1>0. pc = "sign" /\ pc \notin Quiet /\ Return(TRUE) /\ TRUE \in BOOLEAN
  BY DEF PresignFails, Quiet, Boot
<1>1. Rewrites(cur)
  <2>1. cur \in DOMAIN ops /\ Op \in OpRecord /\ "Failed" \in OperationState
    BY <1>0, OpIs DEF ExecInv, OwnerOK, Op, OperationState
  <2> DEFINE new == WithState(Op, "Failed")
  <2>2. Same(new, Op) /\ new.txs = Op.txs
    BY <2>1, WithStateIs
  <2>3. Put(cur, new) /\ signed' = signed
    BY DEF PresignFails, chainVars
  <2> HIDE DEF new
  <2> QED
    BY <2>1, <2>2, <2>3, PutRewrites DEF Op, ExecInv
<1>2. nonce' \in Nat /\ stop' \in BOOLEAN /\ faults' \in Nat /\ ChainTyped' /\ signed' = signed
  BY DEF ExecInv, Scalars, ChainTyped, PresignFails, Halt, Fault, chainVars
<1> QED
  BY <1>0, <1>1, <1>2, DoneKeeps DEF PresignFails

\* The operation in hand.
LEMMA CurIs ==
  ASSUME ExecInv, pc \notin Quiet
  PROVE  /\ cur \in DOMAIN ops /\ cur \in Nat /\ Op \in OpRecord /\ Op = ops[cur] /\ Last \in Nat
         /\ DOMAIN Op.txs = 1 .. Last /\ \A k \in DOMAIN Op.txs : Op.txs[k] \in TxRecord
         /\ Op.kind \in {"Entry", "Exit"}
BY OpIs DEF ExecInv, OwnerOK, Op, Last

LEMMA ReserveKeeps ==
  ASSUME ExecInv, pc \notin Quiet, NEW step \in Step, NEW n \in Nat,
         NEW payload \in [kind : Kind, token : Token, qty : Nat], Reserve(step, n, payload)
  PROVE  /\ Rewrites(cur) /\ ChainTyped' /\ DOMAIN signed \subseteq DOMAIN signed' /\ nonce' \in Nat
         /\ ops'[cur] \in OpRecord /\ Len(ops'[cur].txs) = Last + n
         /\ DOMAIN ops'[cur].txs = 1 .. Last + n
         /\ \A k \in 1 .. Last : ops'[cur].txs[k] = Op.txs[k]
         /\ \A i \in 1 .. n : ops'[cur].txs[Last + i] = Staged(step, nonce + i - 1)
         /\ DOMAIN out' = Last + 1 .. Last + n /\ \A k \in DOMAIN out' : out'[k] = NoAnswer
<1> DEFINE new == {<<cur, Last + i>> : i \in 1 .. n}
           op == StageMany(Op, step, [i \in 1 .. n |-> nonce + i - 1])
<1>1. nonce \in Nat
  BY DEF ExecInv, Scalars
<1>2. cur \in DOMAIN ops /\ cur \in Nat /\ Op \in OpRecord /\ Op = ops[cur] /\ Last \in Nat
  BY CurIs
<1>3. Put(cur, op)
  BY DEF Reserve
<1>4. /\ Same(op, Op) /\ Len(op.txs) = Last + n /\ DOMAIN op.txs = 1 .. Last + n
      /\ DOMAIN Op.txs = 1 .. Last
      /\ \A k \in DOMAIN Op.txs : op.txs[k] = Op.txs[k]
      /\ \A i \in 1 .. n : op.txs[Last + i] = Staged(step, nonce + i - 1)
  <2>1. op = StageMany(Op, step, Nonces(nonce, n))
    BY DEF Nonces
  <2> HIDE DEF op
  <2>2. Extended(op, Op, step, n, nonce)
    BY <1>1, <1>2, <2>1, StagedIs
  <2> QED
    BY <2>2 DEF Last, Extended
<1> HIDE DEF op
<1>5. Rewrites(cur)
  <2>1. \A k \in DOMAIN op.txs : <<cur, k>> \in DOMAIN signed'
    <3>1. DOMAIN signed' = DOMAIN signed \cup new
      BY DEF Reserve
    <3>2. \A k \in 1 .. Last : <<cur, k>> \in DOMAIN signed
      BY <1>2, <1>4 DEF ExecInv, Signed
    <3>3. \A k \in Last + 1 .. Last + n : k - Last \in 1 .. n /\ k = Last + (k - Last)
      BY <1>2
    <3>4. \A k \in Last + 1 .. Last + n : <<cur, k>> \in new
      BY <3>3
    <3>5. \A k \in 1 .. Last + n : k \in 1 .. Last \/ k \in Last + 1 .. Last + n
      BY <1>2
    <3> QED
      BY <1>4, <3>1, <3>2, <3>4, <3>5
  <2> QED
    BY <1>2, <1>3, <1>4, <2>1 DEF Rewrites
<1>6. ops'[cur] = op /\ op \in OpRecord
  BY <1>2, <1>3, <1>4, PutKeeps DEF ExecInv, Same
<1>7. ChainTyped'
  <2> DEFINE T == [tx : DOMAIN signed, ok : BOOLEAN, fork : Nat]
  <2>1. DOMAIN signed' = DOMAIN signed \cup new
    BY DEF Reserve
  <2>2. \A h \in DOMAIN signed' : signed'[h] \in SignedTx
    <3> SUFFICES ASSUME NEW h \in DOMAIN signed'
                 PROVE  signed'[h] \in SignedTx
      OBVIOUS
    <3>1. CASE h \in new
      <4>1. PICK i \in 1 .. n : h = <<cur, Last + i>>
        BY <3>1
      <4>2. nonce + h[2] - Last - 1 \in Nat
        BY <1>1, <1>2, <4>1
      <4>3. signed'[h] = [nonce |-> nonce + h[2] - Last - 1, kind |-> payload.kind,
                          token |-> payload.token, qty |-> payload.qty]
        BY <2>1, <3>1 DEF Reserve
      <4> QED
        BY <4>2, <4>3 DEF SignedTx
    <3>2. CASE h \notin new
      <4>1. signed'[h] = signed[h] /\ h \in DOMAIN signed
        BY <2>1, <3>2 DEF Reserve
      <4> QED
        BY <4>1 DEF ExecInv, ChainTyped
    <3> QED
      BY <3>1, <3>2
  <2>3. signed' \in [DOMAIN signed' -> SignedTx]
    <3>1. signed' = [h \in DOMAIN signed' |-> signed'[h]]
      BY DEF Reserve
    <3> QED
      BY <2>2, <3>1
  <2>4. IsFiniteSet(DOMAIN signed')
    <3> DEFINE f == [i \in 1 .. n |-> <<cur, Last + i>>]
    <3>1. IsFiniteSet(1 .. n)
      <4>1. 1 \in Int /\ n \in Int
        OBVIOUS
      <4> QED
        BY <4>1, FS_Interval
    <3>2. f \in Surjection(1 .. n, new)
      BY DEF Surjection
    <3>3. IsFiniteSet(new)
      BY <3>1, <3>2, FS_Surjection
    <3>4. IsFiniteSet(DOMAIN signed)
      BY DEF ExecInv, ChainTyped
    <3> HIDE DEF new
    <3>5. IsFiniteSet(DOMAIN signed \cup new)
      BY <3>3, <3>4, FS_Union
    <3> QED
      BY <2>1, <3>5
  <2>5. mined' \in Seq([tx : DOMAIN signed, ok : BOOLEAN, fork : Nat]') /\ mined' = mined
    <3>1. mined \in Seq(T) /\ T \subseteq T'
      BY <2>1 DEF ExecInv, ChainTyped
    <3>2. mined' = mined
      BY DEF Reserve
    <3> HIDE DEF T
    <3>3. mined \in Seq(T')
      BY <3>1
    <3> QED
      BY <3>2, <3>3 DEF T
  <2> QED
    BY <2>1, <2>3, <2>4, <2>5 DEF ExecInv, ChainTyped, Reserve
<1>8. nonce' \in Nat
  BY <1>1 DEF Reserve
<1>9. DOMAIN out' = Last + 1 .. Last + n /\ \A k \in DOMAIN out' : out'[k] = NoAnswer
  BY DEF Reserve
<1>10. DOMAIN signed \subseteq DOMAIN signed'
  BY DEF Reserve
<1> QED
  BY <1>4, <1>5, <1>6, <1>7, <1>8, <1>9, <1>10

\* Which kind of operation is at which place.
LEMMA KindIs ==
  ASSUME ExecInv
  PROVE  /\ pc \in {"sign", "armed", "answers", "refresh", "settle"} =>
              Op.kind = "Entry" /\ InEntry /\ pc \notin Quiet
         /\ pc \in {"trade", "send", "answer", "book", "unwind", "charged", "fail"} =>
              Op.kind = "Exit" /\ InExit /\ pc \notin Quiet
<1>1. pc \in {"sign", "armed", "answers", "refresh", "settle", "trade", "send", "answer", "book",
              "unwind", "charged", "fail"} => pc \notin Quiet
  BY DEF Quiet, Boot
<1>2. pc \notin Quiet => Op.kind \in {"Entry", "Exit"}
  BY CurIs
<1>3. {"sign", "armed", "answers", "refresh", "settle"} \cap ExitPlace = {}
  BY DEF ExitPlace
<1>4. {"trade", "send", "answer", "book", "unwind", "charged", "fail"} \cap EntryPlace = {}
  BY DEF EntryPlace
<1> QED
  BY <1>1, <1>2, <1>3, <1>4 DEF ExecInv, OwnerOK, InEntry, InExit

LEMMA AnswerTyped ==
  /\ NoAnswer \in Answer
  /\ \A ans \in Answered : [NoAnswer EXCEPT !.ans = ans] \in Answer
                           /\ [NoAnswer EXCEPT !.ans = ans].ans = ans
BY DEF NoAnswer, Answer, Answered, NoBlock, BlockId

LEMMA PresignKeeps ==
  ASSUME ExecInv, Presign
  PROVE  ExecInv'
<1> DEFINE payload == [kind |-> "buy", token |-> Op.subject, qty |-> 0]
<1>0. pc = "sign" /\ pc \notin Quiet /\ Op.kind = "Entry" /\ pc' = "armed" /\ pc' \notin Quiet
  BY KindIs DEF Presign, Quiet, Boot
<1>1. cur \in DOMAIN ops /\ Op = ops[cur] /\ Last = 0 /\ Op.txs = <<>>
  BY <1>0, CurIs DEF ExecInv, AnswersOK, Last
<1>2. payload \in [kind : Kind, token : Token, qty : Nat]
  BY <1>0, <1>1 DEF ExecInv, JournalTyped, Kind
<1>3. "entry" \in Step /\ Attempts \in Nat \ {0}
  BY ExecutionAssumption DEF Step
<1> HIDE DEF payload
<1>4. /\ Rewrites(cur) /\ ChainTyped' /\ DOMAIN signed \subseteq DOMAIN signed' /\ nonce' \in Nat
      /\ DOMAIN ops'[cur].txs = 1 .. Attempts /\ Len(ops'[cur].txs) = Attempts
      /\ \A i \in 1 .. Attempts : ops'[cur].txs[i] = Staged("entry", nonce + i - 1)
      /\ DOMAIN out' = 1 .. Attempts /\ \A k \in DOMAIN out' : out'[k] = NoAnswer
  <2>1. Reserve("entry", Attempts, payload)
    BY DEF Presign, payload
  <2>2. /\ Rewrites(cur) /\ ChainTyped' /\ DOMAIN signed \subseteq DOMAIN signed' /\ nonce' \in Nat
        /\ Len(ops'[cur].txs) = Last + Attempts
        /\ DOMAIN ops'[cur].txs = 1 .. Last + Attempts
        /\ \A i \in 1 .. Attempts : ops'[cur].txs[Last + i] = Staged("entry", nonce + i - 1)
        /\ DOMAIN out' = Last + 1 .. Last + Attempts /\ \A k \in DOMAIN out' : out'[k] = NoAnswer
    BY <1>0, <1>2, <1>3, <2>1, ReserveKeeps
  <2> QED
    BY <1>1, <1>3, <2>2
<1>5. AnswersOK'
  <2>1. cur' = cur /\ Op' = ops'[cur] /\ Last' = Attempts
    BY <1>4 DEF Presign, Op, Last
  <2>2. out' = [k \in DOMAIN out' |-> out'[k]]
    BY DEF Presign, Reserve
  <2>3. out' \in [DOMAIN out' -> Answer]
    BY <1>4, <2>2, AnswerTyped
  <2>4. Op'.txs # <<>> /\ Op'.txs[Last'].state = "Prepared"
    <3>1. Attempts \in 1 .. Attempts
      BY <1>3
    <3>2. Op'.txs[Last'] = Staged("entry", nonce + Attempts - 1) /\ Attempts \in DOMAIN Op'.txs
      BY <1>4, <2>1, <3>1
    <3>3. Op'.txs[Last'].state = "Prepared"
      BY <3>2 DEF Staged
    <3> QED
      BY <3>2, <3>3
  <2> QED
    BY <1>0, <1>4, <2>1, <2>3, <2>4 DEF AnswersOK
<1>6. UNCHANGED <<positions, closing, queue, cur, job, rec, aged>> /\ saved' = saved
  BY DEF Presign
<1>7. stop' \in BOOLEAN /\ bad' \in BOOLEAN /\ faults' \in Nat
  BY DEF Presign, ExecInv, Scalars
<1>8. pc' \in EntryPlace /\ pc \notin {"flush", "apply"} /\ Op.kind # "Exit"
  BY <1>0 DEF EntryPlace
<1> QED
  BY <1>0, <1>4, <1>5, <1>6, <1>7, <1>8, WorkKeeps

LEMMA UnsentKeeps ==
  ASSUME ExecInv, Unsent
  PROVE  ExecInv'
<1> DEFINE new == WithState(AllRejected(Op), "Failed")
<1>0. pc = "armed" /\ pc \notin Quiet /\ Return(TRUE) /\ TRUE \in BOOLEAN
  BY DEF Unsent, Quiet, Boot
<1>1. cur \in DOMAIN ops /\ Op = ops[cur] /\ Op \in OpRecord /\ "Failed" \in OperationState
  BY <1>0, CurIs DEF OperationState
<1>2. Rewrites(cur)
  <2> DEFINE all == AllRejected(Op)
  <2>1. Same(all, Op) /\ DOMAIN all.txs = DOMAIN Op.txs
    BY <1>1, AllRejectedIs
  <2>2. Put(cur, new) /\ new = WithState(all, "Failed") /\ signed' = signed
    BY DEF Unsent, chainVars
  <2> HIDE DEF new, all
  <2>3. Same(new, all) /\ new.txs = all.txs
    BY <1>1, <2>1, <2>2, WithStateIs DEF Same
  <2> QED
    BY <1>1, <2>1, <2>2, <2>3, PutRewrites DEF ExecInv, Same
<1>3. nonce' \in Nat
  <2>1. 1 \in DOMAIN Op.txs
    <3>1. Op.txs # <<>> /\ DOMAIN Op.txs = 1 .. Last /\ Last \in Nat /\ Op.txs \in Seq(TxRecord)
      BY <1>0, <1>1, CurIs DEF ExecInv, AnswersOK, OpRecord
    <3> QED
      BY <3>1 DEF Last
  <2>2. Op.txs[1].nonce \in Nat
    BY <1>0, <2>1, CurIs DEF TxRecord
  <2> QED
    BY <2>2 DEF Unsent, Rewound, ExecInv, Scalars
<1>4. stop' \in BOOLEAN
  <2>1. (nonce' # Op.txs[1].nonce) \in BOOLEAN
    OBVIOUS
  <2>2. stop' = (stop \/ nonce' # Op.txs[1].nonce)
    BY DEF Unsent, Halt
  <2> QED
    BY <2>2
<1>5. faults' \in Nat /\ ChainTyped' /\ signed' = signed
  BY DEF ExecInv, Scalars, ChainTyped, Unsent, chainVars
<1> QED
  BY <1>0, <1>2, <1>3, <1>4, <1>5, DoneKeeps DEF Unsent

\* What a transmission does to the answers and to the chain.
LEMMA TransmitIs ==
  ASSUME ExecInv, pc \notin Quiet, NEW outcome, Transmit(outcome),
         \A k \in DOMAIN out : outcome[k].ans \in Answered
  PROVE  /\ ChainTyped' /\ signed' = signed
         /\ out' \in [DOMAIN out' -> Answer] /\ DOMAIN out' = DOMAIN out
         /\ \A k \in DOMAIN out' : out'[k].ans \in Answered
<1>1. DOMAIN out' = DOMAIN out /\ \A k \in DOMAIN out' : out'[k] = [NoAnswer EXCEPT !.ans = outcome[k].ans]
  BY DEF Transmit
<1>2. \A k \in DOMAIN out' : out'[k] \in Answer /\ out'[k].ans \in Answered
  BY <1>1, AnswerTyped
<1>3. out' = [k \in DOMAIN out' |-> out'[k]]
  BY DEF Transmit
<1>4. \A k \in DOMAIN out : <<cur, k>> \in DOMAIN signed
  <2>1. DOMAIN out \subseteq DOMAIN ops[cur].txs /\ cur \in DOMAIN ops
    BY DEF ExecInv, AnswersOK, OwnerOK, Op
  <2> QED
    BY <2>1 DEF ExecInv, Signed
<1>5. flight' \subseteq DOMAIN signed
  BY <1>4 DEF ExecInv, ChainTyped, Transmit
<1>6. ChainTyped' /\ signed' = signed
  BY <1>5 DEF ExecInv, ChainTyped, Transmit
<1>7. out' \in [DOMAIN out' -> Answer]
  BY <1>2, <1>3
<1> QED
  BY <1>1, <1>2, <1>6, <1>7

LEMMA OutcomeIs ==
  ASSUME NEW h, NEW o \in Outcome(h)
  PROVE  o.ans \in Answered
BY DEF Outcome, Answered

LEMMA FireBurstKeeps ==
  ASSUME ExecInv, FireBurst
  PROVE  ExecInv'
<1>0. pc = "armed" /\ pc \notin Quiet /\ Op.kind = "Entry" /\ pc' = "answers" /\ pc' \notin Quiet
  BY KindIs DEF FireBurst, Quiet, Boot
<1>1. PICK outcome : (\A k \in DOMAIN out : outcome[k] \in Outcome(<<cur, k>>)) /\ Transmit(outcome)
  BY DEF FireBurst
<1>2. \A k \in DOMAIN out : outcome[k].ans \in Answered
  BY <1>1, OutcomeIs
<1>3. /\ ChainTyped' /\ signed' = signed
      /\ out' \in [DOMAIN out' -> Answer] /\ DOMAIN out' = DOMAIN out
      /\ \A k \in DOMAIN out' : out'[k].ans \in Answered
  BY <1>0, <1>1, <1>2, TransmitIs
<1>4. UNCHANGED <<ops, positions, saved, closing, queue, cur, job, rec, aged, nonce, stop, bad, faults>>
  BY DEF FireBurst
<1>5. AnswersOK'
  <2>1. Op' = Op /\ Last' = Last
    BY <1>4 DEF Op, Last
  <2> QED
    BY <1>0, <1>3, <2>1 DEF ExecInv, AnswersOK
<1>6. pc' \in EntryPlace /\ pc \notin {"flush", "apply"} /\ Op.kind # "Exit"
  BY <1>0 DEF EntryPlace
<1>7. Rewrites(cur) /\ nonce' \in Nat /\ stop' \in BOOLEAN /\ bad' \in BOOLEAN /\ faults' \in Nat
  BY <1>4 DEF Rewrites, ExecInv, Scalars
<1> QED
  BY <1>0, <1>3, <1>4, <1>5, <1>6, <1>7, WorkKeeps

\* A step that rewrites one transaction's record.
LEMMA RecordIs ==
  ASSUME ExecInv, pc \notin Quiet, NEW k \in DOMAIN Op.txs, NEW new, Rewritten(new, Op, k),
         Put(cur, new), signed' = signed, cur' = cur
  PROVE  Rewrites(cur) /\ Op' = new /\ Last' = Last
<1>1. cur \in DOMAIN ops /\ Op = ops[cur]
  BY CurIs
<1>2. Same(new, Op) /\ DOMAIN new.txs = DOMAIN Op.txs /\ Len(new.txs) = Len(Op.txs)
  BY DEF Rewritten
<1>3. Rewrites(cur)
  BY <1>1, <1>2, PutRewrites DEF ExecInv
<1>4. ops'[cur] = new
  BY <1>1, <1>2, PutKeeps DEF ExecInv, Same
<1> QED
  BY <1>2, <1>3, <1>4 DEF Op, Last

LEMMA RecordAnswerKeeps ==
  ASSUME ExecInv, RecordAnswer
  PROVE  ExecInv'
<1> DEFINE Left == {j \in DOMAIN out : Op.txs[j].state = "Prepared"}
           k == Min(Left)
           state == AnswerState(out[k].ans)
           new == Mark(Op, k, state)
<1>0. /\ pc = "answers" /\ pc \notin Quiet /\ Op.kind = "Entry" /\ pc' \in {"confirm", "answers"}
      /\ pc' \notin Quiet
  BY KindIs DEF RecordAnswer, Quiet, Boot
<1>1. /\ DOMAIN out = DOMAIN Op.txs /\ Op.txs # <<>> /\ Op.txs[Last].state = "Prepared"
      /\ DOMAIN Op.txs = 1 .. Last /\ Last \in Nat /\ Op \in OpRecord
      /\ \A j \in DOMAIN out : out[j].ans \in Answered
      /\ out \in [DOMAIN out -> Answer]
  BY <1>0, CurIs DEF ExecInv, AnswersOK
<1>2. Last \in Left
  <2>1. Op.txs \in Seq(TxRecord)
    BY <1>1 DEF OpRecord
  <2>2. Last \in 1 .. Last
    BY <1>1, <2>1 DEF Last
  <2> QED
    BY <1>1, <2>2
<1>3. k \in Left /\ k \in DOMAIN Op.txs
  <2>1. Left \in SUBSET Nat /\ Left # {}
    BY <1>1, <1>2
  <2> QED
    BY <1>1, <2>1, MinIs
<1>4. state \in TxState
  <2>1. out[k].ans \in Answered
    BY <1>1, <1>3
  <2> QED
    BY <2>1 DEF AnswerState, Answered, TxState
<1>5. Put(cur, new) /\ pc' = (IF k = Last THEN "confirm" ELSE "answers")
  BY DEF RecordAnswer
<1> HIDE DEF Left, k, state
<1>6. Rewritten(new, Op, k) /\ new.txs[k].state = state
  <2>1. new = Mark(Op, k, state)
    OBVIOUS
  <2> HIDE DEF new
  <2>2. Marked(new, Op, k, state)
    BY <1>1, <1>3, <1>4, <2>1, MarkIs
  <2> QED
    BY <2>2 DEF Marked
<1> HIDE DEF new
<1>7. UNCHANGED <<positions, saved, memVars, aged, faults, chainVars>>
  BY DEF RecordAnswer
<1>8. Rewrites(cur) /\ Op' = new /\ Last' = Last
  BY <1>0, <1>3, <1>5, <1>6, <1>7, RecordIs DEF chainVars, memVars
<1>9. AnswersOK'
  <2>1. DOMAIN new.txs = DOMAIN Op.txs /\ \A i \in DOMAIN Op.txs \ {k} : new.txs[i] = Op.txs[i]
    BY <1>6 DEF Rewritten
  <2>2. new.txs # <<>>
    <3>1. Last \in DOMAIN new.txs
      BY <1>1, <1>2, <2>1 DEF Left
    <3> QED
      BY <3>1
  <2>3. pc' = "answers" => new.txs[Last].state = "Prepared"
    <3>1. Last \in DOMAIN Op.txs
      BY <1>1, <1>2 DEF Left
    <3> QED
      BY <1>1, <1>5, <2>1, <3>1
  <2>4. out' = out /\ Op'.kind = "Entry"
    BY <1>0, <1>6, <1>7, <1>8 DEF memVars, Rewritten, Same
  <2> QED
    BY <1>0, <1>1, <1>8, <2>1, <2>2, <2>3, <2>4 DEF AnswersOK, InExit
<1>10. pc' \in EntryPlace /\ pc \notin {"flush", "apply"} /\ Op.kind # "Exit"
  BY <1>0 DEF EntryPlace
<1>11. nonce' \in Nat /\ stop' \in BOOLEAN /\ bad' \in BOOLEAN /\ faults' \in Nat /\ ChainTyped' /\ signed' = signed
  BY <1>7 DEF memVars, ExecInv, Scalars, ChainTyped, chainVars
<1> QED
  BY <1>0, <1>7, <1>8, <1>9, <1>10, <1>11, WorkKeeps DEF memVars

LEMMA ConfirmKeeps ==
  ASSUME ExecInv, NEW k \in DOMAIN out, Confirm(k)
  PROVE  ExecInv'
<1>0. pc = "confirm" /\ pc' = "confirm" /\ pc \notin Quiet /\ pc' \notin Quiet
  BY DEF Confirm, Quiet, Boot
<1>1. UNCHANGED <<ops, positions, saved, nonce, stop, closing, queue, pc, cur, job, bad, rec, aged, chainVars>>
  BY DEF Confirm
<1>2. out \in [DOMAIN out -> Answer]
  BY <1>0 DEF ExecInv, AnswersOK
<1>3. PICK r \in Answer : out' = [out EXCEPT ![k] = r]
  <2> DEFINE h == <<cur, k>>
             seen == [ans |-> IF Status(h) THEN "confirmed" ELSE "reverted", block |-> Block(h)]
             lost == [out[k] EXCEPT !.ans = "unresolved"]
  <2>1. lost \in Answer
    <3>1. out[k] \in Answer
      BY <1>2
    <3> QED
      BY <3>1 DEF Answer
  <2>2. CASE out' = [out EXCEPT ![k].ans = "unresolved"]
    <3>1. out' = [out EXCEPT ![k] = lost]
      BY <2>2
    <3> QED
      BY <2>1, <3>1
  <2>3. CASE Landed(h) /\ out' = [out EXCEPT ![k] = seen]
    <3>1. Status(h) \in BOOLEAN /\ Block(h) \in BlockId
      BY <2>3, MinedIs DEF ExecInv
    <3>2. seen \in Answer
      BY <3>1 DEF Answer
    <3> QED
      BY <2>3, <3>2
  <2> QED
    BY <2>2, <2>3 DEF Confirm
<1>4. out' \in [DOMAIN out' -> Answer] /\ DOMAIN out' = DOMAIN out
  BY <1>2, <1>3
<1>5. AnswersOK'
  <2>1. Op' = Op /\ Last' = Last /\ (InExit' <=> InExit)
    BY <1>1 DEF Op, Last, InExit
  <2> QED
    BY <1>0, <1>4, <2>1 DEF ExecInv, AnswersOK
<1>6. Rewrites(cur) /\ ChainTyped' /\ signed' = signed /\ nonce' \in Nat /\ stop' \in BOOLEAN /\ bad' \in BOOLEAN
  BY <1>1 DEF Rewrites, ExecInv, Scalars, ChainTyped, chainVars
<1>7. faults' \in Nat
  BY DEF Confirm, Fault, ExecInv, Scalars
<1>8. pc' \in EntryPlace /\ pc' \in ExitPlace
  BY <1>0 DEF EntryPlace, ExitPlace
<1> QED
  BY <1>0, <1>1, <1>5, <1>6, <1>7, <1>8, WorkKeeps

LEMMA ReceiptIs ==
  ASSUME NEW tx \in TxRecord, NEW r \in Answer
  PROVE  WithReceipt(tx, r) \in TxRecord
<1>1. CASE r.ans = "confirmed"
  BY <1>1 DEF WithReceipt, TxRecord, TxState, Answer, BlockId
<1>2. CASE r.ans = "reverted"
  BY <1>2 DEF WithReceipt, TxRecord, TxState, Answer, BlockId
<1>3. CASE r.ans = "unresolved"
  BY <1>3 DEF WithReceipt, TxRecord, TxState
<1>4. CASE r.ans \notin {"confirmed", "reverted", "unresolved"}
  <2>1. WithReceipt(tx, r) = tx
    BY <1>4 DEF WithReceipt
  <2> QED
    BY <2>1
<1> QED
  BY <1>1, <1>2, <1>3, <1>4

LEMMA ReceiptsAre ==
  ASSUME NEW op \in OpRecord, NEW r, \A k \in DOMAIN r : r[k] \in Answer, NEW new,
         new = WithReceipts(op, r)
  PROVE  /\ Same(new, op) /\ new.state = op.state /\ DOMAIN new.txs = DOMAIN op.txs
         /\ \A k \in DOMAIN op.txs :
              /\ k \in DOMAIN r => new.txs[k] = WithReceipt(op.txs[k], r[k])
              /\ k \notin DOMAIN r => new.txs[k] = op.txs[k]
<1> DEFINE txs == [k \in DOMAIN op.txs |->
                     IF k \in DOMAIN r THEN WithReceipt(op.txs[k], r[k]) ELSE op.txs[k]]
<1>0. op.txs \in Seq(TxRecord) /\ DOMAIN op.txs = 1 .. Len(op.txs) /\ Len(op.txs) \in Nat
  BY DEF OpRecord
<1>1. \A k \in DOMAIN op.txs : txs[k] \in TxRecord
  <2>1. \A k \in DOMAIN op.txs : op.txs[k] \in TxRecord
    BY <1>0
  <2>2. \A k \in DOMAIN op.txs : k \in DOMAIN r => WithReceipt(op.txs[k], r[k]) \in TxRecord
    BY <2>1, ReceiptIs
  <2> QED
    BY <2>1, <2>2
<1>2. txs \in Seq(TxRecord) /\ DOMAIN txs = DOMAIN op.txs
  <2>1. txs \in [1 .. Len(op.txs) -> TxRecord] /\ DOMAIN txs = DOMAIN op.txs
    BY <1>0, <1>1
  <2> HIDE DEF txs
  <2> QED
    BY <1>0, <2>1
<1>3. new = [op EXCEPT !.txs = txs]
  BY DEF WithReceipts
<1>4. \A k \in DOMAIN op.txs :
        /\ k \in DOMAIN r => txs[k] = WithReceipt(op.txs[k], r[k])
        /\ k \notin DOMAIN r => txs[k] = op.txs[k]
  OBVIOUS
<1> HIDE DEF txs
<1>5. Same(new, op) /\ new.state = op.state /\ new.txs = txs
  BY <1>2, <1>3, WithTxs
<1> QED
  BY <1>2, <1>4, <1>5

LEMMA RecordReceiptsKeeps ==
  ASSUME ExecInv, RecordReceipts
  PROVE  ExecInv'
<1> DEFINE new == WithReceipts(Op, out)
<1>0. pc = "confirm" /\ pc \notin Quiet
  BY DEF RecordReceipts, Quiet, Boot
<1>1. cur \in DOMAIN ops /\ Op = ops[cur] /\ Op \in OpRecord /\ Op.kind \in {"Entry", "Exit"}
  BY <1>0, CurIs
<1>2. \A k \in DOMAIN out : out[k] \in Answer
  BY <1>0 DEF ExecInv, AnswersOK
<1>3. Put(cur, new)
  BY DEF RecordReceipts
<1>4. Same(new, Op) /\ DOMAIN new.txs = DOMAIN Op.txs
  BY <1>1, <1>2, ReceiptsAre
<1> HIDE DEF new
<1>5. UNCHANGED <<positions, saved, memVars, aged, faults, chainVars>>
  BY DEF RecordReceipts
<1>6. Rewrites(cur)
  BY <1>1, <1>3, <1>4, <1>5, PutRewrites DEF ExecInv, chainVars
<1>7. ops'[cur] = new
  BY <1>1, <1>3, <1>4, PutKeeps DEF ExecInv, Same
<1>8. /\ Op.kind = "Entry" => pc' = "refresh"
      /\ Op.kind = "Exit" => pc' \in {"unwind", "book", "trade"}
      /\ pc' \in {"refresh", "unwind", "book", "trade"} /\ pc' \notin Quiet
  <2>1. pc' = IF Op.kind = "Entry" THEN "refresh"
              ELSE IF out[Last].ans # "confirmed" THEN "unwind"
              ELSE IF Op.txs[Last].step = "sell" THEN "book" ELSE "trade"
    BY DEF RecordReceipts
  <2>2. pc' \in {"refresh", "unwind", "book", "trade"}
    BY <2>1
  <2>3. Op.kind = "Exit" => pc' \in {"unwind", "book", "trade"}
    BY <2>1
  <2>4. Op.kind = "Entry" => pc' = "refresh"
    BY <2>1
  <2>5. pc' \notin Quiet
    BY <2>2 DEF Quiet, Boot
  <2> QED
    BY <2>2, <2>3, <2>4, <2>5
<1>9. AnswersOK'
  <2>1. out' = out /\ Op'.txs = new.txs
    BY <1>5, <1>7 DEF memVars, Op
  <2>2. out \in [DOMAIN out -> Answer] /\ DOMAIN out \subseteq DOMAIN Op.txs
    BY <1>0 DEF ExecInv, AnswersOK
  <2> QED
    BY <1>4, <1>8, <2>1, <2>2 DEF AnswersOK
<1>10. /\ Op.kind = "Entry" => pc' \in EntryPlace
       /\ Op.kind = "Exit" => pc' \in ExitPlace /\ pc \in Selling
  BY <1>0, <1>8 DEF EntryPlace, ExitPlace, Selling
<1>11. nonce' \in Nat /\ stop' \in BOOLEAN /\ bad' \in BOOLEAN /\ faults' \in Nat /\ ChainTyped' /\ signed' = signed
  BY <1>5 DEF memVars, ExecInv, Scalars, ChainTyped, chainVars
<1> QED
  BY <1>0, <1>5, <1>6, <1>8, <1>9, <1>10, <1>11, WorkKeeps DEF memVars

LEMMA RefreshNonceKeeps ==
  ASSUME ExecInv, RefreshNonce
  PROVE  ExecInv'
<1>0. pc = "refresh" /\ pc' = "settle" /\ pc \notin Quiet /\ pc' \notin Quiet /\ Op.kind = "Entry"
  BY KindIs DEF RefreshNonce, Quiet, Boot
<1>1. nonce' \in Nat /\ stop' \in BOOLEAN /\ bad' \in BOOLEAN /\ faults' \in Nat /\ ChainTyped' /\ signed' = signed
  <2>1. PendingCount \in Nat
    BY PendingCountNat DEF ExecInv
  <2>2. nonce \in Nat /\ stop \in BOOLEAN /\ bad \in BOOLEAN /\ faults \in Nat
    BY DEF ExecInv, Scalars
  <2>3. ChainTyped' /\ signed' = signed
    BY DEF RefreshNonce, ExecInv, ChainTyped, chainVars
  <2>4. stop' = stop /\ (bad' = bad \/ bad' = TRUE) /\ (faults' = faults \/ faults' = faults + 1)
        /\ (nonce' = nonce \/ nonce' = PendingCount)
    BY DEF RefreshNonce, Fault
  <2>5. bad' \in BOOLEAN
    BY <2>2, <2>4
  <2>6. stop' \in BOOLEAN
    BY <2>2, <2>4
  <2>7. nonce' \in Nat /\ faults' \in Nat
    BY <2>1, <2>2, <2>4
  <2> QED
    BY <2>3, <2>5, <2>6, <2>7
<1>2. UNCHANGED <<ops, positions, saved, closing, queue, cur, job, out, rec, aged>> /\ Rewrites(cur)
  BY DEF RefreshNonce, Rewrites
<1>3. AnswersOK'
  <2>1. Op' = Op /\ Last' = Last
    BY <1>2 DEF Op, Last
  <2> QED
    BY <1>0, <1>2, <2>1 DEF ExecInv, AnswersOK
<1>4. pc' \in EntryPlace /\ pc \notin {"flush", "apply"} /\ Op.kind # "Exit"
  BY <1>0 DEF EntryPlace
<1> QED
  BY <1>0, <1>1, <1>2, <1>3, <1>4, WorkKeeps

\* The operation in hand gets its final state, or keeps the one it has.
LEMMA StateRewrites ==
  ASSUME ExecInv, pc \notin Quiet, NEW state \in OperationState,
         UNCHANGED ops \/ Put(cur, WithState(Op, state)), signed' = signed
  PROVE  Rewrites(cur)
<1> DEFINE new == WithState(Op, state)
<1>1. cur \in DOMAIN ops /\ Op = ops[cur] /\ Op \in OpRecord
  BY CurIs
<1>2. Same(new, Op) /\ new.txs = Op.txs
  BY <1>1, WithStateIs
<1>3. UNCHANGED ops \/ Put(cur, new)
  OBVIOUS
<1> HIDE DEF new
<1> QED
  BY <1>1, <1>2, <1>3, PutRewrites DEF ExecInv, Rewrites

LEMMA NoFillKeeps ==
  ASSUME ExecInv, NoFill
  PROVE  ExecInv'
<1>0. pc = "settle" /\ pc \notin Quiet /\ Return(TRUE) /\ TRUE \in BOOLEAN
  BY DEF NoFill, Quiet, Boot
<1>1. Rewrites(cur)
  <2>1. "Failed" \in OperationState
    BY DEF OperationState
  <2>2. UNCHANGED ops \/ Put(cur, WithState(Op, "Failed"))
    BY DEF NoFill
  <2>3. signed' = signed
    BY DEF NoFill, chainVars
  <2> QED
    BY <1>0, <2>1, <2>2, <2>3, StateRewrites
<1>2. stop' = stop \/ stop' = TRUE
  BY DEF NoFill, Halt
<1>3. nonce' \in Nat /\ faults' \in Nat /\ ChainTyped' /\ signed' = signed
  BY DEF ExecInv, Scalars, ChainTyped, NoFill, chainVars
<1>4. stop' \in BOOLEAN
  BY <1>2 DEF ExecInv, Scalars
<1> QED
  BY <1>0, <1>1, <1>3, <1>4, DoneKeeps DEF NoFill

LEMMA RecordAppliedKeeps ==
  ASSUME ExecInv, RecordApplied
  PROVE  ExecInv'
<1>0. pc = "apply" /\ pc \notin Quiet /\ Return(FALSE) /\ FALSE \in BOOLEAN
  BY DEF RecordApplied, Quiet, Boot
<1>1. Rewrites(cur)
  <2>1. "Applied" \in OperationState
    BY DEF OperationState
  <2>2. UNCHANGED ops \/ Put(cur, WithState(Op, "Applied"))
    BY DEF RecordApplied
  <2>3. signed' = signed
    BY DEF RecordApplied, chainVars
  <2> QED
    BY <1>0, <2>1, <2>2, <2>3, StateRewrites
<1>2. stop' = stop \/ stop' = TRUE
  BY DEF RecordApplied, Halt
<1>3. nonce' \in Nat /\ faults' \in Nat /\ ChainTyped' /\ signed' = signed
  BY DEF ExecInv, Scalars, ChainTyped, RecordApplied, chainVars
<1>4. stop' \in BOOLEAN
  BY <1>2 DEF ExecInv, Scalars
<1> QED
  BY <1>0, <1>1, <1>3, <1>4, DoneKeeps DEF RecordApplied

LEMMA FailExitKeeps ==
  ASSUME ExecInv, FailExit
  PROVE  ExecInv'
<1>0. pc = "fail" /\ pc \notin Quiet /\ Return(FALSE) /\ FALSE \in BOOLEAN
  BY DEF FailExit, Quiet, Boot
<1>1. Rewrites(cur)
  <2>1. "Failed" \in OperationState
    BY DEF OperationState
  <2>2. UNCHANGED ops \/ Put(cur, WithState(Op, "Failed"))
    BY DEF FailExit
  <2>3. signed' = signed
    BY DEF FailExit, chainVars
  <2> QED
    BY <1>0, <2>1, <2>2, <2>3, StateRewrites
<1>2. nonce' \in Nat /\ stop' \in BOOLEAN /\ faults' \in Nat /\ ChainTyped' /\ signed' = signed
  BY DEF ExecInv, Scalars, ChainTyped, FailExit, chainVars
<1> QED
  BY <1>0, <1>1, <1>2, DoneKeeps DEF FailExit

LEMMA FlushFailsKeeps ==
  ASSUME ExecInv, FlushFails
  PROVE  ExecInv'
<1>0. pc \notin Quiet /\ Return(TRUE) /\ TRUE \in BOOLEAN
  BY DEF FlushFails, Quiet, Boot
<1>1. Rewrites(cur)
  BY DEF FlushFails, Rewrites
<1>2. nonce' \in Nat /\ stop' \in BOOLEAN /\ faults' \in Nat /\ ChainTyped' /\ signed' = signed
  BY DEF ExecInv, Scalars, ChainTyped, FlushFails, Halt, Fault, chainVars
<1> QED
  BY <1>0, <1>1, <1>2, DoneKeeps DEF FlushFails

\* Between two places of the program nothing but the place changes.
LEMMA GoKeeps ==
  ASSUME ExecInv, pc \notin Quiet, pc' \notin Quiet,
         UNCHANGED <<ops, positions, nonce, stop, closing, queue, cur, job, out, bad, rec, aged, chainVars>>,
         saved' = saved \/ saved' = positions, faults' \in Nat,
         pc' \notin {"sign", "armed", "answers", "send", "answer", "confirm"},
         Op.kind = "Entry" => pc' \in EntryPlace /\ (pc \in {"flush", "apply"} => pc' \in {"flush", "apply"}),
         Op.kind = "Exit" => pc' \in ExitPlace /\ (pc' \in Selling => pc \in Selling)
  PROVE  ExecInv'
<1>1. Rewrites(cur) /\ ChainTyped' /\ signed' = signed
  BY DEF Rewrites, ExecInv, ChainTyped, chainVars
<1>2. nonce' \in Nat /\ stop' \in BOOLEAN /\ bad' \in BOOLEAN
  BY DEF ExecInv, Scalars
<1>3. AnswersOK'
  <2>1. Op' = Op
    BY DEF Op
  <2> QED
    BY <2>1 DEF ExecInv, AnswersOK
<1> QED
  BY <1>1, <1>2, <1>3, WorkKeeps

LEMMA FlushKeeps ==
  ASSUME ExecInv, Flush
  PROVE  ExecInv'
<1>1. /\ pc \in {"flush", "charged"} /\ pc \notin Quiet /\ saved' = positions
      /\ pc = "flush" => pc' = "apply"
      /\ pc = "charged" => pc' = "fail"
      /\ UNCHANGED <<ops, positions, memVars, aged, faults, chainVars>>
  BY DEF Flush, Quiet, Boot
<1>2. pc' \notin Quiet /\ pc' \in {"apply", "fail"}
  BY <1>1 DEF Quiet, Boot
<1>3. pc = "charged" => Op.kind = "Exit"
  BY KindIs
<1>4. faults' \in Nat
  BY <1>1 DEF ExecInv, Scalars
<1>5. "apply" \in EntryPlace /\ {"apply", "fail"} \subseteq ExitPlace /\ {"apply", "fail"} \cap Selling = {}
  BY DEF EntryPlace, ExitPlace, Selling
<1>6. /\ Op.kind = "Entry" => pc' = "apply" /\ pc' \in EntryPlace
      /\ Op.kind = "Exit" => pc' \in ExitPlace /\ pc' \notin Selling
  BY <1>1, <1>2, <1>3, <1>5
<1> QED
  BY <1>1, <1>2, <1>4, <1>6, GoKeeps DEF memVars

LEMMA TradeEnds ==
  ASSUME ExecInv, TradeFails \/ BookFails
  PROVE  ExecInv'
<1>1. /\ pc \in {"trade", "book"} /\ pc \notin Quiet /\ pc' = "unwind" /\ pc' \notin Quiet
      /\ UNCHANGED <<ops, positions, saved, memVars, aged, chainVars>>
  BY DEF TradeFails, BookFails, Quiet, Boot
<1>2. Op.kind = "Exit"
  BY <1>1, KindIs
<1>3. faults' \in Nat
  BY DEF ExecInv, Scalars, TradeFails, BookFails, Fault
<1>4. pc' \in ExitPlace /\ pc' \notin Selling
  BY <1>1 DEF ExitPlace, Selling
<1> QED
  BY <1>1, <1>2, <1>3, <1>4, GoKeeps DEF memVars

-----------------------------------------------------------------------------
(* What the owner books *)

\* The owner changes the books in memory: no position is lost, and none that
\* another exit waits for holds less.
LEMMA MoveKeeps ==
  ASSUME ExecInv, pc \notin Quiet, pc' \in {"flush", "charged"}, Op.kind = "Entry" => pc' = "flush",
         UNCHANGED <<ops, saved, nonce, stop, closing, queue, cur, job, out, rec, aged, faults, chainVars>>,
         bad' \in BOOLEAN, Books(positions)',
         \A p \in positions : \E q \in positions' :
           q.id = p.id /\ \A j \in queue : j.pos = p.id => p.held <= q.held
  PROVE  ExecInv'
<1>1. JournalTyped' /\ ChainTyped' /\ Signed' /\ Books(saved)'
  BY DEF ExecInv, JournalTyped, ChainTyped, Signed, Books, chainVars
<1>2. pc' \in PC /\ pc' \notin Quiet /\ pc' \notin Boot /\ pc' \notin Selling
  BY DEF PC, Quiet, Boot, Selling
<1>3. Scalars'
  BY <1>2 DEF ExecInv, Scalars
<1>4. Op' = Op /\ Last' = Last
  BY DEF Op, Last
<1>5. (InEntry' <=> InEntry) /\ (InExit' <=> InExit) /\ Op.kind \in {"Entry", "Exit"}
  BY <1>2, <1>4, CurIs DEF InEntry, InExit
<1>6. OwnerOK'
  <2>1. pc' \in ExitPlace /\ (Op.kind = "Entry" => pc' \in EntryPlace)
    BY DEF EntryPlace, ExitPlace
  <2> QED
    BY <1>2, <1>4, <1>5, <2>1 DEF ExecInv, OwnerOK, InEntry, InExit
<1>7. AnswersOK'
  BY <1>4 DEF ExecInv, AnswersOK
<1>8. OpensOnce'
  <2>1. pc' = "flush" \/ ~ InEntry'
    BY <1>4 DEF InEntry
  <2> QED
    BY <2>1 DEF OpensOnce
<1>9. Claims'
  <2>1. \A j \in queue : Holds(j)'
    <3> SUFFICES ASSUME NEW j \in queue
                 PROVE  Holds(j)'
      OBVIOUS
    <3>1. PICK p \in positions : p.id = j.pos /\ j.qty <= p.held
      BY DEF ExecInv, Claims, Holds
    <3>2. PICK q \in positions' : q.id = p.id /\ p.held <= q.held
      BY <3>1
    <3>3. p \in Position /\ q \in Position /\ j.qty \in Nat
      BY <3>1, <3>2 DEF ExecInv, Books, Claims, Job
    <3>4. j.qty <= q.held
      BY <3>1, <3>2, <3>3 DEF Position
    <3> QED
      BY <3>1, <3>2, <3>4 DEF Holds
  <2>2. closing' \subseteq {p.id : p \in positions'}
    BY DEF ExecInv, Claims
  <2> QED
    BY <1>2, <1>5, <2>1, <2>2 DEF ExecInv, Claims
<1> QED
  BY <1>1, <1>3, <1>6, <1>7, <1>8, <1>9 DEF ExecInv

LEMMA OpenPositionKeeps ==
  ASSUME ExecInv, OpenPosition
  PROVE  ExecInv'
<1>0. pc = "settle" /\ pc \notin Quiet /\ Op.kind = "Entry" /\ InEntry /\ pc' = "flush"
  BY KindIs DEF OpenPosition
<1>1. /\ cur \in DOMAIN ops /\ Op = ops[cur] /\ Op \in OpRecord /\ Last \in Nat
      /\ DOMAIN Op.txs = 1 .. Last
  BY <1>0, CurIs
<1> DEFINE entry == Min(Fills)
           fills == Cardinality(Fills)
           gas == OperationGas(Op)
           p == NewPosition(cur, "live", entry, fills, gas)
<1>2. entry \in Nat /\ fills \in Nat
  <2>1. Fills \subseteq DOMAIN Op.txs
    BY <1>0 DEF ExecInv, AnswersOK, Fills
  <2>2. Fills \in SUBSET Nat /\ Fills # {} /\ \A k \in Fills : k <= Last
    BY <1>1, <2>1 DEF OpenPosition
  <2> QED
    BY <1>1, <2>2, ChosenIs
<1>3. gas \in Nat
  BY <1>1, GasType
<1>4. positions' = positions \cup {p} /\ bad' \in BOOLEAN
  BY DEF OpenPosition, ExecInv, Scalars
<1> HIDE DEF entry, fills, gas
<1>5. p \in Position /\ p.id[1] = cur /\ p.entry[1] = cur
  <2>1. p = NewPosition(cur, "live", entry, fills, gas) /\ JournalTyped
    BY DEF ExecInv
  <2>2. cur \in DOMAIN ops /\ ops[cur].kind = "Entry" /\ "live" \in {"live", "recover"}
    BY <1>0, <1>1
  <2> HIDE DEF p
  <2> QED
    BY <1>2, <1>3, <2>1, <2>2, NewPositionIs
<1> HIDE DEF p
<1>6. UNCHANGED <<ops, saved, nonce, stop, closing, queue, cur, job, out, rec, aged, faults, chainVars>>
  BY DEF OpenPosition
<1>7. Books(positions)'
  <2>1. \A q \in positions : q.id[1] # p.id[1]
    BY <1>0, <1>5 DEF ExecInv, OpensOnce
  <2>2. p.id[1] = p.entry[1] /\ p.id[1] \in DOMAIN ops /\ DOMAIN ops' = DOMAIN ops
    BY <1>1, <1>5, <1>6
  <2> QED
    BY <1>4, <1>5, <2>1, <2>2, JoinKeeps DEF ExecInv
<1>8. \A r \in positions : \E q \in positions' :
        q.id = r.id /\ \A j \in queue : j.pos = r.id => r.held <= q.held
  <2>1. \A r \in positions : r.held \in Nat
    BY DEF ExecInv, Books, Position
  <2> QED
    BY <1>4, <2>1
<1> QED
  BY <1>0, <1>4, <1>6, <1>7, <1>8, MoveKeeps

\* The position of the exit in hand, changed by the owner.
LEMMA ExitMoves ==
  ASSUME ExecInv, InExit, pc' \in {"flush", "charged"},
         NEW p \in positions, p.id = job.pos, NEW q \in Position, q.id = p.id, q.entry = p.entry,
         Update(p, q),
         UNCHANGED <<ops, saved, nonce, stop, closing, queue, cur, job, out, bad, rec, aged, faults, chainVars>>
  PROVE  ExecInv'
<1>1. /\ Books(positions)' /\ q \in positions'
      /\ \A r \in positions : r # p => r \in positions'
  BY UpdateKeeps DEF ExecInv
<1>2. \A r \in positions : \E s \in positions' :
        s.id = r.id /\ \A j \in queue : j.pos = r.id => r.held <= s.held
  <2> SUFFICES ASSUME NEW r \in positions
               PROVE  \E s \in positions' : s.id = r.id /\ \A j \in queue : j.pos = r.id => r.held <= s.held
    OBVIOUS
  <2>1. CASE r = p
    <3>1. \A j \in queue : j.pos # r.id
      BY <2>1 DEF ExecInv, Claims
    <3> QED
      BY <1>1, <2>1, <3>1
  <2>2. CASE r # p
    <3>1. r.held \in Nat
      BY DEF ExecInv, Books, Position
    <3> QED
      BY <1>1, <2>2, <3>1
  <2> QED
    BY <2>1, <2>2
<1>3. pc \notin Quiet /\ Op.kind = "Exit" /\ bad' \in BOOLEAN
  BY DEF InExit, ExecInv, Scalars
<1> QED
  BY <1>1, <1>2, <1>3, MoveKeeps

\* The exit in hand has its position.
LEMMA JobIs ==
  ASSUME ExecInv, InExit
  PROVE  /\ job \in Job /\ Known(job.pos) /\ Pos(job.pos) \in positions
         /\ Pos(job.pos).id = job.pos /\ Pos(job.pos) \in Position
<1>1. job \in Job /\ job.pos \in {p.id : p \in positions}
  BY DEF ExecInv, OwnerOK, Claims
<1>2. Known(job.pos)
  BY <1>1 DEF Known
<1> QED
  BY <1>1, <1>2, KnownIs DEF ExecInv

LEMMA BookExitKeeps ==
  ASSUME ExecInv, BookExit
  PROVE  ExecInv'
<1>0. pc = "book" /\ pc \notin Quiet /\ Op.kind = "Exit" /\ InExit
  BY KindIs DEF BookExit
<1>1. cur \in Nat /\ Op \in OpRecord /\ Last \in Nat /\ cur \in DOMAIN ops
  BY <1>0, CurIs
<1>2. CASE Known(job.pos) /\ Open(Pos(job.pos))
  <2> DEFINE p == Pos(job.pos)
             qty == job.qty
             h == <<cur, Last>>
             gas == OperationGas(Op)
             q == ApplyExit(p, qty, h, gas)
  <2>1. p \in positions /\ p \in Position /\ p.id = job.pos /\ qty \in Nat
    BY <1>0, JobIs DEF Job
  <2>2. h \in Hash /\ gas \in Nat
    BY <1>1, GasType DEF Hash
  <2>3. /\ Update(p, q) /\ pc' = "flush"
        /\ UNCHANGED <<ops, saved, nonce, stop, closing, queue, cur, job, out, bad, rec, aged, faults, chainVars>>
    BY <1>2 DEF BookExit
  <2> HIDE DEF p, qty, h, gas
  <2>4. q \in Position /\ q.id = p.id /\ q.entry = p.entry
    <3>1. q = ApplyExit(p, qty, h, gas)
      OBVIOUS
    <3> HIDE DEF q
    <3>2. SoldFrom(q, p, qty, h, gas)
      BY <2>1, <2>2, <3>1, ApplyExitIs
    <3> QED
      BY <3>2 DEF SoldFrom
  <2> HIDE DEF q
  <2> QED
    BY <1>0, <2>1, <2>3, <2>4, ExitMoves
<1>3. CASE ~ (Known(job.pos) /\ Open(Pos(job.pos)))
  <2>1. Halt(TRUE) /\ Return(TRUE) /\ UNCHANGED positions
    BY <1>3 DEF BookExit
  <2>2. UNCHANGED <<ops, saved, nonce, queue, rec, aged, faults, chainVars>>
    BY DEF BookExit
  <2>3. nonce' \in Nat /\ stop' \in BOOLEAN /\ faults' \in Nat /\ ChainTyped' /\ signed' = signed
    BY <2>1, <2>2 DEF ExecInv, Scalars, ChainTyped, Halt, chainVars
  <2>4. Rewrites(cur) /\ TRUE \in BOOLEAN
    BY <2>2 DEF Rewrites
  <2> QED
    BY <1>0, <2>1, <2>2, <2>3, <2>4, DoneKeeps
<1> QED
  BY <1>2, <1>3

LEMMA UnwindKeeps ==
  ASSUME ExecInv, Unwind
  PROVE  ExecInv'
<1>0. pc = "unwind" /\ pc \notin Quiet /\ Op.kind = "Exit" /\ InExit
  BY KindIs DEF Unwind
<1>1. cur \in Nat /\ Op \in OpRecord
  BY <1>0, CurIs
<1>2. UNCHANGED <<saved, nonce, queue, rec, aged, faults, chainVars>>
  BY DEF Unwind
<1>3. CASE RequiresRecovery(Op)
  <2>1. Halt(TRUE) /\ Return(TRUE) /\ UNCHANGED <<ops, positions>>
    BY <1>3 DEF Unwind
  <2>2. nonce' \in Nat /\ stop' \in BOOLEAN /\ faults' \in Nat /\ ChainTyped' /\ signed' = signed
    BY <1>2, <2>1 DEF ExecInv, Scalars, ChainTyped, Halt, chainVars
  <2>3. Rewrites(cur) /\ TRUE \in BOOLEAN
    BY <2>1 DEF Rewrites
  <2> QED
    BY <1>0, <1>2, <2>1, <2>2, <2>3, DoneKeeps
<1>4. CASE ~ RequiresRecovery(Op) /\ OperationGas(Op) > 0
  <2> DEFINE p == Pos(job.pos)
             gas == OperationGas(Op)
             o == cur
             q == ChargeOverhead(p, o, gas)
  <2>1. p \in positions /\ p \in Position /\ p.id = job.pos /\ gas \in Nat /\ o \in Nat
    BY <1>0, <1>1, JobIs, GasType
  <2>2. /\ Update(p, q) /\ pc' = "charged"
        /\ UNCHANGED <<ops, stop, closing, cur, job, out, bad>>
    BY <1>4 DEF Unwind
  <2> HIDE DEF p, gas, o
  <2>3. q \in Position /\ q.id = p.id /\ q.entry = p.entry
    <3>1. q = ChargeOverhead(p, o, gas)
      OBVIOUS
    <3> HIDE DEF q
    <3>2. Charged(q, p, o, gas)
      BY <2>1, <3>1, ChargeIs
    <3> QED
      BY <3>2 DEF Charged
  <2> HIDE DEF q
  <2> QED
    BY <1>0, <1>2, <2>1, <2>2, <2>3, ExitMoves
<1>5. CASE ~ RequiresRecovery(Op) /\ ~ OperationGas(Op) > 0
  <2>1. pc' = "fail" /\ UNCHANGED <<ops, positions, stop, closing, cur, job, out, bad>>
    BY <1>5 DEF Unwind
  <2>2. pc' \notin Quiet /\ pc' \in ExitPlace /\ pc' \notin Selling /\ faults' \in Nat
    BY <1>2, <2>1 DEF Quiet, Boot, ExitPlace, Selling, ExecInv, Scalars
  <2>3. pc' \notin {"sign", "armed", "answers", "send", "answer", "confirm"} /\ Op.kind # "Entry"
    BY <1>0, <2>1
  <2> QED
    BY <1>0, <1>2, <2>1, <2>2, <2>3, GoKeeps
<1> QED
  BY <1>3, <1>4, <1>5


-----------------------------------------------------------------------------
(* Exits *)

LEMMA DecideExitKeeps ==
  ASSUME ExecInv, NEW p \in positions, NEW qty \in 1 .. p.held, DecideExit(p, qty)
  PROVE  ExecInv'
<1> DEFINE j == [pos |-> p.id, qty |-> qty]
<1>1. /\ UNCHANGED <<ops, positions, saved, nonce, stop, pc, cur, job, out, bad, rec, aged, faults, chainVars>>
      /\ closing' = closing \cup {p.id} /\ queue' = queue \cup {j}
      /\ p.id \notin closing /\ pc \notin Boot
  BY DEF DecideExit, Closable, Running
<1>2. JournalTyped' /\ ChainTyped' /\ Signed' /\ Books(positions)' /\ Books(saved)' /\ Scalars'
  BY <1>1 DEF ExecInv, JournalTyped, ChainTyped, Signed, Books, Scalars, chainVars
<1>3. OwnerOK' /\ AnswersOK' /\ OpensOnce'
  BY <1>1 DEF ExecInv, OwnerOK, AnswersOK, OpensOnce, InEntry, InExit, Op, Last
<1>4. j \in Job /\ j.pos = p.id /\ j.qty = qty /\ qty <= p.held
  <2>1. p.id \in PosId /\ p.held \in Nat
    BY DEF ExecInv, Books, Position, PosId
  <2> QED
    BY <2>1 DEF Job
<1> HIDE DEF j
<1>5. Claims'
  <2>1. \A i \in queue : i.pos # p.id
    BY <1>1 DEF ExecInv, Claims
  <2>2. InExit' <=> InExit
    BY <1>1 DEF InExit, Op
  <2>3. InExit => job.pos # p.id
    BY <1>1 DEF ExecInv, Claims
  <2>4. \A i \in queue : Holds(i)' <=> Holds(i)
    BY <1>1 DEF Holds
  <2>5. Holds(j)' /\ (Holds(job)' <=> Holds(job))
    BY <1>1, <1>4 DEF Holds
  <2>6. closing' \subseteq {q.id : q \in positions'}
    BY <1>1 DEF ExecInv, Claims
  <2>7. \A i \in queue' : i \in Job /\ i.pos \in closing' /\ Holds(i)'
    <3>1. \A i \in queue : i \in Job /\ i.pos \in closing /\ Holds(i)
      BY DEF ExecInv, Claims
    <3> QED
      BY <1>1, <1>4, <2>4, <2>5, <3>1
  <2>8. \A i, k \in queue' : i.pos = k.pos => i = k
    <3>1. \A i, k \in queue : i.pos = k.pos => i = k
      BY DEF ExecInv, Claims
    <3> QED
      BY <1>1, <1>4, <2>1, <3>1
  <2>9. InExit' => job'.pos \in closing' /\ \A i \in queue' : i.pos # job'.pos
    <3>1. InExit => job.pos \in closing /\ \A i \in queue : i.pos # job.pos
      BY DEF ExecInv, Claims
    <3> QED
      BY <1>1, <1>4, <2>2, <2>3, <3>1
  <2>10. InExit' /\ pc' \in Selling => Holds(job)'
    <3>1. InExit /\ pc \in Selling => Holds(job)
      BY DEF ExecInv, Claims
    <3>2. job' = job /\ pc' = pc
      BY <1>1
    <3>3. Holds(job)' <=> Holds(job)
      BY <1>1 DEF Holds
    <3> QED
      BY <2>2, <3>1, <3>2, <3>3
  <2>11. pc' \notin Boot
    BY <1>1
  <2> QED
    BY <2>6, <2>7, <2>8, <2>9, <2>10, <2>11 DEF Claims
<1> QED
  BY <1>2, <1>3, <1>5 DEF ExecInv

LEMMA BeginExitKeeps ==
  ASSUME ExecInv, NEW j \in queue, BeginExit(j)
  PROVE  ExecInv'
<1>0. pc = "idle" /\ pc \in Quiet /\ pc \notin Boot /\ queue' = queue \ {j}
  BY DEF BeginExit, Quiet, Boot
<1>1. /\ UNCHANGED <<positions, saved, nonce, closing, out, bad, rec, aged, faults, chainVars>>
      /\ out = <<>> /\ job = NoJob /\ cur = 0
  BY <1>0 DEF BeginExit, ExecInv, OwnerOK
<1>2. /\ j \in Job /\ j.pos \in PosId /\ j.pos \in closing /\ Holds(j)
      /\ \A i \in queue' : i \in queue /\ i.pos # j.pos
  <2>1. \A i \in queue : i.pos = j.pos => i = j
    BY DEF ExecInv, Claims
  <2>2. j \in Job /\ j.pos \in PosId /\ j.pos \in closing /\ Holds(j)
    BY DEF ExecInv, Claims, Job
  <2> QED
    BY <1>0, <2>1, <2>2
<1>3. CASE PendingSubject(ops, "Exit", j.pos)
  <2>1. Halt(TRUE) /\ UNCHANGED <<ops, pc, cur, job>>
    BY <1>3 DEF BeginExit
  <2>2. JournalTyped' /\ ChainTyped' /\ Signed' /\ Books(positions)' /\ Books(saved)' /\ Scalars'
    BY <1>1, <2>1 DEF ExecInv, JournalTyped, ChainTyped, Signed, Books, Scalars, chainVars, Halt
  <2>3. OwnerOK' /\ AnswersOK' /\ OpensOnce'
    BY <1>0, <1>1, <2>1 DEF ExecInv, OwnerOK, AnswersOK, OpensOnce, InEntry, InExit, Op, Last
  <2>4. Claims'
    BY <1>0, <1>1, <1>2, <2>1 DEF ExecInv, Claims, InExit, Holds
  <2> QED
    BY <2>2, <2>3, <2>4 DEF ExecInv
<1>4. CASE ~ PendingSubject(ops, "Exit", j.pos)
  <2> DEFINE op == [kind |-> "Exit", subject |-> j.pos, state |-> "Pending", txs |-> <<>>]
  <2>1. ops' = Append(ops, op) /\ cur' = Len(ops) + 1 /\ job' = j /\ pc' = "trade" /\ stop' = stop
    BY <1>4 DEF BeginExit
  <2>2. op \in OpRecord /\ op.kind = "Exit" /\ op.subject = j.pos /\ op.txs = <<>>
    BY <1>2, FreshIs
  <2> HIDE DEF op
  <2>3. op.subject \in IF op.kind = "Entry" THEN Token ELSE PosId
    BY <1>2, <2>2
  <2>4. stop' \in BOOLEAN /\ pc' \in PC
    BY <2>1 DEF ExecInv, Scalars, PC
  <2>5. /\ JournalTyped' /\ ChainTyped' /\ Signed' /\ Books(positions)' /\ Books(saved)' /\ Scalars'
        /\ cur' \in DOMAIN ops' /\ Op' = op
    BY <1>1, <2>1, <2>2, <2>3, <2>4, BeginIs
  <2>6. Op'.kind = "Exit" /\ Op'.txs = <<>> /\ Op'.subject = j.pos
    BY <2>2, <2>5
  <2>7. pc' \notin Quiet /\ pc' \notin Boot /\ pc' \in ExitPlace
    BY <2>1 DEF Quiet, Boot, ExitPlace
  <2>8. OwnerOK'
    BY <1>2, <2>1, <2>5, <2>6, <2>7 DEF OwnerOK, InEntry, InExit
  <2>9. AnswersOK'
    BY <1>1, <2>1, <2>6 DEF AnswersOK
  <2>10. OpensOnce'
    BY <2>6 DEF OpensOnce, InEntry
  <2>11. Claims'
    BY <1>1, <1>2, <2>1, <2>7 DEF ExecInv, Claims, InExit, Holds
  <2> QED
    BY <2>5, <2>8, <2>9, <2>10, <2>11 DEF ExecInv
<1> QED
  BY <1>3, <1>4

LEMMA StageSendKeeps ==
  ASSUME ExecInv, NEW step \in {"approval", "sell"}, StageSend(step)
  PROVE  ExecInv'
<1> DEFINE kind == IF step = "approval" THEN "approve" ELSE "sell"
           payload == [kind |-> kind, token |-> Pos(job.pos).token, qty |-> job.qty]
<1>0. pc = "trade" /\ pc \notin Quiet /\ Op.kind = "Exit" /\ InExit /\ pc' = "send" /\ pc' \notin Quiet
  BY KindIs DEF StageSend, Quiet, Boot
<1>1. cur \in DOMAIN ops /\ Op = ops[cur] /\ Last \in Nat /\ DOMAIN Op.txs = 1 .. Last
  BY <1>0, CurIs
<1>2. payload \in [kind : Kind, token : Token, qty : Nat]
  <2>1. kind \in Kind
    BY DEF Kind
  <2>2. Pos(job.pos).token \in Token /\ job.qty \in Nat
    BY <1>0, JobIs DEF Position, Job
  <2> HIDE DEF kind
  <2> QED
    BY <2>1, <2>2
<1>3. step \in Step /\ 1 \in Nat
  BY DEF Step
<1>4. Reserve(step, 1, payload)
  BY DEF StageSend
<1> HIDE DEF payload
<1>5. /\ Rewrites(cur) /\ ChainTyped' /\ DOMAIN signed \subseteq DOMAIN signed' /\ nonce' \in Nat
      /\ Len(ops'[cur].txs) = Last + 1 /\ DOMAIN ops'[cur].txs = 1 .. Last + 1
      /\ DOMAIN out' = Last + 1 .. Last + 1 /\ \A k \in DOMAIN out' : out'[k] = NoAnswer
  BY <1>0, <1>2, <1>3, <1>4, ReserveKeeps
<1>6. AnswersOK'
  <2>1. cur' = cur /\ Op' = ops'[cur] /\ Last' = Last + 1
    BY <1>5 DEF StageSend, Op, Last
  <2>2. out' = [k \in DOMAIN out' |-> out'[k]]
    BY <1>4 DEF Reserve
  <2>3. out' \in [DOMAIN out' -> Answer]
    BY <1>5, <2>2, AnswerTyped
  <2>4. DOMAIN out' = {Last'} /\ Last' \in DOMAIN Op'.txs
    BY <1>1, <1>5, <2>1
  <2>5. Op'.txs # <<>>
    BY <2>4
  <2> QED
    BY <1>0, <2>3, <2>4, <2>5 DEF AnswersOK
<1>7. UNCHANGED <<positions, closing, queue, cur, job, rec, aged>> /\ saved' = saved
  BY DEF StageSend
<1>8. stop' \in BOOLEAN /\ bad' \in BOOLEAN /\ faults' \in Nat
  BY DEF StageSend, ExecInv, Scalars
<1>9. pc' \in ExitPlace /\ pc \in Selling /\ Op.kind # "Entry"
  BY <1>0 DEF ExitPlace, Selling
<1> QED
  BY <1>0, <1>5, <1>6, <1>7, <1>8, <1>9, WorkKeeps

LEMMA SendKeeps ==
  ASSUME ExecInv, Send
  PROVE  ExecInv'
<1>0. pc = "send" /\ pc \notin Quiet /\ Op.kind = "Exit" /\ pc' = "answer" /\ pc' \notin Quiet
  BY KindIs DEF Send, Quiet, Boot
<1>1. PICK o \in Outcome(<<cur, Last>>) : Transmit([k \in {Last} |-> o])
  BY DEF Send
<1> DEFINE outcome == [k \in {Last} |-> o]
<1>2. DOMAIN out = {Last}
  BY <1>0 DEF ExecInv, AnswersOK
<1>3. \A k \in DOMAIN out : outcome[k].ans \in Answered
  BY <1>2, OutcomeIs
<1> HIDE DEF outcome
<1>4. /\ ChainTyped' /\ signed' = signed
      /\ out' \in [DOMAIN out' -> Answer] /\ DOMAIN out' = DOMAIN out
      /\ \A k \in DOMAIN out' : out'[k].ans \in Answered
  <2>1. Transmit(outcome)
    BY <1>1 DEF outcome
  <2> QED
    BY <1>0, <1>3, <2>1, TransmitIs
<1>5. UNCHANGED <<ops, positions, saved, closing, queue, cur, job, rec, aged, nonce, stop, bad, faults>>
  BY DEF Send
<1>6. AnswersOK'
  <2>1. Op' = Op /\ Last' = Last
    BY <1>5 DEF Op, Last
  <2> QED
    BY <1>0, <1>4, <2>1 DEF ExecInv, AnswersOK
<1>7. pc' \in ExitPlace /\ pc \in Selling /\ Op.kind # "Entry"
  BY <1>0 DEF ExitPlace, Selling
<1>8. Rewrites(cur) /\ nonce' \in Nat /\ stop' \in BOOLEAN /\ bad' \in BOOLEAN /\ faults' \in Nat
  BY <1>5 DEF Rewrites, ExecInv, Scalars
<1> QED
  BY <1>0, <1>4, <1>5, <1>6, <1>7, <1>8, WorkKeeps

LEMMA RecordSendKeeps ==
  ASSUME ExecInv, RecordSend
  PROVE  ExecInv'
<1>0. /\ pc = "answer" /\ pc \notin Quiet /\ Op.kind = "Exit" /\ InExit
      /\ pc' \in {"confirm", "unwind"} /\ pc' \notin Quiet
  BY KindIs DEF RecordSend, Quiet, Boot
<1>1. /\ Last \in DOMAIN Op.txs /\ DOMAIN out = {Last} /\ out[Last].ans \in Answered
      /\ out \in [DOMAIN out -> Answer] /\ DOMAIN out \subseteq DOMAIN Op.txs
  BY <1>0 DEF ExecInv, AnswersOK
<1>2. Op \in OpRecord /\ Op.txs[Last] \in TxRecord
  BY <1>0, <1>1, CurIs
<1>3. PICK state \in TxState : Put(cur, Mark(Op, Last, state))
  <2>1. CASE out[Last].ans = "refused"
    <3>1. Put(cur, Mark(Op, Last, IF nonce' = Op.txs[Last].nonce THEN "Rejected" ELSE "Unresolved"))
      BY <2>1 DEF RecordSend
    <3>2. (IF nonce' = Op.txs[Last].nonce THEN "Rejected" ELSE "Unresolved") \in TxState
      BY DEF TxState
    <3> QED
      BY <3>1, <3>2
  <2>2. CASE out[Last].ans # "refused"
    <3>1. Put(cur, Mark(Op, Last, AnswerState(out[Last].ans)))
      BY <2>2 DEF RecordSend
    <3>2. AnswerState(out[Last].ans) \in TxState
      BY <1>1 DEF AnswerState, Answered, TxState
    <3> QED
      BY <3>1, <3>2
  <2> QED
    BY <2>1, <2>2
<1>4. nonce' \in Nat
  <2>1. nonce' = nonce \/ nonce' = Op.txs[Last].nonce
    BY DEF RecordSend, Rewound
  <2> QED
    BY <1>2, <2>1 DEF ExecInv, Scalars, TxRecord
<1>5. UNCHANGED <<positions, saved, stop, closing, queue, cur, job, out, bad, rec, aged, faults, chainVars>>
  BY DEF RecordSend
<1> DEFINE new == Mark(Op, Last, state)
           k == Last
<1>6. Rewritten(new, Op, k)
  <2>1. new = Mark(Op, k, state) /\ k \in DOMAIN Op.txs
    BY <1>1
  <2> HIDE DEF new, k
  <2>2. Marked(new, Op, k, state)
    BY <1>2, <2>1, MarkIs
  <2> QED
    BY <2>2 DEF Marked
<1>7. Put(cur, new) /\ k = Last /\ k \in DOMAIN Op.txs /\ signed' = signed /\ cur' = cur
  BY <1>1, <1>3, <1>5 DEF chainVars
<1> HIDE DEF new, k
<1>8. Rewrites(cur) /\ Op' = new /\ Last' = Last
  BY <1>0, <1>6, <1>7, RecordIs
<1>9. AnswersOK'
  <2>1. DOMAIN new.txs = DOMAIN Op.txs
    BY <1>6 DEF Rewritten
  <2>2. new.txs # <<>>
    BY <1>1, <2>1
  <2>3. out' = out
    BY <1>5
  <2> QED
    BY <1>0, <1>1, <1>8, <2>1, <2>2, <2>3 DEF AnswersOK
<1>10. pc' \in ExitPlace /\ pc \in Selling /\ Op.kind # "Entry"
  BY <1>0 DEF ExitPlace, Selling
<1>11. stop' \in BOOLEAN /\ bad' \in BOOLEAN /\ faults' \in Nat /\ ChainTyped' /\ signed' = signed
  BY <1>5 DEF ExecInv, Scalars, ChainTyped, chainVars
<1> QED
  BY <1>0, <1>4, <1>5, <1>8, <1>9, <1>10, <1>11, WorkKeeps


-----------------------------------------------------------------------------
(* The invariant *)

LEMMA InitExec ==
  ASSUME Init
  PROVE  ExecInv
<1>1. ops \in Seq(OpRecord) /\ DOMAIN ops = {} /\ Len(ops) = 0
  BY DEF Init
<1>2. JournalTyped /\ Signed /\ Books(positions) /\ Books(saved)
  BY <1>1 DEF Init, JournalTyped, Signed, Books
<1>3. ChainTyped
  <2>1. DOMAIN signed = {} /\ signed \in [DOMAIN signed -> SignedTx]
    BY DEF Init, ChainInit
  <2>2. IsFiniteSet(DOMAIN signed)
    BY <2>1, FS_EmptySet
  <2>3. mined \in Seq([tx : DOMAIN signed, ok : BOOLEAN, fork : Nat])
    BY DEF Init, ChainInit
  <2> QED
    BY <2>1, <2>2, <2>3 DEF Init, ChainInit, ChainTyped
<1>4. Scalars
  <2>1. NoRec \in Recovery /\ NoRec.todo = {}
    <3>1. <<>> \in Seq(OpRecord)
      OBVIOUS
    <3> QED
      BY <3>1 DEF NoRec, Recovery
  <2>2. pc \in PC /\ aged \in 0 .. Len(ops)
    BY <1>1 DEF Init, PC
  <2>3. rec \in Recovery /\ rec.todo \subseteq DOMAIN ops
    BY <2>1 DEF Init
  <2> QED
    BY <2>2, <2>3 DEF Init, Scalars
<1>5. pc \in Quiet /\ pc \in Boot
  BY DEF Init, Quiet, Boot
<1>6. OwnerOK /\ AnswersOK /\ OpensOnce /\ Claims
  BY <1>5 DEF Init, OwnerOK, AnswersOK, OpensOnce, Claims, InEntry, InExit
<1> QED
  BY <1>2, <1>3, <1>4, <1>6 DEF ExecInv

LEMMA NextExec ==
  ASSUME ExecInv, [Next]_vars
  PROVE  ExecInv'
<1>1. CASE Entries
  BY <1>1, BeginEntryKeeps, PresignFailsKeeps, PresignKeeps, UnsentKeeps, FireBurstKeeps,
     RecordAnswerKeeps, RefreshNonceKeeps, NoFillKeeps, OpenPositionKeeps DEF Entries
<1>2. CASE Exits
  BY <1>2, DecideExitKeeps, BeginExitKeeps, StageSendKeeps, TradeEnds, SendKeeps, RecordSendKeeps,
     BookExitKeeps, UnwindKeeps, FailExitKeeps DEF Exits
<1>3. CASE Both
  BY <1>3, ConfirmKeeps, RecordReceiptsKeeps, FlushKeeps, FlushFailsKeeps, RecordAppliedKeeps DEF Both
<1>4. CASE Session
  BY <1>4, BackstageKeeps, EndsKeep DEF Session
<1>5. CASE Startup
  BY <1>5, RestartKeeps, RefreshTxKeeps, RecoverAppliedKeeps, RecoverEntryKeeps, RecoverFillKeeps,
     RecoverExitKeeps, RecoverSaleKeeps, RecoverGasKeeps, RecordBookedKeeps, EndsKeep, StartKeeps
  DEF Startup
<1>6. CASE Environment
  BY <1>6, EnvironmentKeeps
<1>7. CASE UNCHANGED vars
  <2>1. UNCHANGED <<ops, signed, positions, pc, cur, job, out, closing, queue>> /\ saved' = saved
    BY <1>7 DEF vars, memVars, chainVars
  <2>2. ChainTyped' /\ Scalars'
    BY <1>7 DEF vars, memVars, chainVars, ExecInv, ChainTyped, Scalars
  <2> QED
    BY <2>1, <2>2, AsideKeeps
<1> QED
  BY <1>1, <1>2, <1>3, <1>4, <1>5, <1>6, <1>7 DEF Next

\* What the owner of the permit holds, at every place of its program.
THEOREM ExecutionInvariant == Spec => []ExecInv
<1>1. Init => ExecInv
  BY InitExec
<1>2. ExecInv /\ [Next]_vars => ExecInv'
  BY NextExec
<1> QED
  BY <1>1, <1>2, PTL DEF Spec

\* Every variable of the execution owner, its journal and the wallet's chain has
\* the type the code gives it, whatever crashes, is lost or is taken back.
THEOREM ExecutionTypeCorrect == Spec => []TypeOK
<1>1. ExecInv => TypeOK
  <2> SUFFICES ASSUME ExecInv
               PROVE  TypeOK
    OBVIOUS
  <2>1. \A o \in DOMAIN ops :
          /\ ops[o].kind \in {"Entry", "Exit"} /\ ops[o].state \in OperationState
          /\ \A k \in DOMAIN ops[o].txs : ops[o].txs[k] \in TxRecord
    BY OpIs DEF ExecInv, OpRecord
  <2>2. \A p \in positions \cup saved : p \in Position
    BY DEF ExecInv, Books
  <2>3. cur \in 0 .. Len(ops)
    <3>1. ops \in Seq(OpRecord) /\ (cur = 0 \/ cur \in DOMAIN ops)
      BY DEF ExecInv, JournalTyped, OwnerOK
    <3> QED
      BY <3>1
  <2>4. ChainTypeOK
    <3>1. \A h \in DOMAIN signed : signed[h] \in SignedTx
      BY DEF ExecInv, ChainTyped
    <3>2. \A i \in DOMAIN mined : mined[i] \in [tx : DOMAIN signed, ok : BOOLEAN, fork : Nat]
      BY ElementIs DEF ExecInv, ChainTyped
    <3> QED
      BY <3>1, <3>2 DEF ExecInv, ChainTyped, ChainTypeOK, SignedTx
  <2>5. closing \subseteq {p.id : p \in positions}
    BY DEF ExecInv, Claims
  <2> QED
    BY <2>1, <2>2, <2>3, <2>4, <2>5 DEF ExecInv, Scalars, TypeOK
<1> QED
  BY <1>1, ExecutionInvariant, PTL

\* The quantity an exit read before it waited for the permit is still there when
\* it sells: the CloseGuard keeps every other sale off the position, through any
\* number of positions, queued exits, failures and restarts.
THEOREM SnapshotsStayCurrent == Spec => []SnapshotCurrent
<1>1. ExecInv => SnapshotCurrent
  <2> SUFFICES ASSUME ExecInv,
                      NEW j \in queue \cup (IF pc \in {"trade", "send", "answer", "book"} THEN {job} ELSE {})
               PROVE  Known(j.pos) /\ j.qty <= Pos(j.pos).held
    BY DEF SnapshotCurrent
  <2>1. Holds(j)
    <3>1. CASE j \in queue
      BY <3>1 DEF ExecInv, Claims
    <3>2. CASE j \notin queue
      <4>1. j = job /\ pc \in {"trade", "send", "answer", "book"}
        BY <3>2
      <4>2. InExit /\ pc \in Selling
        BY <4>1, KindIs DEF Selling
      <4> QED
        BY <4>1, <4>2 DEF ExecInv, Claims
    <3> QED
      BY <3>1, <3>2
  <2>2. PICK p \in positions : p.id = j.pos /\ j.qty <= p.held
    BY <2>1 DEF Holds
  <2>3. Pos(p.id) = p /\ Known(p.id)
    BY <2>2, PosIs DEF ExecInv
  <2> QED
    BY <2>2, <2>3
<1> QED
  BY <1>1, ExecutionInvariant, PTL

-----------------------------------------------------------------------------
(* Gas.  An exit's gas is paid for out of the journal, which copies receipts. *)
(* Without a reorg what it copied stays true, so what a position is charged   *)
(* is bounded by what its exits have burnt on the chain.                      *)

\* A transaction is mined at its nonce, so once.
MinedInOrder == \A i \in DOMAIN mined : Nonce(mined[i].tx) = i - 1

\* What has been signed is in the journal, with its nonce.
Journaled ==
  \A h \in DOMAIN signed : \E o \in DOMAIN ops : \E k \in DOMAIN ops[o].txs :
    h = <<o, k>> /\ ops[o].txs[k].nonce = Nonce(h)

\* What the journal says of a transaction is what became of it.
Accurate(h, tx) ==
  /\ tx.gas \in {0, 1} /\ (tx.gas = 1 => Landed(h))
  /\ tx.state = "Confirmed" => Landed(h) /\ Status(h)
  /\ tx.state = "Reverted" => Landed(h) /\ ~ Status(h)

AccurateJournal ==
  \A o \in DOMAIN ops : \A k \in DOMAIN ops[o].txs : Accurate(<<o, k>>, ops[o].txs[k])

AccurateAnswer(h, r) ==
  /\ r.ans = "confirmed" => Landed(h) /\ Status(h)
  /\ r.ans = "reverted" => Landed(h) /\ ~ Status(h)

AccurateAnswers == pc \notin Quiet => \A k \in DOMAIN out : AccurateAnswer(<<cur, k>>, out[k])

Receipts == MinedInOrder /\ Journaled /\ AccurateJournal /\ AccurateAnswers

-----------------------------------------------------------------------------
\* The operations a position has paid for.
PaidBy(p) == p.overhead \cup {h[1] : h \in p.exits}
Burnt(S) == {h \in DOMAIN signed : h[1] \in S /\ Landed(h)}

\* It sold nothing, and will not.
NoSale(h, tx) ==
  tx.step = "sell" => tx.state \in {"Rejected", "Dropped"} \/ (Landed(h) /\ ~ Status(h))
Saleless(o) == \A k \in DOMAIN ops[o].txs : NoSale(<<o, k>>, ops[o].txs[k])

GasOK(p) ==
  /\ PaidBy(p) \subseteq ExitsOf(p)
  /\ p.exitGas <= Cardinality(Burnt(PaidBy(p)))
  /\ \A o \in p.overhead : Saleless(o)

\* The exit in hand, until it is paid for.
Working == Selling \cup {"unwind"}
Unpaid ==
  InExit /\ pc \in Working =>
    Op.state = "Pending" /\ \A p \in positions \cup saved : cur \notin PaidBy(p)

\* What startup read of an operation it has yet to decide still holds.
BootKept ==
  pc = "boot" =>
    \A o \in rec.todo : o \in DOMAIN rec.snap /\ ops[o].state = rec.snap[o].state

GasInv == (\A p \in positions \cup saved : GasOK(p)) /\ Unpaid /\ BootKept

-----------------------------------------------------------------------------
(* What a step may do to the chain and to the journal *)

\* Nothing signed or mined is taken back.
Grows ==
  /\ \A h \in DOMAIN signed : h \in DOMAIN signed' /\ signed'[h] = signed[h]
  /\ \A i \in DOMAIN mined : i \in DOMAIN mined' /\ mined'[i] = mined[i]

\* The owner is at work on it.
Touched(o) == o = cur /\ (InEntry \/ (InExit /\ pc \in Working))

\* An operation stays the operation it was; only the owner sells.
KeptOp(o) ==
  /\ o \in DOMAIN ops' /\ ops'[o].kind = ops[o].kind /\ ops'[o].subject = ops[o].subject
  /\ Saleless(o) /\ ~ Touched(o) => Saleless(o)'

StepOK == Grows /\ MinedInOrder' /\ Journaled' /\ AccurateJournal' /\ \A o \in DOMAIN ops : KeptOp(o)

LEMMA LandedStays ==
  ASSUME ChainTyped, MinedInOrder', Grows, NEW h, Landed(h), ChainTyped'
  PROVE  Landed(h)' /\ Status(h)' = Status(h)
<1>1. Height(h) \in DOMAIN mined /\ mined[Height(h)].tx = h
  BY DEF Landed, Height
<1>2. Height(h) \in DOMAIN mined' /\ mined'[Height(h)] = mined[Height(h)]
  BY <1>1 DEF Grows
<1>3. Landed(h)'
  BY <1>1, <1>2 DEF Landed
<1>4. Height(h)' \in DOMAIN mined' /\ mined'[Height(h)'].tx = h
  BY <1>3 DEF Landed, Height
<1>5. Height(h) \in Nat /\ Height(h)' \in Nat
  BY <1>1, <1>4, ElementIs DEF ChainTyped
<1>6. signed'[h].nonce = Height(h) - 1 /\ signed'[h].nonce = Height(h)' - 1
  <2>1. \A i \in DOMAIN mined' : signed'[mined'[i].tx].nonce = i - 1
    BY DEF MinedInOrder, Nonce
  <2> QED
    BY <1>1, <1>2, <1>4, <2>1
<1>7. Height(h)' = Height(h)
  BY <1>5, <1>6
<1> QED
  BY <1>2, <1>3, <1>7 DEF Status

\* An operation's record rewritten, without a word that is not true.
Honest(o, op) ==
  /\ Same(op, ops[o]) /\ DOMAIN op.txs = DOMAIN ops[o].txs
  /\ \A k \in DOMAIN op.txs :
       /\ op.txs[k].step = ops[o].txs[k].step /\ op.txs[k].nonce = ops[o].txs[k].nonce
       /\ Accurate(<<o, k>>, op.txs[k])
       /\ Touched(o) \/ (NoSale(<<o, k>>, ops[o].txs[k]) => NoSale(<<o, k>>, op.txs[k]))

LEMMA HonestPut ==
  ASSUME JournalTyped, Receipts, NEW o \in DOMAIN ops, NEW op, Put(o, op), Honest(o, op),
         UNCHANGED <<signed, mined>>
  PROVE  StepOK
<1>1. /\ DOMAIN ops' = DOMAIN ops /\ ops'[o] = op /\ \A p \in DOMAIN ops \ {o} : ops'[p] = ops[p]
      /\ ops'[o].kind = ops[o].kind /\ ops'[o].subject = ops[o].subject
  BY PutKeeps DEF Honest, Same
<1>2. Grows /\ MinedInOrder'
  BY DEF Grows, Receipts, MinedInOrder, Nonce
<1>3. \A h : (Landed(h)' <=> Landed(h)) /\ Status(h)' = Status(h) /\ Nonce(h)' = Nonce(h)
  BY DEF Landed, Status, Height, Nonce
<1>4. Journaled'
  <2> SUFFICES ASSUME NEW h \in DOMAIN signed
               PROVE  \E p \in DOMAIN ops' : \E k \in DOMAIN ops'[p].txs :
                        h = <<p, k>> /\ ops'[p].txs[k].nonce = Nonce(h)
    BY <1>3 DEF Journaled
  <2>0. PICK p \in DOMAIN ops : \E k \in DOMAIN ops[p].txs : h = <<p, k>> /\ ops[p].txs[k].nonce = Nonce(h)
    BY DEF Receipts, Journaled
  <2>1. PICK k \in DOMAIN ops[p].txs : h = <<p, k>> /\ ops[p].txs[k].nonce = Nonce(h)
    BY <2>0
  <2>2. k \in DOMAIN ops'[p].txs /\ ops'[p].txs[k].nonce = ops[p].txs[k].nonce
    BY <1>1 DEF Honest
  <2> QED
    BY <1>1, <2>1, <2>2
<1>5. AccurateJournal'
  <2> SUFFICES ASSUME NEW p \in DOMAIN ops, NEW k \in DOMAIN ops'[p].txs
               PROVE  Accurate(<<p, k>>, ops'[p].txs[k])
    BY <1>1, <1>3 DEF AccurateJournal, Accurate
  <2> QED
    BY <1>1 DEF Honest, Receipts, AccurateJournal
<1>6. ASSUME NEW p \in DOMAIN ops
      PROVE  KeptOp(p)
  <2>1. p \in DOMAIN ops' /\ ops'[p].kind = ops[p].kind /\ ops'[p].subject = ops[p].subject
    BY <1>1
  <2>2. ASSUME Saleless(p), ~ Touched(p), NEW k \in DOMAIN ops'[p].txs
        PROVE  NoSale(<<p, k>>, ops'[p].txs[k])
    BY <1>1, <2>2 DEF Honest, Saleless
  <2>3. Saleless(p) /\ ~ Touched(p) => Saleless(p)'
    BY <1>3, <2>2 DEF Saleless, NoSale
  <2> QED
    BY <2>1, <2>3 DEF KeptOp
<1> QED
  BY <1>2, <1>4, <1>5, <1>6 DEF StepOK

\* One transaction's record, rewritten.
LEMMA HonestRewrite ==
  ASSUME Receipts, NEW o \in DOMAIN ops, NEW k, NEW op, Rewritten(op, ops[o], k),
         Accurate(<<o, k>>, op.txs[k]),
         Touched(o) \/ (NoSale(<<o, k>>, ops[o].txs[k]) => NoSale(<<o, k>>, op.txs[k]))
  PROVE  Honest(o, op)
BY DEF Receipts, AccurateJournal, Rewritten, Honest

LEMMA HonestState ==
  ASSUME JournalTyped, Receipts, NEW o \in DOMAIN ops, NEW state \in OperationState, NEW op,
         op = WithState(ops[o], state)
  PROVE  Honest(o, op)
<1>1. Same(op, ops[o]) /\ op.txs = ops[o].txs
  BY OpIs, WithStateIs
<1> QED
  BY <1>1 DEF Honest, Receipts, AccurateJournal

\* The journal stays as it is while the chain grows.
LEMMA GrowsOnly ==
  ASSUME ChainTyped, ChainTyped', Receipts, ops' = ops, signed' = signed, Grows, MinedInOrder'
  PROVE  StepOK
<1>1. \A h : Landed(h) => Landed(h)' /\ Status(h)' = Status(h)
  BY LandedStays
<1>2. \A h : Nonce(h)' = Nonce(h)
  BY DEF Nonce
<1>3. Journaled'
  BY <1>2 DEF Receipts, Journaled
<1>4. AccurateJournal'
  BY <1>1 DEF Receipts, AccurateJournal, Accurate
<1>5. \A o \in DOMAIN ops : KeptOp(o)
  BY <1>1 DEF KeptOp, Saleless, NoSale
<1> QED
  BY <1>3, <1>4, <1>5 DEF StepOK

LEMMA Untouched ==
  ASSUME ChainTyped, Receipts, UNCHANGED <<ops, signed, mined>>, ChainTyped'
  PROVE  StepOK
<1>1. Grows /\ MinedInOrder'
  BY DEF Grows, Receipts, MinedInOrder, Nonce
<1> QED
  BY <1>1, GrowsOnly

\* Without a reorg the chain only grows, in the order of the nonces.
LEMMA ChainGrows ==
  ASSUME ExecInv, Receipts, MaxReorgs = 0, ChainNext, ops' = ops, ChainTyped'
  PROVE  StepOK
<1>0. forks \in Nat /\ mined \in Seq([tx : DOMAIN signed, ok : BOOLEAN, fork : Nat])
  BY DEF ExecInv, ChainTyped
<1>1. ~ Reorg
  BY <1>0 DEF Reorg
<1>2. signed' = signed
  BY ChainKeeps DEF ExecInv
<1>3. mined' = mined \/ \E h \in pool, ok \in BOOLEAN : Mine(h, ok)
  BY <1>1 DEF ChainNext, Delivery, Inclusion, Arrive, Lose, Evict
<1>4. Grows /\ MinedInOrder'
  <2>1. CASE mined' = mined
    BY <1>2, <2>1 DEF Grows, Receipts, MinedInOrder, Nonce
  <2>2. ASSUME NEW h \in pool, NEW ok \in BOOLEAN, Mine(h, ok)
        PROVE  Grows /\ MinedInOrder'
    <3> DEFINE m == [tx |-> h, ok |-> ok, fork |-> forks]
    <3>1. mined' = Append(mined, m) /\ m.tx = h /\ signed[h].nonce = Len(mined)
      BY <2>2 DEF Mine, Nonce, LatestCount
    <3> HIDE DEF m
    <3>2. /\ DOMAIN mined = 1 .. Len(mined) /\ Len(mined) \in Nat
          /\ DOMAIN mined' = 1 .. Len(mined) + 1 /\ mined'[Len(mined) + 1] = m
          /\ \A i \in DOMAIN mined : mined'[i] = mined[i]
      BY <1>0, <3>1
    <3>3. Grows
      BY <1>2, <3>2 DEF Grows
    <3>4. ASSUME NEW i \in DOMAIN mined'
          PROVE  signed[mined'[i].tx].nonce = i - 1
      <4>1. CASE i \in DOMAIN mined
        BY <3>2, <4>1 DEF Receipts, MinedInOrder, Nonce
      <4>2. CASE i = Len(mined) + 1
        BY <3>1, <3>2, <4>2
      <4> QED
        BY <3>2, <4>1, <4>2
    <3> QED
      BY <1>2, <3>3, <3>4 DEF MinedInOrder, Nonce
  <2> QED
    BY <1>3, <2>1, <2>2
<1> QED
  BY <1>2, <1>4, GrowsOnly DEF ExecInv

\* New transactions are new to the journal.
LEMMA ReserveGrows ==
  ASSUME ExecInv, Receipts, pc \notin Quiet, Touched(cur), NEW step \in Step, NEW n \in Nat,
         NEW payload \in [kind : Kind, token : Token, qty : Nat], Reserve(step, n, payload)
  PROVE  StepOK
<1> DEFINE new == {<<cur, Last + i>> : i \in 1 .. n}
<1>1. /\ Rewrites(cur) /\ ops'[cur] \in OpRecord
      /\ DOMAIN ops'[cur].txs = 1 .. Last + n
      /\ \A k \in 1 .. Last : ops'[cur].txs[k] = Op.txs[k]
      /\ \A i \in 1 .. n : ops'[cur].txs[Last + i] = Staged(step, nonce + i - 1)
  BY ReserveKeeps
<1>2. cur \in DOMAIN ops /\ cur \in Nat /\ Op = ops[cur] /\ Last \in Nat /\ DOMAIN Op.txs = 1 .. Last
  BY CurIs
<1>3. /\ DOMAIN ops' = DOMAIN ops
      /\ \A p \in DOMAIN ops : ops'[p].kind = ops[p].kind /\ ops'[p].subject = ops[p].subject
      /\ \A p \in DOMAIN ops \ {cur} : ops'[p] = ops[p]
  <2>1. DOMAIN signed \subseteq DOMAIN signed'
    BY DEF Reserve
  <2> QED
    BY <1>1, <1>2, <2>1, RewriteKeeps DEF ExecInv
<1>4. DOMAIN signed' = DOMAIN signed \cup new /\ mined' = mined
  BY DEF Reserve
<1>5. \A h \in DOMAIN signed : h \notin new
  <2> SUFFICES ASSUME NEW h \in DOMAIN signed, NEW i \in 1 .. n, h = <<cur, Last + i>>
               PROVE  FALSE
    OBVIOUS
  <2>1. PICK o \in DOMAIN ops : \E k \in DOMAIN ops[o].txs : h = <<o, k>>
    BY DEF Receipts, Journaled
  <2>2. o = cur /\ Last + i \in DOMAIN ops[o].txs
    BY <2>1
  <2> QED
    BY <1>2, <2>2
<1>6. \A h \in DOMAIN signed : signed'[h] = signed[h]
  BY <1>4, <1>5 DEF Reserve
<1>7. \A i \in 1 .. n : signed'[<<cur, Last + i>>].nonce = nonce + i - 1
  <2> SUFFICES ASSUME NEW i \in 1 .. n
               PROVE  signed'[<<cur, Last + i>>].nonce = nonce + i - 1
    OBVIOUS
  <2> DEFINE h == <<cur, Last + i>>
  <2>1. h \in new /\ h \in DOMAIN signed'
    BY <1>4
  <2>2. signed'[h].nonce = nonce + h[2] - Last - 1
    BY <1>4, <2>1 DEF Reserve
  <2>3. nonce \in Nat
    BY DEF ExecInv, Scalars
  <2> QED
    BY <1>2, <2>2, <2>3
<1> HIDE DEF new
<1>8. Grows /\ MinedInOrder'
  <2>1. ASSUME NEW i \in DOMAIN mined
        PROVE  mined[i].tx \in DOMAIN signed
    <3>1. mined \in Seq([tx : DOMAIN signed, ok : BOOLEAN, fork : Nat])
      BY DEF ExecInv, ChainTyped
    <3>2. mined[i] \in [tx : DOMAIN signed, ok : BOOLEAN, fork : Nat]
      BY <3>1, ElementIs
    <3> QED
      BY <3>2
  <2> QED
    BY <1>4, <1>6, <2>1 DEF Grows, Receipts, MinedInOrder, Nonce
<1>9. \A h : (Landed(h)' <=> Landed(h)) /\ Status(h)' = Status(h)
  BY <1>4 DEF Landed, Status, Height
<1>10. Journaled'
  <2> SUFFICES ASSUME NEW h \in DOMAIN signed'
               PROVE  \E o \in DOMAIN ops' : \E k \in DOMAIN ops'[o].txs :
                        h = <<o, k>> /\ ops'[o].txs[k].nonce = signed'[h].nonce
    BY DEF Journaled, Nonce
  <2>1. CASE h \in DOMAIN signed
    <3>1. PICK o \in DOMAIN ops :
            \E k \in DOMAIN ops[o].txs : h = <<o, k>> /\ ops[o].txs[k].nonce = signed[h].nonce
      BY <2>1 DEF Receipts, Journaled, Nonce
    <3>2. PICK k \in DOMAIN ops[o].txs : h = <<o, k>> /\ ops[o].txs[k].nonce = signed[h].nonce
      BY <3>1
    <3>3. k \in DOMAIN ops'[o].txs /\ ops'[o].txs[k] = ops[o].txs[k]
      BY <1>1, <1>2, <1>3
    <3> QED
      BY <1>3, <1>6, <2>1, <3>2, <3>3
  <2>2. CASE h \in new
    <3>1. PICK i \in 1 .. n : h = <<cur, Last + i>>
      BY <2>2 DEF new
    <3>2. Last + i \in DOMAIN ops'[cur].txs
      BY <1>1, <1>2
    <3>3. ops'[cur].txs[Last + i].nonce = nonce + i - 1
      <4>1. ops'[cur].txs[Last + i] = Staged(step, nonce + i - 1)
        BY <1>1
      <4> QED
        BY <4>1 DEF Staged
    <3> QED
      BY <1>2, <1>3, <1>7, <3>1, <3>2, <3>3
  <2> QED
    BY <1>4, <2>1, <2>2
<1>11. AccurateJournal'
  <2> SUFFICES ASSUME NEW o \in DOMAIN ops, NEW k \in DOMAIN ops'[o].txs
               PROVE  Accurate(<<o, k>>, ops'[o].txs[k])
    BY <1>3, <1>9 DEF AccurateJournal, Accurate
  <2>1. CASE o # cur \/ k \in 1 .. Last
    <3>1. ops'[o].txs[k] = ops[o].txs[k] /\ k \in DOMAIN ops[o].txs
      BY <1>1, <1>2, <1>3, <2>1
    <3> QED
      BY <3>1 DEF Receipts, AccurateJournal
  <2>2. CASE o = cur /\ k \notin 1 .. Last
    <3>1. k - Last \in 1 .. n /\ k = Last + (k - Last)
      BY <1>1, <1>2, <2>2
    <3>2. ops'[o].txs[k] = Staged(step, nonce + (k - Last) - 1)
      BY <1>1, <2>2, <3>1
    <3> QED
      BY <3>2 DEF Staged, Accurate
  <2> QED
    BY <2>1, <2>2
<1>12. \A o \in DOMAIN ops : KeptOp(o)
  BY <1>3, <1>9 DEF KeptOp, Saleless, NoSale
<1> QED
  BY <1>8, <1>10, <1>11, <1>12 DEF StepOK

\* A new operation has sent nothing.
LEMMA AppendGrows ==
  ASSUME ExecInv, Receipts, NEW op \in OpRecord, ops' = Append(ops, op), op.txs = <<>>,
         UNCHANGED chainVars
  PROVE  StepOK
<1>1. /\ DOMAIN ops = 1 .. Len(ops) /\ DOMAIN ops' = 1 .. Len(ops) + 1 /\ Len(ops) \in Nat
      /\ ops'[Len(ops) + 1] = op /\ \A o \in DOMAIN ops : ops'[o] = ops[o]
  <2>1. ops \in Seq(OpRecord)
    BY DEF ExecInv, JournalTyped
  <2> QED
    BY <2>1
<1>2. \A h : (Landed(h)' <=> Landed(h)) /\ Status(h)' = Status(h) /\ Nonce(h)' = Nonce(h)
  BY DEF Landed, Status, Height, Nonce, chainVars
<1>3. Grows /\ MinedInOrder'
  BY DEF Grows, Receipts, MinedInOrder, Nonce, chainVars
<1>4. Journaled'
  <2>1. DOMAIN ops \subseteq DOMAIN ops'
    BY <1>1
  <2>2. signed' = signed
    BY DEF chainVars
  <2> QED
    BY <1>1, <1>2, <2>1, <2>2 DEF Receipts, Journaled
<1>5. AccurateJournal'
  <2> SUFFICES ASSUME NEW o \in DOMAIN ops', NEW k \in DOMAIN ops'[o].txs
               PROVE  Accurate(<<o, k>>, ops'[o].txs[k])
    BY <1>2 DEF AccurateJournal, Accurate
  <2>1. o \in DOMAIN ops
    <3>1. DOMAIN op.txs = {}
      OBVIOUS
    <3> QED
      BY <1>1, <3>1
  <2> QED
    BY <1>1, <2>1 DEF Receipts, AccurateJournal
<1>6. \A o \in DOMAIN ops : KeptOp(o)
  <2>1. DOMAIN ops \subseteq DOMAIN ops'
    BY <1>1
  <2> QED
    BY <1>1, <1>2, <2>1 DEF KeptOp, Saleless, NoSale
<1> QED
  BY <1>3, <1>4, <1>5, <1>6 DEF StepOK

-----------------------------------------------------------------------------
(* Every step is one of these *)

\* The operation in hand gets its final state, or keeps the one it has.
LEMMA StateSteps ==
  ASSUME ExecInv, Receipts, NEW o \in DOMAIN ops, NEW state \in OperationState,
         UNCHANGED ops \/ Put(o, WithState(ops[o], state)), UNCHANGED chainVars, ChainTyped'
  PROVE  StepOK
<1> DEFINE op == WithState(ops[o], state)
<1>1. UNCHANGED <<signed, mined>>
  BY DEF chainVars
<1>2. CASE UNCHANGED ops
  BY <1>1, <1>2, Untouched DEF ExecInv
<1>3. CASE Put(o, op)
  <2>1. Honest(o, op)
    BY HonestState DEF ExecInv
  <2> HIDE DEF op
  <2> QED
    BY <1>1, <1>3, <2>1, HonestPut DEF ExecInv
<1> QED
  BY <1>2, <1>3

\* The owner writes what it was told.
LEMMA MarkSteps ==
  ASSUME ExecInv, Receipts, pc \notin Quiet, Touched(cur), NEW k \in DOMAIN Op.txs,
         NEW state \in {"Submitted", "Rejected", "Unresolved"}, Put(cur, Mark(Op, k, state)),
         UNCHANGED chainVars
  PROVE  StepOK
<1> DEFINE op == Mark(Op, k, state)
<1>1. cur \in DOMAIN ops /\ Op = ops[cur] /\ Op \in OpRecord /\ state \in TxState
  BY CurIs DEF TxState
<1>2. Put(cur, op) /\ op = Mark(Op, k, state)
  OBVIOUS
<1> HIDE DEF op
<1>3. Marked(op, Op, k, state)
  BY <1>1, <1>2, MarkIs
<1>4. Rewritten(op, ops[cur], k) /\ Accurate(<<cur, k>>, op.txs[k])
  BY <1>1, <1>3 DEF Marked, Accurate
<1>5. Honest(cur, op)
  BY <1>1, <1>4, HonestRewrite
<1> QED
  BY <1>1, <1>2, <1>5, HonestPut DEF ExecInv, chainVars

LEMMA TouchedIs ==
  ASSUME ExecInv
  PROVE  /\ pc \in {"sign", "armed", "answers", "refresh", "settle"} => Touched(cur)
         /\ pc \in {"trade", "send", "answer", "book", "unwind", "confirm"} => Touched(cur)
<1>1. pc \in {"sign", "armed", "answers", "refresh", "settle"} => Touched(cur)
  BY KindIs DEF Touched
<1>2. pc \in {"trade", "send", "answer", "book", "unwind"} => Touched(cur)
  BY KindIs DEF Touched, Working, Selling
<1>3. CASE pc = "confirm"
  <2>1. pc \notin Quiet
    BY <1>3 DEF Quiet, Boot
  <2> QED
    BY <1>3, <2>1, CurIs DEF Touched, Working, Selling, InEntry, InExit
<1> QED
  BY <1>1, <1>2, <1>3

LEMMA BeginEntrySteps ==
  ASSUME ExecInv, Receipts, ChainTyped', NEW t \in Token, BeginEntry(t)
  PROVE  StepOK
<1> DEFINE op == [kind |-> "Entry", subject |-> t, state |-> "Pending", txs |-> <<>>]
<1>1. UNCHANGED ops \/ ops' = Append(ops, op)
  BY DEF BeginEntry
<1>2. op \in OpRecord /\ op.txs = <<>>
  BY FreshIs
<1> HIDE DEF op
<1>3. UNCHANGED chainVars
  BY DEF BeginEntry
<1> QED
  BY <1>1, <1>2, <1>3, AppendGrows, Untouched DEF ExecInv, chainVars

LEMMA BeginExitSteps ==
  ASSUME ExecInv, Receipts, ChainTyped', NEW j \in queue, BeginExit(j)
  PROVE  StepOK
<1> DEFINE op == [kind |-> "Exit", subject |-> j.pos, state |-> "Pending", txs |-> <<>>]
<1>1. UNCHANGED ops \/ ops' = Append(ops, op)
  BY DEF BeginExit
<1>2. op \in OpRecord /\ op.txs = <<>>
  <2>1. j.pos \in PosId
    BY DEF ExecInv, Claims, Job
  <2> QED
    BY <2>1, FreshIs
<1> HIDE DEF op
<1>3. UNCHANGED chainVars
  BY DEF BeginExit
<1> QED
  BY <1>1, <1>2, <1>3, AppendGrows, Untouched DEF ExecInv, chainVars

LEMMA PresignSteps ==
  ASSUME ExecInv, Receipts, Presign
  PROVE  StepOK
<1> DEFINE payload == [kind |-> "buy", token |-> Op.subject, qty |-> 0]
<1>1. pc = "sign" /\ pc \notin Quiet /\ Op.kind = "Entry" /\ Touched(cur)
  BY KindIs, TouchedIs DEF Presign
<1>2. payload \in [kind : Kind, token : Token, qty : Nat]
  <2>1. cur \in DOMAIN ops /\ Op = ops[cur]
    BY <1>1, CurIs
  <2> QED
    BY <1>1, <2>1 DEF ExecInv, JournalTyped, Kind
<1>3. "entry" \in Step /\ Attempts \in Nat
  BY ExecutionAssumption DEF Step
<1> HIDE DEF payload
<1>4. Reserve("entry", Attempts, payload)
  BY DEF Presign, payload
<1> QED
  BY <1>1, <1>2, <1>3, <1>4, ReserveGrows

LEMMA StageSendSteps ==
  ASSUME ExecInv, Receipts, NEW step \in {"approval", "sell"}, StageSend(step)
  PROVE  StepOK
<1> DEFINE kind == IF step = "approval" THEN "approve" ELSE "sell"
           payload == [kind |-> kind, token |-> Pos(job.pos).token, qty |-> job.qty]
<1>1. pc = "trade" /\ pc \notin Quiet /\ InExit /\ Touched(cur)
  BY KindIs, TouchedIs DEF StageSend
<1>2. payload \in [kind : Kind, token : Token, qty : Nat]
  <2>1. kind \in Kind
    BY DEF Kind
  <2>2. Pos(job.pos).token \in Token /\ job.qty \in Nat
    BY <1>1, JobIs DEF Position, Job
  <2> HIDE DEF kind
  <2> QED
    BY <2>1, <2>2
<1>3. step \in Step /\ 1 \in Nat
  BY DEF Step
<1>4. Reserve(step, 1, payload)
  BY DEF StageSend
<1> HIDE DEF payload
<1> QED
  BY <1>1, <1>2, <1>3, <1>4, ReserveGrows

LEMMA UnsentSteps ==
  ASSUME ExecInv, Receipts, Unsent
  PROVE  StepOK
<1> DEFINE all == AllRejected(Op)
           op == WithState(all, "Failed")
<1>1. pc \notin Quiet /\ Touched(cur) /\ Put(cur, op) /\ UNCHANGED <<signed, mined>>
  BY KindIs, TouchedIs DEF Unsent, chainVars
<1>2. cur \in DOMAIN ops /\ Op = ops[cur] /\ Op \in OpRecord
  BY <1>1, CurIs
<1>3. /\ Same(all, Op) /\ DOMAIN all.txs = DOMAIN Op.txs
      /\ \A k \in DOMAIN Op.txs :
           /\ all.txs[k].step = Op.txs[k].step /\ all.txs[k].nonce = Op.txs[k].nonce
           /\ all.txs[k].gas = Op.txs[k].gas
           /\ all.txs[k].state = IF Op.txs[k].state \in AmbiguousState THEN "Rejected" ELSE Op.txs[k].state
  BY <1>2, AllRejectedIs
<1> HIDE DEF all
<1>4. Same(op, Op) /\ op.txs = all.txs
  <2>1. all \in OpRecord /\ "Failed" \in OperationState
    BY <1>3 DEF Same, OperationState
  <2> QED
    BY <1>3, <2>1, WithStateIs DEF Same
<1> HIDE DEF op
<1>5. Honest(cur, op)
  BY <1>1, <1>2, <1>3, <1>4 DEF Honest, Receipts, AccurateJournal, Accurate
<1> QED
  BY <1>1, <1>2, <1>5, HonestPut DEF ExecInv

LEMMA RecordAnswerSteps ==
  ASSUME ExecInv, Receipts, RecordAnswer
  PROVE  StepOK
<1> DEFINE Left == {j \in DOMAIN out : Op.txs[j].state = "Prepared"}
           k == Min(Left)
           state == AnswerState(out[k].ans)
<1>1. pc = "answers" /\ pc \notin Quiet /\ Touched(cur) /\ UNCHANGED chainVars
  BY KindIs, TouchedIs DEF RecordAnswer
<1>2. k \in DOMAIN Op.txs /\ out[k].ans \in Answered
  <2>1. /\ DOMAIN out = DOMAIN Op.txs /\ Op.txs[Last].state = "Prepared" /\ Op.txs # <<>>
        /\ \A j \in DOMAIN out : out[j].ans \in Answered
    BY <1>1 DEF ExecInv, AnswersOK
  <2>2. DOMAIN Op.txs = 1 .. Last /\ Last \in Nat /\ Op \in OpRecord
    BY <1>1, CurIs
  <2>3. Last \in 1 .. Last
    BY <2>1, <2>2 DEF Last, OpRecord
  <2>4. Left \in SUBSET Nat /\ Left # {}
    BY <2>1, <2>2, <2>3
  <2>5. k \in Left
    BY <2>4, MinIs
  <2> QED
    BY <2>1, <2>5
<1>3. state \in {"Submitted", "Rejected", "Unresolved"}
  BY <1>2 DEF AnswerState, Answered
<1> HIDE DEF k, state
<1>4. Put(cur, Mark(Op, k, state))
  BY DEF RecordAnswer, k, state
<1> QED
  BY <1>1, <1>2, <1>3, <1>4, MarkSteps

LEMMA RecordSendSteps ==
  ASSUME ExecInv, Receipts, RecordSend
  PROVE  StepOK
<1>1. pc = "answer" /\ pc \notin Quiet /\ Touched(cur) /\ UNCHANGED chainVars
  BY KindIs, TouchedIs DEF RecordSend
<1>2. Last \in DOMAIN Op.txs /\ out[Last].ans \in Answered
  BY <1>1 DEF ExecInv, AnswersOK
<1>3. PICK state \in {"Submitted", "Rejected", "Unresolved"} : Put(cur, Mark(Op, Last, state))
  <2>1. CASE out[Last].ans = "refused"
    <3> DEFINE state == IF nonce' = Op.txs[Last].nonce THEN "Rejected" ELSE "Unresolved"
    <3>1. Put(cur, Mark(Op, Last, state)) /\ state \in {"Submitted", "Rejected", "Unresolved"}
      BY <2>1 DEF RecordSend
    <3> QED
      BY <3>1
  <2>2. CASE out[Last].ans # "refused"
    <3> DEFINE state == AnswerState(out[Last].ans)
    <3>1. Put(cur, Mark(Op, Last, state)) /\ state \in {"Submitted", "Rejected", "Unresolved"}
      BY <1>2, <2>2 DEF RecordSend, AnswerState, Answered
    <3> QED
      BY <3>1
  <2> QED
    BY <2>1, <2>2
<1> QED
  BY <1>1, <1>2, <1>3, MarkSteps

LEMMA RecordReceiptsSteps ==
  ASSUME ExecInv, Receipts, RecordReceipts
  PROVE  StepOK
<1> DEFINE op == WithReceipts(Op, out)
<1>1. pc = "confirm" /\ pc \notin Quiet /\ Touched(cur) /\ UNCHANGED <<signed, mined>> /\ Put(cur, op)
  BY TouchedIs DEF RecordReceipts, Quiet, Boot, chainVars
<1>2. cur \in DOMAIN ops /\ Op = ops[cur] /\ Op \in OpRecord /\ \A k \in DOMAIN Op.txs : Op.txs[k] \in TxRecord
  BY <1>1, CurIs
<1>3. /\ Same(op, Op) /\ DOMAIN op.txs = DOMAIN Op.txs
      /\ \A k \in DOMAIN Op.txs :
           /\ k \in DOMAIN out => op.txs[k] = WithReceipt(Op.txs[k], out[k])
           /\ k \notin DOMAIN out => op.txs[k] = Op.txs[k]
  <2>1. \A k \in DOMAIN out : out[k] \in Answer
    BY <1>1 DEF ExecInv, AnswersOK
  <2> QED
    BY <1>2, <2>1, ReceiptsAre
<1> HIDE DEF op
<1>4. ASSUME NEW k \in DOMAIN Op.txs
      PROVE  /\ op.txs[k].step = Op.txs[k].step /\ op.txs[k].nonce = Op.txs[k].nonce
             /\ Accurate(<<cur, k>>, op.txs[k])
  <2> DEFINE tx == Op.txs[k]
             h == <<cur, k>>
  <2>1. Accurate(h, tx) /\ tx \in TxRecord
    BY <1>2 DEF Receipts, AccurateJournal
  <2>2. CASE k \notin DOMAIN out
    BY <1>3, <2>1, <2>2
  <2>3. CASE k \in DOMAIN out
    <3> DEFINE r == out[k]
    <3>1. AccurateAnswer(h, r) /\ op.txs[k] = WithReceipt(tx, r)
      BY <1>1, <1>3, <2>3 DEF Receipts, AccurateAnswers
    <3> HIDE DEF tx, r, h
    <3>2. /\ WithReceipt(tx, r).step = tx.step /\ WithReceipt(tx, r).nonce = tx.nonce
          /\ Accurate(h, WithReceipt(tx, r))
      <4>1. CASE r.ans = "confirmed"
        BY <2>1, <3>1, <4>1 DEF WithReceipt, TxRecord, Accurate, AccurateAnswer
      <4>2. CASE r.ans = "reverted"
        BY <2>1, <3>1, <4>2 DEF WithReceipt, TxRecord, Accurate, AccurateAnswer
      <4>3. CASE r.ans = "unresolved"
        BY <2>1, <3>1, <4>3 DEF WithReceipt, TxRecord, Accurate, AccurateAnswer
      <4>4. CASE r.ans \notin {"confirmed", "reverted", "unresolved"}
        BY <2>1, <4>4 DEF WithReceipt
      <4> QED
        BY <4>1, <4>2, <4>3, <4>4
    <3> QED
      BY <3>1, <3>2 DEF tx, h
  <2> QED
    BY <2>2, <2>3
<1>5. Honest(cur, op)
  BY <1>1, <1>2, <1>3, <1>4 DEF Honest
<1> QED
  BY <1>1, <1>2, <1>5, HonestPut DEF ExecInv

LEMMA RefreshTxSteps ==
  ASSUME ExecInv, Receipts, ChainTyped', RefreshTx
  PROVE  StepOK
<1> DEFINE k == rec.k
           h == <<Target, k>>
           tx == ops[Target].txs[k]
<1>0. Recovering /\ ~ Refreshed /\ UNCHANGED <<signed, mined>>
  BY DEF RefreshTx, chainVars
<1>1. /\ Target \in DOMAIN ops /\ Current \in OpRecord /\ Current = ops[Target]
      /\ k \in DOMAIN Current.txs
  <2>1. /\ Target \in DOMAIN ops /\ Current \in OpRecord
        /\ k \in Nat \ {0} /\ DOMAIN Current.txs = 1 .. Len(Current.txs) /\ Len(Current.txs) \in Nat
    BY <1>0, TargetIs
  <2>2. ~ k > Len(Current.txs)
    BY <1>0 DEF Refreshed
  <2> QED
    BY <2>1, <2>2 DEF Current
<1>2. Accurate(h, tx)
  BY <1>1 DEF Receipts, AccurateJournal
<1>3. CASE UNCHANGED ops
  BY <1>0, <1>3, Untouched DEF ExecInv
<1>4. ASSUME NEW op, Put(Target, op), tx.state \notin {"Rejected", "Dropped"},
             \/ op = Drop(Current, k)
             \/ op = Mark(Current, k, "Unresolved")
             \/ Landed(h) /\ op = Resolve(Current, k, Status(h), Block(h))
      PROVE  StepOK
  <2>1. CASE op = Drop(Current, k)
    <3>1. Rewritten(op, Current, k) /\ op.txs[k].state = "Dropped" /\ op.txs[k].gas = tx.gas
      BY <1>1, <2>1, DropIs
    <3>2. Accurate(h, op.txs[k]) /\ NoSale(h, op.txs[k])
      BY <1>2, <3>1 DEF Accurate, NoSale
    <3> QED
      BY <1>0, <1>1, <1>4, <3>1, <3>2, HonestRewrite, HonestPut DEF ExecInv
  <2>2. CASE op = Mark(Current, k, "Unresolved")
    <3>1. Rewritten(op, Current, k) /\ op.txs[k].state = "Unresolved" /\ op.txs[k].gas = 0
      <4>1. "Unresolved" \in TxState
        BY DEF TxState
      <4>2. Marked(op, Current, k, "Unresolved")
        BY <1>1, <2>2, <4>1, MarkIs
      <4> QED
        BY <4>2 DEF Marked
    <3>2. Accurate(h, op.txs[k]) /\ (NoSale(h, tx) => NoSale(h, op.txs[k]))
      BY <1>1, <1>2, <1>4, <3>1 DEF Accurate, NoSale, Rewritten
    <3> QED
      BY <1>0, <1>1, <1>4, <3>1, <3>2, HonestRewrite, HonestPut DEF ExecInv
  <2>3. CASE Landed(h) /\ op = Resolve(Current, k, Status(h), Block(h))
    <3>0. Status(h) \in BOOLEAN /\ Block(h) \in BlockId
      BY <2>3, MinedIs DEF ExecInv
    <3> DEFINE ok == Status(h)
               block == Block(h)
    <3>1. /\ Rewritten(op, Current, k) /\ op.txs[k].gas = 1
          /\ op.txs[k].state = (IF Status(h) THEN "Confirmed" ELSE "Reverted")
      <4>1. op = Resolve(Current, k, ok, block) /\ ok \in BOOLEAN /\ block \in BlockId
        BY <2>3, <3>0
      <4> HIDE DEF ok, block
      <4>2. Rewritten(op, Current, k) /\ op.txs[k].state = (IF ok THEN "Confirmed" ELSE "Reverted")
            /\ op.txs[k].gas = 1
        BY <1>1, <4>1, ResolveIs
      <4> QED
        BY <4>2 DEF ok
    <3>2. Accurate(h, op.txs[k]) /\ (NoSale(h, tx) => NoSale(h, op.txs[k]))
      BY <1>1, <1>4, <2>3, <3>0, <3>1 DEF Accurate, NoSale, Rewritten
    <3> QED
      BY <1>0, <1>1, <1>4, <3>1, <3>2, HonestRewrite, HonestPut DEF ExecInv
  <2> QED
    BY <1>4, <2>1, <2>2, <2>3
<1>5. \/ UNCHANGED ops
      \/ /\ tx.state \notin {"Rejected", "Dropped"}
         /\ \/ Put(Target, Drop(Current, k))
            \/ Put(Target, Mark(Current, k, "Unresolved"))
            \/ Landed(h) /\ Put(Target, Resolve(Current, k, Status(h), Block(h)))
  BY <1>1 DEF RefreshTx
<1> QED
  BY <1>3, <1>4, <1>5

LEMMA VerdictSteps ==
  ASSUME ExecInv, Receipts, ChainTyped', Recovering, NEW blocked, NEW state \in OperationState,
         Verdict(blocked, state)
  PROVE  StepOK
<1>1. Target \in DOMAIN ops /\ Current = ops[Target]
  BY TargetIs DEF Current
<1>2. UNCHANGED ops \/ Put(Target, WithState(ops[Target], state))
  BY <1>1 DEF Verdict
<1>3. UNCHANGED chainVars
  BY DEF Verdict
<1> QED
  BY <1>1, <1>2, <1>3, StateSteps

\* The startup's steps.
LEMMA StartupSteps ==
  ASSUME ExecInv, Receipts, ChainTyped', Startup
  PROVE  StepOK
<1>0. {"Applied", "Pending", "Failed"} \subseteq OperationState
  BY DEF OperationState
<1>1. CASE Restart \/ RecoverApplied \/ BootFails \/ Start
  BY <1>1, Untouched DEF ExecInv, Restart, RecoverApplied, BootFails, Start, chainVars
<1>2. CASE RefreshTx
  BY <1>2, RefreshTxSteps
<1>3. ASSUME Booked
      PROVE  StepOK
  BY <1>3, Untouched DEF ExecInv, Booked, chainVars
<1>4. CASE RecoverFill
  BY <1>3, <1>4 DEF RecoverFill
<1>5. CASE RecoverEntry
  <2> DEFINE state == IF HasPosition(Target) THEN "Applied" ELSE "Failed"
             blocked == HasAmbiguous(Current)
  <2>1. state \in OperationState /\ Recovering
    BY <1>0, <1>5 DEF RecoverEntry, Recovered
  <2> HIDE DEF state, blocked
  <2>2. Verdict(blocked, state)
    BY <1>5 DEF RecoverEntry, state, blocked
  <2> QED
    BY <2>1, <2>2, VerdictSteps
<1>6. CASE RecoverExit
  <2>1. Recovering
    BY <1>6 DEF RecoverExit, Recovered
  <2>2. Verdict(FALSE, "Applied") \/ Verdict(TRUE, "Pending") \/ Verdict(FALSE, "Failed")
    BY <1>6 DEF RecoverExit
  <2> QED
    BY <1>0, <2>1, <2>2, VerdictSteps
<1>7. CASE RecoverSale \/ RecoverGas
  <2>1. Recovering /\ (Booked \/ Verdict(TRUE, "Pending"))
    BY <1>7 DEF RecoverSale, RecoverGas, Recovered
  <2> QED
    BY <1>0, <1>3, <2>1, VerdictSteps
<1>8. CASE RecordBooked
  <2> DEFINE state == IF Fill # {} \/ Sale # {} THEN "Applied" ELSE "Failed"
             blocked == Current.kind = "Entry" /\ HasAmbiguous(Current)
  <2>1. state \in OperationState /\ Recovering
    BY <1>0, <1>8 DEF RecordBooked
  <2> HIDE DEF state, blocked
  <2>2. Verdict(blocked, state)
    BY <1>8 DEF RecordBooked, state, blocked
  <2> QED
    BY <2>1, <2>2, VerdictSteps
<1> QED
  BY <1>1, <1>2, <1>4, <1>5, <1>6, <1>7, <1>8 DEF Startup

\* The owner gives an operation its final state.
LEMMA FinishSteps ==
  ASSUME ExecInv, Receipts, ChainTyped', PresignFails \/ NoFill \/ RecordApplied \/ FailExit
  PROVE  StepOK
<1>0. {"Applied", "Failed"} \subseteq OperationState
  BY DEF OperationState
<1>1. pc \notin Quiet /\ UNCHANGED chainVars
  BY DEF PresignFails, NoFill, RecordApplied, FailExit, Quiet, Boot
<1>2. cur \in DOMAIN ops /\ Op = ops[cur]
  BY <1>1, CurIs
<1>3. \E state \in {"Applied", "Failed"} : UNCHANGED ops \/ Put(cur, WithState(ops[cur], state))
  BY <1>2 DEF PresignFails, NoFill, RecordApplied, FailExit
<1> QED
  BY <1>0, <1>1, <1>2, <1>3, StateSteps

\* Whatever happens, what was signed and mined stays, the journal tells the truth
\* about it, and only the owner at work sells.
LEMMA EveryStep ==
  ASSUME ExecInv, ExecInv', Receipts, MaxReorgs = 0, [Next]_vars
  PROVE  StepOK
<1>0. ChainTyped' /\ ChainTyped
  BY DEF ExecInv
<1>1. ASSUME UNCHANGED <<ops, signed, mined>>
      PROVE  StepOK
  BY <1>0, <1>1, Untouched
<1>2. ASSUME NEW outcome, Transmit(outcome), ops' = ops
      PROVE  StepOK
  BY <1>1, <1>2 DEF Transmit
<1>3. CASE Entries
  <2>1. CASE FireBurst
    BY <1>2, <2>1 DEF FireBurst
  <2>2. CASE RefreshNonce \/ OpenPosition
    BY <1>1, <2>2 DEF RefreshNonce, OpenPosition, chainVars
  <2> QED
    BY <1>0, <1>3, <2>1, <2>2, BeginEntrySteps, FinishSteps, PresignSteps, UnsentSteps, RecordAnswerSteps
    DEF Entries
<1>4. CASE Exits
  <2>1. CASE Send
    BY <1>2, <2>1 DEF Send
  <2>2. CASE \/ \E p \in positions : \E qty \in 1 .. p.held : DecideExit(p, qty)
             \/ TradeFails \/ BookExit \/ BookFails
    BY <1>1, <2>2 DEF DecideExit, TradeFails, BookExit, BookFails, chainVars
  <2>3. CASE Unwind
    <3>1. UNCHANGED ops
      <4>1. CASE RequiresRecovery(Op)
        BY <2>3, <4>1 DEF Unwind
      <4>2. CASE ~ RequiresRecovery(Op) /\ OperationGas(Op) > 0
        BY <2>3, <4>2 DEF Unwind
      <4>3. CASE ~ RequiresRecovery(Op) /\ ~ OperationGas(Op) > 0
        BY <2>3, <4>3 DEF Unwind
      <4> QED
        BY <4>1, <4>2, <4>3
    <3> QED
      BY <1>1, <2>3, <3>1 DEF Unwind, chainVars
  <2> QED
    BY <1>0, <1>4, <2>1, <2>2, <2>3, BeginExitSteps, StageSendSteps, RecordSendSteps, FinishSteps DEF Exits
<1>5. CASE Both
  <2>1. CASE (\E k \in DOMAIN out : Confirm(k)) \/ Flush \/ FlushFails
    BY <1>1, <2>1 DEF Confirm, Flush, FlushFails, chainVars
  <2> QED
    BY <1>0, <1>5, <2>1, RecordReceiptsSteps, FinishSteps DEF Both
<1>6. CASE Session
  BY <1>1, <1>6 DEF Session, CanonicalCheck, StopRequest, FlushIfDue, Shutdown, Crash, Age, chainVars
<1>7. CASE Startup
  BY <1>0, <1>7, StartupSteps
<1>8. CASE Environment
  BY <1>0, <1>8, ChainGrows DEF Environment, processVars
<1>9. CASE UNCHANGED vars
  BY <1>1, <1>9 DEF vars, chainVars
<1> QED
  BY <1>3, <1>4, <1>5, <1>6, <1>7, <1>8, <1>9 DEF Next

\* The answers, then the receipts, the owner was given are true too.
Silent == \A k \in DOMAIN out : out[k].ans \notin {"confirmed", "reverted"}

LEMMA SilentIs == ASSUME Silent PROVE AccurateAnswers
BY DEF Silent, AccurateAnswers, AccurateAnswer

LEMMA ReturnsQuiet ==
  ASSUME (\E keep \in BOOLEAN : Return(keep)) \/ ProcessEnds(saved) \/ ProcessEnds(positions)
  PROVE  AccurateAnswers'
<1>1. pc' \in Quiet
  BY DEF Return, ProcessEnds, Quiet, Boot
<1> QED
  BY <1>1 DEF AccurateAnswers

LEMMA ReserveSilent ==
  ASSUME NEW step, NEW n, NEW payload, Reserve(step, n, payload)
  PROVE  Silent'
BY DEF Reserve, Silent, NoAnswer

LEMMA TransmitSilent ==
  ASSUME ExecInv, pc \notin Quiet, NEW outcome, Transmit(outcome),
         \A k \in DOMAIN out : outcome[k].ans \in Answered
  PROVE  Silent'
<1>1. \A k \in DOMAIN out' : out'[k].ans \in Answered
  BY TransmitIs
<1> QED
  BY <1>1 DEF Silent, Answered

\* Beside the owner, and while it only moves on, the answers stay.
LEMMA SameAnswers ==
  ASSUME ExecInv, ExecInv', Receipts, StepOK, out' = out, cur' = cur
  PROVE  AccurateAnswers'
<1>1. CASE pc \in Quiet
  <2>1. DOMAIN out = {}
    BY <1>1 DEF ExecInv, OwnerOK
  <2> QED
    BY <2>1 DEF AccurateAnswers
<1>2. CASE pc \notin Quiet
  <2>1. \A h : Landed(h) => Landed(h)' /\ Status(h)' = Status(h)
    BY LandedStays DEF ExecInv, StepOK
  <2>2. \A k \in DOMAIN out : AccurateAnswer(<<cur, k>>, out[k])'
    BY <1>2, <2>1 DEF Receipts, AccurateAnswers, AccurateAnswer
  <2> QED
    BY <2>2 DEF AccurateAnswers
<1> QED
  BY <1>1, <1>2

LEMMA BeginSilent ==
  ASSUME ExecInv, pc \in Quiet, out' = out
  PROVE  AccurateAnswers'
<1>1. DOMAIN out = {}
  BY DEF ExecInv, OwnerOK
<1> QED
  BY <1>1 DEF AccurateAnswers

LEMMA ConfirmTrue ==
  ASSUME ExecInv, Receipts, NEW k \in DOMAIN out, Confirm(k)
  PROVE  AccurateAnswers'
<1>1. pc = "confirm" /\ pc \notin Quiet /\ cur' = cur /\ mined' = mined
  BY DEF Confirm, Quiet, Boot, chainVars
<1>2. \A h : (Landed(h)' <=> Landed(h)) /\ Status(h)' = Status(h)
  BY <1>1 DEF Landed, Status, Height
<1>3. out \in [DOMAIN out -> Answer] /\ \A i \in DOMAIN out : AccurateAnswer(<<cur, i>>, out[i])
  BY <1>1 DEF ExecInv, AnswersOK, Receipts, AccurateAnswers
<1>4. /\ DOMAIN out' = DOMAIN out /\ \A i \in DOMAIN out \ {k} : out'[i] = out[i]
      /\ \/ out'[k].ans = "unresolved"
         \/ /\ Landed(<<cur, k>>)
            /\ out'[k].ans = IF Status(<<cur, k>>) THEN "confirmed" ELSE "reverted"
  <2> DEFINE seen == [ans |-> IF Status(<<cur, k>>) THEN "confirmed" ELSE "reverted",
                      block |-> Block(<<cur, k>>)]
             lost == [out[k] EXCEPT !.ans = "unresolved"]
  <2>1. out[k] \in Answer
    BY <1>3
  <2>2. lost.ans = "unresolved"
    BY <2>1 DEF Answer
  <2>3. \/ out' = [out EXCEPT ![k] = lost]
        \/ Landed(<<cur, k>>) /\ out' = [out EXCEPT ![k] = seen]
    BY DEF Confirm
  <2>4. seen.ans = IF Status(<<cur, k>>) THEN "confirmed" ELSE "reverted"
    OBVIOUS
  <2> HIDE DEF seen, lost
  <2> QED
    BY <1>3, <2>2, <2>3, <2>4
<1>5. AccurateAnswer(<<cur, k>>, out'[k])
  <2>1. Landed(<<cur, k>>) => Status(<<cur, k>>) \in BOOLEAN
    BY MinedIs DEF ExecInv
  <2> QED
    BY <1>4, <2>1 DEF AccurateAnswer
<1>6. \A i \in DOMAIN out' : AccurateAnswer(<<cur, i>>, out'[i])
  BY <1>3, <1>4, <1>5
<1>7. (\A i \in DOMAIN out : AccurateAnswer(<<cur, i>>, out[i]))'
  BY <1>1, <1>2, <1>6 DEF AccurateAnswer
<1> QED
  BY <1>7 DEF AccurateAnswers

LEMMA EveryAnswer ==
  ASSUME ExecInv, ExecInv', Receipts, StepOK, [Next]_vars
  PROVE  AccurateAnswers'
<1>1. ASSUME out' = out, cur' = cur
      PROVE  AccurateAnswers'
  BY <1>1, SameAnswers
<1>2. CASE Entries
  <2>1. CASE \E t \in Token : BeginEntry(t)
    BY <2>1, BeginSilent DEF BeginEntry, Quiet
  <2>2. CASE PresignFails \/ Unsent \/ NoFill
    BY <2>2, ReturnsQuiet DEF PresignFails, Unsent, NoFill
  <2>3. CASE Presign
    <3>1. Silent'
      BY <2>3, ReserveSilent DEF Presign
    <3> QED
      BY <3>1, SilentIs, PTL
  <2>4. CASE FireBurst
    <3>1. pc \notin Quiet
      BY <2>4 DEF FireBurst, Quiet, Boot
    <3>2. PICK outcome : (\A k \in DOMAIN out : outcome[k] \in Outcome(<<cur, k>>)) /\ Transmit(outcome)
      BY <2>4 DEF FireBurst
    <3>3. \A k \in DOMAIN out : outcome[k].ans \in Answered
      BY <3>2, OutcomeIs
    <3>4. Silent'
      BY <3>1, <3>2, <3>3, TransmitSilent
    <3> QED
      BY <3>4, SilentIs, PTL
  <2>5. CASE RecordAnswer \/ RefreshNonce \/ OpenPosition
    BY <1>1, <2>5 DEF RecordAnswer, RefreshNonce, OpenPosition, memVars
  <2> QED
    BY <1>2, <2>1, <2>2, <2>3, <2>4, <2>5 DEF Entries
<1>3. CASE Exits
  <2>1. CASE \E j \in queue : BeginExit(j)
    BY <2>1, BeginSilent DEF BeginExit, Quiet
  <2>2. CASE \E step \in {"approval", "sell"} : StageSend(step)
    <3>1. Silent'
      BY <2>2, ReserveSilent DEF StageSend
    <3> QED
      BY <3>1, SilentIs, PTL
  <2>3. CASE Send
    <3>1. pc = "send" /\ pc \notin Quiet
      BY <2>3 DEF Send, Quiet, Boot
    <3>2. PICK o \in Outcome(<<cur, Last>>) : Transmit([k \in {Last} |-> o])
      BY <2>3 DEF Send
    <3> DEFINE outcome == [k \in {Last} |-> o]
    <3>3. DOMAIN out = {Last}
      BY <3>1 DEF ExecInv, AnswersOK
    <3>4. \A k \in DOMAIN out : outcome[k].ans \in Answered
      BY <3>3, OutcomeIs
    <3>5. Transmit(outcome)
      BY <3>2
    <3> HIDE DEF outcome
    <3>6. Silent'
      BY <3>1, <3>4, <3>5, TransmitSilent
    <3> QED
      BY <3>6, SilentIs, PTL
  <2>4. CASE FailExit
    BY <2>4, ReturnsQuiet DEF FailExit
  <2>5. CASE BookExit \/ Unwind
    <3>1. (out' = out /\ cur' = cur) \/ Return(TRUE)
      <4>1. CASE BookExit
        BY <4>1 DEF BookExit
      <4>2. CASE Unwind /\ RequiresRecovery(Op)
        BY <4>2 DEF Unwind
      <4>3. CASE Unwind /\ ~ RequiresRecovery(Op) /\ OperationGas(Op) > 0
        BY <4>3 DEF Unwind
      <4>4. CASE Unwind /\ ~ RequiresRecovery(Op) /\ ~ OperationGas(Op) > 0
        BY <4>4 DEF Unwind
      <4> QED
        BY <2>5, <4>1, <4>2, <4>3, <4>4
    <3> QED
      BY <1>1, <3>1, ReturnsQuiet
  <2>6. CASE \/ \E p \in positions : \E qty \in 1 .. p.held : DecideExit(p, qty)
             \/ TradeFails \/ RecordSend \/ BookFails
    BY <1>1, <2>6 DEF DecideExit, TradeFails, RecordSend, BookFails, memVars
  <2> QED
    BY <1>3, <2>1, <2>2, <2>3, <2>4, <2>5, <2>6 DEF Exits
<1>4. CASE Both
  <2>1. CASE FlushFails \/ RecordApplied
    BY <2>1, ReturnsQuiet DEF FlushFails, RecordApplied
  <2>2. CASE RecordReceipts \/ Flush
    BY <1>1, <2>2 DEF RecordReceipts, Flush, memVars
  <2> QED
    BY <1>4, <2>1, <2>2, ConfirmTrue DEF Both
<1>5. CASE Session
  <2>1. CASE Shutdown \/ Crash
    BY <2>1, ReturnsQuiet DEF Shutdown, Crash
  <2> QED
    BY <1>1, <1>5, <2>1 DEF Session, CanonicalCheck, StopRequest, FlushIfDue, Age, memVars
<1>6. CASE Startup
  <2>1. CASE BootFails
    BY <2>1, ReturnsQuiet DEF BootFails
  <2>2. CASE Restart \/ RefreshTx \/ RecoverApplied \/ Start
    BY <1>1, <2>2 DEF Restart, RefreshTx, RecoverApplied, Start
  <2>3. ASSUME Booked \/ \E blocked, state : Verdict(blocked, state)
        PROVE  AccurateAnswers'
    BY <1>1, <2>3 DEF Booked, Verdict
  <2>4. CASE RecoverEntry \/ RecoverFill \/ RecoverExit \/ RecoverSale \/ RecoverGas \/ RecordBooked
    BY <2>3, <2>4 DEF RecoverEntry, RecoverFill, RecoverExit, RecoverSale, RecoverGas, RecordBooked
  <2> QED
    BY <1>6, <2>1, <2>2, <2>4 DEF Startup
<1>7. CASE Environment \/ UNCHANGED vars
  BY <1>1, <1>7 DEF Environment, processVars, vars, memVars
<1> QED
  BY <1>2, <1>3, <1>4, <1>5, <1>6, <1>7 DEF Next

-----------------------------------------------------------------------------
(* What is charged was burnt *)

\* The transactions of these operations that were mined are finitely many.
LEMMA BurntFinite ==
  ASSUME ChainTyped, NEW S
  PROVE  IsFiniteSet(Burnt(S)) /\ Cardinality(Burnt(S)) \in Nat
<1>1. Burnt(S) \in SUBSET DOMAIN signed /\ IsFiniteSet(DOMAIN signed)
  BY DEF ChainTyped, Burnt
<1>2. IsFiniteSet(Burnt(S))
  BY <1>1, FS_Subset
<1> QED
  BY <1>2, FS_CardinalityType

\* The journal charges no more gas for an operation than the chain has burnt on it.
LEMMA GasBurnt ==
  ASSUME JournalTyped, ChainTyped, Signed, AccurateJournal, NEW o \in DOMAIN ops
  PROVE  OperationGas(ops[o]) \in Nat /\ OperationGas(ops[o]) <= Cardinality(Burnt({o}))
<1> DEFINE op == ops[o]
           f == Gas(op)
           S == DOMAIN op.txs
           Paid == {k \in S : f[k] = 1}
           B == Burnt({o})
<1>1. op \in OpRecord /\ op.txs \in Seq(TxRecord) /\ S = 1 .. Len(op.txs) /\ Len(op.txs) \in Nat
  BY OpIs
<1>2. IsFiniteSet(S)
  BY <1>1, FS_Interval
<1>3. \A k \in S : f[k] = op.txs[k].gas
  BY DEF Gas
<1>4. \A k \in S : f[k] \in {0, 1} /\ (f[k] = 1 => <<o, k>> \in B)
  <2> SUFFICES ASSUME NEW k \in S
               PROVE  f[k] \in {0, 1} /\ (f[k] = 1 => <<o, k>> \in B)
    OBVIOUS
  <2>1. Accurate(<<o, k>>, op.txs[k]) /\ <<o, k>> \in DOMAIN signed
    BY DEF AccurateJournal, Signed
  <2> QED
    BY <1>3, <2>1 DEF Accurate, Burnt
<1>5. OperationGas(op) = SumOf(f, S) /\ OperationGas(op) \in Nat
  BY <1>1, GasSum, GasType
<1> HIDE DEF f, S, op, B
<1>6. SumOf(f, S) = Cardinality(Paid)
  BY <1>2, <1>4, SumOnes
<1>7. Cardinality(Paid) <= Cardinality(B)
  <2> DEFINE g == [k \in Paid |-> <<o, k>>]
  <2>1. g \in Injection(Paid, B)
    BY <1>4 DEF Injection, IsInjective
  <2>2. IsFiniteSet(B)
    BY BurntFinite DEF B
  <2> HIDE DEF g, Paid
  <2> QED
    BY <2>1, <2>2, FS_Injection
<1> QED
  BY <1>5, <1>6, <1>7 DEF op, B

\* What a position owes grows with the operations it has paid for.
LEMMA PayKeeps ==
  ASSUME ExecInv, Receipts, NEW p \in Position, GasOK(p), NEW q, NEW o \in ExitsOf(p),
         o \notin PaidBy(p), q.id = p.id, PaidBy(q) = PaidBy(p) \cup {o},
         q.exitGas = p.exitGas + OperationGas(ops[o]), q.overhead \subseteq p.overhead \cup {o},
         o \in q.overhead => Saleless(o)
  PROVE  GasOK(q)
<1>1. OperationGas(ops[o]) \in Nat /\ OperationGas(ops[o]) <= Cardinality(Burnt({o}))
  BY GasBurnt DEF ExecInv, Receipts, ExitsOf
<1> DEFINE A == Burnt(PaidBy(p))
           B == Burnt({o})
           C == Burnt(PaidBy(q))
<1>2. C = A \cup B /\ A \cap B = {}
  BY DEF Burnt
<1>3. IsFiniteSet(A) /\ IsFiniteSet(B) /\ Cardinality(A) \in Nat /\ Cardinality(B) \in Nat
  BY BurntFinite DEF ExecInv
<1> HIDE DEF A, B, C
<1>4. Cardinality(C) = Cardinality(A) + Cardinality(B)
  <2>1. Cardinality({}) = 0
    BY FS_EmptySet
  <2>2. Cardinality(A \cup B) = Cardinality(A) + Cardinality(B) - Cardinality(A \cap B)
    BY <1>3, FS_Union
  <2>3. Cardinality(A \cap B) = 0 /\ Cardinality(C) = Cardinality(A \cup B)
    BY <1>2, <2>1
  <2> QED
    BY <1>3, <2>2, <2>3
<1>5. p.exitGas \in Nat /\ p.exitGas <= Cardinality(A)
  BY DEF GasOK, A, Position
<1>6. q.exitGas <= Cardinality(C)
  BY <1>1, <1>3, <1>4, <1>5 DEF B
<1>7. PaidBy(q) \subseteq ExitsOf(q)
  <2>1. ExitsOf(q) = ExitsOf(p)
    BY DEF ExitsOf
  <2> QED
    BY <2>1 DEF GasOK
<1> QED
  BY <1>6, <1>7 DEF GasOK, C

\* Nothing that happens elsewhere makes a position's gas wrong.
LEMMA GasStays ==
  ASSUME ExecInv, ExecInv', StepOK, NEW p \in Position, GasOK(p), \A o \in p.overhead : ~ Touched(o)
  PROVE  GasOK(p)'
<1>1. PaidBy(p)' = PaidBy(p)
  BY DEF PaidBy
<1>2. ExitsOf(p) \subseteq ExitsOf(p)'
  BY DEF StepOK, KeptOp, ExitsOf
<1>3. p.exitGas <= Cardinality(Burnt(PaidBy(p)))'
  <2> DEFINE A == Burnt(PaidBy(p))
  <2>1. A \subseteq A'
    <3>1. \A h : Landed(h) => Landed(h)'
      BY LandedStays DEF ExecInv, StepOK
    <3>2. \A h \in DOMAIN signed : h \in DOMAIN signed'
      BY DEF StepOK, Grows
    <3> QED
      BY <3>1, <3>2 DEF Burnt, PaidBy
  <2>2. IsFiniteSet(A') /\ Cardinality(A') \in Nat
    <3>1. A' \in SUBSET DOMAIN signed' /\ IsFiniteSet(DOMAIN signed')
      BY DEF ExecInv, ChainTyped, Burnt
    <3> HIDE DEF A
    <3>2. IsFiniteSet(A')
      BY <3>1, FS_Subset
    <3> QED
      BY <3>2, FS_CardinalityType
  <2>3. Cardinality(A) \in Nat
    BY BurntFinite DEF ExecInv
  <2>4. Cardinality(A) <= Cardinality(A')
    <3> HIDE DEF A
    <3> QED
      BY <2>1, <2>2, FS_Subset
  <2>5. p.exitGas \in Nat /\ p.exitGas <= Cardinality(A)
    BY DEF GasOK, Position
  <2> QED
    BY <2>2, <2>3, <2>4, <2>5
<1>4. \A o \in p.overhead : Saleless(o)'
  <2>1. \A o \in p.overhead : o \in DOMAIN ops /\ Saleless(o)
    BY DEF GasOK, PaidBy, ExitsOf
  <2> QED
    BY <2>1 DEF StepOK, KeptOp
<1> QED
  BY <1>1, <1>2, <1>3, <1>4 DEF GasOK

-----------------------------------------------------------------------------
(* The positions' gas, step by step *)

LEMMA NotTouched ==
  ASSUME ExecInv, GasInv, NEW p \in positions \cup saved, NEW o \in p.overhead
  PROVE  ~ Touched(o)
<1>1. o \in PaidBy(p) /\ PaidBy(p) \subseteq ExitsOf(p)
  BY DEF GasInv, GasOK, PaidBy
<1>2. ops[o].kind = "Exit"
  BY <1>1 DEF ExitsOf
<1> QED
  BY <1>1, <1>2 DEF GasInv, Unpaid, Touched, InEntry, Op

\* A position that stays.
LEMMA OldGas ==
  ASSUME ExecInv, ExecInv', StepOK, GasInv, NEW p \in positions \cup saved
  PROVE  GasOK(p)'
<1>1. p \in Position /\ GasOK(p)
  BY DEF ExecInv, Books, GasInv
<1> QED
  BY <1>1, NotTouched, GasStays

\* A position that has sold nothing yet.
LEMMA NewGas ==
  ASSUME NEW p, p.exits = {}, p.overhead = {}, p.exitGas = 0
  PROVE  GasOK(p)
<1>1. PaidBy(p) = {}
  BY DEF PaidBy
<1>2. Burnt(PaidBy(p)) = {}
  BY <1>1 DEF Burnt
<1>3. Cardinality({}) = 0
  BY FS_EmptySet
<1>4. p.exitGas <= Cardinality(Burnt(PaidBy(p)))
  BY <1>2, <1>3
<1> QED
  BY <1>1, <1>4 DEF GasOK

\* A position that has sold by an exit it had not paid for.
LEMMA SoldGas ==
  ASSUME ExecInv, Receipts, NEW p \in Position, GasOK(p), NEW o \in ExitsOf(p), o \notin PaidBy(p),
         NEW q, NEW k, NEW qty, SoldFrom(q, p, qty, <<o, k>>, OperationGas(ops[o]))
  PROVE  GasOK(q)
<1>1. /\ q.id = p.id /\ q.exits = p.exits \cup {<<o, k>>} /\ q.overhead = p.overhead
      /\ q.exitGas = p.exitGas + OperationGas(ops[o])
  BY DEF SoldFrom
<1>2. PaidBy(q) = PaidBy(p) \cup {o}
  BY <1>1 DEF PaidBy
<1>3. o \notin q.overhead
  BY <1>1 DEF PaidBy
<1> QED
  BY <1>1, <1>2, <1>3, PayKeeps

\* A position charged for an exit that sold nothing, unless it was already.
LEMMA ChargedGas ==
  ASSUME ExecInv, Receipts, NEW p \in Position, GasOK(p), NEW o \in ExitsOf(p),
         o \in p.overhead \/ o \notin PaidBy(p), Saleless(o),
         NEW q, Charged(q, p, o, OperationGas(ops[o]))
  PROVE  GasOK(q)
<1>1. q.id = p.id /\ q.exits = p.exits /\ q.overhead = p.overhead \cup {o}
  BY DEF Charged
<1>2. CASE o \in p.overhead
  <2>1. q.overhead = p.overhead /\ q.exitGas = p.exitGas
    BY <1>1, <1>2 DEF Charged
  <2>2. PaidBy(q) = PaidBy(p) /\ ExitsOf(q) = ExitsOf(p)
    BY <1>1, <2>1 DEF PaidBy, ExitsOf
  <2> QED
    BY <2>1, <2>2 DEF GasOK
<1>3. CASE o \notin p.overhead
  <2>1. q.exitGas = p.exitGas + OperationGas(ops[o]) /\ o \notin PaidBy(p)
    BY <1>3 DEF Charged
  <2>2. PaidBy(q) = PaidBy(p) \cup {o}
    BY <1>1 DEF PaidBy
  <2> QED
    BY <1>1, <2>1, <2>2, PayKeeps
<1> QED
  BY <1>2, <1>3

\* What needs no recovery and confirms no sale has sold nothing.
LEMMA SalelessIs ==
  ASSUME ExecInv, Receipts, NEW o \in DOMAIN ops, ops[o].state = "Pending", ~ RequiresRecovery(ops[o])
  PROVE  Saleless(o)
<1> SUFFICES ASSUME NEW k \in DOMAIN ops[o].txs, ops[o].txs[k].step = "sell"
             PROVE  ops[o].txs[k].state \in {"Rejected", "Dropped"} \/ (Landed(<<o, k>>) /\ ~ Status(<<o, k>>))
  BY DEF Saleless, NoSale
<1> DEFINE tx == ops[o].txs[k]
<1>1. tx \in TxRecord /\ Accurate(<<o, k>>, tx)
  BY OpIs DEF ExecInv, Receipts, AccurateJournal
<1>2. tx.state \notin AmbiguousState /\ tx.state # "Confirmed"
  BY DEF RequiresRecovery, HasAmbiguous, HasEffect
<1>3. tx.state \in {"Reverted", "Rejected", "Dropped"}
  BY <1>1, <1>2 DEF TxRecord, TxState, AmbiguousState
<1> QED
  BY <1>1, <1>3 DEF Accurate

\* All positions but one were there before.
PositionsBut(q) == positions' \cup saved' \subseteq positions \cup saved \cup {q}

LEMMA GasOfAll ==
  ASSUME ExecInv, ExecInv', StepOK, GasInv, NEW q, GasOK(q)', PositionsBut(q)
  PROVE  (\A p \in positions \cup saved : GasOK(p))'
BY OldGas DEF PositionsBut

LEMMA GasOfOld ==
  ASSUME ExecInv, ExecInv', StepOK, GasInv, positions' \cup saved' \subseteq positions \cup saved
  PROVE  (\A p \in positions \cup saved : GasOK(p))'
BY OldGas

LEMMA SameGas ==
  ASSUME NEW q, GasOK(q), UNCHANGED <<ops, signed, mined>>
  PROVE  GasOK(q)'
BY DEF GasOK, PaidBy, ExitsOf, Burnt, Landed, Saleless, NoSale, Status, Height

\* A position replaced, and perhaps flushed.
LEMMA GasUpdated ==
  ASSUME ExecInv, ExecInv', StepOK, GasInv, UNCHANGED <<ops, chainVars>>, NEW p, NEW q, GasOK(q),
         Update(p, q), saved' = saved \/ saved' = positions'
  PROVE  (\A r \in positions \cup saved : GasOK(r))'
<1>1. GasOK(q)'
  BY SameGas DEF chainVars
<1>2. PositionsBut(q)
  BY DEF PositionsBut, Update
<1> QED
  BY <1>1, <1>2, GasOfAll

LEMMA GasJoined ==
  ASSUME ExecInv, ExecInv', StepOK, GasInv, UNCHANGED <<ops, chainVars>>,
         NEW q, q.exits = {}, q.overhead = {}, q.exitGas = 0,
         positions' = positions \cup {q}, saved' = saved \/ saved' = positions'
  PROVE  (\A r \in positions \cup saved : GasOK(r))'
<1>1. GasOK(q)'
  BY NewGas, SameGas DEF chainVars
<1>2. PositionsBut(q)
  BY DEF PositionsBut
<1> QED
  BY <1>1, <1>2, GasOfAll

\* The exit in hand is one of its position's.
LEMMA CurExit ==
  ASSUME ExecInv, InExit
  PROVE  cur \in ExitsOf(Pos(job.pos)) /\ Op = ops[cur]
<1>1. cur \in DOMAIN ops /\ Op.kind = "Exit" /\ job.pos = Op.subject
  BY DEF ExecInv, OwnerOK, InExit
<1>2. Pos(job.pos).id = job.pos
  BY JobIs
<1> QED
  BY <1>1, <1>2 DEF ExitsOf, Op

LEMMA BookExitGas ==
  ASSUME ExecInv, ExecInv', Receipts, StepOK, GasInv, BookExit
  PROVE  (\A p \in positions \cup saved : GasOK(p))'
<1>0. pc = "book" /\ pc \notin Quiet /\ Op.kind = "Exit" /\ InExit /\ pc \in Working
  BY KindIs DEF BookExit, Working, Selling
<1>1. cur \in Nat /\ Op \in OpRecord /\ Last \in Nat
  BY <1>0, CurIs
<1>2. CASE Known(job.pos) /\ Open(Pos(job.pos))
  <2>1. PICK p, qty, h, gas, q :
          /\ p = Pos(job.pos) /\ qty = job.qty /\ h = <<cur, Last>> /\ gas = OperationGas(Op)
          /\ q = ApplyExit(p, qty, h, gas)
    OBVIOUS
  <2>2. p \in positions /\ p \in Position /\ qty \in Nat /\ GasOK(p)
    BY <1>0, <2>1, JobIs DEF Job, GasInv
  <2>3. h \in Hash /\ gas \in Nat
    BY <1>1, <2>1, GasType DEF Hash
  <2>4. SoldFrom(q, p, qty, h, gas)
    BY <2>1, <2>2, <2>3, ApplyExitIs
  <2>5. PICK o, k : o = cur /\ k = Last
    OBVIOUS
  <2>6. o \in ExitsOf(p) /\ o \notin PaidBy(p) /\ h = <<o, k>> /\ gas = OperationGas(ops[o])
    BY <1>0, <2>1, <2>2, <2>5, CurExit DEF GasInv, Unpaid
  <2>7. GasOK(q)
    BY <2>2, <2>4, <2>6, SoldGas
  <2>8. Update(p, q) /\ UNCHANGED <<ops, saved, chainVars>>
    BY <1>2, <2>1 DEF BookExit
  <2> QED
    BY <2>7, <2>8, GasUpdated
<1>3. CASE ~ (Known(job.pos) /\ Open(Pos(job.pos)))
  <2>1. UNCHANGED <<positions, saved>>
    BY <1>3 DEF BookExit
  <2> QED
    BY <2>1, GasOfOld
<1> QED
  BY <1>2, <1>3

LEMMA UnwindGas ==
  ASSUME ExecInv, ExecInv', Receipts, StepOK, GasInv, Unwind
  PROVE  (\A p \in positions \cup saved : GasOK(p))'
<1>0. pc = "unwind" /\ pc \notin Quiet /\ Op.kind = "Exit" /\ InExit /\ pc \in Working
  BY KindIs DEF Unwind, Working
<1>1. cur \in DOMAIN ops /\ cur \in Nat /\ Op \in OpRecord
  BY <1>0, CurIs
<1>2. CASE ~ RequiresRecovery(Op) /\ OperationGas(Op) > 0
  <2>1. PICK p, o, gas, q :
          /\ p = Pos(job.pos) /\ o = cur /\ gas = OperationGas(Op)
          /\ q = ChargeOverhead(p, o, gas)
    OBVIOUS
  <2>2. p \in positions /\ p \in Position /\ GasOK(p)
    BY <1>0, <2>1, JobIs DEF GasInv
  <2>3. o \in Nat /\ gas \in Nat
    BY <1>1, <2>1, GasType
  <2>4. Charged(q, p, o, gas)
    BY <2>1, <2>2, <2>3, ChargeIs
  <2>5. o \in ExitsOf(p) /\ o \notin PaidBy(p) /\ gas = OperationGas(ops[o])
    BY <1>0, <2>1, <2>2, CurExit DEF GasInv, Unpaid
  <2>6. Saleless(o)
    <3>1. ops[o].state = "Pending" /\ ~ RequiresRecovery(ops[o]) /\ o \in DOMAIN ops
      BY <1>0, <1>1, <1>2, <2>1 DEF GasInv, Unpaid, Op
    <3> QED
      BY <3>1, SalelessIs
  <2>7. GasOK(q)
    BY <2>2, <2>4, <2>5, <2>6, ChargedGas
  <2>8. Update(p, q) /\ UNCHANGED <<ops, saved, chainVars>>
    BY <1>2, <2>1 DEF Unwind
  <2> QED
    BY <2>7, <2>8, GasUpdated
<1>3. CASE ~ (~ RequiresRecovery(Op) /\ OperationGas(Op) > 0)
  <2>1. UNCHANGED <<positions, saved>>
    <3>1. CASE RequiresRecovery(Op)
      BY <3>1 DEF Unwind
    <3>2. CASE ~ RequiresRecovery(Op)
      BY <1>3, <3>2 DEF Unwind
    <3> QED
      BY <3>1, <3>2
  <2> QED
    BY <2>1, GasOfOld
<1> QED
  BY <1>2, <1>3

\* A position opened, by the owner or by recovery.
LEMMA OpenGas ==
  ASSUME ExecInv, ExecInv', StepOK, GasInv, UNCHANGED <<ops, chainVars>>,
         NEW o, NEW by, NEW entry, NEW fills, NEW gas,
         positions' = positions \cup {NewPosition(o, by, entry, fills, gas)},
         saved' = saved \/ saved' = positions'
  PROVE  (\A r \in positions \cup saved : GasOK(r))'
<1>1. PICK q : q = NewPosition(o, by, entry, fills, gas)
  OBVIOUS
<1>2. q.exits = {} /\ q.overhead = {} /\ q.exitGas = 0
  BY <1>1 DEF NewPosition
<1>3. positions' = positions \cup {q}
  BY <1>1
<1> QED
  BY <1>2, <1>3, GasJoined

LEMMA OpenPositionGas ==
  ASSUME ExecInv, ExecInv', StepOK, GasInv, OpenPosition \/ RecoverFill
  PROVE  (\A r \in positions \cup saved : GasOK(r))'
<1>1. CASE OpenPosition
  <2>1. PICK o, entry, fills, gas :
          o = cur /\ entry = Min(Fills) /\ fills = Cardinality(Fills) /\ gas = OperationGas(Op)
    OBVIOUS
  <2>2. /\ positions' = positions \cup {NewPosition(o, "live", entry, fills, gas)}
        /\ UNCHANGED <<ops, chainVars>> /\ saved' = saved
    BY <1>1, <2>1 DEF OpenPosition
  <2> QED
    BY <2>2, OpenGas
<1>2. CASE RecoverFill
  <2>1. PICK o, entry, fills, gas :
          o = Target /\ entry = Min(Fill) /\ fills = Cardinality(Fill) /\ gas = OperationGas(Current)
    OBVIOUS
  <2>2. /\ positions' = positions \cup {NewPosition(o, "recover", entry, fills, gas)}
        /\ UNCHANGED <<ops, chainVars>> /\ saved' = positions'
    BY <1>2, <2>1 DEF RecoverFill, Booked
  <2> QED
    BY <2>2, OpenGas
<1> QED
  BY <1>1, <1>2

\* The exit recovery has in hand, and the position it is of.
LEMMA TargetExit ==
  ASSUME ExecInv, GasInv, Recovered("Exit"), ~ ExitBooked(Target), Known(Current.subject)
  PROVE  /\ Holder \in positions /\ Holder \in Position /\ GasOK(Holder)
         /\ Target \in ExitsOf(Holder) /\ Current = ops[Target] /\ Current.state = "Pending"
         /\ \A h \in Holder.exits : h[1] # Target
<1>1. Recovering /\ Current.kind = "Exit" /\ rec.snap[Target].state = "Pending"
  BY DEF Recovered
<1>2. Target \in DOMAIN ops /\ Target \in rec.todo /\ Current = ops[Target]
  BY <1>1, TargetIs DEF Current
<1>3. Holder \in positions /\ Holder \in Position /\ Holder.id = Current.subject
  BY KnownIs DEF ExecInv, Holder
<1>4. Current.state = "Pending"
  BY <1>1, <1>2 DEF GasInv, BootKept, Recovering
<1>5. \A h \in Holder.exits : h[1] # Target
  BY <1>2, <1>3 DEF ExitBooked
<1> QED
  BY <1>1, <1>2, <1>3, <1>4, <1>5 DEF ExitsOf, GasInv

LEMMA RecoverSaleGas ==
  ASSUME ExecInv, ExecInv', Receipts, StepOK, GasInv, RecoverSale
  PROVE  (\A r \in positions \cup saved : GasOK(r))'
<1>0. Recovered("Exit") /\ ~ ExitBooked(Target) /\ Recovering
  BY DEF RecoverSale, Recovered
<1>1. /\ Target \in DOMAIN ops /\ Target \in Nat /\ Current \in OpRecord
      /\ DOMAIN Current.txs = 1 .. Len(Current.txs) /\ Len(Current.txs) \in Nat
  BY <1>0, TargetIs
<1>2. CASE Known(Current.subject) /\ Open(Holder)
  <2>1. PICK p, o, k, h, qty, gas, q :
          /\ p = Holder /\ o = Target /\ k = Min(Sale) /\ h = <<o, k>> /\ qty = signed[h].qty
          /\ gas = OperationGas(Current) /\ q = ApplyExit(p, qty, h, gas)
    OBVIOUS
  <2>2. /\ p \in positions /\ p \in Position /\ GasOK(p) /\ o \in ExitsOf(p)
        /\ gas = OperationGas(ops[o]) /\ \A g \in p.exits : g[1] # o
    BY <1>0, <1>2, <2>1, TargetExit
  <2>3. k \in Sale /\ k \in Nat
    <3>1. Sale \in SUBSET Nat /\ Sale # {}
      BY <1>1 DEF RecoverSale, Sale, ConfirmedIn
    <3> QED
      BY <2>1, <3>1, MinIs
  <2>4. h \in Hash /\ gas \in Nat /\ qty \in Nat
    <3>1. h \in DOMAIN signed
      BY <2>1, MinedIs DEF RecoverSale, ExecInv
    <3>2. qty \in Nat
      BY <2>1, <3>1 DEF ExecInv, ChainTyped, SignedTx
    <3> QED
      BY <1>1, <2>1, <2>3, <3>2, GasType DEF Hash
  <2>5. SoldFrom(q, p, qty, h, gas)
    BY <2>1, <2>2, <2>4, ApplyExitIs
  <2>6. o \notin p.overhead
    <3>1. k \in DOMAIN ops[o].txs /\ ops[o].txs[k].state = "Confirmed" /\ ops[o].txs[k].step = "sell"
      BY <2>1, <2>3 DEF Sale, ConfirmedIn, Current
    <3>2. Accurate(<<o, k>>, ops[o].txs[k])
      BY <1>1, <2>1, <3>1 DEF Receipts, AccurateJournal
    <3>3. ~ Saleless(o)
      BY <3>1, <3>2 DEF Saleless, NoSale, Accurate
    <3> QED
      BY <2>2, <3>3 DEF GasOK
  <2>7. o \notin PaidBy(p)
    BY <2>2, <2>6 DEF PaidBy
  <2>8. GasOK(q)
    BY <2>1, <2>2, <2>5, <2>7, SoldGas
  <2>9. Update(p, q) /\ saved' = positions' /\ UNCHANGED <<ops, chainVars>>
    BY <1>2, <2>1 DEF RecoverSale, Booked
  <2> QED
    BY <2>8, <2>9, GasUpdated
<1>3. CASE ~ (Known(Current.subject) /\ Open(Holder))
  <2>1. UNCHANGED <<positions, saved>>
    BY <1>3 DEF RecoverSale, Verdict
  <2> QED
    BY <2>1, GasOfOld
<1> QED
  BY <1>2, <1>3

LEMMA RecoverGasGas ==
  ASSUME ExecInv, ExecInv', Receipts, StepOK, GasInv, RecoverGas
  PROVE  (\A r \in positions \cup saved : GasOK(r))'
<1>0. Recovered("Exit") /\ ~ ExitBooked(Target) /\ Recovering
  BY DEF RecoverGas, Recovered
<1>1. Target \in DOMAIN ops /\ Target \in Nat /\ Current \in OpRecord
  BY <1>0, TargetIs
<1>2. CASE Known(Current.subject)
  <2>1. PICK p, o, gas, q :
          /\ p = Holder /\ o = Target /\ gas = OperationGas(Current)
          /\ q = ChargeOverhead(p, o, gas)
    OBVIOUS
  <2>2. /\ p \in positions /\ p \in Position /\ GasOK(p) /\ o \in ExitsOf(p) /\ o \in Nat
        /\ gas = OperationGas(ops[o]) /\ (\A g \in p.exits : g[1] # o) /\ ops[o].state = "Pending"
    BY <1>0, <1>1, <1>2, <2>1, TargetExit
  <2>3. gas \in Nat
    BY <1>1, <2>1, GasType
  <2>4. Charged(q, p, o, gas)
    BY <2>1, <2>2, <2>3, ChargeIs
  <2>5. o \in p.overhead \/ o \notin PaidBy(p)
    BY <2>2 DEF PaidBy
  <2>6. Saleless(o)
    <3>1. o \in DOMAIN ops /\ ~ RequiresRecovery(ops[o])
      BY <1>1, <2>1 DEF RecoverGas, Current
    <3> QED
      BY <2>2, <3>1, SalelessIs
  <2>7. GasOK(q)
    BY <2>2, <2>4, <2>5, <2>6, ChargedGas
  <2>8. Update(p, q) /\ saved' = positions' /\ UNCHANGED <<ops, chainVars>>
    BY <1>2, <2>1 DEF RecoverGas, Booked
  <2> QED
    BY <2>7, <2>8, GasUpdated
<1>3. CASE ~ Known(Current.subject)
  <2>1. UNCHANGED <<positions, saved>>
    BY <1>3 DEF RecoverGas, Verdict
  <2> QED
    BY <2>1, GasOfOld
<1> QED
  BY <1>2, <1>3

LEMMA EveryGas ==
  ASSUME ExecInv, ExecInv', Receipts, StepOK, GasInv, [Next]_vars
  PROVE  (\A r \in positions \cup saved : GasOK(r))'
<1>1. ASSUME positions' = positions \/ positions' = saved, saved' = saved \/ saved' = positions
      PROVE  (\A r \in positions \cup saved : GasOK(r))'
  BY <1>1, GasOfOld
<1>2. ASSUME UNCHANGED <<positions, saved>>
      PROVE  (\A r \in positions \cup saved : GasOK(r))'
  BY <1>1, <1>2
<1>3. CASE Entries
  <2>1. CASE OpenPosition
    BY <2>1, OpenPositionGas
  <2> QED
    BY <1>2, <1>3, <2>1 DEF Entries, BeginEntry, PresignFails, Presign, Unsent, FireBurst,
       RecordAnswer, RefreshNonce, NoFill
<1>4. CASE Exits
  <2>1. CASE BookExit \/ Unwind
    BY <2>1, BookExitGas, UnwindGas
  <2> QED
    BY <1>2, <1>4, <2>1 DEF Exits, DecideExit, BeginExit, StageSend, TradeFails, Send, RecordSend,
       BookFails, FailExit
<1>5. CASE Both
  BY <1>1, <1>5 DEF Both, Confirm, RecordReceipts, Flush, FlushFails, RecordApplied
<1>6. CASE Session
  BY <1>1, <1>6 DEF Session, CanonicalCheck, StopRequest, FlushIfDue, Shutdown, Crash, Age, ProcessEnds
<1>7. CASE Startup
  <2>1. CASE RecoverFill \/ RecoverSale \/ RecoverGas
    BY <2>1, OpenPositionGas, RecoverSaleGas, RecoverGasGas
  <2>2. CASE Restart \/ RefreshTx \/ RecoverApplied \/ Start
    BY <1>2, <2>2 DEF Restart, RefreshTx, RecoverApplied, Start
  <2>3. CASE BootFails
    BY <1>1, <2>3 DEF BootFails, ProcessEnds
  <2>4. CASE RecoverEntry \/ RecoverExit \/ RecordBooked
    <3>1. UNCHANGED <<positions, saved>>
      BY <2>4 DEF RecoverEntry, RecoverExit, RecordBooked, Verdict
    <3> QED
      BY <1>2, <3>1
  <2> QED
    BY <1>7, <2>1, <2>2, <2>3, <2>4 DEF Startup
<1>8. CASE Environment \/ UNCHANGED vars
  BY <1>2, <1>8 DEF Environment, processVars, vars
<1> QED
  BY <1>3, <1>4, <1>5, <1>6, <1>7, <1>8 DEF Next

-----------------------------------------------------------------------------
(* The exit in hand is unpaid until it is booked *)

LEMMA UnpaidElsewhere ==
  ASSUME pc' \notin Working
  PROVE  Unpaid'
BY DEF Unpaid

LEMMA UnpaidStays ==
  ASSUME ExecInv, GasInv, StepOK, cur' = cur, pc \notin Quiet, Op.kind = "Exit" => pc \in Working,
         ops'[cur].state = ops[cur].state, positions' \cup saved' \subseteq positions \cup saved
  PROVE  Unpaid'
<1> SUFFICES ASSUME InExit', pc' \in Working
             PROVE  ops'[cur].state = "Pending" /\ \A p \in positions' \cup saved' : cur \notin PaidBy(p)
  BY DEF Unpaid, PaidBy, Op
<1>1. cur \in DOMAIN ops
  BY DEF ExecInv, OwnerOK
<1>2. ops'[cur].kind = ops[cur].kind
  BY <1>1 DEF StepOK, KeptOp
<1>3. InExit /\ pc \in Working
  BY <1>2 DEF InExit, Op
<1> QED
  BY <1>3 DEF GasInv, Unpaid, Op

LEMMA TxsOnly ==
  ASSUME ExecInv, pc \notin Quiet, NEW txs, Put(cur, [Op EXCEPT !.txs = txs])
  PROVE  ops'[cur].state = ops[cur].state
<1>1. cur \in DOMAIN ops /\ ops[cur] \in OpRecord /\ Op = ops[cur]
  BY CurIs
<1>2. [Op EXCEPT !.txs = txs].state = Op.state
  BY <1>1 DEF OpRecord
<1> QED
  BY <1>1, <1>2 DEF Put

LEMMA OwnerUnpaid ==
  ASSUME ExecInv, GasInv, StepOK, pc \in Working, Op.kind = "Exit", cur' = cur,
         UNCHANGED <<positions, saved>>,
         \/ UNCHANGED ops
         \/ \E txs : Put(cur, [Op EXCEPT !.txs = txs])
  PROVE  Unpaid'
<1>1. pc \notin Quiet
  BY DEF Working, Selling, Quiet, Boot
<1>2. ops'[cur].state = ops[cur].state
  BY <1>1, TxsOnly
<1> QED
  BY <1>1, <1>2, UnpaidStays

LEMMA BeginExitUnpaid ==
  ASSUME ExecInv, GasInv, NEW j \in queue, BeginExit(j)
  PROVE  Unpaid'
<1>1. CASE PendingSubject(ops, "Exit", j.pos)
  <2>1. pc' \notin Working
    BY <1>1 DEF BeginExit, Working, Selling
  <2> QED
    BY <2>1, UnpaidElsewhere
<1>2. CASE ~ PendingSubject(ops, "Exit", j.pos)
  <2> DEFINE op == [kind |-> "Exit", subject |-> j.pos, state |-> "Pending", txs |-> <<>>]
  <2>1. ops' = Append(ops, op) /\ cur' = Len(ops) + 1 /\ UNCHANGED <<positions, saved>>
    BY <1>2 DEF BeginExit
  <2>2. op.state = "Pending"
    OBVIOUS
  <2> HIDE DEF op
  <2>3. ops'[cur'] = op /\ cur' \notin DOMAIN ops
    <3>1. ops \in Seq(OpRecord)
      BY DEF ExecInv, JournalTyped
    <3> QED
      BY <2>1, <3>1
  <2>4. \A p \in positions \cup saved : PaidBy(p) \subseteq DOMAIN ops
    BY DEF GasInv, GasOK, ExitsOf
  <2>5. \A p \in positions' \cup saved' : PaidBy(p) \subseteq DOMAIN ops
    BY <2>1, <2>4
  <2> QED
    BY <2>2, <2>3, <2>5 DEF Unpaid, Op, PaidBy
<1> QED
  BY <1>1, <1>2

\* Only the owner's steps on an exit keep it in hand.
LEMMA EveryUnpaid ==
  ASSUME ExecInv, ExecInv', GasInv, StepOK, [Next]_vars
  PROVE  Unpaid'
<1>1. ASSUME pc' \notin Working
      PROVE  Unpaid'
  BY <1>1, UnpaidElsewhere
<1>2. ASSUME UNCHANGED <<pc, cur, ops>>, positions' \cup saved' \subseteq positions \cup saved
      PROVE  Unpaid'
  <2>1. CASE pc \in Working /\ Op.kind = "Exit"
    <3>1. pc \notin Quiet
      BY <2>1 DEF Working, Selling, Quiet, Boot
    <3> QED
      BY <1>2, <2>1, <3>1, UnpaidStays
  <2>2. CASE ~ (pc \in Working /\ Op.kind = "Exit")
    BY <1>2, <2>2 DEF Unpaid, InExit, Op
  <2> QED
    BY <2>1, <2>2
<1>3. CASE Entries
  <2>1. CASE RecordAnswer
    <3>1. pc = "answers" /\ pc \notin Quiet /\ cur' = cur
      BY <2>1 DEF RecordAnswer, Quiet, Boot, memVars
    <3>2. Op.kind = "Entry" /\ cur \in DOMAIN ops
      BY <3>1, KindIs DEF ExecInv, OwnerOK
    <3>3. Op'.kind = "Entry"
      BY <3>1, <3>2 DEF StepOK, KeptOp, Op
    <3> QED
      BY <3>3 DEF Unpaid, InExit
  <2>2. ASSUME NEW t \in Token, BeginEntry(t)
        PROVE  Unpaid'
    <3>1. pc' \notin Working
      BY <2>2 DEF BeginEntry, Working, Selling
    <3> QED
      BY <1>1, <3>1
  <2>3. CASE PresignFails \/ Presign \/ Unsent \/ FireBurst \/ RefreshNonce \/ NoFill \/ OpenPosition
    <3>1. pc' \notin Working
      BY <2>3 DEF PresignFails, Presign, Unsent, FireBurst, RefreshNonce, NoFill, OpenPosition, Return,
         Working, Selling
    <3> QED
      BY <1>1, <3>1
  <2> QED
    BY <1>3, <2>1, <2>2, <2>3 DEF Entries
<1>4. CASE Exits
  <2>1. CASE \E p \in positions : \E qty \in 1 .. p.held : DecideExit(p, qty)
    <3>1. UNCHANGED <<pc, cur, ops>> /\ positions' \cup saved' \subseteq positions \cup saved
      BY <2>1 DEF DecideExit
    <3> QED
      BY <1>2, <3>1
  <2>2. CASE \E j \in queue : BeginExit(j)
    BY <2>2, BeginExitUnpaid
  <2>3. ASSUME NEW step \in {"approval", "sell"}, StageSend(step)
        PROVE  Unpaid'
    <3>1. pc = "trade" /\ cur' = cur /\ UNCHANGED <<positions, saved>>
      BY <2>3 DEF StageSend
    <3>2. \E txs : Put(cur, [Op EXCEPT !.txs = txs])
      BY <2>3 DEF StageSend, Reserve, StageMany
    <3>3. pc \in Working /\ Op.kind = "Exit"
      BY <3>1, KindIs DEF Working, Selling
    <3> QED
      BY <3>1, <3>2, <3>3, OwnerUnpaid
  <2>4. CASE TradeFails \/ Send \/ BookFails
    <3>1. pc \in {"trade", "send", "book"} /\ cur' = cur /\ UNCHANGED <<positions, saved, ops>>
      BY <2>4 DEF TradeFails, Send, BookFails, memVars
    <3>2. pc \in Working /\ Op.kind = "Exit"
      BY <3>1, KindIs DEF Working, Selling
    <3> QED
      BY <3>1, <3>2, OwnerUnpaid
  <2>5. CASE RecordSend
    <3>1. pc = "answer" /\ cur' = cur /\ UNCHANGED <<positions, saved>>
      BY <2>5 DEF RecordSend
    <3>2. \E state : Put(cur, Mark(Op, Last, state))
      BY <2>5 DEF RecordSend
    <3>3. pc \in Working /\ Op.kind = "Exit" /\ Op \in OpRecord
      BY <3>1, KindIs, CurIs DEF Working, Selling, Quiet, Boot
    <3>4. \E txs : Put(cur, [Op EXCEPT !.txs = txs])
      <4>1. PICK state : Put(cur, Mark(Op, Last, state))
        BY <3>2
      <4>2. \E txs : Mark(Op, Last, state) = [Op EXCEPT !.txs = txs]
        BY <3>3 DEF Mark, SetRecord, OpRecord
      <4> QED
        BY <4>1, <4>2
    <3> QED
      BY <3>1, <3>3, <3>4, OwnerUnpaid
  <2>6. CASE BookExit
    <3>1. pc' \in {"flush", "idle"}
      BY <2>6 DEF BookExit, Return
    <3> QED
      BY <1>1, <3>1 DEF Working, Selling
  <2>7. CASE Unwind
    <3>1. pc' \in {"charged", "fail", "idle"}
      <4>1. CASE RequiresRecovery(Op)
        BY <2>7, <4>1 DEF Unwind, Return
      <4>2. CASE ~ RequiresRecovery(Op) /\ OperationGas(Op) > 0
        BY <2>7, <4>2 DEF Unwind
      <4>3. CASE ~ RequiresRecovery(Op) /\ ~ OperationGas(Op) > 0
        BY <2>7, <4>3 DEF Unwind
      <4> QED
        BY <4>1, <4>2, <4>3
    <3> QED
      BY <1>1, <3>1 DEF Working, Selling
  <2>8. CASE FailExit
    <3>1. pc' = "idle"
      BY <2>8 DEF FailExit, Return
    <3> QED
      BY <1>1, <3>1 DEF Working, Selling
  <2> QED
    BY <1>4, <2>1, <2>2, <2>3, <2>4, <2>5, <2>6, <2>7, <2>8 DEF Exits
<1>5. CASE Both
  <2>1. CASE \E k \in DOMAIN out : Confirm(k)
    <3>1. UNCHANGED <<pc, cur, ops, positions, saved>>
      BY <2>1 DEF Confirm
    <3> QED
      BY <1>2, <3>1
  <2>2. CASE RecordReceipts
    <3>1. pc = "confirm" /\ pc \notin Quiet /\ pc \in Working /\ cur' = cur /\ UNCHANGED <<positions, saved>>
      BY <2>2 DEF RecordReceipts, Quiet, Boot, Working, Selling, memVars
    <3>2. ops'[cur].state = ops[cur].state
      <4>1. \E txs : Put(cur, [Op EXCEPT !.txs = txs])
        BY <2>2 DEF RecordReceipts, WithReceipts
      <4> QED
        BY <3>1, <4>1, TxsOnly
    <3> QED
      BY <3>1, <3>2, UnpaidStays
  <2>3. CASE Flush \/ FlushFails \/ RecordApplied
    <3>1. pc' \in {"apply", "fail", "idle"}
      BY <2>3 DEF Flush, FlushFails, RecordApplied, Return
    <3> QED
      BY <1>1, <3>1 DEF Working, Selling
  <2> QED
    BY <1>5, <2>1, <2>2, <2>3 DEF Both
<1>6. CASE Session
  <2>1. CASE Shutdown \/ Crash
    <3>1. pc' = "down"
      BY <2>1 DEF Shutdown, Crash, ProcessEnds
    <3> QED
      BY <1>1, <3>1 DEF Working, Selling
  <2>2. CASE CanonicalCheck \/ StopRequest \/ FlushIfDue \/ Age
    <3>1. UNCHANGED <<pc, cur, ops>> /\ positions' \cup saved' \subseteq positions \cup saved
      BY <2>2 DEF CanonicalCheck, StopRequest, FlushIfDue, Age, memVars
    <3> QED
      BY <1>2, <3>1
  <2> QED
    BY <1>6, <2>1, <2>2 DEF Session
<1>7. CASE Startup
  <2>1. ASSUME Booked \/ \E blocked, state : Verdict(blocked, state), Recovering
        PROVE  pc' \in {"down", "boot", "idle"}
    BY <2>1 DEF Booked, Verdict, Recovering
  <2>2. pc' \in {"down", "boot", "idle"}
    <3>1. CASE Restart \/ RefreshTx \/ RecoverApplied \/ BootFails \/ Start
      BY <3>1 DEF Restart, RefreshTx, RecoverApplied, BootFails, Start, ProcessEnds, Recovering
    <3>2. CASE RecoverEntry \/ RecoverFill \/ RecoverExit \/ RecoverSale \/ RecoverGas \/ RecordBooked
      BY <2>1, <3>2 DEF RecoverEntry, RecoverFill, RecoverExit, RecoverSale, RecoverGas, RecordBooked, Recovered
    <3> QED
      BY <1>7, <3>1, <3>2 DEF Startup
  <2> QED
    BY <1>1, <2>2 DEF Working, Selling
<1>8. CASE Environment \/ UNCHANGED vars
  BY <1>2, <1>8 DEF Environment, processVars, vars, memVars
<1> QED
  BY <1>3, <1>4, <1>5, <1>6, <1>7, <1>8 DEF Next

-----------------------------------------------------------------------------
(* What startup has yet to decide, it has not changed *)

LEMMA NextSnap ==
  ASSUME rec \in Recovery, NEW blocked, NextTarget(blocked)
  PROVE  rec'.todo = rec.todo \ {Target} /\ rec'.snap = rec.snap
<1> DEFINE todo == rec.todo \ {Target}
           block == rec.blocked \/ blocked
<1>1. rec' = [rec EXCEPT !.todo = todo, !.k = 1, !.booked = FALSE, !.blocked = block]
  BY DEF NextTarget
<1> HIDE DEF todo, block
<1>2. rec'.todo = todo /\ rec'.snap = rec.snap
  BY <1>1 DEF Recovery
<1> QED
  BY <1>2 DEF todo

LEMMA VerdictKept ==
  ASSUME ExecInv, BootKept, Recovering, NEW blocked, NEW state, Verdict(blocked, state)
  PROVE  BootKept'
<1>1. Target \in DOMAIN ops /\ rec \in Recovery /\ rec.todo \subseteq DOMAIN ops /\ pc = "boot"
  BY TargetIs DEF ExecInv, Scalars, Recovering
<1>2. rec'.todo = rec.todo \ {Target} /\ rec'.snap = rec.snap
  BY <1>1, NextSnap DEF Verdict
<1>3. \A o \in DOMAIN ops \ {Target} : ops'[o] = ops[o]
  BY <1>1 DEF Verdict, Put
<1> QED
  BY <1>1, <1>2, <1>3 DEF BootKept

LEMMA BookedKept ==
  ASSUME ExecInv, BootKept, Recovering, Booked
  PROVE  BootKept'
<1>1. pc = "boot" /\ rec \in Recovery
  BY DEF ExecInv, Scalars, Recovering
<1>2. rec'.todo = rec.todo /\ rec'.snap = rec.snap /\ ops' = ops
  BY <1>1 DEF Booked, Recovery
<1> QED
  BY <1>1, <1>2 DEF BootKept

\* A refresh changes what is known of a transaction, not the operation's state.
LEMMA RefreshTxKept ==
  ASSUME ExecInv, BootKept, RefreshTx
  PROVE  BootKept'
<1>0. Recovering /\ pc = "boot"
  BY DEF RefreshTx, Recovering
<1>1. /\ Target \in DOMAIN ops /\ rec \in Recovery /\ rec.todo \subseteq DOMAIN ops
      /\ Current \in OpRecord /\ Current = ops[Target]
  BY <1>0, TargetIs DEF ExecInv, Scalars, Current
<1>2. rec'.todo = rec.todo /\ rec'.snap = rec.snap
  <2>1. rec' = [rec EXCEPT !.k = @ + 1]
    BY DEF RefreshTx
  <2> QED
    BY <1>1, <2>1 DEF Recovery
<1>3. UNCHANGED ops \/ \E txs : Put(Target, [Current EXCEPT !.txs = txs])
  <2>1. \E k, state, block, gas : UNCHANGED ops \/ Put(Target, SetRecord(Current, k, state, block, gas))
    BY DEF RefreshTx, Drop, Mark, Resolve
  <2>2. PICK k, state, block, gas : UNCHANGED ops \/ Put(Target, SetRecord(Current, k, state, block, gas))
    BY <2>1
  <2>3. \E txs : SetRecord(Current, k, state, block, gas) = [Current EXCEPT !.txs = txs]
    BY <1>1 DEF SetRecord, OpRecord
  <2> QED
    BY <2>2, <2>3
<1>4. \A o \in DOMAIN ops : ops'[o].state = ops[o].state
  <2>1. \A txs : [Current EXCEPT !.txs = txs].state = Current.state
    BY <1>1 DEF OpRecord
  <2> QED
    BY <1>1, <1>3, <2>1 DEF Put
<1> QED
  BY <1>0, <1>1, <1>2, <1>4 DEF BootKept, RefreshTx

LEMMA EveryBoot ==
  ASSUME ExecInv, BootKept, [Next]_vars
  PROVE  BootKept'
<1>1. ASSUME pc' # "boot"
      PROVE  BootKept'
  BY <1>1 DEF BootKept
<1>2. ASSUME UNCHANGED <<pc, rec, ops>>
      PROVE  BootKept'
  BY <1>2 DEF BootKept
<1>3. CASE Entries
  <2>1. pc' # "boot"
    BY <1>3 DEF Entries, BeginEntry, PresignFails, Presign, Unsent, FireBurst, RecordAnswer, RefreshNonce,
       NoFill, OpenPosition, Return
  <2> QED
    BY <1>1, <2>1
<1>4. CASE Exits
  <2>1. CASE Unwind
    <3>1. pc' \in {"charged", "fail", "idle"}
      <4>1. CASE RequiresRecovery(Op)
        BY <2>1, <4>1 DEF Unwind, Return
      <4>2. CASE ~ RequiresRecovery(Op) /\ OperationGas(Op) > 0
        BY <2>1, <4>2 DEF Unwind
      <4>3. CASE ~ RequiresRecovery(Op) /\ ~ OperationGas(Op) > 0
        BY <2>1, <4>3 DEF Unwind
      <4> QED
        BY <4>1, <4>2, <4>3
    <3> QED
      BY <1>1, <3>1
  <2>2. CASE \E p \in positions : \E qty \in 1 .. p.held : DecideExit(p, qty)
    BY <1>1, <2>2 DEF DecideExit, Running, Boot
  <2>3. CASE \/ \E j \in queue : BeginExit(j)
             \/ \E step \in {"approval", "sell"} : StageSend(step)
             \/ TradeFails \/ Send \/ RecordSend \/ BookExit \/ BookFails \/ FailExit
    <3>1. pc' # "boot"
      BY <2>3 DEF BeginExit, StageSend, TradeFails, Send, RecordSend, BookExit, BookFails, FailExit, Return
    <3> QED
      BY <1>1, <3>1
  <2> QED
    BY <1>4, <2>1, <2>2, <2>3 DEF Exits
<1>5. CASE Both
  <2>1. pc' # "boot"
    BY <1>5 DEF Both, Confirm, RecordReceipts, Flush, FlushFails, RecordApplied, Return
  <2> QED
    BY <1>1, <2>1
<1>6. CASE Session
  <2>1. CASE Shutdown \/ Crash
    BY <1>1, <2>1 DEF Shutdown, Crash, ProcessEnds
  <2>2. CASE CanonicalCheck \/ StopRequest \/ FlushIfDue \/ Age
    BY <1>2, <2>2 DEF CanonicalCheck, StopRequest, FlushIfDue, Age, memVars
  <2> QED
    BY <1>6, <2>1, <2>2 DEF Session
<1>7. CASE Startup
  <2>1. CASE Restart
    <3>1. rec'.todo \subseteq DOMAIN ops /\ rec'.snap = ops /\ ops' = ops
      BY <2>1 DEF Restart, NoRec
    <3> QED
      BY <3>1 DEF BootKept
  <2>2. CASE RefreshTx
    BY <2>2, RefreshTxKept
  <2>3. CASE RecoverApplied
    <3>1. Recovering /\ UNCHANGED <<ops, pc>> /\ \E blocked : NextTarget(blocked)
      BY <2>3 DEF RecoverApplied
    <3>2. rec'.todo \subseteq rec.todo /\ rec'.snap = rec.snap
      BY <3>1, NextSnap DEF ExecInv, Scalars
    <3> QED
      BY <3>1, <3>2 DEF BootKept, Recovering
  <2>4. CASE RecoverEntry \/ RecoverFill \/ RecoverExit \/ RecoverSale \/ RecoverGas \/ RecordBooked
    <3>1. Recovering /\ (Booked \/ \E blocked, state : Verdict(blocked, state))
      BY <2>4 DEF RecoverEntry, RecoverFill, RecoverExit, RecoverSale, RecoverGas, RecordBooked, Recovered
    <3> QED
      BY <3>1, VerdictKept, BookedKept
  <2>5. CASE BootFails \/ Start
    BY <1>1, <2>5 DEF BootFails, Start, ProcessEnds
  <2> QED
    BY <1>7, <2>1, <2>2, <2>3, <2>4, <2>5 DEF Startup
<1>8. CASE Environment \/ UNCHANGED vars
  BY <1>2, <1>8 DEF Environment, processVars, vars, memVars
<1> QED
  BY <1>3, <1>4, <1>5, <1>6, <1>7, <1>8 DEF Next

-----------------------------------------------------------------------------
LEMMA InitGas ==
  ASSUME Init
  PROVE  Receipts /\ GasInv
<1>1. DOMAIN ops = {} /\ DOMAIN mined = {} /\ DOMAIN signed = {} /\ DOMAIN out = {}
  BY DEF Init, ChainInit
<1>2. Receipts
  BY <1>1 DEF Receipts, MinedInOrder, Journaled, AccurateJournal, AccurateAnswers
<1>3. GasInv
  BY DEF Init, GasInv, Unpaid, BootKept, Working, Selling
<1> QED
  BY <1>2, <1>3

LEMMA NextGas ==
  ASSUME ExecInv, ExecInv', Receipts, GasInv, MaxReorgs = 0, [Next]_vars
  PROVE  Receipts' /\ GasInv'
<1>1. StepOK
  BY EveryStep
<1>2. Receipts'
  BY <1>1, EveryAnswer DEF StepOK, Receipts
<1>3. Unpaid' /\ BootKept' /\ (\A p \in positions \cup saved : GasOK(p))'
  BY <1>1, EveryGas, EveryUnpaid, EveryBoot DEF GasInv
<1> QED
  BY <1>2, <1>3 DEF GasInv

\* No exit's gas is charged twice to its position, whichever of the live path,
\* finish_failed_exit and recovery charges it, through any number of crashes,
\* failed flushes and restarts.  Without a reorg: a receipt copied before one may
\* name a block the chain no longer has.
THEOREM GasChargedOnce ==
  ASSUME MaxReorgs = 0
  PROVE  Spec => []ExitGasNeverTwice
<1>1. Init => ExecInv /\ Receipts /\ GasInv
  BY InitExec, InitGas
<1>2. (ExecInv /\ Receipts /\ GasInv) /\ [Next]_vars => (ExecInv /\ Receipts /\ GasInv)'
  BY NextExec, NextGas
<1>3. ExecInv /\ Receipts /\ GasInv => ExitGasNeverTwice
  <2> SUFFICES ASSUME ExecInv, GasInv, NEW p \in saved
               PROVE  p.exitGas <= BurntOn(p)
    BY DEF ExitGasNeverTwice
  <2> DEFINE Own == {h \in DOMAIN signed : h[1] \in ExitsOf(p) /\ Landed(h)}
             Paid == Burnt(PaidBy(p))
  <2>1. p \in Position /\ p.exitGas \in Nat /\ PaidBy(p) \subseteq ExitsOf(p) /\ p.exitGas <= Cardinality(Paid)
    BY DEF ExecInv, Books, Position, GasInv, GasOK
  <2>2. Paid \subseteq Own
    BY <2>1 DEF Burnt
  <2>3. Own \in SUBSET DOMAIN signed /\ IsFiniteSet(DOMAIN signed)
    BY DEF ExecInv, ChainTyped
  <2>4. BurntOn(p) = Cardinality(Own)
    BY DEF BurntOn
  <2> HIDE DEF Own, Paid
  <2>5. IsFiniteSet(Own)
    BY <2>3, FS_Subset
  <2>6. Cardinality(Paid) <= Cardinality(Own) /\ IsFiniteSet(Paid)
    BY <2>2, <2>5, FS_Subset
  <2>7. Cardinality(Paid) \in Nat /\ Cardinality(Own) \in Nat
    BY <2>5, <2>6, FS_CardinalityType
  <2> QED
    BY <2>1, <2>4, <2>6, <2>7
<1> QED
  BY <1>1, <1>2, <1>3, PTL DEF Spec
================================================================================
