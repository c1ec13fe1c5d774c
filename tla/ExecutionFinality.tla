---------------------------- MODULE ExecutionFinality ---------------------------
(***************************************************************************)
(* Theorems about what the execution owner and its recovery may count on   *)
(* while the chain takes nothing back (no reorg) and there is one route to *)
(* the sequencer, for any number of tokens, attempts, operations and faults. *)
(*                                                                         *)
(* What the journal has decided stays decided; the wallet's nonce, the     *)
(* chain's and the journal's stay in step; and the ledger: a position holds *)
(* what the transactions it names have moved, and what an applied operation *)
(* moved is named.                                                         *)
(***************************************************************************)
EXTENDS ExecutionProofs

-----------------------------------------------------------------------------
(* Finality.  Without a reorg, and with one route to the sequencer, what the  *)
(* journal has decided stays decided.                                         *)

\* It is not on its way; it never was mined either.
Gone(h) == h \notin flight \cup pool
Never(h) == Gone(h) /\ ~ Landed(h)

Exclusive ==
  /\ \A h \in flight : h \notin pool
  /\ \A h \in flight \cup pool : ~ Landed(h)

Refused(tx) == tx.state \in {"Rejected", "Dropped"}
Moves(h, tx) == HasEffect(tx) /\ Landed(h) /\ Status(h)
Sold(h) == Landed(h) /\ signed[h].kind = "sell"

\* What was refused, or given up, never lands; of a decided operation nothing is
\* on its way, and what failed has moved nothing; an exit sends one transaction
\* at a time, the sale last; a minute later a transaction is accounted for.
TxFinal(o, op, k) ==
  LET tx == op.txs[k]
      h  == <<o, k>>
  IN  /\ Refused(tx) => Never(h)
      /\ op.state # "Pending" => Gone(h)
      /\ op.state = "Failed" => ~ Moves(h, tx)
      /\ op.kind = "Entry" => tx.step = "entry"
      /\ op.kind = "Exit" => tx.step # "entry"
      /\ op.kind = "Exit" /\ k # Len(op.txs) => Landed(h) /\ tx.step = "approval"
      /\ tx.step = "sell" <=> signed[h].kind = "sell"
      /\ o <= aged => Accounted(h)

OpFinal(o, op) == \A k \in DOMAIN op.txs : TxFinal(o, op, k)
JournalFinal == \A o \in DOMAIN ops : OpFinal(o, ops[o])

\* The operation in hand is young and undecided.
CurOpen == pc \notin Quiet => Op.state = "Pending" /\ aged < cur

\* A position's exits are sales that landed.
SalesLanded == \A p \in positions \cup saved : \A h \in p.exits : Sold(h)

-----------------------------------------------------------------------------
(* The owner's places *)

Final == {"refused", "confirmed", "reverted", "unresolved"}
AllLanded == \A k \in DOMAIN Op.txs : Landed(<<cur, k>>)

AnswerFinal(k) ==
  /\ out[k].ans \in {"none", "refused"} => Never(<<cur, k>>)
  /\ pc \in {"armed", "send"} => out[k].ans = "none" /\ Op.txs[k].state = "Prepared"
  /\ pc = "confirm" => out[k].ans # "none" /\ (Op.kind = "Exit" => out[k].ans # "refused")
  /\ pc \in {"refresh", "settle"} \/ (InEntry /\ pc \in {"flush", "apply"}) => out[k].ans \in Final

AnswersFinal == pc \notin Quiet => \A k \in DOMAIN out : AnswerFinal(k)

EntryPlaces ==
  InEntry =>
    /\ pc # "sign" => DOMAIN out = DOMAIN Op.txs
    /\ pc \in {"flush", "apply"} => (Unsure => bad)

ExitPlaces ==
  InExit =>
    /\ pc \in {"trade", "book", "flush", "apply"} => AllLanded
    /\ pc = "trade" => \A k \in DOMAIN Op.txs : Op.txs[k].step = "approval"
    /\ pc = "book" => Op.txs # <<>> /\ Op.txs[Last].step = "sell"
    /\ pc \in {"charged", "fail"} => ~ RequiresRecovery(Op)

-----------------------------------------------------------------------------
(* The startup *)

\* What the two counts leave out is out of reach.
OutOfReach ==
  pc = "boot" =>
    \A h \in DOMAIN signed :
      h[1] <= aged /\ rec.latest <= Nonce(h) /\ rec.pending <= Nonce(h) => Never(h)

\* What it has just booked it is about to decide.
BookedOK ==
  pc = "boot" /\ rec.booked =>
    /\ rec.todo # {} /\ Refreshed /\ rec.snap[Target].state = "Pending"
    /\ Current.kind = "Entry" => Fill # {}
    /\ Current.kind = "Exit" => (Sale = {} => ~ RequiresRecovery(Current))

FinalInv ==
  /\ Exclusive /\ JournalFinal /\ CurOpen /\ SalesLanded
  /\ AnswersFinal /\ EntryPlaces /\ ExitPlaces /\ OutOfReach /\ BookedOK

-----------------------------------------------------------------------------
(* What a step may do to what is on its way *)

\* Only what has never been sent is sent, and by the owner; what enters the pool
\* was on its way, what lands was pooled; the first nonces stay pooled.
Drift ==
  /\ \A h \in flight' \ flight :
       Never(h) /\ pc \in {"armed", "send"} /\ \E k \in DOMAIN out : h = <<cur, k>>
  /\ \A h \in pool' : h \in pool \/ (h \in flight /\ h \notin flight')
  /\ \A h : Landed(h)' => Landed(h) \/ (h \in pool /\ h \notin pool')
  /\ \A h, g \in pool :
       h \in pool' /\ LatestCount' <= Nonce(g) /\ Nonce(g) <= Nonce(h) => g \in pool'

StaysPut(h) ==
  /\ Gone(h) => Gone(h)' /\ (Landed(h)' => Landed(h))
  /\ Accounted(h) => Accounted(h)'

FirstFreeIs ==
  /\ LatestCount \in Nat /\ PendingCount \in Nat /\ LatestCount <= PendingCount
  /\ \A g \in pool : Nonce(g) # PendingCount

LEMMA FirstFree == ChainTyped => FirstFreeIs
BY PendingCountNat DEF FirstFreeIs

\* What the pending count covers it goes on covering.
LEMMA CountedStays ==
  ASSUME ChainTyped, ChainTyped', Grows, Drift, NEW h \in pool, h \in pool', Nonce(h) < PendingCount
  PROVE  Nonce(h)' < PendingCount'
<1>1. /\ LatestCount \in Nat /\ PendingCount \in Nat
      /\ \A g \in pool : Nonce(g) \in Nat
      /\ \A n \in Nat : LatestCount <= n /\ n < PendingCount => \E g \in pool : Nonce(g) = n
  BY PendingCountNat
<1>2. /\ LatestCount' \in Nat /\ PendingCount' \in Nat /\ LatestCount' <= PendingCount'
      /\ \A g \in pool' : Nonce(g)' # PendingCount'
  <2>1. FirstFreeIs'
    BY FirstFree, PTL
  <2> QED
    BY <2>1 DEF FirstFreeIs
<1>3. \A g \in pool : Nonce(g)' = Nonce(g)
  BY DEF ChainTyped, Grows, Nonce
<1>4. LatestCount <= LatestCount'
  <2>1. /\ DOMAIN mined = 1 .. Len(mined) /\ Len(mined) \in Nat
        /\ DOMAIN mined' = 1 .. Len(mined') /\ Len(mined') \in Nat
    BY DEF ChainTyped
  <2>2. DOMAIN mined \subseteq DOMAIN mined'
    BY DEF Grows
  <2> QED
    BY <2>1, <2>2 DEF LatestCount
<1>5. SUFFICES ASSUME PendingCount' <= Nonce(h)
               PROVE  FALSE
  BY <1>1, <1>2, <1>3
<1>6. PICK g \in pool : Nonce(g) = PendingCount'
  BY <1>1, <1>2, <1>4, <1>5
<1>7. g \in pool'
  BY <1>2, <1>5, <1>6 DEF Drift
<1> QED
  BY <1>2, <1>3, <1>6, <1>7

LEMMA DriftStays ==
  ASSUME ChainTyped, ChainTyped', Grows, Exclusive, Drift
  PROVE  Exclusive' /\ \A h : h \notin flight' \ flight => StaysPut(h)
<1>1. Exclusive'
  BY DEF Drift, Exclusive, Never, Gone
<1>2. ASSUME NEW h, h \notin flight' \ flight
      PROVE  StaysPut(h)
  <2>1. Gone(h) => Gone(h)' /\ (Landed(h)' => Landed(h))
    BY <1>2 DEF Drift, Gone
  <2>2. ASSUME Accounted(h)
        PROVE  Accounted(h)'
    <3>1. h \notin flight'
      BY <1>2, <2>2 DEF Accounted
    <3>2. ASSUME h \in pool'
          PROVE  Nonce(h)' < PendingCount'
      <4>1. h \in pool /\ Nonce(h) < PendingCount
        BY <2>2, <3>2 DEF Accounted, Drift
      <4> QED
        BY <3>2, <4>1, CountedStays
    <3> QED
      BY <3>1, <3>2 DEF Accounted
  <2> QED
    BY <2>1, <2>2 DEF StaysPut
<1> QED
  BY <1>1, <1>2

\* Delivery, loss, inclusion and eviction.
LEMMA ChainDrifts ==
  ASSUME ExecInv, StepOK, MaxReorgs = 0, ChainNext
  PROVE  Drift
<1>0. /\ forks \in Nat /\ DOMAIN mined = 1 .. Len(mined) /\ Len(mined) \in Nat
      /\ mined \in Seq([tx : DOMAIN signed, ok : BOOLEAN, fork : Nat])
      /\ \A h \in pool : Nonce(h) \in Nat
  BY PendingCountNat DEF ExecInv, ChainTyped
<1>1. ~ Reorg
  BY <1>0 DEF Reorg
<1>2. CASE \E h \in flight : Arrive(h) \/ Lose(h)
  <2>1. PICK g \in flight : Arrive(g) \/ Lose(g)
    BY <1>2
  <2>2. mined' = mined /\ flight' = flight \ {g} /\ (pool' = pool \/ pool' = pool \cup {g})
    BY <2>1 DEF Arrive, Lose
  <2> QED
    BY <2>2 DEF Drift, Landed
<1>3. CASE \E g \in pool : Evict(g)
  <2>1. PICK g \in pool : Evict(g)
    BY <1>3
  <2>2. UNCHANGED <<mined, flight>> /\ pool' = {h \in pool : Nonce(h) < Nonce(g)}
    BY <2>1 DEF Evict
  <2> QED
    BY <1>0, <2>2 DEF Drift, Landed
<1>4. CASE \E g \in pool : \E ok \in BOOLEAN : Mine(g, ok)
  <2>1. PICK g \in pool, ok \in BOOLEAN : Mine(g, ok)
    BY <1>4
  <2> DEFINE m == [tx |-> g, ok |-> ok, fork |-> forks]
  <2>2. mined' = Append(mined, m) /\ m.tx = g /\ flight' = flight /\ pool' = pool \ {g} /\ Nonce(g) = Len(mined)
    BY <2>1 DEF Mine, LatestCount
  <2> HIDE DEF m
  <2>3. /\ DOMAIN mined' = 1 .. Len(mined) + 1 /\ mined'[Len(mined) + 1] = m /\ Len(mined') = Len(mined) + 1
        /\ \A i \in DOMAIN mined : mined'[i] = mined[i]
    BY <1>0, <2>2
  <2>4. \A h : Landed(h)' => Landed(h) \/ h = g
    BY <1>0, <2>2, <2>3 DEF Landed
  <2> QED
    BY <1>0, <2>2, <2>3, <2>4 DEF Drift, LatestCount
<1> QED
  BY <1>1, <1>2, <1>3, <1>4 DEF ChainNext, Delivery, Inclusion

LEMMA StillDrifts ==
  ASSUME UNCHANGED <<mined, flight, pool>>
  PROVE  Drift
BY DEF Drift, Landed

LEMMA TransmitDrifts ==
  ASSUME ExecInv, AnswersFinal, pc \in {"armed", "send"}, NEW outcome, Transmit(outcome)
  PROVE  Drift
<1>1. pc \notin Quiet
  BY DEF Quiet, Boot
<1>2. UNCHANGED <<mined, pool>> /\ \A h \in flight' \ flight : \E k \in DOMAIN out : h = <<cur, k>>
  BY DEF Transmit
<1>3. \A k \in DOMAIN out : Never(<<cur, k>>)
  BY <1>1 DEF AnswersFinal, AnswerFinal
<1> QED
  BY <1>2, <1>3 DEF Drift, Landed

LEMMA EveryDrift ==
  ASSUME ExecInv, StepOK, AnswersFinal, MaxReorgs = 0, [Next]_vars
  PROVE  Drift
<1>1. ASSUME UNCHANGED <<mined, flight, pool>>
      PROVE  Drift
  BY <1>1, StillDrifts
<1>2. CASE Entries
  <2>1. CASE FireBurst
    <3>1. pc = "armed" /\ \E outcome : Transmit(outcome)
      BY <2>1 DEF FireBurst
    <3> QED
      BY <3>1, TransmitDrifts
  <2>2. CASE (\E t \in Token : BeginEntry(t)) \/ PresignFails \/ Unsent \/ RecordAnswer \/ RefreshNonce
             \/ NoFill \/ OpenPosition
    BY <1>1, <2>2 DEF BeginEntry, PresignFails, Unsent, RecordAnswer, RefreshNonce, NoFill, OpenPosition, chainVars
  <2>3. CASE Presign
    BY <1>1, <2>3 DEF Presign, Reserve
  <2> QED
    BY <1>2, <2>1, <2>2, <2>3 DEF Entries
<1>3. CASE Exits
  <2>1. CASE Send
    <3>1. pc = "send" /\ \E outcome : Transmit(outcome)
      BY <2>1 DEF Send
    <3> QED
      BY <3>1, TransmitDrifts
  <2>2. CASE \E step \in {"approval", "sell"} : StageSend(step)
    BY <1>1, <2>2 DEF StageSend, Reserve
  <2>3. CASE \/ \E p \in positions : \E qty \in 1 .. p.held : DecideExit(p, qty)
             \/ \E j \in queue : BeginExit(j)
             \/ TradeFails \/ RecordSend \/ BookExit \/ BookFails \/ FailExit
    BY <1>1, <2>3 DEF DecideExit, BeginExit, TradeFails, RecordSend, BookExit, BookFails, FailExit, chainVars
  <2>4. CASE Unwind
    BY <1>1, <2>4 DEF Unwind, chainVars
  <2> QED
    BY <1>3, <2>1, <2>2, <2>3, <2>4 DEF Exits
<1>4. CASE Both
  BY <1>1, <1>4 DEF Both, Confirm, RecordReceipts, Flush, FlushFails, RecordApplied, chainVars
<1>5. CASE Session
  BY <1>1, <1>5 DEF Session, CanonicalCheck, StopRequest, FlushIfDue, Shutdown, Crash, Age, chainVars
<1>6. CASE Startup
  <2>1. CASE Restart \/ RefreshTx \/ RecoverApplied \/ BootFails \/ Start
    BY <1>1, <2>1 DEF Restart, RefreshTx, RecoverApplied, BootFails, Start, chainVars
  <2>2. CASE RecoverEntry \/ RecoverFill \/ RecoverExit \/ RecoverSale \/ RecoverGas \/ RecordBooked
    <3>1. Booked \/ \E blocked, state : Verdict(blocked, state)
      BY <2>2 DEF RecoverEntry, RecoverFill, RecoverExit, RecoverSale, RecoverGas, RecordBooked
    <3> QED
      BY <1>1, <3>1 DEF Booked, Verdict, chainVars
  <2> QED
    BY <1>6, <2>1, <2>2 DEF Startup
<1>7. CASE Environment
  BY <1>7, ChainDrifts DEF Environment
<1>8. CASE UNCHANGED vars
  BY <1>1, <1>8 DEF vars, chainVars
<1> QED
  BY <1>2, <1>3, <1>4, <1>5, <1>6, <1>7, <1>8 DEF Next

LEMMA TxStays ==
  ASSUME ExecInv, ExecInv', StepOK, Exclusive, Drift, aged' = aged,
         NEW o, NEW op, NEW k, TxFinal(o, op, k), <<o, k>> \in DOMAIN signed,
         <<o, k>> \in flight' \ flight =>
           op.state = "Pending" /\ ~ Refused(op.txs[k]) /\ ~ (o <= aged)
  PROVE  TxFinal(o, op, k)'
<1> DEFINE h == <<o, k>>
<1>1. Landed(h) => Landed(h)' /\ Status(h)' = Status(h)
  BY LandedStays DEF ExecInv, StepOK
<1>2. signed'[h] = signed[h]
  BY DEF StepOK, Grows
<1>3. CASE h \notin flight' \ flight
  <2>1. StaysPut(h)
    BY <1>3, DriftStays DEF ExecInv, StepOK
  <2> HIDE DEF h
  <2>2. TxFinal(o, op, k) <=>
          /\ Refused(op.txs[k]) => Never(h)
          /\ op.state # "Pending" => Gone(h)
          /\ op.state = "Failed" => ~ Moves(h, op.txs[k])
          /\ op.kind = "Entry" => op.txs[k].step = "entry"
          /\ op.kind = "Exit" => op.txs[k].step # "entry"
          /\ op.kind = "Exit" /\ k # Len(op.txs) => Landed(h) /\ op.txs[k].step = "approval"
          /\ op.txs[k].step = "sell" <=> signed[h].kind = "sell"
          /\ o <= aged => Accounted(h)
    BY DEF TxFinal, h
  <2>3. Refused(op.txs[k]) => Never(h)'
    BY <2>1, <2>2 DEF StaysPut, Never
  <2>4. op.state # "Pending" => Gone(h)'
    BY <2>1, <2>2 DEF StaysPut
  <2>5. op.state = "Failed" => ~ Moves(h, op.txs[k])'
    BY <1>1, <2>1, <2>2 DEF StaysPut, Moves
  <2>6. o <= aged => Accounted(h)'
    BY <2>1, <2>2 DEF StaysPut
  <2> QED
    BY <1>1, <1>2, <2>2, <2>3, <2>4, <2>5, <2>6 DEF TxFinal, h, Refused
<1>4. CASE h \in flight' \ flight
  BY <1>1, <1>2, <1>4 DEF TxFinal, Refused
<1> QED
  BY <1>3, <1>4

LEMMA OpStays ==
  ASSUME ExecInv, ExecInv', StepOK, Exclusive, Drift, aged' = aged,
         NEW o, NEW op, OpFinal(o, op),
         \A k \in DOMAIN op.txs :
           /\ <<o, k>> \in DOMAIN signed
           /\ <<o, k>> \in flight' \ flight =>
                op.state = "Pending" /\ ~ Refused(op.txs[k]) /\ ~ (o <= aged)
  PROVE  OpFinal(o, op)'
<1>1. ASSUME NEW k \in DOMAIN op.txs
      PROVE  TxFinal(o, op, k)'
  <2>1. TxFinal(o, op, k)
    BY DEF OpFinal
  <2> QED
    BY <2>1, TxStays
<1> QED
  BY <1>1 DEF OpFinal

\* The journal's word on an operation, in the next state.
LEMMA OpIn ==
  ASSUME NEW o, NEW op, op = ops'[o], OpFinal(o, op)'
  PROVE  OpFinal(o, ops[o])'
BY DEF OpFinal, TxFinal

LEMMA JournalSame ==
  ASSUME ExecInv, ExecInv', StepOK, FinalInv, Drift, UNCHANGED <<ops, aged>>
  PROVE  JournalFinal'
<1> SUFFICES ASSUME NEW o \in DOMAIN ops
             PROVE  OpFinal(o, ops[o])'
  BY DEF JournalFinal
<1>1. PICK op : op = ops[o]
  OBVIOUS
<1>2. OpFinal(o, op)
  BY <1>1 DEF FinalInv, JournalFinal
<1>3. ASSUME NEW k \in DOMAIN op.txs
      PROVE  /\ <<o, k>> \in DOMAIN signed
             /\ <<o, k>> \in flight' \ flight =>
                  op.state = "Pending" /\ ~ Refused(op.txs[k]) /\ ~ (o <= aged)
  <2>1. <<o, k>> \in DOMAIN signed
    BY <1>1 DEF ExecInv, Signed
  <2>2. ASSUME <<o, k>> \in flight' \ flight
        PROVE  op.state = "Pending" /\ ~ Refused(op.txs[k]) /\ ~ (o <= aged)
    <3>1. pc \in {"armed", "send"} /\ o = cur /\ k \in DOMAIN out
      BY <2>2 DEF Drift
    <3>2. pc \notin Quiet
      BY <3>1 DEF Quiet, Boot
    <3>3. op = Op /\ Op.state = "Pending" /\ aged < cur /\ Op.txs[k].state = "Prepared"
      BY <1>1, <3>1, <3>2 DEF FinalInv, CurOpen, AnswersFinal, AnswerFinal, Op
    <3>4. aged \in Int /\ cur \in Int
      BY <3>2, CurIs DEF ExecInv, Scalars
    <3> QED
      BY <3>1, <3>3, <3>4 DEF Refused
  <2> QED
    BY <2>1, <2>2
<1>4. OpFinal(o, op)'
  BY <1>2, <1>3, OpStays DEF FinalInv
<1> QED
  BY <1>1, <1>4, OpIn

LEMMA JournalPut ==
  ASSUME ExecInv, ExecInv', StepOK, FinalInv, NEW o \in DOMAIN ops, NEW op, Put(o, op),
         DOMAIN op.txs = DOMAIN ops[o].txs, OpFinal(o, op),
         UNCHANGED <<aged, mined, flight, pool>>
  PROVE  JournalFinal'
<1>0. Drift
  BY StillDrifts
<1>1. DOMAIN ops' = DOMAIN ops /\ ops'[o] = op /\ \A p \in DOMAIN ops \ {o} : ops'[p] = ops[p]
  BY DEF Put
<1>2. ASSUME NEW p \in DOMAIN ops'
      PROVE  OpFinal(p, ops[p])'
  <2>1. PICK q : q = ops'[p]
    OBVIOUS
  <2>2. OpFinal(p, q) /\ \A k \in DOMAIN q.txs : <<p, k>> \in DOMAIN signed
    BY <1>1, <2>1 DEF FinalInv, JournalFinal, ExecInv, Signed
  <2>3. OpFinal(p, q)'
    BY <1>0, <2>2, OpStays DEF FinalInv
  <2> QED
    BY <2>1, <2>3, OpIn
<1> QED
  BY <1>2 DEF JournalFinal

LEMMA JournalAppend ==
  ASSUME ExecInv, ExecInv', StepOK, FinalInv, NEW op, ops' = Append(ops, op), op.txs = <<>>,
         UNCHANGED <<aged, mined, flight, pool>>
  PROVE  JournalFinal'
<1>0. Drift
  BY StillDrifts
<1>1. /\ DOMAIN ops' = DOMAIN ops \cup {Len(ops) + 1} /\ ops'[Len(ops) + 1] = op
      /\ \A p \in DOMAIN ops : ops'[p] = ops[p]
  <2>1. ops \in Seq(OpRecord)
    BY DEF ExecInv, JournalTyped
  <2> QED
    BY <2>1
<1>2. ASSUME NEW p \in DOMAIN ops'
      PROVE  OpFinal(p, ops[p])'
  <2>1. PICK q : q = ops'[p]
    OBVIOUS
  <2>2. OpFinal(p, q) /\ \A k \in DOMAIN q.txs : <<p, k>> \in DOMAIN signed
    <3>1. CASE p \in DOMAIN ops
      BY <1>1, <2>1, <3>1 DEF FinalInv, JournalFinal, ExecInv, Signed
    <3>2. CASE p = Len(ops) + 1
      <4>1. DOMAIN q.txs = {}
        BY <1>1, <2>1, <3>2
      <4> QED
        BY <4>1 DEF OpFinal
    <3> QED
      BY <1>1, <3>1, <3>2
  <2>3. OpFinal(p, q)'
    BY <1>0, <2>2, OpStays DEF FinalInv
  <2> QED
    BY <2>1, <2>3, OpIn
<1> QED
  BY <1>2 DEF JournalFinal

\* One record rewritten, and not refused unless it never lands.
LEMMA RewrittenFinal ==
  ASSUME NEW o, NEW old, NEW op, NEW i, OpFinal(o, old), Rewritten(op, old, i),
         i \in DOMAIN old.txs, Refused(op.txs[i]) => Never(<<o, i>>)
  PROVE  OpFinal(o, op)
<1>1. ASSUME NEW k \in DOMAIN op.txs
      PROVE  TxFinal(o, op, k)
  <2>1. TxFinal(o, old, k) /\ op.kind = old.kind /\ op.state = old.state /\ Len(op.txs) = Len(old.txs)
        /\ op.txs[k].step = old.txs[k].step
    BY DEF OpFinal, Rewritten, Same
  <2>2. Refused(op.txs[k]) => Never(<<o, k>>)
    BY <2>1 DEF Rewritten, TxFinal
  <2> QED
    BY <2>1, <2>2 DEF TxFinal, Moves, HasEffect
<1> QED
  BY <1>1 DEF OpFinal

\* An operation decided, once nothing of it is on its way.
LEMMA DecidedFinal ==
  ASSUME NEW o, NEW old \in OpRecord, NEW op, NEW state \in {"Applied", "Failed"}, OpFinal(o, old),
         op = WithState(old, state),
         \A k \in DOMAIN old.txs :
           Gone(<<o, k>>) /\ (state = "Failed" => ~ Moves(<<o, k>>, old.txs[k]))
  PROVE  OpFinal(o, op) /\ DOMAIN op.txs = DOMAIN old.txs
<1>1. op.kind = old.kind /\ op.txs = old.txs /\ op.state = state
  BY WithStateIs DEF Same, OperationState
<1> QED
  BY <1>1 DEF OpFinal, TxFinal

\* What is not ambiguous has its answer.
LEMMA UnambiguousGone ==
  ASSUME ExecInv, Receipts, FinalInv, NEW o \in DOMAIN ops, ~ HasAmbiguous(ops[o])
  PROVE  \A k \in DOMAIN ops[o].txs :
           /\ Gone(<<o, k>>)
           /\ ops[o].txs[k].state = "Confirmed" \/ ~ Moves(<<o, k>>, ops[o].txs[k])
<1> SUFFICES ASSUME NEW k \in DOMAIN ops[o].txs
             PROVE  /\ Gone(<<o, k>>)
                    /\ ops[o].txs[k].state = "Confirmed" \/ ~ Moves(<<o, k>>, ops[o].txs[k])
  OBVIOUS
<1> DEFINE h == <<o, k>>
           tx == ops[o].txs[k]
<1>1. tx \in TxRecord /\ TxFinal(o, ops[o], k) /\ Accurate(h, tx)
  BY OpIs DEF ExecInv, FinalInv, JournalFinal, OpFinal, Receipts, AccurateJournal
<1>2. tx.state \in {"Confirmed", "Reverted", "Rejected", "Dropped"}
  BY <1>1 DEF HasAmbiguous, AmbiguousState, TxRecord, TxState
<1>3. CASE tx.state \in {"Confirmed", "Reverted"}
  BY <1>1, <1>3 DEF Accurate, FinalInv, Exclusive, Gone, Moves
<1>4. CASE tx.state \in {"Rejected", "Dropped"}
  BY <1>1, <1>4 DEF TxFinal, Refused, Never, Moves
<1> QED
  BY <1>2, <1>3, <1>4

\* What requires no recovery has moved nothing, and will not.
LEMMA SettledIs ==
  ASSUME ExecInv, Receipts, FinalInv, NEW o \in DOMAIN ops, ops[o].state = "Pending",
         ~ RequiresRecovery(ops[o])
  PROVE  \A k \in DOMAIN ops[o].txs : Gone(<<o, k>>) /\ ~ Moves(<<o, k>>, ops[o].txs[k])
<1>1. ~ HasAmbiguous(ops[o])
      /\ \A k \in DOMAIN ops[o].txs : ops[o].txs[k].state = "Confirmed" => ~ HasEffect(ops[o].txs[k])
  BY DEF RequiresRecovery
<1> QED
  BY <1>1, UnambiguousGone DEF Moves

LEMMA FreshNever ==
  ASSUME ExecInv, Receipts, FinalInv, pc \notin Quiet, NEW k \in Nat, k > Last
  PROVE  <<cur, k>> \notin DOMAIN signed /\ Never(<<cur, k>>)
<1>1. DOMAIN Op.txs = 1 .. Last /\ Last \in Nat /\ Op = ops[cur]
  BY CurIs
<1>2. <<cur, k>> \notin DOMAIN signed
  <2> SUFFICES ASSUME <<cur, k>> \in DOMAIN signed
               PROVE  FALSE
    OBVIOUS
  <2>1. PICK o \in DOMAIN ops : \E i \in DOMAIN ops[o].txs : <<cur, k>> = <<o, i>>
    BY DEF Receipts, Journaled
  <2> QED
    BY <1>1, <2>1
<1>3. flight \cup pool \subseteq DOMAIN signed
  BY DEF ExecInv, ChainTyped
<1>4. ~ Landed(<<cur, k>>)
  BY <1>2, MinedIs DEF ExecInv
<1> QED
  BY <1>2, <1>3, <1>4 DEF Never, Gone

LEMMA ReserveFinal ==
  ASSUME ExecInv, ExecInv', Receipts, StepOK, FinalInv, pc \notin Quiet, NEW step \in Step, NEW n \in Nat,
         NEW payload \in [kind : Kind, token : Token, qty : Nat], Reserve(step, n, payload),
         aged' = aged, payload.kind = "sell" <=> step = "sell",
         Op.kind = "Entry" => step = "entry",
         Op.kind = "Exit" =>
           /\ step # "entry" /\ n = 1 /\ AllLanded
           /\ \A k \in DOMAIN Op.txs : Op.txs[k].step = "approval"
  PROVE  JournalFinal'
<1>0. UNCHANGED <<mined, flight, pool>> /\ Drift
  BY StillDrifts DEF Reserve
<1>1. /\ Rewrites(cur) /\ ops'[cur] \in OpRecord
      /\ Len(ops'[cur].txs) = Last + n /\ DOMAIN ops'[cur].txs = 1 .. Last + n
      /\ \A k \in 1 .. Last : ops'[cur].txs[k] = Op.txs[k]
      /\ \A i \in 1 .. n : ops'[cur].txs[Last + i] = Staged(step, nonce + i - 1)
  BY ReserveKeeps
<1>2. /\ cur \in DOMAIN ops /\ cur \in Nat /\ Op = ops[cur] /\ Last \in Nat /\ DOMAIN Op.txs = 1 .. Last
      /\ Op.state = "Pending" /\ aged < cur /\ aged \in Int
  BY CurIs DEF FinalInv, CurOpen, ExecInv, Scalars
<1>3. /\ DOMAIN ops' = DOMAIN ops /\ ops'[cur].kind = Op.kind
      /\ \A p \in DOMAIN ops \ {cur} : ops'[p] = ops[p]
  <2>1. DOMAIN signed \subseteq DOMAIN signed'
    BY DEF Reserve
  <2> QED
    BY <1>1, <1>2, <2>1, RewriteKeeps DEF ExecInv
<1>4. ops'[cur].state = "Pending"
  <2>1. \E txs : Put(cur, [Op EXCEPT !.txs = txs])
    BY DEF Reserve, StageMany
  <2> QED
    BY <1>2, <2>1, TxsOnly
<1>5. PICK c, q : c = cur /\ q = ops'[cur]
  OBVIOUS
<1>6. ASSUME NEW k \in DOMAIN q.txs
      PROVE  TxFinal(c, q, k)'
  <2>1. CASE k \in 1 .. Last
    <3>1. TxFinal(c, Op, k) /\ q.txs[k] = Op.txs[k] /\ <<c, k>> \in DOMAIN signed
      BY <1>1, <1>2, <1>5, <2>1 DEF FinalInv, JournalFinal, OpFinal, ExecInv, Signed, Op
    <3>2. TxFinal(c, q, k)
      BY <1>2, <1>3, <1>4, <1>5, <2>1, <3>1 DEF TxFinal, AllLanded
    <3> QED
      BY <1>0, <3>1, <3>2, TxStays DEF FinalInv
  <2>2. CASE k \notin 1 .. Last
    <3>1. PICK i \in 1 .. n : k = Last + i
      <4>1. k \in 1 .. Last + n
        BY <1>1, <1>5
      <4>2. k - Last \in 1 .. n /\ k = Last + (k - Last)
        BY <1>2, <2>2, <4>1
      <4> QED
        BY <4>2
    <3>2. q.txs[k].state = "Prepared" /\ q.txs[k].step = step
      <4>1. q.txs[k] = Staged(step, nonce + i - 1)
        BY <1>1, <1>5, <3>1
      <4> QED
        BY <4>1 DEF Staged
    <3>3. <<c, k>> \in {<<c, Last + j>> : j \in 1 .. n}
      BY <3>1
    <3>4. signed'[<<c, k>>].kind = payload.kind
      BY <1>5, <3>3 DEF Reserve
    <3>5. ~ (c <= aged') /\ (Op.kind = "Exit" => k = Len(q.txs))
      BY <1>1, <1>2, <1>5, <3>1
    <3>6. Op.kind \in {"Entry", "Exit"}
      BY CurIs
    <3> QED
      BY <1>3, <1>4, <1>5, <3>2, <3>4, <3>5, <3>6 DEF TxFinal, Refused
  <2> QED
    BY <2>1, <2>2
<1>7. ASSUME NEW p \in DOMAIN ops'
      PROVE  OpFinal(p, ops[p])'
  <2>1. CASE p = c
    <3>1. OpFinal(c, q)'
      BY <1>6 DEF OpFinal
    <3>2. q = ops'[c]
      BY <1>5
    <3>3. OpFinal(c, ops[c])'
      BY <3>1, <3>2, OpIn
    <3> QED
      BY <2>1, <3>3
  <2>2. CASE p # c
    <3>1. PICK r : r = ops'[p]
      OBVIOUS
    <3>2. OpFinal(p, r) /\ \A k \in DOMAIN r.txs : <<p, k>> \in DOMAIN signed
      BY <1>3, <1>5, <2>2, <3>1 DEF FinalInv, JournalFinal, ExecInv, Signed
    <3>3. OpFinal(p, r)'
      BY <1>0, <3>2, OpStays DEF FinalInv
    <3> QED
      BY <3>1, <3>3, OpIn
  <2> QED
    BY <2>1, <2>2
<1> QED
  BY <1>7 DEF JournalFinal

LEMMA PresignFinal ==
  ASSUME ExecInv, ExecInv', Receipts, StepOK, FinalInv, Presign
  PROVE  JournalFinal'
<1> DEFINE payload == [kind |-> "buy", token |-> Op.subject, qty |-> 0]
<1>1. pc = "sign" /\ pc \notin Quiet /\ Op.kind = "Entry"
  BY KindIs DEF Presign
<1>2. payload \in [kind : Kind, token : Token, qty : Nat] /\ payload.kind # "sell"
  <2>1. cur \in DOMAIN ops /\ Op = ops[cur]
    BY <1>1, CurIs
  <2> QED
    BY <1>1, <2>1 DEF ExecInv, JournalTyped, Kind
<1>3. "entry" \in Step /\ Attempts \in Nat /\ aged' = aged
  BY ExecutionAssumption DEF Step, Presign
<1> HIDE DEF payload
<1>4. Reserve("entry", Attempts, payload)
  BY DEF Presign, payload
<1> QED
  BY <1>1, <1>2, <1>3, <1>4, ReserveFinal

LEMMA StageSendFinal ==
  ASSUME ExecInv, ExecInv', Receipts, StepOK, FinalInv, NEW step \in {"approval", "sell"}, StageSend(step)
  PROVE  JournalFinal'
<1> DEFINE kind == IF step = "approval" THEN "approve" ELSE "sell"
           payload == [kind |-> kind, token |-> Pos(job.pos).token, qty |-> job.qty]
<1>1. pc = "trade" /\ pc \notin Quiet /\ InExit /\ Op.kind = "Exit"
  BY KindIs DEF StageSend
<1>2. payload \in [kind : Kind, token : Token, qty : Nat] /\ (payload.kind = "sell" <=> step = "sell")
  <2>1. kind \in Kind /\ (kind = "sell" <=> step = "sell")
    BY DEF Kind
  <2>2. Pos(job.pos).token \in Token /\ job.qty \in Nat
    BY <1>1, JobIs DEF Position, Job
  <2> HIDE DEF kind
  <2> QED
    BY <2>1, <2>2
<1>3. step \in Step /\ step # "entry" /\ 1 \in Nat /\ aged' = aged
  BY DEF Step, StageSend
<1>4. Reserve(step, 1, payload)
  BY DEF StageSend
<1>5. AllLanded /\ \A k \in DOMAIN Op.txs : Op.txs[k].step = "approval"
  BY <1>1 DEF FinalInv, ExitPlaces
<1> HIDE DEF payload
<1> QED
  BY <1>1, <1>2, <1>3, <1>4, <1>5, ReserveFinal

LEMMA DecideFinal ==
  ASSUME ExecInv, ExecInv', StepOK, FinalInv, NEW o \in DOMAIN ops, NEW state \in {"Applied", "Failed"},
         Put(o, WithState(ops[o], state)), UNCHANGED <<aged, mined, flight, pool>>,
         \A k \in DOMAIN ops[o].txs :
           Gone(<<o, k>>) /\ (state = "Failed" => ~ Moves(<<o, k>>, ops[o].txs[k]))
  PROVE  JournalFinal'
<1>1. PICK op : op = WithState(ops[o], state)
  OBVIOUS
<1>2. ops[o] \in OpRecord /\ OpFinal(o, ops[o]) /\ Put(o, op)
  BY <1>1, OpIs DEF ExecInv, FinalInv, JournalFinal
<1>3. OpFinal(o, op) /\ DOMAIN op.txs = DOMAIN ops[o].txs
  BY <1>1, <1>2, DecidedFinal
<1> QED
  BY <1>2, <1>3, JournalPut

LEMMA RewriteFinal ==
  ASSUME ExecInv, ExecInv', StepOK, FinalInv, NEW o \in DOMAIN ops, NEW k \in DOMAIN ops[o].txs,
         NEW op, Rewritten(op, ops[o], k), Put(o, op), Refused(op.txs[k]) => Never(<<o, k>>),
         UNCHANGED <<aged, mined, flight, pool>>
  PROVE  JournalFinal'
<1>1. OpFinal(o, ops[o]) /\ DOMAIN op.txs = DOMAIN ops[o].txs
  BY DEF FinalInv, JournalFinal, Rewritten
<1>2. OpFinal(o, op)
  BY <1>1, RewrittenFinal
<1> QED
  BY <1>1, <1>2, JournalPut

LEMMA MarkFinal ==
  ASSUME ExecInv, ExecInv', StepOK, FinalInv, pc \notin Quiet, NEW k \in DOMAIN Op.txs,
         NEW state \in {"Submitted", "Rejected", "Unresolved"}, Put(cur, Mark(Op, k, state)),
         state = "Rejected" => Never(<<cur, k>>), UNCHANGED <<aged, mined, flight, pool>>
  PROVE  JournalFinal'
<1>1. cur \in DOMAIN ops /\ Op = ops[cur] /\ Op \in OpRecord /\ state \in TxState
  BY CurIs DEF TxState
<1>2. PICK op : op = Mark(Op, k, state)
  OBVIOUS
<1>3. Rewritten(op, Op, k) /\ op.txs[k].state = state
  BY <1>1, <1>2, MarkIs DEF Marked
<1>4. Refused(op.txs[k]) => Never(<<cur, k>>)
  BY <1>3 DEF Refused
<1> QED
  BY <1>1, <1>2, <1>3, <1>4, RewriteFinal

LEMMA RecordAnswerFinal ==
  ASSUME ExecInv, ExecInv', StepOK, FinalInv, RecordAnswer
  PROVE  JournalFinal'
<1> DEFINE Left == {j \in DOMAIN out : Op.txs[j].state = "Prepared"}
           k == Min(Left)
           state == AnswerState(out[k].ans)
<1>1. pc = "answers" /\ pc \notin Quiet /\ UNCHANGED <<aged, mined, flight, pool>>
  BY KindIs DEF RecordAnswer, chainVars
<1>2. k \in DOMAIN Op.txs /\ k \in DOMAIN out /\ out[k].ans \in Answered
  <2>1. /\ DOMAIN out = DOMAIN Op.txs /\ Op.txs[Last].state = "Prepared" /\ Op.txs # <<>>
        /\ \A j \in DOMAIN out : out[j].ans \in Answered
    BY <1>1 DEF ExecInv, AnswersOK
  <2>2. DOMAIN Op.txs = 1 .. Last /\ Last \in Nat /\ Op \in OpRecord
    BY <1>1, CurIs
  <2>3. Last \in 1 .. Last
    BY <2>1, <2>2 DEF Last, OpRecord
  <2>4. Left \in SUBSET Nat /\ Left # {}
    BY <2>1, <2>2, <2>3
  <2>5. k \in Left
    BY <2>4, MinIs
  <2> QED
    BY <2>1, <2>5
<1>3. state \in {"Submitted", "Rejected", "Unresolved"} /\ (state = "Rejected" => Never(<<cur, k>>))
  <2>1. out[k].ans = "refused" => Never(<<cur, k>>)
    BY <1>1, <1>2 DEF FinalInv, AnswersFinal, AnswerFinal
  <2> QED
    BY <1>2, <2>1 DEF AnswerState, Answered
<1> HIDE DEF k, state
<1>4. Put(cur, Mark(Op, k, state))
  BY DEF RecordAnswer, k, state
<1> QED
  BY <1>1, <1>2, <1>3, <1>4, MarkFinal

LEMMA RecordSendFinal ==
  ASSUME ExecInv, ExecInv', StepOK, FinalInv, RecordSend
  PROVE  JournalFinal'
<1>1. pc = "answer" /\ pc \notin Quiet /\ UNCHANGED <<aged, mined, flight, pool>>
  BY KindIs DEF RecordSend, chainVars
<1>2. Last \in DOMAIN Op.txs /\ Last \in DOMAIN out /\ out[Last].ans \in Answered
  BY <1>1 DEF ExecInv, AnswersOK
<1>3. PICK state \in {"Submitted", "Rejected", "Unresolved"} :
        Put(cur, Mark(Op, Last, state)) /\ (state = "Rejected" => out[Last].ans = "refused")
  <2>1. CASE out[Last].ans = "refused"
    <3> DEFINE state == IF nonce' = Op.txs[Last].nonce THEN "Rejected" ELSE "Unresolved"
    <3>1. Put(cur, Mark(Op, Last, state)) /\ state \in {"Submitted", "Rejected", "Unresolved"}
      BY <2>1 DEF RecordSend
    <3> QED
      BY <2>1, <3>1
  <2>2. CASE out[Last].ans # "refused"
    <3> DEFINE state == AnswerState(out[Last].ans)
    <3>1. Put(cur, Mark(Op, Last, state)) /\ state \in {"Submitted", "Unresolved"}
      BY <1>2, <2>2 DEF RecordSend, AnswerState, Answered
    <3> QED
      BY <3>1
  <2> QED
    BY <2>1, <2>2
<1>4. state = "Rejected" => Never(<<cur, Last>>)
  BY <1>1, <1>2, <1>3 DEF FinalInv, AnswersFinal, AnswerFinal
<1> QED
  BY <1>1, <1>2, <1>3, <1>4, MarkFinal

\* A receipt refuses nothing.
LEMMA ReceiptFinal ==
  ASSUME NEW tx \in TxRecord, NEW r
  PROVE  /\ WithReceipt(tx, r).step = tx.step
         /\ Refused(WithReceipt(tx, r)) => Refused(tx)
<1>1. CASE r.ans = "confirmed"
  BY <1>1 DEF WithReceipt, TxRecord, Refused
<1>2. CASE r.ans = "reverted"
  BY <1>2 DEF WithReceipt, TxRecord, Refused
<1>3. CASE r.ans = "unresolved"
  BY <1>3 DEF WithReceipt, TxRecord, Refused
<1>4. CASE r.ans \notin {"confirmed", "reverted", "unresolved"}
  BY <1>4 DEF WithReceipt
<1> QED
  BY <1>1, <1>2, <1>3, <1>4

LEMMA RecordReceiptsFinal ==
  ASSUME ExecInv, ExecInv', StepOK, FinalInv, RecordReceipts
  PROVE  JournalFinal'
<1>1. pc = "confirm" /\ pc \notin Quiet /\ Put(cur, WithReceipts(Op, out)) /\ UNCHANGED <<aged, mined, flight, pool>>
  BY DEF RecordReceipts, Quiet, Boot, chainVars
<1>2. cur \in DOMAIN ops /\ Op = ops[cur] /\ Op \in OpRecord /\ \A k \in DOMAIN Op.txs : Op.txs[k] \in TxRecord
  BY <1>1, CurIs
<1>3. PICK op : op = WithReceipts(Op, out)
  OBVIOUS
<1>4. /\ Same(op, Op) /\ op.state = Op.state /\ DOMAIN op.txs = DOMAIN Op.txs
      /\ \A k \in DOMAIN Op.txs :
           /\ k \in DOMAIN out => op.txs[k] = WithReceipt(Op.txs[k], out[k])
           /\ k \notin DOMAIN out => op.txs[k] = Op.txs[k]
  <2>1. \A k \in DOMAIN out : out[k] \in Answer
    BY <1>1 DEF ExecInv, AnswersOK
  <2> QED
    BY <1>2, <1>3, <2>1, ReceiptsAre
<1>5. Len(op.txs) = Len(Op.txs)
  BY <1>2, <1>4 DEF Same, OpRecord
<1>6. ASSUME NEW k \in DOMAIN op.txs
      PROVE  TxFinal(cur, op, k)
  <2>1. TxFinal(cur, Op, k)
    BY <1>2, <1>4 DEF FinalInv, JournalFinal, OpFinal
  <2>2. op.txs[k].step = Op.txs[k].step /\ (Refused(op.txs[k]) => Refused(Op.txs[k]))
    BY <1>2, <1>4, ReceiptFinal
  <2> QED
    BY <1>4, <1>5, <2>1, <2>2 DEF TxFinal, Same, Moves, HasEffect
<1>7. OpFinal(cur, op)
  BY <1>6 DEF OpFinal
<1> QED
  BY <1>1, <1>2, <1>3, <1>4, <1>7, JournalPut

LEMMA RefreshTxFinal ==
  ASSUME ExecInv, ExecInv', Receipts, StepOK, FinalInv, RefreshTx
  PROVE  JournalFinal'
<1> DEFINE k == rec.k
           h == <<Target, k>>
<1>0. Recovering /\ ~ Refreshed /\ pc = "boot" /\ UNCHANGED <<aged, mined, flight, pool>>
  BY DEF RefreshTx, Recovering, chainVars
<1>1. /\ Target \in DOMAIN ops /\ Current \in OpRecord /\ Current = ops[Target]
      /\ k \in DOMAIN Current.txs
  <2>1. /\ Target \in DOMAIN ops /\ Current \in OpRecord
        /\ k \in Nat \ {0} /\ DOMAIN Current.txs = 1 .. Len(Current.txs) /\ Len(Current.txs) \in Nat
    BY <1>0, TargetIs
  <2>2. ~ k > Len(Current.txs)
    BY <1>0 DEF Refreshed
  <2> QED
    BY <2>1, <2>2 DEF Current
<1>2. Droppable(Target, Current.txs[k]) => Never(h)
  <2>1. h \in DOMAIN signed
    BY <1>1 DEF ExecInv, Signed
  <2>2. Nonce(h) = Current.txs[k].nonce
    <3>1. PICK o \in DOMAIN ops : \E i \in DOMAIN ops[o].txs : h = <<o, i>> /\ ops[o].txs[i].nonce = Nonce(h)
      BY <2>1 DEF Receipts, Journaled
    <3> QED
      BY <1>1, <3>1
  <2> QED
    BY <1>0, <2>1, <2>2 DEF Droppable, FinalInv, OutOfReach
<1>3. CASE UNCHANGED ops
  BY <1>0, <1>3, StillDrifts, JournalSame
<1>4. ASSUME NEW op, Put(Target, op),
             \/ Droppable(Target, Current.txs[k]) /\ op = Drop(Current, k)
             \/ op = Mark(Current, k, "Unresolved")
             \/ Landed(h) /\ op = Resolve(Current, k, Status(h), Block(h))
      PROVE  JournalFinal'
  <2>1. CASE Droppable(Target, Current.txs[k]) /\ op = Drop(Current, k)
    <3>1. Rewritten(op, Current, k)
      BY <1>1, <2>1, DropIs
    <3> QED
      BY <1>0, <1>1, <1>2, <1>4, <2>1, <3>1, RewriteFinal
  <2>2. CASE op = Mark(Current, k, "Unresolved")
    <3>1. Rewritten(op, Current, k) /\ ~ Refused(op.txs[k])
      <4>1. "Unresolved" \in TxState
        BY DEF TxState
      <4> QED
        BY <1>1, <2>2, <4>1, MarkIs DEF Marked, Refused
    <3> QED
      BY <1>0, <1>1, <1>4, <3>1, RewriteFinal
  <2>3. CASE Landed(h) /\ op = Resolve(Current, k, Status(h), Block(h))
    <3> DEFINE ok == Status(h)
               block == Block(h)
    <3>1. ok \in BOOLEAN /\ block \in BlockId /\ op = Resolve(Current, k, ok, block)
      BY <2>3, MinedIs DEF ExecInv
    <3> HIDE DEF ok, block
    <3>2. Rewritten(op, Current, k) /\ ~ Refused(op.txs[k])
      BY <1>1, <3>1, ResolveIs DEF Refused
    <3> QED
      BY <1>0, <1>1, <1>4, <3>2, RewriteFinal
  <2> QED
    BY <1>4, <2>1, <2>2, <2>3
<1>5. \/ UNCHANGED ops
      \/ Droppable(Target, Current.txs[k]) /\ Put(Target, Drop(Current, k))
      \/ Put(Target, Mark(Current, k, "Unresolved"))
      \/ Landed(h) /\ Put(Target, Resolve(Current, k, Status(h), Block(h)))
  BY <1>1 DEF RefreshTx
<1> QED
  BY <1>3, <1>4, <1>5

\* Nothing of the burst was sent.
LEMMA UnsentFinal ==
  ASSUME ExecInv, ExecInv', StepOK, FinalInv, Unsent
  PROVE  JournalFinal'
<1>1. pc = "armed" /\ pc \notin Quiet /\ InEntry /\ UNCHANGED <<aged, mined, flight, pool>>
      /\ Put(cur, WithState(AllRejected(Op), "Failed"))
  BY KindIs DEF Unsent, chainVars
<1>2. cur \in DOMAIN ops /\ Op = ops[cur] /\ Op \in OpRecord
  BY <1>1, CurIs
<1>3. PICK all : all = AllRejected(Op)
  OBVIOUS
<1>4. /\ Same(all, Op) /\ all.state = Op.state /\ DOMAIN all.txs = DOMAIN Op.txs
      /\ \A k \in DOMAIN Op.txs : all.txs[k].step = Op.txs[k].step
  BY <1>2, <1>3, AllRejectedIs
<1>5. \A k \in DOMAIN Op.txs : Never(<<cur, k>>)
  BY <1>1 DEF FinalInv, AnswersFinal, AnswerFinal, EntryPlaces
<1>6. OpFinal(cur, all) /\ all \in OpRecord
  <2>1. Len(all.txs) = Len(Op.txs)
    BY <1>2, <1>4 DEF Same, OpRecord
  <2>2. \A k \in DOMAIN Op.txs : TxFinal(cur, Op, k)
    BY <1>2 DEF FinalInv, JournalFinal, OpFinal
  <2> QED
    BY <1>4, <1>5, <2>1, <2>2 DEF OpFinal, TxFinal, Same, Never, Moves
<1>7. PICK op : op = WithState(all, "Failed")
  OBVIOUS
<1>8. OpFinal(cur, op) /\ DOMAIN op.txs = DOMAIN Op.txs
  BY <1>4, <1>5, <1>6, <1>7, DecidedFinal DEF Never, Moves
<1> QED
  BY <1>1, <1>2, <1>3, <1>7, <1>8, JournalPut

\* What has landed is nowhere else.
LEMMA LandedGone ==
  ASSUME FinalInv, NEW h, Landed(h)
  PROVE  Gone(h)
BY DEF FinalInv, Exclusive, Gone

\* The owner's verdicts.
LEMMA OwnerDecides ==
  ASSUME ExecInv, ExecInv', Receipts, StepOK, FinalInv, PresignFails \/ NoFill \/ RecordApplied \/ FailExit
  PROVE  JournalFinal'
<1>1. /\ pc \in {"sign", "settle", "apply", "fail"} /\ pc \notin Quiet
      /\ UNCHANGED <<aged, mined, flight, pool>>
  BY DEF PresignFails, NoFill, RecordApplied, FailExit, Quiet, Boot, chainVars
<1>2. cur \in DOMAIN ops /\ Op = ops[cur] /\ Op.kind \in {"Entry", "Exit"} /\ Op.state = "Pending"
  BY <1>1, CurIs DEF FinalInv, CurOpen
<1>3. CASE UNCHANGED ops
  BY <1>1, <1>3, StillDrifts, JournalSame
<1>4. ASSUME ~ Unsure, InEntry, pc \in {"settle", "apply"}, NEW k \in DOMAIN Op.txs
      PROVE  /\ Gone(<<cur, k>>)
             /\ k \notin Fills => ~ Moves(<<cur, k>>, Op.txs[k])
  <2>1. k \in DOMAIN out
    BY <1>4 DEF FinalInv, EntryPlaces
  <2>2. out[k].ans \in {"refused", "confirmed", "reverted"} /\ (out[k].ans = "refused" => Never(<<cur, k>>))
    BY <1>1, <1>4, <2>1 DEF FinalInv, AnswersFinal, AnswerFinal, Final, Unsure
  <2>3. AccurateAnswer(<<cur, k>>, out[k])
    BY <1>1, <2>1 DEF Receipts, AccurateAnswers
  <2> QED
    BY <2>1, <2>2, <2>3, LandedGone DEF AccurateAnswer, Never, Moves, Fills
<1>5. CASE PresignFails
  <2>1. pc = "sign" /\ Put(cur, WithState(ops[cur], "Failed"))
    BY <1>2, <1>5 DEF PresignFails
  <2>2. DOMAIN ops[cur].txs = {}
    BY <1>2, <2>1 DEF ExecInv, AnswersOK
  <2> QED
    BY <1>1, <1>2, <2>1, <2>2, DecideFinal
<1>6. CASE NoFill /\ ~ UNCHANGED ops
  <2>1. /\ pc = "settle" /\ Fills = {} /\ ~ Unsure /\ Put(cur, WithState(ops[cur], "Failed"))
    BY <1>2, <1>6 DEF NoFill
  <2>2. InEntry
    BY <2>1, KindIs
  <2>3. \A k \in DOMAIN ops[cur].txs : Gone(<<cur, k>>) /\ ~ Moves(<<cur, k>>, ops[cur].txs[k])
    BY <1>2, <1>4, <2>1, <2>2
  <2> QED
    BY <1>1, <1>2, <2>1, <2>3, DecideFinal
<1>7. CASE RecordApplied /\ ~ UNCHANGED ops
  <2>1. pc = "apply" /\ ~ bad /\ Put(cur, WithState(ops[cur], "Applied"))
    BY <1>2, <1>7 DEF RecordApplied
  <2>2. \A k \in DOMAIN ops[cur].txs : Gone(<<cur, k>>)
    <3>1. CASE Op.kind = "Entry"
      <4>1. InEntry /\ ~ Unsure
        BY <1>1, <2>1, <3>1 DEF InEntry, FinalInv, EntryPlaces
      <4> QED
        BY <1>2, <1>4, <2>1, <4>1
    <3>2. CASE Op.kind = "Exit"
      <4>1. AllLanded
        BY <1>1, <2>1, <3>2 DEF InExit, FinalInv, ExitPlaces
      <4> QED
        BY <1>2, <4>1, LandedGone DEF AllLanded
    <3> QED
      BY <1>2, <3>1, <3>2
  <2> QED
    BY <1>1, <1>2, <2>1, <2>2, DecideFinal
<1>8. CASE FailExit
  <2>1. pc = "fail" /\ Put(cur, WithState(ops[cur], "Failed"))
    BY <1>2, <1>8 DEF FailExit
  <2>2. ~ RequiresRecovery(ops[cur])
    <3>1. InExit
      BY <2>1, KindIs
    <3> QED
      BY <1>2, <2>1, <3>1 DEF FinalInv, ExitPlaces
  <2>3. \A k \in DOMAIN ops[cur].txs : Gone(<<cur, k>>) /\ ~ Moves(<<cur, k>>, ops[cur].txs[k])
    BY <1>2, <2>2, SettledIs
  <2> QED
    BY <1>1, <1>2, <2>1, <2>3, DecideFinal
<1> QED
  BY <1>3, <1>5, <1>6, <1>7, <1>8

\* An exit whose sale has landed has all of its transactions mined.
LEMMA SoldGone ==
  ASSUME ExecInv, FinalInv, NEW o \in DOMAIN ops, ops[o].kind = "Exit",
         NEW k \in DOMAIN ops[o].txs, ops[o].txs[k].step = "sell", Landed(<<o, k>>)
  PROVE  \A i \in DOMAIN ops[o].txs : Gone(<<o, i>>)
<1>1. \A i \in DOMAIN ops[o].txs : TxFinal(o, ops[o], i)
  BY DEF FinalInv, JournalFinal, OpFinal
<1>2. k = Len(ops[o].txs)
  BY <1>1 DEF TxFinal
<1>3. \A i \in DOMAIN ops[o].txs : Landed(<<o, i>>)
  BY <1>1, <1>2 DEF TxFinal
<1> QED
  BY <1>3, LandedGone

\* Startup's verdicts: one that stands leaves nothing on its way, and nothing moved
\* when it is a failure.
LEMMA VerdictFinal ==
  ASSUME ExecInv, ExecInv', StepOK, FinalInv, Recovering, NEW blocked, NEW state, Verdict(blocked, state),
         ~ blocked =>
           /\ state \in {"Applied", "Failed"}
           /\ \A k \in DOMAIN Current.txs :
                Gone(<<Target, k>>) /\ (state = "Failed" => ~ Moves(<<Target, k>>, Current.txs[k]))
  PROVE  JournalFinal'
<1>1. Target \in DOMAIN ops /\ Current = ops[Target] /\ UNCHANGED <<aged, mined, flight, pool>>
  BY TargetIs DEF Current, Verdict, chainVars
<1>2. CASE blocked
  BY <1>1, <1>2, StillDrifts, JournalSame DEF Verdict
<1>3. CASE ~ blocked
  <2>1. Put(Target, WithState(ops[Target], state))
    BY <1>1, <1>3 DEF Verdict
  <2> QED
    BY <1>1, <1>3, <2>1, DecideFinal
<1> QED
  BY <1>2, <1>3

LEMMA TargetPending ==
  ASSUME ExecInv, GasInv, Recovering, rec.snap[Target].state = "Pending"
  PROVE  /\ Target \in DOMAIN ops /\ Current = ops[Target] /\ Current.state = "Pending"
         /\ Current \in OpRecord /\ pc = "boot"
BY TargetIs DEF GasInv, BootKept, Current, Recovering

LEMMA RecoverEntryFinal ==
  ASSUME ExecInv, ExecInv', Receipts, GasInv, StepOK, FinalInv, RecoverEntry
  PROVE  JournalFinal'
<1> DEFINE blocked == HasAmbiguous(Current)
           state == IF HasPosition(Target) THEN "Applied" ELSE "Failed"
<1>1. Recovering /\ Current.kind = "Entry" /\ rec.snap[Target].state = "Pending" /\ (HasPosition(Target) \/ Fill = {})
  BY DEF RecoverEntry, Recovered
<1>2. Target \in DOMAIN ops /\ Current = ops[Target]
  BY <1>1, TargetPending
<1>3. Verdict(blocked, state)
  BY DEF RecoverEntry
<1>4. ASSUME ~ blocked
      PROVE  /\ state \in {"Applied", "Failed"}
             /\ \A k \in DOMAIN Current.txs :
                  Gone(<<Target, k>>) /\ (state = "Failed" => ~ Moves(<<Target, k>>, Current.txs[k]))
  <2>1. \A k \in DOMAIN Current.txs :
          Gone(<<Target, k>>) /\ (Current.txs[k].state = "Confirmed" \/ ~ Moves(<<Target, k>>, Current.txs[k]))
    BY <1>2, <1>4, UnambiguousGone
  <2>2. \A k \in DOMAIN Current.txs : Current.txs[k].step = "entry"
    BY <1>1, <1>2 DEF FinalInv, JournalFinal, OpFinal, TxFinal
  <2>3. state = "Failed" => \A k \in DOMAIN Current.txs : Current.txs[k].state # "Confirmed"
    BY <1>1, <2>2 DEF Fill, ConfirmedIn
  <2> QED
    BY <2>1, <2>3
<1> HIDE DEF blocked, state
<1> QED
  BY <1>1, <1>3, <1>4, VerdictFinal

LEMMA RecoverExitFinal ==
  ASSUME ExecInv, ExecInv', Receipts, GasInv, StepOK, FinalInv, RecoverExit
  PROVE  JournalFinal'
<1>1. Recovering /\ Current.kind = "Exit" /\ rec.snap[Target].state = "Pending"
  BY DEF RecoverExit, Recovered
<1>2. Target \in DOMAIN ops /\ Current = ops[Target] /\ Current.state = "Pending"
  BY <1>1, TargetPending
<1>3. CASE ExitBooked(Target) /\ Verdict(FALSE, "Applied")
  <2>1. PICK p \in positions : \E h \in p.exits : h[1] = Target
    BY <1>3 DEF ExitBooked
  <2>2. PICK h \in p.exits : h[1] = Target
    BY <2>1
  <2>3. Sold(h) /\ h \in DOMAIN signed
    BY MinedIs DEF ExecInv, FinalInv, SalesLanded, Sold
  <2>4. PICK o \in DOMAIN ops : \E k \in DOMAIN ops[o].txs : h = <<o, k>>
    BY <2>3 DEF Receipts, Journaled
  <2>5. PICK k \in DOMAIN ops[o].txs : h = <<o, k>>
    BY <2>4
  <2>6. o = Target
    BY <2>2, <2>5
  <2>7. ops[o].txs[k].step = "sell"
    BY <2>3, <2>5 DEF Sold, FinalInv, JournalFinal, OpFinal, TxFinal
  <2>8. \A i \in DOMAIN Current.txs : Gone(<<Target, i>>)
    BY <1>1, <1>2, <2>3, <2>5, <2>6, <2>7, SoldGone DEF Sold
  <2> QED
    BY <1>1, <1>3, <2>8, VerdictFinal
<1>4. CASE Verdict(TRUE, "Pending")
  BY <1>1, <1>4, VerdictFinal
<1>5. CASE ~ RequiresRecovery(Current) /\ Verdict(FALSE, "Failed")
  <2>1. \A k \in DOMAIN Current.txs : Gone(<<Target, k>>) /\ ~ Moves(<<Target, k>>, Current.txs[k])
    BY <1>2, <1>5, SettledIs
  <2> QED
    BY <1>1, <1>5, <2>1, VerdictFinal
<1> QED
  BY <1>3, <1>4, <1>5 DEF RecoverExit

LEMMA RecordBookedFinal ==
  ASSUME ExecInv, ExecInv', Receipts, GasInv, StepOK, FinalInv, RecordBooked
  PROVE  JournalFinal'
<1> DEFINE blocked == Current.kind = "Entry" /\ HasAmbiguous(Current)
           state == IF Fill # {} \/ Sale # {} THEN "Applied" ELSE "Failed"
<1>1. /\ Recovering /\ rec.snap[Target].state = "Pending"
      /\ Current.kind = "Entry" => Fill # {}
      /\ Current.kind = "Exit" => (Sale = {} => ~ RequiresRecovery(Current))
  BY DEF RecordBooked, Recovering, FinalInv, BookedOK
<1>2. Target \in DOMAIN ops /\ Current = ops[Target] /\ Current.state = "Pending"
      /\ Current.kind \in {"Entry", "Exit"}
  BY <1>1, TargetPending, OpIs DEF ExecInv
<1>3. Verdict(blocked, state)
  BY DEF RecordBooked
<1>4. ASSUME ~ blocked
      PROVE  /\ state \in {"Applied", "Failed"}
             /\ \A k \in DOMAIN Current.txs :
                  Gone(<<Target, k>>) /\ (state = "Failed" => ~ Moves(<<Target, k>>, Current.txs[k]))
  <2>1. CASE Current.kind = "Entry"
    <3>1. \A k \in DOMAIN Current.txs : Gone(<<Target, k>>)
      BY <1>2, <1>4, <2>1, UnambiguousGone
    <3> QED
      BY <1>1, <2>1, <3>1
  <2>2. CASE Current.kind = "Exit" /\ Sale # {}
    <3>1. PICK k \in DOMAIN Current.txs : Current.txs[k].state = "Confirmed" /\ Current.txs[k].step = "sell"
      BY <2>2 DEF Sale, ConfirmedIn
    <3>2. Landed(<<Target, k>>)
      BY <1>2, <3>1 DEF Receipts, AccurateJournal, Accurate
    <3>3. \A i \in DOMAIN Current.txs : Gone(<<Target, i>>)
      BY <1>2, <2>2, <3>1, <3>2, SoldGone
    <3> QED
      BY <2>2, <3>3
  <2>3. CASE Current.kind = "Exit" /\ Sale = {}
    <3>1. \A k \in DOMAIN Current.txs : Gone(<<Target, k>>) /\ ~ Moves(<<Target, k>>, Current.txs[k])
      BY <1>1, <1>2, <2>3, SettledIs
    <3> QED
      BY <3>1
  <2> QED
    BY <1>2, <2>1, <2>2, <2>3
<1> HIDE DEF blocked, state
<1> QED
  BY <1>1, <1>3, <1>4, VerdictFinal

LEMMA AgeFinal ==
  ASSUME ExecInv, FinalInv, Age
  PROVE  JournalFinal'
<1>1. /\ aged' = aged + 1 /\ aged \in Nat /\ UNCHANGED <<ops, mined, flight, pool, signed>>
      /\ \A k \in DOMAIN ops[aged + 1].txs : Accounted(<<aged + 1, k>>)
  BY DEF Age, ExecInv, Scalars, JournalTyped, chainVars
<1>2. ASSUME NEW o \in DOMAIN ops, NEW k \in DOMAIN ops[o].txs
      PROVE  TxFinal(o, ops[o], k)'
  <2>1. PICK op : op = ops[o]
    OBVIOUS
  <2>2. TxFinal(o, op, k) /\ o \in Nat
    BY <2>1, OpIs DEF ExecInv, FinalInv, JournalFinal, OpFinal
  <2>3. PICK h : h = <<o, k>>
    OBVIOUS
  <2>4. /\ Never(h)' <=> Never(h)
        /\ Gone(h)' <=> Gone(h)
        /\ Moves(h, op.txs[k])' <=> Moves(h, op.txs[k])
        /\ Landed(h)' <=> Landed(h)
        /\ Accounted(h)' <=> Accounted(h)
    BY <1>1 DEF Never, Gone, Moves, Landed, Status, Height, Accounted, PendingCount, LatestCount, Nonce
  <2>5. o <= aged + 1 => Accounted(h)
    <3>1. CASE o = aged + 1
      BY <1>1, <2>3, <3>1
    <3>2. CASE o # aged + 1
      BY <1>1, <2>2, <2>3, <3>2 DEF TxFinal
    <3> QED
      BY <3>1, <3>2
  <2>6. TxFinal(o, op, k)'
    BY <1>1, <2>2, <2>3, <2>4, <2>5 DEF TxFinal, Refused
  <2> QED
    BY <1>1, <2>1, <2>6 DEF TxFinal
<1> QED
  BY <1>1, <1>2 DEF JournalFinal, OpFinal

LEMMA BeginFinal ==
  ASSUME ExecInv, ExecInv', StepOK, FinalInv, NEW op, UNCHANGED ops \/ ops' = Append(ops, op), op.txs = <<>>,
         UNCHANGED <<aged, mined, flight, pool>>
  PROVE  JournalFinal'
BY StillDrifts, JournalSame, JournalAppend

LEMMA EveryJournal ==
  ASSUME ExecInv, ExecInv', Receipts, GasInv, StepOK, FinalInv, Drift, [Next]_vars
  PROVE  JournalFinal'
<1>1. ASSUME UNCHANGED <<ops, aged>>
      PROVE  JournalFinal'
  BY <1>1, JournalSame
<1>2. CASE Entries
  <2>1. ASSUME NEW t \in Token, BeginEntry(t)
        PROVE  JournalFinal'
    <3> DEFINE op == [kind |-> "Entry", subject |-> t, state |-> "Pending", txs |-> <<>>]
    <3>1. (UNCHANGED ops \/ ops' = Append(ops, op)) /\ op.txs = <<>> /\ UNCHANGED <<aged, mined, flight, pool>>
      BY <2>1 DEF BeginEntry, chainVars
    <3> HIDE DEF op
    <3> QED
      BY <3>1, BeginFinal
  <2>2. CASE PresignFails \/ NoFill
    BY <2>2, OwnerDecides
  <2>3. CASE FireBurst \/ RefreshNonce \/ OpenPosition
    BY <1>1, <2>3 DEF FireBurst, RefreshNonce, OpenPosition
  <2> QED
    BY <1>2, <2>1, <2>2, <2>3, PresignFinal, UnsentFinal, RecordAnswerFinal DEF Entries
<1>3. CASE Exits
  <2>1. ASSUME NEW j \in queue, BeginExit(j)
        PROVE  JournalFinal'
    <3> DEFINE op == [kind |-> "Exit", subject |-> j.pos, state |-> "Pending", txs |-> <<>>]
    <3>1. (UNCHANGED ops \/ ops' = Append(ops, op)) /\ op.txs = <<>> /\ UNCHANGED <<aged, mined, flight, pool>>
      BY <2>1 DEF BeginExit, chainVars
    <3> HIDE DEF op
    <3> QED
      BY <3>1, BeginFinal
  <2>2. CASE \/ \E p \in positions : \E qty \in 1 .. p.held : DecideExit(p, qty)
             \/ TradeFails \/ Send \/ BookExit \/ BookFails
    BY <1>1, <2>2 DEF DecideExit, TradeFails, Send, BookExit, BookFails, memVars
  <2>3. CASE Unwind
    <3>1. UNCHANGED <<ops, aged>>
      <4>1. CASE RequiresRecovery(Op)
        BY <2>3, <4>1 DEF Unwind
      <4>2. CASE ~ RequiresRecovery(Op) /\ OperationGas(Op) > 0
        BY <2>3, <4>2 DEF Unwind
      <4>3. CASE ~ RequiresRecovery(Op) /\ ~ OperationGas(Op) > 0
        BY <2>3, <4>3 DEF Unwind
      <4> QED
        BY <4>1, <4>2, <4>3
    <3> QED
      BY <1>1, <3>1
  <2>4. CASE FailExit
    BY <2>4, OwnerDecides
  <2>5. CASE \E step \in {"approval", "sell"} : StageSend(step)
    BY <2>5, StageSendFinal
  <2> QED
    BY <1>3, <2>1, <2>2, <2>3, <2>4, <2>5, RecordSendFinal DEF Exits
<1>4. CASE Both
  <2>1. CASE (\E k \in DOMAIN out : Confirm(k)) \/ Flush \/ FlushFails
    BY <1>1, <2>1 DEF Confirm, Flush, FlushFails
  <2> QED
    BY <1>4, <2>1, RecordReceiptsFinal, OwnerDecides DEF Both
<1>5. CASE Session
  <2>1. CASE CanonicalCheck \/ StopRequest \/ FlushIfDue \/ Shutdown \/ Crash
    BY <1>1, <2>1 DEF CanonicalCheck, StopRequest, FlushIfDue, Shutdown, Crash
  <2> QED
    BY <1>5, <2>1, AgeFinal DEF Session
<1>6. CASE Startup
  <2>1. CASE Restart \/ RecoverApplied \/ BootFails \/ Start
    BY <1>1, <2>1 DEF Restart, RecoverApplied, BootFails, Start
  <2>2. CASE Booked
    BY <1>1, <2>2 DEF Booked
  <2>3. CASE Recovering /\ Verdict(TRUE, "Pending")
    BY <2>3, VerdictFinal
  <2>4. CASE RecoverSale \/ RecoverGas
    <3>1. Recovering /\ (Booked \/ Verdict(TRUE, "Pending"))
      BY <2>4 DEF RecoverSale, RecoverGas, Recovered
    <3> QED
      BY <2>2, <2>3, <3>1
  <2>5. CASE RecoverFill
    BY <2>2, <2>5 DEF RecoverFill
  <2> QED
    BY <1>6, <2>1, <2>4, <2>5, RefreshTxFinal, RecoverEntryFinal, RecoverExitFinal, RecordBookedFinal DEF Startup
<1>7. CASE Environment \/ UNCHANGED vars
  BY <1>1, <1>7 DEF Environment, processVars, vars, memVars
<1> QED
  BY <1>2, <1>3, <1>4, <1>5, <1>6, <1>7 DEF Next

-----------------------------------------------------------------------------
LEMMA StartupQuiet ==
  ASSUME Startup
  PROVE  pc' \in {"down", "boot", "idle"}
<1>1. ASSUME Booked \/ \E blocked, state : Verdict(blocked, state), Recovering
      PROVE  pc' \in {"down", "boot", "idle"}
  BY <1>1 DEF Booked, Verdict, Recovering
<1>2. CASE Restart \/ RefreshTx \/ RecoverApplied \/ BootFails \/ Start
  BY <1>2 DEF Restart, RefreshTx, RecoverApplied, BootFails, Start, ProcessEnds, Recovering
<1>3. CASE RecoverEntry \/ RecoverFill \/ RecoverExit \/ RecoverSale \/ RecoverGas \/ RecordBooked
  BY <1>1, <1>3 DEF RecoverEntry, RecoverFill, RecoverExit, RecoverSale, RecoverGas, RecordBooked, Recovered
<1> QED
  BY <1>2, <1>3 DEF Startup

LEMMA QuietOpen ==
  ASSUME pc' \in Quiet
  PROVE  CurOpen'
BY DEF CurOpen

LEMMA OpenStays ==
  ASSUME ExecInv, FinalInv, pc \notin Quiet, UNCHANGED <<cur, aged>>,
         UNCHANGED ops \/ \E txs : Put(cur, [Op EXCEPT !.txs = txs])
  PROVE  CurOpen'
<1>1. Op.state = "Pending" /\ aged < cur
  BY DEF FinalInv, CurOpen
<1>2. ops'[cur].state = ops[cur].state
  BY TxsOnly
<1> QED
  BY <1>1, <1>2 DEF CurOpen, Op

\* Marking rewrites the transactions only.
LEMMA MarkTxs ==
  ASSUME ExecInv, pc \notin Quiet, NEW k, NEW state, Put(cur, Mark(Op, k, state))
  PROVE  \E txs : Put(cur, [Op EXCEPT !.txs = txs])
<1>1. Op \in OpRecord
  BY CurIs
<1>2. \E txs : Mark(Op, k, state) = [Op EXCEPT !.txs = txs]
  BY <1>1 DEF Mark, SetRecord, OpRecord
<1> QED
  BY <1>2

LEMMA BeginOpen ==
  ASSUME ExecInv, NEW op, op.state = "Pending", ops' = Append(ops, op), cur' = Len(ops) + 1, aged' = aged
  PROVE  CurOpen'
<1>1. ops \in Seq(OpRecord) /\ aged \in 0 .. Len(ops)
  BY DEF ExecInv, JournalTyped, Scalars
<1>2. ops'[cur'] = op /\ aged' < cur'
  BY <1>1
<1> QED
  BY <1>2 DEF CurOpen, Op

LEMMA EveryOpen ==
  ASSUME ExecInv, FinalInv, [Next]_vars
  PROVE  CurOpen'
<1>1. ASSUME UNCHANGED <<pc, cur, ops, aged>>
      PROVE  CurOpen'
  BY <1>1 DEF FinalInv, CurOpen, Op
<1>2. ASSUME pc \notin Quiet, UNCHANGED <<cur, aged, ops>>
      PROVE  CurOpen'
  BY <1>2, OpenStays
<1>3. CASE Entries
  <2>1. ASSUME NEW t \in Token, BeginEntry(t)
        PROVE  CurOpen'
    <3> DEFINE op == [kind |-> "Entry", subject |-> t, state |-> "Pending", txs |-> <<>>]
    <3>1. CASE PendingSubject(ops, "Entry", t)
      BY <1>1, <2>1, <3>1 DEF BeginEntry
    <3>2. CASE ~ PendingSubject(ops, "Entry", t)
      <4>1. ops' = Append(ops, op) /\ cur' = Len(ops) + 1 /\ aged' = aged /\ op.state = "Pending"
        BY <2>1, <3>2 DEF BeginEntry
      <4> HIDE DEF op
      <4> QED
        BY <4>1, BeginOpen
    <3> QED
      BY <3>1, <3>2
  <2>2. CASE PresignFails \/ Unsent \/ NoFill
    BY <2>2, QuietOpen DEF PresignFails, Unsent, NoFill, Return, Quiet
  <2>3. CASE Presign
    <3>1. pc \notin Quiet /\ UNCHANGED <<cur, aged>> /\ \E txs : Put(cur, [Op EXCEPT !.txs = txs])
      BY <2>3, KindIs DEF Presign, Reserve, StageMany
    <3> QED
      BY <3>1, OpenStays
  <2>4. CASE RecordAnswer
    <3>1. pc \notin Quiet /\ UNCHANGED <<cur, aged>> /\ \E k, state : Put(cur, Mark(Op, k, state))
      BY <2>4, KindIs DEF RecordAnswer, memVars
    <3> QED
      BY <3>1, MarkTxs, OpenStays
  <2>5. CASE FireBurst \/ RefreshNonce \/ OpenPosition
    BY <1>2, <2>5, KindIs DEF FireBurst, RefreshNonce, OpenPosition
  <2> QED
    BY <1>3, <2>1, <2>2, <2>3, <2>4, <2>5 DEF Entries
<1>4. CASE Exits
  <2>1. CASE \E p \in positions : \E qty \in 1 .. p.held : DecideExit(p, qty)
    BY <1>1, <2>1 DEF DecideExit
  <2>2. ASSUME NEW j \in queue, BeginExit(j)
        PROVE  CurOpen'
    <3> DEFINE op == [kind |-> "Exit", subject |-> j.pos, state |-> "Pending", txs |-> <<>>]
    <3>1. CASE PendingSubject(ops, "Exit", j.pos)
      BY <1>1, <2>2, <3>1 DEF BeginExit
    <3>2. CASE ~ PendingSubject(ops, "Exit", j.pos)
      <4>1. ops' = Append(ops, op) /\ cur' = Len(ops) + 1 /\ aged' = aged /\ op.state = "Pending"
        BY <2>2, <3>2 DEF BeginExit
      <4> HIDE DEF op
      <4> QED
        BY <4>1, BeginOpen
    <3> QED
      BY <3>1, <3>2
  <2>3. ASSUME NEW step \in {"approval", "sell"}, StageSend(step)
        PROVE  CurOpen'
    <3>1. pc \notin Quiet /\ UNCHANGED <<cur, aged>> /\ \E txs : Put(cur, [Op EXCEPT !.txs = txs])
      BY <2>3, KindIs DEF StageSend, Reserve, StageMany
    <3> QED
      BY <3>1, OpenStays
  <2>4. CASE RecordSend
    <3>1. pc \notin Quiet /\ UNCHANGED <<cur, aged>> /\ \E k, state : Put(cur, Mark(Op, k, state))
      BY <2>4, KindIs DEF RecordSend
    <3> QED
      BY <3>1, MarkTxs, OpenStays
  <2>5. CASE TradeFails \/ Send \/ BookFails
    BY <1>2, <2>5, KindIs DEF TradeFails, Send, BookFails, memVars
  <2>6. CASE BookExit
    <3>1. pc \notin Quiet /\ UNCHANGED <<ops, aged>> /\ (cur' = cur \/ pc' = "idle")
      BY <2>6, KindIs DEF BookExit, Return
    <3> QED
      BY <1>2, <3>1, QuietOpen DEF Quiet
  <2>7. CASE Unwind
    <3>1. pc \notin Quiet /\ UNCHANGED aged
      BY <2>7, KindIs DEF Unwind
    <3>2. CASE RequiresRecovery(Op)
      BY <2>7, <3>2, QuietOpen DEF Unwind, Return, Quiet
    <3>3. CASE ~ RequiresRecovery(Op) /\ OperationGas(Op) > 0
      BY <1>2, <2>7, <3>1, <3>3 DEF Unwind
    <3>4. CASE ~ RequiresRecovery(Op) /\ ~ OperationGas(Op) > 0
      BY <1>2, <2>7, <3>1, <3>4 DEF Unwind
    <3> QED
      BY <3>2, <3>3, <3>4
  <2>8. CASE FailExit
    BY <2>8, QuietOpen DEF FailExit, Return, Quiet
  <2> QED
    BY <1>4, <2>1, <2>2, <2>3, <2>4, <2>5, <2>6, <2>7, <2>8 DEF Exits
<1>5. CASE Both
  <2>1. CASE \E k \in DOMAIN out : Confirm(k)
    BY <1>1, <2>1 DEF Confirm
  <2>2. CASE RecordReceipts
    <3>1. pc \notin Quiet /\ UNCHANGED <<cur, aged>> /\ \E txs : Put(cur, [Op EXCEPT !.txs = txs])
      BY <2>2 DEF RecordReceipts, WithReceipts, Quiet, Boot, memVars
    <3> QED
      BY <3>1, OpenStays
  <2>3. CASE Flush
    BY <1>2, <2>3 DEF Flush, Quiet, Boot, memVars
  <2>4. CASE FlushFails \/ RecordApplied
    BY <2>4, QuietOpen DEF FlushFails, RecordApplied, Return, Quiet
  <2> QED
    BY <1>5, <2>1, <2>2, <2>3, <2>4 DEF Both
<1>6. CASE Session
  <2>1. CASE Shutdown \/ Crash \/ Age
    BY <2>1, QuietOpen DEF Shutdown, Crash, Age, ProcessEnds, Quiet, Boot
  <2>2. CASE CanonicalCheck \/ StopRequest \/ FlushIfDue
    BY <1>1, <2>2 DEF CanonicalCheck, StopRequest, FlushIfDue, memVars
  <2> QED
    BY <1>6, <2>1, <2>2 DEF Session
<1>7. CASE Startup
  <2>1. pc' \in {"down", "boot", "idle"}
    BY <1>7, StartupQuiet
  <2> QED
    BY <2>1, QuietOpen DEF Quiet, Boot
<1>8. CASE Environment \/ UNCHANGED vars
  BY <1>1, <1>8 DEF Environment, processVars, vars, memVars
<1> QED
  BY <1>3, <1>4, <1>5, <1>6, <1>7, <1>8 DEF Next

-----------------------------------------------------------------------------
(* A position's exits are sales that landed *)

LEMMA SoldStays ==
  ASSUME ExecInv, ExecInv', StepOK, NEW h, Sold(h)
  PROVE  Sold(h)'
<1>1. Landed(h)
  BY DEF Sold
<1>2. Landed(h)'
  BY <1>1, LandedStays DEF ExecInv, StepOK
<1>3. h \in DOMAIN signed
  BY <1>1, MinedIs DEF ExecInv
<1>4. signed'[h] = signed[h]
  BY <1>3 DEF StepOK, Grows
<1> QED
  BY <1>2, <1>4 DEF Sold

LEMMA SalesBut ==
  ASSUME ExecInv, ExecInv', StepOK, FinalInv, NEW q, \A h \in q.exits : Sold(h), PositionsBut(q)
  PROVE  SalesLanded'
<1>1. \A p \in positions \cup saved \cup {q} : \A h \in p.exits : Sold(h)'
  BY SoldStays DEF FinalInv, SalesLanded
<1> QED
  BY <1>1 DEF SalesLanded, PositionsBut

LEMMA SalesOld ==
  ASSUME ExecInv, ExecInv', StepOK, FinalInv, positions' \cup saved' \subseteq positions \cup saved
  PROVE  SalesLanded'
<1>1. \A p \in positions \cup saved : \A h \in p.exits : Sold(h)'
  BY SoldStays DEF FinalInv, SalesLanded
<1> QED
  BY <1>1 DEF SalesLanded

LEMMA SalesUpdated ==
  ASSUME ExecInv, ExecInv', StepOK, FinalInv, NEW p \in positions, NEW q, Update(p, q),
         saved' = saved \/ saved' = positions', \A h \in q.exits : h \in p.exits \/ Sold(h)
  PROVE  SalesLanded'
<1>1. \A h \in q.exits : Sold(h)
  BY DEF FinalInv, SalesLanded
<1>2. PositionsBut(q)
  BY DEF PositionsBut, Update
<1> QED
  BY <1>1, <1>2, SalesBut

LEMMA SalesOpened ==
  ASSUME ExecInv, ExecInv', StepOK, FinalInv, NEW o, NEW by, NEW entry, NEW fills, NEW gas,
         positions' = positions \cup {NewPosition(o, by, entry, fills, gas)},
         saved' = saved \/ saved' = positions'
  PROVE  SalesLanded'
<1>1. PICK q : q = NewPosition(o, by, entry, fills, gas)
  OBVIOUS
<1>2. q.exits = {} /\ PositionsBut(q)
  BY <1>1 DEF NewPosition, PositionsBut
<1> QED
  BY <1>2, SalesBut

LEMMA BookExitSales ==
  ASSUME ExecInv, ExecInv', StepOK, FinalInv, BookExit
  PROVE  SalesLanded'
<1>0. pc = "book" /\ pc \notin Quiet /\ InExit
  BY KindIs DEF BookExit
<1>1. cur \in DOMAIN ops /\ cur \in Nat /\ Op \in OpRecord /\ Op = ops[cur] /\ Last \in Nat
      /\ DOMAIN Op.txs = 1 .. Last
  BY <1>0, CurIs
<1>2. CASE Known(job.pos) /\ Open(Pos(job.pos))
  <2>1. PICK p, qty, h, gas, q :
          /\ p = Pos(job.pos) /\ qty = job.qty /\ h = <<cur, Last>> /\ gas = OperationGas(Op)
          /\ q = ApplyExit(p, qty, h, gas)
    OBVIOUS
  <2>2. p \in positions /\ p \in Position /\ qty \in Nat
    BY <1>0, <2>1, JobIs DEF Job
  <2>3. h \in Hash /\ gas \in Nat
    BY <1>1, <2>1, GasType DEF Hash
  <2>4. SoldFrom(q, p, qty, h, gas)
    BY <2>1, <2>2, <2>3, ApplyExitIs
  <2>5. Sold(h)
    <3>1. Last \in DOMAIN Op.txs
      BY <1>0, <1>1 DEF FinalInv, ExitPlaces, Last, OpRecord
    <3>2. TxFinal(cur, Op, Last)
      BY <1>1, <3>1 DEF FinalInv, JournalFinal, OpFinal
    <3>3. Landed(<<cur, Last>>) /\ Op.txs[Last].step = "sell"
      BY <1>0, <3>1 DEF FinalInv, ExitPlaces, AllLanded
    <3> QED
      BY <2>1, <3>2, <3>3 DEF TxFinal, Sold
  <2>6. Update(p, q) /\ saved' = saved
    BY <1>2, <2>1 DEF BookExit
  <2>7. \A g \in q.exits : g \in p.exits \/ Sold(g)
    BY <2>4, <2>5 DEF SoldFrom
  <2> QED
    BY <2>2, <2>6, <2>7, SalesUpdated
<1>3. CASE ~ (Known(job.pos) /\ Open(Pos(job.pos)))
  <2>1. UNCHANGED <<positions, saved>>
    BY <1>3 DEF BookExit
  <2> QED
    BY <2>1, SalesOld
<1> QED
  BY <1>2, <1>3

LEMMA UnwindSales ==
  ASSUME ExecInv, ExecInv', StepOK, FinalInv, Unwind
  PROVE  SalesLanded'
<1>0. pc = "unwind" /\ pc \notin Quiet /\ InExit
  BY KindIs DEF Unwind
<1>1. CASE ~ RequiresRecovery(Op) /\ OperationGas(Op) > 0
  <2>1. PICK p, o, gas, q :
          /\ p = Pos(job.pos) /\ o = cur /\ gas = OperationGas(Op)
          /\ q = ChargeOverhead(p, o, gas)
    OBVIOUS
  <2>2. p \in positions /\ p \in Position /\ o \in Nat /\ gas \in Nat
    BY <1>0, <2>1, JobIs, CurIs, GasType
  <2>3. Charged(q, p, o, gas)
    BY <2>1, <2>2, ChargeIs
  <2>4. Update(p, q) /\ saved' = saved
    BY <1>1, <2>1 DEF Unwind
  <2> QED
    BY <2>2, <2>3, <2>4, SalesUpdated DEF Charged
<1>2. CASE ~ RequiresRecovery(Op) /\ ~ OperationGas(Op) > 0
  BY <1>2, SalesOld DEF Unwind
<1>3. CASE RequiresRecovery(Op)
  BY <1>3, SalesOld DEF Unwind
<1> QED
  BY <1>1, <1>2, <1>3

LEMMA RecoverSaleSales ==
  ASSUME ExecInv, ExecInv', GasInv, StepOK, FinalInv, RecoverSale
  PROVE  SalesLanded'
<1>0. Recovered("Exit") /\ ~ ExitBooked(Target) /\ Recovering
  BY DEF RecoverSale, Recovered
<1>1. /\ Target \in DOMAIN ops /\ Target \in Nat /\ Current \in OpRecord /\ Current = ops[Target]
      /\ DOMAIN Current.txs = 1 .. Len(Current.txs) /\ Len(Current.txs) \in Nat
  BY <1>0, TargetIs DEF Current
<1>2. CASE Known(Current.subject) /\ Open(Holder)
  <2>1. PICK p, o, k, h, qty, gas, q :
          /\ p = Holder /\ o = Target /\ k = Min(Sale) /\ h = <<o, k>> /\ qty = signed[h].qty
          /\ gas = OperationGas(Current) /\ q = ApplyExit(p, qty, h, gas)
    OBVIOUS
  <2>2. p \in positions /\ p \in Position
    BY <1>0, <1>2, <2>1, TargetExit
  <2>3. k \in Sale /\ k \in Nat
    <3>1. Sale \in SUBSET Nat /\ Sale # {}
      BY <1>1 DEF RecoverSale, Sale, ConfirmedIn
    <3> QED
      BY <2>1, <3>1, MinIs
  <2>4. Landed(h)
    BY <2>1 DEF RecoverSale
  <2>5. h \in Hash /\ gas \in Nat /\ qty \in Nat
    <3>1. h \in DOMAIN signed
      BY <2>4, MinedIs DEF ExecInv
    <3>2. qty \in Nat
      BY <2>1, <3>1 DEF ExecInv, ChainTyped, SignedTx
    <3> QED
      BY <1>1, <2>1, <2>3, <3>2, GasType DEF Hash
  <2>6. SoldFrom(q, p, qty, h, gas)
    BY <2>1, <2>2, <2>5, ApplyExitIs
  <2>7. Sold(h)
    <3>1. k \in DOMAIN ops[o].txs /\ ops[o].txs[k].step = "sell"
      BY <2>1, <2>3 DEF Sale, ConfirmedIn, Current
    <3>2. TxFinal(o, ops[o], k)
      BY <1>1, <2>1, <3>1 DEF FinalInv, JournalFinal, OpFinal
    <3> QED
      BY <2>1, <2>4, <3>1, <3>2 DEF TxFinal, Sold
  <2>8. Update(p, q) /\ saved' = positions'
    BY <1>2, <2>1 DEF RecoverSale, Booked
  <2>9. \A g \in q.exits : g \in p.exits \/ Sold(g)
    BY <2>6, <2>7 DEF SoldFrom
  <2> QED
    BY <2>2, <2>8, <2>9, SalesUpdated
<1>3. CASE ~ (Known(Current.subject) /\ Open(Holder))
  <2>1. UNCHANGED <<positions, saved>>
    BY <1>3 DEF RecoverSale, Verdict
  <2> QED
    BY <2>1, SalesOld
<1> QED
  BY <1>2, <1>3

LEMMA RecoverGasSales ==
  ASSUME ExecInv, ExecInv', GasInv, StepOK, FinalInv, RecoverGas
  PROVE  SalesLanded'
<1>0. Recovered("Exit") /\ ~ ExitBooked(Target) /\ Recovering
  BY DEF RecoverGas, Recovered
<1>1. Target \in Nat /\ Current \in OpRecord
  BY <1>0, TargetIs
<1>2. CASE Known(Current.subject)
  <2>1. PICK p, o, gas, q :
          /\ p = Holder /\ o = Target /\ gas = OperationGas(Current)
          /\ q = ChargeOverhead(p, o, gas)
    OBVIOUS
  <2>2. p \in positions /\ p \in Position /\ o \in Nat /\ gas \in Nat
    BY <1>0, <1>1, <1>2, <2>1, TargetExit, GasType
  <2>3. Charged(q, p, o, gas)
    BY <2>1, <2>2, ChargeIs
  <2>4. Update(p, q) /\ saved' = positions'
    BY <1>2, <2>1 DEF RecoverGas, Booked
  <2> QED
    BY <2>2, <2>3, <2>4, SalesUpdated DEF Charged
<1>3. CASE ~ Known(Current.subject)
  <2>1. UNCHANGED <<positions, saved>>
    BY <1>3 DEF RecoverGas, Verdict
  <2> QED
    BY <2>1, SalesOld
<1> QED
  BY <1>2, <1>3

LEMMA EverySale ==
  ASSUME ExecInv, ExecInv', GasInv, StepOK, FinalInv, [Next]_vars
  PROVE  SalesLanded'
<1>1. ASSUME positions' = positions \/ positions' = saved, saved' = saved \/ saved' = positions
      PROVE  SalesLanded'
  BY <1>1, SalesOld
<1>2. ASSUME UNCHANGED <<positions, saved>>
      PROVE  SalesLanded'
  BY <1>1, <1>2
<1>3. CASE Entries
  <2>1. CASE OpenPosition
    BY <2>1, SalesOpened DEF OpenPosition
  <2> QED
    BY <1>2, <1>3, <2>1 DEF Entries, BeginEntry, PresignFails, Presign, Unsent, FireBurst,
       RecordAnswer, RefreshNonce, NoFill
<1>4. CASE Exits
  <2>1. CASE BookExit \/ Unwind
    BY <2>1, BookExitSales, UnwindSales
  <2> QED
    BY <1>2, <1>4, <2>1 DEF Exits, DecideExit, BeginExit, StageSend, TradeFails, Send, RecordSend,
       BookFails, FailExit
<1>5. CASE Both
  BY <1>1, <1>5 DEF Both, Confirm, RecordReceipts, Flush, FlushFails, RecordApplied
<1>6. CASE Session
  BY <1>1, <1>6 DEF Session, CanonicalCheck, StopRequest, FlushIfDue, Shutdown, Crash, Age, ProcessEnds
<1>7. CASE Startup
  <2>1. CASE RecoverSale \/ RecoverGas
    BY <2>1, RecoverSaleSales, RecoverGasSales
  <2>2. CASE RecoverFill
    BY <2>2, SalesOpened DEF RecoverFill, Booked
  <2>3. CASE Restart \/ RefreshTx \/ RecoverApplied \/ Start
    BY <1>2, <2>3 DEF Restart, RefreshTx, RecoverApplied, Start
  <2>4. CASE BootFails
    BY <1>1, <2>4 DEF BootFails, ProcessEnds
  <2>5. CASE RecoverEntry \/ RecoverExit \/ RecordBooked
    <3>1. UNCHANGED <<positions, saved>>
      BY <2>5 DEF RecoverEntry, RecoverExit, RecordBooked, Verdict
    <3> QED
      BY <1>2, <3>1
  <2> QED
    BY <1>7, <2>1, <2>2, <2>3, <2>4, <2>5 DEF Startup
<1>8. CASE Environment \/ UNCHANGED vars
  BY <1>2, <1>8 DEF Environment, processVars, vars
<1> QED
  BY <1>3, <1>4, <1>5, <1>6, <1>7, <1>8 DEF Next

-----------------------------------------------------------------------------
(* The answers *)

LEMMA NeverStays ==
  ASSUME ExecInv, ExecInv', StepOK, FinalInv, Drift, NEW h, h \notin flight' \ flight, Never(h)
  PROVE  Never(h)'
<1>1. StaysPut(h)
  BY DriftStays DEF ExecInv, StepOK, FinalInv
<1> QED
  BY <1>1 DEF StaysPut, Never

LEMMA QuietAnswers ==
  ASSUME pc' \in Quiet \/ out' = <<>>
  PROVE  AnswersFinal'
BY DEF AnswersFinal

LEMMA AnswersStay ==
  ASSUME ExecInv, ExecInv', StepOK, FinalInv, Drift, flight' \subseteq flight, pc \notin Quiet,
         UNCHANGED <<cur, out>>,
         \A k \in DOMAIN out :
           /\ pc' \in {"armed", "send"} => out[k].ans = "none" /\ Op'.txs[k].state = "Prepared"
           /\ pc' = "confirm" => out[k].ans # "none" /\ (Op'.kind = "Exit" => out[k].ans # "refused")
           /\ pc' \in {"refresh", "settle"} \/ (InEntry' /\ pc' \in {"flush", "apply"}) => out[k].ans \in Final
  PROVE  AnswersFinal'
<1>1. ASSUME NEW k \in DOMAIN out
      PROVE  AnswerFinal(k)'
  <2>1. PICK h : h = <<cur, k>>
    OBVIOUS
  <2>2. out[k].ans \in {"none", "refused"} => Never(h)
    BY <2>1 DEF FinalInv, AnswersFinal, AnswerFinal
  <2>3. Never(h) => Never(h)'
    BY NeverStays
  <2> QED
    BY <2>1, <2>2, <2>3 DEF AnswerFinal, Never, Gone, Landed, Op
<1> QED
  BY <1>1 DEF AnswersFinal

LEMMA PlaceAnswers ==
  ASSUME ExecInv, ExecInv', StepOK, FinalInv, Drift, flight' \subseteq flight,
         UNCHANGED <<pc, ops, cur, out>>
  PROVE  AnswersFinal'
<1>1. CASE pc \in Quiet
  BY <1>1, QuietAnswers
<1>2. CASE pc \notin Quiet
  <2>1. \A k \in DOMAIN out : AnswerFinal(k)
    BY <1>2 DEF FinalInv, AnswersFinal
  <2>2. Op' = Op /\ (InEntry' <=> InEntry)
    BY DEF Op, InEntry
  <2> QED
    BY <1>2, <2>1, <2>2, AnswersStay DEF AnswerFinal
<1> QED
  BY <1>1, <1>2

LEMMA ReserveAnswers ==
  ASSUME ExecInv, Receipts, FinalInv, pc \notin Quiet, NEW step \in Step, NEW n \in Nat,
         NEW payload \in [kind : Kind, token : Token, qty : Nat], Reserve(step, n, payload), cur' = cur,
         pc' \in {"armed", "send"}
  PROVE  AnswersFinal'
<1>1. UNCHANGED <<mined, flight, pool>>
  BY DEF Reserve
<1>2. /\ \A i \in 1 .. n : ops'[cur].txs[Last + i] = Staged(step, nonce + i - 1)
      /\ DOMAIN out' = Last + 1 .. Last + n /\ \A k \in DOMAIN out' : out'[k] = NoAnswer
      /\ Last \in Nat
  BY ReserveKeeps, CurIs
<1>3. ASSUME NEW k \in DOMAIN out'
      PROVE  AnswerFinal(k)'
  <2>1. k \in Nat /\ k > Last /\ k - Last \in 1 .. n /\ k = Last + (k - Last)
    BY <1>2
  <2>2. Never(<<cur, k>>)
    BY <2>1, FreshNever
  <2>3. PICK i \in 1 .. n : k = Last + i
    BY <2>1
  <2>4. ops'[cur].txs[k].state = "Prepared"
    <3>1. ops'[cur].txs[Last + i] = Staged(step, nonce + i - 1)
      BY <1>2
    <3>2. ops'[cur].txs[k] = Staged(step, nonce + i - 1)
      BY <2>3, <3>1
    <3> QED
      BY <3>2 DEF Staged
  <2>5. out'[k].ans = "none"
    BY <1>2 DEF NoAnswer
  <2> QED
    BY <1>1, <2>2, <2>4, <2>5 DEF AnswerFinal, Never, Gone, Landed, Op
<1> QED
  BY <1>3 DEF AnswersFinal

\* With one route, what was refused was not delivered.
LEMMA RefusedUnsent ==
  ASSUME Fallback = FALSE, NEW h, NEW o \in Outcome(h), o.ans = "refused"
  PROVE  ~ o.sent
BY DEF Outcome

LEMMA TransmitAnswers ==
  ASSUME ExecInv, FinalInv, Fallback = FALSE, pc \in {"armed", "send"}, NEW outcome, Transmit(outcome),
         \A k \in DOMAIN out : outcome[k] \in Outcome(<<cur, k>>),
         cur' = cur, pc' \in {"answers", "answer"}
  PROVE  AnswersFinal'
<1>0. pc \notin Quiet
  BY DEF Quiet, Boot
<1>1. \A k \in DOMAIN out : outcome[k].ans \in Answered /\ (outcome[k].ans = "refused" => ~ outcome[k].sent)
  BY OutcomeIs, RefusedUnsent
<1>2. /\ UNCHANGED <<mined, pool>> /\ DOMAIN out' = DOMAIN out
      /\ flight' = flight \cup {<<cur, k>> : k \in {j \in DOMAIN out : outcome[j].sent}}
      /\ \A k \in DOMAIN out : out'[k].ans = outcome[k].ans
  BY <1>1, AnswerTyped DEF Transmit, NoAnswer
<1>3. ASSUME NEW k \in DOMAIN out'
      PROVE  AnswerFinal(k)'
  <2>1. k \in DOMAIN out /\ Never(<<cur, k>>)
    BY <1>0, <1>2 DEF FinalInv, AnswersFinal, AnswerFinal
  <2>2. out'[k].ans \in Answered /\ (out'[k].ans = "refused" => <<cur, k>> \notin flight')
    BY <1>1, <1>2, <2>1 DEF Never, Gone
  <2> QED
    BY <1>2, <2>1, <2>2 DEF AnswerFinal, Answered, Never, Gone, Landed
<1> QED
  BY <1>3 DEF AnswersFinal

LEMMA ConfirmAnswers ==
  ASSUME ExecInv, ExecInv', StepOK, FinalInv, Drift, NEW k \in DOMAIN out, Confirm(k)
  PROVE  AnswersFinal'
<1>0. pc = "confirm" /\ pc \notin Quiet /\ UNCHANGED <<pc, cur, ops, mined, flight, pool>>
  BY DEF Confirm, Quiet, Boot, chainVars
<1>1. out \in [DOMAIN out -> Answer]
  BY <1>0 DEF ExecInv, AnswersOK
<1>2. /\ DOMAIN out' = DOMAIN out /\ out'[k].ans \in {"confirmed", "reverted", "unresolved"}
      /\ \A j \in DOMAIN out \ {k} : out'[j] = out[j]
  <2>1. PICK r : out' = [out EXCEPT ![k] = r] /\ r.ans \in {"confirmed", "reverted", "unresolved"}
    <3>1. [out[k] EXCEPT !.ans = "unresolved"].ans = "unresolved"
      BY <1>1 DEF Answer
    <3>2. CASE out' = [out EXCEPT ![k].ans = "unresolved"]
      BY <3>1, <3>2
    <3>3. CASE out' = [out EXCEPT ![k] = [ans |-> IF Status(<<cur, k>>) THEN "confirmed" ELSE "reverted",
                                          block |-> Block(<<cur, k>>)]]
      <4> DEFINE r == [ans |-> IF Status(<<cur, k>>) THEN "confirmed" ELSE "reverted", block |-> Block(<<cur, k>>)]
      <4>1. r.ans \in {"confirmed", "reverted"} /\ out' = [out EXCEPT ![k] = r]
        BY <3>3
      <4> QED
        BY <4>1
    <3> QED
      BY <3>2, <3>3 DEF Confirm
  <2> QED
    BY <2>1
<1>3. ASSUME NEW j \in DOMAIN out'
      PROVE  AnswerFinal(j)'
  <2>1. AnswerFinal(j)
    BY <1>0, <1>2 DEF FinalInv, AnswersFinal
  <2> QED
    BY <1>0, <1>2, <2>1 DEF AnswerFinal, Never, Gone, Landed, Op, InEntry
<1> QED
  BY <1>3 DEF AnswersFinal

LEMMA EveryFinalAnswer ==
  ASSUME ExecInv, ExecInv', Receipts, StepOK, FinalInv, Drift, Fallback = FALSE, [Next]_vars
  PROVE  AnswersFinal'
<1>1. ASSUME pc \notin Quiet, UNCHANGED <<cur, out, flight>>,
             pc' \in {"answers", "answer", "book", "trade", "unwind", "charged", "fail"}
      PROVE  AnswersFinal'
  BY <1>1, AnswersStay
<1>2. CASE Entries
  <2>1. ASSUME NEW t \in Token, BeginEntry(t)
        PROVE  AnswersFinal'
    <3>1. out' = out /\ pc \in Quiet
      BY <2>1 DEF BeginEntry, Quiet
    <3> QED
      BY <3>1, QuietAnswers DEF ExecInv, OwnerOK
  <2>2. CASE PresignFails \/ Unsent \/ NoFill
    BY <2>2, QuietAnswers DEF PresignFails, Unsent, NoFill, Return
  <2>3. CASE Presign
    <3> DEFINE payload == [kind |-> "buy", token |-> Op.subject, qty |-> 0]
    <3>1. pc \notin Quiet /\ Op.kind = "Entry"
      BY <2>3, KindIs DEF Presign
    <3>2. payload \in [kind : Kind, token : Token, qty : Nat]
      <4>1. cur \in DOMAIN ops /\ Op = ops[cur]
        BY <3>1, CurIs
      <4> QED
        BY <3>1, <4>1 DEF ExecInv, JournalTyped, Kind
    <3>3. "entry" \in Step /\ Attempts \in Nat /\ cur' = cur /\ pc' = "armed" /\ Reserve("entry", Attempts, payload)
      BY <2>3, ExecutionAssumption DEF Step, Presign
    <3> HIDE DEF payload
    <3> QED
      BY <3>1, <3>2, <3>3, ReserveAnswers
  <2>4. CASE FireBurst
    <3>1. PICK outcome : Transmit(outcome) /\ \A k \in DOMAIN out : outcome[k] \in Outcome(<<cur, k>>)
      BY <2>4 DEF FireBurst
    <3>2. pc = "armed" /\ cur' = cur /\ pc' = "answers"
      BY <2>4 DEF FireBurst
    <3> QED
      BY <3>1, <3>2, TransmitAnswers
  <2>5. CASE RecordAnswer
    <3>1. /\ pc = "answers" /\ pc \notin Quiet /\ InEntry /\ UNCHANGED <<cur, out, flight>>
          /\ pc' \in {"answers", "confirm"}
      BY <2>5, KindIs DEF RecordAnswer, memVars, chainVars
    <3>2. \A k \in DOMAIN out : out[k].ans # "none"
      BY <3>1 DEF ExecInv, AnswersOK, Answered
    <3>3. Op'.kind = "Entry"
      BY <3>1 DEF StepOK, KeptOp, Op, InEntry, ExecInv, OwnerOK
    <3> QED
      BY <3>1, <3>2, <3>3, AnswersStay
  <2>6. CASE RefreshNonce \/ OpenPosition
    <3>1. /\ pc \notin Quiet /\ pc \in {"refresh", "settle"}
          /\ UNCHANGED <<cur, out, flight>> /\ pc' \in {"settle", "flush"}
      BY <2>6, KindIs DEF RefreshNonce, OpenPosition, chainVars
    <3>2. \A k \in DOMAIN out : out[k].ans \in Final
      BY <3>1 DEF FinalInv, AnswersFinal, AnswerFinal
    <3> QED
      BY <3>1, <3>2, AnswersStay
  <2> QED
    BY <1>2, <2>1, <2>2, <2>3, <2>4, <2>5, <2>6 DEF Entries
<1>3. CASE Exits
  <2>1. CASE \E p \in positions : \E qty \in 1 .. p.held : DecideExit(p, qty)
    BY <2>1, PlaceAnswers DEF DecideExit, chainVars
  <2>2. ASSUME NEW j \in queue, BeginExit(j)
        PROVE  AnswersFinal'
    <3>1. out' = out /\ pc \in Quiet
      BY <2>2 DEF BeginExit, Quiet
    <3> QED
      BY <3>1, QuietAnswers DEF ExecInv, OwnerOK
  <2>3. ASSUME NEW step \in {"approval", "sell"}, StageSend(step)
        PROVE  AnswersFinal'
    <3> DEFINE kind == IF step = "approval" THEN "approve" ELSE "sell"
               payload == [kind |-> kind, token |-> Pos(job.pos).token, qty |-> job.qty]
    <3>1. pc \notin Quiet /\ InExit
      BY <2>3, KindIs DEF StageSend
    <3>2. payload \in [kind : Kind, token : Token, qty : Nat]
      <4>1. kind \in Kind
        BY DEF Kind
      <4>2. Pos(job.pos).token \in Token /\ job.qty \in Nat
        BY <3>1, JobIs DEF Position, Job
      <4> HIDE DEF kind
      <4> QED
        BY <4>1, <4>2
    <3>3. step \in Step /\ 1 \in Nat /\ cur' = cur /\ pc' = "send" /\ Reserve(step, 1, payload)
      BY <2>3 DEF Step, StageSend
    <3> HIDE DEF payload
    <3> QED
      BY <3>1, <3>2, <3>3, ReserveAnswers
  <2>4. CASE Send
    <3>1. pc = "send" /\ pc \notin Quiet /\ cur' = cur /\ pc' = "answer"
      BY <2>4, KindIs DEF Send
    <3>2. DOMAIN out = {Last}
      BY <3>1 DEF ExecInv, AnswersOK
    <3>3. PICK o \in Outcome(<<cur, Last>>) : Transmit([k \in {Last} |-> o])
      BY <2>4 DEF Send
    <3>4. \A k \in DOMAIN out : [i \in {Last} |-> o][k] \in Outcome(<<cur, k>>)
      BY <3>2
    <3> QED
      BY <3>1, <3>3, <3>4, TransmitAnswers
  <2>5. CASE RecordSend
    <3>1. /\ pc = "answer" /\ pc \notin Quiet /\ UNCHANGED <<cur, out, flight>>
          /\ pc' \in {"confirm", "unwind"} /\ (pc' = "confirm" => out[Last].ans = "accepted")
      BY <2>5, KindIs DEF RecordSend, chainVars
    <3>2. DOMAIN out = {Last}
      BY <3>1 DEF ExecInv, AnswersOK
    <3> QED
      BY <3>1, <3>2, AnswersStay
  <2>6. CASE TradeFails \/ BookFails
    BY <1>1, <2>6, KindIs DEF TradeFails, BookFails, memVars, chainVars
  <2>7. CASE BookExit
    <3>1. pc \notin Quiet /\ InExit /\ UNCHANGED <<ops, flight>>
      BY <2>7, KindIs DEF BookExit, chainVars
    <3>2. CASE out' = <<>>
      BY <3>2, QuietAnswers
    <3>3. CASE UNCHANGED <<cur, out>> /\ pc' = "flush"
      BY <3>1, <3>3, AnswersStay DEF InEntry, InExit, Op
    <3> QED
      BY <2>7, <3>2, <3>3 DEF BookExit, Return
  <2>8. CASE Unwind
    <3>1. pc \notin Quiet /\ UNCHANGED flight
      BY <2>8, KindIs DEF Unwind, chainVars
    <3>2. CASE RequiresRecovery(Op)
      BY <2>8, <3>2, QuietAnswers DEF Unwind, Return
    <3>3. CASE ~ RequiresRecovery(Op) /\ OperationGas(Op) > 0
      BY <1>1, <2>8, <3>1, <3>3 DEF Unwind
    <3>4. CASE ~ RequiresRecovery(Op) /\ ~ OperationGas(Op) > 0
      BY <1>1, <2>8, <3>1, <3>4 DEF Unwind
    <3> QED
      BY <3>2, <3>3, <3>4
  <2>9. CASE FailExit
    BY <2>9, QuietAnswers DEF FailExit, Return
  <2> QED
    BY <1>3, <2>1, <2>2, <2>3, <2>4, <2>5, <2>6, <2>7, <2>8, <2>9 DEF Exits
<1>4. CASE Both
  <2>1. CASE \E k \in DOMAIN out : Confirm(k)
    BY <2>1, ConfirmAnswers
  <2>2. CASE RecordReceipts
    <3>1. /\ pc = "confirm" /\ pc \notin Quiet /\ Awaited = {} /\ UNCHANGED <<cur, out, flight>>
          /\ pc' \in {"refresh", "unwind", "book", "trade"}
      BY <2>2 DEF RecordReceipts, Quiet, Boot, memVars, chainVars
    <3>2. \A k \in DOMAIN out : out[k].ans \in Final
      <4>1. \A k \in DOMAIN out : out[k] \in Answer /\ out[k].ans # "none"
        BY <3>1 DEF ExecInv, AnswersOK, FinalInv, AnswersFinal, AnswerFinal
      <4> QED
        BY <3>1, <4>1 DEF Awaited, Answer, Answered, Final
    <3> QED
      BY <3>1, <3>2, AnswersStay
  <2>3. CASE Flush
    <3>1. pc \notin Quiet /\ UNCHANGED <<cur, out, ops, flight>>
      BY <2>3 DEF Flush, Quiet, Boot, memVars, chainVars
    <3>2. CASE pc = "charged"
      BY <1>1, <2>3, <3>1, <3>2 DEF Flush
    <3>3. CASE pc = "flush"
      <4>1. pc' = "apply"
        BY <2>3, <3>3 DEF Flush
      <4>2. InEntry' => \A k \in DOMAIN out : out[k].ans \in Final
        BY <3>1, <3>3 DEF FinalInv, AnswersFinal, AnswerFinal, InEntry, Op
      <4> QED
        BY <3>1, <4>1, <4>2, AnswersStay
    <3> QED
      BY <2>3, <3>2, <3>3 DEF Flush
  <2>4. CASE FlushFails \/ RecordApplied
    BY <2>4, QuietAnswers DEF FlushFails, RecordApplied, Return
  <2> QED
    BY <1>4, <2>1, <2>2, <2>3, <2>4 DEF Both
<1>5. CASE Session
  <2>1. CASE Shutdown \/ Crash
    BY <2>1, QuietAnswers DEF Shutdown, Crash, ProcessEnds
  <2>2. CASE CanonicalCheck \/ StopRequest \/ FlushIfDue \/ Age
    BY <2>2, PlaceAnswers DEF CanonicalCheck, StopRequest, FlushIfDue, Age, memVars, chainVars
  <2> QED
    BY <1>5, <2>1, <2>2 DEF Session
<1>6. CASE Startup
  <2>1. pc' \in {"down", "boot", "idle"}
    BY <1>6, StartupQuiet
  <2> QED
    BY <2>1, QuietAnswers DEF Quiet, Boot
<1>7. CASE Environment
  <2>1. flight' \subseteq flight
    BY <1>7 DEF Environment, ChainNext, Delivery, Inclusion, Arrive, Lose, Evict, Mine, Reorg
  <2> QED
    BY <1>7, <2>1, PlaceAnswers DEF Environment, processVars, memVars
<1>8. CASE UNCHANGED vars
  BY <1>8, PlaceAnswers DEF vars, memVars, chainVars
<1> QED
  BY <1>2, <1>3, <1>4, <1>5, <1>6, <1>7, <1>8 DEF Next

-----------------------------------------------------------------------------
(* The owner's places *)

LEMMA QuietPlaces ==
  ASSUME pc' \in Quiet
  PROVE  EntryPlaces' /\ ExitPlaces'
BY DEF EntryPlaces, ExitPlaces, InEntry, InExit

LEMMA KindStays ==
  ASSUME ExecInv, StepOK, pc \notin Quiet, cur' = cur
  PROVE  Op'.kind = Op.kind
BY DEF StepOK, KeptOp, Op, ExecInv, OwnerOK

LEMMA AllLandedStays ==
  ASSUME ExecInv, ExecInv', StepOK, AllLanded, cur' = cur, DOMAIN ops'[cur].txs = DOMAIN Op.txs
  PROVE  AllLanded'
<1> SUFFICES ASSUME NEW k \in DOMAIN Op.txs
             PROVE  Landed(<<cur, k>>)'
  BY DEF AllLanded, Op, Landed
<1>1. PICK h : h = <<cur, k>>
  OBVIOUS
<1>2. Landed(h)
  BY <1>1 DEF AllLanded
<1>3. Landed(h)'
  BY <1>2, LandedStays DEF ExecInv, StepOK
<1> QED
  BY <1>1, <1>3 DEF Landed

LEMMA SamePlaces ==
  ASSUME ExecInv, ExecInv', StepOK, FinalInv, UNCHANGED <<pc, cur, ops, out, bad>>
  PROVE  EntryPlaces' /\ ExitPlaces'
<1>1. Op' = Op /\ (InEntry' <=> InEntry) /\ (InExit' <=> InExit) /\ (Unsure' <=> Unsure)
  BY DEF Op, InEntry, InExit, Unsure
<1>2. AllLanded => AllLanded'
  BY AllLandedStays DEF Op
<1>3. EntryPlaces'
  BY <1>1 DEF FinalInv, EntryPlaces
<1>4. ExitPlaces'
  BY <1>1, <1>2 DEF FinalInv, ExitPlaces, Last
<1> QED
  BY <1>3, <1>4

\* A step of an entry.
LEMMA EntryGoes ==
  ASSUME ExecInv, StepOK, InEntry, cur' = cur, pc' # "sign", DOMAIN out' = DOMAIN ops'[cur].txs,
         pc' \in {"flush", "apply"} => (Unsure' => bad')
  PROVE  EntryPlaces' /\ ExitPlaces'
<1>1. Op'.kind = "Entry" /\ Op'.txs = ops'[cur].txs
  BY KindStays DEF InEntry, Op
<1> QED
  BY <1>1 DEF EntryPlaces, ExitPlaces, InExit

\* A step of an exit to a place that promises nothing.
LEMMA ExitGoes ==
  ASSUME ExecInv, StepOK, InExit, cur' = cur, pc' \in {"send", "answer", "confirm", "unwind"}
  PROVE  EntryPlaces' /\ ExitPlaces'
<1>1. Op'.kind = "Exit"
  BY KindStays DEF InExit
<1> QED
  BY <1>1 DEF EntryPlaces, ExitPlaces, InEntry

\* A step of an exit that leaves the journal as it is.
LEMMA ExitOn ==
  ASSUME ExecInv, ExecInv', StepOK, FinalInv, InExit, UNCHANGED <<cur, ops>>,
         \/ pc' \in {"flush", "apply"} /\ pc \in {"book", "flush"}
         \/ pc' \in {"charged", "fail"} /\ ~ RequiresRecovery(Op)
  PROVE  EntryPlaces' /\ ExitPlaces'
<1>1. Op' = Op /\ Op'.kind = "Exit"
  BY DEF InExit, Op
<1>2. AllLanded => AllLanded'
  BY AllLandedStays DEF Op
<1>3. EntryPlaces'
  BY <1>1 DEF EntryPlaces, InEntry
<1>4. ExitPlaces'
  BY <1>1, <1>2 DEF FinalInv, ExitPlaces
<1> QED
  BY <1>3, <1>4

LEMMA BeginPlaces ==
  ASSUME ExecInv, NEW op, op.txs = <<>>, ops' = Append(ops, op), cur' = Len(ops) + 1,
         \/ op.kind = "Entry" /\ pc' = "sign"
         \/ op.kind = "Exit" /\ pc' = "trade"
  PROVE  EntryPlaces' /\ ExitPlaces'
<1>1. Op' = op
  <2>1. ops \in Seq(OpRecord)
    BY DEF ExecInv, JournalTyped
  <2> QED
    BY <2>1 DEF Op
<1>2. DOMAIN Op'.txs = {}
  BY <1>1
<1>3. EntryPlaces'
  BY <1>1 DEF EntryPlaces, InEntry
<1>4. ExitPlaces'
  BY <1>1, <1>2 DEF ExitPlaces, InExit, AllLanded
<1> QED
  BY <1>3, <1>4

LEMMA RecordReceiptsPlaces ==
  ASSUME ExecInv, ExecInv', Receipts, StepOK, FinalInv, RecordReceipts
  PROVE  EntryPlaces' /\ ExitPlaces'
<1>1. /\ pc = "confirm" /\ pc \notin Quiet /\ Put(cur, WithReceipts(Op, out))
      /\ UNCHANGED <<cur, out, bad, mined>>
  BY DEF RecordReceipts, Quiet, Boot, memVars, chainVars
<1>2. /\ cur \in DOMAIN ops /\ Op = ops[cur] /\ Op \in OpRecord /\ Op.kind \in {"Entry", "Exit"}
      /\ DOMAIN Op.txs = 1 .. Last /\ Last \in Nat /\ \A k \in DOMAIN Op.txs : Op.txs[k] \in TxRecord
  BY <1>1, CurIs
<1>3. PICK op : op = WithReceipts(Op, out)
  OBVIOUS
<1>4. /\ Same(op, Op) /\ DOMAIN op.txs = DOMAIN Op.txs
      /\ \A k \in DOMAIN Op.txs : op.txs[k].step = Op.txs[k].step
  <2>1. \A k \in DOMAIN out : out[k] \in Answer
    BY <1>1 DEF ExecInv, AnswersOK
  <2>2. /\ Same(op, Op) /\ DOMAIN op.txs = DOMAIN Op.txs
        /\ \A k \in DOMAIN Op.txs :
             /\ k \in DOMAIN out => op.txs[k] = WithReceipt(Op.txs[k], out[k])
             /\ k \notin DOMAIN out => op.txs[k] = Op.txs[k]
    BY <1>2, <1>3, <2>1, ReceiptsAre
  <2> QED
    BY <1>2, <2>2, ReceiptFinal
<1>5. ops'[cur] = op /\ Op' = op /\ Op'.kind = Op.kind
  BY <1>1, <1>2, <1>3, <1>4 DEF Put, Op, Same
<1>6. CASE Op.kind = "Entry"
  <2>1. InEntry /\ pc' = "refresh" /\ DOMAIN out = DOMAIN Op.txs
    BY <1>1, <1>6 DEF RecordReceipts, InEntry, FinalInv, EntryPlaces
  <2> QED
    BY <1>1, <1>4, <1>5, <2>1, EntryGoes
<1>7. CASE Op.kind = "Exit" /\ out[Last].ans # "confirmed"
  <2>1. InExit /\ pc' = "unwind"
    BY <1>1, <1>7 DEF RecordReceipts, InExit
  <2> QED
    BY <1>1, <2>1, ExitGoes
<1>8. CASE Op.kind = "Exit" /\ out[Last].ans = "confirmed"
  <2>1. InExit /\ pc' = IF Op.txs[Last].step = "sell" THEN "book" ELSE "trade"
    BY <1>1, <1>8 DEF RecordReceipts, InExit
  <2>2. Op.txs # <<>> /\ DOMAIN out = {Last}
    BY <1>1, <2>1 DEF ExecInv, AnswersOK
  <2>3. \A k \in DOMAIN Op.txs : TxFinal(cur, Op, k) /\ Op.txs[k].step \in Step
    BY <1>2 DEF FinalInv, JournalFinal, OpFinal, TxRecord
  <2>4. AllLanded
    <3>1. Landed(<<cur, Last>>)
      BY <1>1, <1>8, <2>2 DEF Receipts, AccurateAnswers, AccurateAnswer
    <3> QED
      BY <1>8, <2>3, <3>1 DEF AllLanded, TxFinal, Last
  <2>5. AllLanded'
    BY <1>1, <1>4, <1>5, <2>4, AllLandedStays
  <2>6. op.txs # <<>> /\ Len(op.txs) = Last /\ Last \in DOMAIN Op.txs
    <3>1. Last # 0
      BY <1>2, <2>2 DEF Last, OpRecord
    <3>2. Last \in 1 .. Last
      BY <1>2, <3>1
    <3>3. DOMAIN op.txs # {} /\ Len(op.txs) = Len(Op.txs)
      BY <1>2, <1>4, <3>2 DEF Same, OpRecord
    <3> QED
      BY <1>2, <3>2, <3>3 DEF Last
  <2>7. EntryPlaces'
    BY <1>5, <1>8 DEF EntryPlaces, InEntry
  <2>8. CASE Op.txs[Last].step = "sell"
    <3>1. pc' = "book"
      BY <2>1, <2>8
    <3>2. Op'.txs # <<>> /\ Op'.txs[Last'].step = "sell"
      BY <1>4, <1>5, <2>6, <2>8 DEF Last
    <3>3. ExitPlaces'
      BY <2>5, <3>1, <3>2 DEF ExitPlaces
    <3> QED
      BY <2>7, <3>3
  <2>9. CASE Op.txs[Last].step # "sell"
    <3>1. pc' = "trade"
      BY <2>1, <2>9
    <3>2. \A k \in DOMAIN Op'.txs : Op'.txs[k].step = "approval"
      <4>1. ASSUME NEW k \in DOMAIN Op.txs
            PROVE  Op.txs[k].step = "approval"
        <5>1. CASE k = Last
          BY <1>8, <2>3, <2>9, <5>1 DEF TxFinal, Step
        <5>2. CASE k # Last
          BY <1>8, <2>3, <5>2 DEF TxFinal, Last
        <5> QED
          BY <5>1, <5>2
      <4> QED
        BY <1>4, <1>5, <4>1
    <3>3. ExitPlaces'
      BY <2>5, <3>1, <3>2 DEF ExitPlaces
    <3> QED
      BY <2>7, <3>3
  <2> QED
    BY <2>8, <2>9
<1> QED
  BY <1>2, <1>6, <1>7, <1>8

LEMMA EveryPlace ==
  ASSUME ExecInv, ExecInv', Receipts, StepOK, FinalInv, [Next]_vars
  PROVE  EntryPlaces' /\ ExitPlaces'
<1>2. CASE Entries
  <2>1. ASSUME NEW t \in Token, BeginEntry(t)
        PROVE  EntryPlaces' /\ ExitPlaces'
    <3> DEFINE op == [kind |-> "Entry", subject |-> t, state |-> "Pending", txs |-> <<>>]
    <3>1. CASE PendingSubject(ops, "Entry", t)
      BY <2>1, <3>1, SamePlaces DEF BeginEntry
    <3>2. CASE ~ PendingSubject(ops, "Entry", t)
      <4>1. ops' = Append(ops, op) /\ cur' = Len(ops) + 1 /\ pc' = "sign" /\ op.kind = "Entry" /\ op.txs = <<>>
        BY <2>1, <3>2 DEF BeginEntry
      <4> HIDE DEF op
      <4> QED
        BY <4>1, BeginPlaces
    <3> QED
      BY <3>1, <3>2
  <2>2. CASE PresignFails \/ Unsent \/ NoFill
    BY <2>2, QuietPlaces DEF PresignFails, Unsent, NoFill, Return, Quiet
  <2>3. CASE Presign \/ FireBurst
    <3>1. InEntry /\ cur' = cur /\ pc' \in {"armed", "answers"} /\ pc' \notin Quiet
      BY <2>3, KindIs DEF Presign, FireBurst, Quiet, Boot
    <3>2. DOMAIN out' = DOMAIN ops'[cur].txs
      BY <3>1 DEF ExecInv, AnswersOK, Op
    <3> QED
      BY <3>1, <3>2, EntryGoes
  <2>4. CASE RecordAnswer
    <3>1. /\ InEntry /\ pc = "answers" /\ pc \notin Quiet /\ UNCHANGED <<cur, out>> /\ pc' \in {"answers", "confirm"}
          /\ DOMAIN out = DOMAIN Op.txs /\ signed' = signed
      BY <2>4, KindIs DEF RecordAnswer, memVars, FinalInv, EntryPlaces, chainVars
    <3>2. DOMAIN ops'[cur].txs = DOMAIN Op.txs
      <4>1. PICK k, state : Put(cur, Mark(Op, k, state))
        BY <2>4 DEF RecordAnswer
      <4>2. Op \in OpRecord /\ cur \in DOMAIN ops
        BY <3>1, CurIs
      <4>3. DOMAIN Mark(Op, k, state).txs = DOMAIN Op.txs
        BY <4>2 DEF Mark, SetRecord, OpRecord
      <4> QED
        BY <4>1, <4>2, <4>3 DEF Put
    <3> QED
      BY <3>1, <3>2, EntryGoes
  <2>5. CASE RefreshNonce \/ OpenPosition
    <3>1. /\ InEntry /\ pc # "sign" /\ UNCHANGED <<cur, out, ops>> /\ pc' \in {"settle", "flush"}
          /\ DOMAIN out = DOMAIN Op.txs
      BY <2>5, KindIs DEF RefreshNonce, OpenPosition, FinalInv, EntryPlaces
    <3>2. pc' = "flush" => (Unsure' => bad')
      BY <2>5 DEF RefreshNonce, OpenPosition, Unsure
    <3> QED
      BY <3>1, <3>2, EntryGoes DEF Op
  <2> QED
    BY <1>2, <2>1, <2>2, <2>3, <2>4, <2>5 DEF Entries
<1>3. CASE Exits
  <2>1. CASE \E p \in positions : \E qty \in 1 .. p.held : DecideExit(p, qty)
    BY <2>1, SamePlaces DEF DecideExit
  <2>2. ASSUME NEW j \in queue, BeginExit(j)
        PROVE  EntryPlaces' /\ ExitPlaces'
    <3> DEFINE op == [kind |-> "Exit", subject |-> j.pos, state |-> "Pending", txs |-> <<>>]
    <3>1. CASE PendingSubject(ops, "Exit", j.pos)
      BY <2>2, <3>1, SamePlaces DEF BeginExit
    <3>2. CASE ~ PendingSubject(ops, "Exit", j.pos)
      <4>1. ops' = Append(ops, op) /\ cur' = Len(ops) + 1 /\ pc' = "trade" /\ op.kind = "Exit" /\ op.txs = <<>>
        BY <2>2, <3>2 DEF BeginExit
      <4> HIDE DEF op
      <4> QED
        BY <4>1, BeginPlaces
    <3> QED
      BY <3>1, <3>2
  <2>3. CASE (\E step \in {"approval", "sell"} : StageSend(step)) \/ TradeFails \/ Send \/ RecordSend \/ BookFails
    <3>1. InExit /\ cur' = cur /\ pc' \in {"send", "answer", "confirm", "unwind"}
      BY <2>3, KindIs DEF StageSend, TradeFails, Send, RecordSend, BookFails, memVars
    <3> QED
      BY <3>1, ExitGoes
  <2>4. CASE BookExit
    <3>1. CASE pc' = "idle"
      BY <3>1, QuietPlaces DEF Quiet
    <3>2. CASE pc' = "flush" /\ cur' = cur
      BY <2>4, <3>2, KindIs, ExitOn DEF BookExit
    <3> QED
      BY <2>4, <3>1, <3>2 DEF BookExit, Return
  <2>5. CASE Unwind
    <3>1. CASE RequiresRecovery(Op)
      BY <2>5, <3>1, QuietPlaces DEF Unwind, Return, Quiet
    <3>2. CASE ~ RequiresRecovery(Op) /\ OperationGas(Op) > 0
      <4>1. InExit /\ UNCHANGED <<cur, ops>> /\ pc' = "charged"
        BY <2>5, <3>2, KindIs DEF Unwind
      <4> QED
        BY <3>2, <4>1, ExitOn
    <3>3. CASE ~ RequiresRecovery(Op) /\ ~ OperationGas(Op) > 0
      <4>1. InExit /\ UNCHANGED <<cur, ops>> /\ pc' = "fail"
        BY <2>5, <3>3, KindIs DEF Unwind
      <4> QED
        BY <3>3, <4>1, ExitOn
    <3> QED
      BY <3>1, <3>2, <3>3
  <2>6. CASE FailExit
    BY <2>6, QuietPlaces DEF FailExit, Return, Quiet
  <2> QED
    BY <1>3, <2>1, <2>2, <2>3, <2>4, <2>5, <2>6 DEF Exits
<1>4. CASE Both
  <2>1. ASSUME NEW k \in DOMAIN out, Confirm(k)
        PROVE  EntryPlaces' /\ ExitPlaces'
    <3>1. pc = "confirm" /\ pc' = "confirm" /\ pc \notin Quiet /\ UNCHANGED <<cur, ops>> /\ DOMAIN out' = DOMAIN out
      BY <2>1 DEF Confirm, Quiet, Boot
    <3>2. CASE InEntry
      BY <3>1, <3>2, EntryGoes DEF FinalInv, EntryPlaces, Op
    <3>3. CASE InExit
      BY <3>1, <3>3, ExitGoes
    <3> QED
      BY <3>1, <3>2, <3>3, CurIs DEF InEntry, InExit
  <2>2. CASE Flush
    <3>1. pc \notin Quiet /\ UNCHANGED <<cur, out, ops, bad>>
      BY <2>2 DEF Flush, Quiet, Boot, memVars
    <3>2. CASE pc = "charged"
      <4>1. InExit /\ pc' = "fail"
        BY <2>2, <3>2, KindIs DEF Flush
      <4>2. ~ RequiresRecovery(Op)
        BY <3>2, <4>1 DEF FinalInv, ExitPlaces
      <4> QED
        BY <3>1, <4>1, <4>2, ExitOn
    <3>3. CASE pc = "flush" /\ InExit
      <4>1. pc' = "apply"
        BY <2>2, <3>3 DEF Flush
      <4> QED
        BY <3>1, <3>3, <4>1, ExitOn
    <3>4. CASE pc = "flush" /\ InEntry
      <4>1. pc' = "apply" /\ DOMAIN out = DOMAIN Op.txs /\ (Unsure => bad) /\ (Unsure' <=> Unsure)
        BY <2>2, <3>1, <3>4 DEF Flush, FinalInv, EntryPlaces, Unsure
      <4> QED
        BY <3>1, <3>4, <4>1, EntryGoes DEF Op
    <3> QED
      BY <2>2, <3>1, <3>2, <3>3, <3>4, CurIs DEF Flush, InEntry, InExit
  <2>3. CASE FlushFails \/ RecordApplied
    BY <2>3, QuietPlaces DEF FlushFails, RecordApplied, Return, Quiet
  <2> QED
    BY <1>4, <2>1, <2>2, <2>3, RecordReceiptsPlaces DEF Both
<1>5. CASE Session
  <2>1. CASE Shutdown \/ Crash
    BY <2>1, QuietPlaces DEF Shutdown, Crash, ProcessEnds, Quiet, Boot
  <2>2. CASE CanonicalCheck \/ StopRequest \/ FlushIfDue \/ Age
    BY <2>2, SamePlaces DEF CanonicalCheck, StopRequest, FlushIfDue, Age, memVars
  <2> QED
    BY <1>5, <2>1, <2>2 DEF Session
<1>6. CASE Startup
  <2>1. pc' \in {"down", "boot", "idle"}
    BY <1>6, StartupQuiet
  <2> QED
    BY <2>1, QuietPlaces DEF Quiet, Boot
<1>7. CASE Environment \/ UNCHANGED vars
  BY <1>7, SamePlaces DEF Environment, processVars, vars, memVars
<1> QED
  BY <1>2, <1>3, <1>4, <1>5, <1>6, <1>7 DEF Next

-----------------------------------------------------------------------------
(* The startup *)

LEMMA RestartReach ==
  ASSUME ExecInv, Receipts, FinalInv, Restart
  PROVE  OutOfReach'
<1>1. /\ rec'.latest = LatestCount /\ rec'.pending = PendingCount
      /\ UNCHANGED <<aged, signed, mined, flight, pool>>
  BY DEF Restart, NoRec, chainVars
<1>2. ASSUME NEW h \in DOMAIN signed, h[1] <= aged, LatestCount <= Nonce(h), PendingCount <= Nonce(h)
      PROVE  Never(h)
  <2>1. PICK o \in DOMAIN ops : \E i \in DOMAIN ops[o].txs : h = <<o, i>>
    BY DEF Receipts, Journaled
  <2>2. PICK k \in DOMAIN ops[o].txs : h = <<o, k>>
    BY <2>1
  <2>3. Accounted(h)
    BY <1>2, <2>2 DEF FinalInv, JournalFinal, OpFinal, TxFinal
  <2>4. PendingCount \in Nat /\ LatestCount \in Nat /\ \A g \in pool : Nonce(g) \in Nat
    BY PendingCountNat DEF ExecInv
  <2>5. Gone(h)
    BY <1>2, <2>3, <2>4 DEF Accounted, Gone
  <2>6. ~ Landed(h)
    <3> SUFFICES ASSUME Landed(h)
                 PROVE  FALSE
      OBVIOUS
    <3>1. PICK i \in DOMAIN mined : mined[i].tx = h
      BY DEF Landed
    <3>2. Nonce(h) = i - 1
      BY <3>1 DEF Receipts, MinedInOrder
    <3>3. i \in 1 .. Len(mined) /\ Len(mined) \in Nat
      BY <3>1 DEF ExecInv, ChainTyped
    <3> QED
      BY <1>2, <3>2, <3>3 DEF LatestCount
  <2> QED
    BY <2>5, <2>6 DEF Never
<1> QED
  BY <1>1, <1>2 DEF OutOfReach, Never, Gone, Landed, Nonce

\* What startup read stays what it read.
LEMMA ReachStays ==
  ASSUME ExecInv, ExecInv', StepOK, FinalInv, Drift, flight' \subseteq flight, UNCHANGED <<aged, signed>>,
         pc = "boot", rec'.latest = rec.latest, rec'.pending = rec.pending
  PROVE  OutOfReach'
<1>1. ASSUME NEW h \in DOMAIN signed, h[1] <= aged, rec.latest <= Nonce(h), rec.pending <= Nonce(h)
      PROVE  Never(h)'
  <2>1. Never(h)
    BY <1>1 DEF FinalInv, OutOfReach
  <2> QED
    BY <2>1, NeverStays
<1> QED
  BY <1>1 DEF OutOfReach, Nonce

\* The steps of recovery on its own record.
LEMMA NextRec ==
  ASSUME rec \in Recovery, NEW blocked, NextTarget(blocked)
  PROVE  rec'.latest = rec.latest /\ rec'.pending = rec.pending /\ rec'.booked = FALSE
<1> DEFINE todo == rec.todo \ {Target}
           block == rec.blocked \/ blocked
<1>1. rec' = [rec EXCEPT !.todo = todo, !.k = 1, !.booked = FALSE, !.blocked = block]
  BY DEF NextTarget
<1> HIDE DEF todo, block
<1> QED
  BY <1>1 DEF Recovery

LEMMA BookedRec ==
  ASSUME rec \in Recovery, Booked
  PROVE  /\ rec'.latest = rec.latest /\ rec'.pending = rec.pending /\ rec'.todo = rec.todo
         /\ rec'.k = rec.k /\ rec'.snap = rec.snap
BY DEF Booked, Recovery

LEMMA RefreshRec ==
  ASSUME rec \in Recovery, RefreshTx
  PROVE  rec'.latest = rec.latest /\ rec'.pending = rec.pending /\ rec'.booked = rec.booked
<1>1. rec' = [rec EXCEPT !.k = @ + 1]
  BY DEF RefreshTx
<1> QED
  BY <1>1 DEF Recovery

LEMMA ElsewhereBoot ==
  ASSUME pc' # "boot"
  PROVE  OutOfReach' /\ BookedOK'
BY DEF OutOfReach, BookedOK

LEMMA SameBoot ==
  ASSUME ExecInv, ExecInv', StepOK, FinalInv, Drift, flight' \subseteq flight,
         UNCHANGED <<pc, rec, ops, aged, signed>>
  PROVE  OutOfReach' /\ BookedOK'
<1>1. CASE pc # "boot"
  BY <1>1, ElsewhereBoot
<1>2. CASE pc = "boot"
  <2>1. OutOfReach'
    BY <1>2, ReachStays
  <2>2. BookedOK'
    BY DEF FinalInv, BookedOK, Refreshed, Current, Target, Fill, Sale, ConfirmedIn
  <2> QED
    BY <2>1, <2>2
<1> QED
  BY <1>1, <1>2

LEMMA VerdictBoot ==
  ASSUME ExecInv, ExecInv', StepOK, FinalInv, Drift, Recovering, NEW blocked, NextTarget(blocked),
         UNCHANGED <<aged, chainVars>>
  PROVE  OutOfReach' /\ BookedOK'
<1>1. pc = "boot" /\ UNCHANGED <<flight, signed>> /\ rec \in Recovery
  BY DEF Recovering, chainVars, ExecInv, Scalars
<1>2. rec'.latest = rec.latest /\ rec'.pending = rec.pending /\ rec'.booked = FALSE
  BY <1>1, NextRec
<1>3. OutOfReach'
  BY <1>1, <1>2, ReachStays
<1>4. BookedOK'
  BY <1>2 DEF BookedOK
<1> QED
  BY <1>3, <1>4

LEMMA BookedBoot ==
  ASSUME ExecInv, ExecInv', StepOK, FinalInv, Drift, Recovering, Refreshed, Booked,
         rec.snap[Target].state = "Pending",
         Current.kind = "Entry" => Fill # {},
         Current.kind = "Exit" => (Sale = {} => ~ RequiresRecovery(Current))
  PROVE  OutOfReach' /\ BookedOK'
<1>1. pc = "boot" /\ UNCHANGED <<flight, signed, ops, aged>> /\ rec \in Recovery
  BY DEF Recovering, chainVars, ExecInv, Scalars, Booked
<1>2. /\ rec'.latest = rec.latest /\ rec'.pending = rec.pending /\ rec'.todo = rec.todo
      /\ rec'.k = rec.k /\ rec'.snap = rec.snap
  BY <1>1, BookedRec
<1>3. OutOfReach'
  BY <1>1, <1>2, ReachStays
<1>4. BookedOK'
  BY <1>1, <1>2 DEF BookedOK, Refreshed, Current, Target, Fill, Sale, ConfirmedIn, Recovering
<1> QED
  BY <1>3, <1>4

LEMMA RefreshTxBoot ==
  ASSUME ExecInv, ExecInv', StepOK, FinalInv, Drift, RefreshTx
  PROVE  OutOfReach' /\ BookedOK'
<1>1. /\ pc = "boot" /\ UNCHANGED <<flight, signed, aged>> /\ rec \in Recovery /\ ~ Refreshed
  BY DEF RefreshTx, Recovering, chainVars, ExecInv, Scalars
<1>2. rec'.latest = rec.latest /\ rec'.pending = rec.pending /\ rec'.booked = rec.booked
  BY <1>1, RefreshRec
<1>3. OutOfReach'
  BY <1>1, <1>2, ReachStays
<1>4. ~ rec.booked
  BY <1>1 DEF FinalInv, BookedOK
<1> QED
  BY <1>2, <1>3, <1>4 DEF BookedOK

LEMMA EveryStartup ==
  ASSUME ExecInv, ExecInv', Receipts, StepOK, FinalInv, Drift, Startup
  PROVE  OutOfReach' /\ BookedOK'
<1>1. CASE Restart
  <2>1. rec'.booked = FALSE
    BY <1>1 DEF Restart, NoRec
  <2> QED
    BY <1>1, <2>1, RestartReach DEF BookedOK
<1>2. CASE RecoverApplied \/ RecoverEntry \/ RecoverExit \/ RecordBooked
  <2>1. Recovering /\ UNCHANGED <<aged, chainVars>> /\ \E blocked : NextTarget(blocked)
    BY <1>2 DEF RecoverApplied, RecoverEntry, RecoverExit, RecordBooked, Recovered, Verdict
  <2> QED
    BY <2>1, VerdictBoot
<1>3. ASSUME Recovering, Verdict(TRUE, "Pending")
      PROVE  OutOfReach' /\ BookedOK'
  <2>1. UNCHANGED <<aged, chainVars>> /\ \E blocked : NextTarget(blocked)
    BY <1>3 DEF Verdict
  <2> QED
    BY <1>3, <2>1, VerdictBoot
<1>4. CASE RecoverFill
  <2>1. Recovering /\ Refreshed /\ Booked /\ rec.snap[Target].state = "Pending" /\ Current.kind = "Entry" /\ Fill # {}
    BY <1>4 DEF RecoverFill, Recovered
  <2> QED
    BY <2>1, BookedBoot
<1>5. CASE RecoverSale \/ RecoverGas
  <2>1. /\ Recovering /\ Refreshed /\ rec.snap[Target].state = "Pending" /\ Current.kind = "Exit"
        /\ Sale = {} => ~ RequiresRecovery(Current)
        /\ Booked \/ Verdict(TRUE, "Pending")
    BY <1>5 DEF RecoverSale, RecoverGas, Recovered
  <2> QED
    BY <1>3, <2>1, BookedBoot
<1>6. CASE BootFails \/ Start
  BY <1>6, ElsewhereBoot DEF BootFails, ProcessEnds, Start
<1> QED
  BY <1>1, <1>2, <1>4, <1>5, <1>6, RefreshTxBoot DEF Startup

LEMMA EveryStart ==
  ASSUME ExecInv, ExecInv', Receipts, StepOK, FinalInv, Drift, [Next]_vars
  PROVE  OutOfReach' /\ BookedOK'
<1>1. CASE Entries
  <2>1. pc' # "boot"
    BY <1>1 DEF Entries, BeginEntry, PresignFails, Presign, Unsent, FireBurst, RecordAnswer, RefreshNonce,
       NoFill, OpenPosition, Return
  <2> QED
    BY <2>1, ElsewhereBoot
<1>2. CASE Exits
  <2>1. CASE Unwind
    <3>1. pc' # "boot"
      <4>1. CASE RequiresRecovery(Op)
        BY <2>1, <4>1 DEF Unwind, Return
      <4>2. CASE ~ RequiresRecovery(Op) /\ OperationGas(Op) > 0
        BY <2>1, <4>2 DEF Unwind
      <4>3. CASE ~ RequiresRecovery(Op) /\ ~ OperationGas(Op) > 0
        BY <2>1, <4>3 DEF Unwind
      <4> QED
        BY <4>1, <4>2, <4>3
    <3> QED
      BY <3>1, ElsewhereBoot
  <2>2. CASE \E p \in positions : \E qty \in 1 .. p.held : DecideExit(p, qty)
    BY <2>2, ElsewhereBoot DEF DecideExit, Running, Boot
  <2>3. CASE \/ \E j \in queue : BeginExit(j)
             \/ \E step \in {"approval", "sell"} : StageSend(step)
             \/ TradeFails \/ Send \/ RecordSend \/ BookExit \/ BookFails \/ FailExit
    <3>1. pc' # "boot"
      BY <2>3 DEF BeginExit, StageSend, TradeFails, Send, RecordSend, BookExit, BookFails, FailExit, Return
    <3> QED
      BY <3>1, ElsewhereBoot
  <2> QED
    BY <1>2, <2>1, <2>2, <2>3 DEF Exits
<1>3. CASE Both
  <2>1. pc' # "boot"
    BY <1>3 DEF Both, Confirm, RecordReceipts, Flush, FlushFails, RecordApplied, Return
  <2> QED
    BY <2>1, ElsewhereBoot
<1>4. CASE Session
  <2>1. CASE Shutdown \/ Crash \/ Age
    BY <2>1, ElsewhereBoot DEF Shutdown, Crash, Age, ProcessEnds
  <2>2. CASE CanonicalCheck \/ StopRequest \/ FlushIfDue
    BY <2>2, SameBoot DEF CanonicalCheck, StopRequest, FlushIfDue, memVars, chainVars
  <2> QED
    BY <1>4, <2>1, <2>2 DEF Session
<1>5. CASE Environment
  <2>1. flight' \subseteq flight
    BY <1>5 DEF Environment, ChainNext, Delivery, Inclusion, Arrive, Lose, Evict, Mine, Reorg
  <2>2. signed' = signed
    BY <1>5, ChainKeeps DEF Environment, ExecInv
  <2> QED
    BY <1>5, <2>1, <2>2, SameBoot DEF Environment, processVars, memVars
<1>6. CASE UNCHANGED vars
  BY <1>6, SameBoot DEF vars, memVars, chainVars
<1> QED
  BY <1>1, <1>2, <1>3, <1>4, <1>5, <1>6, EveryStartup DEF Next

-----------------------------------------------------------------------------
LEMMA InitFinal ==
  ASSUME Init
  PROVE  FinalInv
<1>1. /\ DOMAIN ops = {} /\ DOMAIN out = {} /\ flight = {} /\ pool = {} /\ positions = {} /\ saved = {}
      /\ pc = "down"
  BY DEF Init, ChainInit
<1>2. Exclusive /\ JournalFinal /\ SalesLanded /\ OutOfReach /\ BookedOK
  BY <1>1 DEF Exclusive, JournalFinal, SalesLanded, OutOfReach, BookedOK
<1>3. CurOpen /\ AnswersFinal /\ EntryPlaces /\ ExitPlaces
  BY <1>1 DEF CurOpen, AnswersFinal, EntryPlaces, ExitPlaces, InEntry, InExit, Quiet, Boot
<1> QED
  BY <1>2, <1>3 DEF FinalInv

LEMMA NextFinal ==
  ASSUME ExecInv, ExecInv', Receipts, GasInv, FinalInv, MaxReorgs = 0, Fallback = FALSE, [Next]_vars
  PROVE  FinalInv'
<1>1. StepOK
  BY EveryStep
<1>2. Drift
  BY <1>1, EveryDrift DEF FinalInv
<1>3. Exclusive'
  BY <1>1, <1>2, DriftStays DEF ExecInv, StepOK, FinalInv
<1>4. JournalFinal'
  BY <1>1, <1>2, EveryJournal
<1>5. CurOpen' /\ SalesLanded'
  BY <1>1, EveryOpen, EverySale
<1>6. AnswersFinal'
  BY <1>1, <1>2, EveryFinalAnswer
<1>7. EntryPlaces' /\ ExitPlaces'
  BY <1>1, EveryPlace
<1>8. OutOfReach' /\ BookedOK'
  BY <1>1, <1>2, EveryStart
<1> QED
  BY <1>3, <1>4, <1>5, <1>6, <1>7, <1>8 DEF FinalInv

\* An operation recorded as failed has moved nothing and never will: what was
\* sent for it has been mined to no effect, refused, or lost for good, whichever of
\* the live path and recovery gave it up, and however often the process died in
\* between.  Without a reorg, which would put a mined transaction back on its way,
\* and with one route to the sequencer: of several, one may refuse an attempt that
\* another has delivered.
THEOREM FailuresAreFinal ==
  ASSUME MaxReorgs = 0, Fallback = FALSE
  PROVE  Spec => []FailedIsFinal
<1>1. Init => ExecInv /\ Receipts /\ GasInv /\ FinalInv
  BY InitExec, InitGas, InitFinal
<1>2. (ExecInv /\ Receipts /\ GasInv /\ FinalInv) /\ [Next]_vars => (ExecInv /\ Receipts /\ GasInv /\ FinalInv)'
  BY NextExec, NextGas, NextFinal
<1>3. FinalInv => FailedIsFinal
  <2> SUFFICES ASSUME FinalInv, NEW o \in DOMAIN ops, NEW k \in DOMAIN ops[o].txs, ops[o].state = "Failed"
               PROVE  /\ <<o, k>> \notin flight \cup pool
                      /\ Landed(<<o, k>>) /\ HasEffect(ops[o].txs[k]) => ~ Status(<<o, k>>)
    BY DEF FailedIsFinal
  <2>1. TxFinal(o, ops[o], k)
    BY DEF FinalInv, JournalFinal, OpFinal
  <2> QED
    BY <2>1 DEF TxFinal, Gone, Moves
<1> QED
  BY <1>1, <1>2, <1>3, PTL DEF Spec

-----------------------------------------------------------------------------
(* The nonce *)

Live == Running /\ ~ stop

\* Only the operation in hand is undecided.
OnlyCur == \A o \in DOMAIN ops : o # cur => ops[o].state # "Pending"

\* The places at which the wallet's nonce is the chain's.
InStep ==
  \/ pc \in {"idle", "sign", "trade", "book", "charged", "fail"}
  \/ pc = "unwind" /\ ~ RequiresRecovery(Op)
  \/ InExit /\ pc \in {"flush", "apply"}
  \/ InEntry /\ pc \in {"settle", "flush", "apply"} /\ ~ bad /\ ~ Unsure

\* One transaction of an exit is under way.
OneOut == InExit /\ pc \in {"send", "answer", "confirm"}

NonceAt ==
  /\ InStep => nonce = LatestCount
  /\ pc = "armed" => Op.txs[1].nonce = LatestCount /\ nonce = LatestCount + Attempts
  /\ OneOut =>
       /\ nonce = Op.txs[Last].nonce + 1
       /\ Landed(<<cur, Last>>) => LatestCount = nonce
       /\ ~ Landed(<<cur, Last>>) => LatestCount = Op.txs[Last].nonce

LiveOK == Live => OnlyCur /\ NonceAt

\* Startup leaves nothing undecided aside.
TodoOK ==
  pc = "boot" /\ ~ rec.blocked =>
    \A o \in DOMAIN ops : ops[o].state = "Pending" => o \in rec.todo

NonceInv == LiveOK /\ TodoOK

-----------------------------------------------------------------------------
(* Nothing is on its way *)

LEMMA OnlyLive ==
  ASSUME ExecInv, Receipts, FinalInv, OnlyCur, NEW h \in flight \cup pool
  PROVE  cur \in DOMAIN ops /\ \E k \in DOMAIN ops[cur].txs : h = <<cur, k>>
<1>1. h \in DOMAIN signed
  BY DEF ExecInv, ChainTyped
<1>2. PICK o \in DOMAIN ops : \E i \in DOMAIN ops[o].txs : h = <<o, i>>
  BY <1>1 DEF Receipts, Journaled
<1>3. PICK k \in DOMAIN ops[o].txs : h = <<o, k>>
  BY <1>2
<1>4. TxFinal(o, ops[o], k)
  BY DEF FinalInv, JournalFinal, OpFinal
<1>5. o = cur
  BY <1>3, <1>4 DEF TxFinal, Gone, OnlyCur
<1> QED
  BY <1>3, <1>5

LEMMA NothingOut ==
  ASSUME ExecInv, Receipts, FinalInv, OnlyCur,
         cur \in DOMAIN ops => \A k \in DOMAIN ops[cur].txs : Gone(<<cur, k>>)
  PROVE  flight = {} /\ pool = {} /\ PendingCount = LatestCount
<1>1. flight = {} /\ pool = {}
  BY OnlyLive DEF Gone
<1>2. /\ LatestCount \in Nat /\ PendingCount \in Nat /\ LatestCount <= PendingCount
      /\ \A n \in Nat : LatestCount <= n /\ n < PendingCount => \E g \in pool : Nonce(g) = n
  BY PendingCountNat DEF ExecInv
<1> QED
  BY <1>1, <1>2

\* Every attempt of the burst has its answer.
LEMMA AnswersGone ==
  ASSUME ExecInv, Receipts, FinalInv, InEntry, pc \in {"refresh", "settle", "flush", "apply"}, ~ Unsure
  PROVE  \A k \in DOMAIN Op.txs : Gone(<<cur, k>>)
<1> SUFFICES ASSUME NEW k \in DOMAIN Op.txs
             PROVE  Gone(<<cur, k>>)
  OBVIOUS
<1>1. pc \notin Quiet /\ k \in DOMAIN out
  BY DEF InEntry, FinalInv, EntryPlaces
<1>2. out[k].ans \in {"refused", "confirmed", "reverted"} /\ (out[k].ans = "refused" => Never(<<cur, k>>))
  BY <1>1 DEF FinalInv, AnswersFinal, AnswerFinal, Final, Unsure
<1>3. AccurateAnswer(<<cur, k>>, out[k])
  BY <1>1 DEF Receipts, AccurateAnswers
<1> QED
  BY <1>2, <1>3, LandedGone DEF AccurateAnswer, Never

LEMMA StillAt ==
  ASSUME ExecInv, Receipts, FinalInv, OnlyCur, InStep \/ pc = "armed" \/ (pc = "refresh" /\ ~ Unsure)
  PROVE  flight = {} /\ pool = {} /\ PendingCount = LatestCount
<1>1. CASE pc = "idle"
  <2>1. cur \notin DOMAIN ops
    <3>1. cur = 0 /\ ops \in Seq(OpRecord)
      BY <1>1 DEF ExecInv, OwnerOK, Quiet, JournalTyped
    <3> QED
      BY <3>1
  <2> QED
    BY <2>1, NothingOut
<1>2. CASE pc # "idle"
  <2>1. pc \notin Quiet
    BY <1>2, KindIs DEF InStep, InExit, InEntry
  <2>2. cur \in DOMAIN ops /\ Op = ops[cur] /\ Op.state = "Pending"
    BY <2>1, CurIs DEF FinalInv, CurOpen
  <2>3. \A k \in DOMAIN Op.txs : Gone(<<cur, k>>)
    <3>1. CASE pc = "sign"
      BY <3>1 DEF ExecInv, AnswersOK
    <3>2. CASE pc \in {"trade", "book"} \/ (InExit /\ pc \in {"flush", "apply"})
      <4>1. AllLanded
        BY <3>2, KindIs DEF FinalInv, ExitPlaces
      <4> QED
        BY <4>1, LandedGone DEF AllLanded
    <3>3. CASE pc \in {"charged", "fail"} \/ (pc = "unwind" /\ ~ RequiresRecovery(Op))
      <4>1. ~ RequiresRecovery(ops[cur])
        BY <2>2, <3>3, KindIs DEF FinalInv, ExitPlaces
      <4> QED
        BY <2>2, <4>1, SettledIs
    <3>4. CASE pc = "armed"
      <4>1. InEntry
        BY <3>4, KindIs
      <4> QED
        BY <2>1, <3>4, <4>1 DEF FinalInv, AnswersFinal, AnswerFinal, EntryPlaces, Never
    <3>5. CASE (InEntry /\ pc \in {"settle", "flush", "apply"} /\ ~ Unsure) \/ (pc = "refresh" /\ ~ Unsure)
      BY <3>5, KindIs, AnswersGone
    <3> QED
      BY <1>2, <3>1, <3>2, <3>3, <3>4, <3>5 DEF InStep
  <2> QED
    BY <2>2, <2>3, NothingOut
<1> QED
  BY <1>1, <1>2

-----------------------------------------------------------------------------
(* What a step does to the nonce *)

LEMMA HaltsLive ==
  ASSUME stop' \/ pc' \in Boot
  PROVE  LiveOK'
BY DEF LiveOK, Live, Running

LEMMA SameLive ==
  ASSUME LiveOK, UNCHANGED <<ops, nonce, mined, pc, cur, out, bad, stop>>
  PROVE  LiveOK'
<1>1. (Live' <=> Live) /\ (OnlyCur' <=> OnlyCur)
  BY DEF Live, Running, OnlyCur
<1>2. (InExit' <=> InExit) /\ (InEntry' <=> InEntry) /\ (Unsure' <=> Unsure) /\ Op' = Op /\ Last' = Last
  BY DEF InExit, InEntry, Unsure, Op, Last
<1>3. (InStep' <=> InStep) /\ (OneOut' <=> OneOut)
  BY <1>2 DEF InStep, OneOut
<1>4. LatestCount' = LatestCount /\ (Landed(<<cur, Last>>)' <=> Landed(<<cur, Last>>))
  BY <1>2 DEF LatestCount, Landed
<1> QED
  BY <1>1, <1>2, <1>3, <1>4 DEF LiveOK, NonceAt

\* The other operations are left alone.
OthersStay == DOMAIN ops' = DOMAIN ops /\ \A o \in DOMAIN ops : o # cur => ops'[o] = ops[o]

LEMMA PutOthers ==
  ASSUME NEW op, Put(cur, op)
  PROVE  OthersStay
BY DEF Put, OthersStay

\* The owner goes on.
LEMMA GoLive ==
  ASSUME LiveOK, cur' = cur, OthersStay, pc \notin Boot, stop' = stop,
         Live => NonceAt'
  PROVE  LiveOK'
BY DEF LiveOK, Live, Running, OnlyCur, OthersStay

\* ... from a place in step to another.
LEMMA StepLive ==
  ASSUME LiveOK, UNCHANGED <<cur, nonce, mined, stop>>, OthersStay, pc \notin Boot,
         InStep' => InStep, pc' # "armed", ~ OneOut'
  PROVE  LiveOK'
<1>1. LatestCount' = LatestCount
  BY DEF LatestCount
<1>2. Live => NonceAt'
  BY <1>1 DEF LiveOK, NonceAt
<1> QED
  BY <1>2, GoLive

\* The handler returns.
LEMMA ReturnLive ==
  ASSUME ExecInv, LiveOK, pc \notin Quiet, NEW keep, Return(keep), OthersStay, mined' = mined,
         ~ stop' => ~ stop,
         Live => ops'[cur].state # "Pending" /\ nonce' = LatestCount
  PROVE  LiveOK'
<1> SUFFICES ASSUME Live'
             PROVE  OnlyCur' /\ NonceAt'
  BY DEF LiveOK
<1>1. pc' = "idle"
  BY DEF Return
<1>2. Live
  BY DEF Live, Running, Quiet
<1>3. OnlyCur'
  BY <1>2 DEF LiveOK, OnlyCur, OthersStay
<1>4. NonceAt'
  BY <1>1, <1>2 DEF NonceAt, OneOut, LatestCount
<1> QED
  BY <1>3, <1>4

LEMMA IdleNone ==
  ASSUME ExecInv, pc = "idle"
  PROVE  cur \notin DOMAIN ops
<1>1. cur = 0 /\ ops \in Seq(OpRecord)
  BY DEF ExecInv, OwnerOK, Quiet, JournalTyped
<1> QED
  BY <1>1

LEMMA BeginLive ==
  ASSUME ExecInv, LiveOK, pc = "idle", NEW op, ops' = Append(ops, op), cur' = Len(ops) + 1,
         UNCHANGED <<nonce, mined, stop>>, pc' \in {"sign", "trade"}
  PROVE  LiveOK'
<1> SUFFICES ASSUME Live'
             PROVE  OnlyCur' /\ NonceAt'
  BY DEF LiveOK
<1>1. Live
  BY DEF Live, Running, Boot
<1>2. \A o \in DOMAIN ops : ops[o].state # "Pending"
  BY <1>1, IdleNone DEF LiveOK, OnlyCur
<1>3. OnlyCur'
  <2>1. ops \in Seq(OpRecord)
    BY DEF ExecInv, JournalTyped
  <2>2. \A o \in DOMAIN ops' : o # cur' => o \in DOMAIN ops /\ ops'[o] = ops[o]
    BY <2>1
  <2> QED
    BY <1>2, <2>2 DEF OnlyCur
<1>4. NonceAt'
  BY <1>1 DEF LiveOK, NonceAt, InStep, OneOut, LatestCount
<1> QED
  BY <1>3, <1>4

-----------------------------------------------------------------------------
(* The chain moves *)

\* A transaction the journal's operation in hand has not under way stays put.
LEMMA CurOnly ==
  ASSUME ExecInv, ExecInv', Receipts, StepOK, FinalInv, OnlyCur, NEW h \in flight \cup pool,
         InExit, pc \in {"send", "answer", "confirm"}
  PROVE  h = <<cur, Last>> /\ Nonce(h) = Op.txs[Last].nonce
<1>1. cur \in DOMAIN ops /\ \E k \in DOMAIN ops[cur].txs : h = <<cur, k>>
  BY OnlyLive
<1>2. PICK k \in DOMAIN ops[cur].txs : h = <<cur, k>>
  BY <1>1
<1>3. TxFinal(cur, ops[cur], k) /\ ~ Landed(h)
  BY <1>1, <1>2 DEF FinalInv, JournalFinal, OpFinal, Exclusive
<1>4. k = Last
  BY <1>2, <1>3 DEF TxFinal, InExit, Op, Last
<1>5. h \in DOMAIN signed
  BY DEF ExecInv, ChainTyped
<1>6. PICK o \in DOMAIN ops : \E i \in DOMAIN ops[o].txs : h = <<o, i>> /\ ops[o].txs[i].nonce = Nonce(h)
  BY <1>5 DEF Receipts, Journaled
<1> QED
  BY <1>2, <1>4, <1>6 DEF Op

LEMMA NoChain ==
  ASSUME ExecInv, MaxReorgs = 0, ChainNext, flight = {}, pool = {}
  PROVE  FALSE
<1>1. forks \in Nat
  BY DEF ExecInv, ChainTyped
<1> QED
  BY <1>1 DEF ChainNext, Delivery, Inclusion, Reorg

LEMMA ChainMines ==
  ASSUME ExecInv, MaxReorgs = 0, ChainNext
  PROVE  \/ mined' = mined
         \/ \E m : m.tx \in pool /\ Nonce(m.tx) = LatestCount /\ mined' = Append(mined, m)
<1>1. forks \in Nat
  BY DEF ExecInv, ChainTyped
<1>2. CASE \E h \in pool : \E ok \in BOOLEAN : Mine(h, ok)
  <2>1. PICK h \in pool, ok \in BOOLEAN : Mine(h, ok)
    BY <1>2
  <2> DEFINE m == [tx |-> h, ok |-> ok, fork |-> forks]
  <2>2. m.tx = h /\ Nonce(h) = LatestCount /\ mined' = Append(mined, m)
    BY <2>1 DEF Mine
  <2> HIDE DEF m
  <2> QED
    BY <2>2
<1>3. CASE Delivery \/ \E h \in pool : Evict(h)
  BY <1>3 DEF Delivery, Arrive, Lose, Evict
<1> QED
  BY <1>1, <1>2, <1>3 DEF ChainNext, Inclusion, Reorg

LEMMA MinedMore ==
  ASSUME ExecInv, NEW m, mined' = Append(mined, m)
  PROVE  /\ LatestCount \in Nat /\ LatestCount' = LatestCount + 1 /\ Landed(m.tx)'
         /\ \A h : h # m.tx => (Landed(h)' <=> Landed(h))
<1>1. mined \in Seq([tx : DOMAIN signed, ok : BOOLEAN, fork : Nat])
  BY DEF ExecInv, ChainTyped
<1>2. /\ DOMAIN mined = 1 .. Len(mined) /\ Len(mined) \in Nat
      /\ DOMAIN mined' = 1 .. Len(mined) + 1 /\ mined'[Len(mined) + 1] = m /\ Len(mined') = Len(mined) + 1
      /\ \A i \in DOMAIN mined : mined'[i] = mined[i]
  BY <1>1
<1> QED
  BY <1>2 DEF Landed, LatestCount

LEMMA EnvironmentLive ==
  ASSUME ExecInv, ExecInv', Receipts, StepOK, FinalInv, LiveOK, MaxReorgs = 0, Environment
  PROVE  LiveOK'
<1>0. UNCHANGED <<ops, nonce, pc, cur, out, bad, stop>> /\ ChainNext
  BY DEF Environment, processVars, memVars
<1>1. CASE mined' = mined
  BY <1>0, <1>1, SameLive
<1>2. CASE mined' # mined
  <2> SUFFICES ASSUME Live
               PROVE  OnlyCur' /\ NonceAt'
    BY <1>0 DEF LiveOK, Live, Running
  <2>1. OnlyCur /\ NonceAt /\ OnlyCur'
    BY <1>0 DEF LiveOK, OnlyCur
  <2>2. PICK m : m.tx \in pool /\ Nonce(m.tx) = LatestCount /\ mined' = Append(mined, m)
    BY <1>0, <1>2, ChainMines
  <2>3. ~ InStep /\ pc # "armed"
    BY <2>1, <2>2, StillAt
  <2>4. ~ InStep' /\ pc' # "armed" /\ (OneOut' <=> OneOut) /\ Op' = Op /\ Last' = Last
    BY <1>0, <2>3 DEF InStep, OneOut, InExit, InEntry, Unsure, Op, Last
  <2>5. ASSUME OneOut
        PROVE  /\ nonce' = Op'.txs[Last'].nonce + 1
               /\ Landed(<<cur, Last>>)' => LatestCount' = nonce'
               /\ ~ Landed(<<cur, Last>>)' => LatestCount' = Op'.txs[Last'].nonce
    <3>1. m.tx = <<cur, Last>> /\ Nonce(m.tx) = Op.txs[Last].nonce
      <4>1. PICK h \in flight \cup pool : h = m.tx
        BY <2>2
      <4> QED
        BY <2>1, <2>5, <4>1, CurOnly DEF OneOut
    <3>2. LatestCount' = LatestCount + 1 /\ Landed(m.tx)'
      BY <2>2, MinedMore
    <3>3. Landed(<<cur, Last>>)'
      <4>1. PICK c, l : c = cur /\ l = Last
        OBVIOUS
      <4>2. m.tx = <<c, l>> /\ c' = c
        BY <2>2, <3>1, <4>1
      <4> QED
        BY <1>0, <2>4, <3>2, <4>1, <4>2 DEF Landed
    <3>4. nonce = Op.txs[Last].nonce + 1
      BY <2>1, <2>5 DEF NonceAt
    <3> QED
      BY <1>0, <2>2, <2>4, <3>1, <3>2, <3>3, <3>4
  <2> QED
    BY <2>1, <2>4, <2>5 DEF NonceAt
<1> QED
  BY <1>1, <1>2

-----------------------------------------------------------------------------
(* The entry's steps *)

LEMMA SameOthers ==
  ASSUME ops' = ops
  PROVE  OthersStay
BY DEF OthersStay

LEMMA BeginEntryLive ==
  ASSUME ExecInv, LiveOK, NEW t \in Token, BeginEntry(t)
  PROVE  LiveOK'
<1>1. CASE stop'
  BY <1>1, HaltsLive
<1>2. CASE ~ stop'
  <2>1. ~ PendingSubject(ops, "Entry", t)
    BY <1>2 DEF BeginEntry, Halt
  <2> DEFINE op == [kind |-> "Entry", subject |-> t, state |-> "Pending", txs |-> <<>>]
  <2>2. /\ pc = "idle" /\ ops' = Append(ops, op) /\ cur' = Len(ops) + 1 /\ pc' = "sign"
        /\ UNCHANGED <<nonce, mined, stop>>
    BY <2>1 DEF BeginEntry, chainVars
  <2> HIDE DEF op
  <2> QED
    BY <2>2, BeginLive
<1> QED
  BY <1>1, <1>2

LEMMA PresignLive ==
  ASSUME ExecInv, LiveOK, Presign
  PROVE  LiveOK'
<1> DEFINE payload == [kind |-> "buy", token |-> Op.subject, qty |-> 0]
<1>1. pc = "sign" /\ pc \notin Quiet /\ pc \notin Boot /\ Op.kind = "Entry"
  BY KindIs DEF Presign, Quiet
<1>2. payload \in [kind : Kind, token : Token, qty : Nat]
  <2>1. cur \in DOMAIN ops /\ Op = ops[cur]
    BY <1>1, CurIs
  <2> QED
    BY <1>1, <2>1 DEF ExecInv, JournalTyped, Kind
<1>3. /\ "entry" \in Step /\ Attempts \in Nat \ {0} /\ cur' = cur /\ stop' = stop /\ pc' = "armed"
      /\ Reserve("entry", Attempts, payload)
  BY ExecutionAssumption DEF Step, Presign
<1> HIDE DEF payload
<1>4. OthersStay
  BY <1>3, PutOthers DEF Reserve
<1>5. nonce' = nonce + Attempts /\ mined' = mined
  BY <1>3 DEF Reserve
<1>6. Op'.txs[1].nonce = nonce
  <2>1. Last = 0 /\ nonce \in Nat
    BY <1>1 DEF ExecInv, AnswersOK, Last, Scalars
  <2>2. \A i \in 1 .. Attempts : ops'[cur].txs[Last + i] = Staged("entry", nonce + i - 1)
    BY <1>1, <1>2, <1>3, ReserveKeeps
  <2>3. ops'[cur].txs[1] = Staged("entry", nonce)
    <3>1. 1 \in 1 .. Attempts /\ Last + 1 = 1 /\ nonce + 1 - 1 = nonce
      BY <1>3, <2>1
    <3>2. ops'[cur].txs[Last + 1] = Staged("entry", nonce + 1 - 1)
      BY <2>2, <3>1
    <3> QED
      BY <3>1, <3>2
  <2> QED
    BY <1>3, <2>3 DEF Op, Staged
<1>7. Live => NonceAt'
  BY <1>1, <1>3, <1>5, <1>6 DEF LiveOK, NonceAt, InStep, OneOut, LatestCount
<1> QED
  BY <1>1, <1>3, <1>4, <1>7, GoLive

LEMMA UnsentLive ==
  ASSUME ExecInv, LiveOK, Unsent
  PROVE  LiveOK'
<1> DEFINE op == WithState(AllRejected(Op), "Failed")
<1>1. /\ pc = "armed" /\ Put(cur, op) /\ Return(TRUE) /\ mined' = mined /\ (~ stop' => ~ stop)
      /\ nonce' = Rewound(Op.txs[1].nonce, Attempts)
  BY DEF Unsent, chainVars, Halt
<1>2. pc \notin Quiet
  BY <1>1, KindIs
<1>3. ops'[cur].state # "Pending"
  <2>1. cur \in DOMAIN ops /\ Op \in OpRecord /\ Op = ops[cur]
    BY <1>2, CurIs
  <2>2. AllRejected(Op) \in OpRecord
    BY <2>1, AllRejectedIs DEF Same
  <2>3. op.state = "Failed"
    BY <2>2, WithStateIs DEF OperationState
  <2> HIDE DEF op
  <2> QED
    BY <1>1, <2>1, <2>3 DEF Put
<1> HIDE DEF op
<1>4. OthersStay
  BY <1>1, PutOthers
<1>5. Live => nonce' = LatestCount
  BY <1>1 DEF LiveOK, NonceAt, Rewound
<1> QED
  BY <1>1, <1>2, <1>3, <1>4, <1>5, ReturnLive

LEMMA BurstLive ==
  ASSUME ExecInv, ExecInv', StepOK, LiveOK, FireBurst \/ RecordAnswer
  PROVE  LiveOK'
<1>1. pc \in {"armed", "answers"} /\ pc' \in {"answers", "confirm"} /\ cur' = cur /\ stop' = stop
  BY DEF FireBurst, RecordAnswer, memVars
<1>2. pc \notin Quiet /\ pc \notin Boot /\ Op.kind = "Entry"
  BY <1>1, KindIs DEF Quiet
<1>3. OthersStay
  <2>1. UNCHANGED ops \/ \E op : Put(cur, op)
    BY DEF FireBurst, RecordAnswer
  <2> QED
    BY <2>1, SameOthers, PutOthers
<1>4. Op'.kind = "Entry"
  BY <1>1, <1>2, KindStays
<1>5. NonceAt'
  BY <1>1, <1>4 DEF NonceAt, InStep, OneOut, InExit
<1> QED
  BY <1>1, <1>2, <1>3, <1>5, GoLive

LEMMA RefreshNonceLive ==
  ASSUME ExecInv, Receipts, FinalInv, LiveOK, RefreshNonce
  PROVE  LiveOK'
<1>1. pc = "refresh" /\ pc' = "settle" /\ UNCHANGED <<ops, cur, stop, out, mined>>
  BY DEF RefreshNonce, chainVars
<1>2. OthersStay /\ pc \notin Boot
  BY <1>1, SameOthers DEF Boot
<1>3. ASSUME Live
      PROVE  NonceAt'
  <2>1. ASSUME InStep'
        PROVE  nonce' = LatestCount'
    <3>1. ~ bad' /\ ~ Unsure
      BY <1>1, <2>1 DEF InStep, Unsure
    <3>2. nonce' = PendingCount
      BY <3>1 DEF RefreshNonce
    <3>3. PendingCount = LatestCount
      BY <1>1, <1>3, <3>1, StillAt DEF LiveOK
    <3> QED
      BY <1>1, <3>2, <3>3 DEF LatestCount
  <2> QED
    BY <1>1, <2>1 DEF NonceAt, OneOut
<1> QED
  BY <1>1, <1>2, <1>3, GoLive

LEMMA OpenPositionLive ==
  ASSUME ExecInv, LiveOK, OpenPosition
  PROVE  LiveOK'
<1>1. /\ pc = "settle" /\ pc' = "flush" /\ UNCHANGED <<ops, nonce, mined, cur, out, stop>>
      /\ (~ bad' => ~ bad /\ ~ Unsure)
  BY DEF OpenPosition, chainVars
<1>2. InStep' => InStep
  <2>1. InEntry /\ Op.kind = "Entry" /\ Op' = Op /\ (Unsure' <=> Unsure)
    BY <1>1, KindIs DEF Op, Unsure
  <2> QED
    BY <1>1, <2>1 DEF InStep, InExit
<1> QED
  BY <1>1, <1>2, StepLive, SameOthers DEF Boot, OneOut

-----------------------------------------------------------------------------
(* The exit's steps, and those they share *)

LEMMA ConfirmLive ==
  ASSUME LiveOK, NEW k \in DOMAIN out, Confirm(k)
  PROVE  LiveOK'
<1>1. pc = "confirm" /\ UNCHANGED <<ops, nonce, stop, pc, cur, mined>>
  BY DEF Confirm, chainVars
<1>2. NonceAt => NonceAt'
  <2>1. (OneOut' <=> OneOut) /\ ~ InStep' /\ pc' # "armed" /\ Op' = Op /\ Last' = Last
    BY <1>1 DEF OneOut, InStep, InExit, Op, Last
  <2>2. LatestCount' = LatestCount /\ (Landed(<<cur, Last>>)' <=> Landed(<<cur, Last>>))
    BY <1>1, <2>1 DEF LatestCount, Landed
  <2> QED
    BY <1>1, <2>1, <2>2 DEF NonceAt
<1> QED
  BY <1>1, <1>2, GoLive, SameOthers DEF LiveOK, Boot

LEMMA RecordReceiptsLive ==
  ASSUME ExecInv, Receipts, FinalInv, LiveOK, RecordReceipts
  PROVE  LiveOK'
<1>1. /\ pc = "confirm" /\ pc \notin Quiet /\ pc \notin Boot /\ Put(cur, WithReceipts(Op, out))
      /\ UNCHANGED <<cur, out, bad, mined, nonce, stop>>
  BY DEF RecordReceipts, Quiet, Boot, memVars, chainVars
<1>2. /\ cur \in DOMAIN ops /\ Op = ops[cur] /\ Op \in OpRecord /\ Op.kind \in {"Entry", "Exit"}
      /\ DOMAIN Op.txs = 1 .. Last /\ Last \in Nat /\ \A k \in DOMAIN Op.txs : Op.txs[k] \in TxRecord
  BY <1>1, CurIs
<1>3. OthersStay
  BY <1>1, PutOthers
<1>4. PICK op : op = WithReceipts(Op, out)
  OBVIOUS
<1>5. /\ op.kind = Op.kind /\ op.state = Op.state /\ DOMAIN op.txs = DOMAIN Op.txs
      /\ \A k \in DOMAIN Op.txs \cap DOMAIN out : op.txs[k] = WithReceipt(Op.txs[k], out[k])
  <2>1. \A k \in DOMAIN out : out[k] \in Answer
    BY <1>1 DEF ExecInv, AnswersOK
  <2> QED
    BY <1>2, <1>4, <2>1, ReceiptsAre DEF Same
<1>6. Op' = op
  BY <1>1, <1>2, <1>4 DEF Put, Op
<1>7. CASE Op.kind = "Entry"
  <2>1. pc' = "refresh"
    BY <1>7 DEF RecordReceipts
  <2>2. NonceAt'
    BY <2>1 DEF NonceAt, InStep, OneOut
  <2> QED
    BY <1>1, <1>3, <2>2, GoLive
<1>8. CASE Op.kind = "Exit"
  <2>1. InExit /\ OneOut /\ pc' \in {"unwind", "book", "trade"} /\ (pc' # "unwind" => out[Last].ans = "confirmed")
    BY <1>1, <1>8 DEF RecordReceipts, InExit, OneOut
  <2>2. DOMAIN out = {Last} /\ Last \in DOMAIN Op.txs
    <3>1. DOMAIN out = {Last} /\ DOMAIN out \subseteq DOMAIN Op.txs
      BY <1>1, <2>1 DEF ExecInv, AnswersOK
    <3> QED
      BY <3>1
  <2>3. out[Last].ans \in {"confirmed", "reverted", "unresolved"}
    <3>1. out[Last] \in Answer /\ AnswerFinal(Last) /\ Last \notin Awaited
      BY <1>1, <2>2 DEF ExecInv, AnswersOK, FinalInv, AnswersFinal, RecordReceipts
    <3> QED
      BY <1>1, <1>8, <2>2, <3>1 DEF Answer, Answered, AnswerFinal, Awaited
  <2>4. ASSUME Live, InStep'
        PROVE  nonce' = LatestCount'
    <3>1. CASE out[Last].ans \in {"confirmed", "reverted"}
      <4>1. Landed(<<cur, Last>>)
        BY <1>1, <2>2, <3>1 DEF Receipts, AccurateAnswers, AccurateAnswer
      <4> QED
        BY <1>1, <2>1, <2>4, <4>1 DEF LiveOK, NonceAt, LatestCount
    <3>2. CASE out[Last].ans = "unresolved"
      <4>1. pc' = "unwind"
        BY <2>1, <3>2
      <4>2. op.txs[Last].state = "Unresolved"
        <5>1. Op.txs[Last] \in TxRecord /\ op.txs[Last] = WithReceipt(Op.txs[Last], out[Last])
          BY <1>2, <1>5, <2>2
        <5>2. op.txs[Last] = [Op.txs[Last] EXCEPT !.state = "Unresolved"]
          BY <3>2, <5>1 DEF WithReceipt
        <5> QED
          BY <5>1, <5>2 DEF TxRecord
      <4>3. op.state = "Pending"
        BY <1>1, <1>5 DEF FinalInv, CurOpen
      <4>4. RequiresRecovery(op)
        BY <1>5, <2>2, <4>2, <4>3 DEF RequiresRecovery, HasAmbiguous, AmbiguousState
      <4> QED
        BY <1>6, <2>4, <4>1, <4>4 DEF InStep
    <3> QED
      BY <2>3, <3>1, <3>2
  <2>5. Live => NonceAt'
    BY <2>1, <2>4 DEF NonceAt, OneOut
  <2> QED
    BY <1>1, <1>3, <2>5, GoLive
<1> QED
  BY <1>2, <1>7, <1>8

LEMMA FlushLive ==
  ASSUME ExecInv, LiveOK, Flush
  PROVE  LiveOK'
<1>1. /\ pc \in {"flush", "charged"} /\ pc' = (IF pc = "flush" THEN "apply" ELSE "fail")
      /\ UNCHANGED <<ops, nonce, mined, cur, out, bad, stop>>
  BY DEF Flush, memVars, chainVars
<1>2. pc \notin Boot /\ pc \notin Quiet
  BY <1>1 DEF Boot, Quiet
<1>3. InStep' => InStep
  BY <1>1, <1>2 DEF InStep, InExit, InEntry, Unsure, Op
<1> QED
  BY <1>1, <1>2, <1>3, StepLive, SameOthers DEF OneOut

LEMMA ExitGoesLive ==
  ASSUME ExecInv, LiveOK, TradeFails \/ BookFails \/ BookExit
  PROVE  LiveOK'
<1>1. CASE stop'
  BY <1>1, HaltsLive
<1>2. CASE ~ stop'
  <2>1. /\ pc \in {"trade", "book"} /\ pc' \in {"unwind", "flush"}
        /\ UNCHANGED <<ops, nonce, mined, cur, stop>>
    BY <1>2 DEF TradeFails, BookFails, BookExit, Halt, memVars, chainVars
  <2>2. InStep /\ pc \notin Boot /\ ~ OneOut' /\ pc' # "armed"
    BY <2>1 DEF InStep, Boot, OneOut
  <2> QED
    BY <2>1, <2>2, StepLive, SameOthers
<1> QED
  BY <1>1, <1>2

LEMMA UnwindLive ==
  ASSUME ExecInv, LiveOK, Unwind
  PROVE  LiveOK'
<1>1. CASE stop'
  BY <1>1, HaltsLive
<1>2. CASE ~ stop'
  <2>1. pc = "unwind" /\ UNCHANGED <<nonce, mined>>
    BY DEF Unwind, chainVars
  <2>2. ~ RequiresRecovery(Op)
    BY <1>2 DEF Unwind, Halt
  <2>3. pc' \in {"charged", "fail"} /\ UNCHANGED <<ops, cur, stop>>
    <3>1. CASE OperationGas(Op) > 0
      BY <2>2, <3>1 DEF Unwind
    <3>2. CASE ~ OperationGas(Op) > 0
      BY <2>2, <3>2 DEF Unwind
    <3> QED
      BY <3>1, <3>2
  <2>4. InStep /\ pc \notin Boot /\ ~ OneOut' /\ pc' # "armed"
    BY <2>1, <2>2, <2>3 DEF InStep, Boot, OneOut
  <2> QED
    BY <2>1, <2>3, <2>4, StepLive, SameOthers
<1> QED
  BY <1>1, <1>2

\* The operation in hand is decided.
LEMMA DoneLive ==
  ASSUME ExecInv, FinalInv, LiveOK, NoFill \/ RecordApplied \/ FailExit
  PROVE  LiveOK'
<1>1. CASE stop'
  BY <1>1, HaltsLive
<1>2. CASE ~ stop'
  <2>1. pc \in {"settle", "apply", "fail"} /\ pc \notin Quiet /\ UNCHANGED <<nonce, mined, stop>>
    BY <1>2 DEF NoFill, RecordApplied, FailExit, Quiet, Boot, chainVars, Halt
  <2>2. PICK keep \in BOOLEAN, state \in {"Failed", "Applied"} : Return(keep) /\ Put(cur, WithState(Op, state))
    BY <1>2 DEF NoFill, RecordApplied, FailExit, Halt
  <2>3. ops'[cur].state # "Pending"
    <3>1. cur \in DOMAIN ops /\ Op \in OpRecord
      BY <2>1, CurIs
    <3>2. WithState(Op, state).state = state
      BY <3>1, WithStateIs DEF OperationState
    <3> QED
      BY <2>2, <3>1, <3>2 DEF Put
  <2>4. InStep
    <3>1. CASE pc = "fail"
      BY <3>1 DEF InStep
    <3>2. CASE pc = "settle"
      BY <1>2, <3>2, KindIs DEF InStep, NoFill, RecordApplied, FailExit, Halt
    <3>3. CASE pc = "apply"
      <4>1. ~ bad
        BY <1>2, <3>3 DEF NoFill, RecordApplied, FailExit, Halt
      <4>2. InEntry \/ InExit
        BY <2>1, CurIs DEF InEntry, InExit
      <4> QED
        BY <3>3, <4>1, <4>2 DEF InStep, FinalInv, EntryPlaces
    <3> QED
      BY <2>1, <3>1, <3>2, <3>3
  <2>5. OthersStay
    BY <2>2, PutOthers
  <2>6. Live => nonce' = LatestCount
    BY <2>1, <2>4 DEF LiveOK, NonceAt
  <2> QED
    BY <2>1, <2>2, <2>3, <2>5, <2>6, ReturnLive
<1> QED
  BY <1>1, <1>2

LEMMA BeginExitLive ==
  ASSUME ExecInv, LiveOK, NEW j \in queue, BeginExit(j)
  PROVE  LiveOK'
<1>1. CASE stop'
  BY <1>1, HaltsLive
<1>2. CASE ~ stop'
  <2>1. ~ PendingSubject(ops, "Exit", j.pos)
    BY <1>2 DEF BeginExit, Halt
  <2> DEFINE op == [kind |-> "Exit", subject |-> j.pos, state |-> "Pending", txs |-> <<>>]
  <2>2. /\ pc = "idle" /\ ops' = Append(ops, op) /\ cur' = Len(ops) + 1 /\ pc' = "trade"
        /\ UNCHANGED <<nonce, mined, stop>>
    BY <2>1 DEF BeginExit, chainVars
  <2> HIDE DEF op
  <2> QED
    BY <2>2, BeginLive
<1> QED
  BY <1>1, <1>2

LEMMA StageSendLive ==
  ASSUME ExecInv, Receipts, FinalInv, LiveOK, NEW step \in {"approval", "sell"}, StageSend(step)
  PROVE  LiveOK'
<1> DEFINE kind == IF step = "approval" THEN "approve" ELSE "sell"
           payload == [kind |-> kind, token |-> Pos(job.pos).token, qty |-> job.qty]
<1>1. pc = "trade" /\ pc \notin Quiet /\ pc \notin Boot /\ InExit /\ Op.kind = "Exit"
  BY KindIs DEF StageSend, Quiet
<1>2. payload \in [kind : Kind, token : Token, qty : Nat]
  <2>1. kind \in Kind
    BY DEF Kind
  <2>2. Pos(job.pos).token \in Token /\ job.qty \in Nat
    BY <1>1, JobIs DEF Position, Job
  <2> HIDE DEF kind
  <2> QED
    BY <2>1, <2>2
<1>3. step \in Step /\ 1 \in Nat /\ cur' = cur /\ stop' = stop /\ pc' = "send" /\ Reserve(step, 1, payload)
  BY DEF Step, StageSend
<1> HIDE DEF payload
<1>4. OthersStay /\ nonce' = nonce + 1 /\ mined' = mined
  BY <1>3, PutOthers DEF Reserve
<1>5. Last' = Last + 1 /\ Op'.txs[Last'].nonce = nonce
  <2>1. Last \in Nat /\ nonce \in Nat
    BY <1>1, CurIs DEF ExecInv, Scalars
  <2>2. Len(ops'[cur].txs) = Last + 1 /\ \A i \in 1 .. 1 : ops'[cur].txs[Last + i] = Staged(step, nonce + i - 1)
    BY <1>1, <1>2, <1>3, ReserveKeeps
  <2>3. ops'[cur].txs[Last + 1] = Staged(step, nonce)
    <3>1. 1 \in 1 .. 1 /\ nonce + 1 - 1 = nonce
      BY <2>1
    <3>2. ops'[cur].txs[Last + 1] = Staged(step, nonce + 1 - 1)
      BY <2>2, <3>1
    <3> QED
      BY <3>1, <3>2
  <2>4. Op' = ops'[cur]
    BY <1>3 DEF Op
  <2> QED
    BY <2>2, <2>3, <2>4 DEF Last, Staged
<1>6. ~ Landed(<<cur, Last>>)'
  <2>1. PICK c, l : c = cur /\ l = Last + 1
    OBVIOUS
  <2>2. ~ Landed(<<c, l>>)
    <3>1. Last + 1 \in Nat /\ Last + 1 > Last
      BY <1>1, CurIs
    <3>2. Never(<<cur, Last + 1>>)
      BY <1>1, <3>1, FreshNever
    <3> QED
      BY <2>1, <3>2 DEF Never
  <2>3. ~ Landed(<<c, l>>)'
    BY <1>4, <2>2 DEF Landed
  <2> QED
    BY <1>3, <1>5, <2>1, <2>3
<1>7. Live => NonceAt'
  BY <1>1, <1>3, <1>4, <1>5, <1>6 DEF LiveOK, NonceAt, InStep, OneOut, LatestCount
<1> QED
  BY <1>1, <1>3, <1>4, <1>7, GoLive

LEMMA SendLive ==
  ASSUME ExecInv, LiveOK, Send
  PROVE  LiveOK'
<1>1. pc = "send" /\ pc' = "answer" /\ UNCHANGED <<ops, nonce, stop, cur, mined>>
  BY DEF Send, Transmit
<1>2. NonceAt => NonceAt'
  <2>1. OneOut /\ ~ InStep' /\ pc' # "armed" /\ Op' = Op /\ Last' = Last
    BY <1>1, KindIs DEF OneOut, InStep, InExit, Op, Last
  <2>2. LatestCount' = LatestCount /\ (Landed(<<cur, Last>>)' <=> Landed(<<cur, Last>>))
    BY <1>1, <2>1 DEF LatestCount, Landed
  <2> QED
    BY <1>1, <2>1, <2>2 DEF NonceAt
<1> QED
  BY <1>1, <1>2, GoLive, SameOthers DEF LiveOK, Boot

LEMMA RecordSendLive ==
  ASSUME ExecInv, FinalInv, LiveOK, RecordSend
  PROVE  LiveOK'
<1>1. /\ pc = "answer" /\ pc \notin Quiet /\ pc \notin Boot /\ InExit /\ OneOut
      /\ UNCHANGED <<cur, out, bad, mined, stop>>
      /\ pc' = IF out[Last].ans = "accepted" THEN "confirm" ELSE "unwind"
  BY KindIs DEF RecordSend, Quiet, OneOut, chainVars
<1>2. /\ cur \in DOMAIN ops /\ Op = ops[cur] /\ Op \in OpRecord
      /\ DOMAIN Op.txs = 1 .. Last /\ Last \in Nat
  BY <1>1, CurIs
<1>3. DOMAIN out = {Last} /\ Last \in DOMAIN Op.txs /\ out[Last].ans \in Answered
  <2>1. DOMAIN out = {Last} /\ DOMAIN out \subseteq DOMAIN Op.txs /\ \A k \in DOMAIN out : out[k].ans \in Answered
    BY <1>1 DEF ExecInv, AnswersOK
  <2> QED
    BY <2>1
<1>4. CASE out[Last].ans = "refused"
  <2>1. PICK state \in {"Rejected", "Unresolved"} : Put(cur, Mark(Op, Last, state))
    BY <1>4 DEF RecordSend
  <2>2. ASSUME Live
        PROVE  nonce' = LatestCount
    <3>1. Never(<<cur, Last>>)
      BY <1>1, <1>3, <1>4 DEF FinalInv, AnswersFinal, AnswerFinal
    <3>2. nonce = Op.txs[Last].nonce + 1 /\ LatestCount = Op.txs[Last].nonce
      BY <1>1, <2>2, <3>1 DEF LiveOK, NonceAt, Never
    <3>3. nonce' = Rewound(Op.txs[Last].nonce, 1)
      BY <1>4 DEF RecordSend
    <3> QED
      BY <3>2, <3>3 DEF Rewound
  <2>3. pc' = "unwind"
    BY <1>1, <1>4
  <2>4. Live => NonceAt'
    BY <1>1, <2>2, <2>3 DEF NonceAt, OneOut, LatestCount
  <2> QED
    BY <1>1, <2>1, <2>4, PutOthers, GoLive
<1>5. CASE out[Last].ans # "refused"
  <2>1. nonce' = nonce /\ Put(cur, Mark(Op, Last, AnswerState(out[Last].ans)))
    BY <1>5 DEF RecordSend
  <2>2. PICK op : op = Mark(Op, Last, AnswerState(out[Last].ans))
    OBVIOUS
  <2>3. AnswerState(out[Last].ans) \in TxState
    BY <1>3, <1>5 DEF AnswerState, Answered, TxState
  <2>4. Marked(op, Op, Last, AnswerState(out[Last].ans))
    BY <1>2, <1>3, <2>2, <2>3, MarkIs
  <2>5. Op' = op /\ Last' = Last /\ Op'.txs[Last].nonce = Op.txs[Last].nonce /\ Op'.state = "Pending"
        /\ Op'.txs[Last].state = AnswerState(out[Last].ans) /\ Last \in DOMAIN Op'.txs
    <3>1. Op' = op
      BY <1>1, <1>2, <2>1, <2>2 DEF Put, Op
    <3>2. Op.state = "Pending"
      BY <1>1 DEF FinalInv, CurOpen
    <3> QED
      BY <1>3, <2>4, <3>1, <3>2 DEF Marked, Rewritten, Last
  <2>6. CASE out[Last].ans = "accepted"
    <3>1. pc' = "confirm"
      BY <1>1, <2>6
    <3>2. LatestCount' = LatestCount /\ (Landed(<<cur, Last>>)' <=> Landed(<<cur, Last>>))
      BY <1>1, <2>5 DEF LatestCount, Landed
    <3>3. Live => NonceAt'
      BY <1>1, <2>1, <2>5, <3>1, <3>2 DEF LiveOK, NonceAt, InStep
    <3> QED
      BY <1>1, <2>1, <3>3, PutOthers, GoLive
  <2>7. CASE out[Last].ans = "error"
    <3>1. pc' = "unwind"
      BY <1>1, <2>7
    <3>2. RequiresRecovery(Op')
      BY <2>5, <2>7 DEF RequiresRecovery, HasAmbiguous, AnswerState, AmbiguousState
    <3>3. NonceAt'
      BY <3>1, <3>2 DEF NonceAt, InStep, OneOut
    <3> QED
      BY <1>1, <2>1, <3>3, PutOthers, GoLive
  <2> QED
    BY <1>3, <1>5, <2>6, <2>7 DEF Answered
<1> QED
  BY <1>4, <1>5

-----------------------------------------------------------------------------
(* The startup leaves nothing aside *)

\* Only the startup, and the chain under it, end in the startup.
LEMMA BootSteps ==
  ASSUME Next, pc' = "boot"
  PROVE  Startup \/ Environment
<1>1. ~ Entries
  BY DEF Entries, BeginEntry, PresignFails, Presign, Unsent, FireBurst, RecordAnswer, RefreshNonce,
     NoFill, OpenPosition, Return
<1>2. ~ Exits
  <2>1. ~ Unwind
    <3>1. CASE RequiresRecovery(Op)
      BY <3>1 DEF Unwind, Return
    <3>2. CASE ~ RequiresRecovery(Op) /\ OperationGas(Op) > 0
      BY <3>2 DEF Unwind
    <3>3. CASE ~ RequiresRecovery(Op) /\ ~ OperationGas(Op) > 0
      BY <3>3 DEF Unwind
    <3> QED
      BY <3>1, <3>2, <3>3
  <2>2. ~ \E p \in positions : \E qty \in 1 .. p.held : DecideExit(p, qty)
    BY DEF DecideExit, Running, Boot
  <2>3. ~ \/ \E j \in queue : BeginExit(j)
          \/ \E step \in {"approval", "sell"} : StageSend(step)
          \/ TradeFails \/ Send \/ RecordSend \/ BookExit \/ BookFails \/ FailExit
    BY DEF BeginExit, StageSend, TradeFails, Send, RecordSend, BookExit, BookFails, FailExit, Return
  <2> QED
    BY <2>1, <2>2, <2>3 DEF Exits
<1>3. ~ Both
  BY DEF Both, Confirm, RecordReceipts, Flush, FlushFails, RecordApplied, Return
<1>4. ~ Session
  BY DEF Session, CanonicalCheck, StopRequest, FlushIfDue, Shutdown, Crash, Age, ProcessEnds, Running, Boot
<1> QED
  BY <1>1, <1>2, <1>3, <1>4 DEF Next

LEMMA RestartTodo ==
  ASSUME Restart
  PROVE  TodoOK'
<1>1. ops' = ops /\ rec'.todo = {o \in DOMAIN ops : NeedsRecovery(ops[o], LatestCount)}
  BY DEF Restart, NoRec
<1> QED
  BY <1>1 DEF TodoOK, NeedsRecovery

LEMMA RefreshTxTodo ==
  ASSUME ExecInv, TodoOK, RefreshTx
  PROVE  TodoOK'
<1>0. Recovering /\ pc = "boot" /\ pc' = pc
  BY DEF RefreshTx, Recovering
<1>1. Target \in DOMAIN ops /\ rec \in Recovery /\ Current \in OpRecord /\ Current = ops[Target]
  BY <1>0, TargetIs DEF ExecInv, Scalars, Current
<1>2. rec'.todo = rec.todo /\ rec'.blocked = rec.blocked
  <2>1. rec' = [rec EXCEPT !.k = @ + 1]
    BY DEF RefreshTx
  <2> QED
    BY <1>1, <2>1 DEF Recovery
<1>3. UNCHANGED ops \/ \E txs : Put(Target, [Current EXCEPT !.txs = txs])
  <2>1. \E k, state, block, gas : UNCHANGED ops \/ Put(Target, SetRecord(Current, k, state, block, gas))
    BY DEF RefreshTx, Drop, Mark, Resolve
  <2>2. PICK k, state, block, gas : UNCHANGED ops \/ Put(Target, SetRecord(Current, k, state, block, gas))
    BY <2>1
  <2>3. \E txs : SetRecord(Current, k, state, block, gas) = [Current EXCEPT !.txs = txs]
    BY <1>1 DEF SetRecord, OpRecord
  <2> QED
    BY <2>2, <2>3
<1>4. DOMAIN ops' = DOMAIN ops /\ \A o \in DOMAIN ops : ops'[o].state = ops[o].state
  <2>1. \A txs : [Current EXCEPT !.txs = txs].state = Current.state
    BY <1>1 DEF OpRecord
  <2> QED
    BY <1>1, <1>3, <2>1 DEF Put
<1> QED
  BY <1>0, <1>2, <1>4 DEF TodoOK

LEMMA NextBlocked ==
  ASSUME rec \in Recovery, NEW blocked, NextTarget(blocked)
  PROVE  rec'.todo = rec.todo \ {Target} /\ (~ rec'.blocked => ~ rec.blocked /\ ~ blocked)
<1> DEFINE todo == rec.todo \ {Target}
           block == rec.blocked \/ blocked
<1>1. rec' = [rec EXCEPT !.todo = todo, !.k = 1, !.booked = FALSE, !.blocked = block]
  BY DEF NextTarget
<1> HIDE DEF todo, block
<1>2. rec'.todo = todo /\ rec'.blocked = block
  BY <1>1 DEF Recovery
<1> QED
  BY <1>2 DEF todo, block

LEMMA VerdictTodo ==
  ASSUME ExecInv, TodoOK, Recovering, NEW blocked, NEW state, Verdict(blocked, state),
         ~ blocked => state \in {"Applied", "Failed"}
  PROVE  TodoOK'
<1>1. Target \in DOMAIN ops /\ Current = ops[Target] /\ Current \in OpRecord /\ rec \in Recovery /\ pc = "boot"
  BY TargetIs DEF ExecInv, Scalars, Recovering, Current
<1>2. rec'.todo = rec.todo \ {Target} /\ (~ rec'.blocked => ~ rec.blocked /\ ~ blocked)
  BY <1>1, NextBlocked DEF Verdict
<1>3. CASE blocked
  BY <1>2, <1>3 DEF TodoOK
<1>4. CASE ~ blocked
  <2>1. state \in {"Applied", "Failed"} /\ Put(Target, WithState(Current, state))
    BY <1>4 DEF Verdict
  <2>2. WithState(Current, state).state = state
    BY <1>1, <2>1, WithStateIs DEF OperationState
  <2>3. /\ DOMAIN ops' = DOMAIN ops /\ ops'[Target].state # "Pending"
        /\ \A o \in DOMAIN ops \ {Target} : ops'[o] = ops[o]
    BY <1>1, <2>1, <2>2 DEF Put
  <2> QED
    BY <1>1, <1>2, <2>3 DEF TodoOK
<1> QED
  BY <1>3, <1>4

LEMMA RecoverAppliedTodo ==
  ASSUME ExecInv, GasInv, TodoOK, RecoverApplied
  PROVE  TodoOK'
<1>1. /\ Recovering /\ pc = "boot" /\ ops' = ops /\ rec.snap[Target].state = "Applied"
      /\ \E blocked : NextTarget(blocked)
  BY DEF RecoverApplied, Recovering
<1>2. rec'.todo = rec.todo \ {Target} /\ (~ rec'.blocked => ~ rec.blocked)
  BY <1>1, NextBlocked DEF ExecInv, Scalars
<1>3. ops[Target].state = "Applied"
  BY <1>1, TargetIs DEF GasInv, BootKept
<1> QED
  BY <1>1, <1>2, <1>3 DEF TodoOK

LEMMA BookedTodo ==
  ASSUME ExecInv, TodoOK, Recovering, Booked
  PROVE  TodoOK'
<1>1. pc = "boot" /\ rec \in Recovery
  BY DEF ExecInv, Scalars, Recovering
<1>2. rec'.todo = rec.todo /\ rec'.blocked = rec.blocked /\ ops' = ops
  BY <1>1 DEF Booked, Recovery
<1> QED
  BY <1>1, <1>2 DEF TodoOK

LEMMA EveryTodo ==
  ASSUME ExecInv, GasInv, TodoOK, [Next]_vars
  PROVE  TodoOK'
<1>1. CASE pc' # "boot"
  BY <1>1 DEF TodoOK
<1>2. ASSUME UNCHANGED <<pc, rec, ops>>
      PROVE  TodoOK'
  BY <1>2 DEF TodoOK
<1>3. CASE Startup /\ pc' = "boot"
  <2>1. CASE RecoverEntry \/ RecoverExit \/ RecordBooked
    <3>1. Recovering /\ \E blocked, state : Verdict(blocked, state) /\ (~ blocked => state \in {"Applied", "Failed"})
      BY <2>1 DEF RecoverEntry, RecoverExit, RecordBooked, Recovered
    <3> QED
      BY <3>1, VerdictTodo
  <2>2. CASE RecoverFill \/ RecoverSale \/ RecoverGas
    <3>1. Recovering /\ (Booked \/ Verdict(TRUE, "Pending"))
      BY <2>2 DEF RecoverFill, RecoverSale, RecoverGas, Recovered
    <3> QED
      BY <3>1, BookedTodo, VerdictTodo
  <2>3. ~ BootFails /\ ~ Start
    BY <1>3 DEF BootFails, ProcessEnds, Start
  <2> QED
    BY <1>3, <2>1, <2>2, <2>3, RestartTodo, RefreshTxTodo, RecoverAppliedTodo DEF Startup
<1>4. CASE Environment
  BY <1>2, <1>4 DEF Environment, processVars, memVars
<1>5. CASE UNCHANGED vars
  BY <1>2, <1>5 DEF vars, memVars
<1> QED
  BY <1>1, <1>3, <1>4, <1>5, BootSteps

-----------------------------------------------------------------------------
LEMMA StartLive ==
  ASSUME ExecInv, Receipts, FinalInv, TodoOK, Start
  PROVE  LiveOK'
<1>1. pc = "boot" /\ pc' = "idle" /\ nonce' = PendingCount /\ UNCHANGED <<ops, cur, mined>>
  BY DEF Start, chainVars
<1>2. \A o \in DOMAIN ops : ops[o].state # "Pending"
  BY DEF Start, TodoOK
<1>3. cur \notin DOMAIN ops
  <2>1. cur = 0 /\ ops \in Seq(OpRecord)
    BY <1>1 DEF ExecInv, OwnerOK, Quiet, Boot, JournalTyped
  <2> QED
    BY <2>1
<1>4. PendingCount = LatestCount
  BY <1>2, <1>3, NothingOut DEF OnlyCur
<1>5. OnlyCur'
  BY <1>1, <1>2 DEF OnlyCur
<1>6. NonceAt'
  BY <1>1, <1>4 DEF NonceAt, OneOut, LatestCount
<1> QED
  BY <1>5, <1>6 DEF LiveOK

LEMMA EveryLive ==
  ASSUME ExecInv, ExecInv', Receipts, StepOK, FinalInv, NonceInv, MaxReorgs = 0, [Next]_vars
  PROVE  LiveOK'
<1>0. LiveOK /\ TodoOK
  BY DEF NonceInv
<1>1. CASE Entries
  <2>1. CASE PresignFails
    BY <2>1, HaltsLive DEF PresignFails, Halt
  <2>2. CASE RefreshNonce
    BY <1>0, <2>2, RefreshNonceLive
  <2> QED
    BY <1>0, <1>1, <2>1, <2>2, BeginEntryLive, PresignLive, UnsentLive, BurstLive, DoneLive, OpenPositionLive
       DEF Entries
<1>2. CASE Exits
  <2>1. CASE \E p \in positions : \E qty \in 1 .. p.held : DecideExit(p, qty)
    BY <1>0, <2>1, SameLive DEF DecideExit, chainVars
  <2>2. CASE \E step \in {"approval", "sell"} : StageSend(step)
    BY <1>0, <2>2, StageSendLive
  <2> QED
    BY <1>0, <1>2, <2>1, <2>2, BeginExitLive, ExitGoesLive, SendLive, RecordSendLive, UnwindLive, DoneLive
       DEF Exits
<1>3. CASE Both
  <2>1. CASE FlushFails
    BY <2>1, HaltsLive DEF FlushFails, Halt
  <2> QED
    BY <1>0, <1>3, <2>1, ConfirmLive, RecordReceiptsLive, FlushLive, DoneLive DEF Both
<1>4. CASE Session
  <2>1. CASE CanonicalCheck \/ StopRequest \/ Shutdown \/ Crash
    BY <2>1, HaltsLive DEF CanonicalCheck, StopRequest, Shutdown, Crash, ProcessEnds, Halt, Boot
  <2>2. CASE FlushIfDue \/ Age
    BY <1>0, <2>2, SameLive DEF FlushIfDue, Age, memVars, chainVars
  <2> QED
    BY <1>4, <2>1, <2>2 DEF Session
<1>5. CASE Startup
  <2>1. CASE Start
    BY <1>0, <2>1, StartLive
  <2>2. CASE ~ Start
    <3>1. pc' \in Boot
      BY <1>5, <2>2 DEF Startup, Restart, RefreshTx, RecoverApplied, RecoverEntry, RecoverFill, RecoverExit,
         RecoverSale, RecoverGas, RecordBooked, BootFails, Recovered, Recovering, Verdict, Booked, ProcessEnds, Boot
    <3> QED
      BY <3>1, HaltsLive
  <2> QED
    BY <2>1, <2>2
<1>6. CASE Environment
  BY <1>0, <1>6, EnvironmentLive
<1>7. CASE UNCHANGED vars
  BY <1>0, <1>7, SameLive DEF vars, memVars, chainVars
<1> QED
  BY <1>1, <1>2, <1>3, <1>4, <1>5, <1>6, <1>7 DEF Next

LEMMA InitNonce ==
  ASSUME Init
  PROVE  NonceInv
BY DEF Init, NonceInv, LiveOK, Live, Running, Boot, TodoOK

\* Whenever a running session could begin an operation, its nonce is the chain's
\* and none of the wallet's transactions is still on its way: what an aborted
\* burst, a refusal, a burst's refresh and a startup each make of the nonce.
\* Without a reorg and with one route to the sequencer, as for FailuresAreFinal.
THEOREM NonceStaysInStep ==
  ASSUME MaxReorgs = 0, Fallback = FALSE
  PROVE  Spec => []NonceInStep
<1>1. Init => ExecInv /\ Receipts /\ GasInv /\ FinalInv /\ NonceInv
  BY InitExec, InitGas, InitFinal, InitNonce
<1>2. (ExecInv /\ Receipts /\ GasInv /\ FinalInv /\ NonceInv) /\ [Next]_vars
        => (ExecInv /\ Receipts /\ GasInv /\ FinalInv /\ NonceInv)'
  <2> SUFFICES ASSUME ExecInv, Receipts, GasInv, FinalInv, NonceInv, [Next]_vars
               PROVE  (ExecInv /\ Receipts /\ GasInv /\ FinalInv /\ NonceInv)'
    OBVIOUS
  <2>1. ExecInv' /\ Receipts' /\ GasInv' /\ FinalInv'
    BY NextExec, NextGas, NextFinal
  <2>2. LiveOK' /\ TodoOK'
    BY <2>1, EveryStep, EveryLive, EveryTodo DEF NonceInv
  <2> QED
    BY <2>1, <2>2 DEF NonceInv
<1>3. ExecInv /\ Receipts /\ FinalInv /\ NonceInv => NonceInStep
  <2> SUFFICES ASSUME ExecInv, Receipts, FinalInv, NonceInv, pc = "idle", ~ stop
               PROVE  nonce = PendingCount /\ flight = {} /\ pool = {}
    BY DEF NonceInStep
  <2>1. OnlyCur /\ NonceAt /\ InStep
    BY DEF NonceInv, LiveOK, Live, Running, Boot, InStep
  <2> QED
    BY <2>1, StillAt DEF NonceAt
<1> QED
  BY <1>1, <1>2, <1>3, PTL DEF Spec

-----------------------------------------------------------------------------
(* The ledger.  A position holds what the transactions it names have moved;   *)
(* what an operation that was applied has moved, a position names.            *)

\* An exit is of a position, and a position is an entry's; a transaction moves the
\* token of its operation, and the entries buy.
TokensOK ==
  /\ \A o \in DOMAIN ops : ops[o].kind = "Exit" =>
       ops[o].subject[1] \in DOMAIN ops /\ ops[ops[o].subject[1]].kind = "Entry"
  /\ \A h \in DOMAIN signed :
       signed[h].token = TokenOf(h[1]) /\ (signed[h].kind = "buy" <=> ops[h[1]].kind = "Entry")
  /\ \A p \in positions \cup saved :
       p.token = ops[p.id[1]].subject /\ ops[p.id[1]].kind = "Entry"

\* Where the chain has the transactions a position names.
Spots(p) == {i \in DOMAIN mined : mined[i].tx = p.entry \/ mined[i].tx \in p.exits}
Effects == [i \in DOMAIN mined |-> Effect(mined[i])]

\* What it holds is what they moved, unless its entry bought twice.
PositionOK(p) ==
  /\ p.entry \in Bought(p.id[1])
  /\ \A h \in p.exits : Status(h)
  /\ Cardinality(Bought(p.id[1])) <= 1 => p.held = SumOf(Effects, Spots(p))

\* A position names what the operation did.
InBooks(ps, o) ==
  IF ops[o].kind = "Entry" THEN \E p \in ps : p.id[1] = o
  ELSE \E p \in ps : \E h \in p.exits : h[1] = o

AppliedBooked ==
  \A o \in DOMAIN ops : ops[o].state = "Applied" => InBooks(positions, o) /\ InBooks(saved, o)

BookPlaces ==
  /\ pc \in {"flush", "apply"} => InBooks(positions, cur)
  /\ pc = "apply" => InBooks(saved, cur)
  /\ pc = "book" => Status(<<cur, Last>>)

BootPlaces ==
  /\ pc \in Boot => saved = positions
  /\ pc = "boot" /\ rec.booked /\ (Current.kind = "Entry" \/ Sale # {}) => InBooks(positions, Target)

-----------------------------------------------------------------------------
(* A sale fits the position it is of, in memory and on disk, until it is      *)
(* booked there.                                                              *)

Ids(ps) == {p.id : p \in ps}

\* The disk is behind the memory: it may lack a position, or some sales of it.
Behind ==
  /\ Ids(saved) \subseteq Ids(positions)
  /\ \A p \in saved, q \in positions : p.id = q.id => q.held <= p.held
  /\ \A p \in positions : p.id[2] = "recover" => p.id \in Ids(saved)

OnePending ==
  \A o, r \in DOMAIN ops :
    /\ ops[o].kind = "Exit" /\ ops[o].state = "Pending"
    /\ ops[r].kind = "Exit" /\ ops[r].state = "Pending"
    /\ ops[o].subject = ops[r].subject
    => o = r

SaleFits(p) ==
  \A h \in DOMAIN signed :
    /\ h[1] \in ExitsOf(p) /\ ops[h[1]].state = "Pending" /\ signed[h].kind = "sell"
    /\ ~ \E g \in p.exits : g[1] = h[1]
    => signed[h].qty <= p.held

\* The sale under way is of what the exit in hand read.
JobQty ==
  InExit => \A h \in DOMAIN signed : h[1] = cur /\ signed[h].kind = "sell" => signed[h].qty = job.qty

\* An exit is of a position that was open: the live session's of an entry that is
\* past its burst, a recovered one of the disk.
EntryFresh ==
  InEntry /\ pc \notin {"flush", "apply"} =>
    \A o \in DOMAIN ops : ops[o].kind = "Exit" => ops[o].subject[1] # cur
RecoverOnDisk ==
  \A o \in DOMAIN ops :
    ops[o].kind = "Exit" /\ ops[o].subject[2] = "recover" => ops[o].subject \in Ids(saved)

LedgerInv ==
  /\ TokensOK /\ (\A p \in positions \cup saved : PositionOK(p) /\ SaleFits(p))
  /\ AppliedBooked /\ BookPlaces /\ BootPlaces
  /\ Behind /\ OnePending /\ JobQty /\ EntryFresh /\ RecoverOnDisk

-----------------------------------------------------------------------------
(* What the invariant says of a token whose operations are all decided *)

SpotsOf(t) == {i \in DOMAIN mined : signed[mined[i].tx].token = t}

LEMMA BalanceSum ==
  ASSUME NEW t
  PROVE  Balance(t) = SumOf(Effects, SpotsOf(t))
<1> DEFINE S == SpotsOf(t)
           L(g) == [s \in SUBSET S |->
                      IF s = {} THEN 0
                      ELSE Effect(mined[CHOOSE x \in s : TRUE]) + g[s \ {CHOOSE x \in s : TRUE}]]
           Q(g) == [s \in SUBSET S |->
                      IF s = {} THEN 0
                      ELSE Effects[CHOOSE x \in s : TRUE] + g[s \ {CHOOSE x \in s : TRUE}]]
<1>1. ASSUME NEW g
      PROVE  L(g) = Q(g)
  <2>1. \A s \in SUBSET S : s # {} =>
          Effects[CHOOSE x \in s : TRUE] = Effect(mined[CHOOSE x \in s : TRUE])
    BY DEF Effects, SpotsOf
  <2> QED
    BY <2>1
<1>2. (CHOOSE g : g = L(g)) = (CHOOSE g : g = Q(g))
  <2> HIDE DEF L, Q
  <2>1. \A g : g = L(g) <=> g = Q(g)
    BY <1>1
  <2> QED
    BY <2>1
<1>3. Balance(t) = (CHOOSE g : g = L(g))[S]
  BY DEF Balance, MapThenSumSet, MapThenFoldSet, SpotsOf
<1>4. SumOf(Effects, S) = (CHOOSE g : g = Q(g))[S]
  BY DEF SumOf, SumFcn, Chosen
<1> QED
  BY <1>2, <1>3, <1>4

HeldBy(ps) == [p \in ps |-> p.held]
OfToken(ps, t) == {p \in ps : p.token = t}

LEMMA HeldSum ==
  ASSUME NEW ps, NEW t
  PROVE  Held(ps, t) = SumOf(HeldBy(ps), OfToken(ps, t))
<1> DEFINE S == OfToken(ps, t)
           L(g) == [s \in SUBSET S |->
                      IF s = {} THEN 0
                      ELSE (CHOOSE x \in s : TRUE).held + g[s \ {CHOOSE x \in s : TRUE}]]
           Q(g) == [s \in SUBSET S |->
                      IF s = {} THEN 0
                      ELSE HeldBy(ps)[CHOOSE x \in s : TRUE] + g[s \ {CHOOSE x \in s : TRUE}]]
<1>1. ASSUME NEW g
      PROVE  L(g) = Q(g)
  <2>1. \A s \in SUBSET S : s # {} =>
          HeldBy(ps)[CHOOSE x \in s : TRUE] = (CHOOSE x \in s : TRUE).held
    BY DEF HeldBy, OfToken
  <2> QED
    BY <2>1
<1>2. (CHOOSE g : g = L(g)) = (CHOOSE g : g = Q(g))
  <2> HIDE DEF L, Q
  <2>1. \A g : g = L(g) <=> g = Q(g)
    BY <1>1
  <2> QED
    BY <2>1
<1>3. Held(ps, t) = (CHOOSE g : g = L(g))[S]
  BY DEF Held, MapThenSumSet, MapThenFoldSet, OfToken
<1>4. SumOf(HeldBy(ps), S) = (CHOOSE g : g = Q(g))[S]
  BY DEF SumOf, SumFcn, Chosen
<1> QED
  BY <1>2, <1>3, <1>4

LEMMA MinedIn ==
  ASSUME ChainTyped, NEW i \in DOMAIN mined
  PROVE  mined[i].tx \in DOMAIN signed /\ mined[i].ok \in BOOLEAN /\ i \in Nat
<1>1. mined \in Seq([tx : DOMAIN signed, ok : BOOLEAN, fork : Nat])
  BY DEF ChainTyped
<1>2. mined[i] \in [tx : DOMAIN signed, ok : BOOLEAN, fork : Nat] /\ i \in Nat
  BY <1>1, ElementIs
<1> QED
  BY <1>2

\* A transaction has one place on the chain.
LEMMA HeightIs ==
  ASSUME ChainTyped, MinedInOrder, NEW i \in DOMAIN mined
  PROVE  /\ Height(mined[i].tx) = i /\ Landed(mined[i].tx) /\ Status(mined[i].tx) = mined[i].ok
         /\ mined[i].tx \in DOMAIN signed
<1>1. \E j \in DOMAIN mined : mined[j].tx = mined[i].tx
  OBVIOUS
<1>2. Height(mined[i].tx) \in DOMAIN mined /\ mined[Height(mined[i].tx)].tx = mined[i].tx
  BY <1>1 DEF Height
<1>3. Height(mined[i].tx) \in Nat /\ i \in Nat
  BY <1>2, ElementIs DEF ChainTyped
<1>4. Nonce(mined[i].tx) = Height(mined[i].tx) - 1 /\ Nonce(mined[i].tx) = i - 1
  BY <1>2 DEF MinedInOrder
<1>5. Height(mined[i].tx) = i
  BY <1>3, <1>4
<1>6. mined[i].tx \in DOMAIN signed
  BY MinedIn
<1> QED
  BY <1>1, <1>5, <1>6 DEF Landed, Status

LEMMA EffectIs ==
  ASSUME ChainTyped, NEW i \in DOMAIN mined
  PROVE  /\ Effects[i] = Effect(mined[i]) /\ Effects[i] \in Int
         /\ mined[i].ok /\ signed[mined[i].tx].kind = "buy" => Effects[i] = Lot
         /\ mined[i].ok /\ signed[mined[i].tx].kind = "sell" => Effects[i] = - signed[mined[i].tx].qty
         /\ Effects[i] # 0 => mined[i].ok /\ signed[mined[i].tx].kind \in {"buy", "sell"}
<1>1. Effects[i] = Effect(mined[i])
  BY DEF Effects
<1>2. mined[i].tx \in DOMAIN signed
  BY MinedIn
<1>3. signed[mined[i].tx].qty \in Nat
  BY <1>2 DEF ChainTyped, SignedTx
<1>4. Lot \in Nat
  BY ChainAssumption
<1> QED
  BY <1>1, <1>3, <1>4 DEF Effect

LEMMA BooksFinite ==
  ASSUME JournalTyped, NEW ps, Books(ps)
  PROVE  IsFiniteSet(ps)
<1> DEFINE f == [p \in ps |-> p.id[1]]
<1>1. DOMAIN ops = 1 .. Len(ops) /\ Len(ops) \in Nat
  BY DEF JournalTyped
<1>2. f \in [ps -> 1 .. Len(ops)] /\ \A p, q \in ps : f[p] = f[q] => p = q
  BY <1>1 DEF Books
<1>3. f \in Injection(ps, 1 .. Len(ops))
  BY <1>2 DEF Injection, IsInjective
<1>4. IsFiniteSet(1 .. Len(ops))
  BY <1>1, FS_Interval
<1> QED
  BY <1>3, <1>4, FS_Injection

LEMMA OneBuy ==
  ASSUME ChainTyped, NEW o, Cardinality(Bought(o)) <= 1, NEW g \in Bought(o), NEW h \in Bought(o)
  PROVE  g = h
<1> DEFINE B == Bought(o)
<1>1. B \in SUBSET DOMAIN signed /\ IsFiniteSet(DOMAIN signed)
  BY DEF Bought, ChainTyped
<1> HIDE DEF B
<1>2. IsFiniteSet(B) /\ Cardinality(B) \in Nat
  BY <1>1, FS_Subset, FS_CardinalityType
<1>3. g \in B /\ h \in B /\ Cardinality(B) <= 1
  BY DEF B
<1>4. Cardinality(B) # 0
  BY <1>2, <1>3, FS_EmptySet
<1>5. \E x : B = {x}
  BY <1>2, <1>3, <1>4, FS_Singleton
<1> QED
  BY <1>3, <1>5

\* What a position is of, and what it names.
LEMMA NamesAre ==
  ASSUME ExecInv, GasInv, TokensOK, NEW p \in positions \cup saved, PositionOK(p)
  PROVE  /\ p.id[1] \in DOMAIN ops /\ ops[p.id[1]].kind = "Entry" /\ TokenOf(p.id[1]) = p.token
         /\ p.entry \in DOMAIN signed /\ p.entry[1] = p.id[1] /\ Landed(p.entry) /\ Status(p.entry)
         /\ signed[p.entry].kind = "buy"
         /\ \A h \in p.exits : h[1] \in DOMAIN ops /\ ops[h[1]].kind = "Exit"
                               /\ ops[h[1]].subject = p.id /\ TokenOf(h[1]) = p.token
<1>1. p.id[1] \in DOMAIN ops /\ ops[p.id[1]].kind = "Entry" /\ TokenOf(p.id[1]) = p.token
  BY DEF TokensOK, TokenOf, ExecInv, Books
<1>2. /\ p.entry \in DOMAIN signed /\ p.entry[1] = p.id[1] /\ Landed(p.entry) /\ Status(p.entry)
      /\ signed[p.entry].kind = "buy"
  BY DEF PositionOK, Bought
<1>3. ASSUME NEW h \in p.exits
      PROVE  h[1] \in DOMAIN ops /\ ops[h[1]].kind = "Exit" /\ ops[h[1]].subject = p.id
             /\ TokenOf(h[1]) = p.token
  <2>1. h[1] \in ExitsOf(p)
    BY DEF GasInv, GasOK, PaidBy
  <2>2. h[1] \in DOMAIN ops /\ ops[h[1]].kind = "Exit" /\ ops[h[1]].subject = p.id
    BY <2>1 DEF ExitsOf
  <2>3. ops[p.id[1]].subject = p.token
    BY DEF TokensOK
  <2>4. TokenOf(h[1]) = ops[ops[h[1]].subject[1]].subject
    BY <2>2 DEF TokenOf
  <2>5. ops[h[1]].subject[1] = p.id[1]
    BY <2>2
  <2> QED
    BY <2>2, <2>3, <2>4, <2>5
<1> QED
  BY <1>1, <1>2, <1>3

LEMMA PartOf ==
  ASSUME ExecInv, GasInv, TokensOK, NEW p \in positions \cup saved, PositionOK(p)
  PROVE  Spots(p) \subseteq SpotsOf(p.token)
<1> SUFFICES ASSUME NEW i \in DOMAIN mined, mined[i].tx = p.entry \/ mined[i].tx \in p.exits
             PROVE  signed[mined[i].tx].token = p.token
  BY DEF Spots, SpotsOf
<1>1. mined[i].tx \in DOMAIN signed
  BY MinedIn DEF ExecInv
<1>2. signed[mined[i].tx].token = TokenOf(mined[i].tx[1])
  BY <1>1 DEF TokensOK
<1> QED
  BY <1>2, NamesAre

LEMMA Apart ==
  ASSUME ExecInv, GasInv, TokensOK, NEW ps \in {positions, saved}, NEW p \in ps, NEW q \in ps, p # q,
         PositionOK(p), PositionOK(q)
  PROVE  Spots(p) \cap Spots(q) = {}
<1> SUFFICES ASSUME NEW i \in Spots(p), i \in Spots(q)
             PROVE  FALSE
  OBVIOUS
<1> DEFINE h == mined[i].tx
<1>1. (h = p.entry \/ h \in p.exits) /\ (h = q.entry \/ h \in q.exits)
  BY DEF Spots
<1> HIDE DEF h
<1>2. p.id[1] # q.id[1] /\ p.id # q.id
  BY DEF ExecInv, Books
<1>3. /\ ops[p.entry[1]].kind = "Entry" /\ p.entry[1] = p.id[1]
      /\ \A g \in p.exits : ops[g[1]].kind = "Exit" /\ ops[g[1]].subject = p.id
  BY NamesAre
<1>4. /\ ops[q.entry[1]].kind = "Entry" /\ q.entry[1] = q.id[1]
      /\ \A g \in q.exits : ops[g[1]].kind = "Exit" /\ ops[g[1]].subject = q.id
  BY NamesAre
<1>5. CASE h = p.entry
  BY <1>1, <1>2, <1>3, <1>4, <1>5
<1>6. CASE h \in p.exits
  BY <1>1, <1>2, <1>3, <1>4, <1>6
<1> QED
  BY <1>1, <1>5, <1>6

\* Of an exit there is one sale, the last of its transactions.
LEMMA OneSale ==
  ASSUME ExecInv, Receipts, FinalInv, NEW g \in DOMAIN signed, NEW h \in DOMAIN signed, g[1] = h[1],
         signed[g].kind = "sell", signed[h].kind = "sell", ops[g[1]].kind = "Exit"
  PROVE  g = h
<1>0. PICK o \in DOMAIN ops : \E k \in DOMAIN ops[o].txs : g = <<o, k>>
  BY DEF Receipts, Journaled
<1>1. PICK k \in DOMAIN ops[o].txs : g = <<o, k>>
  BY <1>0
<1>2. PICK j \in DOMAIN ops[o].txs : h = <<o, j>>
  <2>1. PICK r \in DOMAIN ops : \E j \in DOMAIN ops[r].txs : h = <<r, j>>
    BY DEF Receipts, Journaled
  <2>2. r = o
    BY <1>1, <2>1
  <2> QED
    BY <2>1, <2>2
<1>4. TxFinal(o, ops[o], k) /\ TxFinal(o, ops[o], j)
  BY DEF FinalInv, JournalFinal, OpFinal
<1>5. ops[o].txs[k].step = "sell" /\ ops[o].txs[j].step = "sell"
  BY <1>1, <1>2, <1>4 DEF TxFinal
<1>6. ops[o].kind = "Exit"
  BY <1>1
<1>7. k = Len(ops[o].txs) /\ j = Len(ops[o].txs)
  BY <1>4, <1>5, <1>6 DEF TxFinal
<1> QED
  BY <1>1, <1>2, <1>7

\* What has moved tokens is of an operation that was applied, so it is in the books.
LEMMA Named ==
  ASSUME ExecInv, Receipts, GasInv, FinalInv, LedgerInv, NEW t \in Token,
         ~ PendingOn(t), ~ BoughtTwice(t), NEW i \in SpotsOf(t), Effects[i] # 0,
         NEW ps \in {positions, saved}
  PROVE  \E p \in ps : p.token = t /\ i \in Spots(p)
<1> DEFINE h == mined[i].tx
<1>0. ChainTyped /\ MinedInOrder /\ i \in DOMAIN mined /\ signed[h].token = t
  BY DEF ExecInv, Receipts, SpotsOf
<1>1. Landed(h) /\ Status(h) = mined[i].ok /\ h \in DOMAIN signed
  BY <1>0, HeightIs
<1>2. Status(h) /\ signed[h].kind \in {"buy", "sell"}
  BY <1>0, <1>1, EffectIs
<1> HIDE DEF h
<1>3a. PICK o \in DOMAIN ops : \E k \in DOMAIN ops[o].txs : h = <<o, k>>
  BY <1>1 DEF Receipts, Journaled
<1>3. PICK k \in DOMAIN ops[o].txs : h = <<o, k>>
  BY <1>3a
<1>4. TxFinal(o, ops[o], k)
  BY DEF FinalInv, JournalFinal, OpFinal
<1>5. TokenOf(o) = t /\ (signed[h].kind = "buy" <=> ops[o].kind = "Entry")
  BY <1>0, <1>1, <1>3 DEF LedgerInv, TokensOK
<1>6. ops[o].kind \in {"Entry", "Exit"} /\ ops[o].state \in OperationState
      /\ ops[o].txs[k].step \in Step
  <2>1. ops[o] \in OpRecord /\ ops[o].kind \in {"Entry", "Exit"} /\ ops[o].txs[k] \in TxRecord
    BY OpIs DEF ExecInv
  <2> QED
    BY <2>1 DEF OpRecord, TxRecord
<1>7. HasEffect(ops[o].txs[k])
  <2>1. CASE signed[h].kind = "buy"
    BY <2>1, <1>4, <1>5 DEF TxFinal, HasEffect
  <2>2. CASE signed[h].kind = "sell"
    BY <2>2, <1>3, <1>4 DEF TxFinal, HasEffect
  <2> QED
    BY <1>2, <2>1, <2>2
<1>8. Moves(<<o, k>>, ops[o].txs[k])
  BY <1>1, <1>2, <1>3, <1>7 DEF Moves
<1>9. ops[o].state # "Failed"
  BY <1>4, <1>8 DEF TxFinal
<1>10. ops[o].state # "Pending"
  BY <1>5 DEF PendingOn
<1>11. InBooks(ps, o)
  BY <1>6, <1>9, <1>10 DEF OperationState, LedgerInv, AppliedBooked
<1>12. TokensOK /\ \A p \in ps : p \in positions \cup saved /\ PositionOK(p)
  BY DEF LedgerInv
<1>13. CASE ops[o].kind = "Entry"
  <2>1. PICK p \in ps : p.id[1] = o
    BY <1>11, <1>13 DEF InBooks
  <2>2. p.entry \in Bought(o) /\ p.token = t
    BY <1>5, <1>12, <2>1, NamesAre DEF PositionOK
  <2>3. h \in Bought(o)
    BY <1>1, <1>2, <1>3, <1>5, <1>13 DEF Bought
  <2>4. Cardinality(Bought(o)) <= 1
    <3>1. ~ Cardinality(Bought(o)) > 1
      BY <1>5 DEF BoughtTwice
    <3>2. Cardinality(Bought(o)) \in Nat
      <4> DEFINE B == Bought(o)
      <4>1. B \in SUBSET DOMAIN signed /\ IsFiniteSet(DOMAIN signed)
        BY <1>0 DEF Bought, ChainTyped
      <4> HIDE DEF B
      <4>2. Cardinality(B) \in Nat
        BY <4>1, FS_Subset, FS_CardinalityType
      <4> QED
        BY <4>2 DEF B
    <3> QED
      BY <3>1, <3>2
  <2>5. p.entry = h
    BY <1>0, <2>2, <2>3, <2>4, OneBuy
  <2>6. i \in Spots(p)
    BY <1>0, <2>5 DEF Spots, h
  <2> QED
    BY <2>1, <2>2, <2>6
<1>14. CASE ops[o].kind = "Exit"
  <2>1. PICK p \in ps : \E g \in p.exits : g[1] = o
    BY <1>11, <1>14 DEF InBooks
  <2>2. PICK g \in p.exits : g[1] = o
    BY <2>1
  <2>3. p.token = t
    BY <1>5, <1>12, <2>2, NamesAre
  <2>4. Landed(g) /\ signed[g].kind = "sell" /\ g \in DOMAIN signed
    <3>1. Sold(g)
      BY <1>12 DEF FinalInv, SalesLanded
    <3> QED
      BY <3>1, <1>0, MinedIs DEF Sold
  <2>5. signed[h].kind = "sell" /\ h[1] = o
    BY <1>2, <1>3, <1>5, <1>14
  <2>6. g = h
    BY <1>1, <1>14, <2>2, <2>4, <2>5, OneSale
  <2>7. i \in Spots(p)
    BY <1>0, <2>6 DEF Spots, h
  <2> QED
    BY <2>3, <2>7
<1> QED
  BY <1>6, <1>13, <1>14

LEMMA LedgerAgrees ==
  ASSUME ExecInv, Receipts, GasInv, FinalInv, LedgerInv, NEW t \in Token,
         ~ PendingOn(t), ~ BoughtTwice(t), NEW ps \in {positions, saved}
  PROVE  Balance(t) = Held(ps, t)
<1> DEFINE S == SpotsOf(t)
           P == OfToken(ps, t)
           part == [p \in P |-> Spots(p)]
           f == Effects
           g == HeldBy(ps)
<1>0. ChainTyped /\ MinedInOrder /\ TokensOK /\ JournalTyped /\ Books(ps)
  BY DEF ExecInv, Receipts, LedgerInv
<1>1. IsFiniteSet(S)
  <2>1. mined \in Seq([tx : DOMAIN signed, ok : BOOLEAN, fork : Nat])
    BY <1>0 DEF ChainTyped
  <2>2. DOMAIN mined = 1 .. Len(mined) /\ Len(mined) \in Nat
    BY <2>1
  <2>3. IsFiniteSet(DOMAIN mined)
    BY <2>2, FS_Interval
  <2>4. S \in SUBSET DOMAIN mined
    BY DEF SpotsOf
  <2> QED
    BY <2>3, <2>4, FS_Subset
<1>2. \A i \in S : f[i] \in Int
  BY <1>0, EffectIs DEF SpotsOf
<1>3. IsFiniteSet(P)
  <2>1. IsFiniteSet(ps) /\ P \in SUBSET ps
    BY <1>0, BooksFinite DEF OfToken
  <2> QED
    BY <2>1, FS_Subset
<1>4. \A p \in P : p \in ps /\ p \in positions \cup saved /\ p.token = t /\ PositionOK(p)
  BY DEF LedgerInv, OfToken
<1>5. \A p \in P : part[p] \subseteq S
  BY <1>0, <1>4, PartOf
<1>6. \A p, q \in P : p # q => part[p] \cap part[q] = {}
  BY <1>0, <1>4, Apart
<1>7. ASSUME NEW i \in S, f[i] # 0
      PROVE  \E p \in P : i \in part[p]
  <2>1. PICK p \in ps : p.token = t /\ i \in Spots(p)
    BY <1>7, Named
  <2> QED
    BY <2>1 DEF OfToken
<1>8. ASSUME NEW p \in P
      PROVE  g[p] = SumOf(f, part[p])
  <2>1. p.id[1] \in DOMAIN ops /\ TokenOf(p.id[1]) = t
    BY <1>0, <1>4, NamesAre
  <2>2. ~ Cardinality(Bought(p.id[1])) > 1
    BY <2>1 DEF BoughtTwice
  <2>3. Cardinality(Bought(p.id[1])) <= 1
    <3> DEFINE B == Bought(p.id[1])
    <3>1. B \in SUBSET DOMAIN signed /\ IsFiniteSet(DOMAIN signed)
      BY <1>0 DEF Bought, ChainTyped
    <3> HIDE DEF B
    <3>2. Cardinality(B) \in Nat
      BY <3>1, FS_Subset, FS_CardinalityType
    <3> QED
      BY <3>2, <2>2 DEF B
  <2>4. p.held = SumOf(f, Spots(p))
    BY <1>4, <2>3 DEF PositionOK
  <2>5. g[p] = p.held
    BY <1>4 DEF HeldBy
  <2> QED
    BY <2>4, <2>5
<1> HIDE DEF S, P, part, f, g
<1>9. \A x \in S : (\A p \in P : x \notin part[p]) => f[x] = 0
  BY <1>7
<1>10. SumOf(f, S) = SumOf(g, P)
  BY <1>1, <1>2, <1>3, <1>5, <1>6, <1>8, <1>9, SumFamily
<1>11. Balance(t) = SumOf(f, S) /\ Held(ps, t) = SumOf(g, P)
  BY BalanceSum, HeldSum DEF f, S, g, P
<1> QED
  BY <1>10, <1>11

LEMMA LedgerHolds ==
  ASSUME ExecInv, Receipts, GasInv, FinalInv, LedgerInv
  PROVE  LedgerMatchesChain
<1>1. ASSUME NEW t \in Token, ~ PendingOn(t), ~ BoughtTwice(t)
      PROVE  Balance(t) = Held(positions, t) /\ Balance(t) = Held(saved, t)
  BY <1>1, LedgerAgrees
<1> QED
  BY <1>1 DEF LedgerMatchesChain

-----------------------------------------------------------------------------
(* What a step may do to the books *)

GoodBook(q) ==
  /\ q \in Position /\ PositionOK(q) /\ SaleFits(q)
  /\ q.id[1] \in DOMAIN ops /\ ops[q.id[1]].kind = "Entry" /\ q.token = ops[q.id[1]].subject

Opens(q) == GoodBook(q) /\ \A p \in positions \cup saved : p.id[1] # q.id[1]
Updates(p, q) == GoodBook(q) /\ q.id = p.id /\ q.held <= p.held /\ p.exits \subseteq q.exits

\* A position is opened or updated, in memory or at once on disk; or the disk is
\* brought up to date, or memory is lost.
BookStep ==
  \/ positions' = positions /\ saved' \in {saved, positions}
  \/ positions' = saved /\ saved' = saved
  \/ \E q : /\ Opens(q) /\ positions' = positions \cup {q}
            /\ saved' = positions' \/ (saved' = saved /\ q.id[2] = "live")
  \/ \E p \in positions : \E q : Updates(p, q) /\ Update(p, q) /\ saved' \in {saved, positions'}

LEMMA AllGood ==
  ASSUME ExecInv, LedgerInv, NEW p \in positions \cup saved
  PROVE  GoodBook(p)
BY DEF ExecInv, Books, LedgerInv, TokensOK, GoodBook

LEMMA SellsAll ==
  ASSUME NEW p \in Position, NEW qty \in Nat, qty <= p.held, NEW h \in Hash, NEW gas \in Nat,
         NEW q, q = ApplyExit(p, qty, h, gas)
  PROVE  SoldFrom(q, p, qty, h, gas) /\ q.held = p.held - qty
<1>1. SoldFrom(q, p, qty, h, gas)
  BY ApplyExitIs
<1>2. p.held \in Nat
  BY DEF Position
<1>3. Min({qty, p.held}) \in {qty, p.held} /\ \A y \in {qty, p.held} : Min({qty, p.held}) <= y
  <2>1. {qty, p.held} \in SUBSET Nat /\ {qty, p.held} # {}
    BY <1>2
  <2> QED
    BY <2>1, MinIs
<1>4. q.held = p.held - Min({qty, p.held})
  BY DEF ApplyExit, Position
<1> QED
  BY <1>1, <1>2, <1>3, <1>4

LEMMA SpotsFinite ==
  ASSUME ChainTyped, NEW p
  PROVE  IsFiniteSet(Spots(p)) /\ \A i \in Spots(p) : Effects[i] \in Int
<1>1. mined \in Seq([tx : DOMAIN signed, ok : BOOLEAN, fork : Nat])
  BY DEF ChainTyped
<1>2. DOMAIN mined = 1 .. Len(mined) /\ Len(mined) \in Nat
  BY <1>1
<1>3. IsFiniteSet(DOMAIN mined)
  BY <1>2, FS_Interval
<1>4. Spots(p) \in SUBSET DOMAIN mined
  BY DEF Spots
<1>5. IsFiniteSet(Spots(p))
  BY <1>3, <1>4, FS_Subset
<1>6. \A i \in Spots(p) : Effects[i] \in Int
  BY <1>4, EffectIs
<1> QED
  BY <1>5, <1>6

\* One more sale in the books is one more effect.
LEMMA SaleBooked ==
  ASSUME ExecInv, Receipts, NEW p, NEW h \in DOMAIN signed, Landed(h), Status(h),
         signed[h].kind = "sell", p.held \in Int, h # p.entry, h \notin p.exits, PositionOK(p),
         NEW q, q.id = p.id, q.entry = p.entry, q.exits = p.exits \cup {h},
         q.held = p.held - signed[h].qty
  PROVE  PositionOK(q)
<1> DEFINE x == Height(h)
           S == Spots(q)
           T == Spots(p)
<1>0. ChainTyped /\ MinedInOrder
  BY DEF ExecInv, Receipts
<1>1. x \in DOMAIN mined /\ mined[x].tx = h
  BY DEF Height, Landed
<1>2. \A i \in DOMAIN mined : mined[i].tx = h => i = x
  BY <1>0, HeightIs
<1>3. x \in S /\ S \ {x} = T
  BY <1>1, <1>2 DEF Spots
<1>4. Effects[x] = - signed[h].qty /\ mined[x].ok
  <2>1. Status(h) = mined[x].ok
    BY <1>0, <1>1, HeightIs
  <2> QED
    BY <1>0, <1>1, <2>1, EffectIs
<1>5. IsFiniteSet(S) /\ \A i \in S : Effects[i] \in Int
  BY <1>0, SpotsFinite
<1> HIDE DEF S, T, x
<1>6. SumOf(Effects, S) = Effects[x] + SumOf(Effects, S \ {x})
  BY <1>3, <1>5, SumWithout
<1>7. SumOf(Effects, S) = Effects[x] + SumOf(Effects, T)
  BY <1>3, <1>6
<1>8. signed[h].qty \in Nat
  BY <1>0 DEF ChainTyped, SignedTx
<1>9. Cardinality(Bought(q.id[1])) <= 1 => q.held = SumOf(Effects, Spots(q))
  <2>1. Cardinality(Bought(q.id[1])) <= 1 => p.held = SumOf(Effects, T)
    BY DEF PositionOK, T
  <2> QED
    BY <1>4, <1>7, <1>8, <2>1 DEF S
<1>10. q.entry \in Bought(q.id[1]) /\ \A g \in q.exits : Status(g)
  BY DEF PositionOK
<1> QED
  BY <1>9, <1>10 DEF PositionOK

\* The sale of a position's one undecided exit is booked.
LEMMA SaleUpdates ==
  ASSUME ExecInv, Receipts, GasInv, LedgerInv, NEW p \in positions, NEW h \in DOMAIN signed,
         Landed(h), Status(h), signed[h].kind = "sell", h[1] \in DOMAIN ops,
         ops[h[1]].kind = "Exit", ops[h[1]].subject = p.id, ops[h[1]].state = "Pending",
         ~ \E g \in p.exits : g[1] = h[1], signed[h].qty <= p.held,
         NEW gas, NEW q, SoldFrom(q, p, signed[h].qty, h, gas), q.held = p.held - signed[h].qty
  PROVE  Updates(p, q)
<1>0. GoodBook(p)
  BY AllGood
<1>1. q \in Position /\ q.id = p.id /\ q.entry = p.entry /\ q.token = p.token /\ q.exits = p.exits \cup {h}
      /\ q.held <= p.held
  BY DEF SoldFrom
<1>2. h # p.entry /\ h \notin p.exits
  <2>1. p.entry \in Bought(p.id[1])
    BY <1>0 DEF GoodBook, PositionOK
  <2> QED
    BY <2>1 DEF Bought
<1>3. p.held \in Int
  BY <1>0 DEF GoodBook, Position
<1>4. PositionOK(q)
  BY <1>0, <1>1, <1>2, <1>3, SaleBooked DEF GoodBook
<1>5. SaleFits(q)
  <2> SUFFICES ASSUME NEW g \in DOMAIN signed, g[1] \in ExitsOf(q), ops[g[1]].state = "Pending",
                      ~ \E e \in q.exits : e[1] = g[1]
               PROVE  FALSE
    BY DEF SaleFits
  <2>1. g[1] \in DOMAIN ops /\ ops[g[1]].kind = "Exit" /\ ops[g[1]].subject = p.id
    BY <1>1 DEF ExitsOf
  <2>2. g[1] = h[1]
    BY <2>1 DEF LedgerInv, OnePending
  <2> QED
    BY <1>1, <2>2
<1> QED
  BY <1>0, <1>1, <1>4, <1>5 DEF GoodBook, Updates

LEMMA ChargeUpdates ==
  ASSUME ExecInv, LedgerInv, NEW p \in positions, NEW o, NEW gas, NEW q, Charged(q, p, o, gas)
  PROVE  Updates(p, q)
<1>0. GoodBook(p)
  BY AllGood
<1>1. q \in Position /\ q.id = p.id /\ q.entry = p.entry /\ q.token = p.token /\ q.exits = p.exits
      /\ q.held = p.held
  BY DEF Charged
<1>2. Spots(q) = Spots(p) /\ ExitsOf(q) = ExitsOf(p)
  BY <1>1 DEF Spots, ExitsOf
<1>3. PositionOK(q)
  BY <1>0, <1>1, <1>2 DEF GoodBook, PositionOK
<1>4. SaleFits(q)
  BY <1>0, <1>1, <1>2 DEF GoodBook, SaleFits
<1>5. q.held \in Nat
  BY <1>1 DEF Position
<1> QED
  BY <1>0, <1>1, <1>3, <1>4, <1>5 DEF GoodBook, Updates

\* The first fill of an entry opens its position.
LEMMA FillOpens ==
  ASSUME ExecInv, Receipts, LedgerInv, NEW o \in DOMAIN ops, ops[o].kind = "Entry",
         NEW F \in SUBSET Nat, F # {}, IsFiniteSet(F),
         \A k \in F : <<o, k>> \in DOMAIN signed /\ Landed(<<o, k>>) /\ Status(<<o, k>>),
         NEW by \in {"live", "recover"}, NEW gas \in Nat,
         NEW q, q = NewPosition(o, by, Min(F), Cardinality(F), gas),
         \A p \in positions \cup saved : p.id[1] # o,
         \A r \in DOMAIN ops : ops[r].kind = "Exit" => ops[r].subject # <<o, by>>
  PROVE  Opens(q) /\ q.id = <<o, by>>
<1>0. ChainTyped /\ MinedInOrder /\ JournalTyped
  BY DEF ExecInv, Receipts
<1>1. Min(F) \in F /\ Min(F) \in Nat /\ Cardinality(F) \in Nat
  BY MinIs, FS_CardinalityType
<1> DEFINE k == Min(F)
           n == Cardinality(F)
           e == <<o, k>>
<1>2. q \in Position /\ q.id[1] = o /\ q.exits = {}
  <2> HIDE DEF k, n
  <2>1. k \in Nat /\ n \in Nat /\ q = NewPosition(o, by, k, n, gas)
    BY <1>1 DEF k, n
  <2> QED
    BY <1>0, <2>1, NewPositionIs
<1>3. q.id = <<o, by>> /\ q.token = ops[o].subject /\ q.entry = e /\ q.held = Lot * n
  BY DEF NewPosition
<1> HIDE DEF k, n
<1>4. \A j \in F : <<o, j>> \in Bought(o)
  BY DEF LedgerInv, TokensOK, Bought
<1>5. e \in Bought(o)
  BY <1>1, <1>4 DEF k
<1>6. ASSUME Cardinality(Bought(o)) <= 1
      PROVE  q.held = SumOf(Effects, Spots(q))
  <2>1. \A j \in F : j = k
    BY <1>0, <1>4, <1>5, <1>6, OneBuy
  <2>2. F = {k}
    BY <1>1, <2>1 DEF k
  <2>3. n = 1
    BY <2>2, FS_Singleton DEF n
  <2>4. q.held = Lot
    BY <1>3, <2>3, ChainAssumption
  <2>5. PICK x \in DOMAIN mined : mined[x].tx = e
    BY <1>1 DEF k, Landed
  <2>6. \A i \in DOMAIN mined : mined[i].tx = e => i = x
    BY <1>0, <2>5, HeightIs
  <2>7. Spots(q) = {x}
    BY <1>2, <1>3, <2>5, <2>6 DEF Spots
  <2>8. mined[x].ok /\ signed[e].kind = "buy"
    <3>1. Status(e) = mined[x].ok
      BY <1>0, <2>5, HeightIs
    <3> QED
      BY <3>1, <1>5 DEF Bought
  <2>9. Effects[x] = Lot /\ Effects[x] \in Int
    BY <1>0, <2>5, <2>8, EffectIs
  <2> DEFINE S == {x}
  <2>10. IsFiniteSet(S) /\ x \in S /\ S \ {x} = {} /\ \A i \in S : Effects[i] \in Int
    BY <2>9, FS_Singleton
  <2> HIDE DEF S
  <2>11. SumOf(Effects, S) = Effects[x] + SumOf(Effects, S \ {x})
    BY <2>10, SumWithout
  <2>12. SumOf(Effects, S) = Effects[x] + 0
    BY <2>10, <2>11, SumNone
  <2> QED
    BY <2>4, <2>7, <2>9, <2>12 DEF S
<1>7. PositionOK(q)
  BY <1>2, <1>3, <1>5, <1>6 DEF PositionOK
<1>8. SaleFits(q)
  BY <1>3 DEF SaleFits, ExitsOf
<1> QED
  BY <1>2, <1>3, <1>7, <1>8 DEF Opens, GoodBook

LEMMA OpenBook ==
  ASSUME ExecInv, Receipts, LedgerInv, OpenPosition
  PROVE  BookStep
<1>0. pc = "settle" /\ pc \notin Quiet /\ Op.kind = "Entry" /\ InEntry
  BY KindIs DEF OpenPosition
<1>1. PICK o, F, q, gas :
        /\ o = cur /\ F = Fills /\ gas = OperationGas(Op)
        /\ q = NewPosition(o, "live", Min(F), Cardinality(F), gas)
  OBVIOUS
<1>2. /\ o \in DOMAIN ops /\ ops[o].kind = "Entry" /\ gas \in Nat
      /\ Op = ops[cur] /\ DOMAIN Op.txs = 1 .. Last /\ Last \in Nat
  BY <1>0, <1>1, CurIs, GasType
<1>3. F \in SUBSET (1 .. Last) /\ F # {}
  <2>1. DOMAIN out \subseteq DOMAIN Op.txs
    BY <1>0 DEF ExecInv, AnswersOK
  <2> QED
    BY <1>1, <1>2, <2>1 DEF Fills, OpenPosition
<1>4. F \in SUBSET Nat /\ IsFiniteSet(F)
  <2>1. IsFiniteSet(1 .. Last)
    BY <1>2, FS_Interval
  <2>2. F \in SUBSET Nat
    BY <1>2, <1>3
  <2> QED
    BY <1>3, <2>1, <2>2, FS_Subset
<1>5. \A k \in F : <<o, k>> \in DOMAIN signed /\ Landed(<<o, k>>) /\ Status(<<o, k>>)
  <2>1. \A k \in F : <<o, k>> \in DOMAIN signed
    BY <1>1, <1>2, <1>3 DEF ExecInv, Signed
  <2>2. \A k \in F : k \in DOMAIN out /\ out[k].ans = "confirmed"
    BY <1>1 DEF Fills
  <2>3. \A k \in F : Landed(<<o, k>>) /\ Status(<<o, k>>)
    BY <1>0, <1>1, <2>2 DEF Receipts, AccurateAnswers, AccurateAnswer
  <2> QED
    BY <2>1, <2>3
<1>6. \A p \in positions \cup saved : p.id[1] # o
  <2>1. \A p \in positions : p.id[1] # o
    BY <1>0, <1>1 DEF ExecInv, OpensOnce
  <2>2. Ids(saved) \subseteq Ids(positions)
    BY DEF LedgerInv, Behind
  <2>3. \A p \in saved : \E r \in positions : r.id = p.id
    BY <2>2 DEF Ids
  <2> QED
    BY <2>1, <2>3
<1>7. \A r \in DOMAIN ops : ops[r].kind = "Exit" => ops[r].subject # <<o, "live">>
  BY <1>0, <1>1 DEF LedgerInv, EntryFresh
<1>8. Opens(q) /\ q.id = <<o, "live">>
  BY <1>1, <1>2, <1>3, <1>4, <1>5, <1>6, <1>7, FillOpens
<1>9. positions' = positions \cup {q} /\ saved' = saved
  BY <1>1 DEF OpenPosition
<1> QED
  BY <1>8, <1>9 DEF BookStep

LEMMA RecoverFillBook ==
  ASSUME ExecInv, Receipts, LedgerInv, RecoverFill
  PROVE  BookStep
<1>0. Recovering /\ Current.kind = "Entry" /\ pc \in Boot
  BY DEF RecoverFill, Recovered, Recovering, Boot
<1>1. PICK o, F, q, gas :
        /\ o = Target /\ F = Fill /\ gas = OperationGas(Current)
        /\ q = NewPosition(o, "recover", Min(F), Cardinality(F), gas)
  OBVIOUS
<1>2. /\ o \in DOMAIN ops /\ ops[o].kind = "Entry" /\ gas \in Nat /\ Current = ops[o]
      /\ DOMAIN Current.txs = 1 .. Len(Current.txs) /\ Len(Current.txs) \in Nat
  BY <1>0, <1>1, TargetIs, GasType DEF Current
<1>3. F \in SUBSET (1 .. Len(Current.txs)) /\ F # {}
  BY <1>1, <1>2 DEF Fill, ConfirmedIn, RecoverFill
<1>4. F \in SUBSET Nat /\ IsFiniteSet(F)
  <2>1. IsFiniteSet(1 .. Len(Current.txs))
    BY <1>2, FS_Interval
  <2>2. F \in SUBSET Nat
    BY <1>2, <1>3
  <2> QED
    BY <1>3, <2>1, <2>2, FS_Subset
<1>5. \A k \in F : <<o, k>> \in DOMAIN signed /\ Landed(<<o, k>>) /\ Status(<<o, k>>)
  <2>1. \A k \in F : <<o, k>> \in DOMAIN signed
    BY <1>1, <1>2, <1>3 DEF ExecInv, Signed
  <2>2. \A k \in F : ops[o].txs[k].state = "Confirmed" /\ k \in DOMAIN ops[o].txs
    BY <1>1, <1>2 DEF Fill, ConfirmedIn
  <2>3. \A k \in F : Landed(<<o, k>>) /\ Status(<<o, k>>)
    BY <1>2, <2>2 DEF Receipts, AccurateJournal, Accurate
  <2> QED
    BY <2>1, <2>3
<1>6. \A p \in positions \cup saved : p.id[1] # o
  <2>1. \A p \in positions : p.id[1] # o
    BY <1>1 DEF RecoverFill, HasPosition, ExecInv, Books
  <2> QED
    BY <1>0, <2>1 DEF LedgerInv, BootPlaces
<1>7. \A r \in DOMAIN ops : ops[r].kind = "Exit" => ops[r].subject # <<o, "recover">>
  BY <1>6 DEF LedgerInv, RecoverOnDisk, Ids
<1>8. Opens(q) /\ q.id = <<o, "recover">>
  <2>1. PICK by : by = "recover"
    OBVIOUS
  <2>2. q = NewPosition(o, by, Min(F), Cardinality(F), gas) /\ by \in {"live", "recover"}
    BY <1>1, <2>1
  <2>3. \A r \in DOMAIN ops : ops[r].kind = "Exit" => ops[r].subject # <<o, by>>
    BY <1>7, <2>1
  <2>4. o \in DOMAIN ops /\ ops[o].kind = "Entry" /\ gas \in Nat /\ F # {}
    BY <1>2, <1>3
  <2>5. Opens(q) /\ q.id = <<o, by>>
    BY <2>2, <2>3, <2>4, <1>4, <1>5, <1>6, FillOpens
  <2> QED
    BY <2>1, <2>5
<1>9. positions' = positions \cup {q} /\ saved' = positions'
  BY <1>1 DEF RecoverFill, Booked
<1> QED
  BY <1>8, <1>9 DEF BookStep

\* The sale in hand, confirmed.
LEMMA SaleInHand ==
  ASSUME ExecInv, Receipts, GasInv, FinalInv, LedgerInv, pc = "book", NEW h, h = <<cur, Last>>
  PROVE  /\ h \in DOMAIN signed /\ Landed(h) /\ Status(h) /\ signed[h].kind = "sell"
         /\ signed[h].qty = job.qty /\ h[1] = cur /\ h \in Hash
<1>0. pc \notin Quiet /\ InExit
  BY KindIs
<1>1. cur \in DOMAIN ops /\ cur \in Nat /\ Op \in OpRecord /\ Op = ops[cur] /\ Last \in Nat
      /\ DOMAIN Op.txs = 1 .. Last
  BY <1>0, CurIs
<1>2. Last \in DOMAIN Op.txs
  BY <1>0, <1>1 DEF FinalInv, ExitPlaces, Last, OpRecord
<1>3. TxFinal(cur, Op, Last)
  BY <1>1, <1>2 DEF FinalInv, JournalFinal, OpFinal
<1>4. Landed(<<cur, Last>>) /\ Op.txs[Last].step = "sell"
  BY <1>0, <1>2 DEF FinalInv, ExitPlaces, AllLanded
<1>5. signed[h].kind = "sell"
  BY <1>3, <1>4 DEF TxFinal
<1>6. h \in DOMAIN signed
  BY <1>4, MinedIs DEF ExecInv
<1>7. Status(h)
  BY DEF LedgerInv, BookPlaces
<1>8. h[1] = cur /\ h \in Hash
  BY <1>1 DEF Hash
<1>9. signed[h].qty = job.qty
  BY <1>0, <1>5, <1>6, <1>8 DEF LedgerInv, JobQty
<1> QED
  BY <1>4, <1>5, <1>6, <1>7, <1>8, <1>9

LEMMA BookExitBook ==
  ASSUME ExecInv, Receipts, GasInv, FinalInv, LedgerInv, BookExit
  PROVE  BookStep
<1>0. pc = "book" /\ pc \notin Quiet /\ InExit
  BY KindIs DEF BookExit
<1>1. cur \in DOMAIN ops /\ Op \in OpRecord /\ Op = ops[cur] /\ OperationGas(Op) \in Nat
  BY <1>0, CurIs, GasType
<1>2. CASE Known(job.pos) /\ Open(Pos(job.pos))
  <2>1. PICK p, qty, h, gas, q :
          /\ p = Pos(job.pos) /\ qty = job.qty /\ h = <<cur, Last>> /\ gas = OperationGas(Op)
          /\ q = ApplyExit(p, qty, h, gas)
    OBVIOUS
  <2>2. p \in positions /\ p \in Position /\ qty \in Nat /\ p.id = job.pos
    BY <1>0, <2>1, JobIs DEF Job
  <2>3. /\ h \in DOMAIN signed /\ Landed(h) /\ Status(h) /\ signed[h].kind = "sell"
        /\ signed[h].qty = qty /\ h[1] = cur /\ h \in Hash
    BY <1>0, <2>1, SaleInHand
  <2>4. qty <= p.held
    <3>1. PICK r \in positions : r.id = job.pos /\ job.qty <= r.held
      BY <1>0 DEF ExecInv, Claims, Holds, Selling
    <3>2. r = p
      BY <2>1, <3>1, PosIs DEF ExecInv
    <3> QED
      BY <2>1, <3>1, <3>2
  <2>5. SoldFrom(q, p, qty, h, gas) /\ q.held = p.held - qty
    BY <1>1, <2>1, <2>2, <2>3, <2>4, SellsAll
  <2>6. ops[h[1]].kind = "Exit" /\ ops[h[1]].subject = p.id /\ ops[h[1]].state = "Pending"
        /\ ~ \E g \in p.exits : g[1] = h[1]
    <3>1. Op.kind = "Exit" /\ Op.subject = job.pos
      BY <1>0 DEF InExit, ExecInv, OwnerOK
    <3>2. Op.state = "Pending" /\ cur \notin PaidBy(p)
      BY <1>0, <2>2 DEF GasInv, Unpaid, Working, Selling
    <3> QED
      BY <1>1, <2>2, <2>3, <3>1, <3>2 DEF PaidBy
  <2>7. Updates(p, q)
    BY <1>1, <2>2, <2>3, <2>4, <2>5, <2>6, SaleUpdates
  <2>8. Update(p, q) /\ saved' = saved
    BY <1>2, <2>1 DEF BookExit
  <2> QED
    BY <2>2, <2>7, <2>8 DEF BookStep
<1>3. CASE ~ (Known(job.pos) /\ Open(Pos(job.pos)))
  BY <1>3 DEF BookExit, BookStep
<1> QED
  BY <1>2, <1>3

LEMMA UnwindBook ==
  ASSUME ExecInv, LedgerInv, Unwind
  PROVE  BookStep
<1>0. pc = "unwind" /\ pc \notin Quiet /\ InExit
  BY KindIs DEF Unwind
<1>1. CASE ~ RequiresRecovery(Op) /\ OperationGas(Op) > 0
  <2>1. PICK p, o, gas, q :
          /\ p = Pos(job.pos) /\ o = cur /\ gas = OperationGas(Op)
          /\ q = ChargeOverhead(p, o, gas)
    OBVIOUS
  <2>2. p \in positions /\ p \in Position /\ o \in Nat /\ gas \in Nat
    BY <1>0, <2>1, JobIs, CurIs, GasType
  <2>3. Updates(p, q)
    BY <2>1, <2>2, ChargeIs, ChargeUpdates
  <2>4. Update(p, q) /\ saved' = saved
    BY <1>1, <2>1 DEF Unwind
  <2> QED
    BY <2>2, <2>3, <2>4 DEF BookStep
<1>2. CASE ~ RequiresRecovery(Op) /\ ~ OperationGas(Op) > 0
  BY <1>2 DEF Unwind, BookStep
<1>3. CASE RequiresRecovery(Op)
  BY <1>3 DEF Unwind, BookStep
<1> QED
  BY <1>1, <1>2, <1>3

LEMMA RecoverSaleBook ==
  ASSUME ExecInv, Receipts, GasInv, FinalInv, LedgerInv, RecoverSale
  PROVE  BookStep
<1>0. /\ Recovered("Exit") /\ ~ ExitBooked(Target) /\ Recovering /\ pc = "boot"
      /\ rec.snap[Target].state = "Pending" /\ Current.kind = "Exit"
  BY DEF RecoverSale, Recovered, Recovering
<1>1. /\ Target \in DOMAIN ops /\ Target \in Nat /\ Current \in OpRecord /\ Current = ops[Target]
      /\ DOMAIN Current.txs = 1 .. Len(Current.txs) /\ Len(Current.txs) \in Nat /\ Target \in rec.todo
  BY <1>0, TargetIs DEF Current
<1>2. CASE Known(Current.subject) /\ Open(Holder)
  <2>1. PICK p, o, k, h, qty, gas, q :
          /\ p = Holder /\ o = Target /\ k = Min(Sale) /\ h = <<o, k>> /\ qty = signed[h].qty
          /\ gas = OperationGas(Current) /\ q = ApplyExit(p, qty, h, gas)
    OBVIOUS
  <2>2. p \in positions /\ p \in Position /\ p.id = Current.subject
    BY <1>0, <1>2, <2>1, TargetExit, KnownIs DEF Holder, ExecInv
  <2>3. k \in Sale /\ k \in Nat
    <3>1. Sale \in SUBSET Nat /\ Sale # {}
      BY <1>1 DEF RecoverSale, Sale, ConfirmedIn
    <3> QED
      BY <2>1, <3>1, MinIs
  <2>4. k \in DOMAIN ops[o].txs /\ ops[o].txs[k].step = "sell" /\ ops[o].txs[k].state = "Confirmed"
    BY <1>1, <2>1, <2>3 DEF Sale, ConfirmedIn
  <2>5. Landed(h) /\ Status(h)
    BY <1>1, <2>1, <2>4 DEF Receipts, AccurateJournal, Accurate
  <2>6. h \in DOMAIN signed
    BY <2>5, MinedIs DEF ExecInv
  <2>7. h \in Hash /\ gas \in Nat /\ qty \in Nat
    <3>1. qty \in Nat
      BY <2>1, <2>6 DEF ExecInv, ChainTyped, SignedTx
    <3> QED
      BY <1>1, <2>1, <2>3, <3>1, GasType DEF Hash
  <2>8. signed[h].kind = "sell"
    <3>1. TxFinal(o, ops[o], k)
      BY <1>1, <2>1, <2>4 DEF FinalInv, JournalFinal, OpFinal
    <3> QED
      BY <2>1, <2>4, <3>1 DEF TxFinal
  <2>9. /\ h[1] \in DOMAIN ops /\ ops[h[1]].kind = "Exit" /\ ops[h[1]].subject = p.id
        /\ ops[h[1]].state = "Pending" /\ ~ \E g \in p.exits : g[1] = h[1]
    <3>1. h[1] = Target
      BY <2>1
    <3>2. ops[Target].state = "Pending"
      BY <1>0, <1>1 DEF GasInv, BootKept
    <3>3. ~ \E g \in p.exits : g[1] = Target
      BY <1>0, <1>1, <2>2 DEF ExitBooked
    <3> QED
      BY <1>0, <1>1, <2>2, <3>1, <3>2, <3>3
  <2>10. qty <= p.held
    <3>1. SaleFits(p)
      BY <2>2 DEF LedgerInv
    <3>2. h[1] \in ExitsOf(p)
      BY <2>9 DEF ExitsOf
    <3> QED
      BY <2>1, <2>6, <2>8, <2>9, <3>1, <3>2 DEF SaleFits
  <2>11. SoldFrom(q, p, qty, h, gas) /\ q.held = p.held - qty
    BY <2>1, <2>2, <2>7, <2>10, SellsAll
  <2>12. Updates(p, q)
    BY <2>1, <2>2, <2>5, <2>6, <2>8, <2>9, <2>10, <2>11, SaleUpdates
  <2>13. Update(p, q) /\ saved' = positions'
    BY <1>2, <2>1 DEF RecoverSale, Booked
  <2> QED
    BY <2>2, <2>12, <2>13 DEF BookStep
<1>3. CASE ~ (Known(Current.subject) /\ Open(Holder))
  BY <1>3 DEF RecoverSale, Verdict, BookStep
<1> QED
  BY <1>2, <1>3

LEMMA RecoverGasBook ==
  ASSUME ExecInv, GasInv, LedgerInv, RecoverGas
  PROVE  BookStep
<1>0. Recovered("Exit") /\ ~ ExitBooked(Target) /\ Recovering
  BY DEF RecoverGas, Recovered
<1>1. Target \in Nat /\ Current \in OpRecord
  BY <1>0, TargetIs
<1>2. CASE Known(Current.subject)
  <2>1. PICK p, o, gas, q :
          /\ p = Holder /\ o = Target /\ gas = OperationGas(Current)
          /\ q = ChargeOverhead(p, o, gas)
    OBVIOUS
  <2>2. p \in positions /\ p \in Position /\ o \in Nat /\ gas \in Nat
    BY <1>0, <1>1, <1>2, <2>1, TargetExit, GasType
  <2>3. Updates(p, q)
    BY <2>1, <2>2, ChargeIs, ChargeUpdates
  <2>4. Update(p, q) /\ saved' = positions'
    BY <1>2, <2>1 DEF RecoverGas, Booked
  <2> QED
    BY <2>2, <2>3, <2>4 DEF BookStep
<1>3. CASE ~ Known(Current.subject)
  BY <1>3 DEF RecoverGas, Verdict, BookStep
<1> QED
  BY <1>2, <1>3

LEMMA EveryBook ==
  ASSUME ExecInv, Receipts, GasInv, FinalInv, LedgerInv, [Next]_vars
  PROVE  BookStep
<1>1. ASSUME positions' = positions \/ (positions' = saved /\ saved' = saved),
             saved' = saved \/ saved' = positions
      PROVE  BookStep
  BY <1>1 DEF BookStep
<1>2. ASSUME UNCHANGED <<positions, saved>>
      PROVE  BookStep
  BY <1>1, <1>2
<1>3. CASE Entries
  <2>1. CASE OpenPosition
    BY <2>1, OpenBook
  <2> QED
    BY <1>2, <1>3, <2>1 DEF Entries, BeginEntry, PresignFails, Presign, Unsent, FireBurst,
       RecordAnswer, RefreshNonce, NoFill
<1>4. CASE Exits
  <2>1. CASE BookExit \/ Unwind
    BY <2>1, BookExitBook, UnwindBook
  <2> QED
    BY <1>2, <1>4, <2>1 DEF Exits, DecideExit, BeginExit, StageSend, TradeFails, Send, RecordSend,
       BookFails, FailExit
<1>5. CASE Both
  BY <1>1, <1>5 DEF Both, Confirm, RecordReceipts, Flush, FlushFails, RecordApplied
<1>6. CASE Session
  BY <1>1, <1>6 DEF Session, CanonicalCheck, StopRequest, FlushIfDue, Shutdown, Crash, Age, ProcessEnds
<1>7. CASE Startup
  <2>1. CASE RecoverSale \/ RecoverGas \/ RecoverFill
    BY <2>1, RecoverSaleBook, RecoverGasBook, RecoverFillBook
  <2>2. CASE Restart \/ RefreshTx \/ RecoverApplied \/ Start
    BY <1>2, <2>2 DEF Restart, RefreshTx, RecoverApplied, Start
  <2>3. CASE BootFails
    BY <1>1, <2>3 DEF BootFails, ProcessEnds
  <2>4. CASE RecoverEntry \/ RecoverExit \/ RecordBooked
    <3>1. UNCHANGED <<positions, saved>>
      BY <2>4 DEF RecoverEntry, RecoverExit, RecordBooked, Verdict
    <3> QED
      BY <1>2, <3>1
  <2> QED
    BY <1>7, <2>1, <2>2, <2>3, <2>4 DEF Startup
<1>8. CASE Environment \/ UNCHANGED vars
  BY <1>2, <1>8 DEF Environment, processVars, vars
<1> QED
  BY <1>3, <1>4, <1>5, <1>6, <1>7, <1>8 DEF Next

-----------------------------------------------------------------------------
(* What a step may do to the journal's verdicts *)

\* An operation begins, an exit on an open position that has no other undecided.
Begins ==
  /\ pc = "idle" /\ UNCHANGED <<positions, saved, chainVars>>
  /\ \E op : /\ ops' = Append(ops, op) /\ cur' = Len(ops) + 1 /\ op.state = "Pending"
             /\ \/ op.kind = "Entry" /\ pc' = "sign" /\ job' = NoJob
                \/ /\ op.kind = "Exit" /\ pc' = "trade" /\ op.subject \in Ids(positions)
                   /\ ~ PendingSubject(ops, "Exit", op.subject)

\* What is decided stays so; what is applied is in the books, in memory and on disk.
StateGoes(o) ==
  /\ ops'[o].state = "Pending" => ops[o].state = "Pending"
  /\ ops'[o].state = "Applied" =>
       ops[o].state = "Applied" \/ (InBooks(positions, o) /\ InBooks(saved, o))

JournalStep == (DOMAIN ops' = DOMAIN ops \/ Begins) /\ \A o \in DOMAIN ops : StateGoes(o)

LEMMA SameJournal ==
  ASSUME UNCHANGED ops
  PROVE  JournalStep
BY DEF JournalStep, StateGoes

LEMMA PutJournal ==
  ASSUME NEW o \in DOMAIN ops, NEW op, Put(o, op),
         op.state = "Pending" => ops[o].state = "Pending",
         op.state = "Applied" => ops[o].state = "Applied" \/ (InBooks(positions, o) /\ InBooks(saved, o))
  PROVE  JournalStep
<1>1. DOMAIN ops' = DOMAIN ops /\ ops'[o] = op /\ \A r \in DOMAIN ops : r # o => ops'[r] = ops[r]
  BY DEF Put
<1> QED
  BY <1>1 DEF JournalStep, StateGoes

LEMMA PutTxsJournal ==
  ASSUME ExecInv, NEW o \in DOMAIN ops, NEW txs, Put(o, [ops[o] EXCEPT !.txs = txs])
  PROVE  JournalStep
<1>1. ops[o] \in OpRecord
  BY OpIs DEF ExecInv
<1>2. [ops[o] EXCEPT !.txs = txs].state = ops[o].state
  BY <1>1 DEF OpRecord
<1> QED
  BY <1>2, PutJournal

LEMMA PutCurTxs ==
  ASSUME ExecInv, pc \notin Quiet, \E txs : Put(cur, [Op EXCEPT !.txs = txs])
  PROVE  JournalStep
<1>1. PICK o, txs : o = cur /\ Put(cur, [Op EXCEPT !.txs = txs])
  OBVIOUS
<1>2. o \in DOMAIN ops /\ Put(o, [ops[o] EXCEPT !.txs = txs])
  BY <1>1, CurIs
<1> QED
  BY <1>2, PutTxsJournal

LEMMA PutFailed ==
  ASSUME ExecInv, NEW o \in DOMAIN ops, NEW op \in OpRecord, Put(o, WithState(op, "Failed"))
  PROVE  JournalStep
<1>1. WithState(op, "Failed").state = "Failed"
  BY WithStateIs DEF OperationState
<1> QED
  BY <1>1, PutJournal

LEMMA EntriesJournal ==
  ASSUME ExecInv, Entries
  PROVE  JournalStep
<1>1. ASSUME NEW t \in Token, BeginEntry(t)
      PROVE  JournalStep
  <2>1. CASE PendingSubject(ops, "Entry", t)
    BY <1>1, <2>1, SameJournal DEF BeginEntry
  <2>2. CASE ~ PendingSubject(ops, "Entry", t)
    <3>1. PICK op : op = [kind |-> "Entry", subject |-> t, state |-> "Pending", txs |-> <<>>]
      OBVIOUS
    <3>2. /\ ops' = Append(ops, op) /\ cur' = Len(ops) + 1 /\ pc = "idle" /\ pc' = "sign" /\ job' = job
          /\ UNCHANGED <<positions, saved, chainVars>> /\ op.state = "Pending" /\ op.kind = "Entry"
      BY <1>1, <2>2, <3>1 DEF BeginEntry
    <3>3. job = NoJob
      BY <3>2 DEF ExecInv, OwnerOK, Quiet
    <3>4. Begins
      BY <3>2, <3>3 DEF Begins
    <3>5. ops \in Seq(OpRecord)
      BY DEF ExecInv, JournalTyped
    <3>6. \A o \in DOMAIN ops : ops'[o] = ops[o]
      BY <3>2, <3>5
    <3> QED
      BY <3>4, <3>6 DEF JournalStep, StateGoes
  <2> QED
    BY <2>1, <2>2
<1>2. CASE PresignFails \/ Unsent \/ NoFill
  <2>1. pc \notin Quiet
    BY <1>2, KindIs DEF PresignFails, Unsent, NoFill
  <2>2. PICK o : o = cur
    OBVIOUS
  <2>3. o \in DOMAIN ops /\ Op \in OpRecord /\ AllRejected(Op) \in OpRecord
    BY <2>1, <2>2, CurIs, AllRejectedIs DEF Same
  <2>4. UNCHANGED ops \/ \E op \in OpRecord : Put(o, WithState(op, "Failed"))
    <3>1. CASE PresignFails
      BY <2>2, <2>3, <3>1 DEF PresignFails
    <3>2. CASE Unsent
      BY <2>2, <2>3, <3>2 DEF Unsent
    <3>3. CASE NoFill
      BY <2>2, <2>3, <3>3 DEF NoFill
    <3> QED
      BY <1>2, <3>1, <3>2, <3>3
  <2> QED
    BY <2>3, <2>4, SameJournal, PutFailed
<1>3. CASE Presign
  <2>1. pc \notin Quiet /\ \E txs : Put(cur, [Op EXCEPT !.txs = txs])
    BY <1>3, KindIs DEF Presign, Reserve, StageMany
  <2> QED
    BY <2>1, PutCurTxs
<1>4. CASE RecordAnswer
  <2>1. pc \notin Quiet /\ \E k, state : Put(cur, Mark(Op, k, state))
    BY <1>4, KindIs DEF RecordAnswer
  <2> QED
    BY <2>1, MarkTxs, PutCurTxs
<1>5. CASE FireBurst \/ RefreshNonce \/ OpenPosition
  BY <1>5, SameJournal DEF FireBurst, RefreshNonce, OpenPosition
<1> QED
  BY <1>1, <1>2, <1>3, <1>4, <1>5 DEF Entries

LEMMA ExitsJournal ==
  ASSUME ExecInv, Exits
  PROVE  JournalStep
<1>1. ASSUME NEW j \in queue, BeginExit(j)
      PROVE  JournalStep
  <2>1. CASE PendingSubject(ops, "Exit", j.pos)
    BY <1>1, <2>1, SameJournal DEF BeginExit
  <2>2. CASE ~ PendingSubject(ops, "Exit", j.pos)
    <3>1. PICK op : op = [kind |-> "Exit", subject |-> j.pos, state |-> "Pending", txs |-> <<>>]
      OBVIOUS
    <3>2. /\ ops' = Append(ops, op) /\ cur' = Len(ops) + 1 /\ pc = "idle" /\ pc' = "trade"
          /\ UNCHANGED <<positions, saved, chainVars>> /\ op.state = "Pending" /\ op.kind = "Exit"
          /\ op.subject = j.pos
      BY <1>1, <2>2, <3>1 DEF BeginExit
    <3>3. j.pos \in Ids(positions)
      BY DEF ExecInv, Claims, Ids
    <3>4. Begins
      BY <2>2, <3>2, <3>3 DEF Begins
    <3>5. ops \in Seq(OpRecord)
      BY DEF ExecInv, JournalTyped
    <3>6. \A o \in DOMAIN ops : ops'[o] = ops[o]
      BY <3>2, <3>5
    <3> QED
      BY <3>4, <3>6 DEF JournalStep, StateGoes
  <2> QED
    BY <2>1, <2>2
<1>2. ASSUME NEW step \in {"approval", "sell"}, StageSend(step)
      PROVE  JournalStep
  <2>1. pc \notin Quiet /\ \E txs : Put(cur, [Op EXCEPT !.txs = txs])
    BY <1>2, KindIs DEF StageSend, Reserve, StageMany
  <2> QED
    BY <2>1, PutCurTxs
<1>3. CASE RecordSend
  <2>1. pc \notin Quiet /\ \E k, state : Put(cur, Mark(Op, k, state))
    BY <1>3, KindIs DEF RecordSend
  <2> QED
    BY <2>1, MarkTxs, PutCurTxs
<1>4. CASE FailExit
  <2>1. PICK o : o = cur
    OBVIOUS
  <2>2. o \in DOMAIN ops /\ Op \in OpRecord /\ Put(o, WithState(Op, "Failed"))
    BY <1>4, <2>1, KindIs, CurIs DEF FailExit
  <2> QED
    BY <2>2, PutFailed
<1>5. CASE BookExit \/ Unwind
  <2>1. UNCHANGED ops
    BY <1>5 DEF BookExit, Unwind
  <2> QED
    BY <2>1, SameJournal
<1>6. CASE TradeFails \/ Send \/ BookFails \/ \E p \in positions : \E qty \in 1 .. p.held : DecideExit(p, qty)
  BY <1>6, SameJournal DEF TradeFails, Send, BookFails, DecideExit
<1> QED
  BY <1>1, <1>2, <1>3, <1>4, <1>5, <1>6 DEF Exits

LEMMA BothJournal ==
  ASSUME ExecInv, LedgerInv, Both
  PROVE  JournalStep
<1>1. CASE RecordReceipts
  <2>1. pc \notin Quiet /\ \E txs : Put(cur, [Op EXCEPT !.txs = txs])
    BY <1>1 DEF RecordReceipts, WithReceipts, Quiet, Boot
  <2> QED
    BY <2>1, PutCurTxs
<1>2. CASE RecordApplied
  <2>1. PICK o, op : o = cur /\ op = WithState(Op, "Applied")
    OBVIOUS
  <2>2. pc = "apply" /\ pc \notin Quiet
    BY <1>2 DEF RecordApplied, Quiet, Boot
  <2>3. o \in DOMAIN ops /\ op.state = "Applied"
    BY <2>1, <2>2, CurIs, WithStateIs DEF OperationState
  <2>4. InBooks(positions, o) /\ InBooks(saved, o)
    BY <2>1, <2>2 DEF LedgerInv, BookPlaces
  <2>5. UNCHANGED ops \/ Put(o, op)
    BY <1>2, <2>1 DEF RecordApplied
  <2> QED
    BY <2>3, <2>4, <2>5, SameJournal, PutJournal
<1>3. CASE Flush \/ FlushFails \/ \E k \in DOMAIN out : Confirm(k)
  BY <1>3, SameJournal DEF Flush, FlushFails, Confirm
<1> QED
  BY <1>1, <1>2, <1>3 DEF Both

LEMMA VerdictJournal ==
  ASSUME ExecInv, Recovering, NEW blocked, NEW state, Verdict(blocked, state),
         ~ blocked => state = "Failed" \/ (state = "Applied" /\ InBooks(positions, Target) /\ InBooks(saved, Target))
  PROVE  JournalStep
<1>1. Target \in DOMAIN ops /\ Current \in OpRecord
  BY TargetIs
<1>2. CASE blocked
  BY <1>2, SameJournal DEF Verdict
<1>3. CASE ~ blocked
  <2>1. PICK o, op : o = Target /\ op = WithState(Current, state)
    OBVIOUS
  <2>2. op.state = state
    BY <1>1, <1>3, <2>1, WithStateIs DEF OperationState
  <2>3. Put(o, op) /\ o \in DOMAIN ops
    BY <1>1, <1>3, <2>1 DEF Verdict
  <2> QED
    BY <1>3, <2>1, <2>2, <2>3, PutJournal
<1> QED
  BY <1>2, <1>3

LEMMA RefreshTxJournal ==
  ASSUME ExecInv, RefreshTx
  PROVE  JournalStep
<1>0. Recovering
  BY DEF RefreshTx
<1>1. Target \in DOMAIN ops /\ Current \in OpRecord /\ Current = ops[Target]
  BY <1>0, TargetIs DEF Current
<1>2. \E k, state, block, gas : UNCHANGED ops \/ Put(Target, SetRecord(Current, k, state, block, gas))
  BY DEF RefreshTx, Drop, Mark, Resolve
<1>3. PICK k, state, block, gas : UNCHANGED ops \/ Put(Target, SetRecord(Current, k, state, block, gas))
  BY <1>2
<1>4. \E txs : SetRecord(Current, k, state, block, gas) = [Current EXCEPT !.txs = txs]
  BY <1>1 DEF SetRecord, OpRecord
<1>5. PICK txs : SetRecord(Current, k, state, block, gas) = [Current EXCEPT !.txs = txs]
  BY <1>4
<1>6. PICK o : o = Target
  OBVIOUS
<1>7. UNCHANGED ops \/ Put(o, [ops[o] EXCEPT !.txs = txs])
  <2>1. Current = ops[o]
    BY <1>6 DEF Current
  <2>2. Put(Target, SetRecord(Current, k, state, block, gas)) => Put(o, [ops[o] EXCEPT !.txs = txs])
    BY <1>5, <1>6, <2>1
  <2> QED
    BY <1>3, <2>2
<1> QED
  BY <1>1, <1>6, <1>7, SameJournal, PutTxsJournal

\* The startup finds it in the books before it calls it applied.
LEMMA RecoverEntryJournal ==
  ASSUME ExecInv, LedgerInv, RecoverEntry
  PROVE  JournalStep
<1>0. Recovering /\ Current.kind = "Entry" /\ pc \in Boot
  BY DEF RecoverEntry, Recovered, Recovering, Boot
<1>1. PICK blocked, state : /\ blocked = HasAmbiguous(Current)
                            /\ state = IF HasPosition(Target) THEN "Applied" ELSE "Failed"
  OBVIOUS
<1>2. Verdict(blocked, state)
  BY <1>1 DEF RecoverEntry
<1>3. HasPosition(Target) => InBooks(positions, Target) /\ InBooks(saved, Target)
  <2>1. \A p \in positions : p.id[1] = p.entry[1]
    BY DEF ExecInv, Books
  <2>2. saved = positions
    BY <1>0 DEF LedgerInv, BootPlaces
  <2>3. ops[Target].kind = "Entry"
    BY <1>0 DEF Current
  <2> QED
    BY <2>1, <2>2, <2>3 DEF HasPosition, InBooks
<1> QED
  BY <1>0, <1>1, <1>2, <1>3, VerdictJournal

LEMMA RecoverExitJournal ==
  ASSUME ExecInv, LedgerInv, RecoverExit
  PROVE  JournalStep
<1>0. Recovering /\ Current.kind = "Exit" /\ pc \in Boot
  BY DEF RecoverExit, Recovered, Recovering, Boot
<1>1. CASE ExitBooked(Target) /\ Verdict(FALSE, "Applied")
  <2>1. saved = positions
    BY <1>0 DEF LedgerInv, BootPlaces
  <2>2. ops[Target].kind = "Exit"
    BY <1>0 DEF Current
  <2>3. InBooks(positions, Target) /\ InBooks(saved, Target)
    BY <1>1, <2>1, <2>2 DEF ExitBooked, InBooks
  <2> QED
    BY <1>0, <1>1, <2>3, VerdictJournal
<1>2. CASE Verdict(TRUE, "Pending") \/ Verdict(FALSE, "Failed")
  BY <1>0, <1>2, VerdictJournal
<1> QED
  BY <1>1, <1>2 DEF RecoverExit

LEMMA RecordBookedJournal ==
  ASSUME ExecInv, GasInv, FinalInv, LedgerInv, RecordBooked
  PROVE  JournalStep
<1>0. Recovering /\ pc = "boot" /\ pc \in Boot /\ rec.booked
  BY DEF RecordBooked, Recovering, Boot
<1>1. Target \in DOMAIN ops /\ Current \in OpRecord /\ Current = ops[Target]
  BY <1>0, TargetIs DEF Current
<1>2. PICK blocked, state :
        /\ blocked = (Current.kind = "Entry" /\ HasAmbiguous(Current))
        /\ state = IF Fill # {} \/ Sale # {} THEN "Applied" ELSE "Failed"
  OBVIOUS
<1>3. Verdict(blocked, state)
  BY <1>2 DEF RecordBooked
<1>4. Fill # {} => Current.kind = "Entry"
  <2>1. Current.kind = "Exit" => \A k \in DOMAIN Current.txs : Current.txs[k].step # "entry"
    BY <1>1 DEF FinalInv, JournalFinal, OpFinal, TxFinal
  <2>2. Current.kind \in {"Entry", "Exit"}
    BY <1>1 DEF OpRecord
  <2> QED
    BY <2>1, <2>2 DEF Fill, ConfirmedIn
<1>5. Fill # {} \/ Sale # {} => InBooks(positions, Target) /\ InBooks(saved, Target)
  <2>1. saved = positions
    BY <1>0 DEF LedgerInv, BootPlaces
  <2>2. Fill # {} \/ Sale # {} => InBooks(positions, Target)
    BY <1>0, <1>4 DEF LedgerInv, BootPlaces
  <2> QED
    BY <2>1, <2>2
<1> QED
  BY <1>0, <1>2, <1>3, <1>5, VerdictJournal

LEMMA StartupJournal ==
  ASSUME ExecInv, GasInv, FinalInv, LedgerInv, Startup
  PROVE  JournalStep
<1>1. CASE RecoverFill \/ RecoverSale \/ RecoverGas
  <2>1. UNCHANGED ops
    BY <1>1 DEF RecoverFill, RecoverSale, RecoverGas, Booked, Verdict
  <2> QED
    BY <2>1, SameJournal
<1>2. CASE Restart \/ RecoverApplied \/ BootFails \/ Start
  BY <1>2, SameJournal DEF Restart, RecoverApplied, BootFails, Start
<1> QED
  BY <1>1, <1>2, RefreshTxJournal, RecoverEntryJournal, RecoverExitJournal, RecordBookedJournal DEF Startup

LEMMA EveryVerdict ==
  ASSUME ExecInv, GasInv, FinalInv, LedgerInv, [Next]_vars
  PROVE  JournalStep
<1>1. CASE Session
  BY <1>1, SameJournal DEF Session, CanonicalCheck, StopRequest, FlushIfDue, Shutdown, Crash, Age
<1>2. CASE Environment \/ UNCHANGED vars
  BY <1>2, SameJournal DEF Environment, processVars, vars
<1> QED
  BY <1>1, <1>2, EntriesJournal, ExitsJournal, BothJournal, StartupJournal DEF Next

-----------------------------------------------------------------------------
(* What a step may sign: the token of the operation in hand; a sale is of     *)
(* what the exit in hand read.                                                *)

Fits(h) ==
  /\ h[1] = cur /\ signed'[h].token = TokenOf(cur)
  /\ signed'[h].kind = "buy" <=> Op.kind = "Entry"
  /\ signed'[h].kind = "sell" => InExit /\ pc = "trade" /\ signed'[h].qty = job.qty

SignedStep ==
  \/ signed' = signed
  \/ /\ UNCHANGED <<positions, saved, cur, job>> /\ DOMAIN ops' = DOMAIN ops /\ pc \notin Quiet
     /\ \A h \in DOMAIN signed' : h \in DOMAIN signed \/ Fits(h)

LEMMA ReserveSigns ==
  ASSUME ExecInv, pc \notin Quiet, NEW step, NEW n, NEW payload, Reserve(step, n, payload),
         UNCHANGED <<positions, saved, cur, job>>,
         payload.token = TokenOf(cur), payload.kind = "buy" <=> Op.kind = "Entry",
         payload.kind = "sell" => InExit /\ pc = "trade" /\ payload.qty = job.qty
  PROVE  SignedStep
<1> DEFINE new == {<<cur, Last + i>> : i \in 1 .. n}
<1>1. DOMAIN ops' = DOMAIN ops
  BY DEF Reserve, Put
<1>2. DOMAIN signed' = DOMAIN signed \cup new
  BY DEF Reserve
<1>3. \A h \in new : /\ h[1] = cur /\ signed'[h].kind = payload.kind /\ signed'[h].token = payload.token
                     /\ signed'[h].qty = payload.qty
  BY DEF Reserve
<1> HIDE DEF new
<1>4. \A h \in DOMAIN signed' : h \in DOMAIN signed \/ Fits(h)
  BY <1>2, <1>3 DEF Fits
<1> QED
  BY <1>1, <1>4 DEF SignedStep

LEMMA PresignSigns ==
  ASSUME ExecInv, Presign
  PROVE  SignedStep
<1> DEFINE payload == [kind |-> "buy", token |-> Op.subject, qty |-> 0]
<1>1. pc \notin Quiet /\ Op.kind = "Entry"
  BY KindIs DEF Presign
<1>2. payload.token = TokenOf(cur) /\ payload.kind = "buy"
  BY <1>1 DEF TokenOf, Op
<1>3. Reserve("entry", Attempts, payload) /\ UNCHANGED <<positions, saved, cur, job>>
  BY DEF Presign
<1> HIDE DEF payload
<1> QED
  BY <1>1, <1>2, <1>3, ReserveSigns

LEMMA StageSendSigns ==
  ASSUME ExecInv, LedgerInv, NEW step \in {"approval", "sell"}, StageSend(step)
  PROVE  SignedStep
<1> DEFINE kind == IF step = "approval" THEN "approve" ELSE "sell"
           payload == [kind |-> kind, token |-> Pos(job.pos).token, qty |-> job.qty]
<1>1. pc = "trade" /\ pc \notin Quiet /\ InExit /\ Op.kind = "Exit"
  BY KindIs DEF StageSend
<1>2. Pos(job.pos) \in positions /\ Pos(job.pos).id = Op.subject
  BY <1>1, JobIs DEF ExecInv, OwnerOK
<1>3. Pos(job.pos).token = TokenOf(cur)
  BY <1>1, <1>2 DEF LedgerInv, TokensOK, TokenOf, Op
<1>4. payload.token = TokenOf(cur) /\ payload.kind # "buy" /\ payload.qty = job.qty
  BY <1>3
<1>5. Reserve(step, 1, payload) /\ UNCHANGED <<positions, saved, cur, job>>
  BY DEF StageSend
<1> HIDE DEF payload
<1> QED
  BY <1>1, <1>4, <1>5, ReserveSigns

LEMMA EverySigns ==
  ASSUME ExecInv, LedgerInv, [Next]_vars
  PROVE  SignedStep
<1>1. ASSUME UNCHANGED signed
      PROVE  SignedStep
  BY <1>1 DEF SignedStep
<1>2. CASE Entries
  <2>1. CASE FireBurst
    BY <1>1, <2>1 DEF FireBurst, Transmit
  <2> QED
    BY <1>1, <1>2, <2>1, PresignSigns DEF Entries, BeginEntry, PresignFails, Unsent,
       RecordAnswer, RefreshNonce, NoFill, OpenPosition, chainVars
<1>3. CASE Exits
  <2>1. CASE Unwind
    BY <1>1, <2>1 DEF Unwind, chainVars
  <2>2. CASE Send
    BY <1>1, <2>2 DEF Send, Transmit
  <2>3. CASE \E step \in {"approval", "sell"} : StageSend(step)
    BY <2>3, StageSendSigns
  <2> QED
    BY <1>1, <1>3, <2>1, <2>2, <2>3 DEF Exits, DecideExit, BeginExit, TradeFails, RecordSend, BookExit,
       BookFails, FailExit, chainVars
<1>4. CASE Both
  BY <1>1, <1>4 DEF Both, Confirm, RecordReceipts, Flush, FlushFails, RecordApplied, chainVars
<1>5. CASE Session
  BY <1>1, <1>5 DEF Session, CanonicalCheck, StopRequest, FlushIfDue, Shutdown, Crash, Age, chainVars
<1>6. CASE Startup
  <2>1. CASE RecoverEntry \/ RecoverExit \/ RecordBooked
    <3>1. UNCHANGED signed
      BY <2>1 DEF RecoverEntry, RecoverExit, RecordBooked, Verdict, chainVars
    <3> QED
      BY <1>1, <3>1
  <2>2. CASE RecoverFill \/ RecoverSale \/ RecoverGas
    <3>1. UNCHANGED signed
      BY <2>2 DEF RecoverFill, RecoverSale, RecoverGas, Booked, Verdict, chainVars
    <3> QED
      BY <1>1, <3>1
  <2> QED
    BY <1>1, <1>6, <2>1, <2>2 DEF Startup, Restart, RefreshTx, RecoverApplied, BootFails, Start, chainVars
<1>7. CASE Environment
  BY <1>1, <1>7, ChainKeeps DEF Environment, ExecInv, processVars
<1>8. CASE UNCHANGED vars
  BY <1>1, <1>8 DEF vars, chainVars
<1> QED
  BY <1>2, <1>3, <1>4, <1>5, <1>6, <1>7, <1>8 DEF Next

-----------------------------------------------------------------------------
(* What the books hold stays true of the chain *)

\* A step moves the chain or the books, not both.
LEMMA ChainOrBooks ==
  ASSUME [Next]_vars
  PROVE  UNCHANGED mined \/ UNCHANGED <<positions, saved>>
<1>1. CASE Entries
  <2>1. CASE Presign
    BY <2>1 DEF Presign, Reserve
  <2>2. CASE FireBurst
    BY <2>2 DEF FireBurst, Transmit
  <2> QED
    BY <1>1, <2>1, <2>2 DEF Entries, BeginEntry, PresignFails, Unsent, RecordAnswer, RefreshNonce,
       NoFill, OpenPosition, chainVars
<1>2. CASE Exits
  <2>1. CASE Unwind
    BY <2>1 DEF Unwind, chainVars
  <2>2. CASE Send
    BY <2>2 DEF Send, Transmit
  <2>3. CASE \E step \in {"approval", "sell"} : StageSend(step)
    BY <2>3 DEF StageSend, Reserve
  <2> QED
    BY <1>2, <2>1, <2>2, <2>3 DEF Exits, DecideExit, BeginExit, TradeFails, RecordSend, BookExit,
       BookFails, FailExit, chainVars
<1>3. CASE Both
  BY <1>3 DEF Both, Confirm, RecordReceipts, Flush, FlushFails, RecordApplied, chainVars
<1>4. CASE Session
  BY <1>4 DEF Session, CanonicalCheck, StopRequest, FlushIfDue, Shutdown, Crash, Age, chainVars
<1>5. CASE Startup
  <2>1. CASE RecoverEntry \/ RecoverExit \/ RecordBooked
    BY <2>1 DEF RecoverEntry, RecoverExit, RecordBooked, Verdict, chainVars
  <2>2. CASE RecoverFill \/ RecoverSale \/ RecoverGas
    BY <2>2 DEF RecoverFill, RecoverSale, RecoverGas, Booked, Verdict, chainVars
  <2> QED
    BY <1>5, <2>1, <2>2 DEF Startup, Restart, RefreshTx, RecoverApplied, BootFails, Start, chainVars
<1>6. CASE Environment \/ UNCHANGED vars
  BY <1>6 DEF Environment, processVars, vars
<1> QED
  BY <1>1, <1>2, <1>3, <1>4, <1>5, <1>6 DEF Next

LEMMA GoodNow ==
  ASSUME ExecInv, LedgerInv, BookStep, NEW p \in positions' \cup saved'
  PROVE  GoodBook(p)
<1>1. p \in positions \cup saved \/ \E r : (Opens(r) \/ \E s \in positions : Updates(s, r)) /\ p = r
  BY DEF BookStep, Update
<1> QED
  BY <1>1, AllGood DEF Opens, Updates

LEMMA ExitsLanded ==
  ASSUME FinalInv, SalesLanded', [Next]_vars, NEW p \in positions' \cup saved', NEW h \in p.exits
  PROVE  Landed(h)
<1>1. CASE UNCHANGED mined
  <2>1. Landed(h)'
    BY DEF SalesLanded, Sold
  <2> QED
    BY <1>1, <2>1 DEF Landed
<1>2. CASE UNCHANGED <<positions, saved>>
  BY <1>2 DEF FinalInv, SalesLanded, Sold
<1> QED
  BY <1>1, <1>2, ChainOrBooks

LEMMA KindKept ==
  ASSUME ExecInv, StepOK, TokensOK, NEW o \in DOMAIN ops
  PROVE  o \in DOMAIN ops' /\ ops'[o].kind = ops[o].kind /\ ops'[o].subject = ops[o].subject
         /\ TokenOf(o)' = TokenOf(o)
<1>1. \A r \in DOMAIN ops :
        r \in DOMAIN ops' /\ ops'[r].kind = ops[r].kind /\ ops'[r].subject = ops[r].subject
  BY DEF StepOK, KeptOp
<1>2. CASE ops[o].kind = "Entry"
  BY <1>1, <1>2 DEF TokenOf
<1>3. CASE ops[o].kind = "Exit"
  <2>1. ops[o].subject[1] \in DOMAIN ops
    BY <1>3 DEF TokensOK
  <2> QED
    BY <1>1, <1>3, <2>1 DEF TokenOf
<1>4. ops[o].kind \in {"Entry", "Exit"}
  BY OpIs DEF ExecInv
<1> QED
  BY <1>1, <1>2, <1>3, <1>4

LEMMA TxKept ==
  ASSUME Receipts, StepOK, NEW h \in DOMAIN signed
  PROVE  h \in DOMAIN signed' /\ signed'[h] = signed[h] /\ h[1] \in DOMAIN ops
BY DEF StepOK, Grows, Receipts, Journaled

LEMMA BoughtGrows ==
  ASSUME ChainTyped, ChainTyped', Receipts, StepOK, NEW o
  PROVE  Bought(o) \subseteq Bought(o)' /\ IsFiniteSet(Bought(o)')
<1>1. \A h \in DOMAIN signed : Landed(h) => Landed(h)' /\ Status(h)' = Status(h)
  BY LandedStays DEF StepOK
<1>2. Bought(o) \subseteq Bought(o)'
  BY <1>1, TxKept DEF Bought
<1>3. Bought(o)' \in SUBSET DOMAIN signed' /\ IsFiniteSet(DOMAIN signed')
  BY DEF Bought, ChainTyped
<1>4. IsFiniteSet(Bought(o)')
  BY <1>3, FS_Subset
<1> QED
  BY <1>2, <1>4

LEMMA SpotsStay ==
  ASSUME ChainTyped, ChainTyped', Receipts, StepOK, NEW q, Landed(q.entry),
         \A h \in q.exits : Landed(h)
  PROVE  Spots(q)' = Spots(q) /\ \A i \in Spots(q) : Effects'[i] = Effects[i]
<1>0. MinedInOrder' /\ Grows
  BY DEF StepOK
<1>1. ASSUME NEW i \in DOMAIN mined
      PROVE  i \in DOMAIN mined' /\ mined'[i] = mined[i] /\ Effects'[i] = Effects[i]
  <2>1. i \in DOMAIN mined' /\ mined'[i] = mined[i]
    BY <1>0 DEF Grows
  <2>2. mined[i].tx \in DOMAIN signed /\ signed'[mined[i].tx] = signed[mined[i].tx]
    BY MinedIn, TxKept
  <2>3. Effect(mined[i])' = Effect(mined[i])
    BY <2>1, <2>2 DEF Effect
  <2> QED
    BY <2>1, <2>3 DEF Effects
<1>2. ASSUME NEW i \in DOMAIN mined', NEW h, mined'[i].tx = h, Landed(h)
      PROVE  i \in DOMAIN mined
  <2>1. PICK j \in DOMAIN mined : mined[j].tx = h
    BY <1>2 DEF Landed
  <2>2. j \in DOMAIN mined' /\ mined'[j].tx = h
    BY <1>1, <2>1
  <2>3. \A r \in DOMAIN mined' : signed'[mined'[r].tx].nonce = r - 1
    BY <1>0 DEF MinedInOrder, Nonce
  <2>4. i - 1 = j - 1
    BY <1>2, <2>2, <2>3
  <2>5. i \in Nat /\ j \in Nat
    BY <2>1, ElementIs DEF ChainTyped
  <2> QED
    BY <2>1, <2>4, <2>5
<1>3. Spots(q) \subseteq DOMAIN mined
  BY DEF Spots
<1>4. Spots(q)' = Spots(q)
  BY <1>1, <1>2 DEF Spots
<1> QED
  BY <1>1, <1>3, <1>4

LEMMA PositionStays ==
  ASSUME ExecInv, ExecInv', Receipts, StepOK, NEW q, PositionOK(q), \A h \in q.exits : Landed(h)
  PROVE  PositionOK(q)'
<1>0. ChainTyped /\ ChainTyped' /\ MinedInOrder' /\ Grows
  BY DEF ExecInv, StepOK
<1> DEFINE o == q.id[1]
<1>1. Bought(o) \subseteq Bought(o)' /\ IsFiniteSet(Bought(o)')
  BY <1>0, BoughtGrows
<1>2. q.entry \in Bought(o) /\ Landed(q.entry)
  BY DEF PositionOK, Bought
<1>3. Spots(q)' = Spots(q) /\ \A i \in Spots(q) : Effects'[i] = Effects[i]
  BY <1>0, <1>2, SpotsStay
<1>4. IsFiniteSet(Spots(q))
  BY <1>0, SpotsFinite
<1>5. SumOf(Effects', Spots(q)) = SumOf(Effects, Spots(q))
  BY <1>3, <1>4, SumAgree
<1>6. Cardinality(Bought(o)') <= 1 => Cardinality(Bought(o)) <= 1
  <2>1. IsFiniteSet(Bought(o)) /\ Cardinality(Bought(o)) <= Cardinality(Bought(o)')
    BY <1>1, FS_Subset
  <2>2. Cardinality(Bought(o)) \in Nat /\ Cardinality(Bought(o)') \in Nat
    BY <1>1, <2>1, FS_CardinalityType
  <2> QED
    BY <2>1, <2>2
<1>7. \A h \in q.exits : Status(h)'
  BY <1>0, LandedStays DEF PositionOK
<1> HIDE DEF o
<1>8. Cardinality(Bought(o)') <= 1 => q.held = SumOf(Effects', Spots(q)')
  BY <1>3, <1>5, <1>6 DEF PositionOK, o
<1> QED
  BY <1>1, <1>2, <1>7, <1>8 DEF PositionOK, o

-----------------------------------------------------------------------------
(* The parts that any step keeps *)

LedgerStep == StepOK /\ BookStep /\ JournalStep /\ SignedStep

LEMMA BeginsIs ==
  ASSUME ExecInv, Begins
  PROVE  /\ DOMAIN ops' = DOMAIN ops \cup {cur'} /\ cur' \notin DOMAIN ops
         /\ \A o \in DOMAIN ops : ops'[o] = ops[o]
         /\ ops'[cur'].state = "Pending" /\ UNCHANGED <<positions, saved, chainVars>>
         /\ \/ ops'[cur'].kind = "Entry" /\ pc' = "sign" /\ job' = NoJob
            \/ /\ ops'[cur'].kind = "Exit" /\ pc' = "trade" /\ ops'[cur'].subject \in Ids(positions)
               /\ ~ PendingSubject(ops, "Exit", ops'[cur'].subject)
<1>1. PICK op : /\ ops' = Append(ops, op) /\ cur' = Len(ops) + 1 /\ op.state = "Pending"
                /\ \/ op.kind = "Entry" /\ pc' = "sign" /\ job' = NoJob
                   \/ /\ op.kind = "Exit" /\ pc' = "trade" /\ op.subject \in Ids(positions)
                      /\ ~ PendingSubject(ops, "Exit", op.subject)
  BY DEF Begins
<1>2. ops \in Seq(OpRecord)
  BY DEF ExecInv, JournalTyped
<1>3. /\ DOMAIN ops = 1 .. Len(ops) /\ Len(ops) \in Nat
      /\ DOMAIN ops' = 1 .. Len(ops) + 1 /\ ops'[Len(ops) + 1] = op
      /\ \A o \in DOMAIN ops : ops'[o] = ops[o]
  BY <1>1, <1>2
<1>4. UNCHANGED <<positions, saved, chainVars>>
  BY DEF Begins
<1> QED
  BY <1>1, <1>3, <1>4

LEMMA NewOrOld ==
  ASSUME ExecInv, JournalStep, NEW o \in DOMAIN ops'
  PROVE  o \in DOMAIN ops \/ (Begins /\ o = cur')
BY BeginsIs DEF JournalStep

LEMMA TokensKeep ==
  ASSUME ExecInv, Receipts, LedgerInv, LedgerStep
  PROVE  TokensOK'
<1>0. TokensOK /\ StepOK
  BY DEF LedgerInv, LedgerStep
<1>1. \A p \in positions' \cup saved' :
        p.id[1] \in DOMAIN ops /\ ops[p.id[1]].kind = "Entry" /\ p.token = ops[p.id[1]].subject
  BY GoodNow DEF GoodBook, LedgerStep
<1>2. ASSUME NEW o \in DOMAIN ops', ops'[o].kind = "Exit"
      PROVE  ops'[o].subject[1] \in DOMAIN ops' /\ ops'[ops'[o].subject[1]].kind = "Entry"
  <2>1. CASE o \in DOMAIN ops
    <3>1. ops[o].subject[1] \in DOMAIN ops /\ ops[ops[o].subject[1]].kind = "Entry"
      BY <1>0, <1>2, <2>1, KindKept DEF TokensOK
    <3> QED
      BY <1>0, <2>1, <3>1, KindKept
  <2>2. CASE Begins /\ o = cur'
    <3>1. ops'[o].subject \in Ids(positions)
      BY <1>2, <2>2, BeginsIs
    <3>2. ops'[o].subject[1] \in DOMAIN ops /\ ops[ops'[o].subject[1]].kind = "Entry"
      BY <1>0, <3>1 DEF Ids, TokensOK, ExecInv, Books
    <3> QED
      BY <1>0, <3>2, KindKept
  <2> QED
    BY <2>1, <2>2, NewOrOld DEF LedgerStep
<1>3. ASSUME NEW h \in DOMAIN signed'
      PROVE  signed'[h].token = TokenOf(h[1])' /\ (signed'[h].kind = "buy" <=> ops'[h[1]].kind = "Entry")
  <2>1. CASE h \in DOMAIN signed
    BY <1>0, <2>1, TxKept, KindKept DEF TokensOK
  <2>2. CASE h \notin DOMAIN signed
    <3>1. Fits(h) /\ pc \notin Quiet
      BY <2>2 DEF LedgerStep, SignedStep
    <3>2. PICK o : o = cur
      OBVIOUS
    <3>3. o \in DOMAIN ops /\ Op = ops[o] /\ h[1] = o /\ signed'[h].token = TokenOf(o)
          /\ (signed'[h].kind = "buy" <=> ops[o].kind = "Entry")
      BY <3>1, <3>2, CurIs DEF Fits, Op
    <3> QED
      BY <1>0, <3>3, KindKept
  <2> QED
    BY <2>1, <2>2
<1>4. ASSUME NEW p \in positions' \cup saved'
      PROVE  p.token = ops'[p.id[1]].subject /\ ops'[p.id[1]].kind = "Entry"
  BY <1>0, <1>1, KindKept
<1> QED
  BY <1>2, <1>3, <1>4 DEF TokensOK

LEMMA FitsStays ==
  ASSUME ExecInv, Receipts, LedgerInv, LedgerStep, NEW q \in positions' \cup saved'
  PROVE  SaleFits(q)'
<1>0. GoodBook(q)
  BY GoodNow DEF LedgerStep
<1> SUFFICES ASSUME NEW h \in DOMAIN signed', h[1] \in ExitsOf(q)', ops'[h[1]].state = "Pending",
                    signed'[h].kind = "sell", ~ \E g \in q.exits : g[1] = h[1]
             PROVE  signed'[h].qty <= q.held
  BY DEF SaleFits
<1>1. h[1] \in DOMAIN ops' /\ ops'[h[1]].kind = "Exit" /\ ops'[h[1]].subject = q.id
  BY DEF ExitsOf
<1>2. CASE h \in DOMAIN signed
  <2>1. h[1] \in DOMAIN ops /\ signed'[h] = signed[h]
    BY <1>2, TxKept DEF LedgerStep
  <2>2. ops[h[1]].kind = "Exit" /\ ops[h[1]].subject = q.id
    BY <1>1, <2>1, KindKept DEF LedgerInv, LedgerStep
  <2>3. ops[h[1]].state = "Pending"
    BY <2>1 DEF LedgerStep, JournalStep, StateGoes
  <2> QED
    BY <1>0, <1>2, <2>1, <2>2, <2>3 DEF GoodBook, SaleFits, ExitsOf
<1>3. CASE h \notin DOMAIN signed
  <2>1. Fits(h) /\ pc \notin Quiet /\ positions' = positions /\ saved' = saved
    BY <1>3 DEF LedgerStep, SignedStep
  <2>2. h[1] = cur /\ InExit /\ pc = "trade" /\ signed'[h].qty = job.qty
    BY <2>1 DEF Fits
  <2>3. cur \in DOMAIN ops /\ Op = ops[cur] /\ job.pos = Op.subject /\ job \in Job
    BY <2>1, <2>2, CurIs DEF ExecInv, OwnerOK
  <2>4. PICK o : o = cur
    OBVIOUS
  <2>5. ops[o].subject = q.id
    BY <1>1, <2>2, <2>3, <2>4, KindKept DEF LedgerInv, LedgerStep
  <2>6. PICK p \in positions : p.id = job.pos /\ job.qty <= p.held
    BY <2>2 DEF ExecInv, Claims, Holds, Selling
  <2>7. p.id = q.id
    BY <2>3, <2>4, <2>5, <2>6 DEF Op
  <2>8. p.held <= q.held
    <3>1. CASE q \in saved
      BY <2>7, <3>1 DEF LedgerInv, Behind
    <3>2. CASE q \in positions
      <4>1. q = p
        BY <2>7, <3>2 DEF ExecInv, Books
      <4>2. q.held \in Nat
        BY <1>0 DEF GoodBook, Position
      <4> QED
        BY <4>1, <4>2
    <3> QED
      BY <2>1, <3>1, <3>2
  <2>9. job.qty \in Nat /\ p.held \in Nat /\ q.held \in Nat
    BY <1>0, <2>3 DEF Job, GoodBook, Position, ExecInv, Books
  <2> QED
    BY <2>2, <2>6, <2>8, <2>9
<1> QED
  BY <1>2, <1>3

\* What the books name stays named, if the disk names it too.
LEMMA NamedStays ==
  ASSUME ExecInv, LedgerInv, LedgerStep, NEW o \in DOMAIN ops, InBooks(positions, o), InBooks(saved, o)
  PROVE  InBooks(positions, o)' /\ InBooks(saved, o)'
<1> DEFINE Names(p) == IF ops[o].kind = "Entry" THEN p.id[1] = o ELSE \E h \in p.exits : h[1] = o
<1>1. \A ps : InBooks(ps, o) <=> \E p \in ps : Names(p)
  BY DEF InBooks
<1>2. ops'[o].kind = ops[o].kind
  BY KindKept DEF LedgerInv, LedgerStep
<1>3. /\ InBooks(positions, o)' <=> \E p \in positions' : Names(p)
      /\ InBooks(saved, o)' <=> \E p \in saved' : Names(p)
  BY <1>2 DEF InBooks
<1>4. \A p, q : Updates(p, q) /\ Names(p) => Names(q)
  BY DEF Updates
<1> HIDE DEF Names
<1>5. PICK p \in positions : Names(p)
  BY <1>1
<1>6. PICK s \in saved : Names(s)
  BY <1>1
<1>7. \E r \in positions' : Names(r)
  BY <1>4, <1>5, <1>6 DEF LedgerStep, BookStep, Update
<1>8. \E r \in saved' : Names(r)
  BY <1>5, <1>6, <1>7 DEF LedgerStep, BookStep
<1> QED
  BY <1>3, <1>7, <1>8

LEMMA AppliedKeeps ==
  ASSUME ExecInv, LedgerInv, LedgerStep
  PROVE  AppliedBooked'
<1> SUFFICES ASSUME NEW o \in DOMAIN ops', ops'[o].state = "Applied"
             PROVE  InBooks(positions, o)' /\ InBooks(saved, o)'
  BY DEF AppliedBooked
<1>1. CASE o \in DOMAIN ops
  <2>1. InBooks(positions, o) /\ InBooks(saved, o)
    BY <1>1 DEF LedgerStep, JournalStep, StateGoes, LedgerInv, AppliedBooked
  <2> QED
    BY <1>1, <2>1, NamedStays
<1>2. ~ (Begins /\ o = cur')
  BY BeginsIs
<1> QED
  BY <1>1, <1>2, NewOrOld DEF LedgerStep

LEMMA HeldNat ==
  ASSUME ExecInv, LedgerInv, BookStep, NEW p \in positions \cup saved \cup positions' \cup saved'
  PROVE  p.held \in Nat
<1>1. GoodBook(p)
  BY AllGood, GoodNow
<1> QED
  BY <1>1 DEF GoodBook, Position

\* Memory and disk alike.
LEMMA AlikeKeeps ==
  ASSUME ExecInv, ExecInv', LedgerInv, LedgerStep, saved' = positions'
  PROVE  Behind'
<1>1. \A p, q \in positions' : p.id = q.id => p = q
  BY DEF ExecInv, Books
<1>2. \A p \in positions' : p.held <= p.held
  BY HeldNat DEF LedgerStep
<1> QED
  BY <1>1, <1>2 DEF Behind, Ids

LEMMA BehindKeeps ==
  ASSUME ExecInv, ExecInv', LedgerInv, LedgerStep
  PROVE  Behind' /\ Ids(saved) \subseteq Ids(saved')
<1>0. Behind /\ BookStep
  BY DEF LedgerInv, LedgerStep
<1>1. CASE positions' = positions /\ saved' \in {saved, positions}
  <2>1. CASE saved' = saved
    BY <1>0, <1>1, <2>1 DEF Behind, Ids
  <2>2. CASE saved' = positions'
    BY <1>0, <1>1, <2>2, AlikeKeeps DEF Behind
  <2> QED
    BY <1>1, <2>1, <2>2
<1>2. CASE positions' = saved /\ saved' = saved
  BY <1>2, AlikeKeeps
<1>3. ASSUME NEW q, Opens(q), positions' = positions \cup {q},
             saved' = positions' \/ (saved' = saved /\ q.id[2] = "live")
      PROVE  Behind' /\ Ids(saved) \subseteq Ids(saved')
  <2>1. CASE saved' = positions'
    <3>1. Ids(positions) \subseteq Ids(positions')
      BY <1>3 DEF Ids
    <3> QED
      BY <1>0, <2>1, <3>1, AlikeKeeps DEF Behind
  <2>2. CASE saved' = saved /\ q.id[2] = "live"
    <3>1. Ids(positions') = Ids(positions) \cup {q.id}
      BY <1>3 DEF Ids
    <3>2. \A p \in saved : p.id # q.id
      BY <1>3 DEF Opens
    <3>3. \A p \in saved', r \in positions' : p.id = r.id => r.held <= p.held
      BY <1>0, <1>3, <2>2, <3>2 DEF Behind
    <3>4. \A p \in positions' : p.id[2] = "recover" => p.id \in Ids(saved')
      BY <1>0, <1>3, <2>2 DEF Behind
    <3>5. Ids(saved') \subseteq Ids(positions')
      BY <1>0, <2>2, <3>1 DEF Behind
    <3> QED
      BY <2>2, <3>3, <3>4, <3>5 DEF Behind
  <2> QED
    BY <1>3, <2>1, <2>2
<1>4. ASSUME NEW p \in positions, NEW q, Updates(p, q), Update(p, q), saved' \in {saved, positions'}
      PROVE  Behind' /\ Ids(saved) \subseteq Ids(saved')
  <2>0. positions' = (positions \ {p}) \cup {q} /\ q.id = p.id /\ q.held <= p.held
    BY <1>4 DEF Update, Updates
  <2>1. Ids(positions') = Ids(positions)
    BY <2>0 DEF Ids
  <2>2. CASE saved' = positions'
    BY <1>0, <2>1, <2>2, AlikeKeeps DEF Behind
  <2>3. CASE saved' = saved
    <3>1. ASSUME NEW s \in saved', NEW r \in positions', s.id = r.id
          PROVE  r.held <= s.held
      <4>1. CASE r = q
        <5>1. p.held <= s.held
          BY <1>0, <2>0, <2>3, <3>1, <4>1 DEF Behind
        <5>2. p.held \in Nat /\ q.held \in Nat /\ s.held \in Nat
          BY <1>0, <2>0, <2>3, HeldNat
        <5> QED
          BY <2>0, <4>1, <5>1, <5>2
      <4>2. CASE r \in positions
        BY <1>0, <2>3, <3>1, <4>2 DEF Behind
      <4> QED
        BY <2>0, <4>1, <4>2
    <3>2. \A r \in positions' : r.id[2] = "recover" => r.id \in Ids(saved')
      BY <1>0, <2>0, <2>3 DEF Behind
    <3>3. Ids(saved') \subseteq Ids(positions')
      BY <1>0, <2>1, <2>3 DEF Behind
    <3> QED
      BY <2>3, <3>1, <3>2, <3>3 DEF Behind
  <2> QED
    BY <1>4, <2>2, <2>3
<1> QED
  BY <1>0, <1>1, <1>2, <1>3, <1>4 DEF BookStep

LEMMA OnDiskKeeps ==
  ASSUME ExecInv, ExecInv', LedgerInv, LedgerStep
  PROVE  RecoverOnDisk'
<1>0. Ids(saved) \subseteq Ids(saved') /\ RecoverOnDisk /\ Behind
  BY BehindKeeps DEF LedgerInv
<1> SUFFICES ASSUME NEW o \in DOMAIN ops', ops'[o].kind = "Exit", ops'[o].subject[2] = "recover"
             PROVE  ops'[o].subject \in Ids(saved')
  BY DEF RecoverOnDisk, Ids
<1>1. CASE o \in DOMAIN ops
  <2>1. ops'[o].kind = ops[o].kind /\ ops'[o].subject = ops[o].subject
    BY <1>1, KindKept DEF LedgerInv, LedgerStep
  <2> QED
    BY <1>0, <1>1, <2>1 DEF RecoverOnDisk
<1>2. CASE Begins /\ o = cur'
  <2>1. ops'[o].subject \in Ids(positions)
    BY <1>2, BeginsIs
  <2> QED
    BY <1>0, <2>1 DEF Behind, Ids
<1> QED
  BY <1>1, <1>2, NewOrOld DEF LedgerStep

LEMMA OnePendingKeeps ==
  ASSUME ExecInv, LedgerInv, LedgerStep
  PROVE  OnePending'
<1> SUFFICES ASSUME NEW o \in DOMAIN ops', NEW r \in DOMAIN ops',
                    ops'[o].kind = "Exit", ops'[o].state = "Pending",
                    ops'[r].kind = "Exit", ops'[r].state = "Pending",
                    ops'[o].subject = ops'[r].subject
             PROVE  o = r
  BY DEF OnePending
<1>1. \A x \in DOMAIN ops :
        /\ ops'[x].kind = ops[x].kind /\ ops'[x].subject = ops[x].subject
        /\ ops'[x].state = "Pending" => ops[x].state = "Pending"
  BY KindKept DEF LedgerInv, LedgerStep, JournalStep, StateGoes
<1>2. CASE o \in DOMAIN ops /\ r \in DOMAIN ops
  BY <1>1, <1>2 DEF LedgerInv, OnePending
<1>3. ASSUME NEW x \in DOMAIN ops, NEW y, Begins, y = cur', ops'[x].kind = "Exit", ops'[x].state = "Pending",
             ops'[y].kind = "Exit", ops'[x].subject = ops'[y].subject
      PROVE  FALSE
  <2>1. ~ PendingSubject(ops, "Exit", ops'[y].subject)
    BY <1>3, BeginsIs
  <2> QED
    BY <1>1, <1>3, <2>1 DEF PendingSubject
<1>4. (o \in DOMAIN ops \/ (Begins /\ o = cur')) /\ (r \in DOMAIN ops \/ (Begins /\ r = cur'))
  BY NewOrOld DEF LedgerStep
<1> QED
  BY <1>2, <1>3, <1>4

-----------------------------------------------------------------------------
(* The operation in hand *)

Stays ==
  /\ pc \notin Quiet /\ cur' = cur /\ job' = job
  /\ pc \in {"flush", "apply"} => pc' \in {"flush", "apply"}

LEMMA AppendBegins ==
  ASSUME ExecInv, JournalStep, NEW op, ops' = Append(ops, op)
  PROVE  Begins
<1>1. ops \in Seq(OpRecord)
  BY DEF ExecInv, JournalTyped
<1>2. Len(ops) + 1 \in DOMAIN ops' /\ Len(ops) + 1 \notin DOMAIN ops
  BY <1>1
<1> QED
  BY <1>2 DEF JournalStep

LEMMA EveryHand ==
  ASSUME ExecInv, JournalStep, [Next]_vars, pc' \notin Quiet
  PROVE  Stays \/ Begins
<1>1. CASE Entries
  <2>1. ASSUME NEW t \in Token, BeginEntry(t)
        PROVE  Begins
    <3>1. pc' # pc
      BY <2>1 DEF BeginEntry, Quiet
    <3>2. ~ PendingSubject(ops, "Entry", t)
      BY <2>1, <3>1 DEF BeginEntry
    <3> QED
      BY <2>1, <3>2, AppendBegins DEF BeginEntry
  <2>2. ~ PresignFails /\ ~ Unsent /\ ~ NoFill
    BY DEF PresignFails, Unsent, NoFill, Return, Quiet
  <2>3. CASE Presign \/ FireBurst \/ RecordAnswer \/ RefreshNonce \/ OpenPosition
    BY <2>3 DEF Presign, FireBurst, RecordAnswer, RefreshNonce, OpenPosition, Stays, Quiet, Boot, memVars
  <2> QED
    BY <1>1, <2>1, <2>2, <2>3 DEF Entries
<1>2. CASE Exits
  <2>1. ASSUME NEW j \in queue, BeginExit(j)
        PROVE  Begins
    <3>1. pc' # pc
      BY <2>1 DEF BeginExit, Quiet
    <3>2. ~ PendingSubject(ops, "Exit", j.pos)
      BY <2>1, <3>1 DEF BeginExit
    <3> QED
      BY <2>1, <3>2, AppendBegins DEF BeginExit
  <2>2. CASE Unwind
    <3>1. pc = "unwind" /\ pc \notin Quiet
      BY <2>2 DEF Unwind, Quiet, Boot
    <3>2. CASE RequiresRecovery(Op)
      BY <2>2, <3>2 DEF Unwind, Return, Quiet
    <3>3. CASE ~ RequiresRecovery(Op) /\ OperationGas(Op) > 0
      BY <2>2, <3>1, <3>3 DEF Unwind, Stays
    <3>4. CASE ~ RequiresRecovery(Op) /\ ~ OperationGas(Op) > 0
      BY <2>2, <3>1, <3>4 DEF Unwind, Stays
    <3> QED
      BY <3>2, <3>3, <3>4
  <2>3. CASE BookExit
    <3>1. UNCHANGED <<cur, job>> \/ pc' = "idle"
      BY <2>3 DEF BookExit, Return
    <3> QED
      BY <2>3, <3>1 DEF BookExit, Stays, Quiet, Boot
  <2>4. ~ FailExit
    BY DEF FailExit, Return, Quiet
  <2>5. CASE \/ \E p \in positions : \E qty \in 1 .. p.held : DecideExit(p, qty)
             \/ \E step \in {"approval", "sell"} : StageSend(step)
             \/ TradeFails \/ Send \/ RecordSend \/ BookFails
    BY <2>5 DEF DecideExit, StageSend, TradeFails, Send, RecordSend, BookFails, Stays, Quiet, Boot, memVars
  <2> QED
    BY <1>2, <2>1, <2>2, <2>3, <2>4, <2>5 DEF Exits
<1>3. CASE Both
  BY <1>3 DEF Both, Confirm, RecordReceipts, Flush, FlushFails, RecordApplied, Return, Stays, Quiet, Boot,
     memVars
<1>4. CASE Session
  BY <1>4 DEF Session, CanonicalCheck, StopRequest, FlushIfDue, Shutdown, Crash, Age, ProcessEnds,
     Stays, Quiet, Boot, memVars
<1>5. CASE Startup
  <2>1. pc' \in Quiet
    BY <1>5, StartupQuiet DEF Quiet, Boot
  <2> QED
    BY <2>1
<1>6. CASE Environment \/ UNCHANGED vars
  BY <1>6 DEF Environment, processVars, vars, memVars, Stays
<1> QED
  BY <1>1, <1>2, <1>3, <1>4, <1>5, <1>6 DEF Next

LEMMA StayedKind ==
  ASSUME ExecInv, LedgerInv, LedgerStep, Stays
  PROVE  (InExit' => InExit) /\ (InEntry' => InEntry)
<1>1. PICK o : o = cur
  OBVIOUS
<1>2. o \in DOMAIN ops /\ Op = ops[o] /\ Op' = ops'[o]
  BY <1>1, CurIs DEF Stays, Op
<1>3. ops'[o].kind = ops[o].kind
  BY <1>2, KindKept DEF LedgerInv, LedgerStep
<1> QED
  BY <1>2, <1>3 DEF InExit, InEntry, Stays

LEMMA JobQtyKeeps ==
  ASSUME ExecInv, Receipts, LedgerInv, LedgerStep, [Next]_vars
  PROVE  JobQty'
<1> SUFFICES ASSUME InExit', NEW h \in DOMAIN signed', h[1] = cur', signed'[h].kind = "sell"
             PROVE  signed'[h].qty = job'.qty
  BY DEF JobQty
<1>0. pc' \notin Quiet
  BY DEF InExit
<1>1. CASE Stays
  <2>1. InExit
    BY <1>1, StayedKind
  <2>2. CASE h \in DOMAIN signed
    BY <1>1, <2>1, <2>2, TxKept DEF LedgerInv, JobQty, LedgerStep, Stays
  <2>3. CASE h \notin DOMAIN signed
    BY <1>1, <2>3 DEF LedgerStep, SignedStep, Fits, Stays
  <2> QED
    BY <2>2, <2>3
<1>2. CASE Begins
  <2>1. cur' \notin DOMAIN ops /\ signed' = signed
    BY <1>2, BeginsIs DEF chainVars
  <2> QED
    BY <2>1, TxKept DEF LedgerStep
<1> QED
  BY <1>0, <1>1, <1>2, EveryHand DEF LedgerStep

LEMMA FreshKeeps ==
  ASSUME ExecInv, Receipts, LedgerInv, LedgerStep, [Next]_vars
  PROVE  EntryFresh'
<1> SUFFICES ASSUME InEntry', pc' \notin {"flush", "apply"},
                    NEW o \in DOMAIN ops', ops'[o].kind = "Exit"
             PROVE  ops'[o].subject[1] # cur'
  BY DEF EntryFresh
<1>0. pc' \notin Quiet /\ ops'[cur'].kind = "Entry"
  BY DEF InEntry, Op
<1>1. CASE Stays
  <2>1. InEntry /\ pc \notin {"flush", "apply"}
    BY <1>1, StayedKind DEF Stays
  <2>2. CASE o \in DOMAIN ops
    BY <1>1, <2>1, <2>2, KindKept DEF LedgerInv, EntryFresh, LedgerStep, Stays
  <2>3. ~ Begins
    BY <1>1 DEF Stays, Begins, Quiet
  <2> QED
    BY <2>2, <2>3, NewOrOld DEF LedgerStep
<1>2. CASE Begins
  <2>1. cur' \notin DOMAIN ops
    BY <1>2, BeginsIs
  <2>2. CASE o \in DOMAIN ops
    BY <2>1, <2>2, KindKept DEF LedgerInv, TokensOK, LedgerStep
  <2> QED
    BY <1>0, <2>2, NewOrOld DEF LedgerStep
<1> QED
  BY <1>0, <1>1, <1>2, EveryHand DEF LedgerStep

-----------------------------------------------------------------------------
(* The owner's places in the books *)

Waits == UNCHANGED <<pc, cur, ops, positions>> /\ saved' \in {saved, positions}

LEMMA EveryBookPlace ==
  ASSUME [Next]_vars, pc' \in {"flush", "apply", "book"}
  PROVE  Waits \/ OpenPosition \/ BookExit \/ RecordReceipts \/ Flush
<1>1. CASE Entries
  BY <1>1 DEF Entries, BeginEntry, PresignFails, Presign, Unsent, FireBurst, RecordAnswer, RefreshNonce,
     NoFill, Return, Waits
<1>2. CASE Exits
  <2>1. CASE Unwind
    <3>1. CASE RequiresRecovery(Op)
      BY <2>1, <3>1 DEF Unwind, Return
    <3>2. CASE ~ RequiresRecovery(Op) /\ OperationGas(Op) > 0
      BY <2>1, <3>2 DEF Unwind
    <3>3. CASE ~ RequiresRecovery(Op) /\ ~ OperationGas(Op) > 0
      BY <2>1, <3>3 DEF Unwind
    <3> QED
      BY <3>1, <3>2, <3>3
  <2> QED
    BY <1>2, <2>1 DEF Exits, DecideExit, BeginExit, StageSend, TradeFails, Send, RecordSend, BookFails,
       FailExit, Return, Waits
<1>3. CASE Both
  BY <1>3 DEF Both, Confirm, FlushFails, RecordApplied, Return, Waits
<1>4. CASE Session
  BY <1>4 DEF Session, CanonicalCheck, StopRequest, FlushIfDue, Shutdown, Crash, Age, ProcessEnds, Waits, memVars
<1>5. CASE Startup
  BY <1>5, StartupQuiet
<1>6. CASE Environment \/ UNCHANGED vars
  BY <1>6 DEF Environment, processVars, vars, memVars, Waits
<1> QED
  BY <1>1, <1>2, <1>3, <1>4, <1>5, <1>6 DEF Next

LEMMA WaitsPlaces ==
  ASSUME ExecInv, ExecInv', Receipts, GasInv, FinalInv, LedgerInv, LedgerStep, Waits
  PROVE  BookPlaces'
<1>0. BookPlaces
  BY DEF LedgerInv
<1>1. pc' \in {"flush", "apply"} => InBooks(positions, cur)'
  BY <1>0 DEF BookPlaces, Waits, InBooks
<1>2. pc' = "apply" => InBooks(saved, cur)'
  BY <1>0 DEF BookPlaces, Waits, InBooks
<1>3. ASSUME pc' = "book"
      PROVE  Status(<<cur, Last>>)'
  <2>1. PICK h : h = <<cur, Last>>
    OBVIOUS
  <2>2. pc = "book" /\ Landed(h) /\ Status(h)
    BY <1>3, <2>1, SaleInHand DEF Waits
  <2>3. Status(h)'
    BY <2>2, LandedStays DEF ExecInv, LedgerStep, StepOK
  <2>4. h = <<cur', Last'>>
    BY <2>1 DEF Waits, Last, Op
  <2> QED
    BY <2>3, <2>4 DEF Status, Height
<1> QED
  BY <1>1, <1>2, <1>3 DEF BookPlaces

LEMMA OpenPlaces ==
  ASSUME ExecInv, OpenPosition
  PROVE  BookPlaces'
<1>1. pc' = "flush" /\ UNCHANGED <<cur, ops>> /\ Op.kind = "Entry"
  BY KindIs DEF OpenPosition
<1>2. \E q \in positions' : q.id[1] = cur
  <2>1. PICK q : q = NewPosition(cur, "live", Min(Fills), Cardinality(Fills), OperationGas(Op))
    OBVIOUS
  <2>2. q \in positions' /\ q.id[1] = cur
    BY <2>1 DEF OpenPosition, NewPosition
  <2> QED
    BY <2>2
<1>3. InBooks(positions, cur)'
  BY <1>1, <1>2 DEF InBooks, Op
<1> QED
  BY <1>1, <1>3 DEF BookPlaces

LEMMA BookExitPlaces ==
  ASSUME ExecInv, BookExit
  PROVE  BookPlaces'
<1>0. pc = "book" /\ pc \notin Quiet /\ InExit /\ Op.kind = "Exit"
  BY KindIs DEF BookExit
<1>1. CASE ~ (Known(job.pos) /\ Open(Pos(job.pos)))
  BY <1>1 DEF BookExit, Return, BookPlaces
<1>2. CASE Known(job.pos) /\ Open(Pos(job.pos))
  <2>1. PICK p, qty, h, gas, q :
          /\ p = Pos(job.pos) /\ qty = job.qty /\ h = <<cur, Last>> /\ gas = OperationGas(Op)
          /\ q = ApplyExit(p, qty, h, gas)
    OBVIOUS
  <2>2. cur \in Nat /\ Last \in Nat /\ Op \in OpRecord /\ gas \in Nat
    BY <1>0, <2>1, CurIs, GasType
  <2>3. p \in Position /\ qty \in Nat /\ h \in Hash
    BY <1>0, <2>1, <2>2, JobIs DEF Job, Hash
  <2>4. h \in q.exits /\ h[1] = cur
    <3>1. q = ApplyExit(p, qty, h, gas)
      BY <2>1
    <3>2. SoldFrom(q, p, qty, h, gas)
      BY <2>2, <2>3, <3>1, ApplyExitIs
    <3> QED
      BY <2>1, <3>2 DEF SoldFrom
  <2>5. q \in positions' /\ pc' = "flush" /\ UNCHANGED <<cur, ops>>
    BY <1>2, <2>1 DEF BookExit, Update
  <2>6. InBooks(positions, cur)'
    BY <1>0, <2>4, <2>5 DEF InBooks, Op
  <2> QED
    BY <2>5, <2>6 DEF BookPlaces
<1> QED
  BY <1>1, <1>2

LEMMA FlushPlaces ==
  ASSUME LedgerInv, Flush
  PROVE  BookPlaces'
<1>1. UNCHANGED <<cur, ops, positions>> /\ saved' = positions /\ pc' \in {"apply", "fail"}
      /\ (pc' = "apply" => pc = "flush")
  BY DEF Flush, memVars
<1>2. pc' = "apply" => InBooks(positions, cur)' /\ InBooks(saved, cur)'
  BY <1>1 DEF LedgerInv, BookPlaces, InBooks
<1> QED
  BY <1>1, <1>2 DEF BookPlaces

LEMMA ReceiptsPlaces ==
  ASSUME ExecInv, ExecInv', Receipts, RecordReceipts
  PROVE  BookPlaces'
<1>1. /\ pc = "confirm" /\ pc \notin Quiet /\ Put(cur, WithReceipts(Op, out))
      /\ UNCHANGED <<cur, out, mined>>
  BY DEF RecordReceipts, Quiet, Boot, memVars, chainVars
<1>2. /\ cur \in DOMAIN ops /\ Op = ops[cur] /\ Op \in OpRecord /\ Op.kind \in {"Entry", "Exit"}
      /\ DOMAIN Op.txs = 1 .. Last /\ Last \in Nat
  BY <1>1, CurIs
<1>3. pc' \notin {"flush", "apply"}
  BY DEF RecordReceipts
<1>4. ASSUME pc' = "book"
      PROVE  Status(<<cur, Last>>)'
  <2>1. Op.kind = "Exit" /\ out[Last].ans = "confirmed"
    BY <1>2, <1>4 DEF RecordReceipts
  <2>2. DOMAIN out = {Last}
    BY <1>1, <2>1 DEF ExecInv, AnswersOK, InExit
  <2>3. Status(<<cur, Last>>)
    BY <1>1, <2>1, <2>2 DEF Receipts, AccurateAnswers, AccurateAnswer
  <2>4. PICK op : op = WithReceipts(Op, out)
    OBVIOUS
  <2>5. Same(op, Op) /\ DOMAIN op.txs = DOMAIN Op.txs
    <3>1. \A k \in DOMAIN out : out[k] \in Answer
      BY <1>1 DEF ExecInv, AnswersOK
    <3> QED
      BY <1>2, <2>4, <3>1, ReceiptsAre
  <2>6. Op' = op
    BY <1>1, <1>2, <2>4 DEF Put, Op
  <2>7. Len(op.txs) = Len(Op.txs)
    <3>1. op.txs \in Seq(TxRecord)
      <4>1. pc' \notin Quiet
        BY <1>4 DEF Quiet, Boot
      <4>2. Op' \in OpRecord
        <5>1. cur' \in DOMAIN ops' /\ JournalTyped'
          BY <4>1 DEF ExecInv, OwnerOK
        <5> QED
          BY <5>1 DEF JournalTyped, Op
      <4> QED
        BY <2>6, <4>2 DEF OpRecord
    <3>2. Op.txs \in Seq(TxRecord)
      BY <1>2 DEF OpRecord
    <3> QED
      BY <2>5, <3>1, <3>2
  <2>8. Last' = Last
    BY <2>6, <2>7 DEF Last
  <2> QED
    BY <1>1, <2>3, <2>8 DEF Status, Height
<1> QED
  BY <1>3, <1>4 DEF BookPlaces

LEMMA BookPlacesKeep ==
  ASSUME ExecInv, ExecInv', Receipts, GasInv, FinalInv, LedgerInv, LedgerStep, [Next]_vars
  PROVE  BookPlaces'
<1>1. CASE pc' \notin {"flush", "apply", "book"}
  BY <1>1 DEF BookPlaces
<1> QED
  BY <1>1, EveryBookPlace, WaitsPlaces, OpenPlaces, BookExitPlaces, FlushPlaces, ReceiptsPlaces

-----------------------------------------------------------------------------
(* The startup's places in the books *)

\* A process begins with what is on disk, and saves what it books.
LEMMA EveryAlike ==
  ASSUME LedgerInv, [Next]_vars, pc' \in Boot
  PROVE  saved' = positions'
<1>0. pc \in Boot => saved = positions
  BY DEF LedgerInv, BootPlaces
<1>1. CASE Entries
  BY <1>0, <1>1 DEF Entries, BeginEntry, PresignFails, Presign, Unsent, FireBurst, RecordAnswer, RefreshNonce,
     NoFill, OpenPosition, Return, Boot
<1>2. CASE Exits
  <2>1. CASE Unwind
    <3>1. CASE RequiresRecovery(Op)
      BY <2>1, <3>1 DEF Unwind, Return, Boot
    <3>2. CASE ~ RequiresRecovery(Op) /\ OperationGas(Op) > 0
      BY <2>1, <3>2 DEF Unwind, Boot
    <3>3. CASE ~ RequiresRecovery(Op) /\ ~ OperationGas(Op) > 0
      BY <2>1, <3>3 DEF Unwind, Boot
    <3> QED
      BY <3>1, <3>2, <3>3
  <2>2. CASE \E p \in positions : \E qty \in 1 .. p.held : DecideExit(p, qty)
    BY <2>2 DEF DecideExit, Running
  <2> QED
    BY <1>0, <1>2, <2>1, <2>2 DEF Exits, BeginExit, StageSend, TradeFails, Send, RecordSend, BookExit, BookFails,
       FailExit, Return, Boot
<1>3. CASE Both
  BY <1>3 DEF Both, Confirm, RecordReceipts, Flush, FlushFails, RecordApplied, Return, Boot
<1>4. CASE Session
  <2>1. CASE Shutdown \/ Crash
    BY <2>1 DEF Shutdown, Crash, ProcessEnds
  <2>2. CASE CanonicalCheck \/ StopRequest \/ Age
    BY <1>0, <2>2 DEF CanonicalCheck, StopRequest, Age
  <2>3. CASE FlushIfDue
    BY <2>3 DEF FlushIfDue
  <2> QED
    BY <1>4, <2>1, <2>2, <2>3 DEF Session
<1>5. CASE Startup
  <2>1. CASE RecoverEntry \/ RecoverExit \/ RecordBooked
    BY <1>0, <2>1 DEF RecoverEntry, RecoverExit, RecordBooked, Verdict
  <2>2. CASE RecoverFill \/ RecoverSale \/ RecoverGas
    <3>1. Booked \/ Verdict(TRUE, "Pending")
      BY <2>2 DEF RecoverFill, RecoverSale, RecoverGas
    <3>2. CASE Booked
      BY <3>2 DEF Booked
    <3>3. CASE Verdict(TRUE, "Pending")
      BY <1>0, <3>3 DEF Verdict
    <3> QED
      BY <3>1, <3>2, <3>3
  <2>3. CASE BootFails
    BY <2>3 DEF BootFails, ProcessEnds
  <2>4. CASE Restart \/ RefreshTx \/ RecoverApplied \/ Start
    BY <1>0, <2>4 DEF Restart, RefreshTx, RecoverApplied, Recovering, Start, Boot
  <2> QED
    BY <1>5, <2>1, <2>2, <2>3, <2>4 DEF Startup
<1>6. CASE Environment \/ UNCHANGED vars
  BY <1>0, <1>6 DEF Environment, processVars, vars
<1> QED
  BY <1>1, <1>2, <1>3, <1>4, <1>5, <1>6 DEF Next

BookedNow ==
  pc = "boot" /\ rec.booked /\ (Current.kind = "Entry" \/ Sale # {}) => InBooks(positions, Target)

LEMMA UnbookedNow ==
  ASSUME rec'.booked = FALSE
  PROVE  BookedNow'
BY DEF BookedNow

LEMMA BookedIs ==
  ASSUME ExecInv, Recovering, Booked,
         Current.kind = "Entry" \/ Sale # {} => InBooks(positions', Target)
  PROVE  BookedNow'
<1>1. UNCHANGED <<ops>> /\ rec'.todo = rec.todo
  BY BookedRec DEF Booked, ExecInv, Scalars
<1>2. Target' = Target /\ Current' = Current /\ Sale' = Sale
  BY <1>1 DEF Target, Current, Sale, ConfirmedIn
<1>3. PICK o : o = Target
  OBVIOUS
<1>4. InBooks(positions', o) <=> InBooks(positions, o)'
  BY <1>1 DEF InBooks
<1>5. InBooks(positions', Target) <=> InBooks(positions', o)
  BY <1>3
<1>6. InBooks(positions, Target)' <=> InBooks(positions, o)'
  BY <1>2, <1>3 DEF InBooks
<1> QED
  BY <1>2, <1>4, <1>5, <1>6 DEF BookedNow

LEMMA RecoverFillNow ==
  ASSUME ExecInv, RecoverFill
  PROVE  BookedNow'
<1>1. Recovering /\ Current.kind = "Entry" /\ Booked
  BY DEF RecoverFill, Recovered
<1>2. PICK q : q = NewPosition(Target, "recover", Min(Fill), Cardinality(Fill), OperationGas(Current))
  OBVIOUS
<1>3. q \in positions' /\ q.id[1] = Target
  BY <1>2 DEF RecoverFill, NewPosition
<1>4. InBooks(positions', Target)
  BY <1>1, <1>3 DEF InBooks, Current
<1> QED
  BY <1>1, <1>4, BookedIs

LEMMA RecoverSaleNow ==
  ASSUME ExecInv, RecoverSale
  PROVE  BookedNow'
<1>0. Recovered("Exit") /\ Recovering /\ Current.kind = "Exit" /\ rec \in Recovery
  BY DEF RecoverSale, Recovered, ExecInv, Scalars
<1>1. CASE ~ (Known(Current.subject) /\ Open(Holder))
  <2>1. \E blocked : NextTarget(blocked)
    BY <1>1 DEF RecoverSale, Verdict
  <2> QED
    BY <1>0, <2>1, NextRec, UnbookedNow
<1>2. CASE Known(Current.subject) /\ Open(Holder)
  <2>1. PICK p, k, h, qty, gas, q :
          /\ p = Holder /\ k = Min(Sale) /\ h = <<Target, k>> /\ qty = signed[h].qty
          /\ gas = OperationGas(Current) /\ q = ApplyExit(p, qty, h, gas)
    OBVIOUS
  <2>2. Landed(h) /\ Update(p, q) /\ Booked /\ Sale # {}
    BY <1>2, <2>1 DEF RecoverSale
  <2>3. p \in Position
    BY <1>0, <1>2, <2>1, KnownIs DEF Holder, ExecInv
  <2>4. h \in DOMAIN signed
    BY <2>2, MinedIs DEF ExecInv
  <2>5. qty \in Nat
    BY <2>1, <2>4 DEF ExecInv, ChainTyped, SignedTx
  <2>6. k \in Nat
    <3>1. Sale \in SUBSET Nat
      BY <1>0, TargetIs DEF Sale, ConfirmedIn
    <3> QED
      BY <2>1, <2>2, <3>1, MinIs
  <2>7. h \in Hash /\ gas \in Nat
    BY <1>0, <2>1, <2>6, TargetIs, GasType DEF Hash
  <2>8. SoldFrom(q, p, qty, h, gas)
    <3>1. q = ApplyExit(p, qty, h, gas)
      BY <2>1
    <3> QED
      BY <2>3, <2>5, <2>7, <3>1, ApplyExitIs
  <2>9. h \in q.exits /\ h[1] = Target
    BY <2>1, <2>8 DEF SoldFrom
  <2>10. InBooks(positions', Target)
    BY <1>0, <2>2, <2>9 DEF InBooks, Update, Current
  <2> QED
    BY <1>0, <2>2, <2>10, BookedIs
<1> QED
  BY <1>1, <1>2

LEMMA RecoverGasNow ==
  ASSUME ExecInv, RecoverGas
  PROVE  BookedNow'
<1>0. Recovering /\ Current.kind = "Exit" /\ Sale = {} /\ rec \in Recovery
  BY DEF RecoverGas, Recovered, ExecInv, Scalars
<1>1. CASE Booked
  BY <1>0, <1>1, BookedIs
<1>2. CASE Verdict(TRUE, "Pending")
  <2>1. \E blocked : NextTarget(blocked)
    BY <1>2 DEF Verdict
  <2> QED
    BY <1>0, <2>1, NextRec, UnbookedNow
<1> QED
  BY <1>1, <1>2 DEF RecoverGas

LEMMA BootPlacesKeep ==
  ASSUME ExecInv, FinalInv, LedgerInv, [Next]_vars
  PROVE  BootPlaces'
<1>0. ASSUME UNCHANGED <<pc, rec, ops, positions>>
      PROVE  BookedNow'
  BY <1>0 DEF LedgerInv, BootPlaces, BookedNow, Current, Target, Sale, ConfirmedIn, InBooks
<1>1. ASSUME Environment \/ UNCHANGED vars
      PROVE  BookedNow'
  BY <1>0, <1>1 DEF Environment, processVars, vars, memVars
<1>2. ASSUME Startup
      PROVE  BookedNow'
  <2>1. ASSUME Restart
        PROVE  BookedNow'
    BY <2>1, UnbookedNow DEF Restart, NoRec
  <2>2. ASSUME RefreshTx
        PROVE  BookedNow'
    <3>1. rec \in Recovery /\ pc = "boot" /\ ~ Refreshed
      BY <2>2 DEF ExecInv, Scalars, RefreshTx, Recovering
    <3>2. rec.booked = FALSE
      BY <3>1 DEF FinalInv, BookedOK, Recovery
    <3>3. rec'.booked = FALSE
      BY <2>2, <3>1, <3>2, RefreshRec
    <3> QED
      BY <3>3, UnbookedNow
  <2>3. ASSUME RecoverApplied \/ RecoverEntry \/ RecoverExit \/ RecordBooked
        PROVE  BookedNow'
    <3>1. \E blocked : NextTarget(blocked)
      BY <2>3 DEF RecoverApplied, RecoverEntry, RecoverExit, RecordBooked, Verdict
    <3> QED
      BY <3>1, NextRec, UnbookedNow DEF ExecInv, Scalars
  <2>4. ASSUME BootFails \/ Start
        PROVE  BookedNow'
    BY <2>4 DEF BootFails, ProcessEnds, Start, BookedNow
  <2> QED
    BY <1>2, <2>1, <2>2, <2>3, <2>4, RecoverFillNow, RecoverSaleNow, RecoverGasNow DEF Startup
<1>3. ASSUME pc' # "boot"
      PROVE  BookedNow'
  BY <1>3 DEF BookedNow
<1>4. BookedNow'
  BY <1>1, <1>2, <1>3, BootSteps
<1> QED
  BY <1>4, EveryAlike DEF BootPlaces, BookedNow

-----------------------------------------------------------------------------
LEMMA InitLedger ==
  ASSUME Init
  PROVE  LedgerInv
<1>1. DOMAIN ops = {} /\ DOMAIN signed = {} /\ positions = {} /\ saved = {} /\ pc = "down"
  BY DEF Init, ChainInit
<1>2. TokensOK /\ AppliedBooked /\ BookPlaces /\ BootPlaces
  BY <1>1 DEF TokensOK, AppliedBooked, BookPlaces, BootPlaces
<1>3. Behind /\ OnePending /\ JobQty /\ EntryFresh /\ RecoverOnDisk
  BY <1>1 DEF Behind, Ids, OnePending, JobQty, EntryFresh, InExit, InEntry, Quiet, Boot, RecoverOnDisk
<1> QED
  BY <1>1, <1>2, <1>3 DEF LedgerInv

LEMMA NextLedger ==
  ASSUME ExecInv, ExecInv', Receipts, GasInv, FinalInv, FinalInv', LedgerInv, MaxReorgs = 0, [Next]_vars
  PROVE  LedgerInv'
<1>1. LedgerStep
  BY EveryStep, EveryBook, EveryVerdict, EverySigns DEF LedgerStep
<1>2. ASSUME NEW p \in positions' \cup saved'
      PROVE  PositionOK(p)' /\ SaleFits(p)'
  <2>1. PositionOK(p)
    BY <1>1, GoodNow DEF GoodBook, LedgerStep
  <2>2. \A h \in p.exits : Landed(h)
    BY ExitsLanded DEF FinalInv
  <2>3. PositionOK(p)'
    BY <1>1, <2>1, <2>2, PositionStays DEF LedgerStep
  <2> QED
    BY <1>1, <2>3, FitsStays
<1>3. TokensOK' /\ AppliedBooked'
  BY <1>1, TokensKeep, AppliedKeeps
<1>4. BookPlaces' /\ BootPlaces'
  BY <1>1, BookPlacesKeep, BootPlacesKeep
<1>5. Behind' /\ OnePending' /\ RecoverOnDisk'
  BY <1>1, BehindKeeps, OnePendingKeeps, OnDiskKeeps
<1>6. JobQty' /\ EntryFresh'
  BY <1>1, JobQtyKeeps, FreshKeeps
<1> QED
  BY <1>2, <1>3, <1>4, <1>5, <1>6 DEF LedgerInv

\* Once no operation on a token is pending, the wallet's balance is what the
\* positions hold, in memory and on disk alike, whatever was sent, lost, crashed or
\* recovered on the way; unless an entry has bought a second time.  Without a reorg
\* and with one route to the sequencer, as for FailuresAreFinal, which it rests on:
\* an operation that failed has moved nothing that the books would lack.
THEOREM LedgerAlwaysMatches ==
  ASSUME MaxReorgs = 0, Fallback = FALSE
  PROVE  Spec => []LedgerMatchesChain
<1>1. Init => ExecInv /\ Receipts /\ GasInv /\ FinalInv /\ LedgerInv
  BY InitExec, InitGas, InitFinal, InitLedger
<1>2. (ExecInv /\ Receipts /\ GasInv /\ FinalInv /\ LedgerInv) /\ [Next]_vars
        => (ExecInv /\ Receipts /\ GasInv /\ FinalInv /\ LedgerInv)'
  <2> SUFFICES ASSUME ExecInv, Receipts, GasInv, FinalInv, LedgerInv, [Next]_vars
               PROVE  (ExecInv /\ Receipts /\ GasInv /\ FinalInv /\ LedgerInv)'
    OBVIOUS
  <2>1. ExecInv' /\ Receipts' /\ GasInv' /\ FinalInv'
    BY NextExec, NextGas, NextFinal
  <2>2. LedgerInv'
    BY <2>1, NextLedger
  <2> QED
    BY <2>1, <2>2
<1>3. ExecInv /\ Receipts /\ GasInv /\ FinalInv /\ LedgerInv => LedgerMatchesChain
  BY LedgerHolds
<1> QED
  BY <1>1, <1>2, <1>3, PTL DEF Spec
================================================================================
