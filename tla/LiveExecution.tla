----------------------------- MODULE LiveExecution -----------------------------
(***************************************************************************)
(* The live execution owner: handle_launch's send path, the exits of the   *)
(* manage loop and of a manual close, and LiveExec, over the operation     *)
(* journal (TxJournal) and the wallet's chain (WalletChain).  The startup  *)
(* that picks up what a session left is ExecutionRecovery.                 *)
(*                                                                         *)
(* One permit serialises operations (ExecutionScheduler), so one program   *)
(* counter runs them; `idle` is a free permit.  Every point at which the   *)
(* process may die with different durable state is between two actions.    *)
(* The journal is durable at every record; positions live in memory and    *)
(* are durable only when flushed.                                          *)
(***************************************************************************)
EXTENDS TxJournal, WalletChain

CONSTANTS
  Attempts,     \* BURST_MAX: signed attempts of one entry
  Fallback,     \* several routes to the sequencer (pinned addresses, public RPC)?
  MaxOps,       \* bound: operations in a behaviour
  MaxFaults     \* bound: crashes, failed flushes, signings and reads, and reorgs, together

ASSUME ExecutionAssumption ==
  Attempts \in Nat \ {0} /\ Fallback \in BOOLEAN /\ MaxOps \in Nat /\ MaxFaults \in Nat

VARIABLES
  ops,        \* TxJournal.operations; in memory and on disk alike
  positions,  \* PositionStore.list
  saved,      \* the redb position snapshot
  nonce,      \* Wallet.nonce
  stop,       \* stop and paused, which halt sets together
  closing,    \* position ids under a CloseGuard
  queue,      \* exits decided, waiting for the permit: the position and quantity read
  pc,         \* where the owner of the permit is, or the startup
  cur,        \* the operation in hand
  job,        \* the exit in hand
  out,        \* per transaction sent: the answer, then the receipt
  bad,        \* safety_error or unresolved: apply, but halt
  rec,        \* recover's locals
  aged,       \* operations 1 .. aged were created more than 60 s ago
  faults

memVars  == <<nonce, stop, closing, queue, cur, job, out, bad, rec>>
vars == <<ops, positions, saved, memVars, pc, aged, faults, chainVars>>

NoJob == [pos |-> <<0, "none">>, qty |-> 0]
NoRec == [todo |-> {}, k |-> 1, snap |-> <<>>, latest |-> 0, pending |-> 0,
          booked |-> FALSE, blocked |-> FALSE]
NoAnswer == [ans |-> "none", block |-> NoBlock]

Boot == {"down", "boot"}
Running == pc \notin Boot

Op == ops[cur]
Last == Len(Op.txs)
Put(o, op) == ops' = [ops EXCEPT ![o] = op]
WithState(op, state) == [op EXCEPT !.state = state]
Fault == faults + forks < MaxFaults /\ faults' = faults + 1
Halt(yes) == stop' = (stop \/ yes)

\* The operation's handler returns and drops its permit; an exit keeps its
\* CloseGuard when it halts with the sale's fate open.
Return(keep) ==
  /\ pc' = "idle" /\ cur' = 0 /\ job' = NoJob /\ out' = <<>> /\ bad' = FALSE
  /\ closing' = IF keep THEN closing ELSE closing \ {job.pos}

-----------------------------------------------------------------------------
(* Positions: a position is opened by the first filling attempt of an entry *)
(* operation, under an id made of the token and the moment it was opened:   *)
(* recovery opens it under another one.                                     *)

NewPosition(o, by, entry, fills, gas) ==
  [id |-> <<o, by>>, token |-> ops[o].subject, entry |-> <<o, entry>>,
   held |-> Lot * fills, exits |-> {}, gas |-> gas, exitGas |-> 0, overhead |-> {}]

Held(ps, t) == MapThenSumSet(LAMBDA p : p.held, {p \in ps : p.token = t})
Open(p) == p.held > 0
Known(id) == \E p \in positions : p.id = id
Pos(id) == CHOOSE p \in positions : p.id = id
Update(p, q) == positions' = (positions \ {p}) \cup {q}

\* Position::apply_exit
ApplyExit(p, qty, h, gas) ==
  [p EXCEPT !.held = @ - Min({qty, p.held}), !.exits = @ \cup {h}, !.exitGas = @ + gas]

\* Mutant: the operation is not looked up among those already charged.
ChargeAgain(p, o, gas) == [p EXCEPT !.exitGas = @ + gas, !.overhead = @ \cup {o}]

\* Position::charge_overhead_gas: once per operation.
ChargeOverhead(p, o, gas) ==
  IF o \in p.overhead THEN p
  ELSE [p EXCEPT !.exitGas = @ + gas, !.overhead = @ \cup {o}]

-----------------------------------------------------------------------------
Init ==
  /\ ops = <<>> /\ positions = {} /\ saved = {}
  /\ nonce = 0 /\ stop = FALSE /\ closing = {} /\ queue = {}
  /\ pc = "down" /\ cur = 0 /\ job = NoJob /\ out = <<>> /\ bad = FALSE
  /\ rec = NoRec /\ aged = 0 /\ faults = 0
  /\ ChainInit

\* take_nonces / next_nonce, sign, Stage / StageMany: durable before any send.
Reserve(step, n, payload) ==
  LET new == {<<cur, Last + i>> : i \in 1 .. n}
  IN  /\ nonce' = nonce + n
      /\ Put(cur, StageMany(Op, step, [i \in 1 .. n |-> nonce + i - 1]))
      /\ signed' = [h \in DOMAIN signed \cup new |->
                      IF h \in new
                      THEN [nonce |-> nonce + h[2] - Last - 1, kind |-> payload.kind,
                            token |-> payload.token, qty |-> payload.qty]
                      ELSE signed[h]]
      /\ out' = [k \in Last + 1 .. Last + n |-> NoAnswer]
      /\ UNCHANGED <<mined, flight, pool, forks>>

\* Mutant: one too far.
RewoundPast(start, n) == IF nonce = start + n THEN start - 1 ELSE nonce

\* rewind_nonces: a compare-and-swap from the end of the range to its start.
Rewound(start, n) == IF nonce = start + n THEN start ELSE nonce

\* Submitter: what one route answers and whether it delivers.  `accepted` is
\* our hash, or Known (the nonce is taken); `refused` a revert or reject;
\* `error` a transport failure, which may deliver.  Another route (a pinned
\* address in a spray, the public RPC after a transport failure) may refuse
\* what a failed one has delivered, and its refusal is then the outcome.
Outcome(h) ==
  {[ans |-> "accepted", sent |-> TRUE], [ans |-> "refused", sent |-> FALSE],
   [ans |-> "error", sent |-> TRUE], [ans |-> "error", sent |-> FALSE]}
  \cup (IF Nonce(h) < LatestCount \/ \E g \in pool : Nonce(g) = Nonce(h) THEN {[ans |-> "accepted", sent |-> FALSE]} ELSE {})
  \cup (IF Fallback THEN {[ans |-> "refused", sent |-> TRUE]} ELSE {})

Transmit(outcome) ==
  /\ out' = [k \in DOMAIN out |-> [NoAnswer EXCEPT !.ans = outcome[k].ans]]
  /\ flight' = flight \cup {<<cur, k>> : k \in {j \in DOMAIN out : outcome[j].sent}}
  /\ UNCHANGED <<signed, mined, pool, forks>>

-----------------------------------------------------------------------------
(* The entry burst: handle_launch from journal.begin on *)

Room == Len(ops) + Cardinality(queue) < MaxOps

BeginEntry(t) ==
  /\ pc = "idle" /\ ~ stop /\ Room
  /\ IF PendingSubject(ops, "Entry", t)
     THEN Halt(TRUE) /\ UNCHANGED <<ops, pc, cur>>
     ELSE /\ ops' = Append(ops, [kind |-> "Entry", subject |-> t,
                                 state |-> "Pending", txs |-> <<>>])
          /\ cur' = Len(ops) + 1
          /\ pc' = "sign"
          /\ UNCHANGED stop
  /\ UNCHANGED <<positions, saved, nonce, closing, queue, job, out, bad, rec,
                 aged, faults, chainVars>>

PresignFails ==
  /\ pc = "sign" /\ Fault
  /\ Put(cur, WithState(Op, "Failed"))
  /\ Halt(TRUE) /\ Return(TRUE)
  /\ UNCHANGED <<positions, saved, nonce, queue, rec, aged, chainVars>>

Presign ==
  /\ pc = "sign"
  /\ Reserve("entry", Attempts, [kind |-> "buy", token |-> Op.subject, qty |-> 0])
  /\ pc' = "armed"
  /\ UNCHANGED <<positions, saved, stop, closing, queue, cur, job, bad, rec, aged, faults>>

\* clock_fire: Aborted (paused, unhealthy clock) or Expired, nothing was sent.
Unsent ==
  /\ pc = "armed"
  /\ nonce' = Rewound(Op.txs[1].nonce, Attempts)
  /\ Put(cur, WithState(AllRejected(Op), "Failed"))
  /\ Halt(nonce' # Op.txs[1].nonce) /\ Return(TRUE)
  /\ UNCHANGED <<positions, saved, queue, rec, aged, faults, chainVars>>

FireBurst ==
  /\ pc = "armed" /\ ~ stop
  /\ \E outcome \in [DOMAIN out -> UNION {Outcome(<<cur, k>>) : k \in DOMAIN out}] :
       /\ \A k \in DOMAIN out : outcome[k] \in Outcome(<<cur, k>>)
       /\ Transmit(outcome)
  /\ pc' = "answers"
  /\ UNCHANGED <<ops, positions, saved, nonce, stop, closing, queue, cur, job, bad,
                 rec, aged, faults>>

AnswerState(ans) ==
  CASE ans = "accepted" -> "Submitted" [] ans = "refused" -> "Rejected"
    [] ans = "error" -> "Unresolved"

\* reconcile_burst, first loop: one durable record per attempt, in order.
RecordAnswer ==
  LET k == Min({j \in DOMAIN out : Op.txs[j].state = "Prepared"})
  IN  /\ pc = "answers"
      /\ Put(cur, Mark(Op, k, AnswerState(out[k].ans)))
      /\ pc' = IF k = Last THEN "confirm" ELSE "answers"
      /\ UNCHANGED <<positions, saved, memVars, aged, faults, chainVars>>

Awaited == {k \in DOMAIN out : out[k].ans \in {"accepted", "error"}}

\* confirm: a canonical receipt, or none within CONFIRM_MS.
Confirm(k) ==
  /\ pc = "confirm" /\ k \in Awaited
  /\ IF Landed(<<cur, k>>)
     THEN \/ /\ out' = [out EXCEPT ![k] =
                         [ans |-> IF Status(<<cur, k>>) THEN "confirmed" ELSE "reverted",
                          block |-> Block(<<cur, k>>)]]
             /\ UNCHANGED faults
          \/ /\ Fault
             /\ out' = [out EXCEPT ![k].ans = "unresolved"]
     ELSE /\ out' = [out EXCEPT ![k].ans = "unresolved"]
          /\ UNCHANGED faults
  /\ UNCHANGED <<ops, positions, saved, nonce, stop, closing, queue, pc, cur, job,
                 bad, rec, aged, chainVars>>

\* The receipts are recorded once all have been awaited.
WithReceipt(tx, r) ==
  CASE r.ans = "confirmed" -> [tx EXCEPT !.state = "Confirmed", !.block = r.block, !.gas = 1]
    [] r.ans = "reverted" -> [tx EXCEPT !.state = "Reverted", !.block = r.block, !.gas = 1]
    [] r.ans = "unresolved" -> [tx EXCEPT !.state = "Unresolved"]
    [] OTHER -> tx

WithReceipts(op, rs) ==
  [op EXCEPT !.txs = [k \in DOMAIN op.txs |->
     IF k \in DOMAIN rs THEN WithReceipt(op.txs[k], rs[k]) ELSE op.txs[k]]]

RecordReceipts ==
  /\ pc = "confirm" /\ Awaited = {}
  /\ Put(cur, WithReceipts(Op, out))
  /\ pc' = IF Op.kind = "Entry" THEN "refresh"
           ELSE IF out[Last].ans # "confirmed" THEN "unwind"
           ELSE IF Op.txs[Last].step = "sell" THEN "book" ELSE "trade"
  /\ UNCHANGED <<positions, saved, memVars, aged, faults, chainVars>>

Unsure == \E k \in DOMAIN out : out[k].ans = "unresolved"
Fills == {k \in DOMAIN out : out[k].ans = "confirmed"}

\* Mutant: a failed nonce read is ignored.
RefreshNonceOrNot ==
  /\ pc = "refresh"
  /\ pc' = "settle"
  /\ \/ nonce' = PendingCount /\ UNCHANGED faults
     \/ Fault /\ UNCHANGED nonce
  /\ UNCHANGED <<ops, positions, saved, stop, closing, queue, cur, job, out, bad, rec,
                 aged, chainVars>>

\* wallet.set_nonce(pending count), or its read fails.
RefreshNonce ==
  /\ pc = "refresh"
  /\ pc' = "settle"
  /\ \/ nonce' = PendingCount /\ UNCHANGED <<bad, faults>>
     \/ Fault /\ bad' = TRUE /\ UNCHANGED nonce
  /\ UNCHANGED <<ops, positions, saved, stop, closing, queue, cur, job, out, rec,
                 aged, chainVars>>

NoFill ==
  /\ pc = "settle" /\ Fills = {}
  /\ IF Unsure \/ bad
     THEN Halt(TRUE) /\ UNCHANGED ops
     ELSE Put(cur, WithState(Op, "Failed")) /\ UNCHANGED stop
  /\ Return(TRUE)
  /\ UNCHANGED <<positions, saved, nonce, queue, rec, aged, faults, chainVars>>

\* Mutant: Applied is recorded before the position is on disk.
OpenUnflushed ==
  /\ pc = "settle" /\ Fills # {}
  /\ positions' = positions \cup
       {NewPosition(cur, "live", Min(Fills), Cardinality(Fills), OperationGas(Op))}
  /\ bad' = (bad \/ Unsure \/ Cardinality(Fills) > 1)
  /\ pc' = "apply"
  /\ UNCHANGED <<ops, saved, nonce, stop, closing, queue, cur, job, out, rec, aged,
                 faults, chainVars>>

OpenPosition ==
  /\ pc = "settle" /\ Fills # {}
  /\ positions' = positions \cup
       {NewPosition(cur, "live", Min(Fills), Cardinality(Fills), OperationGas(Op))}
  /\ bad' = (bad \/ Unsure \/ Cardinality(Fills) > 1)
  /\ pc' = "flush"
  /\ UNCHANGED <<ops, saved, nonce, stop, closing, queue, cur, job, out, rec, aged,
                 faults, chainVars>>

-----------------------------------------------------------------------------
(* Durable application, entries and exits alike *)

Flush ==
  /\ pc \in {"flush", "charged"}
  /\ saved' = positions
  /\ pc' = IF pc = "flush" THEN "apply" ELSE "fail"
  /\ UNCHANGED <<ops, positions, memVars, aged, faults, chainVars>>

FlushFails ==
  /\ pc \in {"flush", "charged"} /\ Fault
  /\ Halt(TRUE) /\ Return(TRUE)
  /\ UNCHANGED <<ops, positions, saved, nonce, queue, rec, aged, chainVars>>

RecordApplied ==
  /\ pc = "apply"
  /\ IF bad THEN Halt(TRUE) /\ UNCHANGED ops
     ELSE Put(cur, WithState(Op, "Applied")) /\ UNCHANGED stop
  /\ Return(FALSE)
  /\ UNCHANGED <<positions, saved, nonce, queue, rec, aged, faults, chainVars>>

-----------------------------------------------------------------------------
(* Exits: the manage loop's and a manual close *)

\* Mutant: a position already closing may be closed again.
ClosableTwice(p) == Open(p)

\* CloseGuard::claim
Closable(p) == Open(p) /\ p.id \notin closing

\* Under a new CloseGuard the position is read and an exit decided, of all or
\* of half; then it waits for the permit.  `stop` is looked at between two
\* passes of the manage loop and two turns of the select loop only: a pass under
\* way goes on to its next positions, and one more close may be taken.
DecideExit(p, qty) ==
  /\ Running /\ Room
  /\ p \in positions /\ Closable(p)
  /\ qty \in {p.held, p.held \div 2} \ {0}
  /\ closing' = closing \cup {p.id}
  /\ queue' = queue \cup {[pos |-> p.id, qty |-> qty]}
  /\ UNCHANGED <<ops, positions, saved, nonce, stop, pc, cur, job, out, bad, rec,
                 aged, faults, chainVars>>

\* The permit is granted; neither path looks at `stop` again.
BeginExit(j) ==
  /\ pc = "idle" /\ j \in queue
  /\ queue' = queue \ {j}
  /\ IF PendingSubject(ops, "Exit", j.pos)
     THEN Halt(TRUE) /\ UNCHANGED <<ops, pc, cur, job>>
     ELSE /\ ops' = Append(ops, [kind |-> "Exit", subject |-> j.pos,
                                 state |-> "Pending", txs |-> <<>>])
          /\ cur' = Len(ops) + 1
          /\ job' = j
          /\ pc' = "trade"
          /\ UNCHANGED stop
  /\ UNCHANGED <<positions, saved, nonce, closing, out, bad, rec, aged, faults, chainVars>>

\* sell_anywhere gives up before its next send (phase, quote, RPC).
TradeFails ==
  /\ pc = "trade"
  /\ pc' = "unwind"
  /\ UNCHANGED <<ops, positions, saved, memVars, aged, faults, chainVars>>

\* ensure_allowance / ensure_permit2, then the sell.
StageSend(step) ==
  /\ pc = "trade"
  /\ step = "approval" => Op.txs = <<>>
  /\ Reserve(step, 1, [kind |-> IF step = "approval" THEN "approve" ELSE "sell",
                       token |-> Pos(job.pos).token, qty |-> job.qty])
  /\ pc' = "send"
  /\ UNCHANGED <<positions, saved, stop, closing, queue, cur, job, bad, rec, aged, faults>>

Send ==
  /\ pc = "send"
  /\ \E o \in Outcome(<<cur, Last>>) : Transmit([k \in {Last} |-> o])
  /\ pc' = "answer"
  /\ UNCHANGED <<ops, positions, saved, nonce, stop, closing, queue, cur, job, bad,
                 rec, aged, faults>>

\* submit_signed: a refusal rewinds the nonce; only then is it Rejected.
RecordSend ==
  LET start == Op.txs[Last].nonce
  IN  /\ pc = "answer"
      /\ IF out[Last].ans = "refused"
         THEN /\ nonce' = Rewound(start, 1)
              /\ Put(cur, Mark(Op, Last, IF nonce' = start THEN "Rejected" ELSE "Unresolved"))
         ELSE /\ Put(cur, Mark(Op, Last, AnswerState(out[Last].ans)))
              /\ UNCHANGED nonce
      /\ pc' = IF out[Last].ans = "accepted" THEN "confirm" ELSE "unwind"
      /\ UNCHANGED <<positions, saved, stop, closing, queue, cur, job, out, bad, rec,
                     aged, faults, chainVars>>

BookExit ==
  LET p == Pos(job.pos)
  IN  /\ pc = "book"
      /\ IF Known(job.pos) /\ Open(p)
         THEN /\ Update(p, ApplyExit(p, job.qty, <<cur, Last>>, OperationGas(Op)))
              /\ pc' = "flush"
              /\ UNCHANGED <<stop, closing, cur, job, out, bad>>
         ELSE Halt(TRUE) /\ Return(TRUE) /\ UNCHANGED positions
      /\ UNCHANGED <<ops, saved, nonce, queue, rec, aged, faults, chainVars>>

\* The confirmed pool fill cannot be priced (net_pool_quote's read fails).
BookFails ==
  /\ pc = "book" /\ Fault
  /\ pc' = "unwind"
  /\ UNCHANGED <<ops, positions, saved, memVars, aged, chainVars>>

\* The error path: halt while the journal holds something undecided, else
\* finish_failed_exit charges the gas and fails the operation.
Unwind ==
  /\ pc = "unwind"
  /\ CASE RequiresRecovery(Op) ->
            Halt(TRUE) /\ Return(TRUE) /\ UNCHANGED <<ops, positions>>
       [] ~ RequiresRecovery(Op) /\ OperationGas(Op) > 0 ->
            /\ Update(Pos(job.pos), ChargeOverhead(Pos(job.pos), cur, OperationGas(Op)))
            /\ pc' = "charged"
            /\ UNCHANGED <<ops, stop, closing, cur, job, out, bad>>
       [] OTHER ->
            /\ pc' = "fail"
            /\ UNCHANGED <<ops, positions, stop, closing, cur, job, out, bad>>
  /\ UNCHANGED <<saved, nonce, queue, rec, aged, faults, chainVars>>

FailExit ==
  /\ pc = "fail"
  /\ Put(cur, WithState(Op, "Failed"))
  /\ Return(FALSE)
  /\ UNCHANGED <<positions, saved, nonce, stop, queue, rec, aged, faults, chainVars>>

-----------------------------------------------------------------------------
(* The session around them *)

\* Mutant: a receipt is canonical when its status is, whatever its block.
CanonicalStatus(o, k) ==
  Landed(<<o, k>>) /\ Status(<<o, k>>) = (ops[o].txs[k].state = "Confirmed")

Canonical(o, k) ==
  /\ Landed(<<o, k>>)
  /\ Block(<<o, k>>) = ops[o].txs[k].block
  /\ Status(<<o, k>>) = (ops[o].txs[k].state = "Confirmed")

\* canonical_issues, every tenth manage tick.
ChangedReceipt ==
  \E o \in DOMAIN ops : \E k \in DOMAIN ops[o].txs :
    ops[o].state = "Applied" /\ InDepth(ops[o].txs[k], LatestCount) /\ ~ Canonical(o, k)

CanonicalCheck ==
  /\ Running /\ ~ stop /\ ChangedReceipt
  /\ Halt(TRUE)
  /\ UNCHANGED <<ops, positions, saved, nonce, closing, queue, pc, cur, job, out, bad,
                 rec, aged, faults, chainVars>>

StopRequest ==
  /\ Running /\ ~ stop
  /\ Halt(TRUE)
  /\ UNCHANGED <<ops, positions, saved, nonce, closing, queue, pc, cur, job, out, bad,
                 rec, aged, faults, chainVars>>

\* flush_if_due at the end of a manage pass.
FlushIfDue ==
  /\ Running /\ saved # positions
  /\ saved' = positions
  /\ UNCHANGED <<ops, positions, memVars, pc, aged, faults, chainVars>>

\* The process ends and its memory with it.
ProcessEnds(disk) ==
  /\ saved' = disk /\ positions' = disk
  /\ nonce' = 0 /\ stop' = FALSE /\ closing' = {} /\ queue' = {}
  /\ pc' = "down" /\ cur' = 0 /\ job' = NoJob /\ out' = <<>> /\ bad' = FALSE
  /\ rec' = NoRec

\* run_loop's end: every task has been awaited, positions are flushed.
Shutdown ==
  /\ pc = "idle" /\ stop /\ queue = {}
  /\ ProcessEnds(positions)
  /\ UNCHANGED <<ops, aged, faults, chainVars>>

Crash ==
  /\ pc # "down" /\ Fault
  /\ ProcessEnds(saved)
  /\ UNCHANGED <<ops, aged, chainVars>>

\* A minute passes since an operation was created.  Only recovery asks for the
\* age, moments after it has read the nonces: what becomes old in between counts
\* as old from the next startup on.
Age ==
  /\ pc = "down" /\ aged < Len(ops)
  /\ \A k \in DOMAIN ops[aged + 1].txs : Accounted(<<aged + 1, k>>)
  /\ aged' = aged + 1
  /\ UNCHANGED <<ops, positions, saved, memVars, pc, faults, chainVars>>
==============================================================================
