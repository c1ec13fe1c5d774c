--------------------------- MODULE ExecutionRecovery ---------------------------
(***************************************************************************)
(* Startup over LiveExecution: TxJournal::recover refreshes the receipts   *)
(* of every pending operation and of every recently applied one, books     *)
(* what has landed and the process never did, and lets the session start   *)
(* only when nothing is undecided.  The chain moves on meanwhile, and the  *)
(* process may die again at any point.                                     *)
(***************************************************************************)
EXTENDS LiveExecution

-----------------------------------------------------------------------------
(* Startup: TxJournal::recover, then the nonce *)

Restart ==
  /\ pc = "down"
  /\ pc' = "boot"
  /\ rec' = [NoRec EXCEPT !.todo = {o \in DOMAIN ops : NeedsRecovery(ops[o], LatestCount)},
                          !.snap = ops, !.latest = LatestCount, !.pending = PendingCount]
  /\ UNCHANGED <<ops, positions, saved, nonce, stop, closing, queue, cur, job, out, bad,
                 aged, faults, chainVars>>

Target == Min(rec.todo)
Current == ops[Target]
Refreshed == rec.k > Len(Current.txs)
Recovering == pc = "boot" /\ rec.todo # {}
NextTarget(blocked) ==
  rec' = [rec EXCEPT !.todo = @ \ {Target}, !.k = 1, !.booked = FALSE, !.blocked = @ \/ blocked]

\* Mutant: the pending count is not looked at.
DroppableLatest(o, tx) == o <= aged /\ rec.latest <= tx.nonce

\* Mutant: what cannot be found is never given up.
NeverDroppable(o, tx) == o <= aged /\ tx.nonce < 0

\* Old, and reached by neither nonce count: it can no longer be mined.
Droppable(o, tx) == o <= aged /\ rec.latest <= tx.nonce /\ rec.pending <= tx.nonce

\* refresh_receipts, one transaction: a receipt decides; without one, or when it
\* cannot be read, the transaction is Dropped or Unresolved.
RefreshTx ==
  LET tx == Current.txs[rec.k]
      h == <<Target, rec.k>>
      missing == IF Droppable(Target, tx) THEN Drop(Current, rec.k)
                                          ELSE Mark(Current, rec.k, "Unresolved")
  IN  /\ Recovering /\ ~ Refreshed
      /\ rec' = [rec EXCEPT !.k = @ + 1]
      /\ IF tx.state \in {"Rejected", "Dropped"}
         THEN UNCHANGED <<ops, faults>>
         ELSE IF Landed(h)
              THEN \/ Put(Target, Resolve(Current, rec.k, Status(h), Block(h))) /\ UNCHANGED faults
                   \/ Fault /\ Put(Target, missing)
              ELSE Put(Target, missing) /\ UNCHANGED faults
      /\ UNCHANGED <<positions, saved, nonce, stop, closing, queue, pc, cur, job, out,
                     bad, aged, chainVars>>

RecoverApplied ==
  /\ Recovering /\ Refreshed /\ rec.snap[Target].state = "Applied"
  /\ NextTarget(ResolvedReceiptsChanged(rec.snap[Target], Current))
  /\ UNCHANGED <<ops, positions, saved, nonce, stop, closing, queue, pc, cur, job, out,
                 bad, aged, faults, chainVars>>

Recovered(kind) ==
  /\ Recovering /\ Refreshed /\ ~ rec.booked
  /\ rec.snap[Target].state = "Pending" /\ Current.kind = kind

ConfirmedIn(step) ==
  {k \in DOMAIN Current.txs : Current.txs[k].state = "Confirmed" /\ Current.txs[k].step = step}

\* The journal's verdict on the target: block, or record its final state.
Verdict(blocked, state) ==
  /\ NextTarget(blocked)
  /\ IF blocked THEN UNCHANGED ops ELSE Put(Target, WithState(Current, state))
  /\ UNCHANGED <<positions, saved, nonce, stop, closing, queue, pc, cur, job, out, bad,
                 aged, faults, chainVars>>

\* What landed is booked and flushed before the verdict: the process may die in
\* between.
Booked ==
  /\ saved' = positions'
  /\ rec' = [rec EXCEPT !.booked = TRUE]
  /\ UNCHANGED <<ops, nonce, stop, closing, queue, pc, cur, job, out, bad, aged,
                 faults, chainVars>>

\* recover_entry
Fill == ConfirmedIn("entry")
HasPosition(o) == \E p \in positions : p.entry[1] = o

RecoverEntry ==
  /\ Recovered("Entry")
  /\ HasPosition(Target) \/ Fill = {}
  /\ Verdict(HasAmbiguous(Current), IF HasPosition(Target) THEN "Applied" ELSE "Failed")

RecoverFill ==
  /\ Recovered("Entry") /\ ~ HasPosition(Target) /\ Fill # {}
  /\ \A k \in Fill : Landed(<<Target, k>>)
  /\ positions' = positions \cup
       {NewPosition(Target, "recover", Min(Fill), Cardinality(Fill), OperationGas(Current))}
  /\ Booked

\* recover_exit
\* Mutant: any exit of the position counts as this one.
AnyExitBooked(o) == \E p \in positions : p.id = ops[o].subject /\ p.exits # {}

ExitBooked(o) ==
  \E p \in positions : p.id = ops[o].subject /\ \E h \in p.exits : h[1] = o

Sale == ConfirmedIn("sell")
Owed == OperationGas(Current) > 0
Holder == Pos(Current.subject)

RecoverExit ==
  /\ Recovered("Exit")
  /\ \/ ExitBooked(Target) /\ Verdict(FALSE, "Applied")
     \/ ~ ExitBooked(Target) /\ Sale = {} /\ RequiresRecovery(Current) /\ Verdict(TRUE, "Pending")
     \/ ~ ExitBooked(Target) /\ Sale = {} /\ ~ RequiresRecovery(Current) /\ ~ Owed
        /\ Verdict(FALSE, "Failed")

RecoverSale ==
  LET k == Min(Sale)
  IN  /\ Recovered("Exit") /\ ~ ExitBooked(Target) /\ Sale # {} /\ Landed(<<Target, k>>)
      /\ IF Known(Current.subject) /\ Open(Holder)
         THEN /\ Update(Holder, ApplyExit(Holder, signed[<<Target, k>>].qty, <<Target, k>>,
                                         OperationGas(Current)))
              /\ Booked
         ELSE Verdict(TRUE, "Pending")

RecoverGas ==
  /\ Recovered("Exit") /\ ~ ExitBooked(Target) /\ Sale = {} /\ ~ RequiresRecovery(Current) /\ Owed
  /\ IF Known(Current.subject)
     THEN /\ Update(Holder, ChargeOverhead(Holder, Target, OperationGas(Current)))
          /\ Booked
     ELSE Verdict(TRUE, "Pending")

RecordBooked ==
  /\ Recovering /\ rec.booked
  /\ LET sold == Fill # {} \/ Sale # {}
     IN  Verdict(Current.kind = "Entry" /\ HasAmbiguous(Current), IF sold THEN "Applied" ELSE "Failed")

Vanished(step) == \E k \in ConfirmedIn(step) : ~ Landed(<<Target, k>>)

\* Startup ends without a session: blocked, a receipt that has vanished since
\* the refresh, or a failed read.
BootFails ==
  /\ pc = "boot"
  /\ \/ rec.todo = {} /\ rec.blocked /\ UNCHANGED faults
     \/ Recovered("Entry") /\ ~ HasPosition(Target) /\ Vanished("entry") /\ UNCHANGED faults
     \/ Recovered("Exit") /\ ~ ExitBooked(Target) /\ Vanished("sell") /\ UNCHANGED faults
     \/ Fault
  /\ ProcessEnds(saved)
  /\ UNCHANGED <<ops, aged, chainVars>>

Start ==
  /\ pc = "boot" /\ rec.todo = {} /\ ~ rec.blocked
  /\ pc' = "idle"
  /\ nonce' = PendingCount
  /\ rec' = NoRec
  /\ UNCHANGED <<ops, positions, saved, stop, closing, queue, cur, job, out, bad, aged,
                 faults, chainVars>>

-----------------------------------------------------------------------------
Entries ==
  \/ \E t \in Token : BeginEntry(t)
  \/ PresignFails \/ Presign \/ Unsent \/ FireBurst \/ RecordAnswer
  \/ RefreshNonce \/ NoFill \/ OpenPosition

Exits ==
  \/ \E p \in positions : \E qty \in 1 .. p.held : DecideExit(p, qty)
  \/ \E j \in queue : BeginExit(j)
  \/ \E step \in {"approval", "sell"} : StageSend(step)
  \/ TradeFails \/ Send \/ RecordSend \/ BookExit \/ BookFails \/ Unwind \/ FailExit

Both ==
  \/ \E k \in DOMAIN out : Confirm(k)
  \/ RecordReceipts \/ Flush \/ FlushFails \/ RecordApplied

Session == CanonicalCheck \/ StopRequest \/ FlushIfDue \/ Shutdown \/ Crash \/ Age

Startup ==
  \/ Restart \/ RefreshTx \/ RecoverApplied
  \/ RecoverEntry \/ RecoverFill \/ RecoverExit \/ RecoverSale \/ RecoverGas
  \/ RecordBooked \/ BootFails \/ Start

processVars == <<ops, positions, saved, memVars, pc, aged, faults>>

Environment == ChainNext /\ faults + forks' <= MaxFaults /\ UNCHANGED processVars

Next == Entries \/ Exits \/ Both \/ Session \/ Startup \/ Environment

Spec == Init /\ [][Next]_vars

(* Fairness.  A task that can run runs (tokio), a process that ended is      *)
(* started again, its startup goes on until it is blocked, fails or has      *)
(* started the session, time passes, and the network delivers or loses, and  *)
(* mines or drops, what it was given.  Nothing makes an operation begin.     *)
Owner ==
  \/ Presign \/ Unsent \/ FireBurst \/ RecordAnswer \/ RefreshNonce \/ NoFill
  \/ OpenPosition \/ Both \/ TradeFails \/ Send \/ RecordSend \/ BookExit
  \/ Unwind \/ FailExit \/ \E j \in queue : BeginExit(j)

Fairness ==
  /\ WF_vars(Owner)
  /\ WF_vars(CanonicalCheck)
  /\ WF_vars(Shutdown)
  /\ WF_vars(Startup)
  /\ SF_vars(Age)
  /\ WF_vars(Delivery /\ UNCHANGED processVars)
  /\ WF_vars(Inclusion /\ UNCHANGED processVars)

FairSpec == Spec /\ Fairness

-----------------------------------------------------------------------------
(* Properties *)

PC == {"down", "boot", "idle", "sign", "armed", "answers", "confirm", "refresh", "settle",
       "flush", "charged", "apply", "fail", "trade", "send", "answer", "book", "unwind"}

Position ==
  [id : Nat \X {"live", "recover"}, token : Token, entry : Nat \X Nat, held : Nat,
   exits : SUBSET (Nat \X Nat), gas : Nat, exitGas : Nat, overhead : SUBSET Nat]

TypeOK ==
  /\ ChainTypeOK
  /\ \A o \in DOMAIN ops :
       /\ ops[o].kind \in {"Entry", "Exit"} /\ ops[o].state \in OperationState
       /\ \A k \in DOMAIN ops[o].txs : ops[o].txs[k] \in TxRecord
  /\ \A p \in positions \cup saved : p \in Position
  /\ nonce \in Nat /\ stop \in BOOLEAN /\ bad \in BOOLEAN
  /\ closing \subseteq {p.id : p \in positions}
  /\ pc \in PC /\ cur \in 0 .. Len(ops) /\ aged \in 0 .. Len(ops) /\ faults \in Nat

\* The token an operation moves.
TokenOf(o) ==
  IF ops[o].kind = "Entry" THEN ops[o].subject ELSE ops[ops[o].subject[1]].subject

PendingOn(t) == \E o \in DOMAIN ops : ops[o].state = "Pending" /\ TokenOf(o) = t

\* The attempts of an entry that bought.
Bought(o) ==
  {h \in DOMAIN signed :
     h[1] = o /\ signed[h].kind = "buy" /\ Landed(h) /\ Status(h)}

\* README.md: the helper "reverts if the tax is still high or you already bought".
\* An entry buys once, however many attempts it sends.
BoughtOnce == \A o \in DOMAIN ops : Cardinality(Bought(o)) <= 1

BoughtTwice(t) ==
  \E o \in DOMAIN ops : TokenOf(o) = t /\ Cardinality(Bought(o)) > 1

\* The books agree with the chain: once no operation on a token is pending, the
\* wallet's balance is what the positions hold, in memory and on disk alike,
\* whatever was sent, lost, crashed or recovered on the way; unless an entry has
\* bought a second time, which BoughtOnce shows to be possible.
LedgerMatchesChain ==
  \A t \in Token :
    \/ PendingOn(t) \/ BoughtTwice(t)
    \/ Balance(t) = Held(positions, t) /\ Balance(t) = Held(saved, t)

\* An operation is failed only when nothing of it moved tokens and nothing of
\* it can still land.
FailedIsFinal ==
  \A o \in DOMAIN ops : \A k \in DOMAIN ops[o].txs :
    ops[o].state = "Failed" =>
      /\ <<o, k>> \notin flight \cup pool
      /\ Landed(<<o, k>>) /\ HasEffect(ops[o].txs[k]) => ~ Status(<<o, k>>)

\* The gas a position's finished exits burnt, and what it has been charged.
ExitsOf(p) == {o \in DOMAIN ops : ops[o].kind = "Exit" /\ ops[o].subject = p.id}
BurntOn(p) == Cardinality({h \in DOMAIN signed : h[1] \in ExitsOf(p) /\ Landed(h)})
Settled(p) == \A o \in ExitsOf(p) : ops[o].state # "Pending"

\* No exit's gas is charged twice to its position, whichever of the live path,
\* finish_failed_exit and recovery charges it, and however often each starts over.
ExitGasNeverTwice == \A p \in saved : p.exitGas <= BurntOn(p)

\* docs/STRATEGY.md: PnL "includes actual approval/sell gas plus any resolved
\* failed-exit gas charged idempotently to that position".
ExitGasInFull == \A p \in saved : Settled(p) => p.exitGas = BurntOn(p)

\* The quantity an exit read before it waited for the permit is still there when
\* it sells: nothing else sells from a position under its CloseGuard.
SnapshotCurrent ==
  \A j \in queue \cup (IF pc \in {"trade", "send", "answer", "book"} THEN {job} ELSE {}) :
    Known(j.pos) /\ j.qty <= Pos(j.pos).held

\* Whenever a running session could begin an operation, its nonce is the
\* chain's and none of the wallet's transactions is still on its way.
NonceInStep ==
  pc = "idle" /\ ~ stop => nonce = PendingCount /\ flight = {} /\ pool = {}

\* docs/SAFETY.md: "a submitted transaction has no definitive receipt" ...
\* "blocks execution until recovery".  No operation begins while another has
\* an unresolved transaction.
UnresolvedBlocks ==
  [][Len(ops') > Len(ops) =>
       \A o \in DOMAIN ops : \A k \in DOMAIN ops[o].txs :
         ops[o].txs[k].state # "Unresolved"]_vars

\* docs/ARCHITECTURE.md: "Applied operations are rechecked" ... "at startup"; "any
\* changed receipt halts execution".  No session starts over an applied operation
\* whose fill the journal itself no longer holds confirmed.
StartsOnConfirmedFills ==
  [][pc = "boot" /\ pc' = "idle" =>
       \A o \in DOMAIN ops : ops[o].state = "Applied" =>
         \E k \in DOMAIN ops[o].txs :
           ops[o].txs[k].state = "Confirmed" /\ HasEffect(ops[o].txs[k])]_vars

\* "... and every ten seconds while live": a running session stops once the chain
\* no longer has what an applied operation of the last blocks recorded.
Moved(o, k) ==
  LET tx == ops[o].txs[k]
  IN  /\ ops[o].state = "Applied" /\ tx.state \in ResolvedState
      /\ LatestCount <= tx.block.number + CanonicalityDepth
      /\ Landed(<<o, k>>) => Block(<<o, k>>) # tx.block

AnyMoved == \E o \in DOMAIN ops : \E k \in DOMAIN ops[o].txs : Moved(o, k)

ChangedReceiptHalts == (Running /\ AnyMoved) ~> (stop \/ ~ Running \/ ~ AnyMoved)

\* No operation stays undecided: restarts settle what a session left pending,
\* as Applied or as Failed.
PendingResolves ==
  \A o \in 1 .. MaxOps :
    (o \in DOMAIN ops /\ ops[o].state = "Pending")
      ~> (o \in DOMAIN ops /\ ops[o].state # "Pending")
==============================================================================
