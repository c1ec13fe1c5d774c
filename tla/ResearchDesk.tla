----------------------------- MODULE ResearchDesk -----------------------------
(***************************************************************************)
(* A research session: run.rs (the main loop, the entry tasks, the manage  *)
(* loop, the closes by hand, halt and resume), board.rs (the close         *)
(* requests), the position store and the portfolio book, each with the     *)
(* file it is written to.  Store and book hold the same inventory, changed *)
(* one after the other; a session starts only if the two files agree.      *)
(***************************************************************************)
EXTENDS ResearchPortfolio, Sequences

CONSTANTS
  Launch,       \* launches, each one the id of the position it may become
  Price,        \* what a token may be quoted at
  Tokens,       \* bought by the entry of each launch
  QueueSize,    \* of close_tx (32)
  EntrySlots,   \* of entry_slots (64)
  ByHand,       \* bound: the positions somebody may close by hand
  MaxFaults     \* bound: stops, crashes, and failed writes, quotes and sales

ASSUME DeskAssumption ==
  /\ IsFiniteSet(Launch) /\ Price \subseteq Nat /\ IsFiniteSet(Price) /\ Tokens \in [Launch -> Nat \ {0}]
  /\ {QueueSize, EntrySlots} \subseteq Nat \ {0} /\ ByHand \subseteq Launch /\ MaxFaults \in Nat

VARIABLES
  session,     \* "up", "down", or "refused" at the start
  main,        \* the main loop, "loop", and the shutdown, "drain" and "join"
  paused, stop,
  resuming,    \* resume has read stop and the risk state, and not yet cleared paused
  portfolio,   \* the book, and the file it is kept in
  ledger,
  current,     \* entries whose admission has the book's revision
  store,       \* tokens held by each position of the store, and of the database
  saved,
  dirty,
  entry,       \* per launch: the entry task
  exit,        \* per position: the holder of its CloseGuard
  sweep,       \* the manage loop: positions it has yet to look at
  requests,    \* the board's close_requests
  queue,       \* close_rx
  faults

sessionVars == <<session, main>>
controlVars == <<paused, stop, resuming>>
bookVars == <<portfolio, ledger, current>>
storeVars == <<store, saved, dirty>>
workVars == <<entry, exit>>
boardVars == <<requests, queue>>
deskVars == <<sessionVars, controlVars, bookVars, storeVars, workVars, sweep, boardVars, faults>>

OpenIn(held) == {id \in Launch : held[id] > 0}
Agree(held, book) == OpenIn(held) = Held(book) /\ \A id \in Held(book) : book.pos[id].tokens = held[id]

Free == [at |-> "free", by |-> "none", sold |-> 0, out |-> 0]
Fresh == [at |-> "unseen", value |-> 0]
Done == [at |-> "done", value |-> 0]

DeskTypeOK ==
  /\ session \in {"up", "down", "refused"} /\ main \in {"loop", "drain", "join"}
  /\ {paused, stop, resuming, dirty} \subseteq BOOLEAN
  /\ PortfolioTypeOK(portfolio) /\ PortfolioTypeOK(ledger)
  /\ current \subseteq Launch /\ store \in [Launch -> Nat] /\ saved \in [Launch -> Nat]
  /\ \A id \in Launch :
       /\ entry[id].at \in {"unseen", "screen", "gate", "admit", "admitted", "opened", "settled", "done"}
       /\ exit[id].at \in {"free", "value", "decide", "sell", "applied", "settled", "kept"}
       /\ exit[id].by \in {"none", "manager", "hand"}
  /\ sweep \subseteq Launch /\ requests \subseteq Launch /\ Len(queue) <= QueueSize

Init ==
  /\ session = "up" /\ main = "loop" /\ faults = 0
  /\ paused = TRUE /\ stop = FALSE /\ resuming = FALSE
  /\ portfolio = NewPortfolio /\ ledger = NewPortfolio /\ current = {}
  /\ store = [id \in Launch |-> 0] /\ saved = store /\ dirty = FALSE
  /\ entry = [id \in Launch |-> Fresh] /\ exit = [id \in Launch |-> Free]
  /\ sweep = {}
  /\ requests = {} /\ queue = <<>>

-----------------------------------------------------------------------------
(* What the tasks share *)

\* The execution permit, which an entry holds from its admission to its flush and
\* an exit from its sale to its flush.
PermitFree ==
  /\ \A id \in Launch : entry[id].at \notin {"admitted", "opened", "settled"}
  /\ \A id \in Launch : exit[id].at \notin {"applied", "settled"}

Faults == faults < MaxFaults /\ faults' = faults + 1

Halt == paused' = TRUE /\ stop' = TRUE /\ UNCHANGED resuming

\* The book changes under its lock, its revision with it, and is written out.  The
\* change stays in memory when the write fails.
Persist(new) ==
  /\ portfolio' = new /\ current' = {}
  /\ ledger' = new /\ UNCHANGED faults

PersistFails(new) ==
  /\ portfolio' = new /\ current' = {}
  /\ Faults /\ UNCHANGED ledger

FlushStore == saved' = store /\ dirty' = FALSE /\ UNCHANGED <<store, faults>>
FlushFails == Faults /\ UNCHANGED storeVars

-----------------------------------------------------------------------------
(* handle_launch, its dry path *)

InFlight(id) == entry[id].at \notin {"unseen", "done"}

\* The main loop looks at stop, then waits for one event: an event that comes with
\* or after a stop is still taken.
TakeEvent ==
  /\ session = "up" /\ main = "loop"
  /\ main' = IF stop THEN "drain" ELSE "loop"

\* A launch from the feed gets a slot or is held.
Launched(id) ==
  /\ TakeEvent
  /\ entry[id].at = "unseen"
  /\ entry' = [entry EXCEPT ![id] =
       IF Cardinality({x \in Launch : InFlight(x)}) < EntrySlots THEN [@ EXCEPT !.at = "screen"] ELSE Done]
  /\ UNCHANGED <<session, controlVars, bookVars, storeVars, exit, sweep, boardVars, faults>>

\* A screen, a gate or a reading on the way may refuse the launch.
EntryHeld(id) ==
  /\ entry[id].at \in {"screen", "gate", "admit"}
  /\ entry' = [entry EXCEPT ![id] = Done]
  /\ UNCHANGED <<sessionVars, controlVars, bookVars, storeVars, exit, sweep, boardVars, faults>>

\* The size of the entry comes of the equity as it is now.
EntryScreen(id) ==
  LET value == EntryValueForEquity(KnownEquity(portfolio))
  IN  /\ entry[id].at = "screen"
      /\ portfolio.risk = "Active" /\ value > 0 /\ ~ paused
      /\ entry' = [entry EXCEPT ![id] = [at |-> "gate", value |-> value]]
      /\ UNCHANGED <<sessionVars, controlVars, bookVars, storeVars, exit, sweep, boardVars, faults>>

\* The last look at paused, after the wait for the entry second.
EntryGate(id) ==
  /\ entry[id].at = "gate" /\ ~ paused
  /\ entry' = [entry EXCEPT ![id].at = "admit"]
  /\ UNCHANGED <<sessionVars, controlVars, bookVars, storeVars, exit, sweep, boardVars, faults>>

EntryAdmit(id) ==
  /\ entry[id].at = "admit" /\ PermitFree
  /\ Admissible(portfolio, entry[id].value)
  /\ current' = current \cup {id}
  /\ entry' = [entry EXCEPT ![id].at = "admitted"]
  /\ UNCHANGED <<sessionVars, controlVars, portfolio, ledger, storeVars, exit, sweep, boardVars, faults>>

EntryOpen(id) ==
  /\ entry[id].at = "admitted"
  /\ store' = [store EXCEPT ![id] = Tokens[id]] /\ dirty' = TRUE
  /\ entry' = [entry EXCEPT ![id].at = "opened"]
  /\ UNCHANGED <<sessionVars, controlVars, bookVars, saved, exit, sweep, boardVars, faults>>

\* Mutant: an error of settle_entry is not looked at.
EntrySettleBlind(id) ==
  LET new == SettleEntry(portfolio, id, Tokens[id], entry[id].value)
  IN  /\ entry[id].at = "opened"
      /\ \/ CanSettleEntry(portfolio, id \in current, id, Tokens[id], entry[id].value) /\ Persist(new)
         \/ ~ CanSettleEntry(portfolio, id \in current, id, Tokens[id], entry[id].value)
            /\ UNCHANGED <<bookVars, faults>>
      /\ entry' = [entry EXCEPT ![id].at = "settled"]
      /\ UNCHANGED <<sessionVars, controlVars, storeVars, exit, sweep, boardVars>>

EntrySettle(id) ==
  LET ok  == CanSettleEntry(portfolio, id \in current, id, Tokens[id], entry[id].value)
      new == SettleEntry(portfolio, id, Tokens[id], entry[id].value)
  IN  /\ entry[id].at = "opened"
      /\ \/ /\ ok /\ Persist(new)
            /\ entry' = [entry EXCEPT ![id].at = "settled"] /\ UNCHANGED controlVars
         \/ /\ ok /\ PersistFails(new)
            /\ entry' = [entry EXCEPT ![id] = Done] /\ Halt
         \/ /\ ~ ok /\ UNCHANGED <<bookVars, faults>>
            /\ entry' = [entry EXCEPT ![id] = Done] /\ Halt
      /\ UNCHANGED <<sessionVars, storeVars, exit, sweep, boardVars>>

EntryFlush(id) ==
  /\ entry[id].at = "settled"
  /\ \/ FlushStore /\ UNCHANGED controlVars
     \/ FlushFails /\ paused' = TRUE /\ UNCHANGED <<stop, resuming>>
  /\ entry' = [entry EXCEPT ![id] = Done]
  /\ UNCHANGED <<sessionVars, bookVars, exit, sweep, boardVars>>

-----------------------------------------------------------------------------
(* The manage loop: one position at a time, each under its CloseGuard *)

Managing == \E id \in Launch : exit[id].by = "manager" /\ exit[id].at \notin {"free", "kept"}

SweepStart ==
  /\ session = "up" /\ ~ stop /\ sweep = {} /\ ~ Managing
  /\ OpenIn(store) # {} /\ sweep' = OpenIn(store)
  /\ UNCHANGED <<sessionVars, controlVars, bookVars, storeVars, workVars, boardVars, faults>>

\* The guard, or the next position; the position is read again under the guard.
ManageTake(id) ==
  /\ id \in sweep /\ ~ Managing
  /\ sweep' = sweep \ {id}
  /\ exit' = IF exit[id].at = "free" /\ store[id] > 0
             THEN [exit EXCEPT ![id] = [Free EXCEPT !.at = "value", !.by = "manager"]] ELSE exit
  /\ UNCHANGED <<sessionVars, controlVars, bookVars, storeVars, entry, boardVars, faults>>

\* No value: the mark becomes unknown, and the position waits for the next sweep.
ManageNoValue(id) ==
  LET new == Mark(portfolio, id, Unknown)
  IN  /\ exit[id].at = "value" /\ Faults
      /\ exit' = [exit EXCEPT ![id] = Free]
      /\ IF CanMark(portfolio, id)
         THEN portfolio' = new /\ ledger' = new /\ current' = {} /\ UNCHANGED controlVars
         ELSE UNCHANGED bookVars /\ Halt
      /\ UNCHANGED <<sessionVars, storeVars, entry, sweep, boardVars>>

\* A value is marked, less the gas of the exit; an error halts.
ManageMark(id) ==
  /\ exit[id].at = "value"
  /\ \E price \in Price :
       LET new == Mark(portfolio, id, SatSub(store[id] * price, ExitGas))
       IN  \/ /\ CanMark(portfolio, id) /\ Persist(new)
              /\ exit' = [exit EXCEPT ![id].at = "decide"] /\ UNCHANGED controlVars
           \/ /\ CanMark(portfolio, id) /\ PersistFails(new)
              /\ exit' = [exit EXCEPT ![id] = Free] /\ Halt
           \/ /\ ~ CanMark(portfolio, id) /\ UNCHANGED <<bookVars, faults>>
              /\ exit' = [exit EXCEPT ![id] = Free] /\ Halt
  /\ UNCHANGED <<sessionVars, storeVars, entry, sweep, boardVars>>

\* Mutant: a drawdown stops entries and forces no exit.
ManageDecideRules(id) ==
  /\ exit[id].at = "decide"
  /\ \E sold \in {0, store[id] \div 2, store[id]} :
       exit' = [exit EXCEPT ![id] = IF sold = 0 THEN Free ELSE [@ EXCEPT !.at = "sell", !.sold = sold]]
  /\ UNCHANGED <<sessionVars, controlVars, bookVars, storeVars, entry, sweep, boardVars, faults>>

\* A liquidation sells everything; the exit rules a part, all, or nothing.
ManageDecide(id) ==
  /\ exit[id].at = "decide"
  /\ \E sold \in IF portfolio.risk = "Liquidating" THEN {store[id]} ELSE {0, store[id] \div 2, store[id]} :
       exit' = [exit EXCEPT ![id] = IF sold = 0 THEN Free ELSE [@ EXCEPT !.at = "sell", !.sold = sold]]
  /\ UNCHANGED <<sessionVars, controlVars, bookVars, storeVars, entry, sweep, boardVars, faults>>

\* A curve's flow cannot be synced: no sale, whatever the risk state, until the next sweep.
ManageNoFlow(id) ==
  /\ exit[id].at = "decide" /\ Faults
  /\ exit' = [exit EXCEPT ![id] = Free]
  /\ requests' = requests \ {id}
  /\ UNCHANGED <<sessionVars, controlVars, bookVars, storeVars, entry, sweep, queue>>

\* After a sweep: what was changed 250 ms ago or earlier is flushed.
FlushIfDue ==
  /\ session = "up" /\ sweep = {} /\ ~ Managing
  /\ dirty /\ (FlushStore \/ FlushFails)
  /\ UNCHANGED <<sessionVars, controlVars, bookVars, workVars, sweep, boardVars>>

-----------------------------------------------------------------------------
(* A sale, by the manage loop or by hand *)

\* With the permit: the sale is quoted and taken off the store.
ExitApply(id) ==
  /\ exit[id].at = "sell" /\ PermitFree
  /\ \E price \in Price :
       exit' = [exit EXCEPT ![id].at = "applied", ![id].out = exit[id].sold * price]
  /\ store' = [store EXCEPT ![id] = @ - exit[id].sold] /\ dirty' = TRUE
  /\ UNCHANGED <<sessionVars, controlVars, bookVars, saved, entry, sweep, boardVars, faults>>

ExitFails(id) ==
  /\ exit[id].at = "sell" /\ PermitFree /\ Faults
  /\ exit' = [exit EXCEPT ![id] = Free]
  /\ requests' = requests \ {id}
  /\ UNCHANGED <<sessionVars, controlVars, bookVars, storeVars, entry, sweep, queue>>

ExitSettle(id) ==
  LET ok  == CanSettleExit(portfolio, id, exit[id].sold, exit[id].out)
      new == SettleExit(portfolio, id, exit[id].sold, exit[id].out)
  IN  /\ exit[id].at = "applied"
      /\ \/ /\ ok /\ Persist(new)
            /\ exit' = [exit EXCEPT ![id].at = "settled"] /\ UNCHANGED controlVars
         \/ /\ ok /\ PersistFails(new)
            /\ exit' = [exit EXCEPT ![id].at = "kept"] /\ Halt
         \/ /\ ~ ok /\ UNCHANGED <<bookVars, faults>>
            /\ exit' = [exit EXCEPT ![id].at = "kept"] /\ Halt
      /\ UNCHANGED <<sessionVars, storeVars, entry, sweep, boardVars>>

ExitFlush(id) ==
  /\ exit[id].at = "settled"
  /\ requests' = requests \ {id}
  /\ \/ FlushStore /\ exit' = [exit EXCEPT ![id] = Free] /\ UNCHANGED controlVars
     \/ FlushFails /\ exit' = [exit EXCEPT ![id].at = "kept"] /\ Halt
  /\ UNCHANGED <<sessionVars, bookVars, entry, sweep, queue>>

-----------------------------------------------------------------------------
(* The board: closes by hand, pause and resume *)

RequestClose(id) ==
  /\ session = "up" /\ id \in ByHand /\ store[id] > 0 /\ id \notin requests
  /\ Len(queue) < QueueSize
  /\ requests' = requests \cup {id} /\ queue' = Append(queue, id)
  /\ UNCHANGED <<sessionVars, controlVars, bookVars, storeVars, workVars, sweep, faults>>

\* The main loop takes a close: it is dropped when the guard is held, or the
\* position no longer open.
CloseTake ==
  /\ TakeEvent
  /\ queue # <<>> /\ queue' = Tail(queue)
  /\ LET id == Head(queue)
     IN  exit' = IF exit[id].at = "free" /\ store[id] > 0
                 THEN [exit EXCEPT ![id] = [Free EXCEPT !.at = "sell", !.by = "hand", !.sold = store[id]]]
                 ELSE exit
  /\ UNCHANGED <<session, controlVars, bookVars, storeVars, entry, sweep, requests, faults>>

\* Bound: nobody pauses or resumes when no launch is left to decide.
Undecided == \E id \in Launch : entry[id].at \in {"unseen", "screen", "gate"}

Pause ==
  /\ session = "up" /\ Undecided
  /\ paused' = TRUE
  /\ UNCHANGED <<sessionVars, stop, resuming, bookVars, storeVars, workVars, sweep, boardVars, faults>>

ResumeCheck ==
  /\ session = "up" /\ Undecided
  /\ ~ stop /\ portfolio.risk = "Active"
  /\ resuming' = TRUE
  /\ UNCHANGED <<sessionVars, paused, stop, bookVars, storeVars, workVars, sweep, boardVars, faults>>

\* Nothing is read again: a halt since the check is overwritten.
ResumeStore ==
  /\ resuming
  /\ paused' = FALSE /\ resuming' = FALSE
  /\ UNCHANGED <<sessionVars, stop, bookVars, storeVars, workVars, sweep, boardVars, faults>>

Stop ==
  /\ session = "up" /\ ~ stop /\ Faults
  /\ Halt
  /\ UNCHANGED <<sessionVars, bookVars, storeVars, workVars, sweep, boardVars>>

-----------------------------------------------------------------------------
(* The main loop, the shutdown, a crash and the next start *)

MainExit ==
  /\ session = "up" /\ main = "loop" /\ stop
  /\ main' = "drain"
  /\ UNCHANGED <<session, controlVars, bookVars, storeVars, workVars, sweep, boardVars, faults>>

\* The feed is shut, and paused set once more.
Drain ==
  /\ main = "drain"
  /\ main' = "join" /\ paused' = TRUE
  /\ UNCHANGED <<session, stop, resuming, bookVars, storeVars, workVars, sweep, boardVars, faults>>

Volatile ==
  /\ main' = "loop" /\ paused' = TRUE /\ stop' = FALSE /\ resuming' = FALSE
  /\ current' = {} /\ dirty' = FALSE /\ sweep' = {}
  /\ entry' = [id \in Launch |-> IF InFlight(id) THEN Done ELSE entry[id]]
  /\ exit' = [id \in Launch |-> Free]
  /\ requests' = {} /\ queue' = <<>>

\* Entries, closes by hand and the manage loop have ended: the last flush.
Join ==
  /\ main = "join" /\ sweep = {}
  /\ \A id \in Launch : ~ InFlight(id) /\ exit[id].at \in {"free", "kept"}
  /\ session' = "down"
  /\ \/ saved' = store /\ UNCHANGED faults
     \/ Faults /\ UNCHANGED saved
  /\ Volatile
  /\ UNCHANGED <<store, portfolio, ledger>>

Crash ==
  /\ session = "up" /\ Faults
  /\ session' = "down"
  /\ Volatile
  /\ UNCHANGED <<store, saved, portfolio, ledger>>

\* The files are read, and the session refused when they disagree.
Start ==
  /\ session = "down"
  /\ session' = IF Agree(saved, ledger) THEN "up" ELSE "refused"
  /\ store' = saved /\ portfolio' = ledger
  /\ UNCHANGED <<main, controlVars, ledger, current, saved, dirty, workVars, sweep, boardVars, faults>>

-----------------------------------------------------------------------------
EntryStep(id) ==
  \/ EntryHeld(id) \/ EntryScreen(id) \/ EntryGate(id) \/ EntryAdmit(id)
  \/ EntryOpen(id) \/ EntrySettle(id) \/ EntryFlush(id)

ManageStep(id) ==
  ManageTake(id) \/ ManageNoValue(id) \/ ManageMark(id) \/ ManageDecide(id) \/ ManageNoFlow(id)

ExitStep(id) == ExitApply(id) \/ ExitFails(id) \/ ExitSettle(id) \/ ExitFlush(id)

Next ==
  \/ \E id \in Launch : Launched(id) \/ EntryStep(id) \/ ManageStep(id) \/ ExitStep(id) \/ RequestClose(id)
  \/ SweepStart \/ FlushIfDue \/ CloseTake
  \/ Pause \/ ResumeCheck \/ ResumeStore \/ Stop
  \/ MainExit \/ Drain \/ Join \/ Crash \/ Start

Spec == Init /\ [][Next]_deskVars

\* The loops and tasks of a session go on; calls and writes fail MaxFaults times.
Fairness ==
  /\ WF_deskVars(SweepStart \/ \E id \in Launch :
       ManageStep(id) \/ (exit[id].by = "manager" /\ ExitStep(id)))
  /\ WF_deskVars(\E id \in Launch : EntryStep(id) \/ (exit[id].by = "hand" /\ ExitStep(id)))

FairSpec == Spec /\ Fairness

-----------------------------------------------------------------------------
(* Properties *)

BookTokens(id) == IF id \in Held(portfolio) THEN portfolio.pos[id].tokens ELSE 0

\* research.rs: the gas reserved is that of the open positions, through partial and
\* full exits.
ReservesMatch ==
  portfolio.reserved = MapThenSumSet(LAMBDA id : portfolio.pos[id].reserve, Held(portfolio))

\* A running engine has one inventory, and keeps the gas to sell it: outside the two
\* steps that change it, store and book hold the same tokens, or the engine has been
\* halted.
BooksAgree ==
  /\ ReservesMatch
  /\ session = "up" /\ ~ stop =>
       \A id \in Launch :
         entry[id].at = "opened" \/ exit[id].at = "applied" \/ store[id] = BookTokens(id)

\* Whatever the marks did since its admission, an entry settles in an active
\* portfolio, and within the share of its equity at that moment.
EntryWithinLimits ==
  [][\A id \in Held(portfolio') \ Held(portfolio) :
       session = "up" =>
         /\ portfolio.risk = "Active"
         /\ Cardinality(Held(portfolio')) <= MaxOpenPositions
         /\ entry[id].value + EntryGas <= BpsOf(KnownEquity(portfolio), MaxCommitmentBps)]_deskVars

\* A drawdown on file is final, through restarts too: no position is opened again.
DrawdownFinal ==
  [][ledger.breached => ledger'.breached /\ Held(ledger') \subseteq Held(ledger)]_deskVars

\* A portfolio in drawdown is sold off, unless the engine is stopped or a sale
\* could not be booked.
LiquidationCompletes ==
  portfolio.breached ~> (Held(portfolio) = {} \/ stop \/ session # "up")

\* docs/ARCHITECTURE.md: the modelled ledger survives a restart.
LedgerSurvives == faults = 0 => session # "refused"
===============================================================================
