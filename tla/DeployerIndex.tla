----------------------------- MODULE DeployerIndex -----------------------------
(***************************************************************************)
(* pons/deployer.rs and its two tasks in run.rs, for one deployer.  The    *)
(* history task reads the head and its hash, decides whether the           *)
(* checkpoint on disk can be reused, scans what is missing and reads the   *)
(* hash again: only an unchanged one makes the index ready.  The           *)
(* graduation task reads the latest blocks once a minute; entry tasks note *)
(* the launches of the feed.                                               *)
(***************************************************************************)
EXTENDS CanonChain

CONSTANTS
  Launched,      \* the deployer's TokenLaunched logs, one per token
  Graduation,    \* the PoolGraduated log of one of the tokens, Graduating
  Graduating,
  Window,        \* window_blocks (1 728 000)
  GradMargin,    \* blocks the graduation task reads again (2 000)
  GradReach,     \* blocks it reads back at most (50 000)
  MaxRestarts    \* bound: restarts of the process

ASSUME IndexAssumption ==
  /\ Launched \cup {Graduation} \subseteq Event /\ Graduating \in Launched
  /\ {Window, GradMargin, GradReach, MaxRestarts} \subseteq Nat

VARIABLES
  index,      \* DeployerIndex
  disk,       \* deployer-history-v1.json
  history,    \* the history task: where it is, and its locals
  grad,       \* the graduation task: where it is, and its locals
  restarts,
  everAt      \* history: the blocks a launch was ever in

indexVars == <<index, disk, history, grad, restarts, everAt>>

Coverage == [from : 0 .. MaxHeight, to : 0 .. MaxHeight, anchor : (0 .. MaxHeight) \X (0 .. MaxForks)]
NoCoverage == [from |-> 0, to |-> 0, anchor |-> NoHash]
NoBlock == 0

\* launches and graduated: the token's block, NoBlock when it is not known.
Empty == [status |-> "loading", coverage |-> NoCoverage, last_grad |-> 0,
          launches |-> [l \in Launched |-> NoBlock], graduated |-> NoBlock]
NoFile == [coverage |-> NoCoverage, launches |-> Empty.launches, graduated |-> NoBlock]
Reading == [at |-> "begin", head |-> 0, anchor |-> NoHash, file |-> NoFile, scanned |-> {}]
Waiting == [at |-> "wait", from |-> 0, head |-> 0]

Block == 0 .. MaxHeight

\* Where the history task holds the one permit of `history`, a Limiter.
Scanning == {"anchor", "file", "scan", "verify"}

IndexTypeOK ==
  /\ index \in [status : {"loading", "ready", "failed"}, coverage : Coverage,
                last_grad : Block, launches : [Launched -> Block], graduated : Block]
  /\ disk \in [coverage : Coverage, launches : [Launched -> Block], graduated : Block]
  /\ history.at \in {"begin", "permit", "save", "done"} \cup Scanning
  /\ grad \in [at : {"wait", "head", "logs"}, from : Block, head : Block]
  /\ (index.status = "ready") <=> (history.at \in {"save", "done"})

IndexInit ==
  /\ index = Empty /\ disk = NoFile /\ history = Reading /\ grad = Waiting
  /\ restarts = 0 /\ everAt = [l \in Launched |-> {}]

-----------------------------------------------------------------------------
(* DeployerIndex: note, mark_graduated, restore *)

Noted(x, l, block) == [x EXCEPT !.launches[l] = IF @ = NoBlock THEN block ELSE @]

NotedAll(x, logs) ==
  [x EXCEPT !.launches = [l \in Launched |->
     IF @[l] = NoBlock /\ \E y \in logs : y[1] = l
     THEN (CHOOSE y \in logs : y[1] = l)[2] ELSE @[l]]]

\* The earliest block known is the one that counts.
MarkGraduated(x, block) ==
  IF block = NoBlock THEN x
  ELSE [x EXCEPT !.graduated = IF @ = NoBlock \/ block < @ THEN block ELSE @,
                 !.last_grad = IF block > @ THEN block ELSE @]

Restored(x, file) ==
  MarkGraduated(NotedAll(x, {<<l, file.launches[l]>> : l \in Launched}), file.graduated)

Floor(before) == IF before > Window THEN before - Window ELSE 0

\* `quick`: how many tokens before this block, and how many of them graduated before it.
Quick(before) ==
  LET prior == {l \in Launched : index.launches[l] \in (Floor(before) .. before - 1) \ {NoBlock}}
  IN  [prior |-> Cardinality(prior),
       graduated |-> Cardinality({l \in prior : l = Graduating /\ index.graduated \in 1 .. before - 1})]

-----------------------------------------------------------------------------
(* The history task *)

HistoryBegin ==
  /\ history.at = "begin"
  /\ index' = [index EXCEPT !.status = "loading"]
  /\ history' = [Reading EXCEPT !.at = "permit", !.file = disk]
  /\ UNCHANGED <<disk, grad, restarts, everAt, chainVars>>

HistoryHead ==
  /\ history.at = "permit" /\ grad.at = "wait"
  /\ history' = [history EXCEPT !.at = "anchor", !.head = Tip]
  /\ UNCHANGED <<index, disk, grad, restarts, everAt, chainVars>>

HistoryAnchor ==
  /\ history.at = "anchor" /\ history.head <= Tip
  /\ history' = [history EXCEPT !.at = "file", !.anchor = Hash(history.head)]
  /\ UNCHANGED <<index, disk, grad, restarts, everAt, chainVars>>

From == IF history.head > Window THEN history.head - Window ELSE 0

\* Mutant: a checkpoint is reused without a look at its anchor.
ReusableUnseen(c) == c.anchor # NoHash /\ c.from <= From /\ c.to <= history.head

Reusable(c) == c.anchor # NoHash /\ c.from <= From /\ c.to <= history.head /\ Canonical(c.anchor)

\* The checkpoint is not reused either when its anchor's block cannot be read.
HistoryFile ==
  /\ history.at = "file"
  /\ \E file \in {history.file, NoFile} :
       /\ IF Reusable(history.file.coverage) /\ file = NoFile THEN CallFails ELSE UNCHANGED chainVars
       /\ ~ Reusable(history.file.coverage) => file = NoFile
       /\ history' = [history EXCEPT !.at = "scan", !.file = file]
  /\ UNCHANGED <<index, disk, grad, restarts, everAt>>

\* Mutant: the scan takes the checkpoint to reach one block further.
ScanFromLate == IF history.file = NoFile THEN From ELSE history.file.coverage.to + 2

ScanFrom == IF history.file = NoFile THEN From ELSE history.file.coverage.to + 1

\* launches_in_range, then graduations_in_range.
HistoryScan ==
  /\ history.at = "scan"
  /\ history' = [history EXCEPT !.at = "verify",
                   !.scanned = {<<e, BlockOf(e)>> : e \in LogsIn(ScanFrom, history.head)}]
  /\ UNCHANGED <<index, disk, grad, restarts, everAt, chainVars>>

Checkpoint(x) ==
  [coverage |-> x.coverage, launches |-> x.launches, graduated |-> x.graduated]

GraduatedIn(scanned) ==
  IF \E y \in scanned : y[1] = Graduation
  THEN (CHOOSE y \in scanned : y[1] = Graduation)[2] ELSE NoBlock

\* The head's hash has not changed: the index is ready.
HistoryVerify ==
  /\ history.at = "verify" /\ HashAt(history.head) = history.anchor
  /\ index' = [MarkGraduated(NotedAll(Restored(index, history.file), history.scanned),
                             GraduatedIn(history.scanned))
               EXCEPT !.status = "ready",
                      !.coverage = [from |-> From, to |-> history.head, anchor |-> history.anchor]]
  /\ history' = [Reading EXCEPT !.at = "save", !.file = Checkpoint(index')]
  /\ UNCHANGED <<disk, grad, restarts, everAt, chainVars>>

CannotSucceed ==
  \/ history.at = "anchor" /\ history.head > Tip
  \/ history.at = "verify" /\ HashAt(history.head) # history.anchor

\* The head is gone, its hash has changed or a call fails: failed, and again after 30 s.
HistoryFails ==
  /\ history.at \in Scanning \/ (history.at = "permit" /\ grad.at = "wait")
  /\ IF CannotSucceed THEN UNCHANGED chainVars ELSE CallFails
  /\ index' = [index EXCEPT !.status = "failed"]
  /\ history' = Reading
  /\ UNCHANGED <<disk, grad, restarts, everAt>>

\* The checkpoint was made with the lock of mark_ready; a failed write only warns.
HistorySave ==
  /\ history.at = "save"
  /\ disk' \in {disk, history.file}
  /\ history' = [Reading EXCEPT !.at = "done"]
  /\ UNCHANGED <<index, grad, restarts, everAt, chainVars>>

-----------------------------------------------------------------------------
(* The graduation task, the feed, the process *)

GradHead ==
  /\ grad.at = "wait" /\ history.at \notin Scanning
  /\ LET margin == IF index.last_grad > GradMargin THEN index.last_grad - GradMargin ELSE 0
         reach == IF Tip > GradReach THEN Tip - GradReach ELSE 0
     IN  grad' = [at |-> "logs", head |-> Tip, from |-> IF margin > reach THEN margin ELSE reach]
  /\ UNCHANGED <<index, disk, history, restarts, everAt, chainVars>>

GradLogs ==
  /\ grad.at = "logs"
  /\ index' = IF Graduation \in LogsIn(grad.from, grad.head)
              THEN MarkGraduated(index, BlockOf(Graduation)) ELSE index
  /\ grad' = Waiting
  /\ UNCHANGED <<disk, history, restarts, everAt, chainVars>>

GradFails ==
  /\ grad.at = "logs"
  /\ CallFails
  /\ grad' = Waiting
  /\ UNCHANGED <<index, disk, history, restarts, everAt>>

\* The feed's launch, at the block it was dispatched with.
NoteLive(l) ==
  /\ \E block \in everAt[l] : index' = Noted(index, l, block)
  /\ UNCHANGED <<disk, history, grad, restarts, everAt, chainVars>>

\* Only the checkpoint survives.
Restart ==
  /\ restarts < MaxRestarts
  /\ restarts' = restarts + 1
  /\ index' = Empty /\ history' = Reading /\ grad' = Waiting
  /\ UNCHANGED <<disk, everAt, chainVars>>

\* A token graduates after its launch.
IndexExtended(logs) ==
  /\ Graduation \in logs => Graduating \in Mined \cup logs
  /\ Extend(logs)
  /\ everAt' = [l \in Launched |-> everAt[l] \cup (IF l \in logs THEN {Tip + 1} ELSE {})]
  /\ UNCHANGED <<index, disk, history, grad, restarts>>

IndexReorganised(keep) == Reorg(keep) /\ UNCHANGED indexVars

HistoryStep ==
  \/ HistoryBegin \/ HistoryHead \/ HistoryAnchor \/ HistoryFile \/ HistoryScan
  \/ HistoryVerify \/ HistoryFails \/ HistorySave

GradStep == GradHead \/ GradLogs

IndexNext ==
  \/ \E logs \in SUBSET (Launched \cup {Graduation}) : IndexExtended(logs)
  \/ \E keep \in 1 .. Tip - 1 : IndexReorganised(keep)
  \/ HistoryStep \/ GradStep \/ GradFails
  \/ \E l \in Launched : NoteLive(l)
  \/ Restart

-----------------------------------------------------------------------------
(* Properties *)

\* x holds every launch and graduation that the chain has in the range it covers.
Covers(x) ==
  /\ \A l \in Launched \cap LogsIn(x.coverage.from, x.coverage.to) : x.launches[l] # NoBlock
  /\ Graduation \in LogsIn(x.coverage.from, x.coverage.to) => x.graduated # NoBlock

\* While the anchor of a ready index is canonical, nothing of its range is missing,
\* whatever reorgs and restarts the scan, the checkpoint and the live notes met; and
\* the same holds of the checkpoint on disk.
HistoryComplete ==
  /\ index.status = "ready" /\ Canonical(index.coverage.anchor) => Covers(index)
  /\ Canonical(disk.coverage.anchor) => Covers(disk)

\* What `quick` ought to say of a block: counted on the chain.
CountedAt(before) ==
  LET prior == {l \in Launched \cap LogsIn(1, before - 1) : BlockOf(l) >= Floor(before)}
  IN  [prior |-> Cardinality(prior),
       graduated |-> Cardinality(prior \cap (IF Graduation \in LogsIn(1, before - 1)
                                             THEN {Graduating} ELSE {}))]

\* Without a reorg, a ready index answers for every block of its range what the
\* chain says, however it was put together.
QuickExact ==
  index.status = "ready" /\ forks = 0 =>
    \A before \in 1 .. index.coverage.to + 1 :
      Floor(before) >= index.coverage.from => Quick(before) = CountedAt(before)
==============================================================================
