----------------------------- MODULE ObserversProofs -----------------------------
(***************************************************************************)
(* Theorems about the observers for any logs, any bounds of the chain and  *)
(* any windows.  The lemmas about the chain say what survives a step of    *)
(* it: a hash that was read never becomes canonical again once it is not,  *)
(* and below one that stays canonical nothing changes.                     *)
(***************************************************************************)
EXTENDS Observers, SumLemmas, FiniteSetTheorems, SequenceTheorems, TLAPS

(* The chain *)

Blocks == [fork : Nat, logs : SUBSET Event]

\* A log is in one block at most, and no block is of a fork to come.
ChainOK ==
  /\ chain \in Seq(Blocks) /\ Tip >= 1 /\ forks \in Nat
  /\ \A b \in 1 .. Tip : chain[b].fork <= forks
  /\ \A b, c \in 1 .. Tip : b # c => chain[b].logs \cap chain[c].logs = {}

\* The first n blocks stay as they are.
Prefix(n) == n <= Tip /\ n <= Tip' /\ \A b \in 1 .. n : chain'[b] = chain[b]

Grows ==
  /\ forks' = forks /\ Prefix(Tip)
  /\ \A b \in Tip + 1 .. Tip' : chain'[b].fork = forks

Shrinks == forks' = forks + 1 /\ Tip' < Tip /\ Prefix(Tip')

ChainStep == ChainOK' /\ (Grows \/ Shrinks)

\* A hash that was read: canonical, of an earlier fork, or of no block.
Read(hash) == hash \in Nat \X Nat /\ (Canonical(hash) \/ hash[2] < forks \/ hash = NoHash)

LEMMA BlockFields ==
  ASSUME ChainOK, NEW b \in 1 .. Tip
  PROVE  chain[b] \in Blocks /\ chain[b].fork \in Nat /\ chain[b].logs \subseteq Event
<1>1. chain[b] \in Blocks
  BY DEF ChainOK, Tip
<1> QED
  BY <1>1 DEF Blocks

LEMMA TipType == ChainOK => Tip \in Nat \ {0}
BY DEF ChainOK, Tip

LEMMA ChainInitOK == ChainInit => ChainOK /\ forks = 0 /\ Mined = {}
<1> SUFFICES ASSUME ChainInit
             PROVE  ChainOK /\ forks = 0 /\ Mined = {}
  OBVIOUS
<1>1. chain = <<[fork |-> 0, logs |-> {}]>> /\ forks = 0
  BY DEF ChainInit
<1>2. Tip = 1 /\ chain[1] = [fork |-> 0, logs |-> {}]
  BY <1>1 DEF Tip
<1>3. [fork |-> 0, logs |-> {}] \in Blocks
  BY DEF Blocks
<1>4. chain \in Seq(Blocks)
  BY <1>1, <1>3
<1>5. Mined = {}
  BY <1>2 DEF Mined, LogsIn
<1> QED
  BY <1>1, <1>2, <1>4, <1>5 DEF ChainOK

LEMMA ExtendSteps ==
  ASSUME ChainOK, NEW logs \in SUBSET Event, Extend(logs)
  PROVE  /\ ChainStep /\ Grows
         /\ Tip' = Tip + 1 /\ chain'[Tip + 1] = [fork |-> forks, logs |-> logs]
<1> DEFINE new == [fork |-> forks, logs |-> logs]
<1>1. chain' = Append(chain, new) /\ forks' = forks /\ logs \cap Mined = {}
  BY DEF Extend
<1>2. new \in Blocks /\ chain \in Seq(Blocks)
  BY DEF ChainOK, Blocks
<1> HIDE DEF new
<1>3. chain' \in Seq(Blocks) /\ Tip' = Tip + 1
  BY <1>1, <1>2 DEF Tip
<1>4. chain'[Tip + 1] = new
  BY <1>1, <1>2 DEF Tip
<1>5. \A b \in 1 .. Tip : chain'[b] = chain[b]
  BY <1>1, <1>2 DEF Tip
<1>6. Grows
  <2>1. Tip \in Nat /\ \A b \in Tip + 1 .. Tip' : b = Tip + 1
    BY <1>3, TipType
  <2>2. Prefix(Tip)
    BY <1>3, <1>5, <2>1 DEF Prefix
  <2>3. new.fork = forks
    BY DEF new
  <2> QED
    BY <1>1, <1>4, <2>1, <2>2, <2>3 DEF Grows
<1>7. \A b \in 1 .. Tip : chain[b].logs \cap logs = {}
  BY <1>1, TipType DEF Mined, LogsIn
<1>8. ChainOK'
  <2>1. \A b \in 1 .. Tip' : b = Tip + 1 \/ b \in 1 .. Tip
    BY <1>3, TipType
  <2>2. new.fork = forks /\ new.logs = logs
    BY DEF new
  <2>3. \A b \in 1 .. Tip' : chain'[b].fork <= forks'
    <3>1. forks \in Nat /\ \A b \in 1 .. Tip : chain[b].fork <= forks
      BY DEF ChainOK
    <3>2. chain'[Tip + 1].fork <= forks
      BY <1>4, <2>2, <3>1
    <3> QED
      BY <1>1, <1>5, <2>1, <3>1, <3>2
  <2>4. \A b, c \in 1 .. Tip' : b # c => chain'[b].logs \cap chain'[c].logs = {}
    BY <1>4, <1>5, <1>7, <2>1, <2>2 DEF ChainOK
  <2>5. Tip' >= 1 /\ forks' \in Nat
    BY <1>1, <1>3, TipType DEF ChainOK
  <2> QED
    BY <1>3, <2>3, <2>4, <2>5 DEF ChainOK
<1> QED
  BY <1>3, <1>4, <1>6, <1>8 DEF ChainStep, new

LEMMA ReorgSteps ==
  ASSUME ChainOK, NEW keep \in 1 .. Tip - 1, Reorg(keep)
  PROVE  ChainStep /\ Shrinks /\ Tip' = keep
<1>1. chain' = SubSeq(chain, 1, keep) /\ forks' = forks + 1
  BY DEF Reorg
<1>2. Tip' = keep /\ chain' \in Seq(Blocks) /\ \A b \in 1 .. keep : chain'[b] = chain[b]
  BY <1>1 DEF ChainOK, Tip
<1>3. keep \in Nat /\ keep < Tip /\ Tip \in Nat
  BY TipType
<1>4. Shrinks
  BY <1>1, <1>2, <1>3 DEF Shrinks, Prefix
<1>5. ChainOK'
  <2>1. \A b \in 1 .. keep : b \in 1 .. Tip /\ chain[b].fork \in Nat
    BY <1>3, BlockFields
  <2> QED
    BY <1>1, <1>2, <1>3, <2>1 DEF ChainOK
<1> QED
  BY <1>2, <1>4, <1>5 DEF ChainStep

LEMMA StillSteps ==
  ASSUME ChainOK, chain' = chain, forks' = forks
  PROVE  ChainStep /\ Grows
BY TipType DEF ChainOK, ChainStep, Grows, Prefix, Tip

\* Once a hash that was read is not canonical, it never is again.
LEMMA ReadStays ==
  ASSUME ChainOK, ChainStep, NEW hash, Read(hash)
  PROVE  Read(hash)' /\ (Canonical(hash)' => Canonical(hash) /\ Prefix(hash[1]))
<1>0. Tip \in Nat /\ Tip' \in Nat /\ forks \in Nat /\ hash[1] \in Nat /\ hash[2] \in Nat
      /\ hash = <<hash[1], hash[2]>>
  BY TipType DEF ChainStep, ChainOK, Read, Tip
<1>1. CASE Grows
  <2>1. forks' = forks /\ Prefix(Tip) /\ \A b \in Tip + 1 .. Tip' : chain'[b].fork = forks
    BY <1>1 DEF Grows
  <2>2. \A b \in 1 .. Tip : b \in 1 .. Tip' /\ chain'[b] = chain[b]
    BY <1>0, <2>1 DEF Prefix
  <2>3. ASSUME Canonical(hash)'
        PROVE  Canonical(hash)
    <3>1. hash[1] \in 1 .. Tip' /\ hash[2] = chain'[hash[1]].fork
      BY <2>3, <1>0 DEF Canonical, Hash
    <3>2. CASE hash[1] \in 1 .. Tip
      BY <1>0, <2>2, <3>1, <3>2 DEF Canonical, Hash
    <3>3. CASE hash[1] \notin 1 .. Tip
      <4>1. hash[2] = forks /\ hash[1] # 0
        BY <1>0, <2>1, <3>1, <3>3
      <4> QED
        BY <1>0, <4>1 DEF Read, NoHash
    <3> QED
      BY <3>2, <3>3
  <2>4. Canonical(hash) => Canonical(hash)' /\ Prefix(hash[1])
    BY <1>0, <2>1, <2>2 DEF Canonical, Hash, Prefix
  <2> QED
    BY <1>0, <2>1, <2>3, <2>4 DEF Read, NoHash
<1>2. CASE Shrinks
  <2>1. forks' = forks + 1 /\ Tip' < Tip /\ Prefix(Tip')
    BY <1>2 DEF Shrinks
  <2>2. \A b \in 1 .. Tip' : b \in 1 .. Tip /\ chain'[b] = chain[b]
    BY <1>0, <2>1 DEF Prefix
  <2>3. Canonical(hash)' => Canonical(hash) /\ Prefix(hash[1])
    BY <1>0, <2>1, <2>2 DEF Canonical, Hash, Prefix
  <2>4. Canonical(hash) => hash[2] < forks'
    BY <1>0, <2>1, BlockFields DEF Canonical, Hash, ChainOK
  <2> QED
    BY <1>0, <2>1, <2>3, <2>4 DEF Read, NoHash
<1> QED
  BY <1>1, <1>2 DEF ChainStep

\* The block of a log that was mined is the one that has it.
LEMMA BlockOfIs ==
  ASSUME ChainOK, NEW b \in 1 .. Tip, NEW e \in chain[b].logs
  PROVE  BlockOf(e) = b
<1>1. \E c \in 1 .. Tip : e \in chain[c].logs
  OBVIOUS
<1>2. BlockOf(e) \in 1 .. Tip /\ e \in chain[BlockOf(e)].logs
  BY <1>1 DEF BlockOf
<1> QED
  BY <1>2 DEF ChainOK

LEMMA LogsInHas ==
  ASSUME NEW from, NEW to, NEW e
  PROVE  e \in LogsIn(from, to) <=> \E b \in 1 .. Tip : from <= b /\ b <= to /\ e \in chain[b].logs
BY DEF LogsIn

\* Below a block that stays, the logs and their blocks stay.
LEMMA RangeStays ==
  ASSUME ChainOK, ChainStep, NEW from \in Int, NEW to \in Int, Prefix(to)
  PROVE  /\ LogsIn(from, to)' = LogsIn(from, to)
         /\ \A e \in LogsIn(from, to) :
              BlockOf(e)' = BlockOf(e) /\ Hash(BlockOf(e))' = Hash(BlockOf(e))
<1>0. Tip \in Nat /\ Tip' \in Nat
  BY TipType DEF ChainStep, ChainOK, Tip
<1>1. \A b : b \in 1 .. Tip /\ b <= to => b \in 1 .. Tip' /\ chain'[b] = chain[b]
  BY <1>0 DEF Prefix
<1>2. \A b : b \in 1 .. Tip' /\ b <= to => b \in 1 .. Tip /\ chain'[b] = chain[b]
  BY <1>0 DEF Prefix
<1>3. ASSUME NEW e
      PROVE  e \in LogsIn(from, to)' <=> e \in LogsIn(from, to)
  BY <1>1, <1>2 DEF LogsIn
<1>4. ASSUME NEW e \in LogsIn(from, to)
      PROVE  BlockOf(e)' = BlockOf(e) /\ Hash(BlockOf(e))' = Hash(BlockOf(e))
  <2>1. PICK b \in 1 .. Tip : from <= b /\ b <= to /\ e \in chain[b].logs
    BY <1>4, LogsInHas
  <2>2. BlockOf(e) = b
    BY <2>1, BlockOfIs
  <2>3. b \in 1 .. Tip' /\ chain'[b] = chain[b]
    BY <1>1, <2>1
  <2>4. BlockOf(e)' = b
    <3>1. \E c \in 1 .. Tip' : e \in chain'[c].logs
      BY <2>1, <2>3
    <3>2. BlockOf(e)' \in 1 .. Tip' /\ e \in chain'[BlockOf(e)'].logs
      BY <3>1 DEF BlockOf
    <3> QED
      BY <2>1, <2>3, <3>2 DEF ChainOK, ChainStep
  <2> QED
    BY <2>2, <2>3, <2>4 DEF Hash
<1> QED
  BY <1>3, <1>4

\* Steps that leave the chain alone.
LEMMA StillFacts ==
  ASSUME ChainOK, chain' = chain, forks' = forks
  PROVE  /\ ChainOK' /\ Tip' = Tip /\ Tip \in Nat
         /\ \A hash : Canonical(hash)' = Canonical(hash) /\ (Read(hash) => Read(hash)')
BY TipType DEF ChainOK, Tip, Canonical, Hash, Read

-----------------------------------------------------------------------------
(* The flow tracker *)

FlowLogs == CurveLog \X (Nat \X Nat)

FlowTypes ==
  /\ flow \in [watched : BOOLEAN, origin : Nat, next : Nat, anchor : Nat \X Nat, events : SUBSET FlowLogs]
  /\ sync \in [at : {"rest", "anchor", "head", "logs", "hash"}, origin : Nat, from : Nat, head : Nat,
               logs : SUBSET FlowLogs, since : Nat]
  /\ sync.at \in {"logs", "hash"} => sync.head >= 1
  /\ born \subseteq Nat /\ torn \in BOOLEAN

\* The cursor is at the launch, or at most one block past the anchor.
CursorCovered ==
  ~ torn => flow.next <= flow.origin \/ (flow.anchor # NoHash /\ flow.next <= flow.anchor[1] + 1)

\* A sync reads from the cursor, unless the curve was watched anew.
PlanCovered ==
  ~ torn /\ sync.at # "rest" => flow.next <= flow.origin \/ flow.next = sync.from

\* Nothing is kept without an anchor.
UnanchoredIsEmpty == ~ torn /\ flow.anchor = NoHash => Kept = {}

\* What a sync knows of the chain, as long as no reorg has fallen into it.
AnchorBelow ==
  sync.since = forks =>
    /\ sync.at \in {"head", "logs", "hash"} => flow.anchor = NoHash \/ Canonical(flow.anchor)
    /\ sync.at \in {"logs", "hash"} =>
         sync.head <= Tip /\ (flow.anchor # NoHash => flow.anchor[1] <= sync.head)

LogsRead ==
  sync.since = forks /\ sync.at = "hash" => sync.logs = CurveLogs(sync.from, sync.head)

FlowInv ==
  /\ ChainOK /\ FlowTypes
  /\ Read(flow.anchor) /\ sync.since <= forks
  /\ ~ flow.watched => flow = Unwatched
  /\ CursorCovered /\ PlanCovered /\ UnanchoredIsEmpty /\ AnchorBelow /\ LogsRead
  /\ FlowCanonicalUnlessTorn

LEMMA CurveLogsStay ==
  ASSUME ChainOK, ChainStep, NEW from \in Int, NEW to \in Int, Prefix(to)
  PROVE  CurveLogs(from, to)' = CurveLogs(from, to)
<1>1. LogsIn(from, to)' = LogsIn(from, to)
  BY RangeStays
<1>2. \A e \in LogsIn(from, to) : Hash(BlockOf(e))' = Hash(BlockOf(e))
  BY RangeStays
<1> QED
  BY <1>1, <1>2 DEF CurveLogs

LEMMA StillLogs ==
  ASSUME chain' = chain, NEW from, NEW to
  PROVE  CurveLogs(from, to)' = CurveLogs(from, to)
<1>1. LogsIn(from, to)' = LogsIn(from, to)
  BY DEF LogsIn, Tip
<1>2. \A e : Hash(BlockOf(e))' = Hash(BlockOf(e))
  BY DEF Hash, BlockOf, Tip
<1> QED
  BY <1>1, <1>2 DEF CurveLogs

LEMMA CanonicalGrows ==
  ASSUME ChainOK, Grows, NEW hash, hash \in Nat \X Nat, Canonical(hash)
  PROVE  Canonical(hash)'
BY TipType DEF ChainOK, Grows, Prefix, Canonical, Hash, Tip

\* An element of a range of the curve's logs, by the block it is in.
LEMMA CurveLogsHas ==
  ASSUME ChainOK, NEW from, NEW to, NEW e \in CurveLog, NEW hash
  PROVE  <<e, hash>> \in CurveLogs(from, to) <=>
           \E b \in 1 .. Tip : from <= b /\ b <= to /\ e \in chain[b].logs /\ hash = Hash(b)
<1>1. ASSUME <<e, hash>> \in CurveLogs(from, to)
      PROVE  \E b \in 1 .. Tip : from <= b /\ b <= to /\ e \in chain[b].logs /\ hash = Hash(b)
  <2>1. e \in LogsIn(from, to) /\ hash = Hash(BlockOf(e))
    BY <1>1 DEF CurveLogs
  <2>2. PICK b \in 1 .. Tip : from <= b /\ b <= to /\ e \in chain[b].logs
    BY <2>1, LogsInHas
  <2> QED
    BY <2>1, <2>2, BlockOfIs
<1>2. ASSUME NEW b \in 1 .. Tip, from <= b, b <= to, e \in chain[b].logs, hash = Hash(b)
      PROVE  <<e, hash>> \in CurveLogs(from, to)
  <2>1. e \in LogsIn(from, to) /\ BlockOf(e) = b
    BY <1>2, LogsInHas, BlockOfIs
  <2> QED
    BY <1>2, <2>1 DEF CurveLogs
<1> QED
  BY <1>1, <1>2

LEMMA CurveLogsType ==
  ASSUME ChainOK, NEW from, NEW to
  PROVE  CurveLogs(from, to) \subseteq FlowLogs
<1>1. ASSUME NEW e \in LogsIn(from, to) \cap CurveLog
      PROVE  <<e, Hash(BlockOf(e))>> \in FlowLogs
  <2>1. PICK b \in 1 .. Tip : e \in chain[b].logs
    BY <1>1, LogsInHas
  <2>2. Hash(b) \in Nat \X Nat
    BY BlockFields, TipType DEF Hash
  <2> QED
    BY <1>1, <2>1, <2>2, BlockOfIs DEF FlowLogs
<1> QED
  BY <1>1 DEF CurveLogs

LEMMA SyncFields ==
  ASSUME FlowTypes
  PROVE  /\ flow.watched \in BOOLEAN /\ flow.origin \in Nat /\ flow.next \in Nat
         /\ flow.anchor \in Nat \X Nat /\ flow.anchor[1] \in Nat /\ flow.events \subseteq FlowLogs
         /\ sync.at \in {"rest", "anchor", "head", "logs", "hash"} /\ sync.origin \in Nat
         /\ sync.from \in Nat /\ sync.head \in Nat /\ sync.logs \subseteq FlowLogs /\ sync.since \in Nat
BY DEF FlowTypes

LEMMA FlowInitInv == ChainInit /\ FlowInit => FlowInv
<1> SUFFICES ASSUME ChainInit, FlowInit
             PROVE  FlowInv
  OBVIOUS
<1>1. ChainOK /\ forks = 0
  BY ChainInitOK
<1>2. flow = Unwatched /\ sync = NoPlan /\ born = {} /\ torn = FALSE
  BY DEF FlowInit
<1>3. FlowTypes
  BY <1>2 DEF FlowTypes, Unwatched, NoPlan, NoHash
<1>4. Read(flow.anchor)
  BY <1>2 DEF Read, Unwatched, NoHash
<1> QED
  BY <1>1, <1>2, <1>3, <1>4 DEF FlowInv, Unwatched, NoPlan, CursorCovered, PlanCovered, UnanchoredIsEmpty, Kept,
     AnchorBelow, LogsRead, FlowCanonicalUnlessTorn, FlowCanonical

\* The chain goes on under the tracker.
LEMMA FlowChainKeeps ==
  ASSUME FlowInv, ChainStep, flow' = flow, sync' = sync, torn' = torn, born' \subseteq Nat
  PROVE  FlowInv'
<1>0. ChainOK /\ FlowTypes /\ Read(flow.anchor) /\ sync.since <= forks /\ ChainOK'
  BY DEF FlowInv, ChainStep
<1>1. FlowTypes'
  BY <1>0 DEF FlowTypes
<1>2. PICK a : a = flow.anchor
  OBVIOUS
<1>3. a' = a /\ Read(a)' /\ (Canonical(a)' => Canonical(a) /\ Prefix(a[1]))
  BY <1>0, <1>2, ReadStays
<1>4. Read(flow.anchor)' /\ (Canonical(flow.anchor)' => Canonical(flow.anchor) /\ Prefix(flow.anchor[1]))
  BY <1>2, <1>3 DEF Read, Canonical, Hash, Prefix
<1>5. sync'.since <= forks' /\ (sync'.since = forks' => Grows /\ sync.since = forks)
  BY <1>0, SyncFields DEF ChainStep, Grows, Shrinks, ChainOK
<1>6. CursorCovered' /\ PlanCovered' /\ UnanchoredIsEmpty' /\ (~ flow.watched => flow = Unwatched)'
  BY DEF FlowInv, CursorCovered, PlanCovered, UnanchoredIsEmpty, Kept
<1>7. Grows => (Canonical(a) => Canonical(a)') /\ Tip <= Tip' /\ Tip \in Nat /\ Tip' \in Nat
  BY SMTT(30), <1>0, <1>2, CanonicalGrows, TipType, SyncFields DEF Grows, Prefix, Tip, ChainOK
<1>8. AnchorBelow'
  <2>1. AnchorBelow
    BY DEF FlowInv
  <2> SUFFICES ASSUME sync'.since = forks'
               PROVE  AnchorBelow'
    BY DEF AnchorBelow
  <2>2. Canonical(flow.anchor) => Canonical(flow.anchor)'
    BY <1>2, <1>5, <1>7 DEF Canonical, Hash
  <2> QED
    BY <1>0, <1>5, <1>7, <2>1, <2>2, SyncFields DEF AnchorBelow
<1>9. LogsRead'
  <2> SUFFICES ASSUME sync'.since = forks', sync'.at = "hash"
               PROVE  LogsRead'
    BY DEF LogsRead
  <2>1. sync.logs = CurveLogs(sync.from, sync.head) /\ sync.head <= Tip /\ Grows
    BY <1>5 DEF FlowInv, LogsRead, AnchorBelow
  <2>2. PICK f \in Int, h \in Int : f = sync.from /\ h = sync.head
    BY <1>0, SyncFields
  <2>3. Prefix(h)
    BY <1>0, <1>7, <2>1, <2>2 DEF Grows, Prefix
  <2>4. CurveLogs(f, h)' = CurveLogs(f, h)
    BY <1>0, <2>3, CurveLogsStay
  <2>5. CurveLogs(sync.from, sync.head)' = CurveLogs(f, h)'
    BY <2>2
  <2> QED
    BY <2>1, <2>2, <2>4, <2>5 DEF LogsRead
<1>10. FlowCanonicalUnlessTorn'
  <2> SUFFICES ASSUME ~ torn', flow.anchor # NoHash, Canonical(flow.anchor)'
               PROVE  (Kept = CurveLogs(flow.origin, flow.anchor[1]))'
    BY DEF FlowCanonicalUnlessTorn, FlowCanonical, NoHash
  <2>1. Kept = CurveLogs(flow.origin, flow.anchor[1])
    BY <1>4 DEF FlowInv, FlowCanonicalUnlessTorn, FlowCanonical
  <2>2. PICK o \in Int, h \in Int : o = flow.origin /\ h = flow.anchor[1]
    BY <1>0, SyncFields
  <2>3. CurveLogs(o, h)' = CurveLogs(o, h)
    BY <1>0, <1>4, <2>2, CurveLogsStay
  <2>4. CurveLogs(flow.origin, flow.anchor[1])' = CurveLogs(o, h)' /\ Kept' = Kept
    BY <2>2 DEF Kept
  <2> QED
    BY <2>1, <2>2, <2>3, <2>4
<1> QED
  BY <1>0, <1>1, <1>4, <1>5, <1>6, <1>8, <1>9, <1>10 DEF FlowInv

\* A step of the tracker that leaves the sync and the anchor alone.
LEMMA TrackerKeeps ==
  ASSUME FlowInv, chain' = chain, forks' = forks, sync' = sync,
         FlowTypes', Read(flow.anchor)',
         flow'.anchor \in {flow.anchor, NoHash},
         ~ flow'.watched => flow' = Unwatched,
         CursorCovered', PlanCovered', UnanchoredIsEmpty', FlowCanonicalUnlessTorn'
  PROVE  FlowInv'
<1>1. ChainOK /\ ChainOK' /\ Tip' = Tip
  BY StillFacts DEF FlowInv
<1>2. AnchorBelow'
  BY <1>1 DEF FlowInv, AnchorBelow, Canonical, Hash
<1>3. LogsRead'
  <2>1. CurveLogs(sync.from, sync.head)' = CurveLogs(sync.from, sync.head)
    <3>1. PICK f, h : f = sync.from /\ h = sync.head
      OBVIOUS
    <3>2. CurveLogs(f, h)' = CurveLogs(f, h)
      BY StillLogs
    <3> QED
      BY <3>1, <3>2
  <2> QED
    BY <2>1 DEF FlowInv, LogsRead
<1> QED
  BY <1>1, <1>2, <1>3 DEF FlowInv

\* A step of the sync that leaves the tracker alone.
LEMMA PlanKeeps ==
  ASSUME FlowInv, chain' = chain, forks' = forks, flow' = flow, torn' = torn,
         FlowTypes', sync'.since <= forks, PlanCovered', AnchorBelow', LogsRead'
  PROVE  FlowInv'
<1>1. ChainOK /\ ChainOK' /\ Tip' = Tip
  BY StillFacts DEF FlowInv
<1>2. Read(flow.anchor)'
  BY DEF FlowInv, Read, Canonical, Hash, Tip
<1>3. FlowCanonicalUnlessTorn'
  <2>1. CurveLogs(flow.origin, flow.anchor[1])' = CurveLogs(flow.origin, flow.anchor[1])
    <3>1. PICK f, h : f = flow.origin /\ h = flow.anchor[1]
      OBVIOUS
    <3>2. CurveLogs(f, h)' = CurveLogs(f, h)
      BY StillLogs
    <3> QED
      BY <3>1, <3>2
  <2>2. Canonical(flow.anchor)' = Canonical(flow.anchor) /\ Kept' = Kept
    BY <1>1 DEF Canonical, Hash, Kept
  <2> QED
    BY <2>1, <2>2 DEF FlowInv, FlowCanonicalUnlessTorn, FlowCanonical
<1> QED
  BY <1>1, <1>2, <1>3 DEF FlowInv, CursorCovered, UnanchoredIsEmpty, Kept

LEMMA WatchKeeps ==
  ASSUME FlowInv, NEW origin \in born, Watch(origin)
  PROVE  FlowInv'
<1>0. FlowTypes /\ ChainOK
  BY DEF FlowInv
<1>1. /\ flow' = [flow EXCEPT !.watched = TRUE, !.origin = origin, !.next = IF @ = 0 THEN origin ELSE @]
      /\ torn' = (torn \/ (flow.watched /\ origin # flow.origin))
      /\ sync' = sync /\ born' = born /\ chain' = chain /\ forks' = forks
  BY DEF Watch, chainVars
<1>2. origin \in Nat
  BY <1>0 DEF FlowTypes
<1>3. /\ flow'.watched = TRUE /\ flow'.origin = origin /\ flow'.next = (IF flow.next = 0 THEN origin ELSE flow.next)
      /\ flow'.anchor = flow.anchor /\ flow'.events = flow.events
  BY <1>0, <1>1 DEF FlowTypes
<1>4. FlowTypes'
  BY <1>0, <1>1, <1>2 DEF FlowTypes
<1>5. Read(flow.anchor)'
  BY <1>0, <1>1, <1>3 DEF FlowInv, Read, Canonical, Hash, Tip
<1>6. ~ torn' => ~ torn /\ (flow = Unwatched \/ origin = flow.origin)
  BY <1>1 DEF FlowInv
<1>7. CursorCovered' /\ PlanCovered'
  BY <1>0, <1>1, <1>2, <1>3, <1>6, SyncFields DEF FlowInv, CursorCovered, PlanCovered, Unwatched
<1>8. UnanchoredIsEmpty'
  BY <1>3, <1>6 DEF FlowInv, UnanchoredIsEmpty, Kept, Unwatched
<1>9. FlowCanonicalUnlessTorn'
  <2>1. CASE flow = Unwatched
    BY <1>3, <2>1 DEF FlowCanonicalUnlessTorn, FlowCanonical, Unwatched
  <2>2. CASE flow # Unwatched /\ ~ torn'
    <3>1. flow'.origin = flow.origin /\ Kept' = Kept
      BY <1>3, <1>6, <2>2 DEF Kept
    <3>2. PICK o, h : o = flow.origin /\ h = flow.anchor[1]
      OBVIOUS
    <3>3. CurveLogs(o, h)' = CurveLogs(o, h)
      BY <1>1, StillLogs
    <3>4. CurveLogs(flow.origin, flow.anchor[1])' = CurveLogs(flow.origin, flow.anchor[1])
      BY <1>3, <3>1, <3>2, <3>3
    <3>5. Canonical(flow.anchor)' = Canonical(flow.anchor)
      BY <1>1, <1>3 DEF Canonical, Hash, Tip
    <3> QED
      BY <1>3, <1>6, <2>2, <3>1, <3>4, <3>5 DEF FlowInv, FlowCanonicalUnlessTorn, FlowCanonical
  <2>3. CASE torn'
    BY <2>3 DEF FlowCanonicalUnlessTorn
  <2> QED
    BY <2>1, <2>2, <2>3
<1> QED
  BY <1>1, <1>3, <1>4, <1>5, <1>7, <1>8, <1>9, TrackerKeeps

\* The tracker is empty: nothing is known of the curve.
LEMMA EmptiedKeeps ==
  ASSUME (Kept = {})', (flow.anchor = NoHash)', (flow.next <= flow.origin)'
  PROVE  CursorCovered' /\ PlanCovered' /\ UnanchoredIsEmpty' /\ FlowCanonicalUnlessTorn'
BY DEF CursorCovered, PlanCovered, UnanchoredIsEmpty, FlowCanonicalUnlessTorn, FlowCanonical

LEMMA UnwatchKeeps ==
  ASSUME FlowInv, Unwatch
  PROVE  FlowInv'
<1>1. /\ flow' = Unwatched /\ torn' = FALSE /\ sync' = sync /\ born' = born
      /\ chain' = chain /\ forks' = forks
  BY DEF Unwatch, chainVars
<1>2. FlowTypes'
  BY <1>1 DEF FlowInv, FlowTypes, Unwatched, NoHash
<1>3. Read(flow.anchor)'
  BY <1>1 DEF Read, Unwatched, NoHash
<1>4. /\ flow'.anchor = NoHash /\ flow'.next = 0 /\ flow'.origin = 0 /\ flow'.events = {}
  BY <1>1 DEF Unwatched
<1>5. CursorCovered' /\ PlanCovered' /\ UnanchoredIsEmpty' /\ FlowCanonicalUnlessTorn'
  BY <1>4, EmptiedKeeps DEF Kept
<1> QED
  BY <1>1, <1>2, <1>3, <1>4, <1>5, TrackerKeeps

LEMMA SyncStartKeeps ==
  ASSUME FlowInv, SyncStart
  PROVE  FlowInv'
<1>1. /\ flow' = flow /\ torn' = torn /\ born' = born /\ chain' = chain /\ forks' = forks
      /\ sync' = [NoPlan EXCEPT !.origin = flow.origin, !.from = flow.next, !.since = forks,
                                !.at = IF flow.anchor = NoHash THEN "head" ELSE "anchor"]
  BY DEF SyncStart, chainVars
<1>2. /\ sync'.from = flow.next /\ sync'.since = forks
      /\ sync'.at = IF flow.anchor = NoHash THEN "head" ELSE "anchor"
  BY <1>1 DEF NoPlan
<1>3. FlowTypes' /\ forks \in Nat
  BY <1>1 DEF FlowInv, FlowTypes, NoPlan, ChainOK
<1>4. PlanCovered' /\ AnchorBelow' /\ LogsRead'
  BY <1>1, <1>2 DEF PlanCovered, AnchorBelow, LogsRead
<1> QED
  BY <1>1, <1>2, <1>3, <1>4, PlanKeeps

LEMMA SyncHeadKeeps ==
  ASSUME FlowInv, SyncHead
  PROVE  FlowInv'
<1>0. ChainOK /\ FlowTypes /\ Tip \in Nat
  BY TipType DEF FlowInv
<1>1. /\ flow' = flow /\ torn' = torn /\ born' = born /\ chain' = chain /\ forks' = forks
      /\ sync.at = "head" /\ sync' \in {NoPlan, [sync EXCEPT !.at = "logs", !.head = Tip]}
  BY DEF SyncHead, chainVars
<1>2. CASE sync' = NoPlan
  <2>1. FlowTypes' /\ sync'.since <= forks
    BY <1>0, <1>1, <1>2 DEF FlowTypes, NoPlan, ChainOK
  <2>2. PlanCovered' /\ AnchorBelow' /\ LogsRead'
    BY <1>1, <1>2 DEF PlanCovered, AnchorBelow, LogsRead, NoPlan
  <2> QED
    BY <1>1, <2>1, <2>2, PlanKeeps
<1>3. CASE sync' = [sync EXCEPT !.at = "logs", !.head = Tip]
  <2>1. FlowTypes' /\ sync'.since = sync.since /\ sync'.at = "logs" /\ sync'.head = Tip /\ sync'.from = sync.from
    BY <1>0, <1>1, <1>3 DEF FlowTypes, ChainOK
  <2>2. PlanCovered' /\ LogsRead'
    BY <1>1, <2>1 DEF FlowInv, PlanCovered, LogsRead
  <2>3. AnchorBelow'
    BY <1>0, <1>1, <2>1 DEF FlowInv, AnchorBelow, Canonical, Hash, Tip
  <2> QED
    BY <1>1, <2>1, <2>2, <2>3, PlanKeeps DEF FlowInv
<1> QED
  BY <1>1, <1>2, <1>3

LEMMA SyncLogsKeeps ==
  ASSUME FlowInv, SyncLogs
  PROVE  FlowInv'
<1>0. ChainOK /\ FlowTypes
  BY DEF FlowInv
<1>1. /\ flow' = flow /\ torn' = torn /\ born' = born /\ chain' = chain /\ forks' = forks
      /\ sync.at = "logs" /\ sync' = [sync EXCEPT !.at = "hash", !.logs = CurveLogs(sync.from, sync.head)]
  BY DEF SyncLogs, chainVars, CurveLogs
<1>2. CurveLogs(sync.from, sync.head) \in SUBSET FlowLogs
  <2>1. PICK f, h : f = sync.from /\ h = sync.head
    OBVIOUS
  <2> QED
    BY <1>0, <2>1, CurveLogsType
<1>3. /\ FlowTypes' /\ sync'.since = sync.since /\ sync'.at = "hash" /\ sync'.head = sync.head
      /\ sync'.from = sync.from /\ sync'.logs = CurveLogs(sync.from, sync.head)
  BY <1>0, <1>1, <1>2 DEF FlowTypes
<1>4. PlanCovered'
  BY <1>1, <1>3 DEF FlowInv, PlanCovered
<1>5. AnchorBelow'
  BY <1>1, <1>3 DEF FlowInv, AnchorBelow, Canonical, Hash, Tip
<1>6. LogsRead'
  <2>1. PICK f, h : f = sync.from /\ h = sync.head
    OBVIOUS
  <2>2. CurveLogs(f, h)' = CurveLogs(f, h)
    BY <1>1, StillLogs
  <2>3. CurveLogs(sync.from, sync.head)' = CurveLogs(sync.from, sync.head)
    BY <1>3, <2>1, <2>2
  <2> QED
    BY <1>3, <2>3 DEF LogsRead
<1> QED
  BY <1>1, <1>3, <1>4, <1>5, <1>6, PlanKeeps DEF FlowInv

LEMMA SyncAbortsKeeps ==
  ASSUME FlowInv, SyncAborts
  PROVE  FlowInv'
<1>1. /\ flow' = flow /\ torn' = torn /\ born' = born /\ chain' = chain /\ forks' = forks
      /\ sync' = NoPlan
  BY DEF SyncAborts, CallFails, chainVars
<1>2. FlowTypes' /\ sync'.since <= forks
  BY <1>1 DEF FlowInv, FlowTypes, NoPlan, ChainOK
<1>3. PlanCovered' /\ AnchorBelow' /\ LogsRead'
  BY <1>1 DEF PlanCovered, AnchorBelow, LogsRead, NoPlan
<1> QED
  BY <1>1, <1>2, <1>3, PlanKeeps

LEMMA SyncAnchorKeeps ==
  ASSUME FlowInv, SyncAnchor
  PROVE  FlowInv'
<1>0. ChainOK /\ FlowTypes
  BY DEF FlowInv
<1>1. /\ sync.at = "anchor" /\ born' = born /\ chain' = chain /\ forks' = forks
  BY DEF SyncAnchor, chainVars
<1>2. CASE sync' = NoPlan /\ flow' = flow /\ torn' = torn
  <2>1. FlowTypes' /\ sync'.since <= forks
    BY <1>0, <1>1, <1>2 DEF FlowTypes, NoPlan, ChainOK
  <2>2. PlanCovered' /\ AnchorBelow' /\ LogsRead'
    BY <1>2 DEF PlanCovered, AnchorBelow, LogsRead, NoPlan
  <2> QED
    BY <1>1, <1>2, <2>1, <2>2, PlanKeeps
<1>3. CASE Canonical(flow.anchor) /\ sync' = [sync EXCEPT !.at = "head", !.since = forks]
           /\ flow' = flow /\ torn' = torn
  <2>1. FlowTypes' /\ sync'.since = forks /\ sync'.at = "head" /\ sync'.from = sync.from /\ forks \in Nat
    BY <1>0, <1>1, <1>3 DEF FlowTypes, ChainOK
  <2>2. PlanCovered' /\ AnchorBelow' /\ LogsRead'
    BY <1>1, <1>3, <2>1 DEF FlowInv, PlanCovered, AnchorBelow, LogsRead, Canonical, Hash, Tip
  <2> QED
    BY <1>1, <1>3, <2>1, <2>2, PlanKeeps
<1>4. CASE /\ flow' = Rewound(sync.origin)
           /\ torn' = (sync.origin # flow.origin)
           /\ sync' = [sync EXCEPT !.at = "head", !.since = forks, !.origin = flow.origin, !.from = flow'.next]
  <2> DEFINE next == IF sync.origin > flow.origin THEN sync.origin ELSE flow.origin
  <2>1. /\ flow'.watched = flow.watched /\ flow'.origin = flow.origin /\ flow'.anchor = NoHash
        /\ flow'.events = Before(flow.events, sync.origin) /\ flow'.next = next
    BY <1>0, <1>4 DEF FlowTypes, Rewound
  <2>2. next \in Nat /\ Before(flow.events, sync.origin) \subseteq FlowLogs /\ NoHash \in Nat \X Nat
    BY <1>0, SyncFields DEF Before, NoHash
  <2>3. flow' \in [watched : BOOLEAN, origin : Nat, next : Nat, anchor : Nat \X Nat, events : SUBSET FlowLogs]
    BY <1>0, <1>4, <2>2 DEF FlowTypes, Rewound
  <2>4. /\ sync' \in [at : {"rest", "anchor", "head", "logs", "hash"}, origin : Nat, from : Nat, head : Nat,
                      logs : SUBSET FlowLogs, since : Nat]
        /\ sync'.since = forks /\ sync'.at = "head" /\ sync'.from = next
    <3>1. forks \in Nat /\ flow'.next \in Nat /\ flow.origin \in Nat
      BY <1>0, <2>1, <2>2, SyncFields DEF ChainOK
    <3> QED
      BY <1>0, <1>4, <2>1, <3>1 DEF FlowTypes
  <2>5. FlowTypes'
    BY <1>0, <1>1, <1>4, <2>3, <2>4 DEF FlowTypes
  <2>6. Read(flow.anchor)'
    BY <2>1 DEF Read, NoHash
  <2>7. ~ torn' => next = flow.origin /\ Kept' = {}
    <3>1. ~ torn' => next = flow.origin /\ sync.origin = flow.origin
      BY <1>4
    <3>2. Kept' = {x \in Before(flow.events, sync.origin) : x[2][1] >= flow.origin}
      BY <2>1 DEF Kept
    <3>3. \A x \in FlowLogs : x[2][1] \in Nat
      BY DEF FlowLogs
    <3>4. \A x \in flow.events : ~ (x[2][1] < flow.origin /\ x[2][1] >= flow.origin)
      BY <1>0, <3>3, SyncFields
    <3> QED
      BY <3>1, <3>2, <3>4 DEF Before
  <2>8. CursorCovered' /\ PlanCovered' /\ UnanchoredIsEmpty' /\ FlowCanonicalUnlessTorn'
    BY <2>1, <2>4, <2>7, SyncFields, <1>0 DEF CursorCovered, PlanCovered, UnanchoredIsEmpty, FlowCanonicalUnlessTorn,
       FlowCanonical
  <2>9. AnchorBelow' /\ LogsRead'
    BY <2>1, <2>4 DEF AnchorBelow, LogsRead
  <2>10. ChainOK' /\ flow'.watched /\ sync'.since <= forks'
    <3>1. flow.watched /\ forks \in Nat
      BY <1>0 DEF SyncAnchor, ChainOK
    <3> QED
      BY <1>0, <1>1, <2>1, <2>4, <3>1, StillFacts
  <2> QED
    BY <2>5, <2>6, <2>8, <2>9, <2>10 DEF FlowInv
<1> QED
  BY <1>2, <1>3, <1>4 DEF SyncAnchor

Since(events, o) == {x \in events : x[2][1] >= o}
Renewed(events, logs) == {y \in events : \A z \in logs : y[1] # z[1]} \cup logs

\* What is applied, on top of what was kept up to the anchor, is the chain up to the head.
LEMMA RangesJoin ==
  ASSUME ChainOK, NEW o \in Nat, NEW f \in Nat, NEW h \in Nat, NEW a \in Int,
         h <= Tip, a <= h, f <= o \/ f <= a + 1,
         NEW events \in SUBSET FlowLogs,
         Since(events, o) = CurveLogs(o, a)
  PROVE  Since(Renewed(events, CurveLogs(f, h)), o) = CurveLogs(o, h)
<1> DEFINE kept == Since(Renewed(events, CurveLogs(f, h)), o)
<1> USE DEF Since, Renewed
<1>0. Tip \in Nat
  BY TipType
<1>1. kept \subseteq FlowLogs /\ CurveLogs(o, h) \subseteq FlowLogs
  BY CurveLogsType
<1>2. \A b \in 1 .. Tip : Hash(b)[1] = b
  BY DEF Hash
<1>3. ASSUME NEW e \in CurveLog, NEW hash \in Nat \X Nat
      PROVE  <<e, hash>> \in kept <=> <<e, hash>> \in CurveLogs(o, h)
  <2>1. <<e, hash>> \in events /\ hash[1] >= o <=> <<e, hash>> \in CurveLogs(o, a)
    <3>1. <<e, hash>> \in Since(events, o) <=> <<e, hash>> \in CurveLogs(o, a)
      OBVIOUS
    <3> QED
      BY <3>1
  <2>2. ASSUME <<e, hash>> \in kept
        PROVE  <<e, hash>> \in CurveLogs(o, h)
    <3>1. hash[1] >= o /\ (<<e, hash>> \in events \/ <<e, hash>> \in CurveLogs(f, h))
      BY <2>2
    <3>2. CASE <<e, hash>> \in CurveLogs(o, a)
      BY <1>0, <3>2, CurveLogsHas
    <3>3. CASE <<e, hash>> \in CurveLogs(f, h)
      <4>1. PICK b \in 1 .. Tip : b <= h /\ e \in chain[b].logs /\ hash = Hash(b)
        BY <3>3, CurveLogsHas
      <4> QED
        BY <1>2, <3>1, <4>1, CurveLogsHas
    <3> QED
      BY <2>1, <3>1, <3>2, <3>3
  <2>3. ASSUME <<e, hash>> \in CurveLogs(o, h)
        PROVE  <<e, hash>> \in kept
    <3>1. PICK b \in 1 .. Tip : o <= b /\ b <= h /\ e \in chain[b].logs /\ hash = Hash(b)
      BY <2>3, CurveLogsHas
    <3>2. hash[1] >= o
      BY <1>2, <3>1
    <3>3. CASE f <= b
      <4>1. <<e, hash>> \in CurveLogs(f, h)
        BY <3>1, <3>3, CurveLogsHas
      <4> QED
        BY <3>2, <4>1
    <3>4. CASE b < f
      <4>1. b <= a
        BY <1>0, <3>1, <3>4
      <4>2. <<e, hash>> \in CurveLogs(o, a)
        BY <3>1, <4>1, CurveLogsHas
      <4>3. ASSUME NEW z \in CurveLogs(f, h)
            PROVE  e # z[1]
        <5>1. z \in FlowLogs
          BY CurveLogsType
        <5>2. z[1] \in CurveLog /\ z = <<z[1], z[2]>>
          BY <5>1 DEF FlowLogs
        <5>3. PICK c \in 1 .. Tip : f <= c /\ z[1] \in chain[c].logs
          BY <5>2, CurveLogsHas
        <5> QED
          BY <1>0, <3>1, <3>4, <5>3 DEF ChainOK
      <4>4. <<e, hash>> \in events
        BY <2>1, <4>2
      <4> QED
        BY <3>2, <4>3, <4>4
    <3> QED
      BY <1>0, <3>1, <3>3, <3>4
  <2> QED
    BY <2>2, <2>3
<1>4. \A x \in FlowLogs : x = <<x[1], x[2]>> /\ x[1] \in CurveLog /\ x[2] \in Nat \X Nat
  BY DEF FlowLogs
<1> HIDE DEF kept
<1>5. kept = CurveLogs(o, h)
  <2>1. \A x \in FlowLogs : x \in kept <=> x \in CurveLogs(o, h)
    BY <1>3, <1>4
  <2> QED
    BY <1>1, <2>1
<1> QED
  BY <1>5 DEF kept

LEMMA SyncApplyKeeps ==
  ASSUME FlowInv, SyncApply
  PROVE  FlowInv'
<1>0. ChainOK /\ FlowTypes /\ Tip \in Nat
  BY TipType DEF FlowInv
<1>1. sync.at = "hash" /\ sync' = NoPlan /\ born' = born /\ chain' = chain /\ forks' = forks
  BY DEF SyncApply, chainVars
<1>2. CASE flow' = flow /\ torn' = torn
  <2>1. FlowTypes' /\ sync'.since <= forks
    BY <1>0, <1>1, <1>2 DEF FlowTypes, NoPlan, ChainOK
  <2>2. PlanCovered' /\ AnchorBelow' /\ LogsRead'
    BY <1>1 DEF PlanCovered, AnchorBelow, LogsRead, NoPlan
  <2> QED
    BY <1>1, <1>2, <2>1, <2>2, PlanKeeps
<1>3. CASE /\ flow.watched /\ sync.head <= Tip /\ sync.from <= flow.next
           /\ flow' = Applied(sync.logs, sync.head, Hash(sync.head))
           /\ torn' = (torn \/ sync.since # forks)
  <2> DEFINE new == Ingested(sync.logs)
             next == IF sync.head + 1 > flow.next THEN sync.head + 1 ELSE flow.next
  <2>1. sync.head \in 1 .. Tip /\ sync.head \in Nat
    BY <1>0, <1>1, <1>3, SyncFields DEF FlowTypes
  <2>2. PICK hash \in Nat \X Nat : hash = Hash(sync.head)
    BY <1>0, <2>1, BlockFields DEF Hash
  <2>3. hash[1] = sync.head /\ Canonical(hash) /\ hash # NoHash
    BY <2>1, <2>2 DEF Hash, Canonical, NoHash
  <2>4. new \subseteq FlowLogs /\ next \in Nat
    BY <1>0, <2>1, SyncFields DEF Ingested
  <2>5. /\ flow'.watched = flow.watched /\ flow'.origin = flow.origin /\ flow'.anchor = hash
        /\ flow'.events = new /\ flow'.next = next
    BY <1>0, <1>3, <2>2 DEF FlowTypes, Applied
  <2>6. FlowTypes'
    <3>1. flow' \in [watched : BOOLEAN, origin : Nat, next : Nat, anchor : Nat \X Nat, events : SUBSET FlowLogs]
      BY <1>0, <1>3, <2>2, <2>4 DEF FlowTypes, Applied
    <3>2. /\ sync' \in [at : {"rest", "anchor", "head", "logs", "hash"}, origin : Nat, from : Nat, head : Nat,
                        logs : SUBSET FlowLogs, since : Nat]
          /\ sync'.at = "rest"
      BY <1>1 DEF NoPlan
    <3> QED
      BY <1>0, <1>1, <1>3, <3>1, <3>2 DEF FlowTypes
  <2>7. Canonical(hash)' /\ Read(flow.anchor)'
    BY <1>0, <1>1, <2>3, <2>5, StillFacts DEF Read, Canonical, Hash
  <2>8. PlanCovered' /\ AnchorBelow' /\ LogsRead' /\ UnanchoredIsEmpty'
    BY <1>1, <2>3, <2>5 DEF PlanCovered, AnchorBelow, LogsRead, NoPlan, UnanchoredIsEmpty
  <2>9. ~ torn' => ~ torn /\ sync.since = forks
    BY <1>3
  <2>10. CursorCovered'
    BY <1>0, <1>1, <2>1, <2>3, <2>5, <2>9, SyncFields DEF FlowInv, CursorCovered, PlanCovered, AnchorBelow
  <2>11. FlowCanonicalUnlessTorn'
    <3> SUFFICES ASSUME ~ torn'
                 PROVE  (Kept = CurveLogs(flow.origin, flow.anchor[1]))'
      BY DEF FlowCanonicalUnlessTorn, FlowCanonical
    <3>1. PICK o \in Nat, f \in Nat, h \in Nat : o = flow.origin /\ f = sync.from /\ h = sync.head
      BY <1>0, SyncFields
    <3>2. h <= Tip /\ sync.logs = CurveLogs(f, h)
      BY <1>1, <1>3, <2>9, <3>1 DEF FlowInv, LogsRead
    <3>3. PICK a \in Int : /\ a <= h /\ (f <= o \/ f <= a + 1)
                           /\ Since(flow.events, o) = CurveLogs(o, a)
      <4>1. CASE flow.anchor = NoHash
        <5>1. Kept = {} /\ flow.next <= flow.origin
          BY <2>9, <4>1 DEF FlowInv, UnanchoredIsEmpty, CursorCovered
        <5>2. f <= o
          BY <1>0, <1>3, <3>1, <5>1, SyncFields
        <5>3. CurveLogs(o, 0) = {}
          <6>1. \A x \in CurveLogs(o, 0) : x \in FlowLogs
            BY <1>0, CurveLogsType
          <6>2. ASSUME NEW e \in CurveLog, NEW y, <<e, y>> \in CurveLogs(o, 0)
                PROVE  FALSE
            <7>1. PICK b \in 1 .. Tip : b <= 0
              BY <1>0, <6>2, CurveLogsHas
            <7> QED
              BY <1>0, <7>1
          <6> QED
            BY <6>1, <6>2 DEF FlowLogs
        <5> QED
          BY <3>1, <5>1, <5>2, <5>3 DEF Kept, Since
      <4>2. CASE flow.anchor # NoHash
        <5>1. Canonical(flow.anchor) /\ flow.anchor[1] <= sync.head
          BY <1>1, <2>9, <4>2 DEF FlowInv, AnchorBelow
        <5>2. Kept = CurveLogs(flow.origin, flow.anchor[1])
          BY <2>9, <4>2, <5>1 DEF FlowInv, FlowCanonicalUnlessTorn, FlowCanonical
        <5>3. sync.from <= flow.origin \/ sync.from <= flow.anchor[1] + 1
          BY <1>0, <1>3, <2>9, SyncFields DEF FlowInv, CursorCovered
        <5>4. flow.anchor[1] \in Int
          BY <1>0, SyncFields
        <5> QED
          BY <3>1, <5>1, <5>2, <5>3, <5>4 DEF Kept, Since
      <4> QED
        BY <4>1, <4>2
    <3>4. Since(Renewed(flow.events, CurveLogs(f, h)), o) = CurveLogs(o, h)
      <4>1. ChainOK /\ flow.events \in SUBSET FlowLogs
        BY <1>0, SyncFields
      <4>2. \A events \in SUBSET FlowLogs :
              Since(events, o) = CurveLogs(o, a) => Since(Renewed(events, CurveLogs(f, h)), o) = CurveLogs(o, h)
        BY <3>2, <3>3, <4>1, RangesJoin
      <4> QED
        BY <3>3, <4>1, <4>2
    <3>5. Kept' = CurveLogs(o, h)
      BY <2>5, <3>1, <3>2, <3>4 DEF Kept, Ingested, Since, Renewed
    <3>6. CurveLogs(o, h)' = CurveLogs(o, h)
      BY <1>1, StillLogs
    <3>7. CurveLogs(flow.origin, flow.anchor[1])' = CurveLogs(o, h)'
      BY <2>3, <2>5, <3>1
    <3> QED
      BY <3>5, <3>6, <3>7
  <2> QED
    BY <1>0, <1>1, <1>3, <2>5, <2>6, <2>7, <2>8, <2>10, <2>11, StillFacts DEF FlowInv, NoPlan, ChainOK
<1> QED
  BY <1>2, <1>3 DEF SyncApply

LEMMA FlowNextInv == FlowInv /\ FlowNext => FlowInv'
<1> SUFFICES ASSUME FlowInv, FlowNext
             PROVE  FlowInv'
  OBVIOUS
<1>0. ChainOK /\ FlowTypes /\ Tip \in Nat
  BY TipType DEF FlowInv
<1>1. ASSUME NEW logs \in SUBSET (CurveLog \cup {Launch}), FlowExtended(logs)
      PROVE  FlowInv'
  <2>1. logs \in SUBSET Event /\ Extend(logs)
    BY <1>1, CurveAssumption DEF FlowExtended
  <2>2. ChainStep
    BY <1>0, <2>1, ExtendSteps
  <2>3. flow' = flow /\ sync' = sync /\ torn' = torn /\ born' \subseteq Nat
    BY <1>0, <1>1 DEF FlowExtended, FlowTypes
  <2> QED
    BY <2>2, <2>3, FlowChainKeeps
<1>2. ASSUME NEW keep \in 1 .. Tip - 1, FlowReorganised(keep)
      PROVE  FlowInv'
  <2>1. ChainStep
    BY <1>0, <1>2, ReorgSteps DEF FlowReorganised
  <2>2. flow' = flow /\ sync' = sync /\ torn' = torn /\ born' \subseteq Nat
    BY <1>0, <1>2 DEF FlowReorganised, flowVars, FlowTypes
  <2> QED
    BY <2>1, <2>2, FlowChainKeeps
<1> QED
  BY <1>1, <1>2, WatchKeeps, UnwatchKeeps, SyncStartKeeps, SyncAnchorKeeps, SyncHeadKeeps, SyncLogsKeeps,
     SyncApplyKeeps, SyncAbortsKeeps DEF FlowNext, SyncStep

FlowObserved ==
  /\ observer = "flow" => FlowInv
  /\ observer # "flow" => FlowInit

LEMMA FlowInvariance == Spec => []FlowObserved
<1>1. Init => FlowObserved
  BY FlowInitInv DEF Init, FlowObserved
<1>2. FlowObserved /\ [Next]_vars => FlowObserved'
  <2> SUFFICES ASSUME FlowObserved, [Next]_vars
               PROVE  FlowObserved'
    OBVIOUS
  <2>1. CASE Flow(FlowNext)
    BY <2>1, FlowNextInv DEF Flow, FlowObserved
  <2>2. CASE Feed(FeedNext) \/ Index(IndexNext) \/ Dataset(CaptureNext)
    <3>1. observer # "flow" /\ observer' = observer /\ UNCHANGED flowVars
      BY <2>2 DEF Feed, Index, Dataset
    <3> QED
      BY <3>1 DEF FlowObserved, FlowInit, flowVars
  <2>3. CASE UNCHANGED vars
    <3>1. observer' = observer /\ UNCHANGED flowVars /\ chain' = chain /\ forks' = forks
      BY <2>3 DEF vars, chainVars
    <3>2. FlowInv => FlowInv'
      <4> SUFFICES ASSUME FlowInv
                   PROVE  FlowInv'
        OBVIOUS
      <4>1. ChainStep
        BY <3>1, StillSteps DEF FlowInv
      <4> QED
        BY <3>1, <4>1, FlowChainKeeps DEF FlowInv, FlowTypes, flowVars
    <3> QED
      BY <3>1, <3>2 DEF FlowObserved, FlowInit, flowVars
  <2> QED
    BY <2>1, <2>2, <2>3 DEF Next
<1> QED
  BY <1>1, <1>2, PTL DEF Spec

\* What the tracker holds from the launch block on is what the chain holds up to a
\* canonical anchor, wherever reorgs fall between the reads of a sync, a rewatch or an
\* aborted call, unless a reorg fell into a sync that was applied or the launch moved.
THEOREM FlowFollowsChain == Spec => []FlowCanonicalUnlessTorn
<1>1. FlowObserved => FlowCanonicalUnlessTorn
  BY DEF FlowObserved, FlowInv, FlowInit, Unwatched, FlowCanonicalUnlessTorn, FlowCanonical
<1> QED
  BY <1>1, FlowInvariance, PTL

-----------------------------------------------------------------------------
(* The deployer index *)

Hashes == Nat \X Nat
Coverages == [from : Nat, to : Nat, anchor : Hashes]
Files == [coverage : Coverages, launches : [Launched -> Nat], graduated : Nat]

IndexTypes ==
  /\ index \in [status : {"loading", "ready", "failed"}, coverage : Coverages, last_grad : Nat,
                launches : [Launched -> Nat], graduated : Nat]
  /\ disk \in Files
  /\ history \in [at : {"begin", "permit", "save", "done"} \cup Scanning, head : Nat, anchor : Hashes,
                  file : Files, scanned : SUBSET (Event \X Nat)]
  /\ grad \in [at : {"wait", "head", "logs"}, from : Nat, head : Nat]
  /\ everAt \in [Launched -> SUBSET Nat]

\* What an index or a checkpoint that was made ready holds.
Whole(x) ==
  /\ Read(x.coverage.anchor) /\ x.coverage.to = x.coverage.anchor[1]
  /\ Canonical(x.coverage.anchor) => Covers(x)

ReadyIsWhole == index.status = "ready" => Whole(index) /\ index.coverage.anchor # NoHash

\* The hash the history task checks again is that of the head it reads up to.
AnchorRead ==
  /\ history.at \in Scanning => history.head >= 1
  /\ history.at \in {"file", "scan", "verify"} => Read(history.anchor) /\ history.anchor[1] = history.head

\* While that hash is canonical, so is the checkpoint that is built on.
FileReused ==
  history.at \in {"scan", "verify"} /\ history.file # NoFile =>
    /\ history.file.coverage.from <= From /\ history.file.coverage.to <= history.head
    /\ Canonical(history.anchor) => Canonical(history.file.coverage.anchor)

Positions(from, to) == {<<e, BlockOf(e)>> : e \in LogsIn(from, to)}

\* And the scan is what the chain has in its range.
ScanRead ==
  history.at = "verify" /\ Canonical(history.anchor) =>
    history.scanned = Positions(ScanFrom, history.head)

GraduatesAfter ==
  \A g \in 1 .. Tip : Graduation \in chain[g].logs => \E b \in 1 .. g : Graduating \in chain[b].logs

At(e, block) == block \in 1 .. Tip /\ e \in chain[block].logs

\* Blocks that are where the chain has them, as long as there was no reorg.
Exact(launches, graduated) ==
  /\ \A l \in Launched : launches[l] # NoBlock => At(l, launches[l])
  /\ graduated # NoBlock => At(Graduation, graduated)

ExactUntilReorg ==
  forks = 0 =>
    /\ Exact(index.launches, index.graduated) /\ Exact(disk.launches, disk.graduated)
    /\ Exact(history.file.launches, history.file.graduated)
    /\ \A y \in history.scanned : At(y[1], y[2])
    /\ \A l \in Launched : \A b \in everAt[l] : At(l, b)

IndexInv ==
  /\ ChainOK /\ IndexTypes
  /\ Whole(disk) /\ Whole(history.file) /\ ReadyIsWhole
  /\ AnchorRead /\ FileReused /\ ScanRead
  /\ GraduatesAfter /\ ExactUntilReorg

LEMMA IndexFields ==
  ASSUME IndexTypes
  PROVE  /\ index.coverage \in Coverages /\ index.launches \in [Launched -> Nat] /\ index.graduated \in Nat
         /\ index.last_grad \in Nat
         /\ disk.coverage \in Coverages /\ disk.launches \in [Launched -> Nat] /\ disk.graduated \in Nat
         /\ history.head \in Nat /\ history.anchor \in Hashes /\ history.file \in Files
         /\ history.file.coverage \in Coverages /\ history.file.launches \in [Launched -> Nat]
         /\ history.file.graduated \in Nat /\ history.scanned \subseteq Event \X Nat
BY DEF IndexTypes, Files

LEMMA CoverageFields ==
  ASSUME NEW c \in Coverages
  PROVE  c.from \in Nat /\ c.to \in Nat /\ c.anchor \in Hashes /\ c.anchor[1] \in Nat
BY DEF Coverages, Hashes

LEMMA EmptyTypes ==
  /\ NoFile \in Files /\ Empty.launches \in [Launched -> Nat] /\ NoCoverage \in Coverages
  /\ NoFile.coverage = NoCoverage /\ NoFile.launches = Empty.launches /\ NoFile.graduated = 0
  /\ \A l \in Launched : Empty.launches[l] = NoBlock
  /\ NoHash \in Hashes
<1>1. Empty.launches = [l \in Launched |-> NoBlock] /\ NoBlock = 0
  BY DEF Empty, NoBlock
<1>2. NoCoverage \in Coverages /\ NoHash \in Hashes
  BY DEF NoCoverage, Coverages, Hashes, NoHash
<1>3. NoFile = [coverage |-> NoCoverage, launches |-> Empty.launches, graduated |-> 0]
  BY <1>1 DEF NoFile
<1> QED
  BY <1>1, <1>2, <1>3 DEF Files

LEMMA EmptyIsWhole ==
  ASSUME ChainOK
  PROVE  Whole(NoFile) /\ ~ Canonical(NoHash)
BY EmptyTypes DEF Whole, Read, NoCoverage, NoHash, Canonical, Hashes

LEMMA WholeStays ==
  ASSUME ChainOK, ChainStep, NEW x, x.coverage \in Coverages, Whole(x)
  PROVE  Whole(x)'
<1> DEFINE c == x.coverage
<1>1. c.from \in Nat /\ c.to \in Nat /\ c.to = c.anchor[1] /\ Read(c.anchor)
  BY CoverageFields DEF Whole
<1>2. Read(c.anchor)' /\ (Canonical(c.anchor)' => Canonical(c.anchor) /\ Prefix(c.anchor[1]))
  BY <1>1, ReadStays
<1>3. ASSUME Canonical(c.anchor)'
      PROVE  Covers(x)'
  <2>1. LogsIn(c.from, c.to)' = LogsIn(c.from, c.to)
    BY <1>1, <1>2, <1>3, RangeStays
  <2>2. Covers(x)
    BY <1>2, <1>3 DEF Whole
  <2> QED
    BY <2>1, <2>2 DEF Covers
<1> QED
  BY <1>1, <1>2, <1>3 DEF Whole

\* One that knows more is whole as well.
LEMMA WholeMore ==
  ASSUME NEW x, NEW y, Whole(x), y.coverage = x.coverage,
         \A l \in Launched : x.launches[l] # NoBlock => y.launches[l] # NoBlock,
         x.graduated # NoBlock => y.graduated # NoBlock
  PROVE  Whole(y)
BY DEF Whole, Covers

LEMMA StillWhole ==
  ASSUME chain' = chain, forks' = forks, NEW x, Whole(x)
  PROVE  Whole(x)'
<1>1. \A from, to : LogsIn(from, to)' = LogsIn(from, to)
  BY DEF LogsIn, Tip
<1> QED
  BY <1>1 DEF Whole, Covers, Read, Canonical, Hash, Tip

LEMMA StillPositions ==
  ASSUME chain' = chain, NEW from, NEW to
  PROVE  Positions(from, to)' = Positions(from, to)
<1>1. LogsIn(from, to)' = LogsIn(from, to)
  BY DEF LogsIn, Tip
<1>2. \A e : BlockOf(e)' = BlockOf(e)
  BY DEF BlockOf, Tip
<1> QED
  BY <1>1, <1>2 DEF Positions

LEMMA PositionsStay ==
  ASSUME ChainOK, ChainStep, NEW from \in Int, NEW to \in Int, Prefix(to)
  PROVE  Positions(from, to)' = Positions(from, to)
<1>1. LogsIn(from, to)' = LogsIn(from, to)
  BY RangeStays
<1>2. \A e \in LogsIn(from, to) : BlockOf(e)' = BlockOf(e)
  BY RangeStays
<1> QED
  BY <1>1, <1>2 DEF Positions

LEMMA PositionsHas ==
  ASSUME ChainOK, NEW from, NEW to, NEW e, NEW b
  PROVE  <<e, b>> \in Positions(from, to) <=> At(e, b) /\ from <= b /\ b <= to
<1>1. ASSUME <<e, b>> \in Positions(from, to)
      PROVE  At(e, b) /\ from <= b /\ b <= to
  <2>1. e \in LogsIn(from, to) /\ b = BlockOf(e)
    BY <1>1 DEF Positions
  <2>2. PICK c \in 1 .. Tip : from <= c /\ c <= to /\ e \in chain[c].logs
    BY <2>1, LogsInHas
  <2> QED
    BY <2>1, <2>2, BlockOfIs DEF At
<1>2. ASSUME At(e, b), from <= b, b <= to
      PROVE  <<e, b>> \in Positions(from, to)
  <2>1. e \in LogsIn(from, to) /\ BlockOf(e) = b
    BY <1>2, LogsInHas, BlockOfIs DEF At
  <2> QED
    BY <2>1 DEF Positions
<1> QED
  BY <1>1, <1>2

LEMMA PositionsType ==
  ASSUME ChainOK, NEW from, NEW to
  PROVE  Positions(from, to) \subseteq Event \X Nat
<1>1. ASSUME NEW e \in LogsIn(from, to)
      PROVE  <<e, BlockOf(e)>> \in Event \X Nat
  <2>1. PICK b \in 1 .. Tip : e \in chain[b].logs
    BY <1>1, LogsInHas
  <2>2. e \in Event /\ b \in Nat
    BY <2>1, BlockFields, TipType
  <2> QED
    BY <2>1, <2>2, BlockOfIs
<1> QED
  BY <1>1 DEF Positions

\* A step of the tasks, the feed or the process that leaves the chain alone.
LEMMA IndexStillKeeps ==
  ASSUME IndexInv, chain' = chain, forks' = forks, everAt' = everAt, IndexTypes',
         Whole(disk'), Whole(history'.file),
         index'.status = "ready" => Whole(index') /\ index'.coverage.anchor # NoHash,
         AnchorRead', FileReused', ScanRead',
         forks = 0 =>
           /\ Exact(index'.launches, index'.graduated) /\ Exact(disk'.launches, disk'.graduated)
           /\ Exact(history'.file.launches, history'.file.graduated)
           /\ \A y \in history'.scanned : At(y[1], y[2])
  PROVE  IndexInv'
<1>1. ChainOK'
  BY StillFacts DEF IndexInv
<1>2. PICK d, f, i : d = disk' /\ f = history'.file /\ i = index'
  OBVIOUS
<1>3. Whole(d)' /\ Whole(f)' /\ (i.status = "ready" => Whole(i)' /\ i.coverage.anchor # NoHash)
  BY <1>2, StillWhole
<1>4. Whole(disk)' /\ Whole(history.file)' /\ ReadyIsWhole'
  BY <1>2, <1>3 DEF ReadyIsWhole
<1>5. GraduatesAfter'
  BY DEF IndexInv, GraduatesAfter, Tip
<1>6. ExactUntilReorg'
  BY DEF IndexInv, ExactUntilReorg, Exact, At, Tip
<1> QED
  BY <1>1, <1>4, <1>5, <1>6 DEF IndexInv

LEMMA HistoryStays ==
  ASSUME IndexInv, chain' = chain, forks' = forks, history' = history
  PROVE  AnchorRead' /\ FileReused' /\ ScanRead'
<1>1. AnchorRead' /\ FileReused'
  BY DEF IndexInv, AnchorRead, FileReused, Read, Canonical, Hash, Tip, From
<1>2. ScanRead'
  <2>1. PICK f, h : f = ScanFrom /\ h = history.head
    OBVIOUS
  <2>2. Positions(f, h)' = Positions(f, h)
    BY StillPositions
  <2>3. ScanFrom' = ScanFrom
    BY DEF ScanFrom, From
  <2>4. Positions(ScanFrom, history.head)' = Positions(ScanFrom, history.head)
    BY <2>1, <2>2, <2>3
  <2> QED
    BY <2>4 DEF IndexInv, ScanRead, Canonical, Hash, Tip
<1> QED
  BY <1>1, <1>2

\* Where the history task has no plan that the chain could upset.
LEMMA HistoryIdle ==
  ASSUME history'.at \notin Scanning
  PROVE  AnchorRead' /\ FileReused' /\ ScanRead'
BY DEF Scanning, AnchorRead, FileReused, ScanRead

LEMMA IndexInitInv == ChainInit /\ IndexInit => IndexInv
<1> SUFFICES ASSUME ChainInit, IndexInit
             PROVE  IndexInv
  OBVIOUS
<1>1. ChainOK /\ forks = 0 /\ Mined = {}
  BY ChainInitOK
<1>2. /\ index = Empty /\ disk = NoFile /\ history = Reading /\ grad = Waiting
      /\ everAt = [l \in Launched |-> {}]
  BY DEF IndexInit
<1>3. IndexTypes
  <2>1. index = [status |-> "loading", coverage |-> NoCoverage, last_grad |-> 0,
                 launches |-> Empty.launches, graduated |-> 0]
    BY <1>2 DEF Empty, NoBlock
  <2> QED
    BY <1>2, <2>1, EmptyTypes DEF IndexTypes, Reading, Waiting, Scanning
<1>4. Whole(disk) /\ Whole(history.file)
  BY <1>1, <1>2, EmptyIsWhole DEF Reading
<1>5. ReadyIsWhole /\ AnchorRead /\ FileReused /\ ScanRead
  BY <1>2 DEF ReadyIsWhole, AnchorRead, FileReused, ScanRead, Empty, Reading, Scanning
<1>6. \A b \in 1 .. Tip : Graduation \notin chain[b].logs
  <2>1. \A b \in 1 .. Tip : 1 <= b /\ b <= Tip
    BY <1>1, TipType
  <2> QED
    BY <1>1, <2>1, LogsInHas DEF Mined
<1>7. GraduatesAfter
  BY <1>6 DEF GraduatesAfter
<1>8. ExactUntilReorg
  BY <1>2, EmptyTypes DEF ExactUntilReorg, Exact, Reading, Empty, NoBlock
<1> QED
  BY <1>1, <1>3, <1>4, <1>5, <1>7, <1>8 DEF IndexInv

\* The chain goes on under the index.
LEMMA IndexChainKeeps ==
  ASSUME IndexInv, ChainStep, index' = index, disk' = disk, history' = history, grad' = grad,
         everAt' \in [Launched -> SUBSET Nat], GraduatesAfter',
         Grows => \A l \in Launched : \A b \in everAt'[l] : b \in everAt[l] \/ At(l, b)'
  PROVE  IndexInv'
<1>0. ChainOK /\ ChainOK' /\ IndexTypes /\ forks \in Nat
  BY DEF IndexInv, ChainStep, ChainOK
<1>1. IndexTypes'
  BY <1>0 DEF IndexTypes
<1>2. PICK d, f, i, h : d = disk /\ f = history.file /\ i = index /\ h = history
  OBVIOUS
<1>3. Whole(d)' /\ Whole(f)' /\ (i.status = "ready" => Whole(i)' /\ i.coverage.anchor # NoHash)
  BY <1>0, <1>2, WholeStays, IndexFields DEF IndexInv, ReadyIsWhole
<1>4. Whole(disk)' /\ Whole(history.file)' /\ ReadyIsWhole'
  BY <1>2, <1>3 DEF ReadyIsWhole
<1>5. ASSUME history.at \in {"file", "scan", "verify"}
      PROVE  /\ h.anchor \in Nat \X Nat /\ h.anchor[1] = h.head
             /\ Read(h.anchor)' /\ (Canonical(h.anchor)' => Canonical(h.anchor) /\ Prefix(h.head))
  <2>1. Read(h.anchor) /\ h.anchor[1] = h.head /\ h.anchor \in Nat \X Nat
    BY <1>0, <1>2, <1>5, IndexFields DEF IndexInv, AnchorRead, Hashes
  <2> QED
    BY <1>0, <2>1, ReadStays
<1>6. AnchorRead'
  BY <1>2, <1>5 DEF IndexInv, AnchorRead, Read, Canonical, Hash
<1>7. FileReused'
  <2> SUFFICES ASSUME history.at \in {"scan", "verify"}, history.file # NoFile
               PROVE  FileReused'
    BY DEF FileReused
  <2>1. /\ f.coverage.from <= From /\ f.coverage.to <= h.head
        /\ Canonical(h.anchor) => Canonical(f.coverage.anchor)
    BY <1>2 DEF IndexInv, FileReused
  <2>2. f.coverage.to = f.coverage.anchor[1] /\ f.coverage.anchor \in Nat \X Nat /\ f.coverage.to \in Nat
    BY <1>0, <1>2, IndexFields, CoverageFields DEF IndexInv, Whole, Hashes
  <2>3. ASSUME Canonical(h.anchor)'
        PROVE  Canonical(f.coverage.anchor)'
    <3>1. Canonical(f.coverage.anchor) /\ Prefix(h.head)
      BY <1>5, <2>1, <2>3
    <3>2. h.head \in Nat /\ Tip \in Nat /\ Tip' \in Nat
      BY <1>0, <1>2, IndexFields, TipType DEF ChainOK, Tip
    <3>3. f.coverage.to \in 1 .. Tip' /\ chain'[f.coverage.to] = chain[f.coverage.to]
      BY <2>1, <2>2, <3>1, <3>2 DEF Prefix, Canonical
    <3> QED
      BY <2>2, <3>1, <3>3 DEF Canonical, Hash
  <2>4. (Canonical(history.anchor) => Canonical(history.file.coverage.anchor))'
    BY <1>2, <2>3 DEF Canonical, Hash
  <2>5. From' = From
    BY DEF From
  <2> QED
    BY <1>2, <2>1, <2>4, <2>5 DEF FileReused
<1>8. ScanRead'
  <2> SUFFICES ASSUME history.at = "verify", Canonical(history.anchor)'
               PROVE  (history.scanned = Positions(ScanFrom, history.head))'
    BY DEF ScanRead
  <2>1. Canonical(h.anchor)'
    BY <1>2 DEF Canonical, Hash
  <2>2. Canonical(h.anchor) /\ Prefix(h.head)
    BY <1>5, <2>1
  <2>3. history.scanned = Positions(ScanFrom, h.head)
    BY <1>2, <2>2 DEF IndexInv, ScanRead
  <2>4. ScanFrom' = ScanFrom /\ ScanFrom \in Int /\ h.head \in Int
    BY <1>0, <1>2, IndexFields, CoverageFields, IndexAssumption DEF ScanFrom, From
  <2>5. PICK s \in Int, t \in Int : s = ScanFrom /\ t = h.head
    BY <2>4
  <2>6. Positions(s, t)' = Positions(s, t)
    BY <1>0, <2>2, <2>5, PositionsStay
  <2>7. Positions(ScanFrom, history.head)' = Positions(s, t)'
    BY <1>2, <2>4, <2>5
  <2> QED
    BY <2>3, <2>5, <2>6, <2>7
<1>9. ExactUntilReorg'
  <2> SUFFICES ASSUME forks' = 0
               PROVE  ExactUntilReorg'
    BY DEF ExactUntilReorg
  <2>1. Grows /\ forks = 0
    BY <1>0 DEF ChainStep, Grows, Shrinks
  <2>2. \A e, b : At(e, b) => At(e, b)'
    BY <1>0, <2>1, TipType DEF Grows, Prefix, At, ChainOK, Tip
  <2>3. Exact(index.launches, index.graduated)' /\ Exact(disk.launches, disk.graduated)'
        /\ Exact(history.file.launches, history.file.graduated)'
    BY <2>1, <2>2 DEF IndexInv, ExactUntilReorg, Exact
  <2>4. \A y \in history'.scanned : At(y[1], y[2])'
    BY <2>1, <2>2 DEF IndexInv, ExactUntilReorg
  <2>5. \A l \in Launched : \A b \in everAt'[l] : At(l, b)'
    BY <2>1, <2>2 DEF IndexInv, ExactUntilReorg
  <2> QED
    BY <2>3, <2>4, <2>5 DEF ExactUntilReorg
<1> QED
  BY <1>0, <1>1, <1>4, <1>6, <1>7, <1>8, <1>9 DEF IndexInv

LEMMA IndexExtendedKeeps ==
  ASSUME IndexInv, NEW logs \in SUBSET (Launched \cup {Graduation}), IndexExtended(logs)
  PROVE  IndexInv'
<1>0. ChainOK /\ IndexTypes /\ Tip \in Nat
  BY TipType DEF IndexInv
<1>1. logs \in SUBSET Event /\ Extend(logs)
  BY IndexAssumption DEF IndexExtended
<1>2. ChainStep /\ Grows /\ Tip' = Tip + 1 /\ chain'[Tip + 1] = [fork |-> forks, logs |-> logs]
  BY <1>0, <1>1, ExtendSteps
<1>3. chain'[Tip + 1].logs = logs /\ \A b \in 1 .. Tip : chain'[b] = chain[b]
  BY <1>0, <1>2 DEF Grows, Prefix
<1>4. /\ index' = index /\ disk' = disk /\ history' = history /\ grad' = grad
      /\ everAt' = [l \in Launched |-> everAt[l] \cup (IF l \in logs THEN {Tip + 1} ELSE {})]
  BY DEF IndexExtended
<1>5. everAt' \in [Launched -> SUBSET Nat]
  BY <1>0, <1>4 DEF IndexTypes
<1>6. \A l \in Launched : \A b \in everAt'[l] : b \in everAt[l] \/ At(l, b)'
  BY <1>0, <1>2, <1>3, <1>4 DEF At
<1>7. GraduatesAfter'
  <2> SUFFICES ASSUME NEW g \in 1 .. Tip', Graduation \in chain'[g].logs
               PROVE  \E b \in 1 .. g : Graduating \in chain'[b].logs
    BY DEF GraduatesAfter
  <2>1. CASE g = Tip + 1
    <3>1. Graduating \in Mined \cup logs
      BY <1>3, <2>1 DEF IndexExtended
    <3>2. CASE Graduating \in logs
      BY <1>0, <1>3, <2>1, <3>2
    <3>3. CASE Graduating \in Mined
      <4>1. PICK b \in 1 .. Tip : Graduating \in chain[b].logs
        BY <3>3, LogsInHas DEF Mined
      <4> QED
        BY <1>0, <1>3, <2>1, <4>1
    <3> QED
      BY <3>1, <3>2, <3>3
  <2>2. CASE g \in 1 .. Tip
    <3>1. PICK b \in 1 .. g : Graduating \in chain[b].logs
      BY <1>3, <2>2 DEF IndexInv, GraduatesAfter
    <3>2. b \in 1 .. Tip
      BY <1>0, <2>2
    <3> QED
      BY <1>3, <3>1, <3>2
  <2> QED
    BY <1>0, <1>2, <2>1, <2>2
<1> QED
  BY <1>2, <1>4, <1>5, <1>6, <1>7, IndexChainKeeps

LEMMA IndexReorganisedKeeps ==
  ASSUME IndexInv, NEW keep \in 1 .. Tip - 1, IndexReorganised(keep)
  PROVE  IndexInv'
<1>0. ChainOK /\ IndexTypes /\ Tip \in Nat
  BY TipType DEF IndexInv
<1>1. ChainStep /\ Shrinks /\ Tip' = keep
  BY <1>0, ReorgSteps DEF IndexReorganised
<1>2. \A b \in 1 .. keep : b \in 1 .. Tip /\ chain'[b] = chain[b]
  BY <1>0, <1>1 DEF Shrinks, Prefix
<1>3. index' = index /\ disk' = disk /\ history' = history /\ grad' = grad /\ everAt' = everAt
  BY DEF IndexReorganised, indexVars
<1>4. GraduatesAfter'
  <2> SUFFICES ASSUME NEW g \in 1 .. keep, Graduation \in chain'[g].logs
               PROVE  \E b \in 1 .. g : Graduating \in chain'[b].logs
    BY <1>1 DEF GraduatesAfter
  <2>1. PICK b \in 1 .. g : Graduating \in chain[b].logs
    BY <1>2 DEF IndexInv, GraduatesAfter
  <2>2. b \in 1 .. keep
    BY <1>0
  <2> QED
    BY <1>2, <2>1, <2>2
<1>5. everAt' \in [Launched -> SUBSET Nat]
  BY <1>0, <1>3 DEF IndexTypes
<1> QED
  BY <1>1, <1>3, <1>4, <1>5, IndexChainKeeps

IndexRecord ==
  [status : {"loading", "ready", "failed"}, coverage : Coverages, last_grad : Nat,
   launches : [Launched -> Nat], graduated : Nat]

LEMMA MarkGraduatedKeeps ==
  ASSUME NEW x \in IndexRecord, NEW block \in Nat
  PROVE  LET y == MarkGraduated(x, block)
         IN  /\ y \in IndexRecord /\ y.launches = x.launches
             /\ y.coverage = x.coverage /\ y.status = x.status
             /\ y.graduated \in {x.graduated, block}
             /\ x.graduated # NoBlock \/ block # NoBlock => y.graduated # NoBlock
<1> DEFINE y == [x EXCEPT !.graduated = IF @ = NoBlock \/ block < @ THEN block ELSE @,
                          !.last_grad = IF block > @ THEN block ELSE @]
<1>1. CASE block = NoBlock
  BY <1>1 DEF MarkGraduated
<1>2. CASE block # NoBlock
  <2>1. /\ y \in IndexRecord /\ y.launches = x.launches /\ y.coverage = x.coverage /\ y.status = x.status
        /\ y.graduated = IF x.graduated = NoBlock \/ block < x.graduated THEN block ELSE x.graduated
    BY DEF IndexRecord
  <2> QED
    BY <1>2, <2>1 DEF MarkGraduated
<1> QED
  BY <1>1, <1>2

\* A launch that was not known takes the block of one of the logs, if there is one.
LEMMA NotedAllKeeps ==
  ASSUME NEW x \in IndexRecord, NEW S, NEW logs \in SUBSET (S \X Nat)
  PROVE  LET y == NotedAll(x, logs)
         IN  /\ y \in IndexRecord /\ y.graduated = x.graduated
             /\ y.coverage = x.coverage /\ y.status = x.status
             /\ \A l \in Launched :
                  \/ y.launches[l] = x.launches[l] /\ (x.launches[l] = NoBlock => \A b : <<l, b>> \notin logs)
                  \/ x.launches[l] = NoBlock /\ <<l, y.launches[l]>> \in logs
<1> DEFINE f == [l \in Launched |->
                   IF x.launches[l] = NoBlock /\ \E z \in logs : z[1] = l
                   THEN (CHOOSE z \in logs : z[1] = l)[2] ELSE x.launches[l]]
<1>1. NotedAll(x, logs) = [x EXCEPT !.launches = f]
  BY DEF NotedAll
<1>2. \A z \in logs : z = <<z[1], z[2]>> /\ z[2] \in Nat
  OBVIOUS
<1>3. ASSUME NEW l \in Launched
      PROVE  /\ f[l] \in Nat
             /\ \/ f[l] = x.launches[l] /\ (x.launches[l] = NoBlock => \A b : <<l, b>> \notin logs)
                \/ x.launches[l] = NoBlock /\ <<l, f[l]>> \in logs
  <2>1. x.launches[l] \in Nat
    BY DEF IndexRecord
  <2>2. CASE x.launches[l] = NoBlock /\ \E z \in logs : z[1] = l
    <3>1. PICK z \in logs : z[1] = l /\ f[l] = z[2]
      BY <2>2
    <3> QED
      BY <1>2, <2>2, <3>1
  <2>3. CASE ~ (x.launches[l] = NoBlock /\ \E z \in logs : z[1] = l)
    BY <2>1, <2>3
  <2> QED
    BY <2>2, <2>3
<1>4. f \in [Launched -> Nat]
  BY <1>3
<1> HIDE DEF f
<1>5. /\ [x EXCEPT !.launches = f] \in IndexRecord /\ [x EXCEPT !.launches = f].launches = f
      /\ [x EXCEPT !.launches = f].graduated = x.graduated
      /\ [x EXCEPT !.launches = f].coverage = x.coverage /\ [x EXCEPT !.launches = f].status = x.status
  BY <1>4 DEF IndexRecord
<1> QED
  BY <1>1, <1>3, <1>5

LEMMA RestoredKeeps ==
  ASSUME NEW x \in IndexRecord, NEW file \in Files
  PROVE  LET y == Restored(x, file)
         IN  /\ y \in IndexRecord /\ y.coverage = x.coverage /\ y.status = x.status
             /\ y.graduated \in {x.graduated, file.graduated}
             /\ x.graduated # NoBlock \/ file.graduated # NoBlock => y.graduated # NoBlock
             /\ \A l \in Launched :
                  /\ y.launches[l] \in {x.launches[l], file.launches[l]}
                  /\ x.launches[l] # NoBlock \/ file.launches[l] # NoBlock => y.launches[l] # NoBlock
<1> DEFINE logs == {<<l, file.launches[l]>> : l \in Launched}
           n == NotedAll(x, logs)
<1>1. file.launches \in [Launched -> Nat] /\ file.graduated \in Nat
  BY DEF Files
<1>2. logs \in SUBSET (Launched \X Nat) /\ \A l \in Launched : \A b : <<l, b>> \in logs <=> b = file.launches[l]
  BY <1>1
<1> HIDE DEF logs
<1>3. /\ n \in IndexRecord /\ n.graduated = x.graduated /\ n.coverage = x.coverage /\ n.status = x.status
      /\ \A l \in Launched :
           \/ n.launches[l] = x.launches[l] /\ (x.launches[l] = NoBlock => \A b : <<l, b>> \notin logs)
           \/ x.launches[l] = NoBlock /\ <<l, n.launches[l]>> \in logs
  BY <1>2, NotedAllKeeps
<1>4. Restored(x, file) = MarkGraduated(n, file.graduated)
  BY DEF Restored, logs
<1> HIDE DEF n
<1>5. LET y == MarkGraduated(n, file.graduated)
      IN  /\ y \in IndexRecord /\ y.launches = n.launches
          /\ y.coverage = n.coverage /\ y.status = n.status
          /\ y.graduated \in {n.graduated, file.graduated}
          /\ n.graduated # NoBlock \/ file.graduated # NoBlock => y.graduated # NoBlock
  BY <1>1, <1>3, MarkGraduatedKeeps
<1>6. ASSUME NEW l \in Launched
      PROVE  /\ n.launches[l] \in {x.launches[l], file.launches[l]}
             /\ x.launches[l] # NoBlock \/ file.launches[l] # NoBlock => n.launches[l] # NoBlock
  <2>1. <<l, file.launches[l]>> \in logs
    BY <1>2
  <2>2. CASE x.launches[l] # NoBlock
    BY <1>3, <2>2
  <2>3. CASE x.launches[l] = NoBlock /\ <<l, n.launches[l]>> \in logs
    BY <1>2, <2>3
  <2> QED
    BY <1>3, <2>1, <2>2, <2>3
<1>7. PICK r : r = Restored(x, file)
  OBVIOUS
<1>8. /\ r \in IndexRecord /\ r.coverage = x.coverage /\ r.status = x.status /\ r.launches = n.launches
      /\ r.graduated \in {x.graduated, file.graduated}
      /\ x.graduated # NoBlock \/ file.graduated # NoBlock => r.graduated # NoBlock
  BY <1>3, <1>4, <1>5, <1>7
<1>9. \A l \in Launched :
        /\ r.launches[l] \in {x.launches[l], file.launches[l]}
        /\ x.launches[l] # NoBlock \/ file.launches[l] # NoBlock => r.launches[l] # NoBlock
  BY <1>6, <1>8
<1> QED
  BY <1>7, <1>8, <1>9

\* A step that changes what the index knows, and nothing else.
LEMMA KnowledgeKeeps ==
  ASSUME IndexInv, chain' = chain, forks' = forks, everAt' = everAt, disk' = disk, history' = history,
         IndexTypes', index'.status = index.status, index'.coverage = index.coverage,
         \A l \in Launched : index'.launches[l] # index.launches[l] =>
           index.launches[l] = NoBlock /\ (forks = 0 => At(l, index'.launches[l])),
         index.graduated # NoBlock => index'.graduated # NoBlock,
         forks = 0 => index'.graduated = index.graduated \/ At(Graduation, index'.graduated)
  PROVE  IndexInv'
<1>1. index'.status = "ready" => Whole(index') /\ index'.coverage.anchor # NoHash
  <2> SUFFICES ASSUME index'.status = "ready"
               PROVE  Whole(index') /\ index'.coverage.anchor # NoHash
    OBVIOUS
  <2>1. PICK i, j : i = index /\ j = index'
    OBVIOUS
  <2>2. Whole(i) /\ i.coverage.anchor # NoHash
    BY <2>1 DEF IndexInv, ReadyIsWhole
  <2>3. /\ j.coverage = i.coverage /\ (i.graduated # NoBlock => j.graduated # NoBlock)
        /\ \A l \in Launched : i.launches[l] # NoBlock => j.launches[l] # NoBlock
    BY <2>1
  <2>4. Whole(j)
    BY <2>2, <2>3, WholeMore
  <2> QED
    BY <2>1, <2>2, <2>3, <2>4
<1>2. Whole(disk') /\ Whole(history'.file)
  BY DEF IndexInv
<1>3. forks = 0 =>
        /\ Exact(index'.launches, index'.graduated) /\ Exact(disk'.launches, disk'.graduated)
        /\ Exact(history'.file.launches, history'.file.graduated)
        /\ \A y \in history'.scanned : At(y[1], y[2])
  BY DEF IndexInv, ExactUntilReorg, Exact
<1> QED
  BY <1>1, <1>2, <1>3, HistoryStays, IndexStillKeeps

LEMMA NoteLiveKeeps ==
  ASSUME IndexInv, NEW l \in Launched, NoteLive(l)
  PROVE  IndexInv'
<1>0. IndexTypes
  BY DEF IndexInv
<1>1. PICK block \in everAt[l] : index' = Noted(index, l, block)
  BY DEF NoteLive
<1>2. block \in Nat /\ (forks = 0 => At(l, block))
  BY <1>0 DEF IndexTypes, IndexInv, ExactUntilReorg
<1>3. /\ disk' = disk /\ history' = history /\ grad' = grad /\ everAt' = everAt
      /\ chain' = chain /\ forks' = forks
  BY DEF NoteLive, chainVars
<1>4. index' = [index EXCEPT !.launches = [index.launches EXCEPT ![l] = IF @ = NoBlock THEN block ELSE @]]
  BY <1>0, <1>1 DEF Noted, IndexTypes
<1>5. PICK f \in [Launched -> Nat] : f = [index.launches EXCEPT ![l] = IF @ = NoBlock THEN block ELSE @]
  BY <1>0, <1>2, IndexFields
<1>6. /\ index' \in IndexRecord /\ index'.launches = f /\ index'.graduated = index.graduated
      /\ index'.status = index.status /\ index'.coverage = index.coverage
  BY <1>0, <1>4, <1>5 DEF IndexRecord, IndexTypes
<1>7. \A x \in Launched : f[x] # index.launches[x] =>
        index.launches[x] = NoBlock /\ (forks = 0 => At(x, f[x]))
  BY <1>0, <1>2, <1>5, IndexFields
<1>8. IndexTypes'
  BY <1>0, <1>3, <1>6 DEF IndexTypes, IndexRecord
<1> QED
  BY <1>3, <1>6, <1>7, <1>8, KnowledgeKeeps

LEMMA GradLogsKeeps ==
  ASSUME IndexInv, GradLogs
  PROVE  IndexInv'
<1>0. IndexTypes /\ ChainOK
  BY DEF IndexInv
<1>1. /\ disk' = disk /\ history' = history /\ grad' = Waiting /\ everAt' = everAt
      /\ chain' = chain /\ forks' = forks
  BY DEF GradLogs, chainVars
<1>2. grad' \in [at : {"wait", "head", "logs"}, from : Nat, head : Nat]
  BY <1>1 DEF Waiting
<1>3. CASE index' = index
  <2>1. IndexTypes'
    BY <1>0, <1>1, <1>2, <1>3 DEF IndexTypes
  <2> QED
    BY <1>1, <1>3, <2>1, KnowledgeKeeps
<1>4. CASE Graduation \in LogsIn(grad.from, grad.head) /\ index' = MarkGraduated(index, BlockOf(Graduation))
  <2>1. PICK b \in 1 .. Tip : Graduation \in chain[b].logs /\ BlockOf(Graduation) = b
    BY <1>0, <1>4, LogsInHas, BlockOfIs
  <2>2. b \in Nat /\ At(Graduation, b)
    BY <2>1, TipType DEF At
  <2>3. index \in IndexRecord
    BY <1>0 DEF IndexTypes, IndexRecord
  <2>4. /\ index' \in IndexRecord /\ index'.launches = index.launches
        /\ index'.coverage = index.coverage /\ index'.status = index.status
        /\ index'.graduated \in {index.graduated, b}
        /\ index.graduated # NoBlock => index'.graduated # NoBlock
    BY <1>4, <2>1, <2>2, <2>3, MarkGraduatedKeeps
  <2>5. IndexTypes'
    BY <1>0, <1>1, <1>2, <2>4 DEF IndexTypes, IndexRecord
  <2> QED
    BY <1>1, <2>2, <2>4, <2>5, KnowledgeKeeps
<1> QED
  BY <1>3, <1>4 DEF GradLogs

LEMMA GradKeeps ==
  ASSUME IndexInv, GradHead \/ GradFails
  PROVE  IndexInv'
<1>0. IndexTypes /\ Tip \in Nat
  BY TipType DEF IndexInv
<1>1. /\ index' = index /\ disk' = disk /\ history' = history /\ everAt' = everAt
      /\ chain' = chain /\ forks' = forks
  BY DEF GradHead, GradFails, CallFails, chainVars
<1>2. grad' \in [at : {"wait", "head", "logs"}, from : Nat, head : Nat]
  <2>1. CASE GradFails
    BY <2>1 DEF GradFails, Waiting
  <2>2. CASE GradHead
    <3>1. (IF index.last_grad > GradMargin THEN index.last_grad - GradMargin ELSE 0) \in Nat
          /\ (IF Tip > GradReach THEN Tip - GradReach ELSE 0) \in Nat
      BY <1>0, IndexFields, IndexAssumption
    <3> QED
      BY <1>0, <2>2, <3>1 DEF GradHead
  <2> QED
    BY <2>1, <2>2
<1>3. IndexTypes'
  BY <1>0, <1>1, <1>2 DEF IndexTypes
<1> QED
  BY <1>1, <1>3, KnowledgeKeeps

Histories ==
  [at : {"begin", "permit", "save", "done"} \cup Scanning, head : Nat, anchor : Hashes,
   file : Files, scanned : SUBSET (Event \X Nat)]

\* The history task has no plan after the step; what it holds of a file is whole.
LEMMA IdleKeeps ==
  ASSUME IndexInv, chain' = chain, forks' = forks, everAt' = everAt, IndexTypes',
         history'.at \notin Scanning, history'.scanned = {},
         \/ disk' = disk \/ disk' = history.file,
         history'.file \in {NoFile, disk, history.file},
         \/ index'.launches = index.launches /\ index'.graduated = index.graduated
         \/ index'.launches = Empty.launches /\ index'.graduated = NoBlock,
         index'.status = "ready" => index' = index
  PROVE  IndexInv'
<1>0. ChainOK
  BY DEF IndexInv
<1>1. Whole(disk') /\ Whole(history'.file)
  BY <1>0, EmptyIsWhole DEF IndexInv
<1>2. index'.status = "ready" => Whole(index') /\ index'.coverage.anchor # NoHash
  BY DEF IndexInv, ReadyIsWhole
<1>3. AnchorRead' /\ FileReused' /\ ScanRead'
  BY HistoryIdle
<1>4. Exact(Empty.launches, NoBlock) /\ Exact(NoFile.launches, NoFile.graduated)
  BY EmptyTypes DEF Exact, NoBlock
<1>5. forks = 0 =>
        /\ Exact(index'.launches, index'.graduated) /\ Exact(disk'.launches, disk'.graduated)
        /\ Exact(history'.file.launches, history'.file.graduated)
        /\ \A y \in history'.scanned : At(y[1], y[2])
  <2> SUFFICES ASSUME forks = 0
               PROVE  /\ Exact(index'.launches, index'.graduated) /\ Exact(disk'.launches, disk'.graduated)
                      /\ Exact(history'.file.launches, history'.file.graduated)
    OBVIOUS
  <2>1. /\ Exact(index.launches, index.graduated) /\ Exact(disk.launches, disk.graduated)
        /\ Exact(history.file.launches, history.file.graduated)
    BY DEF IndexInv, ExactUntilReorg
  <2> QED
    BY <1>4, <2>1
<1> QED
  BY <1>1, <1>2, <1>3, <1>5, IndexStillKeeps

LEMMA HistoryBeginKeeps ==
  ASSUME IndexInv, HistoryBegin
  PROVE  IndexInv'
<1>0. IndexTypes
  BY DEF IndexInv
<1>1. /\ index' = [index EXCEPT !.status = "loading"] /\ history' = [Reading EXCEPT !.at = "permit", !.file = disk]
      /\ disk' = disk /\ grad' = grad /\ everAt' = everAt /\ chain' = chain /\ forks' = forks
  BY DEF HistoryBegin, chainVars
<1>2. /\ index' \in IndexRecord /\ index'.status = "loading"
      /\ index'.launches = index.launches /\ index'.graduated = index.graduated
  BY <1>0, <1>1 DEF IndexTypes, IndexRecord
<1>3. /\ history' \in Histories /\ history'.at = "permit" /\ history'.file = disk /\ history'.scanned = {}
      /\ history'.at \notin Scanning
  <2>1. disk \in Files
    BY <1>0 DEF IndexTypes
  <2> QED
    BY <1>1, <2>1, EmptyTypes DEF Reading, Histories, Scanning
<1>4. IndexTypes'
  BY <1>0, <1>1, <1>2, <1>3 DEF IndexTypes, IndexRecord, Histories
<1> QED
  BY <1>1, <1>2, <1>3, <1>4, IdleKeeps

LEMMA HistoryFailsKeeps ==
  ASSUME IndexInv, HistoryFails
  PROVE  IndexInv'
<1>0. IndexTypes
  BY DEF IndexInv
<1>1. /\ index' = [index EXCEPT !.status = "failed"] /\ history' = Reading
      /\ disk' = disk /\ grad' = grad /\ everAt' = everAt /\ chain' = chain /\ forks' = forks
  BY DEF HistoryFails, CallFails, chainVars
<1>2. /\ index' \in IndexRecord /\ index'.status = "failed"
      /\ index'.launches = index.launches /\ index'.graduated = index.graduated
  BY <1>0, <1>1 DEF IndexTypes, IndexRecord
<1>3. /\ history' \in Histories /\ history'.file = NoFile /\ history'.scanned = {}
      /\ history'.at \notin Scanning
  BY <1>1, EmptyTypes DEF Reading, Histories, Scanning
<1>4. IndexTypes'
  BY <1>0, <1>1, <1>2, <1>3 DEF IndexTypes, IndexRecord, Histories
<1> QED
  BY <1>1, <1>2, <1>3, <1>4, IdleKeeps

LEMMA HistorySaveKeeps ==
  ASSUME IndexInv, HistorySave
  PROVE  IndexInv'
<1>0. IndexTypes
  BY DEF IndexInv
<1>1. /\ disk' \in {disk, history.file} /\ history' = [Reading EXCEPT !.at = "done"]
      /\ index' = index /\ grad' = grad /\ everAt' = everAt /\ chain' = chain /\ forks' = forks
  BY DEF HistorySave, chainVars
<1>2. /\ history' \in Histories /\ history'.file = NoFile /\ history'.scanned = {}
      /\ history'.at \notin Scanning
  BY <1>1, EmptyTypes DEF Reading, Histories, Scanning
<1>3. disk' \in Files
  BY <1>0, <1>1 DEF IndexTypes
<1>4. IndexTypes'
  BY <1>0, <1>1, <1>2, <1>3 DEF IndexTypes, IndexRecord, Histories
<1> QED
  BY <1>1, <1>2, <1>4, IdleKeeps

LEMMA RestartKeeps ==
  ASSUME IndexInv, Restart
  PROVE  IndexInv'
<1>0. IndexTypes
  BY DEF IndexInv
<1>1. /\ index' = Empty /\ history' = Reading /\ grad' = Waiting
      /\ disk' = disk /\ everAt' = everAt /\ chain' = chain /\ forks' = forks
  BY DEF Restart, chainVars
<1>2. /\ index' \in IndexRecord /\ index'.status = "loading"
      /\ index'.launches = Empty.launches /\ index'.graduated = NoBlock
  <2>1. Empty = [status |-> "loading", coverage |-> NoCoverage, last_grad |-> 0,
                 launches |-> Empty.launches, graduated |-> 0]
    BY DEF Empty, NoBlock
  <2> QED
    BY <1>1, <2>1, EmptyTypes DEF IndexRecord, NoBlock
<1>3. /\ history' \in Histories /\ history'.file = NoFile /\ history'.scanned = {}
      /\ history'.at \notin Scanning
  BY <1>1, EmptyTypes DEF Reading, Histories, Scanning
<1>4. IndexTypes'
  BY <1>0, <1>1, <1>2, <1>3 DEF IndexTypes, IndexRecord, Histories, Waiting
<1> QED
  BY <1>1, <1>2, <1>3, <1>4, IdleKeeps

\* A step of the scan: the index and the disk stay.
LEMMA ScanningKeeps ==
  ASSUME IndexInv, chain' = chain, forks' = forks, everAt' = everAt, index' = index, disk' = disk, grad' = grad,
         history' \in Histories, history'.file \in {NoFile, history.file},
         AnchorRead', FileReused', ScanRead',
         forks = 0 => \A y \in history'.scanned : At(y[1], y[2])
  PROVE  IndexInv'
<1>0. ChainOK /\ IndexTypes
  BY DEF IndexInv
<1>1. IndexTypes'
  BY <1>0 DEF IndexTypes, Histories
<1>2. Whole(disk') /\ Whole(history'.file)
  BY <1>0, EmptyIsWhole DEF IndexInv
<1>3. index'.status = "ready" => Whole(index') /\ index'.coverage.anchor # NoHash
  BY DEF IndexInv, ReadyIsWhole
<1>4. Exact(NoFile.launches, NoFile.graduated)
  BY EmptyTypes DEF Exact, NoBlock
<1>5. forks = 0 =>
        /\ Exact(index'.launches, index'.graduated) /\ Exact(disk'.launches, disk'.graduated)
        /\ Exact(history'.file.launches, history'.file.graduated)
        /\ \A y \in history'.scanned : At(y[1], y[2])
  BY <1>4 DEF IndexInv, ExactUntilReorg
<1> QED
  BY <1>1, <1>2, <1>3, <1>5, IndexStillKeeps

LEMMA HistoryHeadKeeps ==
  ASSUME IndexInv, HistoryHead
  PROVE  IndexInv'
<1>0. ChainOK /\ IndexTypes /\ Tip \in Nat /\ Tip >= 1
  BY TipType DEF IndexInv, ChainOK
<1>1. /\ history' = [history EXCEPT !.at = "anchor", !.head = Tip] /\ index' = index /\ disk' = disk
      /\ grad' = grad /\ everAt' = everAt /\ chain' = chain /\ forks' = forks
  BY DEF HistoryHead, chainVars
<1>2. /\ history' \in Histories /\ history'.at = "anchor" /\ history'.head = Tip
      /\ history'.file = history.file /\ history'.scanned = history.scanned
  BY <1>0, <1>1 DEF IndexTypes, Histories, Scanning
<1>3. AnchorRead' /\ FileReused' /\ ScanRead'
  BY <1>0, <1>2 DEF AnchorRead, FileReused, ScanRead
<1> QED
  BY <1>1, <1>2, <1>3, ScanningKeeps DEF IndexInv, ExactUntilReorg

LEMMA HistoryAnchorKeeps ==
  ASSUME IndexInv, HistoryAnchor
  PROVE  IndexInv'
<1>0. ChainOK /\ IndexTypes /\ Tip \in Nat
  BY TipType DEF IndexInv
<1>1. /\ history.at = "anchor" /\ history.head <= Tip
      /\ history' = [history EXCEPT !.at = "file", !.anchor = Hash(history.head)] /\ index' = index /\ disk' = disk
      /\ grad' = grad /\ everAt' = everAt /\ chain' = chain /\ forks' = forks
  BY DEF HistoryAnchor, chainVars
<1>2. history.head \in 1 .. Tip
  BY <1>0, <1>1, IndexFields DEF IndexInv, AnchorRead, Scanning
<1>3. PICK hash \in Nat \X Nat : hash = Hash(history.head)
  <2>1. chain[history.head].fork \in Nat /\ history.head \in Nat
    BY <1>0, <1>2, BlockFields
  <2> QED
    BY <2>1 DEF Hash
<1>4. Canonical(hash) /\ hash[1] = history.head
  BY <1>2, <1>3 DEF Canonical, Hash
<1>5. /\ history' \in Histories /\ history'.at = "file" /\ history'.head = history.head
      /\ history'.anchor = hash /\ history'.file = history.file /\ history'.scanned = history.scanned
  BY <1>0, <1>1, <1>3 DEF IndexTypes, Histories, Scanning, Hashes
<1>6. Read(hash)'
  BY <1>0, <1>1, <1>4, StillFacts DEF Read
<1>7. AnchorRead'
  BY <1>2, <1>4, <1>5, <1>6 DEF AnchorRead, Read, Canonical, Hash
<1>8. FileReused' /\ ScanRead'
  BY <1>5 DEF FileReused, ScanRead
<1> QED
  BY <1>1, <1>5, <1>7, <1>8, ScanningKeeps DEF IndexInv, ExactUntilReorg

LEMMA HistoryFileKeeps ==
  ASSUME IndexInv, HistoryFile
  PROVE  IndexInv'
<1>0. ChainOK /\ IndexTypes
  BY DEF IndexInv
<1>1. /\ history.at = "file" /\ index' = index /\ disk' = disk
      /\ grad' = grad /\ everAt' = everAt /\ chain' = chain /\ forks' = forks
  BY DEF HistoryFile, CallFails, chainVars
<1>2. PICK file \in {history.file, NoFile} :
        /\ ~ Reusable(history.file.coverage) => file = NoFile
        /\ history' = [history EXCEPT !.at = "scan", !.file = file]
  BY DEF HistoryFile
<1>3. file \in Files
  BY <1>0, EmptyTypes, IndexFields
<1>4. /\ history' \in Histories /\ history'.at = "scan" /\ history'.head = history.head
      /\ history'.anchor = history.anchor /\ history'.file = file /\ history'.scanned = history.scanned
  BY <1>0, <1>2, <1>3 DEF IndexTypes, Histories, Scanning
<1>5. AnchorRead'
  BY <1>1, <1>4 DEF IndexInv, AnchorRead, Scanning, Read, Canonical, Hash, Tip
<1>6. FileReused'
  BY <1>1, <1>2, <1>4 DEF FileReused, Reusable, From, Canonical, Hash, Tip
<1>7. ScanRead'
  BY <1>4 DEF ScanRead
<1> QED
  BY <1>1, <1>2, <1>4, <1>5, <1>6, <1>7, ScanningKeeps DEF IndexInv, ExactUntilReorg

LEMMA HistoryScanKeeps ==
  ASSUME IndexInv, HistoryScan
  PROVE  IndexInv'
<1>0. ChainOK /\ IndexTypes
  BY DEF IndexInv
<1>1. /\ history.at = "scan" /\ index' = index /\ disk' = disk
      /\ grad' = grad /\ everAt' = everAt /\ chain' = chain /\ forks' = forks
      /\ history' = [history EXCEPT !.at = "verify", !.scanned = Positions(ScanFrom, history.head)]
  BY DEF HistoryScan, chainVars, Positions
<1>2. PICK f, h : f = ScanFrom /\ h = history.head
  OBVIOUS
<1>3. Positions(ScanFrom, history.head) \in SUBSET (Event \X Nat)
  BY <1>0, <1>2, PositionsType
<1>4. /\ history' \in Histories /\ history'.at = "verify" /\ history'.head = history.head
      /\ history'.anchor = history.anchor /\ history'.file = history.file
      /\ history'.scanned = Positions(ScanFrom, history.head)
  BY <1>0, <1>1, <1>3 DEF IndexTypes, Histories, Scanning
<1>5. AnchorRead'
  BY <1>1, <1>4 DEF IndexInv, AnchorRead, Scanning, Read, Canonical, Hash, Tip
<1>6. FileReused'
  BY <1>1, <1>4 DEF IndexInv, FileReused, From, Canonical, Hash, Tip
<1>7. ScanRead'
  <2>1. Positions(f, h)' = Positions(f, h)
    BY <1>1, StillPositions
  <2>2. ScanFrom' = ScanFrom
    BY <1>4 DEF ScanFrom, From
  <2>3. Positions(ScanFrom, history.head)' = Positions(ScanFrom, history.head)
    BY <1>2, <1>4, <2>1, <2>2
  <2> QED
    BY <1>4, <2>3 DEF ScanRead
<1>8. \A y \in history'.scanned : At(y[1], y[2])
  <2>1. \A e, b : <<e, b>> \in Positions(f, h) => At(e, b)
    BY <1>0, PositionsHas
  <2>2. \A y \in history'.scanned : y = <<y[1], y[2]>>
    BY <1>3, <1>4
  <2> QED
    BY <1>2, <1>4, <2>1, <2>2
<1> QED
  BY <1>1, <1>4, <1>5, <1>6, <1>7, <1>8, ScanningKeeps

LEMMA HistoryVerifyKeeps ==
  ASSUME IndexInv, HistoryVerify
  PROVE  IndexInv'
<1>0. ChainOK /\ IndexTypes /\ index \in IndexRecord /\ history.file \in Files
  BY DEF IndexInv, IndexTypes, IndexRecord
<1> DEFINE restored == Restored(index, history.file)
           noted == NotedAll(restored, history.scanned)
           block == GraduatedIn(history.scanned)
           marked == MarkGraduated(noted, block)
           coverage == [from |-> From, to |-> history.head, anchor |-> history.anchor]
<1>1. /\ history.at = "verify" /\ HashAt(history.head) = history.anchor
      /\ index' = [marked EXCEPT !.status = "ready", !.coverage = coverage]
      /\ history' = [Reading EXCEPT !.at = "save", !.file = Checkpoint(index')]
      /\ disk' = disk /\ grad' = grad /\ everAt' = everAt /\ chain' = chain /\ forks' = forks
  BY DEF HistoryVerify, chainVars
<1>2. /\ history.head \in 1 .. Tip /\ Canonical(history.anchor) /\ history.anchor[1] = history.head
      /\ history.anchor \in Hashes /\ history.anchor # NoHash /\ Read(history.anchor)
  <2>1. history.head >= 1 /\ history.head \in Nat /\ history.anchor[1] = history.head
        /\ history.anchor \in Hashes /\ Read(history.anchor)
    BY <1>0, <1>1, IndexFields DEF IndexInv, AnchorRead, Scanning
  <2>2. history.head \in 1 .. Tip
    BY <1>1, <2>1 DEF HashAt, NoHash
  <2> QED
    BY <1>1, <2>1, <2>2 DEF HashAt, Canonical, NoHash
<1>3. /\ restored \in IndexRecord
      /\ restored.graduated \in {index.graduated, history.file.graduated}
      /\ index.graduated # NoBlock \/ history.file.graduated # NoBlock => restored.graduated # NoBlock
      /\ \A l \in Launched :
           /\ restored.launches[l] \in {index.launches[l], history.file.launches[l]}
           /\ index.launches[l] # NoBlock \/ history.file.launches[l] # NoBlock => restored.launches[l] # NoBlock
  BY <1>0, RestoredKeeps
<1> HIDE DEF restored
<1>4. history.scanned \in SUBSET (Event \X Nat)
  BY <1>0, IndexFields
<1>5. /\ noted \in IndexRecord /\ noted.graduated = restored.graduated
      /\ \A l \in Launched :
           \/ noted.launches[l] = restored.launches[l]
              /\ (restored.launches[l] = NoBlock => \A b : <<l, b>> \notin history.scanned)
           \/ restored.launches[l] = NoBlock /\ <<l, noted.launches[l]>> \in history.scanned
  BY ZenonT(40), <1>3, <1>4, NotedAllKeeps
<1> HIDE DEF noted
<1>6. /\ block \in Nat
      /\ block # NoBlock => <<Graduation, block>> \in history.scanned
      /\ \A b \in Nat \ {0} : <<Graduation, b>> \in history.scanned => \E y \in history.scanned : y[1] = Graduation /\ block = y[2]
  <2>1. \A y \in history.scanned : y = <<y[1], y[2]>> /\ y[2] \in Nat
    BY <1>4
  <2>2. CASE \E y \in history.scanned : y[1] = Graduation
    <3>1. PICK y \in history.scanned : y[1] = Graduation /\ block = y[2]
      BY <2>2 DEF GraduatedIn
    <3> QED
      BY <2>1, <3>1
  <2>3. CASE ~ \E y \in history.scanned : y[1] = Graduation
    <3>1. block = NoBlock
      BY <2>3 DEF GraduatedIn
    <3>2. \A b : <<Graduation, b>> \notin history.scanned
      BY <2>3
    <3> QED
      BY <3>1, <3>2 DEF NoBlock
  <2> QED
    BY <2>2, <2>3
<1> HIDE DEF block
<1>7. /\ marked \in IndexRecord /\ marked.launches = noted.launches
      /\ marked.graduated \in {noted.graduated, block}
      /\ noted.graduated # NoBlock \/ block # NoBlock => marked.graduated # NoBlock
  BY <1>5, <1>6, MarkGraduatedKeeps
<1> HIDE DEF marked
<1>8. coverage \in Coverages
  <2>1. From \in Nat /\ history.head \in Nat
    BY <1>0, IndexFields, IndexAssumption DEF From
  <2> QED
    BY <1>2, <2>1 DEF Coverages
<1> HIDE DEF coverage
<1>9. /\ index' \in IndexRecord /\ index'.status = "ready" /\ index'.coverage = coverage
      /\ index'.launches = noted.launches /\ index'.graduated = marked.graduated
  BY <1>1, <1>7, <1>8 DEF IndexRecord
<1>10. Checkpoint(index') \in Files /\ Checkpoint(index').coverage = coverage
       /\ Checkpoint(index').launches = noted.launches /\ Checkpoint(index').graduated = marked.graduated
  BY <1>9 DEF Checkpoint, Files, IndexRecord
<1>11. /\ history' \in Histories /\ history'.at = "save" /\ history'.file = Checkpoint(index')
       /\ history'.scanned = {} /\ history'.at \notin Scanning
  BY <1>1, <1>10, EmptyTypes DEF Reading, Histories, Scanning
<1>12. IndexTypes'
  BY <1>0, <1>1, <1>9, <1>11 DEF IndexTypes, IndexRecord, Histories
<1>13. coverage.from = From /\ coverage.to = history.head /\ coverage.anchor = history.anchor
  BY DEF coverage
\* What the range holds is in the checkpoint or in the scan.
<1>14. history.scanned = Positions(ScanFrom, history.head)
  BY <1>1, <1>2 DEF IndexInv, ScanRead
<1>15. ASSUME NEW e, e \in LogsIn(From, history.head)
       PROVE  \/ <<e, BlockOf(e)>> \in history.scanned /\ BlockOf(e) \in Nat \ {0}
              \/ /\ Covers(history.file)
                 /\ e \in LogsIn(history.file.coverage.from, history.file.coverage.to)
  <2>1. PICK b \in 1 .. Tip : From <= b /\ b <= history.head /\ e \in chain[b].logs
    BY <1>15, LogsInHas
  <2>2. BlockOf(e) = b /\ b \in Nat \ {0}
    BY <1>0, <2>1, BlockOfIs, TipType
  <2>3. CASE ScanFrom <= b
    <3>1. PICK f, h : f = ScanFrom /\ h = history.head
      OBVIOUS
    <3>2. <<e, b>> \in Positions(f, h)
      BY <1>0, <2>1, <2>3, <3>1, PositionsHas DEF At
    <3> QED
      BY <1>14, <2>2, <3>1, <3>2
  <2>4. CASE ~ (ScanFrom <= b)
    <3>1. From \in Nat /\ history.file.coverage.to \in Nat /\ history.file.coverage.from \in Nat
      BY <1>0, IndexFields, CoverageFields, IndexAssumption DEF From
    <3>2. history.file # NoFile /\ b <= history.file.coverage.to
      BY <2>1, <2>2, <2>4, <3>1 DEF ScanFrom
    <3>3. history.file.coverage.from <= From /\ Canonical(history.file.coverage.anchor)
      BY <1>1, <1>2, <3>2 DEF IndexInv, FileReused
    <3>4. Covers(history.file)
      BY <3>3 DEF IndexInv, Whole
    <3>5. history.file.coverage.from <= b
      BY <2>1, <2>2, <3>1, <3>3
    <3>6. e \in LogsIn(history.file.coverage.from, history.file.coverage.to)
      BY <2>1, <3>2, <3>5, LogsInHas
    <3> QED
      BY <3>4, <3>6
  <2> QED
    BY <2>3, <2>4
<1>16. Covers(index')
  <2>1. ASSUME NEW l \in Launched, l \in LogsIn(From, history.head)
        PROVE  noted.launches[l] # NoBlock
    <3>1. CASE <<l, BlockOf(l)>> \in history.scanned /\ BlockOf(l) \in Nat \ {0}
      <4>1. \A b : <<l, b>> \in history.scanned => b # NoBlock
        <5>1. PICK f, h : f = ScanFrom /\ h = history.head
          OBVIOUS
        <5>2. \A b : <<l, b>> \in Positions(f, h) => At(l, b)
          BY <1>0, PositionsHas
        <5> QED
          BY <1>14, <5>1, <5>2 DEF At, NoBlock
      <4> QED
        BY <1>5, <3>1, <4>1
    <3>2. CASE Covers(history.file) /\ l \in LogsIn(history.file.coverage.from, history.file.coverage.to)
      <4>1. restored.launches[l] # NoBlock
        BY <1>3, <3>2 DEF Covers
      <4> QED
        BY <1>5, <4>1
    <3> QED
      BY <1>15, <2>1, <3>1, <3>2
  <2>2. ASSUME Graduation \in LogsIn(From, history.head)
        PROVE  marked.graduated # NoBlock
    <3>1. CASE <<Graduation, BlockOf(Graduation)>> \in history.scanned /\ BlockOf(Graduation) \in Nat \ {0}
      <4>1. PICK y \in history.scanned : y[1] = Graduation /\ block = y[2]
        BY <1>6, <3>1
      <4>2. PICK f, h : f = ScanFrom /\ h = history.head
        OBVIOUS
      <4>3. <<Graduation, block>> \in Positions(f, h)
        BY <1>4, <1>14, <4>1, <4>2
      <4>4. At(Graduation, block)
        BY <1>0, <4>3, PositionsHas
      <4> QED
        BY <1>7, <4>4 DEF At, NoBlock
    <3>2. CASE Covers(history.file) /\ Graduation \in LogsIn(history.file.coverage.from, history.file.coverage.to)
      <4>1. restored.graduated # NoBlock
        BY <1>3, <3>2 DEF Covers
      <4> QED
        BY <1>5, <1>7, <4>1
    <3> QED
      BY <1>15, <2>2, <3>1, <3>2
  <2> QED
    BY <1>9, <1>13, <2>1, <2>2 DEF Covers
<1>17. Whole(index') /\ index'.coverage.anchor # NoHash
  BY <1>2, <1>9, <1>13, <1>16 DEF Whole
<1>18. Whole(history'.file)
  <2>1. PICK x, y : x = index' /\ y = history'.file
    OBVIOUS
  <2>2. y.coverage = x.coverage /\ y.launches = x.launches /\ y.graduated = x.graduated
    BY <1>9, <1>10, <1>11, <2>1
  <2>3. Whole(y)
    BY <1>17, <2>1, <2>2, WholeMore
  <2> QED
    BY <2>1, <2>3
<1>19. ASSUME forks = 0
       PROVE  Exact(noted.launches, marked.graduated)
  <2>1. /\ Exact(index.launches, index.graduated) /\ Exact(history.file.launches, history.file.graduated)
        /\ \A y \in history.scanned : At(y[1], y[2])
    BY <1>19 DEF IndexInv, ExactUntilReorg
  <2>2. \A e, b : <<e, b>> \in history.scanned => At(e, b)
    BY <2>1
  <2>3. ASSUME NEW l \in Launched, noted.launches[l] # NoBlock
        PROVE  At(l, noted.launches[l])
    BY <1>3, <1>5, <2>1, <2>2, <2>3 DEF Exact
  <2>4. marked.graduated # NoBlock => At(Graduation, marked.graduated)
    BY <1>3, <1>5, <1>6, <1>7, <2>1, <2>2 DEF Exact
  <2> QED
    BY <2>3, <2>4 DEF Exact
<1>20. Whole(disk') /\ (forks = 0 => Exact(disk'.launches, disk'.graduated))
  BY <1>1 DEF IndexInv, ExactUntilReorg
<1>21. AnchorRead' /\ FileReused' /\ ScanRead'
  BY <1>11, HistoryIdle
<1> QED
  BY <1>1, <1>9, <1>10, <1>11, <1>12, <1>17, <1>18, <1>19, <1>20, <1>21, IndexStillKeeps

LEMMA IndexNextInv == IndexInv /\ IndexNext => IndexInv'
BY IndexExtendedKeeps, IndexReorganisedKeeps, HistoryBeginKeeps, HistoryHeadKeeps, HistoryAnchorKeeps,
   HistoryFileKeeps, HistoryScanKeeps, HistoryVerifyKeeps, HistoryFailsKeeps, HistorySaveKeeps,
   GradKeeps, GradLogsKeeps, NoteLiveKeeps, RestartKeeps DEF IndexNext, HistoryStep, GradStep

IndexObserved ==
  /\ observer = "index" => IndexInv
  /\ observer # "index" => IndexInit

LEMMA IndexInvariance == Spec => []IndexObserved
<1>1. Init => IndexObserved
  BY IndexInitInv DEF Init, IndexObserved
<1>2. IndexObserved /\ [Next]_vars => IndexObserved'
  <2> SUFFICES ASSUME IndexObserved, [Next]_vars
               PROVE  IndexObserved'
    OBVIOUS
  <2>1. CASE Index(IndexNext)
    BY <2>1, IndexNextInv DEF Index, IndexObserved
  <2>2. CASE Feed(FeedNext) \/ Flow(FlowNext) \/ Dataset(CaptureNext)
    <3>1. observer # "index" /\ observer' = observer /\ UNCHANGED indexVars
      BY <2>2 DEF Feed, Flow, Dataset
    <3> QED
      BY <3>1 DEF IndexObserved, IndexInit, indexVars
  <2>3. CASE UNCHANGED vars
    <3>1. observer' = observer /\ UNCHANGED indexVars /\ chain' = chain /\ forks' = forks
      BY <2>3 DEF vars, chainVars
    <3>2. IndexInv => IndexInv'
      BY <3>1, KnowledgeKeeps DEF IndexInv, IndexTypes, indexVars
    <3> QED
      BY <3>1, <3>2 DEF IndexObserved, IndexInit, indexVars
  <2> QED
    BY <2>1, <2>2, <2>3 DEF Next
<1> QED
  BY <1>1, <1>2, PTL DEF Spec

\* While the anchor of a ready index, or of the checkpoint on disk, is canonical, nothing
\* of its range is missing: a reused checkpoint, the scan on top of it and what the feed
\* noted meanwhile add up, wherever reorgs, failed calls and restarts fall.
THEOREM HistoryIsComplete == Spec => []HistoryComplete
<1>1. IndexObserved => HistoryComplete
  <2>1. CASE observer = "index"
    BY <2>1 DEF IndexObserved, IndexInv, ReadyIsWhole, Whole, HistoryComplete
  <2>2. CASE observer # "index"
    <3>1. ~ Canonical(NoHash)
      BY DEF Canonical, NoHash
    <3> QED
      BY <2>2, <3>1 DEF IndexObserved, IndexInit, HistoryComplete, Empty, NoFile, NoCoverage
  <2> QED
    BY <2>1, <2>2
<1> QED
  BY <1>1, IndexInvariance, PTL

LEMMA QuickCounts ==
  ASSUME IndexInv, index.status = "ready", forks = 0,
         NEW before \in 1 .. index.coverage.to + 1, Floor(before) >= index.coverage.from
  PROVE  Quick(before) = CountedAt(before)
<1>0. ChainOK /\ IndexTypes /\ Tip \in Nat
  BY TipType DEF IndexInv
<1> DEFINE known == {l \in Launched : index.launches[l] \in (Floor(before) .. before - 1) \ {NoBlock}}
           mined == {l \in Launched \cap LogsIn(1, before - 1) : BlockOf(l) >= Floor(before)}
           knownGraduated == {l \in known : l = Graduating /\ index.graduated \in 1 .. before - 1}
           minedGraduated == mined \cap (IF Graduation \in LogsIn(1, before - 1) THEN {Graduating} ELSE {})
<1>1. /\ index.coverage.from \in Nat /\ index.coverage.to \in Nat /\ index.coverage.anchor \in Nat \X Nat
      /\ before \in Nat /\ before >= 1 /\ before - 1 <= index.coverage.to
      /\ Floor(before) \in Nat
  BY <1>0, IndexFields, CoverageFields, IndexAssumption DEF Floor, Hashes
<1>2. Canonical(index.coverage.anchor) /\ Covers(index) /\ index.coverage.to <= Tip
  <2>1. /\ Read(index.coverage.anchor) /\ index.coverage.anchor # NoHash
        /\ index.coverage.to = index.coverage.anchor[1]
        /\ Canonical(index.coverage.anchor) => Covers(index)
    BY DEF IndexInv, ReadyIsWhole, Whole
  <2>2. Canonical(index.coverage.anchor)
    BY <1>1, <2>1 DEF Read
  <2> QED
    BY <1>0, <2>1, <2>2 DEF Canonical
<1>3. Exact(index.launches, index.graduated)
  BY DEF IndexInv, ExactUntilReorg
<1>4. \A e, b : At(e, b) => BlockOf(e) = b /\ b \in Nat \ {0} /\ b <= Tip
  BY <1>0, BlockOfIs DEF At
<1>5. \A e, from, to : e \in LogsIn(from, to) <=> \E b : At(e, b) /\ from <= b /\ b <= to
  BY LogsInHas DEF At
\* A log that the chain has within the range is known, at its block.
<1>6. ASSUME NEW l \in Launched, NEW b, At(l, b), Floor(before) <= b, b <= before - 1
      PROVE  index.launches[l] = b
  <2>1. l \in LogsIn(index.coverage.from, index.coverage.to)
    BY <1>1, <1>4, <1>5, <1>6
  <2>2. index.launches[l] # NoBlock
    BY <1>2, <2>1 DEF Covers
  <2> QED
    BY <1>3, <1>4, <1>6, <2>2 DEF Exact
<1>7. known = mined
  <2>1. ASSUME NEW l \in known
        PROVE  l \in mined
    <3>1. At(l, index.launches[l])
      BY <1>3 DEF Exact
    <3> QED
      BY <1>1, <1>4, <1>5, <3>1
  <2>2. ASSUME NEW l \in mined
        PROVE  l \in known
    <3>1. PICK b : At(l, b) /\ b <= before - 1
      BY <1>5
    <3>2. BlockOf(l) = b /\ Floor(before) <= b /\ b \in Nat \ {0}
      BY <1>4, <3>1
    <3>3. index.launches[l] = b
      BY <1>6, <3>1, <3>2
    <3> QED
      BY <1>1, <3>1, <3>2, <3>3 DEF NoBlock
  <2> QED
    BY <2>1, <2>2
<1>8. knownGraduated = minedGraduated
  <2>1. ASSUME Graduating \in mined
        PROVE  index.graduated \in 1 .. before - 1 <=> Graduation \in LogsIn(1, before - 1)
    <3>1. ASSUME index.graduated \in 1 .. before - 1
          PROVE  Graduation \in LogsIn(1, before - 1)
      <4>1. At(Graduation, index.graduated)
        BY <1>3, <3>1 DEF Exact, NoBlock
      <4> QED
        BY <1>5, <3>1, <4>1
    <3>2. ASSUME Graduation \in LogsIn(1, before - 1)
          PROVE  index.graduated \in 1 .. before - 1
      <4>1. PICK g : At(Graduation, g) /\ g <= before - 1
        BY <1>5, <3>2
      <4>2. PICK b \in 1 .. g : Graduating \in chain[b].logs
        BY <4>1 DEF IndexInv, GraduatesAfter, At
      <4>3. g \in Nat \ {0} /\ g <= Tip
        BY <1>4, <4>1
      <4>4. At(Graduating, b) /\ BlockOf(Graduating) = b /\ b \in Nat
        <5>1. b \in 1 .. Tip
          BY <1>0, <4>3
        <5> QED
          BY <1>4, <4>2, <5>1 DEF At
      <4>5. Floor(before) <= b
        BY <2>1, <4>4
      <4>6. Graduation \in LogsIn(index.coverage.from, index.coverage.to)
        <5>1. index.coverage.from <= g /\ g <= index.coverage.to
          BY <1>1, <4>1, <4>2, <4>3, <4>4, <4>5
        <5> QED
          BY <1>5, <4>1, <5>1
      <4>7. index.graduated = g
        BY <1>2, <1>3, <1>4, <4>1, <4>6 DEF Covers, Exact
      <4> QED
        BY <1>1, <4>1, <4>3, <4>7
    <3> QED
      BY <3>1, <3>2
  <2> HIDE DEF known, mined
  <2> QED
    BY <1>7, <2>1
<1>9. Quick(before) = [prior |-> Cardinality(known), graduated |-> Cardinality(knownGraduated)]
  BY DEF Quick
<1>10. CountedAt(before) = [prior |-> Cardinality(mined), graduated |-> Cardinality(minedGraduated)]
  BY DEF CountedAt
<1> QED
  BY <1>7, <1>8, <1>9, <1>10

\* Without a reorg, a ready index answers for every block of its range what a count on
\* the chain would, whether it learnt a token from the file, the scan or the feed.
THEOREM QuickIsExact == Spec => []QuickExact
<1>1. IndexObserved => QuickExact
  <2>1. CASE observer = "index"
    BY <2>1, QuickCounts DEF IndexObserved, QuickExact
  <2>2. CASE observer # "index"
    BY <2>2 DEF IndexObserved, IndexInit, QuickExact, Empty
  <2> QED
    BY <2>1, <2>2
<1> QED
  BY <1>1, IndexInvariance, PTL


-----------------------------------------------------------------------------
(* The launch feed *)

Notes == [log : FeedLaunch, block : Nat, removed : BOOLEAN]

FeedTypes ==
  /\ seen \in Seq(FeedLaunch) /\ IsInjective(seen)
  /\ last_block \in Nat /\ scan_to \in Nat
  /\ open \subseteq Url /\ stream \in [Url -> Seq(Notes)]
  /\ scan \in [Scanner -> [at : {"rest", "head", "logs", "dispatch"}, cursor : Nat, from : Nat, to : Nat,
                           found : SUBSET (FeedLaunch \X Nat)]]
  /\ \A s \in Scanner : scan[s].at # "dispatch" => scan[s].found = {}
  /\ sent \in [FeedLaunch -> Nat]
  /\ scanned \subseteq 1 .. Tip /\ \A b \in 1 .. Tip : chain[b].logs \subseteq FeedLaunch

\* What is in the LRU was sent.
SeenWasSent == \A e \in FeedLaunch : Known(e) => sent[e] > 0

\* The launches of a block that was scanned were sent, or are about to be.
Sent(e, b) == sent[e] > 0 \/ \E s \in Scanner : <<e, b>> \in scan[s].found
ScannedSent == \A b \in scanned : \A e \in chain[b].logs : Sent(e, b)

\* The blocks up to n were read, or jumped.
CoveredTo(n) == n <= Tip /\ \A b \in 1 .. n : b \in scanned \/ b \in skipped

\* Until a reorg, what is before a scan is covered when it moves scan_to.
ScanCovered(s) ==
  /\ scan[s].at \in {"head", "logs"} => CoveredTo(scan[s].cursor)
  /\ scan[s].at = "logs" => scan[s].to <= Tip /\ (scan[s].cursor # 0 => scan[s].from = scan[s].cursor + 1)

NoHoles == forks = 0 => CoveredTo(scan_to) /\ \A s \in Scanner : ScanCovered(s)

\* The notifications that a log was removed, on their way: one more sending for each.
Removals(e) ==
  {p \in Url \X Nat : /\ p[2] \in DOMAIN stream[p[1]]
                      /\ stream[p[1]][p[2]].removed /\ stream[p[1]][p[2]].log = e}

Unknown(e) == IF Known(e) THEN 0 ELSE 1

\* A launch that was forgotten is paid for by a removal of it, and a removal by a reorg.
PaidFor(e) ==
  /\ IsFiniteSet(Removals(e))
  /\ sent[e] + Cardinality(Removals(e)) + Unknown(e) <= 1 + forks * Cardinality(Url)

EveryPaidFor == Cardinality(FeedLaunch) <= SeenCapacity => \A e \in FeedLaunch : PaidFor(e)

FeedInv == ChainOK /\ FeedTypes /\ SeenWasSent /\ ScannedSent /\ NoHoles /\ EveryPaidFor

LEMMA ConcatIs ==
  ASSUME NEW S, NEW p \in Seq(S), NEW q \in Seq(S)
  PROVE  /\ p \o q \in Seq(S) /\ Len(p \o q) = Len(p) + Len(q)
         /\ \A i \in 1 .. Len(p) + Len(q) : (p \o q)[i] = IF i <= Len(p) THEN p[i] ELSE q[i - Len(p)]
OBVIOUS

NoRepeats(s, S) == s \in Seq(S) /\ IsInjective(s)
Has(s, x) == \E i \in DOMAIN s : s[i] = x

\* LruCache: what is left of a sequence without repetition when an element is taken out.
LEMMA RemoveFirstIs ==
  ASSUME NEW S, NEW s, NoRepeats(s, S), NEW e
  PROVE  NoRepeats(RemoveFirst(s, e), S) /\ \A x : Has(RemoveFirst(s, e), x) <=> x # e /\ Has(s, x)
<1> USE DEF NoRepeats, Has
<1>1. CASE \A i \in 1 .. Len(s) : s[i] # e
  <2>1. RemoveFirst(s, e) = s
    BY <1>1 DEF RemoveFirst
  <2> QED
    BY <1>1, <2>1
<1>2. CASE \E i \in 1 .. Len(s) : s[i] = e
  <2>1. PICK k \in 1 .. Len(s) : s[k] = e
    BY <1>2
  <2> DEFINE I == {i \in 1 .. Len(s) : s[i] = e}
             r == SubSeq(s, 1, k - 1) \o SubSeq(s, k + 1, Len(s))
  <2>2. I = {k}
    BY <2>1 DEF IsInjective
  <2>3. Min(I) = k
    BY <2>2 DEF Min
  <2>4. RemoveFirst(s, e) = r
    BY <1>2, <2>2, <2>3 DEF RemoveFirst, RemoveAt, SelectInSeq
  <2>5. /\ r \in Seq(S) /\ Len(r) = Len(s) - 1
        /\ \A i \in 1 .. Len(r) : r[i] = IF i < k THEN s[i] ELSE s[i + 1]
    <3>1. k \in Int /\ 1 <= k /\ k <= Len(s) /\ Len(s) \in Nat
      BY <2>1
    <3>2. SubSeq(s, 1, k - 1) \in Seq(S) /\ Len(SubSeq(s, 1, k - 1)) = k - 1
          /\ \A i \in 1 .. k - 1 : SubSeq(s, 1, k - 1)[i] = s[i]
      BY <3>1
    <3>3. SubSeq(s, k + 1, Len(s)) \in Seq(S) /\ Len(SubSeq(s, k + 1, Len(s))) = Len(s) - k
          /\ \A i \in 1 .. Len(s) - k : SubSeq(s, k + 1, Len(s))[i] = s[i + k]
      BY <3>1
    <3> DEFINE p == SubSeq(s, 1, k - 1)
               q == SubSeq(s, k + 1, Len(s))
    <3> HIDE DEF p, q
    <3>4. p \in Seq(S) /\ q \in Seq(S) /\ Len(p) = k - 1 /\ Len(q) = Len(s) - k /\ r = p \o q
      BY <3>2, <3>3 DEF p, q
    <3>5. /\ p \o q \in Seq(S) /\ Len(p \o q) = Len(p) + Len(q)
          /\ \A i \in 1 .. Len(p) + Len(q) : (p \o q)[i] = IF i <= Len(p) THEN p[i] ELSE q[i - Len(p)]
      BY <3>4, ConcatIs
    <3>6. \A i \in 1 .. Len(s) - 1 : i <= k - 1 => p[i] = s[i]
      BY <3>1, <3>2 DEF p
    <3>7. ASSUME NEW i \in 1 .. Len(s) - 1, ~ (i <= k - 1)
          PROVE  q[i - (k - 1)] = s[i + 1]
      <4>1. i - (k - 1) \in 1 .. Len(s) - k /\ i - (k - 1) + k = i + 1
        BY <3>1, <3>7
      <4> QED
        BY <3>3, <4>1 DEF q
    <3> HIDE DEF r
    <3>8. r \in Seq(S) /\ Len(r) = Len(s) - 1
      BY <3>1, <3>4, <3>5
    <3>9. ASSUME NEW i \in 1 .. Len(r)
          PROVE  r[i] = IF i < k THEN s[i] ELSE s[i + 1]
      <4>1. i \in 1 .. Len(s) - 1 /\ i \in 1 .. Len(p) + Len(q)
        BY <3>1, <3>4, <3>8
      <4>2. r[i] = IF i <= k - 1 THEN p[i] ELSE q[i - (k - 1)]
        BY <3>4, <3>5, <4>1
      <4> QED
        BY <3>1, <3>6, <3>7, <4>1, <4>2
    <3> QED
      BY <3>8, <3>9
  <2> HIDE DEF r
  <2>6. IsInjective(r)
    <3>1. DOMAIN r = 1 .. Len(r) /\ DOMAIN s = 1 .. Len(s) /\ Len(s) \in Nat
      BY <2>5
    <3> SUFFICES ASSUME NEW a \in 1 .. Len(r), NEW b \in 1 .. Len(r), r[a] = r[b]
                 PROVE  a = b
      BY <3>1 DEF IsInjective
    <3> DEFINE a2 == IF a < k THEN a ELSE a + 1
               b2 == IF b < k THEN b ELSE b + 1
    <3>2. a2 \in 1 .. Len(s) /\ b2 \in 1 .. Len(s) /\ r[a] = s[a2] /\ r[b] = s[b2]
      BY SMTT(30), <2>5, <3>1
    <3>3. a2 = b2
      BY <3>1, <3>2 DEF IsInjective
    <3> QED
      BY <3>3
  <2>7. ASSUME NEW x
        PROVE  (\E i \in DOMAIN r : r[i] = x) <=> x # e /\ \E i \in DOMAIN s : s[i] = x
    <3>1. DOMAIN r = 1 .. Len(r) /\ DOMAIN s = 1 .. Len(s) /\ Len(s) \in Nat
      BY <2>5
    <3>2. ASSUME NEW i \in 1 .. Len(r), r[i] = x
          PROVE  x # e /\ \E j \in DOMAIN s : s[j] = x
      <4> DEFINE j == IF i < k THEN i ELSE i + 1
      <4>1. j \in 1 .. Len(s) /\ j # k /\ s[j] = x
        BY <2>5, <3>1, <3>2
      <4> QED
        BY <2>1, <3>1, <4>1 DEF IsInjective
    <3>3. ASSUME NEW i \in 1 .. Len(s), s[i] = x, x # e
          PROVE  \E j \in DOMAIN r : r[j] = x
      <4> DEFINE j == IF i < k THEN i ELSE i - 1
      <4>1. i # k
        BY <2>1, <3>3
      <4>2. j \in 1 .. Len(r) /\ r[j] = x
        BY <2>5, <3>1, <3>3, <4>1
      <4> QED
        BY <3>1, <4>2
    <3> QED
      BY <3>1, <3>2, <3>3
  <2> QED
    BY <2>4, <2>5, <2>6, <2>7
<1> QED
  BY <1>1, <1>2

\* An LRU with room for every launch evicts none.
LEMMA RoomForAll ==
  ASSUME NEW S, IsFiniteSet(S), NEW s \in Seq(S), IsInjective(s)
  PROVE  Len(s) <= Cardinality(S)
<1>1. s \in Injection(1 .. Len(s), S)
  BY DEF Injection
<1>2. Cardinality(1 .. Len(s)) <= Cardinality(S)
  BY <1>1, FS_Injection
<1>3. Len(s) \in Nat
  OBVIOUS
<1>4. Cardinality(1 .. Len(s)) = Len(s)
  <2>1. 1 \in Int /\ Len(s) \in Int
    BY <1>3
  <2>2. Cardinality(1 .. Len(s)) = IF 1 > Len(s) THEN 0 ELSE Len(s) - 1 + 1
    BY <2>1, FS_Interval
  <2> QED
    BY <1>3, <2>2
<1> QED
  BY <1>2, <1>4

\* The lock of dispatch: what one log does to the LRU and to the count.
LEMMA PutIs ==
  ASSUME FeedTypes, NEW e \in FeedLaunch, Put(e)
  PROVE  /\ seen' \in Seq(FeedLaunch) /\ IsInjective(seen')
         /\ \A x : Known(x)' => Known(x) \/ x = e
         /\ sent' = [sent EXCEPT ![e] = @ + Unknown(e)]
         /\ Cardinality(FeedLaunch) <= SeenCapacity => \A x : Known(x) \/ x = e => Known(x)'
<1> DEFINE less == RemoveFirst(seen, e)
           fresh == Append(less, e)
<1>1. seen' = (IF Len(fresh) > SeenCapacity THEN Tail(fresh) ELSE fresh)
      /\ sent' = [sent EXCEPT ![e] = @ + Unknown(e)]
  BY DEF Put, Unknown
<1>2. /\ less \in Seq(FeedLaunch) /\ IsInjective(less)
      /\ \A x : (\E i \in DOMAIN less : less[i] = x) <=> x # e /\ Known(x)
  <2>1. NoRepeats(seen, FeedLaunch)
    BY DEF FeedTypes, NoRepeats
  <2>2. PICK s : s = seen
    OBVIOUS
  <2>3. NoRepeats(s, FeedLaunch)
    BY <2>1, <2>2
  <2>4. NoRepeats(RemoveFirst(s, e), FeedLaunch) /\ \A x : Has(RemoveFirst(s, e), x) <=> x # e /\ Has(s, x)
    BY <2>3, RemoveFirstIs
  <2> QED
    BY <2>2, <2>4 DEF Known, NoRepeats, Has
<1> HIDE DEF less
<1>3. /\ fresh \in Seq(FeedLaunch) /\ Len(fresh) = Len(less) + 1 /\ Len(less) \in Nat
      /\ fresh[Len(less) + 1] = e /\ \A i \in 1 .. Len(less) : fresh[i] = less[i]
      /\ DOMAIN less = 1 .. Len(less) /\ DOMAIN fresh = 1 .. Len(less) + 1
  BY <1>2
<1> HIDE DEF fresh
<1>4. \A i \in 1 .. Len(less) : less[i] # e
  BY <1>2, <1>3
<1>5. IsInjective(fresh)
  BY <1>2, <1>3, <1>4 DEF IsInjective
<1>6. \A x : (\E i \in DOMAIN fresh : fresh[i] = x) <=> Known(x) \/ x = e
  <2> SUFFICES ASSUME NEW x
               PROVE  (\E i \in DOMAIN fresh : fresh[i] = x) <=> Known(x) \/ x = e
    OBVIOUS
  <2>1. (\E i \in DOMAIN fresh : fresh[i] = x) <=> x = e \/ \E i \in DOMAIN less : less[i] = x
    <3>1. \A i \in 1 .. Len(less) + 1 : i = Len(less) + 1 \/ i \in 1 .. Len(less)
      BY <1>3
    <3> QED
      BY <1>3, <3>1
  <2> QED
    BY <1>2, <2>1
<1>7. CASE Len(fresh) > SeenCapacity
  <2> DEFINE t == Tail(fresh)
  <2>1. t \in Seq(FeedLaunch) /\ Len(t) = Len(less) /\ DOMAIN t = 1 .. Len(less)
        /\ \A i \in 1 .. Len(less) : t[i] = fresh[i + 1]
    BY <1>3
  <2> HIDE DEF t
  <2>2. seen' = t
    BY <1>1, <1>7 DEF t
  <2>3. IsInjective(t)
    BY <1>3, <1>5, <2>1 DEF IsInjective
  <2>4. \A x : (\E i \in DOMAIN t : t[i] = x) => Known(x) \/ x = e
    BY <1>3, <1>6, <2>1
  <2>5. Len(fresh) <= Cardinality(FeedLaunch)
    <3>1. IsFiniteSet(FeedLaunch)
      BY FeedAssumption, ChainBounds, FS_Subset
    <3> QED
      BY <1>3, <1>5, <3>1, RoomForAll
  <2>6. ~ (Cardinality(FeedLaunch) <= SeenCapacity)
    <3>1. Cardinality(FeedLaunch) \in Nat /\ SeenCapacity \in Nat /\ Len(fresh) \in Nat
      BY <1>3, FeedAssumption, ChainBounds, FS_Subset, FS_CardinalityType
    <3> QED
      BY <1>7, <2>5, <3>1
  <2> QED
    BY <1>1, <2>1, <2>2, <2>3, <2>4, <2>6 DEF Known
<1>8. CASE ~ (Len(fresh) > SeenCapacity)
  <2>1. seen' = fresh
    BY <1>1, <1>8
  <2> QED
    BY <1>1, <1>3, <1>5, <1>6, <2>1 DEF Known
<1> QED
  BY <1>7, <1>8

-----------------------------------------------------------------------------
(* The notifications of a step of the chain *)

LEMMA ImageFinite ==
  ASSUME NEW L, IsFiniteSet(L), NEW f
  PROVE  IsFiniteSet({f[e] : e \in L})
<1> DEFINE S == {f[e] : e \in L}
           g == [e \in L |-> f[e]]
<1>1. g \in Surjection(L, S)
  BY DEF Surjection
<1> QED
  BY <1>1, FS_Surjection

LEMMA SetToSeqIs ==
  ASSUME NEW S, IsFiniteSet(S)
  PROVE  NoRepeats(SetToSeq(S), S)
<1> DEFINE n == Cardinality(S)
<1>1. n \in Nat /\ Bijection(1 .. n, S) # {}
  BY FS_CardinalityType DEF ExistsBijection
<1>2. \E f \in [1 .. n -> S] : IsInjective(f)
  BY <1>1 DEF Bijection, Injection
<1>3. SetToSeq(S) \in [1 .. n -> S] /\ IsInjective(SetToSeq(S))
  BY <1>2 DEF SetToSeq
<1> HIDE DEF n
<1>4. ASSUME NEW f \in [1 .. n -> S]
      PROVE  f \in Seq(S)
  BY <1>1, <1>4
<1> QED
  BY <1>3, <1>4 DEF NoRepeats

\* Notes of a set of logs: one of each log, all mined or all removed.
IsNotesOf(note, L, removed) ==
  /\ note \in Seq(Notes)
  /\ \A i \in DOMAIN note : note[i].removed = removed /\ note[i].log \in L
  /\ \A i, j \in DOMAIN note : note[i].log = note[j].log => i = j

LEMMA NotesOf ==
  ASSUME NEW L \in SUBSET FeedLaunch, NEW f, NEW removed \in BOOLEAN,
         \A e \in L : \E b \in Nat : f[e] = [log |-> e, block |-> b, removed |-> removed]
  PROVE  IsNotesOf(SetToSeq({f[e] : e \in L}), L, removed)
<1> DEFINE S == {f[e] : e \in L}
           note == SetToSeq(S)
<1>1. IsFiniteSet(S)
  BY FeedAssumption, ChainBounds, FS_Subset, ImageFinite
<1>2. \A x \in S : x \in Notes /\ x.removed = removed /\ x.log \in L /\ x = f[x.log]
  <2> SUFFICES ASSUME NEW e \in L
               PROVE  f[e] \in Notes /\ f[e].removed = removed /\ f[e].log = e
    OBVIOUS
  <2>1. PICK b \in Nat : f[e] = [log |-> e, block |-> b, removed |-> removed]
    OBVIOUS
  <2> QED
    BY <2>1 DEF Notes
<1>3. NoRepeats(note, S)
  <2> HIDE DEF S
  <2> QED
    BY <1>1, SetToSeqIs
<1> HIDE DEF note
<1>4. note \in Seq(S) /\ \A i \in DOMAIN note : note[i] \in S
  BY <1>3 DEF NoRepeats
<1>5. note \in Seq(Notes)
  <2> HIDE DEF S
  <2> QED
    BY <1>2, <1>4
<1>6. \A i, j \in DOMAIN note : note[i].log = note[j].log => i = j
  <2> SUFFICES ASSUME NEW i \in DOMAIN note, NEW j \in DOMAIN note, note[i].log = note[j].log
               PROVE  i = j
    OBVIOUS
  <2>1. note[i] = note[j]
    BY <1>2, <1>4
  <2> QED
    BY <1>3, <2>1 DEF NoRepeats, IsInjective
<1>7. \A i \in DOMAIN note : note[i].removed = removed /\ note[i].log \in L
  BY <1>2, <1>4
<1>8. IsNotesOf(note, L, removed)
  BY <1>5, <1>6, <1>7 DEF IsNotesOf
<1> QED
  BY <1>8 DEF note

\* The streams after a notification.
LEMMA NotifyIs ==
  ASSUME FeedTypes, NEW L, NEW removed \in BOOLEAN, NEW note, IsNotesOf(note, L, removed), Notify(note)
  PROVE  /\ stream' \in [Url -> Seq(Notes)]
         /\ \A e \in FeedLaunch : \A p \in Removals(e)' :
              \/ p \in Removals(e)
              \/ /\ removed /\ p \in Url \X Nat
                 /\ \E i \in DOMAIN note : note[i].log = e /\ p[2] = Len(stream[p[1]]) + i
<1>0. note \in Seq(Notes) /\ stream' = [u \in Url |-> IF u \in open THEN stream[u] \o note ELSE <<>>]
  BY DEF IsNotesOf, Notify
<1>1. ASSUME NEW u \in Url
      PROVE  stream[u] \in Seq(Notes) /\ Len(stream[u]) \in Nat
  BY DEF FeedTypes
<1>2. ASSUME NEW u \in Url
      PROVE  stream[u] \o note \in Seq(Notes)
  BY <1>0, <1>1
<1>3. stream' \in [Url -> Seq(Notes)]
  BY <1>0, <1>2
<1>4. ASSUME NEW e \in FeedLaunch, NEW p \in Removals(e)', p \notin Removals(e)
      PROVE  /\ removed /\ p \in Url \X Nat
             /\ \E i \in DOMAIN note : note[i].log = e /\ p[2] = Len(stream[p[1]]) + i
  <2> DEFINE s == stream[p[1]]
             t == stream'[p[1]]
  <2>1. p \in Url \X Nat /\ p[1] \in Url /\ p[2] \in Nat /\ p[2] \in DOMAIN t /\ t[p[2]].removed /\ t[p[2]].log = e
    BY <1>4 DEF Removals
  <2>2. ~ (p[2] \in DOMAIN s /\ s[p[2]].removed /\ s[p[2]].log = e)
    BY <1>4, <2>1 DEF Removals
  <2>3. s \in Seq(Notes) /\ Len(s) \in Nat
    BY <1>1, <2>1
  <2>4. t = s \o note
    BY <1>0, <2>1
  <2> DEFINE i == p[2] - Len(s)
  <2> HIDE DEF s, t
  <2>5. /\ t \in Seq(Notes) /\ Len(t) = Len(s) + Len(note) /\ Len(note) \in Nat
        /\ \A k \in 1 .. Len(s) + Len(note) : t[k] = IF k <= Len(s) THEN s[k] ELSE note[k - Len(s)]
    BY <1>0, <2>3, <2>4, ConcatIs
  <2>6. p[2] \in 1 .. Len(s) + Len(note)
    BY <2>1, <2>5
  <2>7. ~ (p[2] <= Len(s))
    <3> SUFFICES ASSUME p[2] <= Len(s)
                 PROVE  FALSE
      OBVIOUS
    <3>1. p[2] \in 1 .. Len(s) /\ t[p[2]] = s[p[2]]
      BY <2>3, <2>5, <2>6
    <3> QED
      BY <2>1, <2>2, <2>3, <3>1
  <2>8. i \in 1 .. Len(note) /\ t[p[2]] = note[i]
    BY <2>3, <2>5, <2>6, <2>7
  <2>9. i \in DOMAIN note /\ p[2] = Len(s) + i
    <3>1. DOMAIN note = 1 .. Len(note)
      BY <1>0
    <3> QED
      BY <2>1, <2>3, <2>8, <3>1
  <2> QED
    BY <2>1, <2>8, <2>9 DEF IsNotesOf, s
<1> QED
  BY <1>3, <1>4

\* Fewer removals on their way.
LEMMA FewerRemovals ==
  ASSUME NEW e, IsFiniteSet(Removals(e)), Removals(e)' \subseteq Removals(e)
  PROVE  /\ IsFiniteSet(Removals(e))' /\ Cardinality(Removals(e))' \in Nat
         /\ Cardinality(Removals(e))' <= Cardinality(Removals(e)) /\ Cardinality(Removals(e)) \in Nat
<1> DEFINE R == Removals(e)
           T == Removals(e)'
<1>1. T \subseteq R /\ IsFiniteSet(R)
  OBVIOUS
<1>2. IsFiniteSet(T) /\ Cardinality(T) <= Cardinality(R) /\ Cardinality(T) \in Nat /\ Cardinality(R) \in Nat
  <2> HIDE DEF R, T
  <2> QED
    BY <1>1, FS_Subset, FS_CardinalityType
<1> QED
  BY <1>2

\* A reorg puts one at most into each stream.
LEMMA MoreRemovals ==
  ASSUME FeedTypes, NEW L, NEW note, IsNotesOf(note, L, TRUE), Notify(note),
         NEW e \in FeedLaunch, IsFiniteSet(Removals(e))
  PROVE  /\ IsFiniteSet(Removals(e))' /\ Cardinality(Removals(e))' \in Nat
         /\ Cardinality(Removals(e))' <= Cardinality(Removals(e)) + Cardinality(Url)
         /\ Cardinality(Removals(e)) \in Nat
<1> DEFINE R == Removals(e)
           T == Removals(e)'
           N == T \ R
           f == [p \in N |-> p[1]]
<1>1. ASSUME NEW p \in N
      PROVE  p \in Url \X Nat /\ \E i \in DOMAIN note : note[i].log = e /\ p[2] = Len(stream[p[1]]) + i
  BY ZenonT(40), NotifyIs
<1>2. f \in Injection(N, Url)
  <2>1. f \in [N -> Url]
    BY <1>1
  <2>2. ASSUME NEW p \in N, NEW q \in N, p[1] = q[1]
        PROVE  p = q
    <3>1. PICK i \in DOMAIN note : note[i].log = e /\ p[2] = Len(stream[p[1]]) + i
      BY <1>1
    <3>2. PICK j \in DOMAIN note : note[j].log = e /\ q[2] = Len(stream[q[1]]) + j
      BY <1>1
    <3>3. i = j
      BY <3>1, <3>2 DEF IsNotesOf
    <3>4. p[2] = q[2]
      BY <2>2, <3>1, <3>2, <3>3
    <3>5. p \in Url \X Nat /\ q \in Url \X Nat
      BY <1>1
    <3>6. p = <<p[1], p[2]>> /\ q = <<q[1], q[2]>>
      BY <3>5
    <3> QED
      BY <2>2, <3>4, <3>6
  <2>3. IsInjective(f)
    BY <2>2 DEF IsInjective
  <2> QED
    BY <2>1, <2>3 DEF Injection
<1>3. IsFiniteSet(Url)
  BY FeedAssumption
<1> HIDE DEF f, N
<1>4. IsFiniteSet(N) /\ Cardinality(N) <= Cardinality(Url)
  BY <1>2, <1>3, FS_Injection
<1>5. T \subseteq R \cup N
  BY DEF N
<1>6. IsFiniteSet(R)
  OBVIOUS
<1> HIDE DEF R, T
<1>7. IsFiniteSet(R \cup N) /\ Cardinality(R \cup N) = Cardinality(R) + Cardinality(N) - Cardinality(R \cap N)
  BY <1>4, <1>6, FS_Union
<1>8. IsFiniteSet(R \cap N)
  BY <1>6, FS_Intersection
<1>9. IsFiniteSet(T) /\ Cardinality(T) <= Cardinality(R \cup N)
  BY <1>5, <1>7, FS_Subset
<1>10. /\ Cardinality(R) \in Nat /\ Cardinality(N) \in Nat /\ Cardinality(R \cap N) \in Nat
       /\ Cardinality(Url) \in Nat /\ Cardinality(T) \in Nat /\ Cardinality(R \cup N) \in Nat
  BY <1>3, <1>4, <1>6, <1>7, <1>8, <1>9, FS_CardinalityType
<1>11. Cardinality(T) <= Cardinality(R) + Cardinality(Url)
  BY <1>4, <1>7, <1>9, <1>10
<1> QED
  BY <1>9, <1>10, <1>11 DEF R, T

\* No more removals of e on their way after the step than before it.
Fewer(e) ==
  IsFiniteSet(Removals(e)) =>
    /\ IsFiniteSet(Removals(e))' /\ Cardinality(Removals(e))' \in Nat /\ Cardinality(Removals(e)) \in Nat
    /\ Cardinality(Removals(e))' <= Cardinality(Removals(e))

\* A stream moves on: each removal that is left was one place behind, and the head is gone.
LEMMA HeadTaken ==
  ASSUME FeedTypes, NEW u \in Url, stream[u] # <<>>, stream' = [stream EXCEPT ![u] = Tail(@)],
         NEW e \in FeedLaunch, IsFiniteSet(Removals(e))
  PROVE  /\ stream' \in [Url -> Seq(Notes)] /\ Fewer(e)
         /\ Head(stream[u]).removed /\ Head(stream[u]).log = e =>
              Cardinality(Removals(e))' + 1 <= Cardinality(Removals(e))
<1> DEFINE R == Removals(e)
           T == Removals(e)'
           Q == R \ {<<u, 1>>}
           moved(p) == <<p[1], IF p[1] = u THEN p[2] + 1 ELSE p[2]>>
           f == [p \in T |-> moved(p)]
           s == stream[u]
<1>1. /\ s \in Seq(Notes) /\ Len(s) \in Nat /\ Len(s) >= 1 /\ Tail(s) \in Seq(Notes)
      /\ Len(Tail(s)) = Len(s) - 1 /\ \A i \in 1 .. Len(s) - 1 : Tail(s)[i] = s[i + 1]
  BY DEF FeedTypes
<1>2. stream \in [Url -> Seq(Notes)] /\ stream'[u] = Tail(s) /\ \A v \in Url : v # u => stream'[v] = stream[v]
  BY DEF FeedTypes
<1>3. stream' \in [Url -> Seq(Notes)]
  BY <1>1, <1>2
<1>4. ASSUME NEW p \in T
      PROVE  moved(p) \in Q /\ p[1] \in Url /\ p[2] \in Nat /\ p = <<p[1], p[2]>>
  <2>1. /\ p \in Url \X Nat /\ p[2] \in DOMAIN stream'[p[1]]
        /\ stream'[p[1]][p[2]].removed /\ stream'[p[1]][p[2]].log = e
    BY <1>4 DEF Removals
  <2>2. p[1] \in Url /\ p[2] \in Nat /\ p = <<p[1], p[2]>>
    BY <2>1
  <2>3. CASE p[1] = u
    <3>1. p[2] \in 1 .. Len(s) - 1 /\ Tail(s)[p[2]] = s[p[2] + 1]
      BY <1>1, <1>2, <2>1, <2>3
    <3>2. p[2] + 1 \in DOMAIN s /\ s[p[2] + 1].removed /\ s[p[2] + 1].log = e /\ p[2] + 1 # 1
      BY <1>1, <1>2, <2>1, <2>3, <3>1
    <3>3. <<u, p[2] + 1>> \in R
      BY <2>2, <2>3, <3>2 DEF Removals
    <3>4. moved(p) = <<u, p[2] + 1>>
      BY <2>3
    <3> HIDE DEF R, moved
    <3> QED
      BY <2>2, <3>2, <3>3, <3>4
  <2>4. CASE p[1] # u
    <3>1. p \in R
      BY <1>2, <2>1, <2>2, <2>4 DEF Removals
    <3>2. moved(p) = p
      BY <2>2, <2>4
    <3> HIDE DEF R, moved
    <3> QED
      BY <2>2, <2>4, <3>1, <3>2
  <2> QED
    BY <2>3, <2>4
<1>5. f \in Injection(T, Q)
  <2>1. f \in [T -> Q]
    <3> HIDE DEF moved, Q, T
    <3> QED
      BY <1>4
  <2>2. ASSUME NEW p \in T, NEW q \in T, moved(p) = moved(q)
        PROVE  p = q
    <3>1. p[1] = q[1] /\ p[2] \in Nat /\ q[2] \in Nat /\ p = <<p[1], p[2]>> /\ q = <<q[1], q[2]>>
      BY <1>4, <2>2
    <3>2. p[2] = q[2]
      BY <2>2, <3>1
    <3> QED
      BY <3>1, <3>2
  <2>3. IsInjective(f)
    <3> HIDE DEF moved, T
    <3> QED
      BY <2>2 DEF IsInjective
  <2> HIDE DEF f, T, Q
  <2> QED
    BY <2>1, <2>3 DEF Injection
<1>6. IsFiniteSet(R)
  OBVIOUS
<1>7. Head(s).removed /\ Head(s).log = e => <<u, 1>> \in R
  <2>1. Head(s) = s[1] /\ 1 \in DOMAIN s
    BY <1>1
  <2> QED
    BY <2>1 DEF Removals
<1> HIDE DEF R, T, f
<1>8. IsFiniteSet(Q) /\ Cardinality(Q) = IF <<u, 1>> \in R THEN Cardinality(R) - 1 ELSE Cardinality(R)
  BY <1>6, FS_RemoveElement
<1> HIDE DEF Q
<1>9. IsFiniteSet(T) /\ Cardinality(T) <= Cardinality(Q)
  BY <1>5, <1>8, FS_Injection
<1>10. Cardinality(R) \in Nat /\ Cardinality(T) \in Nat
  BY <1>6, <1>9, FS_CardinalityType
<1>11. Cardinality(T) <= Cardinality(R)
  BY <1>8, <1>9, <1>10
<1>12. Head(s).removed /\ Head(s).log = e => Cardinality(T) + 1 <= Cardinality(R)
  BY <1>7, <1>8, <1>9, <1>10
<1> QED
  BY <1>3, <1>9, <1>10, <1>11, <1>12 DEF Fewer, R, T

-----------------------------------------------------------------------------
(* What the steps keep *)

LEMMA CoverStays ==
  ASSUME NEW n, CoveredTo(n), Tip \in Nat, Tip' \in Nat, Tip <= Tip', n \in Nat,
         scanned \subseteq scanned', skipped \subseteq skipped'
  PROVE  CoveredTo(n)'
BY DEF CoveredTo

LEMMA HolesStay ==
  ASSUME FeedTypes, NoHoles, Tip \in Nat, Tip' \in Nat, Tip <= Tip', forks' = forks,
         scanned \subseteq scanned', skipped \subseteq skipped',
         scan_to' = scan_to \/ (forks = 0 => CoveredTo(scan_to)'),
         \A s \in Scanner : scan'[s] = scan[s] \/ (forks = 0 => ScanCovered(s)')
  PROVE  NoHoles'
<1> SUFFICES ASSUME forks = 0
             PROVE  CoveredTo(scan_to)' /\ \A s \in Scanner : ScanCovered(s)'
  BY DEF NoHoles
<1>1. CoveredTo(scan_to) /\ \A s \in Scanner : ScanCovered(s)
  BY DEF NoHoles
<1>2. CoveredTo(scan_to)'
  <2>1. CASE scan_to' = scan_to
    <3>1. PICK n : n = scan_to
      OBVIOUS
    <3>2. CoveredTo(n) /\ n \in Nat
      BY <1>1, <3>1 DEF FeedTypes
    <3>3. CoveredTo(n)'
      BY <3>2, CoverStays
    <3> QED
      BY <2>1, <3>1, <3>3
  <2> QED
    BY <2>1
<1>3. ASSUME NEW s \in Scanner
      PROVE  ScanCovered(s)'
  <2>1. CASE scan'[s] = scan[s]
    <3>1. PICK r : r = scan[s]
      OBVIOUS
    <3>2. r.cursor \in Nat /\ r.to \in Nat
      BY <3>1 DEF FeedTypes
    <3>3. CASE r.at \in {"head", "logs"}
      <4>1. CoveredTo(r.cursor)
        BY <1>1, <3>1, <3>3 DEF ScanCovered
      <4>2. CoveredTo(r.cursor)'
        BY <3>2, <4>1, CoverStays
      <4> QED
        BY <1>1, <2>1, <3>1, <3>2, <4>2 DEF ScanCovered
    <3>4. CASE r.at \notin {"head", "logs"}
      BY <2>1, <3>1, <3>4 DEF ScanCovered
    <3> QED
      BY <3>3, <3>4
  <2> QED
    BY <2>1
<1> QED
  BY <1>2, <1>3

\* Nothing is sent and nothing forgotten.
LEMMA PaidStays ==
  ASSUME FeedTypes, EveryPaidFor, forks' = forks, forks \in Nat, seen' = seen, sent' = sent,
         \A e \in FeedLaunch : Fewer(e)
  PROVE  EveryPaidFor'
<1> SUFFICES ASSUME Cardinality(FeedLaunch) <= SeenCapacity, NEW e \in FeedLaunch
             PROVE  PaidFor(e)'
  BY DEF EveryPaidFor
<1>1. PaidFor(e) /\ Fewer(e) /\ sent[e] \in Nat
  BY DEF EveryPaidFor, FeedTypes
<1>2. Unknown(e)' = Unknown(e) /\ Unknown(e) \in Nat
  BY DEF Unknown, Known
<1>3. IsFiniteSet(Removals(e))' /\ Cardinality(Removals(e))' \in Nat
      /\ Cardinality(Removals(e)) \in Nat /\ Cardinality(Removals(e))' <= Cardinality(Removals(e))
  BY <1>1 DEF PaidFor, Fewer
<1>4. forks * Cardinality(Url) \in Nat
  BY FeedAssumption, FS_CardinalityType
<1>5. sent[e] + Cardinality(Removals(e)) + Unknown(e) <= 1 + forks * Cardinality(Url)
  BY <1>1 DEF PaidFor
<1>6. PICK b : b = forks * Cardinality(Url)
  OBVIOUS
<1>7. sent[e] + Cardinality(Removals(e))' + Unknown(e) <= 1 + b
  BY <1>1, <1>2, <1>3, <1>4, <1>5, <1>6
<1>8. (sent[e])' + Cardinality(Removals(e))' + Unknown(e)' <= 1 + (forks * Cardinality(Url))'
  BY <1>2, <1>6, <1>7
<1> QED
  BY <1>3, <1>8 DEF PaidFor

\* The streams are left alone, or lose what they hold.
LEMMA StreamsShrink ==
  ASSUME \A u \in Url : stream'[u] = stream[u] \/ stream'[u] = <<>>
  PROVE  \A e \in FeedLaunch : Fewer(e)
<1> SUFFICES ASSUME NEW e \in FeedLaunch, IsFiniteSet(Removals(e))
             PROVE  Fewer(e)
  BY DEF Fewer
<1>1. Removals(e)' \subseteq Removals(e)
  <2> SUFFICES ASSUME NEW p \in Removals(e)'
               PROVE  p \in Removals(e)
    OBVIOUS
  <2>1. p \in Url \X Nat /\ p[1] \in Url /\ p[2] \in DOMAIN stream'[p[1]]
    BY DEF Removals
  <2>2. stream'[p[1]] # <<>>
    BY <2>1
  <2>3. stream'[p[1]] = stream[p[1]]
    BY <2>1, <2>2
  <2> QED
    BY <2>3 DEF Removals
<1> QED
  BY <1>1, FewerRemovals DEF Fewer

LEMMA SentStays ==
  ASSUME ScannedSent, sent' = sent, scan' = scan, scanned' \subseteq scanned,
         \A b \in scanned' : chain'[b] = chain[b]
  PROVE  ScannedSent'
BY DEF ScannedSent, Sent

LEMMA SeenStays == SeenWasSent /\ seen' = seen /\ sent' = sent => SeenWasSent'
BY DEF SeenWasSent, Known

-----------------------------------------------------------------------------
(* The steps *)

LEMMA FeedInitInv == ChainInit /\ FeedInit => FeedInv
<1> SUFFICES ASSUME ChainInit, FeedInit
             PROVE  FeedInv
  OBVIOUS
<1>1. ChainOK /\ forks = 0 /\ Tip = 1 /\ chain[1].logs = {}
  BY ChainInitOK DEF ChainInit, Tip
<1>2. /\ seen = <<>> /\ last_block = 0 /\ scan_to = 0 /\ open = {} /\ stream = [u \in Url |-> <<>>]
      /\ scan = [s \in Scanner |-> Resting] /\ sent = [e \in FeedLaunch |-> 0]
      /\ scanned = {} /\ skipped = {}
  BY DEF FeedInit
<1>3. FeedTypes
  <2>1. seen \in Seq(FeedLaunch) /\ IsInjective(seen)
    BY <1>2 DEF IsInjective
  <2>2. \A b \in 1 .. Tip : chain[b].logs \subseteq FeedLaunch
    BY <1>1
  <2>3. stream \in [Url -> Seq(Notes)]
    BY <1>2
  <2>4. scan \in [Scanner -> [at : {"rest", "head", "logs", "dispatch"}, cursor : Nat, from : Nat, to : Nat,
                              found : SUBSET (FeedLaunch \X Nat)]]
    BY <1>2 DEF Resting
  <2>5. \A s \in Scanner : scan[s].at # "dispatch" => scan[s].found = {}
    BY <1>2 DEF Resting
  <2> QED
    BY <1>2, <2>1, <2>2, <2>3, <2>4, <2>5 DEF FeedTypes
<1>4. SeenWasSent /\ ScannedSent
  BY <1>2 DEF SeenWasSent, Known, ScannedSent
<1>5. NoHoles
  BY <1>1, <1>2 DEF NoHoles, CoveredTo, ScanCovered, Resting
<1>6. EveryPaidFor
  <2> SUFFICES ASSUME NEW e \in FeedLaunch
               PROVE  PaidFor(e)
    BY DEF EveryPaidFor
  <2>1. Removals(e) = {}
    BY <1>2 DEF Removals
  <2>2. IsFiniteSet(Removals(e)) /\ Cardinality(Removals(e)) = 0
    BY <2>1, FS_EmptySet
  <2>3. Unknown(e) \in {0, 1} /\ sent[e] = 0
    BY <1>2 DEF Unknown
  <2>4. forks * Cardinality(Url) = 0
    BY <1>1, FeedAssumption, FS_CardinalityType
  <2> QED
    BY <2>2, <2>3, <2>4 DEF PaidFor
<1> QED
  BY <1>1, <1>3, <1>4, <1>5, <1>6 DEF FeedInv

LEMMA ExtendedKeeps ==
  ASSUME FeedInv, NEW logs \in SUBSET FeedLaunch, Extended(logs)
  PROVE  FeedInv'
<1> DEFINE f == [e \in logs |-> [log |-> e, block |-> Tip + 1, removed |-> FALSE]]
           note == SetToSeq({f[e] : e \in logs})
<1>0. ChainOK /\ FeedTypes /\ Tip \in Nat
  BY TipType DEF FeedInv
<1>1. Extend(logs) /\ Notify(note)
      /\ UNCHANGED <<seen, last_block, scan_to, scan, sent, scanned, skipped>>
  <2>1. {[log |-> e, block |-> Tip + 1, removed |-> FALSE] : e \in logs} = {f[e] : e \in logs}
    OBVIOUS
  <2>2. SetToSeq({[log |-> e, block |-> Tip + 1, removed |-> FALSE] : e \in logs}) = note
    BY <2>1
  <2> QED
    BY <2>2 DEF Extended
<1>2. IsNotesOf(note, logs, FALSE)
  <2>1. PICK t \in Nat : t = Tip + 1
    BY <1>0
  <2> DEFINE g == [e \in logs |-> [log |-> e, block |-> t, removed |-> FALSE]]
  <2>2. \A e \in logs : \E b \in Nat : g[e] = [log |-> e, block |-> b, removed |-> FALSE]
    OBVIOUS
  <2>3. f = g
    BY <2>1
  <2> HIDE DEF g
  <2>4. IsNotesOf(SetToSeq({g[e] : e \in logs}), logs, FALSE)
    BY <2>2, NotesOf
  <2> HIDE DEF f
  <2> QED
    BY <2>3, <2>4
<1> HIDE DEF note
<1>3. stream' \in [Url -> Seq(Notes)] /\ \A e \in FeedLaunch : Removals(e)' \subseteq Removals(e)
  <2>1. PICK n : n = note
    OBVIOUS
  <2>2. IsNotesOf(n, logs, FALSE) /\ Notify(n)
    BY <1>1, <1>2, <2>1
  <2> QED
    BY <1>0, <2>2, NotifyIs
<1>4. /\ ChainOK' /\ Tip' = Tip + 1 /\ forks' = forks
      /\ chain'[Tip + 1].logs = logs /\ \A b \in 1 .. Tip : chain'[b] = chain[b]
  <2>1. logs \in SUBSET Event
    BY FeedAssumption
  <2>2. ChainStep /\ Grows /\ Tip' = Tip + 1 /\ chain'[Tip + 1] = [fork |-> forks, logs |-> logs]
    BY <1>0, <1>1, <2>1, ExtendSteps
  <2> QED
    BY <2>2 DEF ChainStep, Grows, Prefix
<1>5. FeedTypes'
  <2>1. \A b \in 1 .. Tip' : chain'[b].logs \subseteq FeedLaunch
    <3>1. \A b \in 1 .. Tip' : b = Tip + 1 \/ b \in 1 .. Tip
      BY <1>0, <1>4
    <3>2. \A b \in 1 .. Tip : chain[b].logs \subseteq FeedLaunch
      BY <1>0 DEF FeedTypes
    <3> QED
      BY <1>4, <3>1, <3>2
  <2>2. scanned' \subseteq 1 .. Tip'
    BY <1>0, <1>1, <1>4 DEF FeedTypes
  <2>3. open' = open
    BY <1>1 DEF Notify
  <2> QED
    BY <1>0, <1>1, <1>3, <2>1, <2>2, <2>3 DEF FeedTypes
<1>6. SeenWasSent' /\ ScannedSent'
  <2>1. \A b \in scanned' : chain'[b] = chain[b]
    BY <1>0, <1>1, <1>4 DEF FeedTypes
  <2> QED
    BY <1>1, <2>1, SentStays, SeenStays DEF FeedInv
<1>7. NoHoles'
  BY <1>0, <1>1, <1>4, HolesStay DEF FeedInv
<1>8. EveryPaidFor'
  <2>1. \A e \in FeedLaunch : Fewer(e)
    BY <1>3, FewerRemovals DEF Fewer
  <2> QED
    BY <1>0, <1>1, <1>4, <2>1, PaidStays DEF FeedInv, ChainOK
<1> QED
  BY <1>4, <1>5, <1>6, <1>7, <1>8 DEF FeedInv

LEMMA ReorganisedKeeps ==
  ASSUME FeedInv, NEW keep \in 1 .. Tip - 1, Reorganised(keep)
  PROVE  FeedInv'
<1> DEFINE L == LogsIn(keep + 1, Tip)
           f == [e \in L |-> [log |-> e, block |-> BlockOf(e), removed |-> TRUE]]
           note == SetToSeq({f[e] : e \in L})
<1>0. ChainOK /\ FeedTypes /\ Tip \in Nat /\ forks \in Nat
  BY TipType DEF FeedInv, ChainOK
<1>1. /\ Reorg(keep) /\ Notify(note) /\ scanned' = scanned \cap 1 .. keep
      /\ UNCHANGED <<seen, last_block, scan_to, scan, sent>>
  <2>1. {[log |-> e, block |-> BlockOf(e), removed |-> TRUE] : e \in L} = {f[e] : e \in L}
    OBVIOUS
  <2>2. SetToSeq({[log |-> e, block |-> BlockOf(e), removed |-> TRUE] : e \in L}) = note
    BY <2>1
  <2> QED
    BY <2>2 DEF Reorganised
<1>2. IsNotesOf(note, L, TRUE)
  <2>1. \A e \in L : e \in FeedLaunch /\ BlockOf(e) \in Nat
    <3> SUFFICES ASSUME NEW e \in L
                 PROVE  e \in FeedLaunch /\ BlockOf(e) \in Nat
      OBVIOUS
    <3>1. PICK b \in 1 .. Tip : e \in chain[b].logs
      BY LogsInHas
    <3>2. BlockOf(e) = b
      BY <1>0, <3>1, BlockOfIs
    <3> QED
      BY <1>0, <3>1, <3>2 DEF FeedTypes
  <2>2. PICK M, g : M = L /\ g = f
    OBVIOUS
  <2>3. M \in SUBSET FeedLaunch /\ \A e \in M : \E b \in Nat : g[e] = [log |-> e, block |-> b, removed |-> TRUE]
    BY <2>1, <2>2
  <2>4. IsNotesOf(SetToSeq({g[e] : e \in M}), M, TRUE)
    BY <2>3, NotesOf
  <2> HIDE DEF f, L
  <2> QED
    BY <2>2, <2>4
<1> HIDE DEF note, L
<1>3. PICK n, M : n = note /\ M = L
  OBVIOUS
<1>4. IsNotesOf(n, M, TRUE) /\ Notify(n)
  BY <1>1, <1>2, <1>3
<1>5. stream' \in [Url -> Seq(Notes)] /\ open' = open
  BY <1>0, <1>4, NotifyIs DEF Notify
<1>6. ChainOK' /\ Tip' = keep /\ forks' = forks + 1 /\ \A b \in 1 .. keep : chain'[b] = chain[b]
  <2>1. ChainStep /\ Shrinks /\ Tip' = keep
    BY <1>0, <1>1, ReorgSteps
  <2> QED
    BY <2>1 DEF ChainStep, Shrinks, Prefix
<1>7. FeedTypes'
  <2>1. \A b \in 1 .. Tip' : chain'[b].logs \subseteq FeedLaunch
    <3>1. \A b \in 1 .. keep : b \in 1 .. Tip
      BY <1>0
    <3>2. \A b \in 1 .. Tip : chain[b].logs \subseteq FeedLaunch
      BY <1>0 DEF FeedTypes
    <3> QED
      BY <1>6, <3>1, <3>2
  <2> QED
    BY <1>0, <1>1, <1>5, <1>6, <2>1 DEF FeedTypes
<1>8. SeenWasSent' /\ ScannedSent'
  <2>1. \A b \in scanned' : chain'[b] = chain[b]
    BY <1>1, <1>6
  <2> QED
    BY <1>1, <2>1, SentStays, SeenStays DEF FeedInv
<1>9. NoHoles'
  BY <1>0, <1>6 DEF NoHoles
<1>10. EveryPaidFor'
  <2> SUFFICES ASSUME Cardinality(FeedLaunch) <= SeenCapacity, NEW e \in FeedLaunch
               PROVE  PaidFor(e)'
    BY DEF EveryPaidFor
  <2>1. PaidFor(e) /\ sent[e] \in Nat
    BY <1>0 DEF FeedInv, EveryPaidFor, FeedTypes
  <2>2. /\ IsFiniteSet(Removals(e))' /\ Cardinality(Removals(e))' \in Nat
        /\ Cardinality(Removals(e))' <= Cardinality(Removals(e)) + Cardinality(Url)
        /\ Cardinality(Removals(e)) \in Nat
    BY <1>0, <1>4, <2>1, MoreRemovals DEF PaidFor
  <2>3. Unknown(e)' = Unknown(e) /\ Unknown(e) \in Nat /\ (sent[e])' = sent[e]
    BY <1>1 DEF Unknown, Known
  <2>4. PICK c : c = Cardinality(Url)
    OBVIOUS
  <2>5. c \in Nat
    BY <2>4, FeedAssumption, FS_CardinalityType
  <2>6. forks' * c = forks * c + c
    BY <1>0, <1>6, <2>5
  <2>7. forks * c \in Nat
    BY <1>0, <2>5
  <2>8. PICK k : k = forks * c
    OBVIOUS
  <2>9. sent[e] + Cardinality(Removals(e)) + Unknown(e) <= 1 + k
    BY <2>1, <2>4, <2>8 DEF PaidFor
  <2>10. sent[e] + Cardinality(Removals(e))' + Unknown(e) <= 1 + (k + c)
    BY <2>1, <2>2, <2>3, <2>4, <2>5, <2>7, <2>8, <2>9
  <2>11. (sent[e] + Cardinality(Removals(e)) + Unknown(e))' <= 1 + (forks * Cardinality(Url))'
    BY <2>3, <2>4, <2>6, <2>8, <2>10
  <2> QED
    BY <2>2, <2>11 DEF PaidFor
<1> QED
  BY <1>6, <1>7, <1>8, <1>9, <1>10 DEF FeedInv

LEMMA SubscribeKeeps ==
  ASSUME FeedInv, NEW urls \in SUBSET Url, Subscribe(urls)
  PROVE  FeedInv'
<1>0. ChainOK /\ FeedTypes /\ Tip \in Nat /\ forks \in Nat
  BY TipType DEF FeedInv, ChainOK
<1>1. open' = urls /\ UNCHANGED <<seen, last_block, scan_to, stream, scan, sent, scanned, skipped, chain, forks>>
  BY DEF Subscribe, chainVars
<1>2. ChainOK' /\ Tip' = Tip
  BY <1>0, <1>1, StillFacts
<1>3. FeedTypes'
  BY <1>0, <1>1, <1>2 DEF FeedTypes
<1>4. EveryPaidFor'
  BY <1>0, <1>1, StreamsShrink, PaidStays DEF FeedInv
<1>5. NoHoles'
  BY <1>0, <1>1, <1>2, HolesStay DEF FeedInv
<1> QED
  BY <1>1, <1>2, <1>3, <1>4, <1>5, SeenStays, SentStays DEF FeedInv

LEMMA StreamEndsKeeps ==
  ASSUME FeedInv, NEW u \in Url, StreamEnds(u)
  PROVE  FeedInv'
<1>0. ChainOK /\ FeedTypes /\ Tip \in Nat /\ forks \in Nat
  BY TipType DEF FeedInv, ChainOK
<1>1. /\ open' = open \ {u} /\ stream' = [stream EXCEPT ![u] = <<>>]
      /\ UNCHANGED <<seen, last_block, scan_to, scan, sent, scanned, skipped, chain, forks>>
  BY DEF StreamEnds, chainVars
<1>2. ChainOK' /\ Tip' = Tip
  BY <1>0, <1>1, StillFacts
<1>3. stream' \in [Url -> Seq(Notes)] /\ \A v \in Url : stream'[v] = stream[v] \/ stream'[v] = <<>>
  BY <1>0, <1>1 DEF FeedTypes
<1>4. FeedTypes'
  BY <1>0, <1>1, <1>2, <1>3 DEF FeedTypes
<1>5. EveryPaidFor'
  BY <1>0, <1>1, <1>3, StreamsShrink, PaidStays DEF FeedInv
<1>6. NoHoles'
  BY <1>0, <1>1, <1>2, HolesStay DEF FeedInv
<1> QED
  BY <1>1, <1>2, <1>4, <1>5, <1>6, SeenStays, SentStays DEF FeedInv

\* A scanner that has found nothing yet goes on, and moves nothing but its locals.
LEMMA PlanKeepsFeed ==
  ASSUME FeedInv, NEW s \in Scanner, scan[s].at # "dispatch",
         NEW r \in [at : {"rest", "head", "logs"}, cursor : Nat, from : Nat, to : Nat, found : {{}}],
         scan' = [scan EXCEPT ![s] = r], forks = 0 => ScanCovered(s)',
         UNCHANGED <<seen, last_block, scan_to, open, stream, sent, scanned, skipped, chain, forks>>
  PROVE  FeedInv'
<1>0. ChainOK /\ FeedTypes /\ Tip \in Nat /\ forks \in Nat
  BY TipType DEF FeedInv, ChainOK
<1>1. ChainOK' /\ Tip' = Tip
  BY <1>0, StillFacts
<1>2. /\ scan \in [Scanner -> [at : {"rest", "head", "logs", "dispatch"}, cursor : Nat, from : Nat, to : Nat,
                               found : SUBSET (FeedLaunch \X Nat)]]
      /\ \A t \in Scanner : scan[t].at # "dispatch" => scan[t].found = {}
  BY <1>0 DEF FeedTypes
<1>3. /\ r \in [at : {"rest", "head", "logs", "dispatch"}, cursor : Nat, from : Nat, to : Nat,
                found : SUBSET (FeedLaunch \X Nat)]
      /\ r.found = {}
  OBVIOUS
<1>4. scan'[s] = r /\ \A t \in Scanner : t # s => scan'[t] = scan[t]
  BY <1>2
<1>5. scan' \in [Scanner -> [at : {"rest", "head", "logs", "dispatch"}, cursor : Nat, from : Nat, to : Nat,
                             found : SUBSET (FeedLaunch \X Nat)]]
  BY <1>2, <1>3
<1>6. FeedTypes'
  BY <1>0, <1>1, <1>2, <1>3, <1>4, <1>5 DEF FeedTypes
<1>7. EveryPaidFor'
  BY <1>0, StreamsShrink, PaidStays DEF FeedInv
<1>8. NoHoles'
  BY <1>0, <1>1, <1>4, HolesStay DEF FeedInv
<1>9. ScannedSent'
  <2>1. \A t \in Scanner : scan'[t].found = scan[t].found
    BY <1>2, <1>3, <1>4
  <2> QED
    BY <2>1 DEF FeedInv, ScannedSent, Sent
<1> QED
  BY <1>1, <1>6, <1>7, <1>8, <1>9, SeenStays DEF FeedInv

ScanRecord == [at : {"rest", "head", "logs", "dispatch"}, cursor : Nat, from : Nat, to : Nat,
               found : SUBSET (FeedLaunch \X Nat)]

LEMMA ScanFields ==
  ASSUME FeedTypes, NEW s \in Scanner
  PROVE  /\ scan \in [Scanner -> ScanRecord] /\ scan[s] \in ScanRecord
         /\ scan[s].cursor \in Nat /\ scan[s].from \in Nat /\ scan[s].to \in Nat
         /\ scan[s].found \subseteq FeedLaunch \X Nat
         /\ scan[s].at # "dispatch" => scan[s].found = {}
<1>1. scan \in [Scanner -> ScanRecord] /\ (scan[s].at # "dispatch" => scan[s].found = {})
  BY DEF FeedTypes, ScanRecord
<1>2. scan[s] \in ScanRecord
  BY <1>1
<1> QED
  BY <1>1, <1>2 DEF ScanRecord

LEMMA SmallerOf ==
  ASSUME NEW a \in Nat, NEW b \in Nat
  PROVE  Min({a, b}) \in Nat /\ Min({a, b}) <= a /\ Min({a, b}) <= b
<1>1. \E x \in {a, b} : \A y \in {a, b} : x <= y
  OBVIOUS
<1>2. Min({a, b}) \in {a, b} /\ \A y \in {a, b} : Min({a, b}) <= y
  BY <1>1 DEF Min
<1> QED
  BY <1>2

LEMMA PollStartKeeps ==
  ASSUME FeedInv, NEW s \in Scanner, PollStart(s)
  PROVE  FeedInv'
<1> DEFINE c == IF s = "poller" THEN scan_to ELSE Min({last_block, scan_to})
           r == [Resting EXCEPT !.at = "head", !.cursor = c]
<1>0. FeedTypes /\ ChainOK
  BY DEF FeedInv
<1>1. scan_to \in Nat /\ last_block \in Nat
  BY <1>0 DEF FeedTypes
<1>2. c \in Nat /\ c <= scan_to
  <2>1. PICK a, b : a = last_block /\ b = scan_to
    OBVIOUS
  <2>2. Min({a, b}) \in Nat /\ Min({a, b}) <= b
    BY <1>1, <2>1, SmallerOf
  <2> QED
    BY <1>1, <2>1, <2>2
<1>3. /\ scan[s].at = "rest" /\ scan' = [scan EXCEPT ![s] = r]
      /\ UNCHANGED <<seen, last_block, scan_to, open, stream, sent, scanned, skipped, chain, forks>>
  BY DEF PollStart, chainVars
<1> HIDE DEF c
<1>4. r \in [at : {"rest", "head", "logs"}, cursor : Nat, from : Nat, to : Nat, found : {{}}]
      /\ r.at = "head" /\ r.cursor = c
  BY <1>2 DEF Resting
<1> HIDE DEF r
<1>5. scan'[s] = r
  BY <1>0, <1>3, ScanFields
<1>6. forks = 0 => ScanCovered(s)'
  <2> SUFFICES ASSUME forks = 0
               PROVE  ScanCovered(s)'
    OBVIOUS
  <2>1. Tip' = Tip /\ Tip \in Nat
    BY <1>0, <1>3, StillFacts
  <2>2. CoveredTo(scan_to)
    BY DEF FeedInv, NoHoles
  <2>3. PICK n : n = c
    OBVIOUS
  <2>4. CoveredTo(n)'
    BY <1>1, <1>2, <1>3, <2>1, <2>2, <2>3 DEF CoveredTo
  <2>5. (scan[s].cursor)' = n /\ (scan[s].at)' = "head"
    BY <1>4, <1>5, <2>3
  <2> QED
    BY <2>4, <2>5 DEF ScanCovered, CoveredTo
<1>7. PICK q : q = r
  OBVIOUS
<1> QED
  BY <1>3, <1>4, <1>6, <1>7, PlanKeepsFeed

LEMMA PollHeadKeeps ==
  ASSUME FeedInv, NEW s \in Scanner, PollHead(s)
  PROVE  FeedInv'
<1> DEFINE from == IF scan[s].cursor = 0 THEN Tip - 1 ELSE scan[s].cursor + 1
           to == IF Tip - from > PollSpan THEN from + PollSpan ELSE Tip
           r == [scan[s] EXCEPT !.at = "logs", !.from = from, !.to = to]
<1>0. FeedTypes /\ ChainOK /\ Tip \in Nat \ {0} /\ PollSpan \in Nat
  BY TipType, FeedAssumption DEF FeedInv
<1>1. scan[s] \in ScanRecord /\ scan \in [Scanner -> ScanRecord] /\ scan[s].cursor \in Nat
  BY <1>0, ScanFields
<1>2. /\ scan[s].at = "head" /\ scan' = [scan EXCEPT ![s] = r]
      /\ UNCHANGED <<seen, last_block, scan_to, open, stream, sent, scanned, skipped, chain, forks>>
  <2>1. scan[s].at = "head" /\ scan' = [scan EXCEPT ![s].at = "logs", ![s].from = from, ![s].to = to]
    BY DEF PollHead
  <2> HIDE DEF from, to
  <2>2. scan' = [scan EXCEPT ![s] = r]
    BY <1>1, <2>1 DEF ScanRecord
  <2> HIDE DEF r
  <2> QED
    BY <2>1, <2>2 DEF PollHead, chainVars
<1>3. scan[s].found = {}
  BY <1>0, <1>2, ScanFields
<1>4. from \in Nat /\ to \in Nat /\ to <= Tip /\ (scan[s].cursor # 0 => from = scan[s].cursor + 1)
  BY <1>0, <1>1
<1> HIDE DEF from, to
<1>5. /\ r \in [at : {"rest", "head", "logs"}, cursor : Nat, from : Nat, to : Nat, found : {{}}]
      /\ r.at = "logs" /\ r.cursor = scan[s].cursor /\ r.from = from /\ r.to = to
  BY <1>1, <1>3, <1>4 DEF ScanRecord
<1> HIDE DEF r
<1>6. scan'[s] = r
  BY <1>1, <1>2
<1>7. forks = 0 => ScanCovered(s)'
  <2> SUFFICES ASSUME forks = 0
               PROVE  ScanCovered(s)'
    OBVIOUS
  <2>1. Tip' = Tip
    BY <1>0, <1>2, StillFacts
  <2>2. CoveredTo(scan[s].cursor)
    BY <1>2 DEF FeedInv, NoHoles, ScanCovered
  <2>3. PICK n : n = scan[s].cursor
    OBVIOUS
  <2>4. CoveredTo(n)'
    BY <1>2, <2>1, <2>2, <2>3 DEF CoveredTo
  <2>5. (scan[s].cursor)' = n /\ (scan[s].from)' = from /\ (scan[s].to)' = to
    BY <1>5, <1>6, <2>3
  <2> QED
    BY <1>4, <2>1, <2>3, <2>4, <2>5 DEF ScanCovered, CoveredTo
<1>8. PICK q : q = r
  OBVIOUS
<1> QED
  BY <1>2, <1>5, <1>7, <1>8, PlanKeepsFeed

LEMMA PollFailsKeeps ==
  ASSUME FeedInv, NEW s \in Scanner, PollFails(s)
  PROVE  FeedInv'
<1>0. FeedTypes /\ ChainOK
  BY DEF FeedInv
<1>1. /\ scan[s].at # "dispatch" /\ scan' = [scan EXCEPT ![s] = Resting]
      /\ UNCHANGED <<seen, last_block, scan_to, open, stream, sent, scanned, skipped, chain, forks>>
  BY DEF PollFails, chainVars
<1>2. Resting \in [at : {"rest", "head", "logs"}, cursor : Nat, from : Nat, to : Nat, found : {{}}]
  BY DEF Resting
<1>3. scan'[s] = Resting
  BY <1>0, <1>1, ScanFields
<1>4. ScanCovered(s)'
  BY <1>3 DEF ScanCovered, Resting
<1> QED
  BY <1>1, <1>2, <1>4, PlanKeepsFeed

LEMMA PollLogsKeeps ==
  ASSUME FeedInv, NEW s \in Scanner, PollLogs(s)
  PROVE  FeedInv'
<1> DEFINE found == Found(s)
           r == [Resting EXCEPT !.found = found, !.at = IF found = {} THEN "rest" ELSE "dispatch"]
<1>0. FeedTypes /\ ChainOK /\ Tip \in Nat \ {0} /\ forks \in Nat /\ scan_to \in Nat
  BY TipType DEF FeedInv, FeedTypes, ChainOK
<1>1. /\ scan[s].at = "logs" /\ Store(s) /\ scan' = [scan EXCEPT ![s] = r]
      /\ scanned' = scanned \cup (Span(s) \cap 1 .. Tip)
      /\ skipped' = skipped \cup (IF scan[s].cursor = 0 /\ forks = 0 THEN scan_to + 1 .. scan[s].from - 1 ELSE {})
      /\ UNCHANGED <<seen, last_block, open, stream, sent, chain, forks>>
  BY DEF PollLogs, chainVars
<1>2. /\ scan \in [Scanner -> ScanRecord] /\ scan[s] \in ScanRecord /\ scan[s].cursor \in Nat
      /\ scan[s].from \in Nat /\ scan[s].to \in Nat /\ scan[s].found = {}
  BY <1>0, <1>1, ScanFields
<1>3. PICK c, from, to : c = scan[s].cursor /\ from = scan[s].from /\ to = scan[s].to
  OBVIOUS
<1>4. found \subseteq FeedLaunch \X Nat
      /\ \A b \in 1 .. Tip : from <= b /\ b <= to => \A e \in chain[b].logs : <<e, b>> \in found
  <2>1. ASSUME NEW b \in 1 .. Tip, from <= b, b <= to, NEW e \in chain[b].logs
        PROVE  <<e, b>> \in found
    <3>1. e \in LogsIn(from, to) \cap FeedLaunch
      BY <1>0, <2>1, LogsInHas DEF FeedTypes
    <3>2. BlockOf(e) = b
      BY <1>0, BlockOfIs
    <3> QED
      BY <1>3, <3>1, <3>2 DEF Found
  <2>2. ASSUME NEW e \in LogsIn(from, to) \cap FeedLaunch
        PROVE  BlockOf(e) \in Nat
    <3>1. PICK b \in 1 .. Tip : e \in chain[b].logs
      BY <2>2, LogsInHas
    <3> QED
      BY <1>0, <3>1, BlockOfIs
  <2> QED
    BY <1>3, <2>1, <2>2 DEF Found
<1> HIDE DEF found
<1>5. r \in ScanRecord /\ r.found = found /\ r.at \in {"rest", "dispatch"} /\ (r.at # "dispatch" => r.found = {})
  BY <1>4 DEF ScanRecord, Resting
<1> HIDE DEF r
<1>6. scan'[s] = r /\ \A t \in Scanner : t # s => scan'[t] = scan[t]
  BY <1>1, <1>2
<1>7. ChainOK' /\ Tip' = Tip
  BY <1>0, <1>1, StillFacts
<1>8. scan_to' = Larger(to, IF s = "poller" THEN c ELSE scan_to) /\ scan_to' \in Nat
  BY <1>0, <1>1, <1>2, <1>3 DEF Store, Larger
<1>9. FeedTypes'
  <2>1. scan' \in [Scanner -> ScanRecord]
    BY <1>1, <1>2, <1>5
  <2>2. \A t \in Scanner : scan'[t].at # "dispatch" => scan'[t].found = {}
    BY <1>0, <1>5, <1>6 DEF FeedTypes
  <2>3. scanned' \subseteq 1 .. Tip'
    BY <1>0, <1>1, <1>7 DEF FeedTypes
  <2> QED
    BY <1>0, <1>1, <1>7, <1>8, <2>1, <2>2, <2>3 DEF FeedTypes, ScanRecord
<1>10. ScannedSent'
  <2> SUFFICES ASSUME NEW b \in scanned', NEW e \in chain[b].logs
               PROVE  Sent(e, b)'
    BY <1>1 DEF ScannedSent
  <2>1. CASE b \in scanned
    <3>1. Sent(e, b)
      BY <2>1 DEF FeedInv, ScannedSent
    <3>2. \A t \in Scanner : <<e, b>> \in scan[t].found => <<e, b>> \in scan'[t].found
      BY <1>2, <1>6
    <3> QED
      BY <1>1, <3>1, <3>2 DEF Sent
  <2>2. CASE b \notin scanned
    <3>1. b \in 1 .. Tip /\ from <= b /\ b <= to
      BY <1>1, <1>3, <2>2 DEF Span
    <3>2. <<e, b>> \in scan'[s].found
      BY <1>4, <1>5, <1>6, <3>1
    <3> QED
      BY <3>2 DEF Sent
  <2> QED
    BY <2>1, <2>2
<1>11. ASSUME forks = 0
       PROVE  CoveredTo(scan_to)'
  <2>1. CoveredTo(scan_to) /\ CoveredTo(c) /\ to <= Tip /\ (c # 0 => from = c + 1)
    BY <1>1, <1>3, <1>11 DEF FeedInv, NoHoles, ScanCovered
  <2>2. scanned \subseteq scanned' /\ skipped \subseteq skipped'
    BY <1>1
  <2>3. \A b \in 1 .. Tip : from <= b /\ b <= to => b \in scanned'
    BY <1>1, <1>3 DEF Span
  <2>4. c = 0 => \A b \in 1 .. Tip : scan_to < b /\ b < from => b \in skipped'
    BY <1>0, <1>1, <1>2, <1>3, <1>11
  <2>5. \A b \in 1 .. to : b \in scanned' \/ b \in skipped'
    <3> SUFFICES ASSUME NEW b \in 1 .. to
                 PROVE  b \in scanned' \/ b \in skipped'
      OBVIOUS
    <3>1. b \in 1 .. Tip
      BY <1>0, <1>2, <1>3, <2>1
    <3>2. CASE from <= b
      BY <2>3, <3>1, <3>2
    <3>3. CASE b < from /\ c # 0
      <4>1. b \in 1 .. c
        BY <1>2, <1>3, <2>1, <3>3
      <4> QED
        BY <2>1, <2>2, <4>1 DEF CoveredTo
    <3>4. CASE b < from /\ c = 0 /\ scan_to < b
      BY <2>4, <3>1, <3>4
    <3>5. CASE ~ (scan_to < b)
      <4>1. b \in 1 .. scan_to
        BY <1>0, <3>5
      <4> QED
        BY <2>1, <2>2, <4>1 DEF CoveredTo
    <3> QED
      BY <1>2, <1>3, <3>1, <3>2, <3>3, <3>4, <3>5
  <2>6. scan_to' \in {to, c, scan_to}
    BY <1>8 DEF Larger
  <2>7. CASE scan_to' = to
    BY <1>7, <2>1, <2>5, <2>7 DEF CoveredTo
  <2>8. CASE scan_to' = c
    BY <1>7, <2>1, <2>2, <2>8 DEF CoveredTo
  <2>9. CASE scan_to' = scan_to
    BY <1>7, <2>1, <2>2, <2>9 DEF CoveredTo
  <2> QED
    BY <2>6, <2>7, <2>8, <2>9
<1>12. ScanCovered(s)'
  BY <1>5, <1>6 DEF ScanCovered
<1>13. NoHoles'
  <2>1. scanned \subseteq scanned' /\ skipped \subseteq skipped'
    BY <1>1
  <2>2. \A t \in Scanner : scan'[t] = scan[t] \/ ScanCovered(t)'
    BY <1>6, <1>12
  <2> QED
    BY <1>0, <1>1, <1>7, <1>11, <2>1, <2>2, HolesStay DEF FeedInv
<1>14. EveryPaidFor'
  BY <1>0, <1>1, StreamsShrink, PaidStays DEF FeedInv
<1> QED
  BY <1>1, <1>7, <1>9, <1>10, <1>13, <1>14, SeenStays DEF FeedInv

\* A log is looked up in the LRU and put into it: the step of either dispatch.
LEMMA PutKeeps ==
  ASSUME FeedTypes, ChainOK, SeenWasSent, EveryPaidFor, NEW e \in FeedLaunch, Put(e), forks' = forks,
         \A x \in FeedLaunch : Fewer(x)
  PROVE  /\ sent' \in [FeedLaunch -> Nat] /\ sent'[e] > 0 /\ \A x \in FeedLaunch : sent'[x] >= sent[x]
         /\ seen' \in Seq(FeedLaunch) /\ IsInjective(seen')
         /\ SeenWasSent' /\ EveryPaidFor'
<1>1. /\ seen' \in Seq(FeedLaunch) /\ IsInjective(seen')
      /\ \A x : Known(x)' => Known(x) \/ x = e
      /\ sent' = [sent EXCEPT ![e] = @ + Unknown(e)]
      /\ Cardinality(FeedLaunch) <= SeenCapacity => \A x : Known(x) \/ x = e => Known(x)'
  BY PutIs
<1>2. sent \in [FeedLaunch -> Nat] /\ Unknown(e) \in {0, 1} /\ (~ Known(e) => Unknown(e) = 1)
  BY DEF FeedTypes, Unknown
<1>3. sent'[e] = sent[e] + Unknown(e) /\ \A x \in FeedLaunch : x # e => sent'[x] = sent[x]
  BY <1>1, <1>2
<1>4. sent' \in [FeedLaunch -> Nat] /\ \A x \in FeedLaunch : sent'[x] >= sent[x]
  BY <1>1, <1>2, <1>3
<1>5. sent'[e] > 0
  BY <1>2, <1>3 DEF SeenWasSent
<1>6. SeenWasSent'
  <2> SUFFICES ASSUME NEW x \in FeedLaunch, Known(x)'
               PROVE  sent'[x] > 0
    BY DEF SeenWasSent
  <2>1. CASE x = e
    BY <1>5, <2>1
  <2>2. CASE x # e
    <3>1. Known(x)
      BY <1>1, <2>2
    <3> QED
      BY <1>3, <2>2, <3>1 DEF SeenWasSent
  <2> QED
    BY <2>1, <2>2
<1>7. EveryPaidFor'
  <2> SUFFICES ASSUME Cardinality(FeedLaunch) <= SeenCapacity, NEW x \in FeedLaunch
               PROVE  PaidFor(x)'
    BY DEF EveryPaidFor
  <2>1. PaidFor(x) /\ Fewer(x)
    BY DEF EveryPaidFor
  <2>2. IsFiniteSet(Removals(x))' /\ Cardinality(Removals(x))' \in Nat
        /\ Cardinality(Removals(x)) \in Nat /\ Cardinality(Removals(x))' <= Cardinality(Removals(x))
    BY <2>1 DEF PaidFor, Fewer
  <2>3. (sent[x] + Unknown(x))' <= sent[x] + Unknown(x)
    <3>1. CASE x = e
      <4>1. Known(e)'
        BY <1>1
      <4>2. Unknown(x)' = 0
        BY <3>1, <4>1 DEF Unknown
      <4> QED
        BY <1>2, <1>3, <3>1, <4>2
    <3>2. CASE x # e
      <4>1. Known(x) => Known(x)'
        BY <1>1
      <4>2. Unknown(x)' <= Unknown(x) /\ Unknown(x)' \in Nat /\ Unknown(x) \in Nat
        BY <4>1 DEF Unknown
      <4> QED
        BY <1>2, <1>3, <3>2, <4>2
    <3> QED
      BY <3>1, <3>2
  <2>4. (sent[x])' \in Nat /\ sent[x] \in Nat /\ Unknown(x) \in Nat /\ Unknown(x)' \in Nat
    BY <1>2, <1>4 DEF Unknown
  <2>5. PICK k : k = forks * Cardinality(Url)
    OBVIOUS
  <2>6. k \in Nat
    BY <2>5, FeedAssumption, FS_CardinalityType DEF ChainOK
  <2>7. sent[x] + Cardinality(Removals(x)) + Unknown(x) <= 1 + k
    BY <2>1, <2>5 DEF PaidFor
  <2>8. (sent[x])' + Cardinality(Removals(x))' + Unknown(x)' <= 1 + k
    BY <2>2, <2>3, <2>4, <2>6, <2>7
  <2>9. (sent[x])' + Cardinality(Removals(x))' + Unknown(x)' <= 1 + (forks * Cardinality(Url))'
    BY <2>5, <2>8
  <2> QED
    BY <2>2, <2>9 DEF PaidFor
<1> QED
  BY <1>1, <1>4, <1>5, <1>6, <1>7

LEMMA PollDispatchKeeps ==
  ASSUME FeedInv, NEW s \in Scanner, PollDispatch(s)
  PROVE  FeedInv'
<1>0. FeedTypes /\ ChainOK /\ Tip \in Nat /\ forks \in Nat
  BY TipType DEF FeedInv, ChainOK
<1>1. PICK f \in scan[s].found :
        /\ Dispatch(f[1], f[2])
        /\ scan' = [scan EXCEPT ![s] =
             IF scan[s].found = {f} THEN Resting ELSE [scan[s] EXCEPT !.found = @ \ {f}]]
  BY DEF PollDispatch
<1>2. /\ scan[s].at = "dispatch"
      /\ UNCHANGED <<scan_to, open, stream, scanned, skipped, chain, forks>>
  BY DEF PollDispatch, chainVars
<1>3. scan \in [Scanner -> ScanRecord] /\ scan[s] \in ScanRecord /\ scan[s].found \subseteq FeedLaunch \X Nat
  BY <1>0, ScanFields
<1>4. f[1] \in FeedLaunch /\ f[2] \in Nat /\ f = <<f[1], f[2]>>
  BY <1>1, <1>3
<1> DEFINE r == IF scan[s].found = {f} THEN Resting ELSE [scan[s] EXCEPT !.found = @ \ {f}]
<1>5. scan' = [scan EXCEPT ![s] = r]
  BY <1>1
<1>6. r \in ScanRecord /\ r.found = scan[s].found \ {f} /\ r.at \in {"rest", "dispatch"}
      /\ (r.at # "dispatch" => r.found = {})
  BY <1>2, <1>3 DEF ScanRecord, Resting
<1> HIDE DEF r
<1>7. scan'[s] = r /\ scan' \in [Scanner -> ScanRecord] /\ \A t \in Scanner : t # s => scan'[t] = scan[t]
  BY <1>3, <1>5, <1>6
<1>8. Put(f[1]) /\ last_block' \in Nat
  BY <1>0, <1>1, <1>4 DEF Dispatch, Larger, FeedTypes
<1>9. \A e \in FeedLaunch : Fewer(e)
  BY <1>2, StreamsShrink
<1>10. /\ sent' \in [FeedLaunch -> Nat] /\ sent'[f[1]] > 0 /\ \A x \in FeedLaunch : sent'[x] >= sent[x]
       /\ seen' \in Seq(FeedLaunch) /\ IsInjective(seen')
       /\ SeenWasSent' /\ EveryPaidFor'
  BY <1>0, <1>2, <1>4, <1>8, <1>9, PutKeeps DEF FeedInv
<1>11. ChainOK' /\ Tip' = Tip
  BY <1>0, <1>2, StillFacts
<1>12. FeedTypes'
  <2>1. \A t \in Scanner : scan'[t].at # "dispatch" => scan'[t].found = {}
    BY <1>0, <1>6, <1>7 DEF FeedTypes
  <2> QED
    BY <1>0, <1>2, <1>7, <1>8, <1>10, <1>11, <2>1 DEF FeedTypes, ScanRecord
<1>13. ScannedSent'
  <2> SUFFICES ASSUME NEW b \in scanned, NEW e \in chain[b].logs
               PROVE  Sent(e, b)'
    BY <1>2 DEF ScannedSent
  <2>1. e \in FeedLaunch
    BY <1>0 DEF FeedTypes
  <2>2. Sent(e, b)
    BY DEF FeedInv, ScannedSent
  <2>3. CASE e = f[1]
    BY <1>10, <2>3 DEF Sent
  <2>4. CASE e # f[1] /\ sent[e] > 0
    <3>1. sent'[e] > 0
      BY <1>0, <1>10, <2>1, <2>4 DEF FeedTypes
    <3> QED
      BY <3>1 DEF Sent
  <2>5. CASE e # f[1] /\ ~ (sent[e] > 0)
    <3>1. PICK t \in Scanner : <<e, b>> \in scan[t].found
      BY <2>2, <2>5 DEF Sent
    <3>2. <<e, b>> # f
      BY <2>5
    <3>3. <<e, b>> \in scan'[t].found
      BY <1>6, <1>7, <3>1, <3>2
    <3> QED
      BY <3>3 DEF Sent
  <2> QED
    BY <2>3, <2>4, <2>5
<1>14. NoHoles'
  <2>1. ScanCovered(s)'
    BY <1>6, <1>7 DEF ScanCovered
  <2>2. \A t \in Scanner : scan'[t] = scan[t] \/ ScanCovered(t)'
    BY <1>7, <2>1
  <2> QED
    BY <1>0, <1>2, <1>11, <2>2, HolesStay DEF FeedInv
<1> QED
  BY <1>10, <1>11, <1>12, <1>13, <1>14 DEF FeedInv

LEMMA WsItemKeeps ==
  ASSUME FeedInv, NEW u \in Url, WsItem(u)
  PROVE  FeedInv'
<1>0. FeedTypes /\ ChainOK /\ Tip \in Nat /\ forks \in Nat
  BY TipType DEF FeedInv, ChainOK
<1>1. PICK note : note = Head(stream[u])
  OBVIOUS
<1>2. /\ stream[u] # <<>> /\ stream' = [stream EXCEPT ![u] = Tail(@)]
      /\ IF note.removed THEN Forget(note.log) ELSE Dispatch(note.log, note.block)
      /\ UNCHANGED <<scan_to, open, scan, scanned, skipped, chain, forks>>
  BY <1>1 DEF WsItem, chainVars
<1>3. note \in Notes /\ note.log \in FeedLaunch /\ note.block \in Nat /\ note.removed \in BOOLEAN
  <2>1. stream[u] \in Seq(Notes)
    BY <1>0 DEF FeedTypes
  <2>2. note \in Notes
    BY <1>1, <1>2, <2>1
  <2> QED
    BY <2>2 DEF Notes
<1>4. PICK e \in FeedLaunch : e = note.log
  BY <1>3
<1>5. ChainOK' /\ Tip' = Tip
  BY <1>0, <1>2, StillFacts
<1>6. stream' \in [Url -> Seq(Notes)]
  BY <1>0, <1>2 DEF FeedTypes
<1>7. \A x \in FeedLaunch : Fewer(x)
  <2> SUFFICES ASSUME NEW x \in FeedLaunch, IsFiniteSet(Removals(x))
               PROVE  Fewer(x)
    BY DEF Fewer
  <2> QED
    BY <1>0, <1>2, HeadTaken
<1>8. NoHoles'
  BY <1>0, <1>2, <1>5, HolesStay DEF FeedInv
<1>9. CASE note.removed
  <2>1. Forget(e)
    BY <1>2, <1>4, <1>9
  <2>2. seen' = RemoveFirst(seen, e) /\ sent' = sent /\ last_block' = last_block
    BY <2>1 DEF Forget
  <2>3. seen' \in Seq(FeedLaunch) /\ IsInjective(seen') /\ \A x : Known(x)' <=> x # e /\ Known(x)
    <3>1. NoRepeats(seen, FeedLaunch)
      BY <1>0 DEF FeedTypes, NoRepeats
    <3>2. PICK s : s = seen
      OBVIOUS
    <3>3. NoRepeats(s, FeedLaunch)
      BY <3>1, <3>2
    <3>4. NoRepeats(RemoveFirst(s, e), FeedLaunch) /\ \A x : Has(RemoveFirst(s, e), x) <=> x # e /\ Has(s, x)
      BY <3>3, RemoveFirstIs
    <3> QED
      BY <2>2, <3>2, <3>4 DEF Known, NoRepeats, Has
  <2>4. FeedTypes'
    BY <1>0, <1>2, <1>5, <1>6, <2>2, <2>3 DEF FeedTypes
  <2>5. SeenWasSent' /\ ScannedSent'
    BY <1>2, <2>2, <2>3, SentStays DEF FeedInv, SeenWasSent
  <2>6. EveryPaidFor'
    <3> SUFFICES ASSUME Cardinality(FeedLaunch) <= SeenCapacity, NEW x \in FeedLaunch
                 PROVE  PaidFor(x)'
      BY DEF EveryPaidFor
    <3>1. PaidFor(x) /\ Fewer(x) /\ sent[x] \in Nat /\ (sent[x])' = sent[x]
      BY <1>0, <1>7, <2>2 DEF FeedInv, EveryPaidFor, FeedTypes
    <3>2. IsFiniteSet(Removals(x))' /\ Cardinality(Removals(x))' \in Nat
          /\ Cardinality(Removals(x)) \in Nat /\ Cardinality(Removals(x))' <= Cardinality(Removals(x))
      BY <3>1 DEF PaidFor, Fewer
    <3>3. Unknown(x)' \in {0, 1} /\ Unknown(x) \in {0, 1} /\ (x # e => Unknown(x)' = Unknown(x))
      BY <2>3 DEF Unknown
    <3>4. x = e => Cardinality(Removals(x))' + 1 <= Cardinality(Removals(x))
      BY <1>0, <1>1, <1>2, <1>4, <1>9, <3>1, HeadTaken DEF PaidFor
    <3>5. PICK k : k = forks * Cardinality(Url)
      OBVIOUS
    <3>6. k \in Nat
      BY <1>0, <3>5, FeedAssumption, FS_CardinalityType
    <3>7. sent[x] + Cardinality(Removals(x)) + Unknown(x) <= 1 + k
      BY <3>1, <3>5 DEF PaidFor
    <3>8. sent[x] + Cardinality(Removals(x))' + Unknown(x)' <= 1 + k
      BY <3>1, <3>2, <3>3, <3>4, <3>6, <3>7
    <3>9. (sent[x])' + Cardinality(Removals(x))' + Unknown(x)' <= 1 + (forks * Cardinality(Url))'
      BY <1>2, <3>1, <3>5, <3>8
    <3> QED
      BY <3>2, <3>9 DEF PaidFor
  <2> QED
    BY <1>5, <1>8, <2>4, <2>5, <2>6 DEF FeedInv
<1>10. CASE ~ note.removed
  <2>1. Put(e) /\ last_block' \in Nat
    <3>1. Dispatch(e, note.block)
      BY <1>2, <1>4, <1>10
    <3> QED
      BY <1>0, <1>3, <3>1 DEF Dispatch, Larger, FeedTypes
  <2>2. /\ sent' \in [FeedLaunch -> Nat] /\ \A x \in FeedLaunch : sent'[x] >= sent[x]
        /\ seen' \in Seq(FeedLaunch) /\ IsInjective(seen')
        /\ SeenWasSent' /\ EveryPaidFor'
    BY <1>0, <1>2, <1>7, <2>1, PutKeeps DEF FeedInv
  <2>3. FeedTypes'
    BY <1>0, <1>2, <1>5, <1>6, <2>1, <2>2 DEF FeedTypes
  <2>4. ScannedSent'
    <3> SUFFICES ASSUME NEW b \in scanned, NEW x \in chain[b].logs
                 PROVE  Sent(x, b)'
      BY <1>2 DEF ScannedSent
    <3>1. x \in FeedLaunch /\ Sent(x, b)
      BY <1>0 DEF FeedInv, ScannedSent, FeedTypes
    <3>2. sent[x] > 0 => sent'[x] > 0
      BY <1>0, <2>2, <3>1 DEF FeedTypes
    <3> QED
      BY <1>2, <3>1, <3>2 DEF Sent
  <2> QED
    BY <1>5, <1>8, <2>2, <2>3, <2>4 DEF FeedInv
<1> QED
  BY <1>3, <1>9, <1>10

LEMMA FeedNextInv == FeedInv /\ FeedNext => FeedInv'
<1> SUFFICES ASSUME FeedInv, FeedNext
             PROVE  FeedInv'
  OBVIOUS
<1> QED
  BY ExtendedKeeps, ReorganisedKeeps, SubscribeKeeps, StreamEndsKeeps, WsItemKeeps, PollStartKeeps,
     PollHeadKeeps, PollLogsKeeps, PollDispatchKeeps, PollFailsKeeps DEF FeedNext, PollStep

FeedObserved ==
  /\ observer = "feed" => FeedInv
  /\ observer # "feed" => FeedInit

LEMMA FeedInvariance == Spec => []FeedObserved
<1>1. Init => FeedObserved
  BY FeedInitInv DEF Init, FeedObserved
<1>2. FeedObserved /\ [Next]_vars => FeedObserved'
  <2> SUFFICES ASSUME FeedObserved, [Next]_vars
               PROVE  FeedObserved'
    OBVIOUS
  <2>1. CASE Feed(FeedNext)
    BY <2>1, FeedNextInv DEF Feed, FeedObserved
  <2>2. CASE Flow(FlowNext) \/ Index(IndexNext) \/ Dataset(CaptureNext)
    <3>1. observer # "feed" /\ observer' = observer /\ UNCHANGED feedVars
      BY <2>2 DEF Flow, Index, Dataset
    <3> QED
      BY <3>1 DEF FeedObserved, FeedInit, feedVars
  <2>3. CASE UNCHANGED vars
    <3>1. observer' = observer /\ UNCHANGED feedVars /\ chain' = chain /\ forks' = forks
      BY <2>3 DEF vars, chainVars
    <3>2. FeedInv => FeedInv'
      <4> SUFFICES ASSUME FeedInv
                   PROVE  FeedInv'
        OBVIOUS
      <4>0. FeedTypes /\ ChainOK /\ Tip \in Nat /\ forks \in Nat
        BY TipType DEF FeedInv, ChainOK
      <4>1. UNCHANGED <<seen, last_block, scan_to, open, stream, scan, sent, scanned, skipped>>
        BY <3>1 DEF feedVars
      <4>2. ChainOK' /\ Tip' = Tip
        BY <3>1, <4>0, StillFacts
      <4>3. FeedTypes'
        BY <3>1, <4>0, <4>1, <4>2 DEF FeedTypes
      <4>4. EveryPaidFor'
        BY <3>1, <4>0, <4>1, StreamsShrink, PaidStays DEF FeedInv
      <4>5. NoHoles'
        BY <3>1, <4>0, <4>1, <4>2, HolesStay DEF FeedInv
      <4> QED
        BY <3>1, <4>1, <4>2, <4>3, <4>4, <4>5, SeenStays, SentStays DEF FeedInv
    <3> QED
      BY <3>1, <3>2 DEF FeedObserved, FeedInit, feedVars
  <2> QED
    BY <2>1, <2>2, <2>3 DEF Next
<1> QED
  BY <1>1, <1>2, PTL DEF Spec

\* The other observers count the forks of the chain as well, and the capture has none.
ForksCounted == observer \in {"feed", "flow", "index", "capture"} /\ (observer = "capture" => forks = 0)

LEMMA ForksCount == Spec => [](forks \in Nat)
<1>1. Init => ForksCounted
  BY DEF Init, ChainInit, ForksCounted
<1>2. ForksCounted /\ [Next]_vars => ForksCounted'
  BY DEF ForksCounted, Next, Feed, Flow, Index, Dataset, vars, chainVars
<1>3. ForksCounted /\ FeedObserved /\ FlowObserved /\ IndexObserved => forks \in Nat
  BY DEF ForksCounted, FeedObserved, FlowObserved, IndexObserved, FeedInv, FlowInv, IndexInv, ChainOK
<1> QED
  BY <1>1, <1>2, <1>3, FeedInvariance, FlowInvariance, IndexInvariance, PTL DEF Spec

\* However the poller, the watchdog and any number of raced streams interleave, a launch
\* is sent once, and after a reorg once more for each endpoint that reports it removed.
THEOREM LaunchIsSentOnce == Spec => []SentOncePerSighting
<1>1. FeedObserved /\ forks \in Nat => SentOncePerSighting
  <2> SUFFICES ASSUME FeedObserved, forks \in Nat, Cardinality(FeedLaunch) <= SeenCapacity, NEW e \in FeedLaunch
               PROVE  sent[e] <= 1 + forks * Cardinality(Url)
    BY DEF SentOncePerSighting
  <2>1. CASE observer = "feed"
    <3>1. PaidFor(e) /\ sent[e] \in Nat /\ forks \in Nat
      BY <2>1 DEF FeedObserved, FeedInv, EveryPaidFor, FeedTypes, ChainOK
    <3>2. Cardinality(Removals(e)) \in Nat /\ Unknown(e) \in Nat
      BY <3>1, FS_CardinalityType DEF PaidFor, Unknown
    <3>3. PICK k : k = forks * Cardinality(Url)
      OBVIOUS
    <3>4. k \in Nat
      BY <3>1, <3>3, FeedAssumption, FS_CardinalityType
    <3>5. sent[e] + Cardinality(Removals(e)) + Unknown(e) <= 1 + k
      BY <3>1, <3>3 DEF PaidFor
    <3>6. sent[e] <= 1 + k
      BY <3>1, <3>2, <3>4, <3>5
    <3> QED
      BY <3>3, <3>6
  <2>2. CASE observer # "feed"
    <3>1. sent[e] = 0 /\ forks * Cardinality(Url) \in Nat
      BY <2>2, FeedAssumption, FS_CardinalityType DEF FeedObserved, FeedInit
    <3> QED
      BY <3>1
  <2> QED
    BY <2>1, <2>2
<1> QED
  BY <1>1, FeedInvariance, ForksCount, PTL

\* Until a reorg, every launch from the first block that was scanned up to the cursor of
\* the poller is sent or about to be, but for the blocks that a scan without a cursor
\* jumped: whichever of the poller and the watchdog moves the cursor, and however the
\* chain grows between the reading of the head and that of the logs.
THEOREM NoLaunchIsMissed == Spec => []NothingMissed
<1>1. FeedObserved => NothingMissed
  <2> SUFFICES ASSUME FeedObserved
               PROVE  NothingMissed
    OBVIOUS
  <2>1. CASE observer = "feed"
    <3>1. ChainOK /\ FeedTypes /\ ScannedSent /\ NoHoles
      BY <2>1 DEF FeedObserved, FeedInv
    <3>2. ScannedIsSent
      <4> SUFFICES ASSUME NEW e \in Mined, BlockOf(e) \in scanned
                   PROVE  Sent(e, BlockOf(e))
        BY DEF ScannedIsSent, Sent
      <4>1. PICK b \in 1 .. Tip : e \in chain[b].logs
        BY LogsInHas DEF Mined
      <4>2. BlockOf(e) = b
        BY <3>1, <4>1, BlockOfIs
      <4> QED
        BY <3>1, <4>1, <4>2 DEF ScannedSent
    <3>3. HolesAreJumps
      BY <3>1 DEF NoHoles, CoveredTo, HolesAreJumps, FeedTypes
    <3> QED
      BY <3>2, <3>3 DEF NothingMissed
  <2>2. CASE observer # "feed"
    <3>1. scanned = {}
      BY <2>2 DEF FeedObserved, FeedInit
    <3> QED
      BY <3>1 DEF NothingMissed, ScannedIsSent, HolesAreJumps, Begun
  <2> QED
    BY <2>1, <2>2
<1> QED
  BY <1>1, FeedInvariance, PTL

-----------------------------------------------------------------------------
(* The capture *)

CaptureTypes ==
  /\ command \in [at : {"loop", "shut", "finish", "ended", "gone"}, result : {"none", "ok", "error"}, over : BOOLEAN]
  /\ unseen \subseteq Seen /\ followers \subseteq Seen /\ pending \in Seq(Seen) /\ ioFaults \in Nat
  /\ recorder \in [at : {"open", "flush", "sync", "manifest", "seal", "sealed", "failed", "gone"}, log : Seq(Record)]
  /\ buffer \in Seq(Record)
  /\ output \in [events : Seq(Record), part : BOOLEAN, synced : Nat,
                 manifest : [at : {"none", "part", "whole", "synced"}, log : Seq(Record)]]
  /\ output.synced <= Len(output.events)

\* Room is kept for the manifest.
RoomKept == Bytes(recorder.log) + Reserve <= MaxBytes

\* What was acknowledged is in the file or in the buffer, then flushed, then synced.
Stored ==
  /\ recorder.at \in {"open", "flush"} => output.events \o buffer = recorder.log
  /\ recorder.at \in {"sync", "manifest", "seal", "sealed"} => output.events = recorder.log /\ buffer = <<>>
  /\ recorder.at \in {"manifest", "seal", "sealed"} => output.synced = Len(output.events)

\* A manifest is written over what is synced, and says what was acknowledged.
ManifestLast ==
  /\ recorder.at \in {"open", "flush", "sync", "manifest"} => output.manifest.at = "none"
  /\ recorder.at = "seal" => output.manifest.at = "whole"
  /\ recorder.at = "sealed" => output.manifest.at = "synced"
  /\ output.manifest.at # "none" =>
       /\ output.manifest.log = recorder.log /\ output.events = recorder.log
       /\ output.synced = Len(output.events) /\ buffer = <<>>

\* How a command ends.
Ended ==
  /\ command.at \in {"loop", "shut", "finish"} => command.result = "none"
  /\ output.part => (command.at = "ended" /\ command.result = "error") \/ recorder.at \in {"failed", "gone"}
  /\ command.result = "ok" => ~ output.part /\ output.manifest.at = "synced"
  /\ recorder.at = "failed" => ioFaults > 0

CaptureInv == CaptureTypes /\ RoomKept /\ Stored /\ ManifestLast /\ Ended

\* The bytes of a log, as a sum over its lines.
Sizes(log) == [i \in DOMAIN log |-> Size[log[i].kind]]

LEMMA BytesIs == ASSUME NEW log PROVE Bytes(log) = SumOf(Sizes(log), DOMAIN log)
<1> DEFINE f == Sizes(log)
<1>1. MapThenSumSet(LAMBDA i : f[i], DOMAIN log) = SumOf(f, DOMAIN log)
  <2> HIDE DEF f
  <2> QED
    BY SumIsSumOf
<1> QED
  BY <1>1 DEF Bytes, Sizes

LEMMA BytesNone == Bytes(<<>>) = 0
<1>1. DOMAIN << >> = {}
  OBVIOUS
<1> QED
  BY <1>1, BytesIs, SumNone

\* One line more.
LEMMA BytesAppend ==
  ASSUME NEW log \in Seq(Record), NEW r \in Record
  PROVE  Bytes(Append(log, r)) = Bytes(log) + Size[r.kind]
<1> DEFINE long == Append(log, r)
           n == Len(log)
<1>1. n \in Nat /\ DOMAIN log = 1 .. n /\ DOMAIN long = 1 .. (n + 1) /\ long[n + 1] = r
      /\ \A i \in 1 .. n : long[i] = log[i]
  OBVIOUS
<1>2. /\ \A i \in DOMAIN log : log[i] \in Record
      /\ \A x \in Record : x.kind \in Kind
  <2>1. \A i \in DOMAIN log : log[i] \in Record
    OBVIOUS
  <2>2. \A x \in Record : x.kind \in Kind
    BY DEF Record
  <2> QED
    BY <2>1, <2>2
<1>3. \A i \in 1 .. n : log[i].kind \in Kind
  BY <1>1, <1>2
<1>4. \A k \in Kind : Size[k] \in Int
  BY CaptureAssumption
<1>5. r.kind \in Kind
  BY <1>2
<1> HIDE DEF long, n
<1>6. /\ \A i \in 1 .. n : Sizes(log)[i] \in Int /\ Sizes(long)[i] = Sizes(log)[i]
      /\ Sizes(long)[n + 1] = Size[r.kind] /\ Size[r.kind] \in Int
  <2>1. \A i \in 1 .. n : i \in DOMAIN log /\ i \in DOMAIN long
    BY <1>1
  <2>2. n + 1 \in DOMAIN long
    BY <1>1
  <2> QED
    BY <1>1, <1>3, <1>4, <1>5, <2>1, <2>2 DEF Sizes
<1>7. \A i \in 1 .. (n + 1) : Sizes(long)[i] \in Int
  <2>1. \A i \in 1 .. (n + 1) : i = n + 1 \/ i \in 1 .. n
    BY <1>1
  <2> QED
    BY <1>6, <2>1
<1>8. IsFiniteSet(1 .. (n + 1)) /\ IsFiniteSet(1 .. n)
  BY <1>1, FS_Interval
<1> DEFINE S == 1 .. (n + 1)
           T == 1 .. n
           f == Sizes(long)
           g == Sizes(log)
<1>9. n + 1 \in S /\ S \ {n + 1} = T
  BY <1>1
<1>10. /\ IsFiniteSet(S) /\ IsFiniteSet(T) /\ \A i \in S : f[i] \in Int
       /\ \A i \in T : f[i] = g[i] /\ g[i] \in Int
  BY <1>6, <1>7, <1>8
<1>11. f[n + 1] = Size[r.kind] /\ Size[r.kind] \in Int
  BY <1>6
<1> HIDE DEF S, T, f, g
<1>12. SumOf(f, S) = f[n + 1] + SumOf(f, S \ {n + 1})
  BY <1>9, <1>10, SumWithout
<1>13. SumOf(f, T) = SumOf(g, T) /\ SumOf(g, T) \in Int
  BY <1>10, SumAgree, SumType
<1>14. SumOf(f, S) = SumOf(g, T) + Size[r.kind]
  <2>1. SumOf(f, S \ {n + 1}) = SumOf(f, T)
    BY <1>9, Zenon
  <2> QED
    BY <1>11, <1>12, <1>13, <2>1
<1>15. Bytes(long) = SumOf(f, S) /\ Bytes(log) = SumOf(g, T)
  BY <1>1, BytesIs DEF f, g, S, T
<1> QED
  BY <1>14, <1>15 DEF long

\* The manifest fits the room that is kept for it.
LEMMA ManifestFits == RoomKept /\ Bytes(recorder.log) \in Int => Bytes(recorder.log) + ManifestSize <= MaxBytes
BY CaptureAssumption DEF RoomKept

LEMMA BytesType == ASSUME NEW log \in Seq(Record) PROVE Bytes(log) \in Int
<1> DEFINE S == DOMAIN log
           g == Sizes(log)
<1>1. \A i \in S : log[i] \in Record
  OBVIOUS
<1>2. \A i \in S : log[i].kind \in Kind
  BY <1>1 DEF Record
<1>3. \A i \in S : g[i] \in Int
  BY <1>2, CaptureAssumption DEF Sizes
<1>4. IsFiniteSet(S)
  <2>1. S = 1 .. Len(log) /\ Len(log) \in Int
    OBVIOUS
  <2> QED
    BY <2>1, FS_Interval
<1> HIDE DEF g, S
<1>5. SumOf(g, S) \in Int
  BY <1>3, <1>4, SumType
<1> QED
  BY <1>5, BytesIs DEF g, S

-----------------------------------------------------------------------------
(* Steps of the recorder *)

LEMMA CaptureFields ==
  ASSUME CaptureTypes
  PROVE  /\ recorder.log \in Seq(Record) /\ output.events \in Seq(Record) /\ output.part \in BOOLEAN
         /\ output.synced \in Nat /\ output.manifest.log \in Seq(Record) /\ Len(output.events) \in Nat
         /\ output.manifest.at \in {"none", "part", "whole", "synced"}
         /\ output.manifest = [at |-> output.manifest.at, log |-> output.manifest.log]
         /\ recorder = [at |-> recorder.at, log |-> recorder.log]
         /\ output = [events |-> output.events, part |-> output.part, synced |-> output.synced,
                      manifest |-> output.manifest]
         /\ command = [at |-> command.at, result |-> command.result, over |-> command.over]
         /\ Bytes(recorder.log) \in Int
<1>1. recorder.log \in Seq(Record)
  BY DEF CaptureTypes
<1>2. Bytes(recorder.log) \in Int
  <2>1. PICK l : l = recorder.log
    OBVIOUS
  <2>2. Bytes(l) \in Int
    BY <1>1, <2>1, BytesType
  <2> QED
    BY <2>1, <2>2
<1> QED
  BY <1>1, <1>2 DEF CaptureTypes

\* What a step leaves of a sequence of lines: a part of it reaches the file.
LEMMA SplitIs ==
  ASSUME NEW S, NEW events \in Seq(S), NEW lines \in Seq(S), NEW k \in 0 .. Len(lines)
  PROVE  /\ events \o SubSeq(lines, 1, k) \in Seq(S) /\ SubSeq(lines, k + 1, Len(lines)) \in Seq(S)
         /\ Len(events \o SubSeq(lines, 1, k)) >= Len(events)
         /\ (events \o SubSeq(lines, 1, k)) \o SubSeq(lines, k + 1, Len(lines)) = events \o lines
<1> DEFINE p == SubSeq(lines, 1, k)
           q == SubSeq(lines, k + 1, Len(lines))
<1>1. Len(lines) \in Nat /\ k \in Nat /\ k <= Len(lines)
  OBVIOUS
<1>2. p \in Seq(S) /\ Len(p) = k /\ \A i \in 1 .. k : p[i] = lines[i]
  BY <1>1
<1>3. q \in Seq(S) /\ Len(q) = Len(lines) - k /\ \A i \in 1 .. Len(lines) - k : q[i] = lines[i + k]
  BY <1>1
<1> HIDE DEF p, q
<1>4. p \o q \in Seq(S) /\ Len(p \o q) = Len(lines)
      /\ \A i \in 1 .. Len(p) + Len(q) : (p \o q)[i] = IF i <= Len(p) THEN p[i] ELSE q[i - Len(p)]
  BY <1>1, <1>2, <1>3, ConcatIs
<1>5. ASSUME NEW i \in 1 .. Len(lines)
      PROVE  (p \o q)[i] = lines[i]
  <2>1. (p \o q)[i] = IF i <= k THEN p[i] ELSE q[i - k]
    BY <1>1, <1>2, <1>3, <1>4
  <2>2. CASE i <= k
    BY <1>1, <1>2, <2>1, <2>2
  <2>3. CASE ~ (i <= k)
    <3>1. i - k \in 1 .. Len(lines) - k /\ i - k + k = i
      BY <1>1, <2>3
    <3> QED
      BY <1>3, <2>1, <2>3, <3>1
  <2> QED
    BY <2>2, <2>3
<1>6. p \o q = lines
  BY <1>1, <1>4, <1>5, SeqEqual
<1>7. (events \o p) \o q = events \o (p \o q)
  BY <1>2, <1>3, ConcatAssociative
<1>8. events \o p \in Seq(S) /\ Len(events \o p) = Len(events) + Len(p) /\ Len(events) \in Nat
  <2>1. events \in Seq(S) /\ p \in Seq(S) /\ Len(events) \in Nat
    BY <1>2
  <2>2. events \o p \in Seq(S) /\ Len(events \o p) = Len(events) + Len(p)
    BY <2>1, ConcatIs
  <2> QED
    BY <2>1, <2>2
<1>9. Len(events \o p) >= Len(events)
  BY <1>1, <1>2, <1>8
<1>10. (events \o p) \o q = events \o lines
  BY <1>6, <1>7
<1> QED
  BY <1>3, <1>8, <1>9, <1>10 DEF p, q

-----------------------------------------------------------------------------
(* The steps of the abstract dataset *)

Published == IF Verifies THEN {output.events} ELSE {}

DatasetStep == CaptureDataset!Next \/ UNCHANGED CaptureDataset!datasetVars

LEMMA AcknowledgeStep ==
  ASSUME command.result = "none", command'.result = "none", Published = {}, Published' = {},
         NEW r \in Record, recorder'.log = Append(recorder.log, r), ioFaults' = ioFaults
  PROVE  DatasetStep
BY DEF DatasetStep, CaptureDataset!Next, CaptureDataset!Acknowledge, Published

LEMMA StutterStep ==
  ASSUME command'.result = command.result, Published' = Published, recorder'.log = recorder.log, ioFaults' = ioFaults
  PROVE  DatasetStep
BY DEF DatasetStep, CaptureDataset!datasetVars, Published

LEMMA PublishStep ==
  ASSUME command'.result = command.result, Published = {}, Published' = {recorder.log},
         recorder'.log = recorder.log, ioFaults' = ioFaults
  PROVE  DatasetStep
BY DEF DatasetStep, CaptureDataset!Next, CaptureDataset!Publish, Published

LEMMA EndWellStep ==
  ASSUME command.result = "none", command'.result = "ok", Published # {}, Published' = Published,
         recorder'.log = recorder.log, ioFaults' = ioFaults
  PROVE  DatasetStep
BY DEF DatasetStep, CaptureDataset!Next, CaptureDataset!EndWell, Published

LEMMA EndBadlyStep ==
  ASSUME command.result = "none", command'.result = "error", Published' = Published,
         recorder'.log = recorder.log, ioFaults' > 0
  PROVE  DatasetStep
BY DEF DatasetStep, CaptureDataset!Next, CaptureDataset!EndBadly, Published

LEMMA BreakStep ==
  ASSUME command'.result = command.result, recorder'.log = recorder.log, ioFaults' > 0,
         Published' = Published \/ (command.result # "ok" /\ Published' = {})
  PROVE  DatasetStep
BY DEF DatasetStep, CaptureDataset!Next, CaptureDataset!Break, Published

\* Lines reach the file, in order.
LEMMA ReachIs ==
  ASSUME CaptureTypes, NEW lines \in Seq(Record), NEW k \in 0 .. Len(lines), NEW part \in BOOLEAN,
         Reach(lines, k, part), buffer' = SubSeq(lines, k + 1, Len(lines))
  PROVE  /\ buffer' \in Seq(Record) /\ output'.events \o buffer' = output.events \o lines
         /\ output' \in [events : Seq(Record), part : BOOLEAN, synced : Nat,
                         manifest : [at : {"none", "part", "whole", "synced"}, log : Seq(Record)]]
         /\ output'.synced <= Len(output'.events)
         /\ output'.part = part /\ output'.synced = output.synced /\ output'.manifest = output.manifest
<1>1. output.events \in Seq(Record) /\ output.synced \in Nat /\ output.synced <= Len(output.events)
  BY DEF CaptureTypes
<1> DEFINE more == SubSeq(lines, 1, k)
<1>2. PICK e : e = output.events
  OBVIOUS
<1>3. /\ e \o more \in Seq(Record) /\ SubSeq(lines, k + 1, Len(lines)) \in Seq(Record)
      /\ Len(e \o more) >= Len(e)
      /\ (e \o more) \o SubSeq(lines, k + 1, Len(lines)) = e \o lines
  BY ZenonT(40), <1>1, <1>2, SplitIs
<1>4. /\ output'.events = e \o more /\ output'.part = part
      /\ output'.synced = output.synced /\ output'.manifest = output.manifest
  BY <1>2 DEF Reach, CaptureTypes
<1>5. output' = [events |-> e \o more, part |-> part, synced |-> output.synced, manifest |-> output.manifest]
  BY <1>2 DEF Reach, CaptureTypes
<1> HIDE DEF more
<1>6. output' \in [events : Seq(Record), part : BOOLEAN, synced : Nat,
                   manifest : [at : {"none", "part", "whole", "synced"}, log : Seq(Record)]]
  BY <1>3, <1>5 DEF CaptureTypes
<1>7. output'.synced <= Len(output'.events)
  <2>1. Len(e) \in Nat /\ Len(e \o more) \in Nat
    BY <1>1, <1>2, <1>3
  <2> QED
    BY <1>1, <1>2, <1>3, <1>4, <2>1
<1> QED
  BY <1>2, <1>3, <1>4, <1>6, <1>7

\* A line is acknowledged.
LEMMA RecordedStep ==
  ASSUME CaptureInv, Looping, NEW r \in Record, Recorded(r),
         unseen' \subseteq Seen, followers' \subseteq Seen, pending' \in Seq(Seen)
  PROVE  CaptureInv' /\ DatasetStep
<1>0. /\ CaptureTypes /\ RoomKept /\ Stored /\ ManifestLast /\ Ended
      /\ recorder.at = "open" /\ command.at = "loop" /\ command.result = "none"
  BY DEF CaptureInv, Looping, Ended
<1>1. /\ recorder.log \in Seq(Record) /\ buffer \in Seq(Record) /\ output.events \in Seq(Record)
      /\ output.part \in BOOLEAN /\ Bytes(recorder.log) \in Int
  BY <1>0, CaptureFields DEF CaptureTypes
<1>2. /\ Room(r) /\ command' = command /\ ioFaults' = ioFaults
      /\ recorder' = [recorder EXCEPT !.log = Append(@, r)]
  BY DEF Recorded, Write
<1>3. PICK lines, k : /\ lines = Append(buffer, r) /\ k \in {0, Len(buffer), Len(lines)}
                      /\ Reach(lines, k, output.part) /\ buffer' = SubSeq(lines, k + 1, Len(lines))
  BY DEF Recorded, Write
<1>4. lines \in Seq(Record) /\ Len(lines) = Len(buffer) + 1 /\ k \in 0 .. Len(lines)
  BY <1>1, <1>3
<1>5. PICK part \in BOOLEAN : part = output.part
  BY <1>1
<1>6. /\ buffer' \in Seq(Record) /\ output'.events \o buffer' = output.events \o lines
      /\ output' \in [events : Seq(Record), part : BOOLEAN, synced : Nat,
                      manifest : [at : {"none", "part", "whole", "synced"}, log : Seq(Record)]]
      /\ output'.synced <= Len(output'.events)
      /\ output'.part = part /\ output'.synced = output.synced /\ output'.manifest = output.manifest
  BY <1>0, <1>3, <1>4, <1>5, ReachIs
<1>7. /\ recorder'.at = "open" /\ recorder'.log = Append(recorder.log, r)
      /\ recorder' \in [at : {"open", "flush", "sync", "manifest", "seal", "sealed", "failed", "gone"}, log : Seq(Record)]
  <2>1. PICK l : l = Append(recorder.log, r)
    OBVIOUS
  <2>2. l \in Seq(Record)
    BY <1>1, <2>1
  <2>3. recorder' = [at |-> recorder.at, log |-> l]
    BY <1>0, <1>2, <2>1 DEF CaptureTypes
  <2> QED
    BY <1>0, <2>1, <2>2, <2>3
<1>8. CaptureTypes'
  BY <1>0, <1>2, <1>6, <1>7 DEF CaptureTypes
<1>9. RoomKept'
  <2>1. PICK l : l = recorder.log
    OBVIOUS
  <2>2. Bytes(Append(l, r)) = Bytes(l) + Size[r.kind]
    BY <1>1, <2>1, BytesAppend
  <2>3. Bytes(l) + Size[r.kind] + Reserve <= MaxBytes
    BY <1>2, <2>1 DEF Room
  <2> QED
    BY <1>7, <2>1, <2>2, <2>3 DEF RoomKept
<1>10. Stored'
  <2>1. output.events \o buffer = recorder.log
    BY <1>0 DEF Stored
  <2>2. output.events \o Append(buffer, r) = Append(output.events \o buffer, r)
    <3>1. PICK e, b : e = output.events /\ b = buffer
      OBVIOUS
    <3>2. e \in Seq(Record) /\ b \in Seq(Record)
      BY <1>1, <3>1
    <3>3. e \o Append(b, r) = Append(e \o b, r)
      <4>1. Append(b, r) = b \o <<r>> /\ Append(e \o b, r) = (e \o b) \o <<r>> /\ <<r>> \in Seq(Record)
        BY <3>2, AppendIsConcat, ConcatIs
      <4>2. (e \o b) \o <<r>> = e \o (b \o <<r>>)
        BY <3>2, <4>1, ConcatAssociative
      <4> QED
        BY <4>1, <4>2
    <3> QED
      BY <3>1, <3>3
  <2>3. output'.events \o buffer' = recorder'.log
    BY <1>3, <1>6, <1>7, <2>1, <2>2
  <2> QED
    BY <1>7, <2>3 DEF Stored
<1>11. output.manifest.at = "none"
  BY <1>0 DEF ManifestLast
<1>12. ManifestLast'
  BY <1>6, <1>7, <1>11 DEF ManifestLast
<1>13. Ended'
  BY <1>0, <1>2, <1>5, <1>6, <1>7 DEF Ended
<1>14. DatasetStep
  <2>1. Published = {} /\ Published' = {}
    BY <1>6, <1>11 DEF Published, Verifies, Readable
  <2> QED
    BY <1>0, <1>2, <1>7, <2>1, AcknowledgeStep
<1> QED
  BY <1>8, <1>9, <1>10, <1>12, <1>13, <1>14 DEF CaptureInv

\* What no step of the command but PowerFails changes: the recorder's records and the output.
LEMMA QuietStep ==
  ASSUME CaptureInv, unseen' \subseteq Seen, followers' \subseteq Seen, pending' \in Seq(Seen),
         NEW at, recorder' = [recorder EXCEPT !.at = at], at = recorder.at \/ (recorder.at = "open" /\ at = "flush"),
         buffer' = buffer, output' = output, ioFaults' = ioFaults,
         command' \in [at : {"loop", "shut", "finish", "ended", "gone"}, result : {"none", "ok", "error"}, over : BOOLEAN],
         command'.result = command.result, command.at \in {"loop", "shut", "finish"}, command'.at \in {"loop", "shut", "finish"}
  PROVE  CaptureInv' /\ DatasetStep
<1>0. CaptureTypes /\ RoomKept /\ Stored /\ ManifestLast /\ Ended
  BY DEF CaptureInv
<1>1. recorder'.at = at /\ recorder'.log = recorder.log
      /\ recorder' \in [at : {"open", "flush", "sync", "manifest", "seal", "sealed", "failed", "gone"}, log : Seq(Record)]
  BY <1>0 DEF CaptureTypes
<1>2. CaptureTypes'
  BY <1>0, <1>1 DEF CaptureTypes
<1>3. RoomKept'
  BY <1>0, <1>1 DEF RoomKept
<1>4. Stored' /\ ManifestLast' /\ Ended'
  BY <1>0, <1>1 DEF Stored, ManifestLast, Ended
<1>5. Published' = Published
  BY DEF Published, Verifies
<1> QED
  BY <1>1, <1>2, <1>3, <1>4, <1>5, StutterStep DEF CaptureInv

RecorderType ==
  [at : {"open", "flush", "sync", "manifest", "seal", "sealed", "failed", "gone"}, log : Seq(Record)]
OutputType ==
  [events : Seq(Record), part : BOOLEAN, synced : Nat,
   manifest : [at : {"none", "part", "whole", "synced"}, log : Seq(Record)]]
CommandType == [at : {"loop", "shut", "finish", "ended", "gone"}, result : {"none", "ok", "error"}, over : BOOLEAN]

LEMMA RecorderMoves ==
  ASSUME CaptureTypes, NEW at \in {"open", "flush", "sync", "manifest", "seal", "sealed", "failed", "gone"},
         recorder' = [recorder EXCEPT !.at = at]
  PROVE  recorder' \in RecorderType /\ recorder'.at = at /\ recorder'.log = recorder.log
BY DEF CaptureTypes, RecorderType

\* A failed write.
LEMMA WriteFailsIs ==
  ASSUME CaptureTypes, NEW lines, WriteFails(lines)
  PROVE  /\ buffer' \in Seq(Record) /\ output'.events \o buffer' = output.events \o buffer
         /\ output' \in OutputType /\ output'.synced <= Len(output'.events)
         /\ output'.manifest = output.manifest /\ ioFaults' \in Nat /\ ioFaults' > 0
<1>1. PICK k \in 0 .. Len(buffer), part \in BOOLEAN :
        Reach(buffer, k, part) /\ buffer' = SubSeq(buffer, k + 1, Len(buffer))
  BY DEF WriteFails
<1>2. PICK b : b = buffer
  OBVIOUS
<1>3. b \in Seq(Record) /\ Reach(b, k, part) /\ buffer' = SubSeq(b, k + 1, Len(b)) /\ k \in 0 .. Len(b)
  BY <1>1, <1>2 DEF CaptureTypes
<1>4. ioFaults' \in Nat /\ ioFaults' > 0
  BY DEF WriteFails, IoFault, CaptureTypes
<1> QED
  BY <1>2, <1>3, <1>4, ReachIs DEF OutputType

LEMMA RefusedStep ==
  ASSUME CaptureInv, Looping, NEW r, Refused(r),
         unseen' \subseteq Seen, followers' \subseteq Seen, pending' \in Seq(Seen)
  PROVE  CaptureInv' /\ DatasetStep
<1>0. /\ CaptureTypes /\ RoomKept /\ Stored /\ ManifestLast /\ Ended
      /\ recorder.at = "open" /\ command.at = "loop" /\ command.result = "none"
  BY DEF CaptureInv, Looping, Ended
<1>1. /\ WriteFails(Append(buffer, r)) /\ recorder' = [recorder EXCEPT !.at = "flush"]
      /\ command' = [command EXCEPT !.at = "ended", !.result = "error"]
  BY DEF Refused
<1>2. PICK lines : lines = Append(buffer, r)
  OBVIOUS
<1>3. WriteFails(lines)
  BY <1>1, <1>2
<1>4. /\ buffer' \in Seq(Record) /\ output'.events \o buffer' = output.events \o buffer
      /\ output' \in OutputType /\ output'.synced <= Len(output'.events)
      /\ output'.manifest = output.manifest /\ ioFaults' \in Nat /\ ioFaults' > 0
  BY <1>0, <1>3, WriteFailsIs
<1>5. recorder' \in RecorderType /\ recorder'.at = "flush" /\ recorder'.log = recorder.log
  BY <1>0, <1>1, RecorderMoves
<1>6. command' \in CommandType /\ command'.at = "ended" /\ command'.result = "error"
  BY <1>0, <1>1 DEF CaptureTypes, CommandType
<1>7. CaptureTypes'
  BY <1>0, <1>4, <1>5, <1>6 DEF CaptureTypes, RecorderType, OutputType, CommandType
<1>8. RoomKept'
  BY <1>0, <1>5 DEF RoomKept
<1>9. output.manifest.at = "none" /\ output.events \o buffer = recorder.log
  BY <1>0 DEF ManifestLast, Stored
<1>10. Stored' /\ ManifestLast' /\ Ended'
  BY <1>4, <1>5, <1>6, <1>9 DEF Stored, ManifestLast, Ended
<1>11. DatasetStep
  <2>1. Published = {} /\ Published' = {}
    BY <1>4, <1>9 DEF Published, Verifies, Readable
  <2> QED
    BY <1>0, <1>4, <1>5, <1>6, <2>1, EndBadlyStep
<1> QED
  BY <1>7, <1>8, <1>10, <1>11 DEF CaptureInv

LEMMA ReturnStep ==
  ASSUME CaptureInv, Return
  PROVE  CaptureInv' /\ DatasetStep
<1>0. CaptureTypes /\ RoomKept /\ Stored /\ ManifestLast /\ Ended
  BY DEF CaptureInv
<1>1. UNCHANGED <<unseen, pending, followers, recorder, buffer, output, ioFaults>>
  BY DEF Return, writeVars
<1>2. Published' = Published /\ (RoomKept /\ Stored /\ ManifestLast)'
  BY <1>0, <1>1 DEF Published, Verifies, RoomKept, Stored, ManifestLast
<1>3. CASE /\ command.at = "finish" /\ recorder.at = "sealed"
           /\ command' = [command EXCEPT !.at = "ended", !.result = "ok"]
  <2>1. command' \in CommandType /\ command'.at = "ended" /\ command'.result = "ok" /\ command.result = "none"
    BY <1>0, <1>3 DEF CaptureTypes, CommandType, Ended
  <2>2. CaptureTypes'
    BY <1>0, <1>1, <2>1 DEF CaptureTypes, CommandType
  <2>3. ~ output.part /\ output.manifest.at = "synced"
    BY <1>0, <1>3 DEF CaptureTypes, Ended, ManifestLast
  <2>4. Ended'
    BY <1>0, <1>1, <2>1, <2>3 DEF Ended
  <2>5. Published # {}
    <3>1. output.events = recorder.log /\ output.manifest.log = recorder.log
      BY <1>0, <2>3 DEF ManifestLast
    <3>2. Bytes(recorder.log) + ManifestSize <= MaxBytes
      BY <1>0, ManifestFits, CaptureFields
    <3>3. Verifies
      BY <2>3, <3>1, <3>2 DEF Verifies, Readable
    <3> QED
      BY <3>3 DEF Published
  <2>6. DatasetStep
    BY <1>1, <1>2, <2>1, <2>5, EndWellStep
  <2> QED
    BY <1>2, <2>2, <2>4, <2>6 DEF CaptureInv
<1>4. CASE /\ command.at \in {"loop", "finish"} /\ recorder.at = "failed"
           /\ command' = [command EXCEPT !.at = "ended", !.result = "error"]
  <2>1. command' \in CommandType /\ command'.at = "ended" /\ command'.result = "error" /\ command.result = "none"
    BY <1>0, <1>4 DEF CaptureTypes, CommandType, Ended
  <2>2. CaptureTypes'
    BY <1>0, <1>1, <2>1 DEF CaptureTypes, CommandType
  <2>3. Ended' /\ ioFaults' > 0
    BY <1>0, <1>1, <1>4, <2>1 DEF Ended
  <2>4. DatasetStep
    BY <1>1, <1>2, <2>1, <2>3, EndBadlyStep
  <2> QED
    BY <1>2, <2>2, <2>3, <2>4 DEF CaptureInv
<1> QED
  BY <1>3, <1>4 DEF Return

LEMMA FinishFlushStep ==
  ASSUME CaptureInv, FinishFlush, UNCHANGED <<command, unseen, pending, followers>>
  PROVE  CaptureInv' /\ DatasetStep
<1>0. CaptureTypes /\ RoomKept /\ Stored /\ ManifestLast /\ Ended /\ recorder.at = "flush"
  BY DEF CaptureInv, FinishFlush
<1>1. output.manifest.at = "none" /\ output.events \o buffer = recorder.log
  BY <1>0 DEF ManifestLast, Stored
<1>2. CASE FlushAll /\ recorder' = [recorder EXCEPT !.at = "sync"] /\ UNCHANGED ioFaults
  <2>1. recorder' \in RecorderType /\ recorder'.at = "sync" /\ recorder'.log = recorder.log
    BY <1>0, <1>2, RecorderMoves
  <2>2. PICK b, part : b = buffer /\ part = (buffer = <<>> /\ output.part)
    OBVIOUS
  <2>3. b \in Seq(Record) /\ part \in BOOLEAN /\ Len(b) \in 0 .. Len(b)
    BY <1>0, <2>2, CaptureFields DEF CaptureTypes
  <2>4. Reach(b, Len(b), part) /\ buffer' = SubSeq(b, Len(b) + 1, Len(b)) /\ buffer' = <<>>
    <3>1. SubSeq(b, Len(b) + 1, Len(b)) = <<>>
      BY <2>3
    <3> QED
      BY <1>2, <2>2, <3>1 DEF FlushAll
  <2>5. /\ output'.events \o buffer' = output.events \o b /\ output' \in OutputType
        /\ output'.synced <= Len(output'.events) /\ output'.part = part /\ output'.manifest = output.manifest
    BY <1>0, <2>3, <2>4, ReachIs DEF OutputType
  <2>6. output'.events = recorder.log
    <3>1. output'.events \in Seq(Record)
      BY <2>5 DEF OutputType
    <3>2. PICK e : e = output'.events
      OBVIOUS
    <3>3. e \o <<>> = e
      BY <3>1, <3>2, ConcatEmptySeq
    <3> QED
      BY <1>1, <2>2, <2>4, <2>5, <3>2, <3>3
  <2>7. CaptureTypes'
    BY <1>0, <1>2, <2>1, <2>4, <2>5 DEF CaptureTypes, RecorderType, OutputType
  <2>8. RoomKept'
    BY <1>0, <2>1 DEF RoomKept
  <2>9. Stored' /\ ManifestLast'
    BY <1>1, <2>1, <2>4, <2>5, <2>6 DEF Stored, ManifestLast
  <2>10. Ended'
    BY <1>0, <1>1, <2>1, <2>2, <2>5 DEF Ended
  <2>11. Published = {} /\ Published' = {}
    BY <1>1, <2>5 DEF Published, Verifies, Readable
  <2> QED
    BY <1>2, <2>1, <2>7, <2>8, <2>9, <2>10, <2>11, StutterStep DEF CaptureInv
<1>3. CASE buffer # <<>> /\ WriteFails(buffer) /\ recorder' = [recorder EXCEPT !.at = "failed"]
  <2>1. recorder' \in RecorderType /\ recorder'.at = "failed" /\ recorder'.log = recorder.log
    BY <1>0, <1>3, RecorderMoves
  <2>2. PICK b : b = buffer
    OBVIOUS
  <2>3. WriteFails(b)
    BY <1>3, <2>2
  <2>4. /\ buffer' \in Seq(Record) /\ output' \in OutputType /\ output'.synced <= Len(output'.events)
        /\ output'.manifest = output.manifest /\ ioFaults' \in Nat /\ ioFaults' > 0
    BY <1>0, <2>3, WriteFailsIs
  <2>5. CaptureTypes'
    BY <1>0, <2>1, <2>4 DEF CaptureTypes, RecorderType, OutputType
  <2>6. RoomKept' /\ Stored' /\ ManifestLast'
    BY <1>0, <1>1, <2>1, <2>4 DEF RoomKept, Stored, ManifestLast
  <2>7. Ended'
    BY <1>0, <1>1, <2>1, <2>4 DEF Ended
  <2>8. Published = {} /\ Published' = {}
    BY <1>1, <2>4 DEF Published, Verifies, Readable
  <2> QED
    BY <2>1, <2>4, <2>5, <2>6, <2>7, <2>8, BreakStep DEF CaptureInv
<1> QED
  BY <1>2, <1>3 DEF FinishFlush

LEMMA FinishSyncStep ==
  ASSUME CaptureInv, FinishSync, UNCHANGED <<command, unseen, pending, followers>>
  PROVE  CaptureInv' /\ DatasetStep
<1>0. CaptureTypes /\ RoomKept /\ Stored /\ ManifestLast /\ Ended /\ recorder.at = "sync" /\ buffer' = buffer
  BY DEF CaptureInv, FinishSync
<1>1. output.manifest.at = "none" /\ output.events = recorder.log /\ buffer = <<>>
  BY <1>0 DEF ManifestLast, Stored
<1>2. CASE /\ output' = [output EXCEPT !.synced = Len(output.events)]
           /\ recorder' = [recorder EXCEPT !.at = "manifest"] /\ UNCHANGED ioFaults
  <2>1. recorder' \in RecorderType /\ recorder'.at = "manifest" /\ recorder'.log = recorder.log
    BY <1>0, <1>2, RecorderMoves
  <2>2. Len(output.events) \in Nat
    BY <1>0, CaptureFields
  <2>3. /\ output' \in OutputType /\ output'.synced = Len(output.events) /\ output'.events = output.events
        /\ output'.part = output.part /\ output'.manifest = output.manifest
    BY <1>0, <1>2, <2>2 DEF CaptureTypes, OutputType
  <2>4. CaptureTypes'
    BY <1>0, <1>2, <2>1, <2>2, <2>3 DEF CaptureTypes, RecorderType, OutputType
  <2>5. RoomKept' /\ Stored' /\ ManifestLast' /\ Ended'
    BY <1>0, <1>1, <1>2, <2>1, <2>3 DEF RoomKept, Stored, ManifestLast, Ended
  <2>6. Published = {} /\ Published' = {}
    BY <1>1, <2>3 DEF Published, Verifies, Readable
  <2> QED
    BY <1>2, <2>1, <2>4, <2>5, <2>6, StutterStep DEF CaptureInv
<1>3. CASE IoFault /\ recorder' = [recorder EXCEPT !.at = "failed"] /\ UNCHANGED output
  <2>1. recorder' \in RecorderType /\ recorder'.at = "failed" /\ recorder'.log = recorder.log
    BY <1>0, <1>3, RecorderMoves
  <2>2. ioFaults' \in Nat /\ ioFaults' > 0
    BY <1>0, <1>3 DEF IoFault, CaptureTypes
  <2>3. CaptureTypes'
    BY <1>0, <1>3, <2>1, <2>2 DEF CaptureTypes, RecorderType
  <2>4. RoomKept' /\ Stored' /\ ManifestLast' /\ Ended'
    BY <1>0, <1>1, <1>3, <2>1, <2>2 DEF RoomKept, Stored, ManifestLast, Ended
  <2>5. Published' = Published
    BY <1>3 DEF Published, Verifies
  <2> QED
    BY <2>1, <2>2, <2>3, <2>4, <2>5, BreakStep DEF CaptureInv
<1> QED
  BY <1>2, <1>3 DEF FinishSync

\* What the manifest's step leaves alone, and what it writes.
LEMMA FinishManifestStep ==
  ASSUME CaptureInv, FinishManifest, UNCHANGED <<command, unseen, pending, followers>>
  PROVE  CaptureInv' /\ DatasetStep
<1>0. CaptureTypes /\ RoomKept /\ Stored /\ ManifestLast /\ Ended /\ recorder.at = "manifest" /\ buffer' = buffer
  BY DEF CaptureInv, FinishManifest
<1>1. /\ output.manifest.at = "none" /\ output.events = recorder.log /\ buffer = <<>>
      /\ output.synced = Len(output.events)
  BY <1>0 DEF ManifestLast, Stored
<1>2. Bytes(recorder.log) + ManifestSize <= MaxBytes
  BY <1>0, ManifestFits, CaptureFields
<1>3. recorder.log \in Seq(Record)
  BY <1>0, CaptureFields
<1> DEFINE put(at) == output' = [output EXCEPT !.manifest = [at |-> at, log |-> recorder.log]]
<1>4. ASSUME NEW at \in {"part", "whole"}, put(at)
      PROVE  /\ output' \in OutputType /\ output'.manifest = [at |-> at, log |-> recorder.log]
             /\ output'.events = output.events /\ output'.part = output.part /\ output'.synced = output.synced
  BY <1>0, <1>3, <1>4 DEF CaptureTypes, OutputType
<1>5. CASE put("whole") /\ recorder' = [recorder EXCEPT !.at = "seal"] /\ UNCHANGED ioFaults
  <2>1. recorder' \in RecorderType /\ recorder'.at = "seal" /\ recorder'.log = recorder.log
    BY <1>0, <1>5, RecorderMoves
  <2>2. /\ output' \in OutputType /\ output'.manifest = [at |-> "whole", log |-> recorder.log]
        /\ output'.events = output.events /\ output'.part = output.part /\ output'.synced = output.synced
    BY <1>4, <1>5
  <2>3. CaptureTypes'
    BY <1>0, <1>5, <2>1, <2>2 DEF CaptureTypes, RecorderType, OutputType
  <2>4. RoomKept' /\ Stored' /\ ManifestLast' /\ Ended'
    BY <1>0, <1>1, <1>5, <2>1, <2>2 DEF RoomKept, Stored, ManifestLast, Ended
  <2>5. Published = {}
    BY <1>1 DEF Published, Verifies, Readable
  <2>6. Published' = {} \/ Published' = {recorder.log}
    BY <1>1, <2>2 DEF Published
  <2>7. DatasetStep
    BY <1>5, <2>1, <2>5, <2>6, StutterStep, PublishStep
  <2> QED
    BY <2>3, <2>4, <2>7 DEF CaptureInv
<1>6. CASE IoFault /\ (put("part") \/ UNCHANGED output) /\ recorder' = [recorder EXCEPT !.at = "failed"]
  <2>1. recorder' \in RecorderType /\ recorder'.at = "failed" /\ recorder'.log = recorder.log
    BY <1>0, <1>6, RecorderMoves
  <2>2. ioFaults' \in Nat /\ ioFaults' > 0
    BY <1>0, <1>6 DEF IoFault, CaptureTypes
  <2>3. /\ output' \in OutputType
        /\ output'.manifest = [at |-> "part", log |-> recorder.log] \/ output'.manifest = output.manifest
        /\ output'.events = output.events /\ output'.part = output.part /\ output'.synced = output.synced
    <3>1. CASE put("part")
      BY <1>4, <3>1
    <3>2. CASE output' = output
      BY <1>0, <3>2 DEF CaptureTypes, OutputType
    <3> QED
      BY <1>6, <3>1, <3>2
  <2>4. CaptureTypes'
    BY <1>0, <2>1, <2>2, <2>3 DEF CaptureTypes, RecorderType, OutputType
  <2>5. RoomKept' /\ Stored' /\ ManifestLast' /\ Ended'
    BY <1>0, <1>1, <2>1, <2>2, <2>3 DEF RoomKept, Stored, ManifestLast, Ended
  <2>6. Published = {} /\ Published' = {}
    BY <1>1, <2>3 DEF Published, Verifies, Readable
  <2> QED
    BY <2>1, <2>2, <2>4, <2>5, <2>6, BreakStep DEF CaptureInv
<1> QED
  BY <1>2, <1>5, <1>6 DEF FinishManifest

LEMMA FinishSealStep ==
  ASSUME CaptureInv, FinishSeal, UNCHANGED <<command, unseen, pending, followers>>
  PROVE  CaptureInv' /\ DatasetStep
<1>0. CaptureTypes /\ RoomKept /\ Stored /\ ManifestLast /\ Ended /\ recorder.at = "seal" /\ buffer' = buffer
  BY DEF CaptureInv, FinishSeal
<1>1. /\ output.manifest.at = "whole" /\ output.manifest.log = recorder.log /\ output.events = recorder.log
      /\ output.synced = Len(output.events) /\ buffer = <<>>
  BY <1>0 DEF ManifestLast, Stored
<1>2. CASE /\ output' = [output EXCEPT !.manifest.at = "synced"]
           /\ recorder' = [recorder EXCEPT !.at = "sealed"] /\ UNCHANGED ioFaults
  <2>1. recorder' \in RecorderType /\ recorder'.at = "sealed" /\ recorder'.log = recorder.log
    BY <1>0, <1>2, RecorderMoves
  <2>2. /\ output' \in OutputType /\ output'.manifest.at = "synced" /\ output'.manifest.log = output.manifest.log
        /\ output'.events = output.events /\ output'.part = output.part /\ output'.synced = output.synced
    BY <1>0, <1>2 DEF CaptureTypes, OutputType
  <2>3. CaptureTypes'
    BY <1>0, <1>2, <2>1, <2>2 DEF CaptureTypes, RecorderType, OutputType
  <2>4. RoomKept' /\ Stored' /\ ManifestLast' /\ Ended'
    BY <1>0, <1>1, <1>2, <2>1, <2>2 DEF RoomKept, Stored, ManifestLast, Ended
  <2>5. Published' = Published
    BY <1>1, <2>2 DEF Published, Verifies, Readable
  <2> QED
    BY <1>2, <2>1, <2>3, <2>4, <2>5, StutterStep DEF CaptureInv
<1>3. CASE IoFault /\ recorder' = [recorder EXCEPT !.at = "failed"] /\ UNCHANGED output
  <2>1. recorder' \in RecorderType /\ recorder'.at = "failed" /\ recorder'.log = recorder.log
    BY <1>0, <1>3, RecorderMoves
  <2>2. ioFaults' \in Nat /\ ioFaults' > 0
    BY <1>0, <1>3 DEF IoFault, CaptureTypes
  <2>3. CaptureTypes'
    BY <1>0, <1>3, <2>1, <2>2 DEF CaptureTypes, RecorderType
  <2>4. RoomKept' /\ Stored' /\ ManifestLast' /\ Ended'
    BY <1>0, <1>1, <1>3, <2>1, <2>2 DEF RoomKept, Stored, ManifestLast, Ended
  <2>5. Published' = Published
    BY <1>3 DEF Published, Verifies
  <2> QED
    BY <2>1, <2>2, <2>3, <2>4, <2>5, BreakStep DEF CaptureInv
<1> QED
  BY <1>2, <1>3 DEF FinishSeal

\* What was not synced may be lost, and a manifest that was not.
LEMMA PowerFailsStep ==
  ASSUME CaptureInv, PowerFails
  PROVE  CaptureInv' /\ DatasetStep
<1>0. CaptureTypes /\ RoomKept /\ Stored /\ ManifestLast /\ Ended
  BY DEF CaptureInv
<1>1. /\ command' = [command EXCEPT !.at = "gone"] /\ recorder' = [recorder EXCEPT !.at = "gone"]
      /\ buffer' = <<>> /\ UNCHANGED <<unseen, pending, followers>> /\ ioFaults' \in Nat /\ ioFaults' > 0
  BY <1>0 DEF PowerFails, IoFault, CaptureTypes
<1>2. PICK k \in output.synced .. Len(output.events), at \in {"none", "part", "whole", "synced"}, part \in BOOLEAN :
        /\ at # output.manifest.at => output.manifest.at = "whole" /\ at # "synced"
        /\ part = output.part \/ k < Len(output.events) \/ buffer # <<>>
        /\ output' = [output EXCEPT !.events = SubSeq(@, 1, k), !.part = part, !.manifest.at = at]
  <2>1. output.part \in BOOLEAN
    BY <1>0, CaptureFields
  <2> QED
    BY ZenonT(40), <2>1 DEF PowerFails
<1>3. PICK e : e = output.events
  OBVIOUS
<1>4. e \in Seq(Record) /\ output.synced \in Nat /\ Len(e) \in Nat /\ k \in output.synced .. Len(e)
  BY <1>0, <1>2, <1>3, CaptureFields
<1> DEFINE short == SubSeq(e, 1, k)
<1>5. short \in Seq(Record) /\ Len(short) = k /\ (k = Len(e) => short = e)
  <2>1. k \in Nat /\ k <= Len(e)
    BY <1>4
  <2>2. short \in Seq(Record) /\ Len(short) = k
    BY <1>4, <2>1
  <2>3. k = Len(e) => short = e
    BY <1>4, SubSeqFull
  <2> QED
    BY <2>2, <2>3
<1>6. output' = [events |-> short, part |-> part, synced |-> output.synced,
                 manifest |-> [at |-> at, log |-> output.manifest.log]]
  BY <1>0, <1>2, <1>3 DEF CaptureTypes
<1> HIDE DEF short
<1>7. /\ output' \in OutputType /\ output'.events = short /\ output'.part = part
      /\ output'.synced = output.synced /\ output'.manifest.at = at /\ output'.manifest.log = output.manifest.log
  BY <1>0, <1>5, <1>6 DEF CaptureTypes, OutputType
<1>8. recorder' \in RecorderType /\ recorder'.at = "gone" /\ recorder'.log = recorder.log
  BY <1>0, <1>1, RecorderMoves
<1>9. command' \in CommandType /\ command'.at = "gone" /\ command'.result = command.result
  BY <1>0, <1>1 DEF CaptureTypes, CommandType
<1>10. CaptureTypes'
  <2>1. output'.synced <= Len(output'.events)
    BY <1>4, <1>5, <1>7
  <2>2. buffer' \in Seq(Record)
    BY <1>1
  <2> QED
    BY <1>0, <1>1, <1>7, <1>8, <1>9, <2>1, <2>2 DEF CaptureTypes, RecorderType, OutputType, CommandType
<1>11. output.manifest.at # "none" =>
         /\ output.manifest.log = recorder.log /\ short = recorder.log /\ part = output.part
         /\ output.synced = Len(short)
  <2> SUFFICES ASSUME output.manifest.at # "none"
               PROVE  /\ output.manifest.log = recorder.log /\ short = recorder.log /\ part = output.part
                      /\ output.synced = Len(short)
    OBVIOUS
  <2>1. /\ output.manifest.log = recorder.log /\ e = recorder.log
        /\ output.synced = Len(e) /\ buffer = <<>>
    BY <1>0, <1>3 DEF ManifestLast
  <2>2. k = Len(e)
    BY <1>4, <2>1
  <2> QED
    BY <1>2, <1>3, <1>4, <1>5, <2>1, <2>2
<1>12. at # "none" => output.manifest.at # "none"
  BY <1>2
<1>13. RoomKept' /\ Stored'
  BY <1>0, <1>8 DEF RoomKept, Stored
<1>14. ManifestLast'
  BY <1>1, <1>7, <1>8, <1>11, <1>12 DEF ManifestLast
<1>15. Ended'
  <2>1. command.result = "ok" => ~ output.part /\ output.manifest.at = "synced"
    BY <1>0 DEF Ended
  <2>2. command.result = "ok" => ~ part /\ at = "synced"
    BY <1>2, <1>11, <2>1
  <2> QED
    BY <1>7, <1>8, <1>9, <2>2 DEF Ended
<1>16. Published' = Published \/ (command.result # "ok" /\ Published' = {})
  <2>1. CASE output.manifest.at = "none"
    BY <1>2, <1>7, <2>1 DEF Published, Verifies, Readable
  <2>2. CASE output.manifest.at # "none" /\ at = output.manifest.at
    <3>1. /\ output'.events = output.events /\ output'.manifest.log = output.manifest.log
          /\ output'.manifest.at = output.manifest.at /\ output'.part = output.part
      BY <1>0, <1>7, <1>11, <2>2 DEF ManifestLast
    <3> QED
      BY <3>1 DEF Published, Verifies, Readable
  <2>3. CASE output.manifest.at = "whole" /\ at \in {"none", "part"}
    <3>1. Published' = {}
      BY <1>7, <2>3 DEF Published, Verifies, Readable
    <3>2. command.result # "ok"
      BY <1>0, <2>3 DEF Ended
    <3> QED
      BY <3>1, <3>2
  <2> QED
    BY <1>2, <2>1, <2>2, <2>3
<1>17. DatasetStep
  BY <1>1, <1>8, <1>9, <1>16, BreakStep
<1> QED
  BY <1>10, <1>13, <1>14, <1>15, <1>17 DEF CaptureInv

LEMMA CaptureInitInv == CaptureInit => CaptureInv /\ CaptureDataset!Init
<1> SUFFICES ASSUME CaptureInit
             PROVE  CaptureInv /\ CaptureDataset!Init
  OBVIOUS
<1>1. /\ command = [at |-> "loop", result |-> "none", over |-> FALSE]
      /\ unseen = Seen /\ pending = <<>> /\ followers = {} /\ ioFaults = 0
      /\ recorder = [at |-> "open", log |-> <<>>] /\ buffer = <<>>
      /\ output = [events |-> <<>>, part |-> FALSE, synced |-> 0, manifest |-> [at |-> "none", log |-> <<>>]]
  BY DEF CaptureInit, NoManifest
<1>2. <<>> \in Seq(Record) /\ <<>> \in Seq(Seen) /\ Len(<<>>) = 0 /\ <<>> \o <<>> = <<>>
  <2>1. <<>> \in Seq(Record) /\ <<>> \in Seq(Seen)
    OBVIOUS
  <2>2. <<>> \o <<>> = <<>>
    BY <2>1, ConcatEmptySeq
  <2> QED
    BY <2>1, <2>2
<1>3. CaptureTypes
  BY <1>1, <1>2 DEF CaptureTypes
<1>4. RoomKept
  <2>1. Bytes(recorder.log) = 0
    BY <1>1, BytesNone
  <2> QED
    BY <2>1, CaptureAssumption DEF RoomKept
<1>5. Stored /\ ManifestLast /\ Ended
  BY <1>1, <1>2 DEF Stored, ManifestLast, Ended
<1>6. CaptureDataset!Init
  BY <1>1 DEF CaptureDataset!Init, Verifies, Readable
<1> QED
  BY <1>3, <1>4, <1>5, <1>6 DEF CaptureInv

LEMMA CaptureNextStep ==
  ASSUME CaptureInv, CaptureNext
  PROVE  CaptureInv' /\ DatasetStep
<1>0. CaptureTypes
  BY DEF CaptureInv
<1>1. unseen \subseteq Seen /\ followers \subseteq Seen /\ pending \in Seq(Seen)
  BY <1>0 DEF CaptureTypes
<1>2. ASSUME NEW r \in Record, Looping, Recorded(r) \/ Limited(r) \/ Refused(r),
             unseen' \subseteq Seen, followers' \subseteq Seen, pending' \in Seq(Seen)
      PROVE  CaptureInv' /\ DatasetStep
  <2>1. CASE Limited(r)
    <3>1. /\ recorder' = [recorder EXCEPT !.at = "flush"] /\ command' = command /\ command.at = "loop"
          /\ buffer' = buffer /\ output' = output /\ ioFaults' = ioFaults /\ recorder.at = "open"
      BY <1>2, <2>1 DEF Limited, Looping
    <3> QED
      BY <1>0, <1>2, <3>1, QuietStep DEF CaptureTypes
  <2> QED
    BY <1>2, <2>1, RecordedStep, RefusedStep
<1>3. ASSUME NEW l \in Seen, Receive(l)
      PROVE  CaptureInv' /\ DatasetStep
  <2>1. PICK r : r = [kind |-> "launch", of |-> l]
    OBVIOUS
  <2>2. r \in Record
    BY <2>1 DEF Record, Kind
  <2>3. /\ Looping /\ (Recorded(r) \/ Limited(r) \/ Refused(r))
        /\ unseen' \subseteq Seen /\ followers' \subseteq Seen /\ pending' \in Seq(Seen)
    BY <1>1, <1>3, <2>1 DEF Receive
  <2> QED
    BY <1>2, <2>2, <2>3
<1>4. ASSUME NEW l \in Seen, NEW kind \in FollowKind, Followed(l, kind)
      PROVE  CaptureInv' /\ DatasetStep
  <2>1. PICK r : r = [kind |-> kind, of |-> l]
    OBVIOUS
  <2>2. r \in Record
    BY <2>1 DEF Record, Kind, FollowKind
  <2>3. /\ Looping /\ (Recorded(r) \/ Limited(r) \/ Refused(r))
        /\ unseen' \subseteq Seen /\ followers' \subseteq Seen /\ pending' \in Seq(Seen)
    BY <1>1, <1>4, <2>1 DEF Followed
  <2> QED
    BY <1>2, <2>2, <2>3
<1>5. CASE FollowUp \/ TimePasses \/ Break \/ Shut \/ Finish
  <2>1. /\ unseen' = unseen /\ buffer' = buffer /\ output' = output /\ ioFaults' = ioFaults
        /\ recorder' = recorder \/ (recorder.at = "open" /\ recorder' = [recorder EXCEPT !.at = "flush"])
        /\ command.at \in {"loop", "shut", "finish"}
    BY <1>5 DEF FollowUp, TimePasses, Break, Shut, Finish, Looping, writeVars
  <2>2. followers' \subseteq Seen /\ pending' \in Seq(Seen)
    <3>1. pending # <<>> => Head(pending) \in Seen /\ Tail(pending) \in Seq(Seen)
      BY <1>1
    <3> QED
      BY <1>1, <1>5, <3>1 DEF FollowUp, TimePasses, Break, Shut, Finish
  <2>3. /\ command' \in CommandType /\ command'.result = command.result
        /\ command'.at \in {"loop", "shut", "finish"}
    BY <1>0, <1>5, <2>1 DEF FollowUp, TimePasses, Break, Shut, Finish, CaptureTypes, CommandType
  <2>4. PICK at : /\ recorder' = [recorder EXCEPT !.at = at]
                  /\ at = recorder.at \/ (recorder.at = "open" /\ at = "flush")
    <3>1. recorder = [recorder EXCEPT !.at = recorder.at]
      BY <1>0 DEF CaptureTypes
    <3> QED
      BY <2>1, <3>1
  <2> QED
    BY <1>1, <2>1, <2>2, <2>3, <2>4, QuietStep DEF CommandType
<1>6. CASE FinishStep
  BY <1>6, FinishFlushStep, FinishSyncStep, FinishManifestStep, FinishSealStep DEF FinishStep
<1> QED
  BY <1>3, <1>4, <1>5, <1>6, ReturnStep, PowerFailsStep DEF CaptureNext

LEMMA CaptureSteps == CaptureInv /\ [Next]_vars => CaptureInv' /\ DatasetStep
<1> SUFFICES ASSUME CaptureInv, [Next]_vars
             PROVE  CaptureInv' /\ DatasetStep
  OBVIOUS
<1>1. CASE Dataset(CaptureNext)
  BY <1>1, CaptureNextStep DEF Dataset
<1>2. CASE UNCHANGED captureVars
  <2>1. UNCHANGED <<command, unseen, pending, followers, recorder, buffer, output, ioFaults>>
    BY <1>2 DEF captureVars
  <2>2. CaptureInv'
    BY <2>1 DEF CaptureInv, CaptureTypes, RoomKept, Stored, ManifestLast, Ended
  <2>3. Published' = Published
    BY <2>1 DEF Published, Verifies
  <2> QED
    BY <2>1, <2>2, <2>3, StutterStep
<1> QED
  BY <1>1, <1>2 DEF Next, Feed, Flow, Index, vars

\* A capture is a dataset: whatever writes fail and whenever the power does, what verifies
\* is what was acknowledged, whole and in order, nothing is acknowledged after it was
\* published, and a command that ended well left it published for ever.
THEOREM CaptureIsDataset == Spec => IsDataset
<1>1. Init => CaptureInv /\ CaptureDataset!Init
  BY CaptureInitInv DEF Init
<1>2. CaptureInv /\ [Next]_vars => CaptureInv' /\ [CaptureDataset!Next]_(CaptureDataset!datasetVars)
  BY CaptureSteps DEF DatasetStep
<1> QED
  BY <1>1, <1>2, PTL DEF Spec, IsDataset, CaptureDataset!Spec
================================================================================
