------------------------------ MODULE LaunchFeed ------------------------------
(***************************************************************************)
(* pons/launches.rs: how a launch reaches the engine.  Three tasks share   *)
(* an LRU of seen logs and two cursors: the poller, which owns `scan_to`,  *)
(* the websocket task, which races a stream per endpoint, and the watchdog *)
(* that polls when the websocket has been quiet.  Both pollers read the    *)
(* head, then the logs, and move `scan_to` before they dispatch.           *)
(***************************************************************************)
EXTENDS CanonChain, SequencesExt

CONSTANTS
  FeedLaunch,     \* the TokenLaunched logs
  Url,            \* websocket endpoints; {} for polling only
  PollSpan,       \* poll_once reads at most 1 + PollSpan blocks (2 000)
  SeenCapacity    \* of the LRU (20 000)

ASSUME FeedAssumption ==
  /\ FeedLaunch \subseteq Event /\ IsFiniteSet(Url)
  /\ PollSpan \in Nat /\ SeenCapacity \in Nat \ {0}

Scanner == {"poller", "watchdog"}

VARIABLES
  seen,        \* the LRU, least recent first
  last_block,  \* highest block an event was dispatched at
  scan_to,     \* highest block the poller has scanned
  open,        \* endpoints with a live subscription
  stream,      \* per endpoint: the notifications on their way
  scan,        \* per scanner: where it is in poll_once, and its locals
  sent,        \* history: how often a launch was sent to the engine
  scanned,     \* history: the canonical blocks a scan has read
  skipped      \* history: blocks a scan without a cursor moved scan_to past

feedVars == <<seen, last_block, scan_to, open, stream, scan, sent, scanned, skipped>>

Resting == [at |-> "rest", cursor |-> 0, from |-> 0, to |-> 0, found |-> {}]

FeedTypeOK ==
  /\ seen \in Seq(FeedLaunch) /\ Len(seen) <= SeenCapacity /\ IsInjective(seen)
  /\ last_block \in Nat /\ scan_to \in Nat
  /\ open \subseteq Url /\ DOMAIN stream = Url
  /\ \A u \in Url \ open : stream[u] = <<>>
  /\ scan \in [Scanner -> [at : {"rest", "head", "logs", "dispatch"}, cursor : Nat,
                           from : Nat, to : Nat, found : SUBSET (FeedLaunch \X Nat)]]
  /\ sent \in [FeedLaunch -> Nat]

FeedInit ==
  /\ seen = <<>> /\ last_block = 0 /\ scan_to = 0
  /\ open = {} /\ stream = [u \in Url |-> <<>>]
  /\ scan = [s \in Scanner |-> Resting]
  /\ sent = [e \in FeedLaunch |-> 0]
  /\ scanned = {} /\ skipped = {}

Larger(a, b) == IF a > b THEN a ELSE b

-----------------------------------------------------------------------------
(* dispatch: one lock around the LRU, then the send *)

Known(e) == \E i \in DOMAIN seen : seen[i] = e

\* Mutant: the log is looked up in the LRU and not put into it.
PutNothing(e) ==
  /\ sent' = [sent EXCEPT ![e] = @ + (IF Known(e) THEN 0 ELSE 1)]
  /\ UNCHANGED seen

\* LruCache::put makes the key the most recent one and evicts the least recent.
Put(e) ==
  LET fresh == Append(RemoveFirst(seen, e), e)
  IN  /\ sent' = [sent EXCEPT ![e] = @ + (IF Known(e) THEN 0 ELSE 1)]
      /\ seen' = IF Len(fresh) > SeenCapacity THEN Tail(fresh) ELSE fresh

Dispatch(e, block) ==
  /\ Put(e)
  /\ last_block' = IF Known(e) THEN last_block ELSE Larger(last_block, block)

\* A removed log is forgotten, and nothing is sent.
Forget(e) ==
  /\ seen' = RemoveFirst(seen, e)
  /\ UNCHANGED <<sent, last_block>>

-----------------------------------------------------------------------------
(* The websocket task: raced_subscribe *)

Notify(note) ==
  /\ stream' = [u \in Url |-> IF u \in open THEN stream[u] \o note ELSE <<>>]
  /\ UNCHANGED open

\* The chain, and what the open streams are told of it.
Extended(logs) ==
  /\ Extend(logs)
  /\ Notify(SetToSeq({[log |-> e, block |-> Tip + 1, removed |-> FALSE] : e \in logs}))
  /\ UNCHANGED <<seen, last_block, scan_to, scan, sent, scanned, skipped>>

Reorganised(keep) ==
  /\ Reorg(keep)
  /\ Notify(SetToSeq({[log |-> e, block |-> BlockOf(e), removed |-> TRUE] : e \in LogsIn(keep + 1, Tip)}))
  /\ scanned' = scanned \cap 1 .. keep /\ skipped' = {}
  /\ UNCHANGED <<seen, last_block, scan_to, scan, sent>>

\* All streams have ended: subscribe again; an endpoint that fails is left out.
Subscribe(urls) ==
  /\ open = {} /\ urls # {}
  /\ open' = urls
  /\ UNCHANGED <<seen, last_block, scan_to, stream, scan, sent, scanned, skipped, chainVars>>

StreamEnds(u) ==
  /\ u \in open
  /\ open' = open \ {u} /\ stream' = [stream EXCEPT ![u] = <<>>]
  /\ UNCHANGED <<seen, last_block, scan_to, scan, sent, scanned, skipped, chainVars>>

WsItem(u) ==
  /\ stream[u] # <<>>
  /\ LET note == Head(stream[u])
     IN  IF note.removed THEN Forget(note.log) ELSE Dispatch(note.log, note.block)
  /\ stream' = [stream EXCEPT ![u] = Tail(@)]
  /\ UNCHANGED <<scan_to, open, scan, scanned, skipped, chainVars>>

-----------------------------------------------------------------------------
(* poll_once, in the poller and in the watchdog *)

\* The cursor: the poller's is scan_to; the watchdog's the smaller of the two,
\* once the websocket has been quiet for QUIET_MS.
PollStart(s) ==
  /\ scan[s].at = "rest" /\ (s = "watchdog" => Url # {})
  /\ scan' = [scan EXCEPT ![s] =
       [Resting EXCEPT !.at = "head",
          !.cursor = IF s = "poller" THEN scan_to ELSE Min({last_block, scan_to})]]
  /\ UNCHANGED <<seen, last_block, scan_to, open, stream, sent, scanned, skipped, chainVars>>

\* The head is read, and the range made of it.
PollHead(s) ==
  LET from == IF scan[s].cursor = 0 THEN Tip - 1 ELSE scan[s].cursor + 1
  IN  /\ scan[s].at = "head"
      /\ scan' = [scan EXCEPT ![s].at = "logs", ![s].from = from,
                    ![s].to = IF Tip - from > PollSpan THEN from + PollSpan ELSE Tip]
      /\ UNCHANGED <<seen, last_block, scan_to, open, stream, sent, scanned, skipped, chainVars>>

Span(s) == scan[s].from .. scan[s].to

\* The poller stores over the cursor it started from; the watchdog raises it.
Store(s) ==
  scan_to' = Larger(scan[s].to, IF s = "poller" THEN scan[s].cursor ELSE scan_to)

\* Mutant: the last block of the range is left out.
FoundShort(s) == {<<e, BlockOf(e)>> : e \in LogsIn(scan[s].from, scan[s].to - 1) \cap FeedLaunch}

Found(s) == {<<e, BlockOf(e)>> : e \in LogsIn(scan[s].from, scan[s].to) \cap FeedLaunch}

\* The logs are read, of what the chain is now; scan_to moves first.
PollLogs(s) ==
  /\ scan[s].at = "logs"
  /\ Store(s)
  /\ scan' = [scan EXCEPT ![s] =
       [Resting EXCEPT !.found = Found(s), !.at = IF Found(s) = {} THEN "rest" ELSE "dispatch"]]
  /\ scanned' = scanned \cup (Span(s) \cap 1 .. Tip)
  /\ skipped' = skipped \cup (IF scan[s].cursor = 0 /\ forks = 0 THEN scan_to + 1 .. scan[s].from - 1 ELSE {})
  /\ UNCHANGED <<seen, last_block, open, stream, sent, chainVars>>

PollFails(s) ==
  /\ scan[s].at \in {"head", "logs"}
  /\ scan' = [scan EXCEPT ![s] = Resting]
  /\ UNCHANGED <<seen, last_block, scan_to, open, stream, sent, scanned, skipped, chainVars>>

\* The launches that were found, in the order of their blocks.
PollDispatch(s) ==
  /\ scan[s].at = "dispatch"
  /\ \E f \in scan[s].found :
       /\ \A g \in scan[s].found : f[2] <= g[2]
       /\ Dispatch(f[1], f[2])
       /\ scan' = [scan EXCEPT ![s] =
            IF scan[s].found = {f} THEN Resting ELSE [scan[s] EXCEPT !.found = @ \ {f}]]
  /\ UNCHANGED <<scan_to, open, stream, scanned, skipped, chainVars>>

-----------------------------------------------------------------------------
PollStep(s) == PollStart(s) \/ PollHead(s) \/ PollLogs(s) \/ PollDispatch(s)

FeedNext ==
  \/ \E logs \in SUBSET FeedLaunch : Extended(logs)
  \/ \E keep \in 1 .. Tip - 1 : Reorganised(keep)
  \/ \E urls \in SUBSET Url : Subscribe(urls)
  \/ \E u \in Url : StreamEnds(u) \/ WsItem(u)
  \/ \E s \in Scanner : PollStep(s) \/ PollFails(s)

-----------------------------------------------------------------------------
(* Properties *)

\* However the poller, the watchdog and the raced streams interleave, a launch is
\* sent once, and after a reorg once more for each endpoint that reports it removed.
SentOncePerSighting ==
  Cardinality(FeedLaunch) <= SeenCapacity =>
    \A e \in FeedLaunch : sent[e] <= 1 + forks * Cardinality(Url)

\* Every launch of a scanned block is sent, or about to be.
ScannedIsSent ==
  \A e \in Mined :
    BlockOf(e) \in scanned =>
      sent[e] > 0 \/ \E s \in Scanner : <<e, BlockOf(e)>> \in scan[s].found

Begun(b) == \E x \in scanned : x <= b

\* launches.rs: the poller advances scan_to "so coverage never leaves a hole behind it":
\* every block up to scan_to, from the first one scanned, was read.
NoHoleBehind ==
  \A b \in 1 .. Tip : b <= scan_to /\ Begun(b) => b \in scanned

\* Until a reorg, only a scan without a cursor, which begins at the head, leaves a
\* hole: where none has jumped, every block up to scan_to was read.
HolesAreJumps ==
  forks = 0 => \A b \in 1 .. Tip : b <= scan_to /\ Begun(b) /\ b \notin skipped => b \in scanned

\* A launch mined after the feed began is sent to the engine in the end, unless a
\* reorg or a scan without a cursor came in between.
Excused(e) == forks > 0 \/ BlockOf(e) \in skipped \/ (scanned # {} /\ ~ Begun(BlockOf(e)))

LaunchArrives ==
  \A e \in FeedLaunch : (e \in Mined) ~> (sent[e] > 0 \/ e \notin Mined \/ Excused(e))
==============================================================================
