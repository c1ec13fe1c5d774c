------------------------------ MODULE FlowTracker ------------------------------
(***************************************************************************)
(* pons/stream.rs FlowTracker and sync_flow of run.rs, for one curve.  The *)
(* tracker keeps the curve's logs by (transaction, log index), the next    *)
(* block to read and an anchor: the hash of the last block read.  A sync   *)
(* checks the anchor, reads the head, the logs and the head's hash, each   *)
(* an await of its own, and applies them; a reorg may fall between any two.*)
(***************************************************************************)
EXTENDS CanonChain

CONSTANTS
  Launch,    \* the curve's TokenLaunched
  CurveLog   \* the curve's own logs

ASSUME CurveAssumption == CurveLog \subseteq Event \ {Launch} /\ Launch \in Event

VARIABLES
  flow,    \* the curve's CurveFlow
  sync,    \* sync_flow: where it is, and its locals
  born,    \* history: the numbers of the blocks the launch was ever in
  torn     \* history: a sync was applied that a reorg had fallen into, or the
           \* launch was watched again at another block

flowVars == <<flow, sync, born, torn>>

NoPlan == [at |-> "rest", origin |-> 0, from |-> 0, head |-> 0, logs |-> {}, since |-> 0]
Unwatched == [watched |-> FALSE, origin |-> 0, next |-> 0, anchor |-> NoHash, events |-> {}]

BlockHash == (1 .. MaxHeight) \X (0 .. MaxForks)

FlowTypeOK ==
  /\ flow \in [watched : BOOLEAN, origin : 0 .. MaxHeight, next : 0 .. MaxHeight + 1,
               anchor : BlockHash \cup {NoHash}, events : SUBSET (CurveLog \X BlockHash)]
  /\ sync.at \in {"rest", "anchor", "head", "logs", "hash"}
  /\ sync.logs \subseteq CurveLog \X BlockHash
  /\ \A a, b \in flow.events : a[1] = b[1] => a = b
  /\ torn \in BOOLEAN

FlowInit == flow = Unwatched /\ sync = NoPlan /\ born = {} /\ torn = FALSE

-----------------------------------------------------------------------------
(* The tracker *)

\* `watch`: of an entry task, of the startup, and again for a launch dispatched again.
Watch(origin) ==
  /\ flow' = [flow EXCEPT !.watched = TRUE, !.origin = origin,
                          !.next = IF @ = 0 THEN origin ELSE @]
  /\ torn' = (torn \/ (flow.watched /\ origin # flow.origin))
  /\ UNCHANGED <<sync, born, chainVars>>

Unwatch ==
  /\ flow.watched
  /\ flow' = Unwatched
  /\ torn' = FALSE
  /\ UNCHANGED <<sync, born, chainVars>>

Before(events, block) == {x \in events : x[2][1] < block}

\* Mutant: the logs read stay, only the cursor goes back.
RewoundKeeping(origin) ==
  [flow EXCEPT !.next = IF origin > flow.origin THEN origin ELSE flow.origin, !.anchor = NoHash]

Rewound(origin) ==
  [flow EXCEPT !.events = Before(@, origin), !.anchor = NoHash,
               !.next = IF origin > flow.origin THEN origin ELSE flow.origin]

\* `ingest`: a log takes the place of the one that had its identity.
Ingested(logs) == {x \in flow.events : \A y \in logs : x[1] # y[1]} \cup logs

\* Mutant: the cursor moves past the block after the head.
AppliedPast(logs, head, hash) ==
  [flow EXCEPT !.events = Ingested(logs), !.anchor = hash,
               !.next = IF head + 2 > @ THEN head + 2 ELSE @]

Applied(logs, head, hash) ==
  [flow EXCEPT !.events = Ingested(logs), !.anchor = hash,
               !.next = IF head + 1 > @ THEN head + 1 ELSE @]

-----------------------------------------------------------------------------
(* sync_flow *)

SyncStart ==
  /\ flow.watched /\ sync.at = "rest"
  /\ sync' = [NoPlan EXCEPT !.origin = flow.origin, !.from = flow.next, !.since = forks,
                            !.at = IF flow.anchor = NoHash THEN "head" ELSE "anchor"]
  /\ UNCHANGED <<flow, born, torn, chainVars>>

\* The anchor's block is read: an error if it is gone, a rewind if it changed.
SyncAnchor ==
  /\ sync.at = "anchor" /\ flow.watched
  /\ \/ /\ flow.anchor[1] > Tip
        /\ sync' = NoPlan /\ UNCHANGED <<flow, torn>>
     \/ /\ Canonical(flow.anchor)
        /\ sync' = [sync EXCEPT !.at = "head", !.since = forks] /\ UNCHANGED <<flow, torn>>
     \/ /\ flow.anchor[1] <= Tip /\ ~ Canonical(flow.anchor)
        /\ flow' = Rewound(sync.origin)
        /\ torn' = (sync.origin # flow.origin)
        /\ sync' = [sync EXCEPT !.at = "head", !.since = forks,
                                !.origin = flow.origin, !.from = flow'.next]
  /\ UNCHANGED <<born, chainVars>>

\* Behind the origin is an error; nothing new is an answer.
SyncHead ==
  /\ sync.at = "head"
  /\ sync' = IF Tip < sync.origin \/ Tip < sync.from THEN NoPlan
             ELSE [sync EXCEPT !.at = "logs", !.head = Tip]
  /\ UNCHANGED <<flow, born, torn, chainVars>>

SyncLogs ==
  /\ sync.at = "logs"
  /\ sync' = [sync EXCEPT !.at = "hash",
       !.logs = {<<e, Hash(BlockOf(e))>> : e \in LogsIn(sync.from, sync.head) \cap CurveLog}]
  /\ UNCHANGED <<flow, born, torn, chainVars>>

\* The head's hash is read and the range applied: a gap is an error.
SyncApply ==
  /\ sync.at = "hash"
  /\ sync' = NoPlan
  /\ IF flow.watched /\ sync.head <= Tip /\ sync.from <= flow.next
     THEN /\ flow' = Applied(sync.logs, sync.head, Hash(sync.head))
          /\ torn' = (torn \/ sync.since # forks)
     ELSE UNCHANGED <<flow, torn>>
  /\ UNCHANGED <<born, chainVars>>

\* The curve was unwatched meanwhile, a call fails, or the entry's deadline passes.
SyncAborts ==
  /\ sync.at # "rest"
  /\ IF sync.at = "anchor" /\ ~ flow.watched THEN UNCHANGED chainVars ELSE CallFails
  /\ sync' = NoPlan
  /\ UNCHANGED <<flow, born, torn>>

-----------------------------------------------------------------------------
\* The curve's logs come with its launch or after it.
FlowExtended(logs) ==
  /\ Launch \in Mined \cup logs \/ logs = {}
  /\ Extend(logs)
  /\ born' = IF Launch \in logs THEN born \cup {Tip + 1} ELSE born
  /\ UNCHANGED <<flow, sync, torn>>

FlowReorganised(keep) == Reorg(keep) /\ UNCHANGED flowVars

SyncStep == SyncStart \/ SyncAnchor \/ SyncHead \/ SyncLogs \/ SyncApply \/ SyncAborts

FlowNext ==
  \/ \E logs \in SUBSET (CurveLog \cup {Launch}) : FlowExtended(logs)
  \/ \E keep \in 1 .. Tip - 1 : FlowReorganised(keep)
  \/ \E origin \in born : Watch(origin)
  \/ Unwatch
  \/ SyncStep

-----------------------------------------------------------------------------
(* Properties *)

CurveLogs(from, to) == {<<e, Hash(BlockOf(e))>> : e \in LogsIn(from, to) \cap CurveLog}
Kept == {x \in flow.events : x[2][1] >= flow.origin}

\* docs/ARCHITECTURE.md: "a changed block-hash anchor rewinds and rebuilds from the
\* launch block".  While the anchor is canonical, what the tracker holds from the
\* launch block on is what the chain holds up to the anchor.
FlowCanonical ==
  flow.anchor # NoHash /\ Canonical(flow.anchor) =>
    Kept = CurveLogs(flow.origin, flow.anchor[1])

\* It does, unless a reorg fell between the check of the anchor and the read of the
\* head's hash in a sync that was applied, or the launch moved while it was watched.
FlowCanonicalUnlessTorn == ~ torn => FlowCanonical

\* A log of a watched curve is read in the end.
FlowCatchesUp ==
  \A e \in CurveLog :
    (flow.watched /\ e \in Mined)
      ~> (~ flow.watched \/ e \notin Mined \/ torn \/ \E x \in flow.events : x[1] = e)
==============================================================================
