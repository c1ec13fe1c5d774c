------------------------------- MODULE Observers -------------------------------
(***************************************************************************)
(* The observers of the chain: the launch feed, the flow tracker, the      *)
(* deployer index and the capture of a dataset.  They share the chain and  *)
(* nothing else, and none changes it, so every behaviour of one is a       *)
(* behaviour of it alone: the first state chooses the observer, and the    *)
(* chain mines the logs it reads.                                          *)
(***************************************************************************)
EXTENDS LaunchFeed, FlowTracker, DeployerIndex, Capture

VARIABLE observer

vars == <<observer, chainVars, feedVars, flowVars, indexVars, captureVars>>

Init ==
  /\ observer \in {"feed", "flow", "index", "capture"}
  /\ ChainInit /\ FeedInit /\ FlowInit /\ IndexInit /\ CaptureInit

Feed(step) == observer = "feed" /\ step /\ UNCHANGED <<observer, flowVars, indexVars, captureVars>>
Flow(step) == observer = "flow" /\ step /\ UNCHANGED <<observer, feedVars, indexVars, captureVars>>
Index(step) == observer = "index" /\ step /\ UNCHANGED <<observer, feedVars, flowVars, captureVars>>
Dataset(step) == observer = "capture" /\ step /\ UNCHANGED <<observer, chainVars, feedVars, flowVars, indexVars>>

Next == Feed(FeedNext) \/ Flow(FlowNext) \/ Index(IndexNext) \/ Dataset(CaptureNext)

Spec == Init /\ [][Next]_vars

\* The poller goes on for ever, the RPC answers it again and again, and the engine
\* takes what is dispatched; the manage loop syncs a watched curve again and again,
\* and its calls fail MaxFailures times at most.
Fairness ==
  /\ WF_vars(Feed(PollStep("poller")))
  /\ SF_vars(Feed(PollHead("poller")))
  /\ SF_vars(Feed(PollLogs("poller")))
  /\ WF_vars(Feed(PollDispatch("watchdog")))
  /\ WF_vars(Flow(SyncStep))

FairSpec == Spec /\ Fairness

-----------------------------------------------------------------------------
TypeOK == FeedTypeOK /\ FlowTypeOK /\ IndexTypeOK /\ CaptureTypeOK

\* launches.rs: until a reorg, every launch from the first block scanned up to the
\* poller's cursor is dispatched or about to be, but for the blocks that a scan
\* without a cursor jumped.
NothingMissed == ScannedIsSent /\ HolesAreJumps
==============================================================================
