---------------------------- MODULE MCResearchDesk ----------------------------
(* Two launches; the position of one can be sold in halves. *)
EXTENDS ResearchDesk, TLC

CONSTANTS t1, t2

MCTokens == (t1 :> 2) @@ (t2 :> 1)
==============================================================================
