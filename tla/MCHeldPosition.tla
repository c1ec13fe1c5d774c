---------------------------- MODULE MCHeldPosition ----------------------------
(* A curve of 240 tokens, 180 of them for sale. *)
EXTENDS HeldPosition

MCCurve == [quote_reserve |-> 120, real_quote_reserve |-> 0, token_reserve |-> 240, sellable |-> 180]

MCRungs == <<<<50, 20>>, <<50, 60>>>>

\* What the theorem on the minimum asks of the constants holds of these.
ASSUME MCRoundings == TaxedAlike /\ SlippageCovers
===============================================================================
