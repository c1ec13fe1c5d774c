------------------------------ MODULE MCObservers ------------------------------
(* A line of the capture for a launch, its flow, or a flow that is missing. *)
EXTENDS Observers

MCSize == [kind \in Kind |-> CASE kind = "launch" -> 2 [] kind = "flow" -> 3 [] OTHER -> 1]
================================================================================
