-------------------------------- MODULE Dataset --------------------------------
(***************************************************************************)
(* What a capture promises, whatever it is stored in (docs/COMMANDS.md,    *)
(* docs/ARCHITECTURE.md): records are acknowledged one after the other and *)
(* published together, once; nothing is acknowledged after that, and a     *)
(* capture that has ended well stays published.                            *)
(***************************************************************************)
EXTENDS Sequences

CONSTANT Item  \* records

VARIABLES
  run,        \* the records acknowledged
  published,  \* the runs a reader is given: none, or one
  status,     \* of the command
  broken      \* a write has failed or the machine has stopped

datasetVars == <<run, published, status, broken>>

Init == run = <<>> /\ published = {} /\ status = "open" /\ broken = FALSE

Acknowledge ==
  /\ status = "open" /\ published = {}
  /\ \E r \in Item : run' = Append(run, r)
  /\ UNCHANGED <<published, status, broken>>

Publish ==
  /\ published = {} /\ published' = {run}
  /\ UNCHANGED <<run, status, broken>>

EndWell ==
  /\ status = "open" /\ published # {}
  /\ status' = "well"
  /\ UNCHANGED <<run, published, broken>>

EndBadly == broken' /\ status = "open" /\ status' = "badly" /\ UNCHANGED <<run, published>>

\* What was published may be lost, but not once the command has ended well.
Break ==
  /\ broken' /\ UNCHANGED <<run, status>>
  /\ published' = published \/ (status # "well" /\ published' = {})

Next == Acknowledge \/ Publish \/ EndWell \/ EndBadly \/ Break

Spec == Init /\ [][Next]_datasetVars
================================================================================
