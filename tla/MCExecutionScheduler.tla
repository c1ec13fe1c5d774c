------------------------ MODULE MCExecutionScheduler ------------------------
EXTENDS ExecutionScheduler, TLC

\* Manual close or risk exit, routine exit, live entry with a dispatch instant.
LiveRequests ==
  {[class |-> Emergency, deadline |-> NoDeadline],
   [class |-> RoutineExit, deadline |-> NoDeadline],
   [class |-> DeadlineEntry, deadline |-> 1]}

\* A research session acquires its entries without a deadline.
ResearchRequests ==
  {[class |-> RoutineExit, deadline |-> NoDeadline],
   [class |-> DeadlineEntry, deadline |-> NoDeadline]}
=============================================================================
