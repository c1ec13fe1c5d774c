SPECIFICATION FairSpec
CONSTANTS
  Task = {t1, t2, t3}
  NoDeadline = NoDeadline
  Request <- LiveRequests
  MaxDeferral = 1
  MaxTime = 1
  MaxAcquire = 3
CHECK_DEADLOCK FALSE
INVARIANTS TypeOK SingleOwner QueueMatchesTasks EmergencyNotStranded
PROPERTIES EmergencyNotOvertaken EmergencyServed DeadlineEntryResolves
