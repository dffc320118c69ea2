CONSTANTS
 None = None
 k = k
 l = l
 i = i
 j = j
 Requests <- Policies
 MaxAttempts = 2
 MaxEpochs = 1
SPECIFICATION FairSpec
INVARIANTS UnreportedWorkIsKept AtMostOnce
PROPERTIES NeverReopened PendingReports
CHECK_DEADLOCK FALSE
