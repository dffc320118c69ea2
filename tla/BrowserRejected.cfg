CONSTANTS
 None = None
 k = k
 l = l
 i = i
 j = j
 Requests <- OneConfirmation
 MaxAttempts = 2
 MaxEpochs = 0
SPECIFICATION Spec
INVARIANTS RejectedDidNotApply
CHECK_DEADLOCK FALSE
