SPECIFICATION Spec
CONSTANTS
  NumUploads <- MCNumUploads
  MayDiscard = FALSE
INVARIANT NoEarlyVerdict
CHECK_DEADLOCK FALSE
