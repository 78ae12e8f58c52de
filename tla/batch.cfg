SPECIFICATION Spec
CONSTANTS
  NumUploads <- MCNumUploads
  MayDiscard = TRUE
INVARIANTS
  FinalStatusIsRollup
  NoFalseFailure
  AnnouncedVerdictStands
PROPERTIES
  BatchConcludes
\* The system ends when every job has been run.
CHECK_DEADLOCK FALSE
