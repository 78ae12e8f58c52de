SPECIFICATION TransferSpec
CONSTANTS
  a = a
  b = b
  c = c
  w1 = w1
  w2 = w2
  NoUser = NoUser
  Users <- MCUsers
  Workers <- MCTwoWorkers
  MaxRequests = 2
  MaxTransfers = 2
SYMMETRY MCSymmetry
INVARIANTS
  FilesFollowWork
  AccessFollowsDepositor
  LastToAcceptOwns
  StreamNamesTransfers
PROPERTIES
  DuplicatesNeverClose
\* The bound on requests ends the run.
CHECK_DEADLOCK FALSE
