SPECIFICATION Spec
CONSTANTS
  w1 = w1
  w2 = w2
  Workers <- MCWorkers
  Users <- MDUsers
  Roles <- MDRoles
  Depositor = "depositor"
  UserRoles <- MDUserRoles
  States <- MDStates
  Actions <- MDActions
  DepositAction = "deposit"
  Resulting <- MDResulting
  Permissions <- MDPermissions
  Methods <- MDMethods
  FailingActions <- MCReviewFailures
  OthersCanEdit = TRUE
  Serial = FALSE
  JobsInOrder = TRUE
  MaxJobs = 1
  NotLoaded = NotLoaded
SYMMETRY MCSymmetry
INVARIANT NullStateIsTransient
PROPERTY OnlyApprovalPublishes
