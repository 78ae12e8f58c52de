SPECIFICATION Spec
CONSTANTS
  w1 = w1
  w2 = w2
  Workers <- MCWorkers
  Users <- MDUsers
  Roles <- MDRoles
  Depositor = "depositor"
  UserRoles <- MDUserRoles
  States <- MDStates
  Actions <- MDActions
  DepositAction = "deposit"
  Resulting <- MDResulting
  Permissions <- MDPermissions
  Methods <- MDMethods
  FailingActions <- MCNoFailure
  OthersCanEdit = FALSE
  Serial = FALSE
  JobsInOrder = TRUE
  MaxJobs = 2
  NotLoaded = NotLoaded
SYMMETRY MCSymmetry
PROPERTY MovesByPermittedActions
