SPECIFICATION Spec
CONSTANTS
  j1 = j1
  j2 = j2
  f1 = f1
  f2 = f2
  f3 = f3
  NoOne = NoOne
  NoFileSet = NoFileSet
  Jobs = {j1, j2}
  Files = {f1, f2, f3}
  FilesOf <- MCFilesOf
  MaxCrashes = 2
  MayExpire = FALSE
INVARIANTS
  OneMutatorAtATime
  MembersAreReady
  RepresentativeIsMember
  NoFileAttachedTwice
  NothingElseLosesUploads
PROPERTIES
  UploadsConclude
\* The system ends when every job is done.
CHECK_DEADLOCK FALSE
