SPECIFICATION PagesSpec
CONSTANTS
  a = a
  b = b
  c = c
  d = d
  Forms = {a, b, c}
  Matching = {a, b}
  BoundTwice = {c}
  WithEquals = {b}
  MaxSaves = 2
  Docs = {a, b, c}
  Rows = {a, b, c}
  NoRow = NoRow
  Nestable = {a, c}
  Accessible = {a, b}
  AdminSets = {b}
  WithItems = {b}
  MaxPosts = 2
  Works = {a, b, c}
  NoWork = NoWork
  DefaultOrder = 3
  MaxAsked = 1
  MaxLost = 1
  UserWorks = {a, b, c}
  NoStar = NoStar
  TrophyLimit = 2
  MaxPresses = 2
  Links = {a, b}
  MaxRequests = 2
  Users = {a, d}
  Grantor = d
  MaxAdds = 2
  Tabs = {a, b, c, d}
  NoTab = NoTab
  FirstTab = a
  Tracked = {a, b, d}
  ResetsOf <- MCResetsOf
  Names = {a, b}
  Blank = Blank
  Existing = {a}
  MaxCalls = 2
  Contents = {a, b}
  NoContent = NoContent
  Findable = {a, b}
  Titled = {a}
  MaxIndex = 3
  Files = {a, b, c}
  Windows = {a, b}
  Sections = {a, b}
  KeptOf = {a, b}
  FeatureLimit = 2
  MaxFeatCalls = 3
INVARIANTS
  PagesTypeOK
  OneRequestInFlight
  SavedIsStored
  DisabledFormsWait
  OnlyAbandonedBesidesSelected
  PostsPassTheirGuard
  ListFollowsFeatured
  StarsFollowTrophies
  TableFollowsLinks
  RowsAreProxies
  UnsavedEditsAreInSight
  NoSilentDuplicate
  NoUploadIsLost
  KeptFollowsMenu
  LinksFollowRows
PROPERTIES
  QueueDrains
  SavedOrderIsShown
  FormIsRowList
CHECK_DEADLOCK FALSE
