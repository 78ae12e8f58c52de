SPECIFICATION ModalSpec
CONSTANTS
  Rows = {r1, r2}
  NoRow = NoRow
  Nestable = {r1, r2}
  Accessible = {r1, r2}
  AdminSets = {}
  WithItems = {}
  MaxPosts = 1
INVARIANT PostsForTheRowShown
