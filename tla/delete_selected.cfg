SPECIFICATION SelectSpec
CONSTANTS
  Docs = {d1, d2}
INVARIANT OnlySelectedAreDeleted
