SPECIFICATION FairSpec
CONSTANTS
  RowIds <- MCRowIds
  PageSizes <- MCPageSizes
  DefaultPageSize = 1
  MaxPageSize = 2
  MaxChanges = 4
  None = None
INVARIANTS
  TypeOK
  SkippedOnlyForLeavers
  RepeatsOnlyForArrivals
PROPERTIES
  WalkEnds
