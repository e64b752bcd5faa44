SPECIFICATION Spec
CONSTANTS
  BookIds <- MCBookIds
  MaxCopies = 1
  PageSize = 2
  MaxCalls = 1
  MaxMounts = 2
  None = None
  Failed = Failed
INVARIANTS
  TypeOK
  CreatedIsShown
