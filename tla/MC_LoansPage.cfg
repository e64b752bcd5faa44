SPECIFICATION Spec
CONSTANTS
  LoanIds <- MCLoanIds
  Filters = {"any", "outstanding"}
  PageSize = 2
  MaxCalls = 1
  None = None
  Failed = Failed
INVARIANTS
  TypeOK
  FilterIsLoaded
  ReturnedNotOffered
