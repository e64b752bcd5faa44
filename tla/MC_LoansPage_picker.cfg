SPECIFICATION Spec
CONSTANTS
  LoanIds <- MCThreeLoans
  Filters = {"any", "outstanding"}
  PageSize = 2
  MaxCalls = 1
  None = None
  Failed = Failed
PROPERTY
  PickerHasEveryOpenLoan
