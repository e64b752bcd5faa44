SPECIFICATION Spec
CONSTANTS
  MemberIds = {m1}
  BookIds <- MCBookIds
  CopyIds = {1, 2}
  LoanIds = {l1}
  BookOf <- MCBookOf
  LoanPeriod = 0
  TicksPerDay = 1
  FineCentsPerDay = 25
  DefaultPageSize = 1
  MaxPageSize = 2
  PageSizes <- MCPageSizes
  Tokens <- MCTokens
  MaxTime = 1
  None = None
INVARIANTS
  TypeOK
  CountsOfTheRequest
  OverdueNotMissed
