SPECIFICATION CirculationSpec
CONSTANTS
  Workers = {w1, w2}
  MemberIds = {m1}
  Emails = {e1}
  BookIds <- MCBookIds
  CopyIds = {1}
  LoanIds = {l1}
  BookOf <- MCBookOf
  LoanPeriod = 0
  TicksPerDay = 1
  FineCentsPerDay = 25
  MaxTime = 0
  DefaultPageSize = 1
  MaxPageSize = 1
  PageSizes <- MCPageSizes
  Tokens <- MCTokens
  None = None
SYMMETRY Symmetry
PROPERTIES
  ReadersSeeTheService
