SPECIFICATION Spec
CONSTANTS
  Workers = {w1, w2}
  MemberIds = {m1}
  Emails = {e1}
  BookIds = {b1}
  CopyIds = {1}
  LoanIds = {l1}
  BookOf <- MCBookOf
  LoanPeriod = 1
  TicksPerDay = 2
  FineCentsPerDay = 25
  MaxTime = 0
  None = None
SYMMETRY Symmetry
PROPERTIES
  LoanOnlyToActive
