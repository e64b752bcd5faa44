SPECIFICATION Spec
CONSTANTS
  Workers = {w1, w2, w3}
  MemberIds = {m1}
  Emails = {e1}
  BookIds = {b1}
  CopyIds = {1}
  LoanIds = {l1, l2}
  BookOf <- MCBookOf
  LoanPeriod = 0
  TicksPerDay = 2
  FineCentsPerDay = 25
  MaxTime = 2
  None = None
SYMMETRY Symmetry
INVARIANTS
  TypeOK
  OpenLoanIsOnLoan
  LoanPeriodsDisjoint
  BackstopUnused
  SuspendedRefused
  FinesSettled
  OnlyExchangesDeadlock
PROPERTIES
  ClosedLoansFinal
  OrphansAreMadeByHand
  Serial
