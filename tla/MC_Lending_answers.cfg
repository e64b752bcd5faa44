SPECIFICATION FairSpec
CONSTANTS
  Workers = {w1, w2}
  MemberIds = {m1, m2}
  Emails = {e1, e2}
  BookIds = {b1}
  CopyIds = {1}
  LoanIds = {l1}
  BookOf <- MCBookOf
  LoanPeriod = 0
  TicksPerDay = 2
  FineCentsPerDay = 25
  MaxTime = 0
  None = None
INVARIANTS
  OnlyExchangesDeadlock
PROPERTIES
  EveryRequestAnswered
