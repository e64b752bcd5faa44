SPECIFICATION FairSpec
CONSTANTS
  Workers = {w1, w2}
  Ids = {1, 2}
  Keys = {k1, k2}
  Data = {d1, d2}
  Barcodes = {b1}
  None = None
INVARIANTS
  TypeOK
  KeysUnique
  OnlyExchangesDeadlock
PROPERTIES
  OthersChangesKept
  AlreadyExistsIsTrue
  Directory
  EveryRequestAnswered
