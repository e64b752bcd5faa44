SPECIFICATION FairSpec
CONSTANTS
  Seeders = {"boot", "make"}
  Copies <- MCCopies
  MaxAttempts = 2
  MaxCorrected = 1
  Labels <- MCLabels
INVARIANTS
  TypeOK
  ServesMigrated
  SeedIsWhole
PROPERTIES
  StartEnds
