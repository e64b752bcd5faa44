SPECIFICATION Spec
CONSTANTS
  Seeders = {"boot", "make"}
  Copies <- MCCopies
  MaxAttempts = 2
  MaxCorrected = 1
  Labels <- NoLabels
PROPERTY
  SafeToRerun
