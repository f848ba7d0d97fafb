CONSTANTS
  Goroutines = {1, 2, 3}
  Ids = {"x", "y"}
  Files <- MCFiles
  MaxSignals = 2
SPECIFICATION FairSpec
INVARIANTS
  AddedOnce
  RegistrationsKept
  LoadedIsFirstValid
PROPERTIES
  RegistrationsReturn
