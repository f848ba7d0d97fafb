CONSTANTS
  logo = logo
  song = song
  c1 = c1
  c2 = c2
  c3 = c3
  NoCall = NoCall
  Keys = {logo, song}
  Calls = {c1, c2}
  Limits = {0, 1}
  Operations = {"GET", "POST", "PUT"}
  Lifespans = {1, 2}
  MaxTime = 3
  MaxFaults = 1
SPECIFICATION Spec
CHECK_DEADLOCK FALSE
INVARIANTS
  TypeOK
  ItemsBounded
PROPERTIES
  ReplacedOnlyInRace
  RemovedWhenDue
  EveryCallReturns
