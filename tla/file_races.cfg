CONSTANTS
  logo = logo
  song = song
  clip = clip
  c1 = c1
  c2 = c2
  c3 = c3
  NoCall = NoCall
  Keys = {logo, song}
  Calls = {c1, c2, c3}
  MaxFaults = 0
  MaxItems = 2
  MaxSize = 3
  IdleSleep = 5
  Operations = {"GET", "POST"}
  Lifespans = {0, 1}
  QueueCap = 1
  MaxTime = 2
  MaxCrashes = 0
  Size <- MCSize
SPECIFICATION Spec
SYMMETRY Symmetry
INVARIANTS
  TypeOK
  FilesTracked
  NoOversleep
  ItemsBounded
