CONSTANTS
  logo = logo
  song = song
  clip = clip
  c1 = c1
  c2 = c2
  c3 = c3
  NoCall = NoCall
  Keys = {song}
  Calls = {c1, c2}
  MaxFaults = 0
  MaxItems = 0
  MaxSize = 0
  IdleSleep = 5
  Operations = {"POST", "PUT"}
  Lifespans = {1}
  QueueCap = 1
  MaxTime = 3
  MaxCrashes = 0
  Size <- MCSize
SPECIFICATION Spec
SYMMETRY Symmetry
INVARIANTS
  AcknowledgedIsKept
