CONSTANTS
  logo = logo
  song = song
  c1 = c1
  c2 = c2
  c3 = c3
  NoCall = NoCall
  Keys = {logo}
  Calls = {c1, c2, c3}
  Limits = {0}
  Operations = {"GET", "POST"}
  Lifespans = {1}
  MaxTime = 2
  MaxFaults = 0
SPECIFICATION Spec
CHECK_DEADLOCK FALSE
INVARIANT GetServesOneUpload
