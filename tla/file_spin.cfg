CONSTANTS
  logo = logo
  song = song
  clip = clip
  c1 = c1
  c2 = c2
  c3 = c3
  NoCall = NoCall
  Keys = {logo, song}
  Calls = {c1, c2}
  MaxFaults = 0
  MaxItems = 0
  MaxSize = 3
  IdleSleep = 5
  Operations = {"POST"}
  Lifespans = {1, 2}
  QueueCap = 1
  MaxTime = 3
  MaxCrashes = 0
  Size <- UnevenSize
SPECIFICATION FairSpec
PROPERTIES
  EvictionEnds
