CONSTANTS
  a = a
  b = b
  c = c
  a1 = a1
  b1 = b1
  b2 = b2
  c1 = c1
  Nodes = {a, b, c}
  Entries = {a1, b1, b2, c1}
  At <- MCAt
  Origins = {a}
  Slots = {1, 2, 3}
  Client = Client
  NoEntry = NoEntry
  NoSlot = NoSlot
  Contacts <- MCContacts
  Holdings <- MCHoldings
  Tables <- MCTables
  RequestTypes <- MCRequestTypes
SPECIFICATION FairSpec
INVARIANTS
  AskedOnce
PROPERTIES
  ForwardingEnds
