CONSTANTS
  Nodes <- MCNodes
  Names <- MCNames
  Resolve <- MCResolve
  Public <- MCPublic
  Contacts <- MCContacts
  Beginnings <- MCBeginnings
SPECIFICATION FairSpec
INVARIANTS
  NoSelfQuery
  QuietMeansComplete
PROPERTIES
  GossipEnds
