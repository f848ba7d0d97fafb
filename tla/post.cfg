CONSTANTS
  redis = redis
  file = file
  till = till
  Providers = {redis, file, till}
  MaxReloads = 1
SPECIFICATION FairSpec
INVARIANTS
  TypeOK
  BodyTruthful
PROPERTIES
  ImplementsGather
  Answered
  NoGoroutineLeft
