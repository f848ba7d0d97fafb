CONSTANTS
  redis = redis
  file = file
  disk = disk
  Providers = {redis, file}
  MaxReloads = 1
SPECIFICATION FairSpec
INVARIANTS
  TypeOK
  SynchronousLeavesNothing
PROPERTIES
  ImplementsGather
  Answered
