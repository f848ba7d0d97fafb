CONSTANTS
  redis = redis
  file = file
  s3 = s3
  NoProvider = NoProvider
  Providers = {redis, file}
  MaxReloads = 1
SPECIFICATION FairSpec
INVARIANTS
  TypeOK
  StreamsOpenObject
  ObjectsReleased
  BodyTruthful
PROPERTIES
  ImplementsGather
  Answered
  NoGoroutineLeft
