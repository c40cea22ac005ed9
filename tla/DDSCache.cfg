\* Threads that add, dispose, remove and trim the changes of two topics, and
\* change the resource limits in between.  A panic ends the use of the cache,
\* so a state without a successor is expected.
SPECIFICATION Spec
CONSTANTS
  None = None
  TopicNames = {"Square", "Circle"}
  CacheChanges <- OneChange
  MaxInstant = 3
  MaxSamplesChoices <- SmallLimits
  DefaultMaxSamples = 2
INVARIANTS
  TypeOK
  RangeReadsPartition
PROPERTIES
  RetentionHonoursLimit
CHECK_DEADLOCK FALSE
