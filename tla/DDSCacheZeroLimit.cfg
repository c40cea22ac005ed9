\* A topic whose resource_limits.max_samples is 0.
SPECIFICATION Spec
CONSTANTS
  None = None
  TopicNames = {"Square"}
  CacheChanges <- OneChange
  MaxInstant = 3
  MaxSamplesChoices <- ZeroLimit
  DefaultMaxSamples = 3
PROPERTIES
  RetentionKeepsAtMostMaxSamples
CHECK_DEADLOCK FALSE
