\* The reliable Reader of one writer with the DataReader on another thread,
\* where it may run between a handler's change of the cache and its
\* notification.  The writer sends two samples, in any order, with
\* HEARTBEATs and GAPs.
SPECIFICATION ConsumerSpec
CONSTANTS
  None = None
  Writers <- OneWriter
  UserDefinedEntities <- OnlyEntityOne
  like_stateless = FALSE
  reliability = "Reliable"
  is_spdp_participant_reader = FALSE
  deadline = None
  lifespan = None
  FRAGMENT_ASSEMBLY_TIMEOUT = 2
  MIN_FRAGMENT_GC_INTERVAL = 1
  ACKNACK_SET_LIMIT = 2
  StatusCapacity = 1
  ParticipantStatusCapacity = 1
  NotificationCapacity = 1
  CommandCapacity = 1
  DataInputs <- AliveOnly
  DataFragInputs <- NoInputs
  HeartbeatInputs <- Heartbeats
  GapInputs <- Gaps
  ProxyInputs <- Proxies
  MaxTime = 2
  MaxAckNackCount = 1
  MaxIncompatibleQos = 1
  ClockSteps = {1}
  Rematch = FALSE
  MaxSN = 2
  MaxHeartbeatCount = 1
  FragmentedSNs = {}
  SampleSizes = {2}
  FragmentSizes = {1}
  SourceTimestamps = {None}
  ReplyLocatorLists <- NoReplyLocators
INVARIANTS
  NoLostWakeup
  NoLostNotification
PROPERTIES
  EverythingReadableIsRead
