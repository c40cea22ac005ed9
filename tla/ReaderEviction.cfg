\* A fragment that is never completed, on a topic where other traffic goes on.
SPECIFICATION ReaderSpec
CONSTANTS
  None = None
  Writers <- OneWriter
  UserDefinedEntities <- OnlyEntityOne
  like_stateless = FALSE
  reliability = "Reliable"
  is_spdp_participant_reader = FALSE
  deadline = None
  lifespan = None
  FRAGMENT_ASSEMBLY_TIMEOUT = 2
  MIN_FRAGMENT_GC_INTERVAL = 1
  ACKNACK_SET_LIMIT = 2
  StatusCapacity = 1
  ParticipantStatusCapacity = 1
  NotificationCapacity = 1
  CommandCapacity = 1
  DataInputs <- AliveOnly
  DataFragInputs <- DataFrags
  HeartbeatInputs <- Heartbeats
  GapInputs <- NoInputs
  ProxyInputs <- Proxies
  MaxTime = 6
  MaxAckNackCount = 1
  MaxIncompatibleQos = 1
  ClockSteps = {1, 2}
  Rematch = FALSE
  MaxSN = 1
  MaxHeartbeatCount = 1
  FragmentedSNs = {1}
  SampleSizes = {2}
  FragmentSizes = {1}
  SourceTimestamps = {None}
  ReplyLocatorLists <- NoReplyLocators
INVARIANTS
  InactiveFragmentsAreEvicted
