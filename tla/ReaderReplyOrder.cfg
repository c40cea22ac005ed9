\* The counts of the replies to one HEARTBEAT, in the order they are sent.
SPECIFICATION ReaderSpec
CONSTANTS
  None = None
  Writers <- OneWriter
  UserDefinedEntities <- OnlyEntityOne
  like_stateless = FALSE
  reliability = "Reliable"
  is_spdp_participant_reader = FALSE
  deadline = None
  lifespan = None
  FRAGMENT_ASSEMBLY_TIMEOUT = 2
  MIN_FRAGMENT_GC_INTERVAL = 1
  ACKNACK_SET_LIMIT = 2
  StatusCapacity = 1
  ParticipantStatusCapacity = 1
  NotificationCapacity = 1
  CommandCapacity = 1
  DataInputs <- SimpleData
  DataFragInputs <- DataFrags
  HeartbeatInputs <- Heartbeats
  GapInputs <- Gaps
  ProxyInputs <- Proxies
  MaxTime = 3
  MaxAckNackCount = 2
  MaxIncompatibleQos = 1
  ClockSteps = {1}
  Rematch = FALSE
  MaxSN = 3
  MaxHeartbeatCount = 2
  FragmentedSNs = {2}
  SampleSizes = {2}
  FragmentSizes = {1}
  SourceTimestamps = {None}
  ReplyLocatorLists <- NoReplyLocators
INVARIANTS
  ReplyCountsIncreaseAsSent
