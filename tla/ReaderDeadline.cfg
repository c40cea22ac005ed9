\* A reliable Reader whose QoS has a deadline of 2 ticks and a lifespan of 2
\* ticks, with a clock that moves by 1 or 2 ticks between its readings.  It
\* is matched with two writers of one participant, of which one sends and
\* the other stays silent, and nobody takes its statuses.
SPECIFICATION ReaderSpec
CONSTANTS
  None = None
  Writers <- UserAndBuiltinWriter
  UserDefinedEntities <- OnlyEntityOne
  like_stateless = FALSE
  reliability = "Reliable"
  is_spdp_participant_reader = FALSE
  deadline = 2
  lifespan = 2
  FRAGMENT_ASSEMBLY_TIMEOUT = 2
  MIN_FRAGMENT_GC_INTERVAL = 1
  ACKNACK_SET_LIMIT = 2
  StatusCapacity = 5
  ParticipantStatusCapacity = 5
  NotificationCapacity = 1
  CommandCapacity = 1
  DataInputs <- AliveOfOneWriter
  DataFragInputs <- DataFrags
  HeartbeatInputs <- HeartbeatsOfOneWriter
  GapInputs <- GapsOfOneWriter
  ProxyInputs <- Proxies
  MaxTime = 5
  MaxAckNackCount = 1
  MaxIncompatibleQos = 1
  ClockSteps = {1, 2}
  Rematch = FALSE
  MaxSN = 1
  MaxHeartbeatCount = 1
  FragmentedSNs = {}
  SampleSizes = {2}
  FragmentSizes = {1}
  SourceTimestamps = {None}
  ReplyLocatorLists <- NoReplyLocators
INVARIANTS
  StatusesTellTheMatches
PROPERTIES
  DeadlineCheckIsPeriodic
