\* A BestEffort Reader, stateless or stateful, that hears a user-defined and
\* a built-in writer; or the SPDP participant reader, which hears the SPDP
\* writers of two participants; or a reliable Reader of fragmented samples
\* with a lifespan.
SPECIFICATION KindsSpec
CONSTANTS
  None = None
  Writers <- UserAndBuiltinWriter
  UserDefinedEntities <- OnlyEntityOne
  like_stateless = FALSE
  reliability = "BestEffort"
  is_spdp_participant_reader = FALSE
  deadline = None
  lifespan = None
  FRAGMENT_ASSEMBLY_TIMEOUT = 2
  MIN_FRAGMENT_GC_INTERVAL = 1
  ACKNACK_SET_LIMIT = 2
  StatusCapacity = 1
  ParticipantStatusCapacity = 1
  NotificationCapacity = 1
  CommandCapacity = 1
  DataInputs <- SimpleData
  DataFragInputs <- DataFrags
  HeartbeatInputs <- Heartbeats
  GapInputs <- Gaps
  ProxyInputs <- Proxies
  MaxTime = 2
  MaxAckNackCount = 2
  MaxIncompatibleQos = 1
  ClockSteps = {1}
  Rematch = FALSE
  MaxSN = 2
  MaxHeartbeatCount = 1
  FragmentedSNs = {}
  SampleSizes = {2}
  FragmentSizes = {1}
  SourceTimestamps = {None}
  ReplyLocatorLists <- NoReplyLocators
INVARIANTS
  BestEffortNeverAcknowledges
  StatefulCachesOnce
  SpdpStatusesTellTheMatches
  SpdpRepliesHaveADestination
  StaleFragmentsAreCollected
PROPERTIES
  StatelessDeliversEverything
  SpdpTakesRepeats
  ReassemblyIsWhole
