\* A reliable Reader and a writer over a network that loses and reorders.
SPECIFICATION LinkSpec
CONSTANTS
  None = None
  Writers <- OneWriter
  TheWriter <- WriterOne
  UserDefinedEntities <- OnlyEntityOne
  like_stateless = FALSE
  reliability = "Reliable"
  is_spdp_participant_reader = FALSE
  deadline = None
  lifespan = None
  FRAGMENT_ASSEMBLY_TIMEOUT = 2
  MIN_FRAGMENT_GC_INTERVAL = 1
  ACKNACK_SET_LIMIT = 2
  StatusCapacity = 1
  ParticipantStatusCapacity = 1
  NotificationCapacity = 1
  CommandCapacity = 1
  DataInputs <- NoInputs
  DataFragInputs <- NoInputs
  HeartbeatInputs <- NoInputs
  GapInputs <- NoInputs
  ProxyInputs <- NoInputs
  MaxTime = 10
  MaxAckNackCount = 1
  MaxIncompatibleQos = 1
  ClockSteps = {1}
  Rematch = FALSE
  MaxWrites = 2
  MaxEarlyHeartbeats = 1
  MaxLoss = 1
  MaxHeartbeats = 10
  MaxForgotten = 1
  Fragmented <- SecondSample
CHECK_DEADLOCK FALSE
PROPERTIES
  ImplementsReliableStream
  EverySampleGetsThrough
