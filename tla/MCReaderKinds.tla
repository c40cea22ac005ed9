---------------------------- MODULE MCReaderKinds ----------------------------
(***************************************************************************)
(* The kinds of Reader that Reader::new makes besides the plain reliable   *)
(* reader of user data: of BestEffort ingredients the stateless one        *)
(* (like_stateless) and the stateful one, of the ingredients of the        *)
(* discovery module the SPDP participant reader, and a reliable reader of  *)
(* large samples with a lifespan.  Which of them the Reader is, is settled *)
(* when it is made.                                                        *)
(* The constants of module Reader are those of the stateful BestEffort     *)
(* reader here; Stateless and Spdp are the same module with the            *)
(* ingredients of the other two.  A stateless reader has little to         *)
(* remember, so it is followed a step further and is given every shape of  *)
(* DATA.  The SPDP reader hears the SPDP writers of two participants, with *)
(* any INFO_REPLY, and its status channel has room for every status the    *)
(* bounds allow.  The fourth is a reliable reader of one writer that cuts  *)
(* its sample into fragments, of several sizes and in several ways; the    *)
(* QoS has a lifespan of 2 ticks, and the clock moves by 1 or 2 ticks      *)
(* between its readings, so that the fragment garbage collection runs.     *)
(***************************************************************************)
EXTENDS MCReader

VARIABLE kind \* the ReaderIngredients this Reader was made of

Kinds == {"stateless", "best_effort", "spdp", "fragments"}

Stateless ==
  INSTANCE Reader WITH
    like_stateless <- TRUE, MaxTime <- MaxTime + 1, DataInputs <- AllData

\* What the two SPDP writers may send.
SpdpInputs ==
  INSTANCE MCReader WITH
    Writers <- BuiltinWritersOfTwoParticipants, MaxSN <- 1,
    ReplyLocatorLists <- AnyReplyLocators

Spdp ==
  INSTANCE Reader WITH
    reliability <- "Reliable", is_spdp_participant_reader <- TRUE,
    Writers <- BuiltinWritersOfTwoParticipants, StatusCapacity <- 6,
    MaxAckNackCount <- 1, DataInputs <- SpdpInputs!AliveOnly,
    DataFragInputs <- SpdpInputs!DataFrags,
    HeartbeatInputs <- SpdpInputs!Heartbeats, GapInputs <- SpdpInputs!Gaps,
    ProxyInputs <- SpdpInputs!Proxies

\* What the one writer of fragmented samples may send.
FragmentInputs ==
  INSTANCE MCReader WITH
    Writers <- OneWriter, MaxSN <- 1, FragmentedSNs <- {1},
    SampleSizes <- {2, 3}, FragmentSizes <- {1, 2},
    SourceTimestamps <- {None, 0}

Fragments ==
  INSTANCE Reader WITH
    reliability <- "Reliable", lifespan <- 2, Writers <- OneWriter,
    MaxAckNackCount <- 1, MaxTime <- MaxTime + 2, ClockSteps <- {1, 2},
    DataInputs <- FragmentInputs!AliveOnly,
    DataFragInputs <- FragmentInputs!DataFrags,
    HeartbeatInputs <- FragmentInputs!Heartbeats, GapInputs <- NoInputs,
    ProxyInputs <- FragmentInputs!Proxies

kinds_vars == <<vars, kind>>

KindsInit == Init /\ kind \in Kinds

KindsNext ==
  /\ \/ kind = "stateless" /\ Stateless!ReaderStep
     \/ kind = "best_effort" /\ ReaderStep
     \/ kind = "spdp" /\ Spdp!ReaderStep
     \/ kind = "fragments" /\ Fragments!ReaderStep
  /\ UNCHANGED kind

KindsSpec == KindsInit /\ [][KindsNext]_kinds_vars

-----------------------------------------------------------------------------
\* A stateless reader delivers everything: every step of it leaves it without
\* proxies and without replies, and handle_data_msg puts every readable DATA
\* in the cache, a repeated one and one of an unknown writer included (the
\* like_stateless arm of process_received_data has no filter).
StatelessDeliversEverything ==
  [][kind = "stateless" => Stateless!DeliversEverything]_kinds_vars

\* A stateful reader caches a sample of a user-defined writer at most once,
\* also when it is BestEffort and hears no HEARTBEAT: the filter of
\* process_received_data works from DATA alone.
StatefulCachesOnce == kind = "best_effort" => SampleCachedOnce

\* A BestEffort reader, stateless or not, acknowledges nothing: all it ever
\* sends is the pre-emptive ACKNACK (the first early return of
\* handle_heartbeat_msg).
BestEffortNeverAcknowledges ==
  kind \in {"stateless", "best_effort"} => BestEffortOnlySolicits

\* The SubscriptionMatched statuses of the SPDP reader add up to the proxies
\* that exist, while the SPDP writers of two participants come and go
\* (update_writer_proxy, remove_writer_proxy, and participant_lost, which
\* removes the proxies of a participant in one call).
SpdpStatusesTellTheMatches == kind = "spdp" => Spdp!StatusesTellTheMatches

\* Every reply of the SPDP reader has somewhere to go, whatever INFO_REPLY
\* the HEARTBEAT came with (the match on unicast_reply_locator_list in
\* handle_heartbeat_msg).
SpdpRepliesHaveADestination == kind = "spdp" => Spdp!RepliesHaveADestination

\* The SPDP reader takes an announcement again: DATA of a matched SPDP
\* writer is cached whether or not its sequence number is accounted for
\* (the exception for SPDP_BUILTIN_PARTICIPANT_READER in
\* process_received_data), and a repeated one moves neither the proxy nor
\* the watermark.
SpdpTakesRepeats == [][kind = "spdp" => Spdp!TakesRepeats]_kinds_vars

\* Only whole samples reach the cache, whatever the fragments' order,
\* repetition and sizes, and none of a user-defined writer whose proxy is
\* gone (handle_datafrag_msg and the FragmentAssembler it feeds, with the
\* lifespan check, garbage_collect_fragments and remove_writer_proxy at
\* work).
ReassemblyIsWhole ==
  [][kind = "fragments" => Fragments!ReassemblesWhole]_kinds_vars

=============================================================================
