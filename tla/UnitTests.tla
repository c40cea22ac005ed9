----------------------------- MODULE UnitTests -----------------------------
(***************************************************************************)
(* The unit tests of the repository, replayed on the modules: `mod tests`  *)
(* of src/src/rtps/reader.rs on Reader, and of                             *)
(* src/src/structure/dds_cache.rs on DDSCache and of                       *)
(* src/src/network/udp_listener.rs on UDPListener.  A test is an action    *)
(* that makes the calls of the test one after the other; what the test     *)
(* asserts is the property TestsPass.  The modules then answer the tests   *)
(* as the code does, whatever the clock reads between two calls.           *)
(***************************************************************************)
EXTENDS Integers, Sequences, FiniteSets

CONSTANTS
  None,       \* Option::None
  MaxTime,    \* the clock is read at most up to this tick
  ClockSteps  \* by how many ticks a reading of the clock can be later than
              \* the one before

VARIABLES
  \* the Reader under test
  matched_writers, fragment_assemblers, last_fragment_garbage_collect,
  topic_cache, writer_match_count_total, requested_deadline_missed_count,
  offered_incompatible_qos_count, timed_event_timer,
  data_reader_command_receiver, data_reader_waker, poll_event,
  notification_channel, status_channel, participant_status_channel, udp_out,
  now, ever_matched,
  \* the DDSCache under test
  topic_caches, poisoned,
  \* the UDPListener under test
  listener, socket_queue, returned,
  \* the test
  test, \* the name of the test that runs
  done  \* the calls it has made so far

reader_vars == <<matched_writers, fragment_assemblers,
                 last_fragment_garbage_collect, topic_cache,
                 writer_match_count_total, requested_deadline_missed_count,
                 offered_incompatible_qos_count, timed_event_timer,
                 data_reader_command_receiver, data_reader_waker, poll_event,
                 notification_channel, status_channel,
                 participant_status_channel, udp_out, ever_matched>>
cache_vars  == <<topic_caches, poisoned>>
udp_vars    == <<listener, socket_queue, returned>>
vars        == <<reader_vars, now, cache_vars, udp_vars, test, done>>

\* GUID::dummy_test_guid(EntityKind::WRITER_NO_KEY_USER_DEFINED)
writer_guid  == <<1, 1>>
\* GUID::GUID_UNKNOWN
GUID_UNKNOWN == <<0, 0>>

\* Reader::new with the ReaderIngredients of the tests: like_stateless, the
\* reliability of qos_policy, the channels with the capacities the tests
\* give them, no deadline and no lifespan.
R(stateless, qos_reliability) ==
  INSTANCE Reader WITH
    like_stateless <- stateless, reliability <- qos_reliability,
    Writers <- {writer_guid}, UserDefinedEntities <- {1},
    is_spdp_participant_reader <- FALSE, deadline <- None, lifespan <- None,
    FRAGMENT_ASSEMBLY_TIMEOUT <- 10, MIN_FRAGMENT_GC_INTERVAL <- 2,
    ACKNACK_SET_LIMIT <- 256, StatusCapacity <- 4,
    ParticipantStatusCapacity <- 16, NotificationCapacity <- 100,
    CommandCapacity <- 10, DataInputs <- {}, DataFragInputs <- {},
    HeartbeatInputs <- {}, GapInputs <- {}, ProxyInputs <- {},
    MaxAckNackCount <- 0, MaxIncompatibleQos <- 0, Rematch <- FALSE

\* DDSCache::new
Cache ==
  INSTANCE DDSCache WITH
    TopicNames <- {"ImJustATopic"}, CacheChanges <- {}, MaxInstant <- MaxTime,
    MaxSamplesChoices <- {}, DefaultMaxSamples <- 1024

\* The socket of a UDPListener; 239.255.0.1 is the multicast address of
\* the tests.
Listener ==
  INSTANCE UDPListener WITH
    BUFFER_SIZE <- 64 * 1024, Multicast <- {"239.255.0.1"}

\* QosPolicies::qos_none() has no reliability, and Reader::new takes
\* BestEffort then.
qos_none     == "BestEffort"
reliable_qos == "Reliable"

-----------------------------------------------------------------------------
(* What the tests hand to the Reader *)

\* The proxy matched_writer_add builds: RtpsWriterProxy::new with the empty
\* locator lists of a default MessageReceiverState.
matched_writer_add ==
  [remote_writer_guid |-> writer_guid, unicast_locator_list |-> << >>]

\* matched_writer: Option<&RtpsWriterProxy>
matched_writer(remote_writer_guid) ==
  IF remote_writer_guid \in DOMAIN matched_writers
  THEN matched_writers[remote_writer_guid]
  ELSE None

\* Data { writer_sn, ..Data::default() } sent with DATA_Flags::Data.
data_of_tests(writer_sn) ==
  [writer_guid |-> writer_guid, writer_sn |-> writer_sn,
   serialized_payload |-> "ok", data_flag |-> TRUE, key_flag |-> FALSE,
   key_hash |-> FALSE, status_info |-> None]

heartbeat_of_tests(first_sn, last_sn, count, final_flag_set) ==
  [writer_guid |-> writer_guid, first_sn |-> first_sn, last_sn |-> last_sn,
   count |-> count, final_flag_set |-> final_flag_set,
   unicast_reply_locator_list |-> << >>]

gap_of_tests(gap_start, gap_list_base, gap_list) ==
  [writer_guid |-> writer_guid, gap_start |-> gap_start,
   gap_list_base |-> gap_list_base, gap_list |-> gap_list]

\* CacheChange::new(ChangeKind::ALIVE, writer, sequence_number, data)
alive_change(writer, sequence_number) ==
  [writer_guid |-> writer, sequence_number |-> sequence_number,
   kind |-> "ALIVE"]

\* The calls of a test are made in their order, one a step.
call(nth, action) == done = nth - 1 /\ action

-----------------------------------------------------------------------------
(* mod tests of reader.rs *)

reader_sends_notification_when_receiving_data ==
  /\ test = "reader_sends_notification_when_receiving_data"
  /\ \/ call(1, R(FALSE, qos_none)!update_writer_proxy(matched_writer_add, None))
     \/ call(2, R(FALSE, qos_none)!handle_data_msg(data_of_tests(1)))

reader_sends_data_to_topic_cache ==
  /\ test = "reader_sends_data_to_topic_cache"
  /\ \/ call(1, R(FALSE, qos_none)!update_writer_proxy(matched_writer_add, None))
     \/ call(2, R(FALSE, qos_none)!handle_data_msg(data_of_tests(1)))

reader_handles_heartbeats ==
  LET hb_new == heartbeat_of_tests(1, 0, 1, TRUE)
      hb_one == heartbeat_of_tests(1, 1, 2, FALSE)
      hb_2   == heartbeat_of_tests(1, 3, 3, FALSE)
  IN  /\ test = "reader_handles_heartbeats"
      /\ \/ call(1, R(FALSE, reliable_qos)!update_writer_proxy(matched_writer_add, None))
         \/ call(2, R(FALSE, reliable_qos)!handle_heartbeat_msg(hb_new))
         \/ call(3, R(FALSE, reliable_qos)!handle_heartbeat_msg(hb_one))
         \/ call(4, R(FALSE, reliable_qos)!handle_heartbeat_msg(hb_one))
         \/ call(5, R(FALSE, reliable_qos)!handle_heartbeat_msg(hb_2))

reader_handles_gaps ==
  /\ test = "reader_handles_gaps"
  /\ \/ call(1, R(FALSE, qos_none)!update_writer_proxy(matched_writer_add, None))
     \/ call(2, R(FALSE, qos_none)!handle_gap_msg(gap_of_tests(1, 3, {4})))
     \/ call(3, R(FALSE, qos_none)!handle_data_msg(data_of_tests(3)))
     \/ call(4, R(FALSE, qos_none)!handle_gap_msg(gap_of_tests(5, 5, {5})))

stateless_reader_does_not_contain_writer_proxies ==
  /\ test = "stateless_reader_does_not_contain_writer_proxies"
  /\ call(1, R(TRUE, qos_none)!update_writer_proxy(matched_writer_add, None))

\* A test of the Reader, and what it leaves alone.
reader_tests ==
  /\ \/ reader_sends_notification_when_receiving_data
     \/ reader_sends_data_to_topic_cache
     \/ reader_handles_heartbeats
     \/ reader_handles_gaps
     \/ stateless_reader_does_not_contain_writer_proxies
  /\ done' = done + 1
  /\ UNCHANGED <<cache_vars, udp_vars, test>>

-----------------------------------------------------------------------------
(* mod tests of dds_cache.rs *)

\* The thread the test spawns is joined before the test goes on, so its two
\* calls are the third and the fourth of the test.  Every call but the first
\* reads DDSTimestamp::now(); the range asked for at the end begins 23 s
\* back, before the test began.
create_dds_cache ==
  LET topic_name == "ImJustATopic"
      change1  == alive_change(GUID_UNKNOWN, 1)
      cahange2 == alive_change(GUID_UNKNOWN, 1)
      cahange3 == alive_change(GUID_UNKNOWN, 2)
  IN  /\ test = "create_dds_cache"
      /\ \/ call(1, Cache!add_new_topic(topic_name) /\ now' = now)
         \/ \E instant \in R(FALSE, qos_none)!ClockReadings :
              /\ now' = instant
              /\ \/ call(2, Cache!to_topic_add_change(topic_name, instant, change1))
                 \/ call(3, Cache!to_topic_add_change(topic_name, instant, cahange2))
                 \/ call(4, Cache!to_topic_add_change(topic_name, instant, cahange3))
                 \/ call(5, UNCHANGED cache_vars)
      /\ done' = done + 1
      /\ UNCHANGED <<reader_vars, udp_vars, test>>

-----------------------------------------------------------------------------
(* mod tests of udp_listener.rs *)

\* What the UDPSender of the tests sends is with the socket when the send
\* returns: both are on this host.
udpl_single_address ==
  LET data == <<0, 1, 2, 3, 4>>
  IN  /\ test = "udpl_single_address"
      /\ \/ call(1, Listener!new(0, "127.0.0.1", 10001, TRUE))
         \/ call(2, Listener!os_receives(data, "127.0.0.1"))
         \/ call(3, Listener!get_message)

udpl_multicast_address ==
  LET data == <<2, 4, 6>>
  IN  /\ test = "udpl_multicast_address"
      /\ \/ call(1, Listener!new(0, "127.0.0.1", 10002, TRUE))
         \/ call(2, Listener!join_multicast("239.255.0.1", TRUE))
         \/ call(3, Listener!os_receives(data, "239.255.0.1"))
         \/ call(4, Listener!get_message)
         \/ call(5, Listener!leave_multicast("239.255.0.1", TRUE))

\* A test of the UDPListener, and what it leaves alone.
udp_listener_tests ==
  /\ udpl_single_address \/ udpl_multicast_address
  /\ done' = done + 1
  /\ UNCHANGED <<reader_vars, now, cache_vars, test>>

-----------------------------------------------------------------------------
Tests == {"reader_sends_notification_when_receiving_data",
          "reader_sends_data_to_topic_cache", "reader_handles_heartbeats",
          "reader_handles_gaps",
          "stateless_reader_does_not_contain_writer_proxies",
          "create_dds_cache", "udpl_single_address",
          "udpl_multicast_address"}

\* Every test starts with a Reader, a DDSCache and the place of a
\* UDPListener of its own.
Init ==
  /\ test \in Tests
  /\ done = 0
  /\ R(FALSE, qos_none)!Init
  /\ Cache!Init
  /\ Listener!Init

Next == reader_tests \/ create_dds_cache \/ udp_listener_tests

Spec == Init /\ [][Next]_vars

-----------------------------------------------------------------------------
\* `predicate` holds after the nth call of test `name`.
After(name, nth, predicate) == test = name /\ done = nth => predicate

\* The assertions of the unit tests hold of the modules, whatever the clock
\* reads.  reader_sends_notification_when_receiving_data: a notification is
\* in the channel after handle_data_msg.  reader_sends_data_to_topic_cache:
\* the cache holds, at the instant of reception, the change of the writer
\* with the sequence number of the DATA.  reader_handles_heartbeats:
\* handle_heartbeat_msg answers (returns true, having sent an ACKNACK) the
\* two HEARTBEATs that are new and not final, and neither the final one
\* that announces nothing nor the repeated one; sent_ack_nack_count is 2 in
\* the end.  reader_handles_gaps: all_ackable_before is 3 after the GAP of
\* 1, 2 and 4, is 5 after the DATA 3 and 6 after the GAP of 5.
\* stateless_reader_does_not_contain_writer_proxies: matched_writer is None
\* after matched_writer_add.  create_dds_cache: the range up to now holds
\* three changes, the two with the same sequence number included.
\* udpl_single_address and udpl_multicast_address: get_message returns the
\* bytes that were sent, and leave_multicast is Ok.
TestsPass ==
  LET answered   == udp_out # << >>
      ackable_before(sn) ==
        R(FALSE, qos_none)!WP!all_ackable_before(matched_writer(writer_guid)) = sn
  IN  /\ After("reader_sends_notification_when_receiving_data", 2,
               notification_channel > 0)
      /\ After("reader_sends_data_to_topic_cache", 2,
               R(FALSE, qos_none)!TC!get_change(topic_cache, now) =
                 {alive_change(writer_guid, 1)})
      /\ After("reader_handles_heartbeats", 2, ~answered)
      /\ After("reader_handles_heartbeats", 3, answered)
      /\ After("reader_handles_heartbeats", 4, ~answered)
      /\ After("reader_handles_heartbeats", 5,
               answered /\ matched_writer(writer_guid).sent_ack_nack_count = 2)
      /\ After("reader_handles_gaps", 2, ackable_before(3))
      /\ After("reader_handles_gaps", 3, ackable_before(5))
      /\ After("reader_handles_gaps", 4, ackable_before(6))
      /\ After("stateless_reader_does_not_contain_writer_proxies", 1,
               matched_writer(writer_guid) = None)
      /\ After("create_dds_cache", 5,
               Cardinality(Cache!from_topic_get_changes_in_range(
                             "ImJustATopic", now - 23, now)) = 3)
      /\ After("udpl_single_address", 3, returned = <<0, 1, 2, 3, 4>>)
      /\ After("udpl_multicast_address", 4, returned = <<2, 4, 6>>)
      /\ After("udpl_multicast_address", 5, returned = "Ok")

=============================================================================
