------------------------------- MODULE Reader -------------------------------
(***************************************************************************)
(* The RTPS Reader of src/src/rtps/reader.rs: one action per public        *)
(* method of `impl Reader`, the private methods as the operators those     *)
(* actions are built from.                                                 *)
(*                                                                         *)
(* The Reader runs on one event-loop thread, so a method call is one       *)
(* atomic step.  What arrives (submessages, discovery updates, timer       *)
(* events) is chosen freely from the input sets: any order, any repetition *)
(* and any omission, which is what UDP and discovery can do.               *)
(*                                                                         *)
(* A GUID is a pair <<guid_prefix, entity_id>> of numbers, ordered as the  *)
(* BTreeMap keys are.  A Timestamp is a number of clock ticks.             *)
(***************************************************************************)
EXTENDS Integers, Sequences, FiniteSets, FiniteSetsExt, SequencesExt

CONSTANTS
  None,                       \* Option::None
  Writers,                    \* GUIDs of the remote writers that can be heard
  UserDefinedEntities,        \* entity ids with entity_kind.is_user_defined()
  like_stateless,             \* ReaderIngredients.like_stateless
  reliability,                \* "BestEffort" or "Reliable"
  is_spdp_participant_reader, \* my_guid.entity_id is
                              \* SPDP_BUILTIN_PARTICIPANT_READER
  deadline,                   \* qos_policy.deadline, None or ticks
  lifespan,                   \* qos_policy.lifespan, None or ticks
  FRAGMENT_ASSEMBLY_TIMEOUT,  \* 10 s in the source
  MIN_FRAGMENT_GC_INTERVAL,   \* 2 s in the source
  ACKNACK_SET_LIMIT,          \* 256: sequence numbers one ACKNACK can name
  StatusCapacity,             \* bound of the DataReaderStatus channel
  ParticipantStatusCapacity,  \* bound of the participant status channel
  NotificationCapacity,       \* bound of the notification channel
  CommandCapacity             \* bound of the reader command channel

CONSTANTS
  \* What the environment can deliver.
  DataInputs, DataFragInputs, HeartbeatInputs, GapInputs, ProxyInputs,
  \* Bounds of the model, each named where it is used.
  MaxTime,            \* the clock is read at most up to this tick
  MaxAckNackCount,    \* cap of sent_ack_nack_count for pre-emptive ACKNACKs
  MaxIncompatibleQos, \* cap of offered_incompatible_qos_count
  ClockSteps,         \* by how many ticks a reading of the clock can be
                      \* later than the one before; 0 repeats a reading
  Rematch             \* TRUE: discovery may match a removed writer again

\* Reader::new panics on a stateless reader that asks for reliability.
ASSUME ~(like_stateless /\ reliability = "Reliable")
ASSUME deadline = None \/ deadline \in Nat \ {0}

VARIABLES
  matched_writers,               \* BTreeMap<GUID, RtpsWriterProxy>
  fragment_assemblers,           \* BTreeMap<GUID, FragmentAssembler>
  last_fragment_garbage_collect, \* Timestamp
  topic_cache,                   \* the TopicCache behind the mutex
  writer_match_count_total,
  requested_deadline_missed_count,
  offered_incompatible_qos_count,
  timed_event_timer,             \* expiry of the pending timeout, or None
  data_reader_command_receiver,  \* number of commands waiting
  data_reader_waker,             \* TRUE: Some(waker) is in the slot
  poll_event,                    \* TRUE: a poll event is pending
  notification_channel,          \* number of () waiting in the channel
  status_channel,                \* DataReaderStatus values waiting
  participant_status_channel,    \* DomainParticipantStatusEvents waiting
  udp_out,                       \* the messages the latest step sent
  now,                           \* the latest reading of Timestamp::now()
  ever_matched                   \* history: writers that had a proxy

proxy_vars   == <<matched_writers, ever_matched>>
frag_vars    == <<fragment_assemblers, last_fragment_garbage_collect>>
count_vars   == <<writer_match_count_total, requested_deadline_missed_count,
                  offered_incompatible_qos_count>>
notify_vars  == <<data_reader_waker, poll_event, notification_channel>>
status_vars  == <<status_channel, participant_status_channel>>
vars == <<proxy_vars, frag_vars, topic_cache, count_vars, timed_event_timer,
          data_reader_command_receiver, notify_vars, status_vars, udp_out,
          now>>

WP == INSTANCE WriterProxy
FA == INSTANCE FragmentAssembler
TC == INSTANCE TopicCache WITH DefaultMaxSamples <- 1024

-----------------------------------------------------------------------------
(* Helpers *)

stateful == ~like_stateless

is_user_defined(guid) == guid[2] \in UserDefinedEntities

\* The order of GUIDs as BTreeMap keys.
guid_before(g, h) == g[1] < h[1] \/ (g[1] = h[1] /\ g[2] < h[2])

\* A reading of Timestamp::now().
ClockReadings ==
  {t \in {now + d : d \in ClockSteps} : t <= MaxTime}

\* Fault: the status is sent whether there is room or not.
send_status_change_blocking(channel, change) == Append(channel, change)

\* send_status_change: try_send, and a full channel drops the status.
send_status_change(channel, change) ==
  IF Len(channel) < StatusCapacity THEN Append(channel, change) ELSE channel

\* send_participant_status: try_send, an error is only logged.
send_participant_status(channel, event) ==
  IF Len(channel) < ParticipantStatusCapacity
  THEN Append(channel, event)
  ELSE channel

\* Fault: a full notification channel ends the notification.
notify_cache_change_unless_full ==
  IF notification_channel = NotificationCapacity
  THEN UNCHANGED notify_vars
  ELSE /\ data_reader_waker' = FALSE
       /\ poll_event' = TRUE
       /\ notification_channel' = notification_channel + 1

\* Fault: the waker is left in its slot, and so is never woken.
notify_cache_change_no_wake ==
  /\ data_reader_waker' = data_reader_waker
  /\ poll_event' = TRUE
  /\ notification_channel' =
       Min({notification_channel + 1, NotificationCapacity})

\* notify_cache_change: take the waker and wake it, send a poll event,
\* try_send a notification (a full channel already holds one).
notify_cache_change ==
  /\ data_reader_waker' = FALSE
  /\ poll_event' = TRUE
  /\ notification_channel' =
       Min({notification_channel + 1, NotificationCapacity})

\* set_requested_deadline_check_timer, called at `instant`: a timeout one
\* deadline from now, when the QoS has a deadline.
set_requested_deadline_check_timer(instant) ==
  timed_event_timer' =
    IF deadline = None THEN timed_event_timer ELSE instant + deadline

-----------------------------------------------------------------------------
Init ==
  /\ matched_writers = << >>
  /\ ever_matched = {}
  /\ fragment_assemblers = << >>
  /\ last_fragment_garbage_collect = 0
  /\ topic_cache = TC!new_topic_cache
  /\ writer_match_count_total = 0
  /\ requested_deadline_missed_count = 0
  /\ offered_incompatible_qos_count = 0
  /\ timed_event_timer = None
  /\ data_reader_command_receiver = 0
  /\ data_reader_waker = FALSE
  /\ poll_event = FALSE
  /\ notification_channel = 0
  /\ status_channel = << >>
  /\ participant_status_channel = << >>
  /\ udp_out = << >>
  /\ now = 0

-----------------------------------------------------------------------------
(* Discovery: matching and unmatching remote writers *)

\* DataReaderStatus::SubscriptionMatched
SubscriptionMatched(total, total_change, current, current_change, writer) ==
  [kind |-> "SubscriptionMatched", writer |-> writer,
   total |-> total, total_change |-> total_change,
   current |-> current, current_change |-> current_change]

\* matched_writer_update with the status reports of update_writer_proxy
\* that depend on its result: an existing proxy keeps its accounting and
\* nobody is told; a new one is inserted as discovery built it.
matched_writer_update(proxy) ==
  LET writer == proxy.remote_writer_guid
  IN  \/ /\ writer \in DOMAIN matched_writers
         /\ matched_writers' =
              [matched_writers EXCEPT ![writer] = WP!update_contents(@, proxy)]
         /\ UNCHANGED <<ever_matched, writer_match_count_total, status_vars>>
      \/ /\ writer \notin DOMAIN matched_writers
         /\ Rematch \/ writer \notin ever_matched
         /\ matched_writers' =
              (writer :> WP!new_writer_proxy(proxy.unicast_locator_list))
                @@ matched_writers
         /\ ever_matched' = ever_matched \cup {writer}
         /\ writer_match_count_total' = writer_match_count_total + 1
         /\ status_channel' = send_status_change(status_channel,
              SubscriptionMatched(writer_match_count_total', 1,
                Cardinality(DOMAIN matched_writers'), 1, writer))
         /\ participant_status_channel' =
              send_participant_status(participant_status_channel,
                [kind |-> "RemoteWriterMatched", remote_writer |-> writer])

\* The Some(bad_policy_id) arm of update_writer_proxy.  A proxy the writer
\* already has stays matched.
qos_mismatch(proxy) ==
  /\ offered_incompatible_qos_count < MaxIncompatibleQos
  /\ offered_incompatible_qos_count' = offered_incompatible_qos_count + 1
  /\ status_channel' = send_status_change(status_channel,
       [kind |-> "RequestedIncompatibleQos",
        writer |-> proxy.remote_writer_guid,
        count |-> offered_incompatible_qos_count'])
  /\ participant_status_channel' =
       send_participant_status(participant_status_channel,
         [kind |-> "RemoteWriterQosIncompatible",
          remote_writer |-> proxy.remote_writer_guid])
  /\ UNCHANGED <<proxy_vars, writer_match_count_total>>

\* update_writer_proxy(proxy, offered_qos); compliance_failure stands for
\* offered_qos.compliance_failure_wrt(&self.qos_policy).
update_writer_proxy(proxy, compliance_failure) ==
  /\ \/ /\ like_stateless
        /\ UNCHANGED <<proxy_vars, writer_match_count_total,
                       offered_incompatible_qos_count, status_vars>>
     \/ /\ stateful /\ compliance_failure = None
        /\ matched_writer_update(proxy)
        /\ UNCHANGED offered_incompatible_qos_count
     \/ /\ stateful /\ compliance_failure # None
        /\ qos_mismatch(proxy)
  /\ udp_out' = << >>
  /\ UNCHANGED <<frag_vars, topic_cache, requested_deadline_missed_count,
                 timed_event_timer, data_reader_command_receiver,
                 notify_vars, now>>

\* Fault: the status is built before the proxy is removed, and so reports
\* the number of proxies with the lost one still counted.
remove_writer_proxies_count_before(lost_writers) ==
  LET lost  == SetToSortSeq(lost_writers \cap DOMAIN matched_writers,
                            guid_before)
      left  == Cardinality(DOMAIN matched_writers)
      report(channel, i) == send_status_change(channel,
        SubscriptionMatched(writer_match_count_total, 0, left - i + 1, -1,
                            lost[i]))
  IN  /\ matched_writers' =
           Restrict(matched_writers, DOMAIN matched_writers \ lost_writers)
      /\ status_channel' =
           FoldLeftDomain(report, status_channel, lost)
      /\ udp_out' = << >>
      /\ UNCHANGED <<ever_matched, frag_vars, topic_cache, count_vars,
                     timed_event_timer, data_reader_command_receiver,
                     notify_vars, participant_status_channel, now>>

\* Fault: the proxies are all removed first and the statuses built then, so
\* each reports the number of proxies left at the end.
remove_writer_proxies_count_after(lost_writers) ==
  LET lost  == SetToSortSeq(lost_writers \cap DOMAIN matched_writers,
                            guid_before)
      left  == Cardinality(DOMAIN matched_writers \ lost_writers)
      report(channel, i) == send_status_change(channel,
        SubscriptionMatched(writer_match_count_total, 0, left, -1, lost[i]))
  IN  /\ matched_writers' =
           Restrict(matched_writers, DOMAIN matched_writers \ lost_writers)
      /\ status_channel' =
           FoldLeftDomain(report, status_channel, lost)
      /\ udp_out' = << >>
      /\ UNCHANGED <<ever_matched, frag_vars, topic_cache, count_vars,
                     timed_event_timer, data_reader_command_receiver,
                     notify_vars, participant_status_channel, now>>

\* The writers remove_writer_proxy is called for, one after the other:
\* each removal reports the number of proxies that are left after it.
remove_writer_proxies(lost_writers) ==
  LET lost  == SetToSortSeq(lost_writers \cap DOMAIN matched_writers,
                            guid_before)
      left  == Cardinality(DOMAIN matched_writers)
      report(channel, i) == send_status_change(channel,
        SubscriptionMatched(writer_match_count_total, 0, left - i, -1, lost[i]))
  IN  /\ matched_writers' =
           Restrict(matched_writers, DOMAIN matched_writers \ lost_writers)
      /\ status_channel' =
           FoldLeftDomain(report, status_channel, lost)
      /\ udp_out' = << >>
      /\ UNCHANGED <<ever_matched, frag_vars, topic_cache, count_vars,
                     timed_event_timer, data_reader_command_receiver,
                     notify_vars, participant_status_channel, now>>

\* remove_writer_proxy(writer_guid).  The writer's fragment assembler and
\* its watermark in the topic cache are left as they are.
remove_writer_proxy(writer_guid) == remove_writer_proxies({writer_guid})

\* participant_lost(guid_prefix)
participant_lost(guid_prefix) ==
  remove_writer_proxies({g \in DOMAIN matched_writers : g[1] = guid_prefix})

\* contains_writer(entity_id)
contains_writer(entity_id) ==
  stateful /\ \E g \in DOMAIN matched_writers : g[2] = entity_id

-----------------------------------------------------------------------------
(* DATA and DATAFRAG *)

\* deduce_change_kind: the kind the inline QoS status_info names, whatever
\* it is; without one, the default for the caller.
deduce_change_kind(status_info, no_writers) ==
  IF status_info # None THEN status_info
  ELSE IF no_writers THEN "NOT_ALIVE_UNREGISTERED" ELSE "NOT_ALIVE_DISPOSED"

\* data_to_dds_data, by the ChangeKind of the DDSData it builds; None is
\* Err.  A DATA is [writer_guid, writer_sn, serialized_payload, data_flag,
\* key_flag, key_hash, status_info]; serialized_payload is None, "ok" or
\* "malformed" (SerializedPayload::from_bytes fails).
data_to_dds_data(data) ==
  LET payload == data.serialized_payload
      parsed(kind) == IF payload = "malformed" THEN None ELSE kind
      disposed == deduce_change_kind(data.status_info, FALSE)
  IN  CASE payload # None /\ data.data_flag /\ ~data.key_flag ->
             parsed("ALIVE")
        [] payload # None /\ ~data.data_flag /\ data.key_flag ->
             parsed(disposed)
        [] payload = None /\ ~data.data_flag /\ ~data.key_flag ->
             IF data.key_hash THEN disposed ELSE None
        [] OTHER -> None

\* Fault: the sender's entity kind is not looked at.
is_accepted_from_anyone(writer_guid, writer_sn) ==
  \/ like_stateless
  \/ /\ writer_guid \in DOMAIN matched_writers
     /\ \/ ~WP!should_ignore_change(matched_writers[writer_guid], writer_sn)
        \/ is_spdp_participant_reader
  \/ writer_guid \notin DOMAIN matched_writers

\* Fault: a stateless reader filters like a stateful one.
is_accepted_stateful_only(writer_guid, writer_sn) ==
  \/ /\ writer_guid \in DOMAIN matched_writers
     /\ \/ ~WP!should_ignore_change(matched_writers[writer_guid], writer_sn)
        \/ is_spdp_participant_reader
  \/ /\ writer_guid \notin DOMAIN matched_writers
     /\ ~is_user_defined(writer_guid)

\* Fault: the SPDP participant reader filters repeats like any other.
is_accepted_unless_accounted(writer_guid, writer_sn) ==
  \/ like_stateless
  \/ /\ writer_guid \in DOMAIN matched_writers
     /\ ~WP!should_ignore_change(matched_writers[writer_guid], writer_sn)
  \/ /\ writer_guid \notin DOMAIN matched_writers
     /\ ~is_user_defined(writer_guid)

\* Where process_received_data goes on to make_cache_change: a stateless
\* reader always; a known writer unless the change is already accounted for
\* (the SPDP participant reader takes duplicates); an unknown writer only
\* if it is not user-defined, that is, discovery traffic.
is_accepted(writer_guid, writer_sn) ==
  \/ like_stateless
  \/ /\ writer_guid \in DOMAIN matched_writers
     /\ \/ ~WP!should_ignore_change(matched_writers[writer_guid], writer_sn)
        \/ is_spdp_participant_reader
  \/ /\ writer_guid \notin DOMAIN matched_writers
     /\ ~is_user_defined(writer_guid)

\* Fault: the change is added and the watermark is left where it was.
make_cache_change_unmarked(tc, writers, kind, receive_timestamp, writer_guid, writer_sn) ==
  TC!add_change(tc, receive_timestamp,
                [writer_guid |-> writer_guid, sequence_number |-> writer_sn,
                 kind |-> kind])

\* make_cache_change: add the change at its reception time, then raise the
\* writer's watermark to what `writers` says is ackable.
make_cache_change(tc, writers, kind, receive_timestamp, writer_guid, writer_sn) ==
  LET cache_change == [writer_guid |-> writer_guid,
                       sequence_number |-> writer_sn, kind |-> kind]
      added == TC!add_change(tc, receive_timestamp, cache_change)
  IN  IF stateful /\ writer_guid \in DOMAIN writers
      THEN TC!mark_reliably_received_before(added, writer_guid,
             WP!all_ackable_before(writers[writer_guid]))
      ELSE added

\* process_received_data: what DATA and a completed DATAFRAG have in common.
process_received_data(kind, receive_timestamp, writer_guid, writer_sn) ==
  \/ /\ ~is_accepted(writer_guid, writer_sn)
     /\ UNCHANGED <<matched_writers, topic_cache, notify_vars>>
  \/ /\ is_accepted(writer_guid, writer_sn)
     /\ matched_writers' =
          IF stateful /\ writer_guid \in DOMAIN matched_writers
          THEN [matched_writers EXCEPT ![writer_guid] =
                  WP!received_changes_add(@, writer_sn, receive_timestamp)]
          ELSE matched_writers
     /\ topic_cache' = make_cache_change(topic_cache, matched_writers', kind,
                         receive_timestamp, writer_guid, writer_sn)
     /\ notify_cache_change

\* handle_data_msg
handle_data_msg(data) ==
  \E receive_timestamp \in ClockReadings :
    /\ now' = receive_timestamp
    /\ IF data_to_dds_data(data) = None
       THEN UNCHANGED <<matched_writers, topic_cache, notify_vars>>
       ELSE process_received_data(data_to_dds_data(data), receive_timestamp,
                                  data.writer_guid, data.writer_sn)
    /\ udp_out' = << >>
    /\ UNCHANGED <<ever_matched, frag_vars, count_vars, timed_event_timer,
                   data_reader_command_receiver, status_vars>>

\* Fault: insert instead of or_insert_with, every DATAFRAG starts afresh.
fragment_assembler_mutable_always_new(writer_guid, frag_size) ==
  FA!new_fragment_assembler(frag_size)

\* fragment_assembler_mutable: the writer's assembler, created with the
\* fragment size of the first DATAFRAG heard from that writer.
fragment_assembler_mutable(writer_guid, frag_size) ==
  IF writer_guid \in DOMAIN fragment_assemblers
  THEN fragment_assemblers[writer_guid]
  ELSE FA!new_fragment_assembler(frag_size)

\* Fault: the cut-off is taken from the time of the sweep before this one.
garbage_collect_fragments_from_last(assemblers, instant) ==
  IF instant - last_fragment_garbage_collect > MIN_FRAGMENT_GC_INTERVAL
  THEN <<[g \in DOMAIN assemblers |->
            FA!garbage_collect_before(assemblers[g],
              last_fragment_garbage_collect - FRAGMENT_ASSEMBLY_TIMEOUT)],
         instant>>
  ELSE <<assemblers, last_fragment_garbage_collect>>

\* garbage_collect_fragments on the assemblers `assemblers`, as the pair
\* <<fragment_assemblers, last_fragment_garbage_collect>> it leaves.
garbage_collect_fragments(assemblers, instant) ==
  IF instant - last_fragment_garbage_collect > MIN_FRAGMENT_GC_INTERVAL
  THEN <<[g \in DOMAIN assemblers |->
            FA!garbage_collect_before(assemblers[g],
                                      instant - FRAGMENT_ASSEMBLY_TIMEOUT)],
         instant>>
  ELSE <<assemblers, last_fragment_garbage_collect>>

\* The lifespan check of handle_datafrag_msg.
lifespan_exceeded(source_timestamp, receive_timestamp) ==
  /\ source_timestamp # None
  /\ lifespan # None
  /\ lifespan < receive_timestamp - source_timestamp

\* handle_datafrag_msg.  The assembler is fed before anything is known about
\* the writer; the garbage collection runs only when the DATAFRAG did not
\* complete a sample.  (It reads the clock again; the two readings are one
\* here.)  A DATAFRAG is a FragmentAssembler DATAFRAG with writer_guid and
\* source_timestamp.
handle_datafrag_msg(datafrag) ==
  \E receive_timestamp \in ClockReadings :
    LET writer_guid == datafrag.writer_guid
        fa  == fragment_assembler_mutable(writer_guid, datafrag.fragment_size)
        fed == (writer_guid :> FA!new_datafrag(fa, datafrag, receive_timestamp))
                 @@ fragment_assemblers
    IN  /\ now' = receive_timestamp
        /\ \/ /\ lifespan_exceeded(datafrag.source_timestamp, receive_timestamp)
              /\ UNCHANGED <<frag_vars, matched_writers, topic_cache,
                             notify_vars>>
           \/ /\ ~lifespan_exceeded(datafrag.source_timestamp, receive_timestamp)
              /\ FA!completes(fa, datafrag, receive_timestamp)
              /\ fragment_assemblers' = fed
              /\ process_received_data("ALIVE", receive_timestamp, writer_guid,
                                       datafrag.writer_sn)
              /\ UNCHANGED last_fragment_garbage_collect
           \/ /\ ~lifespan_exceeded(datafrag.source_timestamp, receive_timestamp)
              /\ ~FA!completes(fa, datafrag, receive_timestamp)
              /\ fragment_assemblers' =
                   garbage_collect_fragments(fed, receive_timestamp)[1]
              /\ last_fragment_garbage_collect' =
                   garbage_collect_fragments(fed, receive_timestamp)[2]
              /\ UNCHANGED <<matched_writers, topic_cache, notify_vars>>
        /\ udp_out' = << >>
        /\ UNCHANGED <<ever_matched, count_vars, timed_event_timer,
                       data_reader_command_receiver, status_vars>>

\* missing_frags_for(writer_guid, seq)
missing_frags_for(writer_guid, seq) ==
  IF writer_guid \in DOMAIN fragment_assemblers
  THEN FA!missing_frags_for(fragment_assemblers[writer_guid], seq)
  ELSE {}

\* is_frag_partially_received(writer_guid, seq)
is_frag_partially_received(writer_guid, seq) ==
  /\ writer_guid \in DOMAIN fragment_assemblers
  /\ FA!is_partially_received(fragment_assemblers[writer_guid], seq)

-----------------------------------------------------------------------------
(* HEARTBEAT and GAP *)

\* What send_acknack_to and send_nackfrags_to hand to encode_and_send, and
\* that to the UDP sender: the submessages after an INFO_DESTINATION, and
\* the locators they go to.  An empty locator list sends to nobody.
Message(destination_guid, submessages, dst_locator_list) ==
  [info_dst |-> destination_guid[1], writer |-> destination_guid,
   submessages |-> submessages, dst_locator_list |-> dst_locator_list]

\* Fault: the counter is advanced once for all the replies to a HEARTBEAT.
counted_once(writer_proxy, n) ==
  IF n = 0 THEN writer_proxy
  ELSE WP!next_ack_nack_sequence_number(writer_proxy)

\* The writer proxy after n calls of next_ack_nack_sequence_number.
counted(writer_proxy, n) ==
  FoldLeft(LAMBDA wp, i : WP!next_ack_nack_sequence_number(wp),
           writer_proxy, [i \in 1 .. n |-> i])

\* Fault: the two arms of the match are the wrong way round.
reply_locators_swapped(unicast_reply_locator_list, writer_proxy) ==
  IF unicast_reply_locator_list \in {<< >>, <<"Invalid">>}
  THEN unicast_reply_locator_list
  ELSE writer_proxy.unicast_locator_list

\* mr_state.unicast_reply_locator_list, unless it is [] or [Invalid].
reply_locators(unicast_reply_locator_list, writer_proxy) ==
  IF unicast_reply_locator_list \in {<< >>, <<"Invalid">>}
  THEN writer_proxy.unicast_locator_list
  ELSE unicast_reply_locator_list

\* Fault: every missing sequence number is put in the set.
in_set_limit_untrimmed(missing_seqnums) == missing_seqnums

\* The take_while of handle_heartbeat_msg: the missing sequence numbers an
\* ACKNACK based at the first of them can name.
in_set_limit(missing_seqnums) ==
  {sn \in missing_seqnums : sn < Min(missing_seqnums) + ACKNACK_SET_LIMIT}

\* The reply of handle_heartbeat_msg for a proxy that has taken the
\* HEARTBEAT in: the proxy after the counts are drawn, and the messages in
\* the order they are sent.  The ACKNACK draws its count first and is sent
\* last; a NACKFRAG goes out for each partially received sequence number.
heartbeat_reply(heartbeat, writer_proxy) ==
  LET writer_guid     == heartbeat.writer_guid
      missing_seqnums == WP!missing_seqnums(writer_proxy, heartbeat.first_sn,
                                            heartbeat.last_sn)
      nameable        == in_set_limit(missing_seqnums)
      partially_received ==
        SetToSortSeq({sn \in nameable :
                        is_frag_partially_received(writer_guid, sn)},
                     LAMBDA a, b : a < b)
      reader_sn_state ==
        IF missing_seqnums = {}
        THEN [base |-> WP!all_ackable_before(writer_proxy), set |-> {}]
        ELSE [base |-> Min(missing_seqnums),
              set  |-> nameable \ Range(partially_received)]
      response_ack_nack ==
        [kind |-> "ACKNACK", reader_sn_state |-> reader_sn_state,
         count |-> counted(writer_proxy, 0).sent_ack_nack_count,
         final |-> TRUE]
      nackfrag(i) ==
        [kind |-> "NACKFRAG", writer_sn |-> partially_received[i],
         fragment_number_state |->
           missing_frags_for(writer_guid, partially_received[i]),
         count |-> counted(writer_proxy, i).sent_ack_nack_count]
      nackfrags ==
        SelectSeq([i \in DOMAIN partially_received |-> nackfrag(i)],
                  LAMBDA nf : nf.fragment_number_state # {})
      to == reply_locators(heartbeat.unicast_reply_locator_list, writer_proxy)
  IN  [writer_proxy |-> counted(writer_proxy, 1 + Len(partially_received)),
       sent |-> (IF nackfrags = << >> THEN << >>
                 ELSE <<Message(writer_guid, nackfrags, to)>>)
                \o <<Message(writer_guid, <<response_ack_nack>>, to)>>]

\* Fault: the count of the HEARTBEAT is not compared with the last one.
heartbeat_is_ignored_no_dedup(heartbeat) ==
  \/ reliability = "BestEffort"
  \/ like_stateless
  \/ heartbeat.writer_guid \notin DOMAIN matched_writers

\* Fault: a BestEffort reader answers HEARTBEATs.
heartbeat_is_ignored_unless_best_effort(heartbeat) ==
  \/ like_stateless
  \/ heartbeat.writer_guid \notin DOMAIN matched_writers
  \/ /\ heartbeat.writer_guid \in DOMAIN matched_writers
     /\ heartbeat.count <=
          matched_writers[heartbeat.writer_guid].received_heartbeat_count

\* The early returns of handle_heartbeat_msg.
heartbeat_is_ignored(heartbeat) ==
  \/ reliability = "BestEffort"
  \/ like_stateless
  \/ heartbeat.writer_guid \notin DOMAIN matched_writers
  \/ /\ heartbeat.writer_guid \in DOMAIN matched_writers
     /\ heartbeat.count <=
          matched_writers[heartbeat.writer_guid].received_heartbeat_count

\* handle_heartbeat_msg.  A HEARTBEAT is [writer_guid, first_sn, last_sn,
\* count, final_flag_set, unicast_reply_locator_list].
handle_heartbeat_msg(heartbeat) ==
  LET writer_guid == heartbeat.writer_guid
      taken_in == WP!irrelevant_changes_up_to(
                    [matched_writers[writer_guid] EXCEPT
                       !.received_heartbeat_count = heartbeat.count],
                    heartbeat.first_sn)
      ackable  == WP!all_ackable_before(taken_in)
      replies  == \/ WP!missing_seqnums(taken_in, heartbeat.first_sn,
                                        heartbeat.last_sn) # {}
                  \/ ~heartbeat.final_flag_set
      reply    == heartbeat_reply(heartbeat, taken_in)
  IN  /\ \/ /\ heartbeat_is_ignored(heartbeat)
            /\ udp_out' = << >>
            /\ UNCHANGED <<matched_writers, topic_cache, notify_vars>>
         \/ /\ ~heartbeat_is_ignored(heartbeat)
            /\ topic_cache' = TC!mark_reliably_received_before(
                                topic_cache, writer_guid, ackable)
            /\ IF TC!marker_moved(topic_cache, writer_guid, ackable)
               THEN notify_cache_change
               ELSE UNCHANGED notify_vars
            /\ matched_writers' = [matched_writers EXCEPT ![writer_guid] =
                 IF replies THEN reply.writer_proxy ELSE taken_in]
            /\ udp_out' = IF replies THEN reply.sent ELSE << >>
      /\ UNCHANGED <<ever_matched, frag_vars, count_vars, timed_event_timer,
                     data_reader_command_receiver, status_vars, now>>

\* The early returns of handle_gap_msg.
gap_is_ignored(gap) ==
  \/ like_stateless
  \/ gap.writer_guid \notin DOMAIN matched_writers
  \/ gap.gap_start <= 0
  \/ gap.gap_list_base <= 0

\* handle_gap_msg.  A GAP is [writer_guid, gap_start, gap_list_base,
\* gap_list]: gap_list is the SequenceNumberSet, by its base and members.
handle_gap_msg(gap) ==
  LET writer_guid == gap.writer_guid
      ranged  == WP!irrelevant_changes_range(matched_writers[writer_guid],
                                             gap.gap_start, gap.gap_list_base)
      listed  == FoldSet(LAMBDA seq_num, wp :
                           WP!set_irrelevant_change(wp, seq_num),
                         ranged, gap.gap_list)
      ackable == WP!all_ackable_before(listed)
  IN  /\ \/ /\ gap_is_ignored(gap)
            /\ UNCHANGED <<matched_writers, topic_cache, notify_vars>>
         \/ /\ ~gap_is_ignored(gap)
            /\ matched_writers' =
                 [matched_writers EXCEPT ![writer_guid] = listed]
            /\ topic_cache' = TC!mark_reliably_received_before(
                                topic_cache, writer_guid, ackable)
            /\ IF TC!marker_moved(topic_cache, writer_guid, ackable)
               THEN notify_cache_change
               ELSE UNCHANGED notify_vars
      /\ udp_out' = << >>
      /\ UNCHANGED <<ever_matched, frag_vars, count_vars, timed_event_timer,
                     data_reader_command_receiver, status_vars, now>>

\* handle_heartbeatfrag_msg: not implemented, the submessage is logged.
handle_heartbeatfrag_msg ==
  /\ udp_out' = << >>
  /\ UNCHANGED <<proxy_vars, frag_vars, topic_cache, count_vars,
                 timed_event_timer, data_reader_command_receiver,
                 notify_vars, status_vars, now>>

-----------------------------------------------------------------------------
(* Timed events, pre-emptive ACKNACKs, reader commands *)

\* calculate_if_requested_deadline_is_missed: the proxies that never had a
\* change, or had the last one more than a deadline ago.
deadline_missed_by(instant) ==
  {g \in DOMAIN matched_writers :
     LET last_change == matched_writers[g].last_change_timestamp
     IN  last_change = None \/ instant - last_change > deadline}

\* Fault: the timer hands out its event before the timeout has expired.
timed_event_timer_poll_early(instant) == timed_event_timer # None

\* timed_event_timer.poll() is Some(DeadlineMissedCheck) at `instant`.
timed_event_timer_poll(instant) ==
  timed_event_timer # None /\ timed_event_timer <= instant

\* The event loop arms the deadline check once, when it takes the Reader in.
start_deadline_check ==
  /\ timed_event_timer = None
  /\ set_requested_deadline_check_timer(now)
  /\ udp_out' = << >>
  /\ UNCHANGED <<proxy_vars, frag_vars, topic_cache, count_vars,
                 data_reader_command_receiver, notify_vars, status_vars, now>>

\* handle_timed_event, when the DeadlineMissedCheck timeout has expired:
\* handle_requested_deadline_event reports one status for each proxy that
\* missed, each with the count as it stood then, and the timer is primed
\* again.  The new timeout is in the future, so the loop ends there.
handle_timed_event ==
  \E instant \in ClockReadings :
    LET missed == Cardinality(deadline_missed_by(instant))
        report(channel, i) == send_status_change(channel,
          [kind |-> "RequestedDeadlineMissed",
           count |-> requested_deadline_missed_count + i])
    IN  /\ timed_event_timer_poll(instant)
        /\ now' = instant
        /\ requested_deadline_missed_count' =
             requested_deadline_missed_count + missed
        /\ status_channel' =
             FoldLeft(report, status_channel, [i \in 1 .. missed |-> i])
        /\ set_requested_deadline_check_timer(instant)
        /\ udp_out' = << >>
        /\ UNCHANGED <<proxy_vars, frag_vars, topic_cache,
                       writer_match_count_total,
                       offered_incompatible_qos_count,
                       data_reader_command_receiver, notify_vars,
                       participant_status_channel>>

\* send_preemptive_acknacks: every proxy that has received nothing draws a
\* count and is sent an ACKNACK that acknowledges nothing and is not final,
\* to the proxy's own unicast locators.
send_preemptive_acknacks ==
  LET silent == {g \in DOMAIN matched_writers :
                   WP!no_changes_received(matched_writers[g])}
      acknack(g) ==
        Message(g, <<[kind |-> "ACKNACK",
                      reader_sn_state |-> [base |-> 1, set |-> {}],
                      count |-> matched_writers[g].sent_ack_nack_count,
                      final |-> FALSE]>>,
                matched_writers[g].unicast_locator_list)
      in_order == SetToSortSeq(silent, guid_before)
  IN  /\ \/ /\ like_stateless
            /\ udp_out' = << >>
            /\ UNCHANGED matched_writers
         \/ /\ stateful
            /\ \A g \in silent :
                 matched_writers[g].sent_ack_nack_count < MaxAckNackCount
            /\ matched_writers' =
                 [g \in DOMAIN matched_writers |->
                    IF g \in silent
                    THEN WP!next_ack_nack_sequence_number(matched_writers[g])
                    ELSE matched_writers[g]]
            /\ udp_out' = [i \in DOMAIN in_order |-> acknack(in_order[i])]
      /\ UNCHANGED <<ever_matched, frag_vars, topic_cache, count_vars,
                     timed_event_timer, data_reader_command_receiver,
                     notify_vars, status_vars, now>>

\* process_command: the commands that wait are received and dropped;
\* ResetRequestedDeadlineStatus is not implemented.
process_command ==
  /\ data_reader_command_receiver' = 0
  /\ udp_out' = << >>
  /\ UNCHANGED <<proxy_vars, frag_vars, topic_cache, count_vars,
                 timed_event_timer, notify_vars, status_vars, now>>

-----------------------------------------------------------------------------
\* What only the Reader's thread changes.
reader_vars == <<proxy_vars, frag_vars, topic_cache, count_vars,
                 timed_event_timer, udp_out, now>>

-----------------------------------------------------------------------------
\* A call of one of the Reader's methods by its event loop.
ReaderStep ==
  \/ \E proxy \in ProxyInputs, compliance_failure \in {None, "policy"} :
       update_writer_proxy(proxy, compliance_failure)
  \/ \E writer_guid \in Writers : remove_writer_proxy(writer_guid)
  \/ \E writer_guid \in Writers : participant_lost(writer_guid[1])
  \/ \E data \in DataInputs : handle_data_msg(data)
  \/ \E datafrag \in DataFragInputs : handle_datafrag_msg(datafrag)
  \/ \E heartbeat \in HeartbeatInputs : handle_heartbeat_msg(heartbeat)
  \/ \E gap \in GapInputs : handle_gap_msg(gap)
  \/ handle_heartbeatfrag_msg
  \/ start_deadline_check
  \/ handle_timed_event
  \/ send_preemptive_acknacks
  \/ process_command

\* The Reader with nobody at the other ends: no-one is required to listen,
\* so the channels fill up and stay full.  Module ReaderConsumer puts the
\* DataReader and the participant there.
ReaderSpec == Init /\ [][ReaderStep]_vars

-----------------------------------------------------------------------------
(* Types *)

Option(S) == S \cup {None}

WriterProxyType ==
  [ack_base : Nat \ {0}, received_changes : SUBSET Nat,
   received_heartbeat_count : Int, sent_ack_nack_count : Nat,
   last_change_timestamp : Option(0 .. MaxTime),
   unicast_locator_list : Seq(STRING)]

AssemblyBufferType ==
  [fragment_count : Nat, fragment_size : Nat, received : SUBSET Nat,
   modified_time : 0 .. MaxTime]

CacheChangeType ==
  [writer_guid : Writers, sequence_number : Int, kind : TC!ChangeKinds]

SubmessageType ==
  [kind : {"ACKNACK"}, reader_sn_state : [base : Nat, set : SUBSET Nat],
   count : Nat, final : BOOLEAN]
  \cup
  [kind : {"NACKFRAG"}, writer_sn : Nat, fragment_number_state : SUBSET Nat,
   count : Nat]

\* The type invariant: every variable holds a value of the shape the Rust
\* field it stands for can hold.
TypeOK ==
  /\ DOMAIN matched_writers \subseteq Writers
  /\ \A g \in DOMAIN matched_writers : matched_writers[g] \in WriterProxyType
  /\ ever_matched \subseteq Writers
  /\ DOMAIN fragment_assemblers \subseteq Writers
  /\ \A g \in DOMAIN fragment_assemblers :
       /\ fragment_assemblers[g].fragment_size \in Nat
       /\ \A sn \in DOMAIN fragment_assemblers[g].assembly_buffers :
            fragment_assemblers[g].assembly_buffers[sn] \in AssemblyBufferType
  /\ last_fragment_garbage_collect \in 0 .. MaxTime
  /\ DOMAIN topic_cache.changes \subseteq 1 .. MaxTime
  /\ \A t \in DOMAIN topic_cache.changes :
       topic_cache.changes[t] \in CacheChangeType
  /\ DOMAIN topic_cache.received_reliably_before \subseteq Writers
  /\ \A g \in DOMAIN topic_cache.received_reliably_before :
       topic_cache.received_reliably_before[g] \in Nat \ {0}
  /\ writer_match_count_total \in Nat
  /\ requested_deadline_missed_count \in Nat
  /\ offered_incompatible_qos_count \in 0 .. MaxIncompatibleQos
  /\ timed_event_timer \in Option(Nat)
  /\ data_reader_command_receiver \in 0 .. CommandCapacity
  /\ data_reader_waker \in BOOLEAN
  /\ poll_event \in BOOLEAN
  /\ notification_channel \in 0 .. NotificationCapacity
  /\ Len(status_channel) <= StatusCapacity
  /\ Len(participant_status_channel) <= ParticipantStatusCapacity
  /\ \A i \in DOMAIN udp_out :
       /\ udp_out[i].writer \in Writers
       /\ udp_out[i].dst_locator_list \in Seq(STRING)
       /\ \A j \in DOMAIN udp_out[i].submessages :
            udp_out[i].submessages[j] \in SubmessageType
  /\ now \in 0 .. MaxTime

-----------------------------------------------------------------------------
(* Properties *)

\* What a proxy has accounted for, read off its fields.
Accounted(writer_proxy, sn) ==
  sn < writer_proxy.ack_base \/ sn \in writer_proxy.received_changes

\* The submessages the latest step sent to writer g, in the order sent.
SentTo(out, g) ==
  FoldLeft(LAMBDA acc, message :
             IF message.writer = g THEN acc \o message.submessages ELSE acc,
           << >>, out)

\* A matched writer's proxy never goes back: whatever order HEARTBEATs, GAPs,
\* DATA and discovery updates arrive in (a HEARTBEAT with an older first_sn
\* after a newer one, an update_writer_proxy of a writer that is already
\* matched), all_ackable_before, the last accepted HEARTBEAT count and the
\* ACKNACK counter only grow, and every sequence number that was accounted
\* for, below all_ackable_before or in the sparse set above it, still is.
ProxyNeverRegresses ==
  [][\A g \in DOMAIN matched_writers \cap DOMAIN matched_writers' :
       /\ matched_writers'[g].ack_base >= matched_writers[g].ack_base
       /\ matched_writers'[g].received_heartbeat_count >=
            matched_writers[g].received_heartbeat_count
       /\ matched_writers'[g].sent_ack_nack_count >=
            matched_writers[g].sent_ack_nack_count
       /\ \A sn \in matched_writers[g].received_changes :
            Accounted(matched_writers'[g], sn)]_vars

\* The watermark the DataReader releases samples by is the proxy's
\* all_ackable_before after every handler: handle_data_msg,
\* handle_datafrag_msg, handle_heartbeat_msg and handle_gap_msg each raise
\* it when they move the proxy, so it neither leads (samples released over
\* a hole) nor lags (samples withheld).  A proxy that has moved nothing has
\* no watermark or the watermark 1.
WatermarkTracksAckable ==
  \A g \in DOMAIN matched_writers :
    IF g \in DOMAIN topic_cache.received_reliably_before
    THEN topic_cache.received_reliably_before[g] = matched_writers[g].ack_base
    ELSE matched_writers[g].ack_base = 1

\* The watermark never leads: it is at most all_ackable_before of the
\* writer's proxy (spec.md section 8, invariant 2).
WatermarkNeverLeads ==
  \A g \in DOMAIN matched_writers \cap
           DOMAIN topic_cache.received_reliably_before :
    topic_cache.received_reliably_before[g] <= matched_writers[g].ack_base

\* A sample of a user-defined writer is in the topic cache at most once,
\* however often and in whatever form it arrives (DATA again, DATA after
\* the DATAFRAGs completed it or the other way round, DATA after a GAP or a
\* HEARTBEAT declared it irrelevant), and what is in the cache from a
\* matched writer is accounted for in its proxy.  This is the filter of
\* process_received_data; the SPDP participant reader is exempt from it.
SampleCachedOnce ==
  LET changes == topic_cache.changes
  IN  \A t \in DOMAIN changes :
        LET g == changes[t].writer_guid IN
          is_user_defined(g) /\ stateful /\ ~is_spdp_participant_reader =>
            /\ \A u \in DOMAIN changes \ {t} :
                 <<changes[u].writer_guid, changes[u].sequence_number>> #
                   <<g, changes[t].sequence_number>>
            /\ g \in DOMAIN matched_writers =>
                 Accounted(matched_writers[g], changes[t].sequence_number)

\* What the Reader tells a writer is true of its proxy when it is sent.  An
\* ACKNACK acknowledges (everything below its base) only what is accounted
\* for, asks again only for what is not, and only within ACKNACK_SET_LIMIT
\* of its base; a NACKFRAG asks for exactly the fragments still missing of
\* a sample that is partly there, and that sample is not asked for as a
\* whole in the ACKNACK beside it.  A writer that is acknowledged a sample
\* may drop it, so a wrong base loses data for good.
RepliesAreSound ==
  \A i \in DOMAIN udp_out :
    LET g  == udp_out[i].writer
        wp == matched_writers[g]
    IN  /\ g \in DOMAIN matched_writers
        /\ \A j \in DOMAIN udp_out[i].submessages :
             LET m == udp_out[i].submessages[j] IN
               \/ /\ m.kind = "ACKNACK"
                  /\ m.reader_sn_state.base <= wp.ack_base
                  /\ \A sn \in m.reader_sn_state.set :
                       /\ ~Accounted(wp, sn)
                       /\ sn >= m.reader_sn_state.base
                       /\ sn < m.reader_sn_state.base + ACKNACK_SET_LIMIT
                       /\ ~is_frag_partially_received(g, sn)
               \/ /\ m.kind = "NACKFRAG"
                  /\ ~Accounted(wp, m.writer_sn)
                  /\ m.fragment_number_state # {}
                  /\ m.fragment_number_state = missing_frags_for(g, m.writer_sn)

\* The counts of the ACKNACKs and NACKFRAGs a step sends to a writer are
\* fresh: no two are equal, none was used before the step (all are at
\* least the proxy's counter before it) and none will be used after it
\* (all are below the counter after it).  A writer drops a reply whose
\* count it has seen, so a reused count silences the Reader.
ReplyCountsAreFresh ==
  [][\A g \in DOMAIN matched_writers \cap DOMAIN matched_writers' :
       LET sent == SentTo(udp_out', g) IN
         /\ \A j \in DOMAIN sent :
              /\ sent[j].count >= matched_writers[g].sent_ack_nack_count
              /\ sent[j].count < matched_writers'[g].sent_ack_nack_count
         /\ \A j, k \in DOMAIN sent : j # k => sent[j].count # sent[k].count
     ]_vars

\* The counts of the replies to one writer increase in the order the
\* replies are sent (spec.md section 8, invariant 6: sent_ack_nack_count is
\* strictly monotonic across all emitted ACKNACK and NACKFRAG).
ReplyCountsIncreaseAsSent ==
  \A g \in Writers :
    LET sent == SentTo(udp_out, g) IN
      \A j, k \in DOMAIN sent : j < k => sent[j].count < sent[k].count

\* The deadline check is periodic.  Once armed, a timeout is always pending
\* and is never further away than one deadline from the latest clock
\* reading; missed deadlines are counted only by a step that found the
\* pending timeout expired and that armed the next one, one deadline later;
\* and such a step counts each matched writer at most once.  So however the
\* event loop schedules handle_timed_event against the clock, a writer is
\* not reported twice for one period (start_deadline_check,
\* handle_timed_event, set_requested_deadline_check_timer).
DeadlineCheckIsPeriodic ==
  [][/\ timed_event_timer # None => timed_event_timer' # None
     /\ timed_event_timer' # None => timed_event_timer' <= now' + deadline
     /\ requested_deadline_missed_count' # requested_deadline_missed_count
          => /\ now' >= timed_event_timer
             /\ timed_event_timer' = now' + deadline
             /\ requested_deadline_missed_count'
                  - requested_deadline_missed_count
                  <= Cardinality(DOMAIN matched_writers)
    ]_vars

\* The SubscriptionMatched statuses, read in the order they were sent, tell
\* the DataReader the truth about the proxies: each `current` is the one
\* before it plus its own current_change, each `total` likewise, also when
\* participant_lost removes several proxies in one call and reports each.
\* While the channel has had room for every status, the latest one agrees
\* with matched_writers and writer_match_count_total; once send_status_change
\* has dropped statuses, what the channel holds is behind the Reader, never
\* ahead of it.  (update_writer_proxy, remove_writer_proxy, participant_lost
\* and send_status_change, with nobody taking statuses out.)
StatusesTellTheMatches ==
  LET matches == SelectSeq(status_channel,
                           LAMBDA status : status.kind = "SubscriptionMatched")
      before(i, field) == IF i = 1 THEN 0 ELSE matches[i - 1][field]
      latest(field) == before(Len(matches) + 1, field)
  IN  /\ \A i \in DOMAIN matches :
           /\ matches[i].current =
                before(i, "current") + matches[i].current_change
           /\ matches[i].total = before(i, "total") + matches[i].total_change
      /\ latest("total") <= writer_match_count_total
      /\ Len(status_channel) < StatusCapacity =>
           /\ latest("current") = Cardinality(DOMAIN matched_writers)
           /\ latest("total") = writer_match_count_total

\* A reply is sent somewhere: when discovery has given every proxy a
\* locator, no ACKNACK or NACKFRAG goes to an empty locator list or to the
\* Invalid locator, whatever INFO_REPLY the HEARTBEAT came with.  (The match
\* on mr_state.unicast_reply_locator_list in handle_heartbeat_msg.)
RepliesHaveADestination ==
  \A i \in DOMAIN udp_out :
    udp_out[i].dst_locator_list \notin {<< >>, <<"Invalid">>}

\* A BestEffort reader acknowledges nothing: all it ever sends is the
\* pre-emptive ACKNACK, based at 1, empty and not final.  HEARTBEATs are
\* refused by the first early return of handle_heartbeat_msg.
BestEffortOnlySolicits ==
  reliability = "BestEffort" =>
    \A i \in DOMAIN udp_out : \A j \in DOMAIN udp_out[i].submessages :
      LET m == udp_out[i].submessages[j] IN
        /\ m.kind = "ACKNACK"
        /\ m.reader_sn_state = [base |-> 1, set |-> {}]
        /\ ~m.final

\* What a step of a stateless reader does: it keeps no proxies, sends
\* nothing and filters nothing, so that every DATA that data_to_dds_data can
\* read is in the cache at its reception time after handle_data_msg, a
\* repeated one and one of an unknown writer included.
DeliversEverything ==
  /\ matched_writers' = << >>
  /\ udp_out' = << >>
  /\ \A data \in DataInputs :
       handle_data_msg(data) /\ data_to_dds_data(data) # None
       => /\ now' \in DOMAIN topic_cache'.changes
          /\ topic_cache'.changes[now'].sequence_number = data.writer_sn
          /\ topic_cache'.changes[now'].writer_guid = data.writer_guid

\* What a step of the SPDP participant reader does with the DATA of a
\* matched writer: it caches it at its reception time whether or not the
\* sequence number is accounted for already (the exception for
\* SPDP_BUILTIN_PARTICIPANT_READER in process_received_data, for peers that
\* do not increment their sequence numbers), a repeated one leaves the
\* proxy's accounting where it was, and the watermark is the proxy's
\* all_ackable_before afterwards.
TakesRepeats ==
  \A data \in DataInputs :
    LET g  == data.writer_guid
        sn == data.writer_sn
    IN  /\ g \in DOMAIN matched_writers
        /\ data_to_dds_data(data) # None
        /\ handle_data_msg(data)
        => /\ now' \in DOMAIN topic_cache'.changes
           /\ topic_cache'.changes[now'].sequence_number = sn
           /\ topic_cache'.changes[now'].writer_guid = g
           /\ topic_cache'.received_reliably_before[g] =
                matched_writers'[g].ack_base
           /\ Accounted(matched_writers[g], sn) =>
                /\ matched_writers'[g].ack_base = matched_writers[g].ack_base
                /\ matched_writers'[g].received_changes =
                     matched_writers[g].received_changes

\* What a step does when reassembly is whole.  A sample that
\* handle_datafrag_msg puts in the cache is whole: with the DATAFRAG that
\* completed it, every fragment 1 .. ceil(data_size / fragment_size) has
\* been received, and the completing DATAFRAG has the fragment size its
\* buffer was made for.  Fragments may come in any order, repeated, past the
\* end, or with sizes that disagree.  The assembler is fed before anything
\* is known of the writer and outlives the writer's proxy
\* (remove_writer_proxy leaves it), so a sample may be completed for a
\* writer without a proxy: it is cached only if the writer is not
\* user-defined.
ReassemblesWhole ==
  \A datafrag \in DataFragInputs :
    /\ topic_cache'.changes # topic_cache.changes
    /\ handle_datafrag_msg(datafrag)
    => LET g   == datafrag.writer_guid
           sn  == datafrag.writer_sn
           old == IF /\ g \in DOMAIN fragment_assemblers
                     /\ sn \in DOMAIN fragment_assemblers[g].assembly_buffers
                  THEN fragment_assemblers[g].assembly_buffers[sn]
                  ELSE FA!new_assembly_buffer(datafrag)
       IN  /\ datafrag.fragment_size = old.fragment_size
           /\ 1 .. old.fragment_count \subseteq
                old.received \cup FA!frags_in(datafrag)
           /\ sn \notin DOMAIN fragment_assemblers'[g].assembly_buffers
           /\ g \in DOMAIN matched_writers \/ ~is_user_defined(g)

\* Assembly buffers do not outlive the timeout by more than the time to the
\* next sweep: no buffer was last touched more than
\* FRAGMENT_ASSEMBLY_TIMEOUT before the latest garbage collection.
StaleFragmentsAreCollected ==
  \A g \in DOMAIN fragment_assemblers :
    \A sn \in DOMAIN fragment_assemblers[g].assembly_buffers :
      fragment_assemblers[g].assembly_buffers[sn].modified_time >=
        last_fragment_garbage_collect - FRAGMENT_ASSEMBLY_TIMEOUT

\* Fragment memory is bounded by the inactivity eviction (spec.md section 5,
\* memory bounds): a buffer that nothing has touched for
\* FRAGMENT_ASSEMBLY_TIMEOUT is gone once the Reader handles a submessage
\* MIN_FRAGMENT_GC_INTERVAL later.  garbage_collect_fragments is called by
\* handle_datafrag_msg alone, and only for a DATAFRAG that completes nothing.
InactiveFragmentsAreEvicted ==
  \A g \in DOMAIN fragment_assemblers :
    \A sn \in DOMAIN fragment_assemblers[g].assembly_buffers :
      now - fragment_assemblers[g].assembly_buffers[sn].modified_time <=
        FRAGMENT_ASSEMBLY_TIMEOUT + MIN_FRAGMENT_GC_INTERVAL

=============================================================================
