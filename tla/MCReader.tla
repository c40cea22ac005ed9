------------------------------ MODULE MCReader ------------------------------
(***************************************************************************)
(* Reader, with the inputs the environment may deliver built from small    *)
(* bounds.  A configuration picks the bounds and, by name, the sets of     *)
(* writers and of submessage shapes it explores.                           *)
(***************************************************************************)
EXTENDS Reader

CONSTANTS
  MaxSN,             \* writers number their samples 1 .. MaxSN
  MaxHeartbeatCount, \* HEARTBEAT counts are 1 .. MaxHeartbeatCount
  FragmentedSNs,     \* the sequence numbers that are sent as DATAFRAGs
  SampleSizes,       \* data_size of a fragmented sample
  FragmentSizes,     \* fragment_size of a DATAFRAG
  SourceTimestamps,  \* mr_state.source_timestamp of a DATAFRAG
  ReplyLocatorLists  \* mr_state.unicast_reply_locator_list of a HEARTBEAT

\* A user-defined writer and a built-in (discovery) writer of participant 1.
UserAndBuiltinWriter == {<<1, 1>>, <<1, 2>>}
\* The built-in (discovery) writers of two participants.
BuiltinWritersOfTwoParticipants == {<<1, 2>>, <<2, 2>>}
OneWriter == {<<1, 1>>}
OnlyEntityOne == {1}

\* The HEARTBEAT comes without an INFO_REPLY, or with one.
NoReplyLocators     == {<< >>}
AnyReplyLocators == {<< >>, <<"Invalid">>, <<"reply">>}

\* The contents of a DATA submessage, by the arm of data_to_dds_data taken.
AliveData ==
  [serialized_payload |-> "ok", data_flag |-> TRUE, key_flag |-> FALSE,
   key_hash |-> FALSE, status_info |-> None]
DisposeByKey == [AliveData EXCEPT !.data_flag = FALSE, !.key_flag = TRUE]
DisposeByKeyHash ==
  [serialized_payload |-> None, data_flag |-> FALSE, key_flag |-> FALSE,
   key_hash |-> TRUE, status_info |-> "NOT_ALIVE_UNREGISTERED"]
NoContents    == [DisposeByKeyHash EXCEPT !.key_hash = FALSE]
DataAndKey    == [AliveData EXCEPT !.key_flag = TRUE]
MysteryData   == [AliveData EXCEPT !.data_flag = FALSE]
MissingData   == [AliveData EXCEPT !.serialized_payload = None]
MalformedData == [AliveData EXCEPT !.serialized_payload = "malformed"]
AliveDispose  == [DisposeByKey EXCEPT !.status_info = "ALIVE"]

AllDataShapes == {AliveData, DisposeByKey, DisposeByKeyHash, NoContents,
                  DataAndKey, MysteryData, MissingData, MalformedData,
                  AliveDispose}
AliveOrMalformed == {AliveData, MalformedData}
NoInputs == {}

DataOf(shapes) ==
  {[writer_guid |-> g, writer_sn |-> sn] @@ shape :
     g \in Writers, sn \in 1 .. MaxSN, shape \in shapes}

AllData    == DataOf(AllDataShapes)
SimpleData == DataOf(AliveOrMalformed)
AliveOnly  == DataOf({AliveData})

\* Of the writers only the first one sends; the others are matched and stay
\* silent.
AliveOfOneWriter == {data \in AliveOnly : data.writer_guid \in OneWriter}

DataFrags ==
  [writer_guid : Writers, writer_sn : FragmentedSNs,
   fragment_starting_num : 1 .. 3, fragments_in_submessage : {1},
   fragment_size : FragmentSizes, data_size : SampleSizes,
   source_timestamp : SourceTimestamps]

\* A HEARTBEAT announces first_sn .. last_sn, and last_sn = first_sn - 1 when
\* the writer has nothing to offer.
Heartbeats ==
  {heartbeat \in [writer_guid : Writers, first_sn : 1 .. MaxSN,
                  last_sn : 0 .. MaxSN, count : 1 .. MaxHeartbeatCount,
                  final_flag_set : BOOLEAN,
                  unicast_reply_locator_list : ReplyLocatorLists] :
     heartbeat.last_sn >= heartbeat.first_sn - 1}

\* A GAP names gap_start .. gap_list_base - 1 and the members of gap_list;
\* a start or a base of 0 is what the handler refuses.
Gaps ==
  {gap \in [writer_guid : Writers, gap_start : 0 .. MaxSN,
            gap_list_base : 0 .. MaxSN, gap_list : {{}, {MaxSN}}] :
     gap.gap_list_base = 0 \/ gap.gap_list_base >= gap.gap_start}

HeartbeatsOfOneWriter ==
  {heartbeat \in Heartbeats : heartbeat.writer_guid \in OneWriter}
GapsOfOneWriter == {gap \in Gaps : gap.writer_guid \in OneWriter}

Proxies ==
  [remote_writer_guid : Writers, unicast_locator_list : {<<"unicast">>}]

=============================================================================
