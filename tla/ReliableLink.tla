---------------------------- MODULE ReliableLink ----------------------------
(***************************************************************************)
(* The Reader of reader.rs at one end of a UDP network, a reliable RTPS    *)
(* writer at the other.  The Reader's side is the actions of module        *)
(* Reader, each handler called with a submessage taken from the network    *)
(* and what it sends put on the network.  The network loses and reorders   *)
(* datagrams.  The writer is not code of this repository: it is the least  *)
(* a reliable writer does with the submessages of spec.md section 6        *)
(* (DATA or DATAFRAGs once per sample, HEARTBEATs while something is       *)
(* unacknowledged, again what an ACKNACK or a NACKFRAG names and a GAP for *)
(* what it no longer has, samples forgotten once they are acknowledged or  *)
(* when its history is full).                                              *)
(***************************************************************************)
EXTENDS Reader

CONSTANTS
  TheWriter,          \* the GUID of the writer
  MaxWrites,          \* the writer writes the samples 1 .. MaxWrites
  MaxEarlyHeartbeats, \* HEARTBEATs the writer may send while datagrams
                      \* are still in flight
  MaxHeartbeats,      \* cap of the writer's HEARTBEAT count
  MaxForgotten,       \* samples the writer may give up unacknowledged
  Fragmented,         \* the samples too large for one DATA
  MaxLoss             \* datagrams the network may lose

ASSUME TheWriter \in Writers /\ is_user_defined(TheWriter)

VARIABLES
  writer_last_sn,         \* the writer has written 1 .. writer_last_sn
  writer_heartbeat_count, \* count of the latest HEARTBEAT
  writer_acked_before,    \* every sample below it is acknowledged
  writer_acknack_count,   \* count of the latest ACKNACK taken in
  writer_forgotten_before, \* every sample below it was given up
                          \* unacknowledged
  to_reader,              \* datagrams in flight to the Reader
  to_writer,              \* datagrams in flight to the writer
  lost                    \* datagrams lost so far

writer_vars == <<writer_last_sn, writer_heartbeat_count, writer_acked_before,
                 writer_acknack_count, writer_forgotten_before>>
net_vars    == <<to_reader, to_writer, lost>>
link_vars   == <<vars, writer_vars, net_vars>>

\* The Reader's variables that no step of the link touches by itself.
idle_reader_vars == <<proxy_vars, frag_vars, topic_cache, count_vars,
                      timed_event_timer, data_reader_command_receiver,
                      notify_vars, status_vars, udp_out, now>>

-----------------------------------------------------------------------------
(* Submessages of the writer *)

Data(sn) ==
  [kind |-> "DATA", writer_guid |-> TheWriter, writer_sn |-> sn,
   serialized_payload |-> "ok", data_flag |-> TRUE, key_flag |-> FALSE,
   key_hash |-> FALSE, status_info |-> None]

\* A large sample goes out as two DATAFRAGs of one fragment each.
DataFrag(sn, fragment) ==
  [kind |-> "DATAFRAG", writer_guid |-> TheWriter, writer_sn |-> sn,
   fragment_starting_num |-> fragment, fragments_in_submessage |-> 1,
   fragment_size |-> 1, data_size |-> 2, source_timestamp |-> None]

\* The submessages that carry a sample.
Sample(sn) ==
  IF sn \in Fragmented THEN {DataFrag(sn, 1), DataFrag(sn, 2)} ELSE {Data(sn)}

\* The writer announces what it still has: the samples from first_sn on.
Heartbeat(first_sn, count) ==
  [kind |-> "HEARTBEAT", writer_guid |-> TheWriter,
   first_sn |-> first_sn, last_sn |-> writer_last_sn,
   count |-> count, final_flag_set |-> FALSE,
   unicast_reply_locator_list |-> << >>]

\* The samples gap_start .. gap_list_base - 1 will not come.
Gap(gap_start, gap_list_base) ==
  [kind |-> "GAP", writer_guid |-> TheWriter, gap_start |-> gap_start,
   gap_list_base |-> gap_list_base, gap_list |-> {}]

\* What the UDP sender puts on the network of the messages a handler sent:
\* every submessage of a message that has somewhere to go.
Datagrams(out) ==
  UNION {Range(out[i].submessages) :
           i \in {k \in DOMAIN out : out[k].dst_locator_list # << >>}}

-----------------------------------------------------------------------------
(* The writer *)

\* The application writes a sample; the writer sends it at once.
writer_write ==
  /\ writer_last_sn < MaxWrites
  /\ writer_last_sn' = writer_last_sn + 1
  /\ to_reader' = to_reader \cup Sample(writer_last_sn')
  /\ UNCHANGED <<idle_reader_vars, writer_heartbeat_count,
                 writer_acked_before, writer_acknack_count,
                 writer_forgotten_before, to_writer, lost>>

\* The writer's history is full: it gives up its oldest sample, which the
\* Reader has not acknowledged.
writer_forget ==
  /\ writer_forgotten_before <= MaxForgotten
  /\ Max({writer_acked_before, writer_forgotten_before}) <= writer_last_sn
  /\ writer_forgotten_before' =
       Max({writer_acked_before, writer_forgotten_before}) + 1
  /\ UNCHANGED <<idle_reader_vars, writer_last_sn, writer_heartbeat_count,
                 writer_acked_before, writer_acknack_count, net_vars>>

\* Nothing is in flight: the heartbeat period is longer than the network
\* takes to deliver or lose a datagram.
Quiescent == to_reader = {} /\ to_writer = {}

\* The heartbeat timer of the writer, while a sample is unacknowledged.
\* HEARTBEATs that find the Reader without a proxy change nothing there and
\* are left out, but for the early ones.
writer_heartbeat ==
  /\ writer_heartbeat_count < MaxHeartbeats
  /\ writer_acked_before <= writer_last_sn
  /\ \/ Quiescent /\ TheWriter \in DOMAIN matched_writers
     \/ writer_heartbeat_count < MaxEarlyHeartbeats
  /\ writer_heartbeat_count' = writer_heartbeat_count + 1
  /\ to_reader' = to_reader \cup
       {Heartbeat(Max({writer_acked_before, writer_forgotten_before}),
                  writer_heartbeat_count')}
  /\ UNCHANGED <<idle_reader_vars, writer_last_sn, writer_acked_before,
                 writer_acknack_count, writer_forgotten_before, to_writer,
                 lost>>

\* The writer takes an ACKNACK in: one with a count it has seen is dropped;
\* what is below the base is acknowledged and forgotten, what the set names
\* is sent again or, when the writer has given it up, declared a GAP, and
\* an ACKNACK that is not final is answered with a HEARTBEAT.
writer_handle_acknack(acknack) ==
  LET acked  == Max({writer_acked_before, acknack.reader_sn_state.base})
      kept   == Max({acked, writer_forgotten_before})
      asked  == acknack.reader_sn_state.set \cap acked .. writer_last_sn
      again  == UNION {Sample(sn) : sn \in {a \in asked : a >= kept}}
      gone   == {a \in asked : a < kept}
      gap    == IF gone = {} THEN {} ELSE {Gap(Min(gone), kept)}
      answer == IF acknack.final \/ writer_heartbeat_count = MaxHeartbeats
                THEN {}
                ELSE {Heartbeat(kept, writer_heartbeat_count + 1)}
  IN  /\ acknack \in to_writer /\ acknack.kind = "ACKNACK"
      /\ to_writer' = to_writer \ {acknack}
      /\ IF acknack.count <= writer_acknack_count
         THEN UNCHANGED <<writer_vars, to_reader>>
         ELSE /\ writer_acknack_count' = acknack.count
              /\ writer_acked_before' = acked
              /\ writer_heartbeat_count' =
                   writer_heartbeat_count + Cardinality(answer)
              /\ to_reader' = to_reader \cup again \cup gap \cup answer
              /\ UNCHANGED <<writer_last_sn, writer_forgotten_before>>
      /\ UNCHANGED <<idle_reader_vars, lost>>

\* The writer takes a NACKFRAG in and sends the fragments it names again,
\* when it still has the sample.
writer_handle_nackfrag(nackfrag) ==
  LET kept == Max({writer_acked_before, writer_forgotten_before})
      have == nackfrag.writer_sn \in kept .. writer_last_sn
      again == {DataFrag(nackfrag.writer_sn, f) :
                  f \in IF have THEN nackfrag.fragment_number_state ELSE {}}
  IN  /\ nackfrag \in to_writer /\ nackfrag.kind = "NACKFRAG"
      /\ to_writer' = to_writer \ {nackfrag}
      /\ to_reader' = to_reader \cup again
      /\ UNCHANGED <<idle_reader_vars, writer_vars, lost>>

-----------------------------------------------------------------------------
(* The network *)

\* A datagram is lost, in either direction.
lose ==
  /\ lost < MaxLoss
  /\ lost' = lost + 1
  /\ \/ \E m \in to_reader :
          to_reader' = to_reader \ {m} /\ UNCHANGED to_writer
     \/ \E m \in to_writer :
          to_writer' = to_writer \ {m} /\ UNCHANGED to_reader
  /\ UNCHANGED <<idle_reader_vars, writer_vars>>

-----------------------------------------------------------------------------
(* The Reader's event loop *)

\* Discovery tells the Reader of the writer.
discover_writer ==
  /\ update_writer_proxy([remote_writer_guid |-> TheWriter,
                          unicast_locator_list |-> <<"unicast">>], None)
  /\ UNCHANGED <<writer_vars, net_vars>>

\* A DATA arrives and is handled.
receive_data(m) ==
  /\ m \in to_reader /\ m.kind = "DATA"
  /\ handle_data_msg(m)
  /\ to_reader' = to_reader \ {m}
  /\ UNCHANGED <<writer_vars, to_writer, lost>>

\* A DATAFRAG arrives and is handled.
receive_datafrag(m) ==
  /\ m \in to_reader /\ m.kind = "DATAFRAG"
  /\ handle_datafrag_msg(m)
  /\ to_reader' = to_reader \ {m}
  /\ UNCHANGED <<writer_vars, to_writer, lost>>

\* A HEARTBEAT arrives and is handled; the replies go out.
receive_heartbeat(m) ==
  /\ m \in to_reader /\ m.kind = "HEARTBEAT"
  /\ handle_heartbeat_msg(m)
  /\ to_reader' = to_reader \ {m}
  /\ to_writer' = to_writer \cup Datagrams(udp_out')
  /\ UNCHANGED <<writer_vars, lost>>

\* A GAP arrives and is handled.
receive_gap(m) ==
  /\ m \in to_reader /\ m.kind = "GAP"
  /\ handle_gap_msg(m)
  /\ to_reader' = to_reader \ {m}
  /\ UNCHANGED <<writer_vars, to_writer, lost>>

\* The periodic call of send_preemptive_acknacks, while it has someone to
\* send to.
solicit ==
  /\ \E g \in DOMAIN matched_writers :
       WP!no_changes_received(matched_writers[g])
  /\ send_preemptive_acknacks
  /\ to_writer' = to_writer \cup Datagrams(udp_out')
  /\ UNCHANGED <<writer_vars, to_reader, lost>>

-----------------------------------------------------------------------------
LinkInit ==
  /\ Init
  /\ writer_last_sn = 0
  /\ writer_heartbeat_count = 0
  /\ writer_acked_before = 1
  /\ writer_acknack_count = -1
  /\ writer_forgotten_before = 1
  /\ to_reader = {}
  /\ to_writer = {}
  /\ lost = 0

LinkNext ==
  \/ writer_write
  \/ writer_heartbeat
  \/ writer_forget
  \/ \E acknack \in to_writer : writer_handle_acknack(acknack)
  \/ lose
  \/ discover_writer
  \/ \E m \in to_reader : receive_data(m)
  \/ \E m \in to_reader : receive_heartbeat(m)
  \/ \E m \in to_reader : receive_gap(m)
  \/ \E m \in to_reader : receive_datafrag(m)
  \/ \E nackfrag \in to_writer : writer_handle_nackfrag(nackfrag)
  \/ solicit

\* The event loop of the Reader handles every datagram that has arrived and
\* every discovery update, the writer's timer fires and the writer handles
\* what it receives.  Nothing is assumed of the application (it may stop
\* writing) nor of the network beyond the bound on what it loses.
Fairness ==
  /\ WF_link_vars(discover_writer)
  /\ WF_link_vars(\E m \in to_reader : receive_data(m))
  /\ WF_link_vars(\E m \in to_reader : receive_heartbeat(m))
  /\ WF_link_vars(\E m \in to_reader : receive_gap(m))
  /\ WF_link_vars(\E m \in to_reader : receive_datafrag(m))
  /\ WF_link_vars(\E nackfrag \in to_writer : writer_handle_nackfrag(nackfrag))
  /\ WF_link_vars(\E acknack \in to_writer : writer_handle_acknack(acknack))
  /\ WF_link_vars(writer_heartbeat)

LinkSpec == LinkInit /\ [][LinkNext]_link_vars /\ Fairness

-----------------------------------------------------------------------------
(* The refinement mapping *)

\* The sequence numbers of the writer's changes in the topic cache, in the
\* order of their reception timestamps.
arrived_in_cache ==
  LET changes == topic_cache.changes
      mine    == {t \in DOMAIN changes : changes[t].writer_guid = TheWriter}
      instants == SetToSortSeq(mine, LAMBDA t, u : t < u)
  IN  [i \in DOMAIN instants |-> changes[instants[i]].sequence_number]

\* The writer's watermark, 1 while there is none.
released_in_cache ==
  IF TheWriter \in DOMAIN topic_cache.received_reliably_before
  THEN topic_cache.received_reliably_before[TheWriter]
  ELSE 1

RS == INSTANCE ReliableStream WITH
        written      <- writer_last_sn,
        arrived      <- arrived_in_cache,
        released     <- released_in_cache,
        acknowledged <- writer_acked_before,
        kept_from    <- writer_forgotten_before

-----------------------------------------------------------------------------
(* Properties *)

\* The link implements the reliable stream: whatever the network loses or
\* reorders and whenever discovery matches the writer, a sample is put in
\* the topic cache at most once (a DATA sent again after a late ACKNACK, or
\* overtaken by the HEARTBEAT that asked for it, or completed twice from
\* fragments, is filtered), the watermark set by handle_data_msg,
\* handle_datafrag_msg, handle_heartbeat_msg and handle_gap_msg passes a
\* sample that is not in the cache only when the writer has given it up,
\* and no ACKNACK lets the writer forget a sample the DataReader cannot
\* have.
ImplementsReliableStream == RS!Spec

\* The DataReader is not kept waiting: again and again the watermark is
\* above everything the writer wrote (each sample is in the cache, or the
\* writer gave it up) and the writer is acknowledged all of it, although
\* the network loses datagrams and fragments and DATA may arrive before the
\* Reader has a proxy for the writer: the HEARTBEAT, the ACKNACK and
\* NACKFRAG of handle_heartbeat_msg and what the writer sends in answer
\* recover every loss.
EverySampleGetsThrough == RS!Complete

=============================================================================
