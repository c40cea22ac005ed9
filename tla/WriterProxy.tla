----------------------------- MODULE WriterProxy -----------------------------
(***************************************************************************)
(* RtpsWriterProxy: what a Reader remembers about one matched remote       *)
(* writer.  The type is used by src/src/rtps/reader.rs but its file is not *)
(* part of this repository, so every operator here follows section 4.2 of  *)
(* spec.md, in the representation that section recommends:                 *)
(*                                                                         *)
(*   ack_base         every sequence number below it is accounted for      *)
(*   received_changes the accounted sequence numbers above ack_base        *)
(*                                                                         *)
(* "Accounted for" means delivered (DATA) or declared irrelevant (GAP,     *)
(* HEARTBEAT.first_sn).  ack_base is never a member of received_changes:   *)
(* fold_in restores that after every insertion.                            *)
(***************************************************************************)
EXTENDS Integers, FiniteSets

CONSTANT None \* Option::None

\* RtpsWriterProxy::new: sequence numbers start at 1, nothing received.
new_writer_proxy(unicast_locator_list) ==
  [ack_base                 |-> 1,
   received_changes         |-> {},
   received_heartbeat_count |-> 0,
   sent_ack_nack_count      |-> 0,
   last_change_timestamp    |-> None,
   unicast_locator_list     |-> unicast_locator_list]

\* update_contents: discovery data is replaced, the accounting is kept
\* ("updates or adds a new writer proxy, doesn't touch changes").
update_contents(wp, proxy) ==
  [wp EXCEPT !.unicast_locator_list = proxy.unicast_locator_list]

all_ackable_before(wp) == wp.ack_base

should_ignore_change(wp, sn) ==
  sn < wp.ack_base \/ sn \in wp.received_changes

\* When the smallest member of the sparse set equals the prefix end, fold
\* it into the prefix; repeat while that is so.
RECURSIVE fold_in(_)
fold_in(wp) ==
  IF wp.ack_base \in wp.received_changes
  THEN fold_in([wp EXCEPT !.ack_base = @ + 1,
                          !.received_changes = @ \ {wp.ack_base}])
  ELSE wp

\* Account for a set of sequence numbers; those below ack_base already are.
account_for(wp, sns) ==
  fold_in([wp EXCEPT !.received_changes =
                        @ \cup {sn \in sns : sn >= wp.ack_base}])

set_irrelevant_change(wp, sn) == account_for(wp, {sn})

\* The half-open range [lo, hi).
irrelevant_changes_range(wp, lo, hi) == account_for(wp, lo .. hi - 1)

received_changes_add(wp, sn, receive_timestamp) ==
  [account_for(wp, {sn}) EXCEPT !.last_change_timestamp = receive_timestamp]

\* The writer no longer has anything below smallest_seqnum: the prefix
\* jumps there, and never moves back.
irrelevant_changes_up_to(wp, smallest_seqnum) ==
  IF smallest_seqnum <= wp.ack_base
  THEN wp
  ELSE fold_in([wp EXCEPT
                  !.ack_base = smallest_seqnum,
                  !.received_changes = {sn \in @ : sn >= smallest_seqnum}])

\* The sequence numbers of [first, last] not accounted for.  The code takes
\* them as an ascending list; the set and its minimum say the same.
missing_seqnums(wp, first, last) ==
  {sn \in first .. last : ~should_ignore_change(wp, sn)}

\* next_ack_nack_sequence_number returns the counter and then increments it.
next_ack_nack_sequence_number(wp) ==
  [wp EXCEPT !.sent_ack_nack_count = @ + 1]

no_changes_received(wp) == wp.ack_base = 1 /\ wp.received_changes = {}

=============================================================================
