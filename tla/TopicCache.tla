----------------------------- MODULE TopicCache -----------------------------
(***************************************************************************)
(* The cache of one topic: struct TopicCache and the DDSHistoryCache it    *)
(* owns (src/src/structure/dds_cache.rs), as operators on a record         *)
(*                                                                         *)
(*   [changes                  : BTreeMap<Timestamp, CacheChange>,         *)
(*    received_reliably_before : BTreeMap<GUID, SequenceNumber>,           *)
(*    max_samples              : topic_qos.resource_limits, an Option]     *)
(*                                                                         *)
(* A BTreeMap is a function whose DOMAIN is the set of its keys.  A        *)
(* CacheChange is abstracted to the fields the Reader and the properties   *)
(* tell apart: [writer_guid, sequence_number, kind].                       *)
(*                                                                         *)
(* The watermark map and mark_reliably_received_before are called by       *)
(* reader.rs but are not defined in the dds_cache.rs kept in this          *)
(* repository; they follow section 4.3 of spec.md.                         *)
(***************************************************************************)
EXTENDS Integers, FiniteSets, FiniteSetsExt, Functions, TLC

CONSTANTS
  None,             \* Option::None
  DefaultMaxSamples \* 1024 in remove_changes_before, used when the topic
                    \* QoS has no resource_limits

\* ChangeKind, as the Reader's deduce_change_kind can produce it.
ChangeKinds ==
  {"ALIVE", "NOT_ALIVE_DISPOSED", "NOT_ALIVE_UNREGISTERED",
   "NOT_ALIVE_DISPOSED_UNREGISTERED"}

\* Fault: the QoS a new topic starts with has resource limits, of -1.
new_topic_cache_limited ==
  [changes |-> << >>, received_reliably_before |-> << >>, max_samples |-> -1]

\* TopicCache::new with DDSHistoryCache::new: nothing stored, no watermark,
\* and the QoS of QosPolicyBuilder::new().build(), without resource limits.
new_topic_cache ==
  [changes |-> << >>, received_reliably_before |-> << >>, max_samples |-> None]

\* resource_limits().unwrap_or(ResourceLimits {max_samples: 1024, ..})
max_keep_samples(tc) ==
  IF tc.max_samples = None THEN DefaultMaxSamples ELSE tc.max_samples

\* DDSHistoryCache::get_change as Option: the set is empty or a singleton.
get_change(tc, instant) ==
  {tc.changes[t] : t \in DOMAIN tc.changes \cap {instant}}

\* DDSHistoryCache::add_change.  BTreeMap::insert REPLACES the value when
\* the key exists; the code only logs an error in that case.
add_change(tc, instant, cache_change) ==
  [tc EXCEPT !.changes = (instant :> cache_change) @@ @]

\* The branch of add_change that logs "already contained element with key".
add_change_collides(tc, instant) == instant \in DOMAIN tc.changes

\* DDSHistoryCache::get_all_changes, as the set of keys in the map.
get_all_changes(tc) == DOMAIN tc.changes

\* BTreeMap::range panics when the start bound is above the end bound.
range_panics(start_instant, end_instant) == start_instant > end_instant

\* DDSHistoryCache::get_range_of_changes: both bounds Included.
get_range_of_changes(tc, start_instant, end_instant) ==
  {t \in DOMAIN tc.changes : start_instant <= t /\ t <= end_instant}

\* Fault: the start bound is Included, as it is in get_range_of_changes.
get_changes_in_range_from_start(tc, start_instant, end_instant) ==
  {t \in DOMAIN tc.changes : start_instant <= t /\ t <= end_instant}

\* TopicCache::get_changes_in_range -> get_range_of_changes_vec:
\* start Excluded, end Included.
get_changes_in_range(tc, start_instant, end_instant) ==
  {t \in DOMAIN tc.changes : start_instant < t /\ t <= end_instant}

\* DDSHistoryCache::remove_change.
remove_change(tc, instant) ==
  [tc EXCEPT !.changes = Restrict(@, DOMAIN @ \ {instant})]

\* DDSHistoryCache::remove_changes_before: split_off keeps the keys that
\* are greater than or equal to the split key.
history_remove_changes_before(tc, instant) ==
  [tc EXCEPT !.changes = Restrict(@, {t \in DOMAIN @ : t >= instant})]

\* Fault: take(max(0, remove_count)), without the + 1.
split_key_one_short(tc, instant) ==
  LET keys         == DOMAIN tc.changes
      remove_count == Cardinality(keys) - max_keep_samples(tc)
      rank(k)      == Cardinality({j \in keys : j < k})
      taken        == {k \in keys : rank(k) < Max({0, remove_count})}
  IN  IF taken = {} THEN instant ELSE Max({Max(taken), instant})

\* The split key of TopicCache::remove_changes_before:
\* keys().take(max(0, remove_count) + 1).last(), raised to `instant`;
\* `instant` itself when the cache is empty.
split_key(tc, instant) ==
  LET keys         == DOMAIN tc.changes
      remove_count == Cardinality(keys) - max_keep_samples(tc)
      rank(k)      == Cardinality({j \in keys : j < k})
      taken        == {k \in keys : rank(k) < Max({0, remove_count}) + 1}
  IN  IF taken = {} THEN instant ELSE Max({Max(taken), instant})

\* TopicCache::remove_changes_before.
remove_changes_before(tc, instant) ==
  history_remove_changes_before(tc, split_key(tc, instant))

\* DDSHistoryCache::change_change_kind panics when the key is absent.
change_kind_panics(tc, instant) == instant \notin DOMAIN tc.changes

\* TopicCache::set_change_to_not_alive_disposed, where it does not panic.
set_change_to_not_alive_disposed(tc, instant) ==
  [tc EXCEPT !.changes[instant].kind = "NOT_ALIVE_DISPOSED"]

\* mark_reliably_received_before: raise the writer's watermark to
\* max(current, sn).  A writer without a watermark gets one.
mark_reliably_received_before(tc, writer_guid, sn) ==
  LET rrb == tc.received_reliably_before
  IN  IF writer_guid \in DOMAIN rrb /\ rrb[writer_guid] >= sn
      THEN tc
      ELSE [tc EXCEPT !.received_reliably_before = (writer_guid :> sn) @@ @]

\* Fault: TRUE iff the writer had no watermark (what BTreeMap::insert tells).
marker_moved_when_new(tc, writer_guid, sn) ==
  writer_guid \notin DOMAIN tc.received_reliably_before

\* Its return value: TRUE iff the watermark advanced.
marker_moved(tc, writer_guid, sn) ==
  mark_reliably_received_before(tc, writer_guid, sn) # tc

=============================================================================
