------------------------------ MODULE DDSCache ------------------------------
(***************************************************************************)
(* struct DDSCache of src/src/structure/dds_cache.rs: the TopicCaches of a *)
(* participant by topic name, one action per &mut method.  The cache sits  *)
(* behind an Arc<RwLock<..>> that the participant's threads share, so a     *)
(* method call is one atomic step, and the steps of the threads interleave *)
(* freely.  A panic inside a write-locked call poisons the lock: every     *)
(* later lock().unwrap() panics too, and the cache is used no more.        *)
(***************************************************************************)
EXTENDS Integers, FiniteSets, FiniteSetsExt, Functions, TLC

CONSTANTS
  None,              \* Option::None
  TopicNames,        \* the topic names the threads use
  CacheChanges,      \* the CacheChanges they add
  MaxInstant,        \* Timestamps are 1 .. MaxInstant
  MaxSamplesChoices, \* resource_limits.max_samples a thread may set
  DefaultMaxSamples  \* 1024 in the source

VARIABLES
  topic_caches, \* HashMap<String, TopicCache>
  poisoned      \* TRUE: a call has panicked with the lock held

vars == <<topic_caches, poisoned>>

TC == INSTANCE TopicCache

Instants == 1 .. MaxInstant

Init ==
  /\ topic_caches = << >>
  /\ poisoned = FALSE

\* What a method does to the TopicCache of a topic that exists; a topic
\* that does not is logged and nothing changes.
in_topic(topic_name, after(_)) ==
  topic_caches' =
    IF topic_name \in DOMAIN topic_caches
    THEN [topic_caches EXCEPT ![topic_name] = after(@)]
    ELSE topic_caches

-----------------------------------------------------------------------------
\* add_new_topic: false, and nothing changes, when the topic exists.
add_new_topic(topic_name) ==
  /\ ~poisoned
  /\ topic_caches' =
       IF topic_name \in DOMAIN topic_caches
       THEN topic_caches
       ELSE (topic_name :> TC!new_topic_cache) @@ topic_caches
  /\ UNCHANGED poisoned

\* remove_topic
remove_topic(topic_name) ==
  /\ ~poisoned
  /\ topic_caches' = Restrict(topic_caches, DOMAIN topic_caches \ {topic_name})
  /\ UNCHANGED poisoned

\* get_topic_qos_mut, and the caller's write of resource_limits through the
\* reference it returns.
get_topic_qos_mut(topic_name, max_samples) ==
  /\ ~poisoned
  /\ in_topic(topic_name, LAMBDA tc : [tc EXCEPT !.max_samples = max_samples])
  /\ UNCHANGED poisoned

\* to_topic_add_change
to_topic_add_change(topic_name, instant, cache_change) ==
  /\ ~poisoned
  /\ in_topic(topic_name, LAMBDA tc : TC!add_change(tc, instant, cache_change))
  /\ UNCHANGED poisoned

\* from_topic_set_change_to_not_alive_disposed: change_change_kind panics
\* when the topic has no change at `instant`.
from_topic_set_change_to_not_alive_disposed(topic_name, instant) ==
  /\ ~poisoned
  /\ IF /\ topic_name \in DOMAIN topic_caches
        /\ TC!change_kind_panics(topic_caches[topic_name], instant)
     THEN poisoned' = TRUE /\ UNCHANGED topic_caches
     ELSE /\ in_topic(topic_name,
               LAMBDA tc : TC!set_change_to_not_alive_disposed(tc, instant))
          /\ UNCHANGED poisoned

\* from_topic_remove_change
from_topic_remove_change(topic_name, instant) ==
  /\ ~poisoned
  /\ in_topic(topic_name, LAMBDA tc : TC!remove_change(tc, instant))
  /\ UNCHANGED poisoned

\* from_topic_remove_before
from_topic_remove_before(topic_name, instant) ==
  /\ ~poisoned
  /\ in_topic(topic_name, LAMBDA tc : TC!remove_changes_before(tc, instant))
  /\ UNCHANGED poisoned

-----------------------------------------------------------------------------
(* The &self methods, by what they return. *)

\* get_topic_qos, by the resource limit in it; None also for no topic.
get_topic_qos(topic_name) ==
  IF topic_name \in DOMAIN topic_caches
  THEN topic_caches[topic_name].max_samples
  ELSE None

\* from_topic_get_change: Option, as a set with at most one member.
from_topic_get_change(topic_name, instant) ==
  IF topic_name \in DOMAIN topic_caches
  THEN TC!get_change(topic_caches[topic_name], instant)
  ELSE {}

\* from_topic_get_all_changes, by the Timestamps returned.
from_topic_get_all_changes(topic_name) ==
  IF topic_name \in DOMAIN topic_caches
  THEN TC!get_all_changes(topic_caches[topic_name])
  ELSE {}

\* from_topic_get_changes_in_range, by the Timestamps returned.
from_topic_get_changes_in_range(topic_name, start_instant, end_instant) ==
  IF topic_name \in DOMAIN topic_caches
  THEN TC!get_changes_in_range(topic_caches[topic_name], start_instant,
                               end_instant)
  ELSE {}

-----------------------------------------------------------------------------
Next ==
  \E topic_name \in TopicNames :
    \/ add_new_topic(topic_name)
    \/ remove_topic(topic_name)
    \/ \E max_samples \in MaxSamplesChoices :
         get_topic_qos_mut(topic_name, max_samples)
    \/ \E instant \in Instants :
         \/ \E cache_change \in CacheChanges :
              to_topic_add_change(topic_name, instant, cache_change)
         \/ from_topic_set_change_to_not_alive_disposed(topic_name, instant)
         \/ from_topic_remove_change(topic_name, instant)
         \/ from_topic_remove_before(topic_name, instant)

Spec == Init /\ [][Next]_vars

-----------------------------------------------------------------------------
\* The type invariant: a TopicCache for some of the topic names, each with
\* whole CacheChanges under Timestamps and a resource limit or none.
TypeOK ==
  /\ poisoned \in BOOLEAN
  /\ DOMAIN topic_caches \subseteq TopicNames
  /\ \A topic_name \in DOMAIN topic_caches :
       LET tc == topic_caches[topic_name] IN
         /\ DOMAIN tc.changes \subseteq Instants
         /\ \A t \in DOMAIN tc.changes :
              /\ tc.changes[t] \in
                   [writer_guid : {c.writer_guid : c \in CacheChanges},
                    sequence_number : {c.sequence_number : c \in CacheChanges},
                    kind : TC!ChangeKinds]
         /\ tc.max_samples \in MaxSamplesChoices \cup {None}

\* The `limit` newest of the Timestamps `keys` that are not before `instant`.
NewestNotBefore(keys, instant, limit) ==
  {k \in keys : k >= instant /\ Cardinality({j \in keys : j >= k}) <= limit}

\* from_topic_remove_before keeps exactly the changes it should: those not
\* before `instant`, and of them only the max_samples newest of the cache
\* (the default when the topic QoS has no resource limits).  Nothing newer
\* is lost and nothing beyond the limit is kept, however the cache was
\* filled, trimmed and re-configured before; this is the split key that
\* TopicCache::remove_changes_before computes with take(..).last().
RetentionHonoursLimit ==
  [][\A topic_name \in DOMAIN topic_caches, instant \in Instants :
       from_topic_remove_before(topic_name, instant) =>
         DOMAIN topic_caches'[topic_name].changes =
           NewestNotBefore(DOMAIN topic_caches[topic_name].changes, instant,
                           TC!max_keep_samples(topic_caches[topic_name]))]_vars

\* After from_topic_remove_before a topic holds at most max_samples changes
\* (spec.md section 4.3: the split key "guarantees at most max_samples
\* entries are retained").
RetentionKeepsAtMostMaxSamples ==
  [][\A topic_name \in DOMAIN topic_caches, instant \in Instants :
       from_topic_remove_before(topic_name, instant) =>
         Cardinality(DOMAIN topic_caches'[topic_name].changes) <=
           TC!max_keep_samples(topic_caches[topic_name])]_vars

\* A thread that polls with from_topic_get_changes_in_range, each time from
\* the end of the range before, sees every change once: two adjoining
\* ranges do not overlap, and together they are the range from the first
\* start to the last end.
RangeReadsPartition ==
  \A topic_name \in TopicNames :
    \A a, b, c \in 0 .. MaxInstant :
      a <= b /\ b <= c =>
        LET range(x, y) == from_topic_get_changes_in_range(topic_name, x, y)
        IN  /\ range(a, b) \cap range(b, c) = {}
            /\ range(a, b) \cup range(b, c) = range(a, c)
            /\ range(0, MaxInstant) = from_topic_get_all_changes(topic_name)

=============================================================================
