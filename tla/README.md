# TLA+ models of the RustDDS Reader, topic cache and shapes demo

This directory holds TLA+ specifications of the receiving side of RustDDS:
the RTPS `Reader` (`src/src/rtps/reader.rs`) and the cache it fills
(`src/src/structure/dds_cache.rs`), the Reader put together with a lossy
network and a remote writer, an abstract specification of the reliable
stream this link implements, the UDP listener, the shapes demo program
(`src/examples/async_shapes_demo`), and the repository's unit tests replayed
on the models, with the TLC configurations that check them. `PROJECT.json` lists every component, run, fault variant, source
mapping, finding and hazard in machine-readable form; this file explains them.

Run any configuration from this directory, for example

    tlc -workers 2 -config ReaderReliable.cfg MCReader

## 1. The system

### Parts and how they interact

| Part | Source | What it is |
|---|---|---|
| `Reader` | `src/src/rtps/reader.rs` | One per subscribed topic. Called by the participant's event loop with every submessage, discovery update, timer event and command. Keeps a proxy per matched remote writer, reassembles fragments, fills the topic cache, answers HEARTBEATs with ACKNACK/NACKFRAG, and reports statuses. |
| `RtpsWriterProxy` | outside the repository (spec.md §4.2) | What the Reader knows of one remote writer: which sequence numbers are accounted for (`ack_base` plus a sparse set), the last HEARTBEAT count accepted, the ACKNACK counter, the time of the last change, the locators. |
| `FragmentAssembler` | outside the repository (spec.md §4.1) | Per writer, one assembly buffer per sequence number that is partly received. |
| `TopicCache`, `DDSHistoryCache` | `src/src/structure/dds_cache.rs` | An ordered map from reception timestamp to `CacheChange`, the topic's QoS, and (used by reader.rs, described in spec.md §4.3) a per-writer watermark `received_reliably_before`. |
| `DDSCache` | `src/src/structure/dds_cache.rs` | The map from topic name to `TopicCache`, shared by all threads of a participant behind an `RwLock`. |
| DataReader, DomainParticipant | outside the repository | Consumers: they drain the status and notification channels, register a waker, and read the topic cache. |
| `UDPListener` | `src/src/network/udp_listener.rs` | A non-blocking UDP socket bound to one address and port; `get_message` hands over one datagram, or an empty message when there is none. |
| Shapes demo | `src/examples/async_shapes_demo/main.rs` | A program that publishes and/or subscribes shapes: `main` reads the command line and builds the QoS, a read loop and a write loop run under one executor, and a Ctrl-C handler thread stops them through a bounded channel. |
| Network utilities, endpoint attributes, serialization adapters, security certificates, integration tests | other files under `src/` | Plain data, address conversion, cryptography and programs that drive a whole participant. Not modelled; see §7. |

The Reader runs on **one event-loop thread**. Every method returns without
blocking, so for the Reader's own state one method call is one atomic step;
towards the DataReader, which shares the topic cache and the waker slot, a
call is two steps, the change of the cache and the notification that follows
it (module `ReaderConsumer`). What makes the Reader hard
is the *order of calls*, which the network and discovery choose:

* submessages arrive over UDP lost, repeated and reordered;
* a sample can arrive as DATA, as DATAFRAGs, or be declared irrelevant by a
  GAP or a HEARTBEAT, in any combination;
* discovery matches, updates, unmatches and re-matches writers at any time;
* the clock is read once per handler, and nothing in the Reader makes two
  readings differ;
* the channels to the consumers are bounded and written with `try_send`;
* the consumer thread reads the cache, registers its waker and takes from
  the channels between any two steps of the Reader, and between a change of
  the cache and its notification.

The `DDSCache`, in contrast, is called from **several threads**; each call
holds the write lock for its duration, and a panic under the lock poisons it.

### State

`Reader`: `matched_writers`, `fragment_assemblers`,
`last_fragment_garbage_collect`, the topic cache, the three counters
(`writer_match_count_total`, `requested_deadline_missed_count`,
`offered_incompatible_qos_count`), `timed_event_timer`, the command receiver,
the waker slot, the poll event, the notification channel, the two status
channels, and the UDP sender.

`DDSCache`: `topic_caches` (topic name → TopicCache) and whether the lock is
poisoned.

### What each part must get right

| Part | Correctness |
|---|---|
| Writer proxy | never goes back: what was accounted for stays accounted for; counts are never reused |
| Reader with writer and network | what is cached, released and acknowledged is a reliable stream; every sample written is in the end released (or passed over once the writer gave it up) and acknowledged |
| Reader, DATA path | a sample is cached once, whatever form and order it arrives in; the stateless reader caches everything; the SPDP reader caches a repeated announcement again and leaves proxy and watermark where they were |
| Reader, reliability | an ACKNACK acknowledges only what is accounted for, asks only for what is missing, within the set limit; NACKFRAG names exactly the missing fragments |
| Reader, watermark | equals the proxy's `all_ackable_before` after every handler |
| Reader, fragments | only whole samples are delivered, none for a user-defined writer whose proxy is gone; stale buffers are swept |
| Reader, notification | a DataReader that waits, on its waker or in a poll, is not left waiting while something is readable; everything readable is read in the end |
| Reader, statuses | the SubscriptionMatched sequence steps one proxy at a time, also when a participant is lost with several writers; it agrees with the proxies while the channel had room, and is behind them, never ahead, once it has dropped |
| Reader, deadline | the check timer stays armed; a writer is counted once for a period |
| TopicCache | trimming keeps the newest `max_samples` changes that are not before the cut-off; range reads partition the cache |

## 2. Modules

| Module | Models | Lines it is translated from |
|---|---|---|
| `WriterProxy` | `RtpsWriterProxy` as operators on a record | spec.md §4.2 (the code is not in the repository) |
| `FragmentAssembler` | `FragmentAssembler` and `AssemblyBuffer` as operators | spec.md §4.1 (not in the repository) |
| `TopicCache` | `TopicCache` and `DDSHistoryCache` as operators on a record | dds_cache.rs 169–319; the watermark from spec.md §4.3 |
| `DDSCache` | the shared map of topic caches: one action per `&mut self` method, one operator per `&self` method | dds_cache.rs 26–165 |
| `Reader` | the Reader: one action per public method, the private methods as the operators they use | reader.rs 163–1405 |
| `ReaderConsumer` | `Reader` composed with the DataReader and the participant: a handler's change of the cache and its `notify_cache_change` as two steps, the DataReader as an async task or a polling thread between them | the Reader's side is module `Reader`; `reader_notify` is reader.rs 1204–1211; the consumers follow spec.md §5 and §6 |
| `ReliableStream` | the abstract specification: what a reliable reader promises about the samples of one writer | — (a specification, not a model of code) |
| `ReliableLink` | `Reader` composed with a network that loses and reorders and with a remote reliable writer | the Reader's side is module `Reader`; `Datagrams` is reader.rs 1232–1245; writer and network follow spec.md §4.4 and §6 |
| `UDPListener` | the listener's socket, the datagrams the operating system holds for it, what a call returns: one action per method | udp_listener.rs 20–76 |
| `ShapesDemo` | the demo program: command line, QoS, Ctrl-C handler, read loop, write loop, `move_shape` | main.rs 43–265, 292–424 |
| `UnitTests` | `mod tests` of reader.rs, dds_cache.rs and udp_listener.rs: each test as the calls it makes, its assertions as a property | reader.rs 1456–1967, dds_cache.rs 344–408, udp_listener.rs 86–131 |
| `MCReader`, `MCReaderKinds`, `MCReaderConsumer`, `MCReliableLink`, `MCDDSCache`, `MCShapesDemo` | the input sets and constants of the runs | — |

`Reader` instantiates `WriterProxy`, `FragmentAssembler` and `TopicCache`
(`WP!`, `FA!`, `TC!`); `DDSCache` instantiates `TopicCache`. `ReliableLink`
extends `Reader` and instantiates `ReliableStream` under a refinement mapping.
`UnitTests` instantiates `Reader` once for each set of ingredients the tests
construct a Reader with (`R(stateless, qos_reliability)`), `DDSCache` and
`UDPListener`. `MCReaderKinds` extends `MCReader`, which is the BestEffort
stateful reader, and instantiates `Reader` three times more: with
`like_stateless <- TRUE`, as the Reliable SPDP participant reader with
the SPDP writers of two participants, and as a reliable reader of
fragmented samples with a lifespan. The variable `kind`, chosen in the initial state, says which of
the four takes the steps. `ReaderConsumer` extends `Reader` and instantiates
it once more as `Handler`, with the three notification paths replaced by
variables of its own.

### How the Reader model corresponds to the code

* **Actions.** `update_writer_proxy`, `remove_writer_proxy`,
  `participant_lost`, `handle_data_msg`, `handle_datafrag_msg`,
  `handle_heartbeat_msg`, `handle_gap_msg`, `handle_heartbeatfrag_msg`,
  `handle_timed_event`, `send_preemptive_acknacks` and `process_command`
  are the public methods of the same names. Each action is the whole call:
  `handle_heartbeat_msg`, for instance, updates the proxy, raises the
  watermark, notifies, draws the counts and sends the replies in one step.
  The guards are the code's early returns; an early return is a step that
  changes nothing but the clock reading.
* **Inputs.** A submessage is a record of the fields the handlers look at. A
  DATA carries `data_flag`, `key_flag`, whether a payload is present and
  parses, whether a key hash is there, and the `status_info` of the inline
  QoS; `data_to_dds_data` and `deduce_change_kind` turn these into a change
  kind or an error exactly as the `match` in the code does. Payload bytes and
  write options are left out.
* **GUIDs** are pairs `<<guid_prefix, entity_id>>`, ordered lexicographically
  as the `BTreeMap` keys are; `participant_lost` removes a prefix range in
  that order.
* **Time** is a number of ticks. Each handler that calls `Timestamp::now()`
  takes one reading, `ClockSteps` later than the one before. All runs take a
  clock whose readings differ (`0 \notin ClockSteps`); see "The clock" in
  section 3 for what happens otherwise.
* **The timer** `timed_event_timer` is the expiry of the pending timeout or
  `None`. `Reader::new` does not arm it; the event loop calls
  `set_requested_deadline_check_timer` once after construction, which is the
  action `start_deadline_check`.
  `handle_timed_event` is a step only when the pending timeout has expired:
  a call that finds none changes nothing in the code and is left out as a
  stuttering step. Its `while let` loop is one iteration, because the
  timer holds one timeout and the handler arms the next one in the future.
* **Guards that are bounds.** Two actions have a guard the code does not
  have, which only caps a counter that nothing else bounds:
  `send_preemptive_acknacks` stops at `MaxAckNackCount` and `qos_mismatch`
  at `MaxIncompatibleQos`. A third guard is a switch on the environment:
  with `Rematch = FALSE` discovery does not match a writer again that was
  removed (`matched_writer_update`). `WatermarkTracksAckable`,
  `SampleCachedOnce` and the refinement of the link hold under it only;
  `reader_rematch` turns it on and shows what happens then.
* **Channels.** `status_channel` and `participant_status_channel` are
  sequences with a capacity; `send_status_change` drops when full, as
  `try_send` does. The notification channel holds `()` and is a counter.
* **`udp_out`** holds the messages the latest step handed to the UDP sender,
  in the order sent, each with the locator list it went to.
* **`ever_matched`** is a history variable (not in the code) that lets a
  configuration forbid re-matching (`Rematch = FALSE`).
* **Fragment completion.** When a DATAFRAG completes a sample the buffer is
  removed and the sample goes through `process_received_data` as an ALIVE
  change.
* **Watermark.** `mark_reliably_received_before` creates the watermark of a
  writer that has none and reports it as moved.

### How the ReaderConsumer model corresponds to the code

The handlers change the topic cache under its mutex
(`make_cache_change`, or `acquire_the_topic_cache_guard()
.mark_reliably_received_before(..)` as a temporary), release the mutex, and
then call `notify_cache_change` (reader.rs 751–753, 905–910, 1116–1124). The
DataReader runs on another thread and can take the mutex in between.

| Code | Model |
|---|---|
| a method of the Reader, up to its call of `notify_cache_change` | `reader_call`: a step of `Handler!ReaderStep`. `Handler` is module `Reader` with `poll_event <- notifying`, and a waker slot and a notification channel that nobody else touches, so that `notifying` is raised exactly by a handler that calls `notify_cache_change`. While `notifying`, the Reader takes no other step |
| `notify_cache_change` | `reader_notify`: the operator `notify_cache_change` of module `Reader` on the real waker slot, poll event and channel; `woken` is set when a waker was taken out of the slot (`take().map(\|w\| w.wake_by_ref())`) |
| the DataReader as an async stream | `data_reader` is `"polling"`, `"registering"`, `"registered"` or `"suspended"`: `data_reader_poll` reads what is readable, `data_reader_set_waker` overwrites the slot, a second `data_reader_poll` looks again, and `data_reader_wake` is the executor polling the task once `woken` |
| the DataReader as a thread in `poll` | `data_reader` is `"waiting"` or `"reading"`: `data_reader_take_notification`, then `data_reader_poll` |
| what a DataReader hands over | `readable(tc)`: for a reliable reader the changes below their writer's watermark, the ones the comment in `handle_gap_msg` calls "able to move forward"; `seen` is what has been read |
| the other ends of the channels | `data_reader_send_command`, `data_reader_take_status`, `participant_take_status` |

What `handle_heartbeat_msg` does after it has notified (it builds and sends
the reply) is part of `reader_call`; it touches nothing the DataReader reads.
The DataReader's code is not in the repository. spec.md §5 says that it
suspends on the waker when the cache has nothing new; that it looks again
after it has registered its waker is what the Reader's order of steps
requires of it: a task that registers and suspends at once can register
after the Reader has notified, and sleep on what the Reader inserted.

### How the DDSCache model corresponds to the code

Each `&mut self` method of `DDSCache` is an action over `topic_caches`, guarded
by the lock not being poisoned; each `&self` method is an operator. A topic
that does not exist is the `None` arm of the code (an error is logged, nothing
changes). `from_topic_set_change_to_not_alive_disposed` with an instant that is
not in the cache is the `panic!` of `change_change_kind`: the model sets
`poisoned`, after which no action is enabled, which is what a poisoned
`RwLock` with `.unwrap()` callers amounts to.

### The reliable link and its abstract specification

`ReliableStream` has five variables and says nothing of submessages, proxies
or counts: the writer has `written` the samples 1..written and has given up
those below `kept_from`; `arrived` is the sequence of sequence numbers in the
cache; `released` is the watermark below which the DataReader hands samples
to the application; `acknowledged` is what the writer has been told. A sample
arrives once and only after it was written; the watermark passes only samples
that have arrived or that the writer gave up, and never goes back; the writer
is acknowledged only what is released.

`ReliableLink` is the detailed specification. Its steps are

| Action | What it is |
|---|---|
| `discover_writer` | discovery calls `update_writer_proxy` (at any time: before, between or after the first samples) |
| `receive_data`, `receive_datafrag`, `receive_heartbeat`, `receive_gap` | the event loop hands a datagram that arrived to `handle_data_msg`, `handle_datafrag_msg`, `handle_heartbeat_msg`, `handle_gap_msg`; what the handler gave the UDP sender goes on the network (`Datagrams`, the submessages of every message that has somewhere to go) |
| `solicit` | the periodic `send_preemptive_acknacks` |
| `writer_write` | the application writes; the sample goes out as DATA, or as two DATAFRAGs when it is in `Fragmented` |
| `writer_heartbeat` | the writer's heartbeat timer, while something is unacknowledged |
| `writer_handle_acknack`, `writer_handle_nackfrag` | the writer drops an ACKNACK with a count it has seen, forgets what is acknowledged, sends again what is named, answers with a GAP for what it no longer has and with a HEARTBEAT when the ACKNACK is not final |
| `writer_forget` | the writer's history is full: it gives up its oldest sample although it is not acknowledged |
| `lose` | the network loses a datagram, in either direction |

The network is a set of datagrams in each direction: any datagram in it can
be delivered next (reordering) or be lost. The Reader's side is module
`Reader` unchanged. The writer is not code of this repository; it is the
least a reliable RTPS writer does with the submessages of spec.md, and is an
assumption about the environment, not a model of RustDDS's writer.

The refinement mapping is

    written      <- writer_last_sn
    kept_from    <- writer_forgotten_before
    arrived      <- the sequence numbers of the writer's changes in
                    topic_cache.changes, in the order of their instants
    released     <- topic_cache.received_reliably_before of the writer (1 if none)
    acknowledged <- writer_acked_before

and `ImplementsReliableStream` is `RS!Spec`: every step of the link is a step
of `ReliableStream` or leaves the five mapped values alone.

### The unit tests

Each `#[test]` is an action of `UnitTests` that makes the test's calls in
their order, one a step, on a Reader instantiated with the ingredients the
test builds (`qos_none()` has no reliability, which `Reader::new` takes for
BestEffort). `TestsPass` states the assertions of the tests at the step
after which the test makes them. The value `handle_heartbeat_msg` returns
(whether it replied) is `udp_out # << >>` after the step. The thread that
`create_dds_cache` spawns is joined before the test goes on, so its calls
have their place in the order. Between two calls the clock moves by any of
`ClockSteps`.

The two tests of udp_listener.rs send with a `UDPSender`, which is not in the
repository. Its send is the step `os_receives`: the datagram is with the
socket when the send returns. That is what the tests rely on themselves
(`udpl_single_address` reads the non-blocking socket at once), and for the
multicast test the source has its doubts (`TODO: there is something wrong
with this test`); the model shows what the listener does if the operating
system delivers, not that it delivers.

### How the UDPListener model corresponds to the code

`listener` is the struct (token, the socket's address, whether the bind
succeeded, the groups joined), `socket_queue` the receive queue of the
socket, `returned` the value of the last call. `new` with `bound = FALSE` is
the panic of the `expect`s. `get_message` takes the head of the queue, cut to
`BUFFER_SIZE` as `recv` into a buffer of that size does, or returns the empty
message. `join_multicast` and `leave_multicast` refuse an address that is
not multicast and pass on the answer of the operating system otherwise.

### How the ShapesDemo model corresponds to the code

| Code | Model |
|---|---|
| `get_matches()` and the rules given to clap | `matches`, one of `CommandLines`; `get_matches(command_line)` is what clap lets through |
| the `panic!` and the three `assert!`s of `main` | `panics(args)`; `refuse` ends the program as `"exited"` (clap) or `"panicked"` |
| `QosPolicyBuilder` | `qos_of(args)`: a number that does not parse is the model value `NaN` |
| `smol::channel::bounded(2)` | `stop_channel`, a count of `()` |
| the closure given to `ctrlc::set_handler` | `handler_sends`: the `send_blocking` calls still to make; `ctrl_c` adds two, `handler_send` makes one when there is room |
| `read_loop`, `write_loop` | `"select"` (at `select!`), `"async_write"` (the write loop awaits the write), `"done"`; each arm of a `select!` is an action |
| `futures::join!` under `block_on` | `join`: `main` returns when both loops are done |
| `move_shape` | `move_shape`, with `move` for one coordinate |

A loop whose endpoint was not created is done from the start. The arms that
print (a sample, a disposed key, an event) change nothing and are steps that
leave every variable alone; the `Err` of the sample stream breaks the read
loop. Which arm `select!` takes is the choice of the next action.

## 3. Runs

All times are for two workers. "Distinct" is the number of distinct states.

| Run | Module, config | Properties | Distinct | Time |
|---|---|---|---|---|
| `reader_reliable` | `MCReader`, `ReaderReliable.cfg` | `TypeOK`, `WatermarkTracksAckable`, `SampleCachedOnce`, `RepliesAreSound`, `ProxyNeverRegresses`, `ReplyCountsAreFresh` | 72,035 | ~80 s |
| `reader_consumer` | `MCReaderConsumer`, `ReaderConsumer.cfg` | `NoLostWakeup`, `NoLostNotification`, `EverythingReadableIsRead` | 162,732 | ~45 s |
| `reader_kinds` | `MCReaderKinds`, `ReaderKinds.cfg` | `BestEffortNeverAcknowledges`, `StatefulCachesOnce`, `StatelessDeliversEverything`, `SpdpStatusesTellTheMatches`, `SpdpRepliesHaveADestination`, `SpdpTakesRepeats`, `StaleFragmentsAreCollected`, `ReassemblyIsWhole` | 198,299 | ~2 min |
| `reader_deadline` | `MCReader`, `ReaderDeadline.cfg` | `StatusesTellTheMatches`, `DeadlineCheckIsPeriodic` | 206,911 | ~40 s |
| `dds_cache` | `MCDDSCache`, `DDSCache.cfg` | `TypeOK`, `RangeReadsPartition`, `RetentionHonoursLimit` | 12,823 | ~10 s |
| `reliable_link` | `MCReliableLink`, `ReliableLink.cfg` | `ImplementsReliableStream`, `EverySampleGetsThrough` | 281,731 | ~1.5 min |
| `unit_tests` | `UnitTests`, `UnitTests.cfg` | `TestsPass` | 159 | ~2 s |
| `shapes_demo` | `MCShapesDemo`, `ShapesDemo.cfg` | `TypeOK`, `ShapeStaysInDrawingArea`, `CtrlCStopsTheProgram` | 193,158 | ~30 s |
| `reader_rematch` | `MCReader`, `ReaderRematch.cfg` | `WatermarkNeverLeads` | violated | |
| `reader_reply_order` | `MCReader`, `ReaderReplyOrder.cfg` | `ReplyCountsIncreaseAsSent` | violated | |
| `reader_fragment_eviction` | `MCReader`, `ReaderEviction.cfg` | `InactiveFragmentsAreEvicted` | violated | |
| `dds_cache_zero_limit` | `MCDDSCache`, `DDSCacheZeroLimit.cfg` | `RetentionKeepsAtMostMaxSamples` | violated | |

### What the passing runs show

**reader_reliable.** One reliable stateful reader, one writer, sequence
numbers 1..3 of which 2 is fragmented, HEARTBEAT counts 1..2, every
well-formed HEARTBEAT and GAP over those numbers, every order. The proxy
never goes back (`ProxyNeverRegresses`), the watermark is the proxy's
`all_ackable_before` after every step (`WatermarkTracksAckable`), a sample is
in the cache once and accounted for (`SampleCachedOnce`), every ACKNACK and
NACKFRAG is true of the proxy it was built from and respects the set limit
(`RepliesAreSound`, with `ACKNACK_SET_LIMIT = 2` so that trimming happens
within three sequence numbers), and no count is used twice
(`ReplyCountsAreFresh`).

**reader_consumer.** A reliable Reader of one writer and its DataReader,
which is an async task or a polling thread (chosen in the initial state) and
takes its steps between the Reader's, also between a handler's change of the
cache and its notification. The writer's two samples arrive in either
order, with every HEARTBEAT and GAP, so that a sample can become readable
when it is inserted or later, when a GAP or a HEARTBEAT lets the watermark
pass it. A suspended task that was not woken has its waker in the slot, and
has read everything readable unless the Reader is about to notify
(`NoLostWakeup`): the stale waker of an earlier registration, a wake-up that
comes while the task is still running, and a registration that falls
between insertion and notification are all harmless. A thread that waits
in its poll while something is unread has a notification or a poll event
waiting, or the Reader is about to notify (`NoLostNotification`): the
notification that `try_send` drops on a full channel is never the only one.
Under weak fairness of the notification and of the DataReader, again and
again everything readable has been read (`EverythingReadableIsRead`).

**reader_kinds.** The kinds of Reader besides the plain reliable reader of
user data; which one the Reader is, is chosen in the initial state (`kind`).
The
two kinds that `Reader::new` makes of BestEffort ingredients both hear a
user-defined and a built-in writer. Neither sends anything but empty
pre-emptive ACKNACKs (`BestEffortNeverAcknowledges`).
The stateful one keeps user samples single although DATA of unmatched
built-in writers is let through unfiltered (`StatefulCachesOnce`). The
stateless one, which is given DATA of every shape (alive, disposed by key or
by key hash, malformed, contradictory flags) and followed one clock reading
further, stores no proxy, sends nothing, and caches every DATA that
`data_to_dds_data` can read (`StatelessDeliversEverything`). The third kind
is the SPDP participant reader with the SPDP writers of two participants,
matched, updated, removed one by one and by `participant_lost`. The
SubscriptionMatched statuses add up (`SpdpStatusesTellTheMatches`; the
channel has room for all of them here); with locators from discovery every
reply has a destination whatever reply locators the HEARTBEAT carried
(`SpdpRepliesHaveADestination`); and DATA of a matched SPDP writer is cached
whether or not its sequence number is accounted for already, the exception
of `process_received_data` for peers that do not increment their sequence
numbers, while a repeated one moves neither the proxy nor the watermark
(`SpdpTakesRepeats`). The fourth kind is a reliable reader of
one writer that sends its sample as fragments: fragments of sizes 1 and 2
for samples of sizes 2 and 3, a lifespan of 2 ticks, source timestamps
present or absent, clock steps 1 and 2, garbage collection with timeout 2
and interval 1. Only whole samples reach the cache, and none of a writer
whose proxy `remove_writer_proxy` has taken away while its assembler went on
collecting (`ReassemblyIsWhole`), and no buffer is older than the timeout at a sweep
(`StaleFragmentsAreCollected`, which is stated of every kind).

**reader_deadline.** A reliable reader whose QoS has a deadline of 2 ticks
and a lifespan of 2 ticks, with a clock that moves by 1 or 2 ticks up to 5.
It is matched with two writers of one participant, of which one sends DATA,
HEARTBEATs and GAPs and the other stays silent, and its status channel has
room for 5 statuses that nobody takes out, so that it fills up and drops.
The timer stays armed once started, and missed deadlines are counted only
by a step that found it expired and re-armed it, each writer at most once
(`DeadlineCheckIsPeriodic`). The SubscriptionMatched statuses step up and
down by one proxy, also when `participant_lost` removes both proxies in one
call and reports each; the latest one agrees with the proxies as long as
the channel has had room, and what a full channel holds is behind the
Reader's counts and never ahead of them (`StatusesTellTheMatches`).

**dds_cache.** Two topics, instants 1..3, limits `None` (the default, here
2), 1 and 3, all actions in any order. Trimming removes exactly what the
limit and the cut-off say (`RetentionHonoursLimit`), and two adjoining calls
of `from_topic_get_changes_in_range` see every change once
(`RangeReadsPartition`).

**reliable_link.** The writer writes two samples, the second as two
DATAFRAGs; it may give up one sample unacknowledged; the network may lose one
datagram of any kind in either direction and delivers in any order; discovery
matches the writer at any point; one HEARTBEAT may be sent while datagrams
are in flight, so that what it asks for crosses what is on its way.
The link implements `ReliableStream` (`ImplementsReliableStream`): no sample
is cached twice, the watermark passes a sample that is not in the cache only
when the writer has given it up (a HEARTBEAT whose `first_sn` moved on, or a
GAP), and the writer is acknowledged only what is released. Under the
fairness of section 5 the watermark ends up above every sample written and
the writer learns it (`EverySampleGetsThrough`). The run reaches, among
others: DATA dropped because it came before the match and recovered by
HEARTBEAT and ACKNACK; a lost ACKNACK repeated on the next HEARTBEAT; a
NACKFRAG for the missing fragment; a GAP for a sample asked for and gone; a
late DATA of a sample the watermark has already passed.

**unit_tests.** The five tests of reader.rs, `create_dds_cache` of
dds_cache.rs and the two tests of udp_listener.rs hold of the models,
whatever the clock reads between two calls (`TestsPass`): the models answer
the tests as the code does. What the tests pin down is little (one DATA,
four HEARTBEATs, two GAPs, two datagrams), which is why they are a check of
the models and the other runs are the check of the code.

**shapes_demo.** The program started with each of twelve command lines;
those clap or `main` turn away end at once, the others run the loops their
roles ask for. Ctrl-C is pressed up to twice, at any moment after the
handler is set. Once it has been pressed the program ends
(`CtrlCStopsTheProgram`): each loop that runs takes one of the two stop
messages, wherever it was when the handler sent them, also when the read
loop has already left by `break` and when the second press finds the
channel full. The handler never puts more in the channel than it holds
(`TypeOK`; what the loops do not take stays there, and a handler that is
blocked in `send_blocking` ends with the process). Every shape handed to
`async_write` lies inside the drawing area, a half size from its edges
(`ShapeStaysInDrawingArea`), although the shape starts at (0, 0) outside of
it. The first tick puts it on the near edges and turns round a velocity that
pointed into the area, so that such a shape is published on the edge twice
before it sets off; the property allows that.

### The clock

`add_change` keys a change by its reception timestamp. Two calls of
`Timestamp::now()` in handlers that follow each other can in principle return
the same value; the second change then replaces the first (dds_cache.rs:257
logs an error) although the proxy has accounted for both. With
`ClockSteps = {0, 1}` TLC finds `ImplementsReliableStream` violated in this
way: a sample that was acknowledged is no longer in the cache. All runs
therefore assume a clock that moves between two readings that lead to an
insertion, which is what a nanosecond clock gives on one thread; the
assumption is the model's, the code does not enforce it.
`create_dds_cache` passes for the same reason: its three changes are added at
three readings of the clock.

### What the violation runs show (findings)

1. **Re-match under an old watermark** (`reader_rematch`, reader.rs:445).
   `remove_writer_proxy` leaves the writer's watermark in the topic cache.
   When the writer is matched again its new proxy starts at 1 under a
   watermark that is higher, against spec.md §8 invariant 2
   (`w(W) ≤ all_ackable_before(W)`). Sequence numbers below the watermark are
   accepted again.
2. **Replies sent out of count order** (`reader_reply_order`,
   reader.rs:964/994/1024–1044). The ACKNACK draws count *c*, the NACKFRAGs
   *c+1…*; the NACKFRAGs are sent first. spec.md §8 invariant 6 asks for
   strictly monotonic counts across all emitted replies.
3. **Fragments are evicted only by other fragments**
   (`reader_fragment_eviction`, reader.rs:632). `garbage_collect_fragments`
   is called from one place, the branch of `handle_datafrag_msg` for a
   DATAFRAG that completes nothing. A partial buffer stays for as long as no
   such DATAFRAG arrives: in the counterexample the sample itself arrives as
   DATA and its fragment is still held two clock readings later. spec.md §5
   bounds the assemblers' memory by the inactivity eviction. Together with
   `fragment_assembler_mutable`, which creates an assembler for any writer
   GUID heard before anything is checked, what the Reader holds is bounded by
   what its peers choose to send.
4. **`max_samples ≤ 0` keeps one change** (`dds_cache_zero_limit`,
   dds_cache.rs:226–232). The split key is then the newest key, so the
   newest change survives every cut-off up to its own instant (a later
   cut-off removes it too), also for −1 (DDS `LENGTH_UNLIMITED`). spec.md §4.3
   says at most `max_samples` are retained.

Also observed, without a run of its own: spec.md §8 invariant 4 (cached
sequence numbers are a subset of those announced by HEARTBEAT) is not
something the code enforces or is meant to; DATA is accepted from a matched
writer before any HEARTBEAT, as the specification's own Scenario A requires.
And equal clock readings overwrite a change (see "The clock" above).

### Fault variants

For every property of a passing run `PROJECT.json` names a fault variant: an
operator, defined next to the one it replaces and introduced by a comment
`\* Fault:`, that changes it the way a plausible bug would (the status sent
without the capacity check, the watermark not raised after an insertion, the
entity-kind test of `process_received_data` dropped, the ACKNACK set not
trimmed, the HEARTBEAT count not compared, the ACKNACK counter advanced once
per batch of replies, the status built before the removal or after all
removals, the reply-locator arms swapped, the timer polled early, the
BestEffort test dropped, the stateless branch dropped, the SPDP exception
dropped, a new assembler for every DATAFRAG, the sweep cutting off at the time
of the sweep before, a cache constructed with a limit, a range read from the
wrong end, the split key one short). With the variant in place the
property is violated under the run's own configuration. The link's
refinement is broken by the dropped entity-kind test (DATA that came before
the match is cached and then cached again when it is sent again), its
liveness by the swapped reply-locator arms (the ACKNACK goes nowhere and the
writer sends HEARTBEATs for ever), and the unit tests by the HEARTBEAT count
that is not compared. The demo's variants are a handler that does not wait
for room in the channel, a `move_shape` that does not look at the far edge,
and a handler that sends one stop message for both loops. The Reader with
its DataReader has three: a notification that ends when the channel is full
(the waker is then never taken, and a task sleeps), a watermark that is
reported as moved only when it is created (a GAP releases a sample and the
polling thread is not told), and a waker that is left in its slot and never
woken (the task never reads again).

## 4. Bounds

Every bound is a named constant of the configuration.

| Constant | Values | Why it is enough |
|---|---|---|
| `MaxSN` | 1–3 | three numbers give a hole between two received samples and a trimmed ACKNACK set with `ACKNACK_SET_LIMIT = 2` |
| `MaxHeartbeatCount` | 1–2 | two counts give new, repeated and older HEARTBEATs |
| `ACKNACK_SET_LIMIT` | 2 (256 in the code) | the limit is reached within `MaxSN` |
| `FRAGMENT_ASSEMBLY_TIMEOUT`, `MIN_FRAGMENT_GC_INTERVAL` | 2, 1 ticks (10 s, 2 s) | both a sweep that is too early and one that collects happen within `MaxTime` |
| `MaxTime` | 2–6 | bounds the clock; the deadline check needs two periods |
| `ClockSteps` | `{1}`, `{1,2}` | 2 lets a deadline or a lifespan pass in one step; 0 (two equal readings) is left out, see "The clock" |
| `StatusCapacity` etc. | 1–6 | 1 makes the channels overflow; 6 keeps the status history whole |
| `MaxAckNackCount`, `MaxIncompatibleQos` | 1–2 | cap the two counters that nothing else bounds |
| `Writers` | 1 or 2 | two writers of one participant for `participant_lost`, of two participants for independence |
| `MaxInstant`, `MaxSamplesChoices`, `DefaultMaxSamples` | 3, `{None,1,3}`, 2 | a cache that is under, at and over its limit |
| `MaxWrites`, `Fragmented` (link) | 2, `{2}` | two samples give a hole before a received sample, a sample overtaken by the next, and one sample of each form |
| `MaxLoss` (link) | 1 | every single loss of a DATA, DATAFRAG, HEARTBEAT, GAP, ACKNACK or NACKFRAG; with two losses the instance has 660,591 states and the same result |
| `MaxForgotten` (link) | 1 | the writer gives up the first or the second sample, before or after the Reader asked for it |
| `MaxEarlyHeartbeats` (link) | 1 | one HEARTBEAT that does not wait for the network to be empty; the later ones do, which stands for a heartbeat period that is long against the transit time |
| `MaxHeartbeats`, `MaxTime` (link) | 10, 10 | caps that are never reached: the HEARTBEAT count stays below 10 and the clock below 10 in every reachable state |
| `MaxTime`, `ClockSteps` (unit tests) | 15, `{1,2,3}` | five calls of at most 3 ticks each |
| `DA_WIDTH`, `DA_HEIGHT` (demo) | 28, 30 (240, 270 in the code) | with a half size of 11 the shape has 7 places across and 9 down: every velocity, up to 5 a tick, reaches both edges of both axes within a few ticks, and steps that touch no edge happen too |
| `CommandLines` (demo) | 12 | one for each choice of roles, each arm of the QoS builder, each rule of clap and each panic of `main` |
| `MaxSN`, `MaxTime` (reader_consumer) | 2, 2 | two samples, in either order: the second sample before the first with a GAP or HEARTBEAT that releases it, and a second notification that finds the channel full, the stale waker or the woken task of the first. Only DATA reads the clock, so two readings are two insertions; a third DATA would be a repetition, which changes nothing in the cache |
| `MaxCtrlC` (demo) | 2 | the second press finds messages of the first still in the channel, so that the handler blocks on the full channel |

HEARTBEAT inputs are those with `last_sn ≥ first_sn − 1` and GAP inputs those
with `gap_list.base = 0` or `≥ gap_start`; both sets include the inputs the
handlers reject (`first_sn` 0, `gap_start` 0, base 0).

## 5. Fairness and deadlock

Liveness is checked of the link, of the Reader with its DataReader, and of
the demo. The Reader alone promises nothing: what happens depends on what
arrives. `LinkSpec` assumes weak fairness of

* `receive_data`, `receive_datafrag`, `receive_heartbeat`, `receive_gap`:
  the event loop polls its sockets for ever and calls the handler of every
  datagram that has arrived; a handler never blocks;
* `discover_writer`: discovery does match a writer that exists;
* `writer_heartbeat`: the writer's heartbeat timer is periodic and keeps
  firing while something is unacknowledged;
* `writer_handle_acknack`, `writer_handle_nackfrag`: the writer's event loop
  handles what arrives.

Weak fairness is enough because each of these steps, once enabled, stays
enabled until it is taken or the datagram is lost. Nothing is assumed of
`writer_write` (the application may stop writing), of `writer_forget`, of
`solicit`, or of `lose`: the network is not fair, it is bounded (`MaxLoss`).
Without the bound no reliable protocol delivers anything.

`ConsumerSpec` assumes weak fairness of

* `reader_notify`: no method of the Reader blocks (spec.md §5, "Suspension
  points: none inside the Reader core"), so a handler that has released the
  cache goes on to call `notify_cache_change`;
* `data_reader_task` and `data_reader_thread`: a task that is polling, or
  was woken, is run by its executor, and a thread whose poll has something
  to return returns.

Each of these steps stays enabled until it is taken, so weak fairness is
enough. Nothing is assumed of `reader_call` (what arrives, and when) nor of
the status and command channels.

The demo's `Spec` assumes

* weak fairness of `set_up` and `join` (`main` runs), of `handler_send` (the
  handler thread runs, and `send_blocking` returns when there is room) and
  of `write_loop_written` (`async_write` resolves: the writer is made with
  `max_blocking_time` zero or BestEffort);
* strong fairness of `read_loop_stop` and `write_loop_stop`. `select!` draws
  one of the arms that are ready pseudo-randomly, so an arm that is ready
  every time the loop comes round is taken at last. Weak fairness would not
  say that: the stop arm of the write loop is not ready while the loop
  awaits `async_write`, and the other loop may take the message that made
  an arm ready.

Nothing is assumed of the user (`ctrl_c`), of the tick timer or of the sample
and event streams.

Deadlock is checked in all runs of the Reader alone and with its DataReader
(the Reader can always take a step). `CHECK_DEADLOCK FALSE` is said where the system really may
stop: in the two `DDSCache` configurations (a panic under the lock ends all
use of the cache), in the link (when everything is acknowledged and nothing
is in flight there is nothing left to do), in the unit tests (a test
ends) and in the demo (the program ends).

## 6. Roadmap

The work is ordered by what matters most for a subscriber.

1. *(done)* The Reader with its proxies, assemblers and topic cache; the
   shared cache; the DataReader's side of the waker slot and of the
   channels, with the Reader's notification as a step of its own.
2. *(done)* `ReliableStream`, the abstract specification of a reliable
   reader, and `ReliableLink`, the Reader with a lossy network and a writer,
   shown to implement it; liveness under fairness of the event loops.
3. *(done)* The repository's unit tests replayed on the models; the
   `UDPListener`; the shapes demo with its stop protocol.
4. **Larger links.** Both samples fragmented (the fragment sweep then
   removes a buffer that a NACKFRAG has asked to complete), two losses with
   fragments, two writers on one topic. These instances have more than a
   million states and need a coarser clock or a symmetry argument first.
5. **Clients of the `DDSCache`** that hold instants between calls: no
   sequence of legal calls poisons the lock. The repository has no caller of
   the disposing method, so the clients have to be taken from spec.md.
6. **`MCWriterProxy`.** The proxy's representation (prefix plus sparse set)
   checked against a plain set of sequence numbers over bounded call
   sequences.

## 7. What is not modelled

* **Message security** (`security_encode`, the `security` variant of
  `encode_and_send`): calls into plugins that are not in the repository.
* **Payload bytes, write options, representation identifiers, logging.**
* **`network/util.rs`**: address conversion and the list of local
  interfaces; no state.
* **The operating system under `UDPListener`**: which datagrams reach a
  socket (a socket bound to a host address and a datagram sent to a group)
  is an input of the model. `mio_socket`, which hands out the socket, is
  left out.
* **In the demo**: `configure_logging`, the colour and the topic name, what
  is printed, the tick period (`write_interval`; a tick happens when it
  likes), and the participant, reader and writer behind the streams.
* **`structure/endpoint.rs`, `messages/submessages/mod.rs`,
  `dds/traits/serde_adapters.rs`**: data, re-exports, traits.
* **`permissions_ca_certificate.rs`**: certificate parsing and verification.
* **`test/shape_type.rs`, `tests/`**: a data type and programs that drive a
  whole participant over real sockets. (The unit tests inside reader.rs,
  dds_cache.rs and udp_listener.rs are modelled, in `UnitTests`.)
* **RustDDS's own writer.** The writer of `ReliableLink` is an assumption
  about the remote side, written from the submessages spec.md describes.
* **HEARTBEATFRAG on the link, multicast, more than one writer on the link,
  a writer that restarts.**
* **Two equal readings of the clock** (see "The clock" in section 3).
* **Multicast locators** of a proxy and the `Disconnected` arms of the
  channel sends (the consumers are never dropped in the model).
* **A DataReader that panics** while it holds the mutex of the topic cache
  or of the waker slot: the Reader then panics at its next
  `acquire_the_topic_cache_guard` or `notify_cache_change`, as spec.md
  §4.4.8 says it should. What the DataReader does with the samples it has
  read is not modelled either.
* **A deadline together with the DataReader.** The reader with a deadline
  runs with nobody at the other ends of its channels (`reader_deadline`); the
  status it sends goes through `send_status_change`, whose full channel the
  other runs reach.
* **Nothing more of the files under `src/` has a state machine to model.**
  What the source map leaves uncovered in reader.rs, dds_cache.rs,
  udp_listener.rs and main.rs is imports, accessors, `Debug`
  implementations, test helpers under `cfg(test)`, the security build and
  `configure_logging`.
