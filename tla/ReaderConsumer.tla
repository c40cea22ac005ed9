--------------------------- MODULE ReaderConsumer ---------------------------
(***************************************************************************)
(* The Reader of reader.rs and, on its own thread or task, the DataReader  *)
(* that consumes what the Reader puts in the topic cache.                  *)
(*                                                                         *)
(* In module Reader a call of a handler is one step.  The handlers change  *)
(* the cache under its mutex, release the mutex, and only then call        *)
(* notify_cache_change (process_received_data, handle_heartbeat_msg,       *)
(* handle_gap_msg), so the DataReader can run in between.  Here the call   *)
(* of a handler is two steps: reader_call does all of the handler but its  *)
(* notification, reader_notify is that notification.  Handler is module    *)
(* Reader with a waker slot, a poll event and a notification channel of    *)
(* its own: its poll event is the flag `notifying`, which a handler raises *)
(* where it calls notify_cache_change.                                     *)
(*                                                                         *)
(* The DataReader is not code of this repository.  Sections 5 and 6 of     *)
(* spec.md say what it does with what it shares with the Reader: it reads  *)
(* the cache under the mutex, suspends on the waker when the cache has     *)
(* nothing new, and drains the channels.  It waits in one of two ways: as  *)
(* the task of an async stream, which registers its waker and looks again  *)
(* before it suspends, or as a thread that polls for the poll event and    *)
(* the notification channel and reads when there is one.                   *)
(***************************************************************************)
EXTENDS Reader

VARIABLES
  notifying,       \* TRUE: the Reader is about to call notify_cache_change
  handler_waker,   \* the waker slot and the notification channel of
  handler_channel, \* Handler, where nobody else puts anything
  data_reader,     \* where the DataReader's task is
  woken,           \* TRUE: the task's waker was woken since the task last ran
  seen             \* the instants of the changes the DataReader has read

handler_vars  == <<notifying, handler_waker, handler_channel>>
consumer_vars == <<data_reader, woken, seen>>
all_vars == <<vars, handler_vars, consumer_vars>>

Handler ==
  INSTANCE Reader WITH
    data_reader_waker <- handler_waker, poll_event <- notifying,
    notification_channel <- handler_channel

ConsumerInit ==
  /\ Init
  /\ notifying = FALSE
  /\ handler_waker = FALSE
  /\ handler_channel = 0
  /\ data_reader \in {"polling", "waiting"}
  /\ woken = FALSE
  /\ seen = {}

-----------------------------------------------------------------------------
(* The Reader's thread *)

\* The event loop calls a method of the Reader, which runs up to its call
\* of notify_cache_change, if it makes one.  What handle_heartbeat_msg does
\* after that call (the reply) is part of this step: it touches nothing the
\* DataReader reads.
reader_call ==
  /\ ~notifying
  /\ Handler!ReaderStep
  /\ UNCHANGED <<notify_vars, consumer_vars>>

\* self.notify_cache_change(), as the handler's last step: a waker it takes
\* out of the slot is woken.
reader_notify ==
  /\ notifying
  /\ notify_cache_change
  /\ woken' = (woken \/ (data_reader_waker /\ ~data_reader_waker'))
  /\ notifying' = FALSE
  /\ handler_channel' = 0
  /\ UNCHANGED <<reader_vars, data_reader_command_receiver, status_vars,
                 handler_waker, data_reader, seen>>

-----------------------------------------------------------------------------
(* The DataReader *)

\* What a DataReader hands to the application: of a reliable reader the
\* changes below the watermark of their writer, otherwise every change.
readable(tc) ==
  {instant \in DOMAIN tc.changes :
     reliability = "Reliable" =>
       LET change == tc.changes[instant]
           marks  == tc.received_reliably_before
       IN  /\ change.writer_guid \in DOMAIN marks
           /\ change.sequence_number < marks[change.writer_guid]}

unread == readable(topic_cache) \ seen

\* The task is polled at `stage`: it reads what is readable under the
\* mutex of the cache, and goes on according to whether there was any.
data_reader_poll(stage, nothing_new, something_new) ==
  /\ data_reader = stage
  /\ seen' = seen \cup unread
  /\ data_reader' = IF unread = {} THEN nothing_new ELSE something_new
  /\ UNCHANGED <<vars, handler_vars, woken>>

\* Nothing to read: the task puts its waker in the slot, whatever is there.
data_reader_set_waker ==
  /\ data_reader = "registering"
  /\ data_reader_waker' = TRUE
  /\ data_reader' = "registered"
  /\ UNCHANGED <<reader_vars, data_reader_command_receiver, poll_event,
                 notification_channel, status_vars, handler_vars, woken,
                 seen>>

\* The executor polls the suspended task once its waker was woken.
data_reader_wake ==
  /\ data_reader = "suspended"
  /\ woken
  /\ woken' = FALSE
  /\ data_reader' = "polling"
  /\ UNCHANGED <<vars, handler_vars, seen>>

\* A DataReader that waits by polling takes a notification and the poll
\* event, and goes to read.
data_reader_take_notification ==
  /\ data_reader = "waiting"
  /\ notification_channel > 0 \/ poll_event
  /\ notification_channel' = Max({notification_channel - 1, 0})
  /\ poll_event' = FALSE
  /\ data_reader' = "reading"
  /\ UNCHANGED <<reader_vars, data_reader_command_receiver,
                 data_reader_waker, status_vars, handler_vars, woken, seen>>

\* The DataReader as an async task.
data_reader_task ==
  \/ data_reader_poll("polling", "registering", "polling")
  \/ data_reader_set_waker
  \/ data_reader_poll("registered", "suspended", "polling")
  \/ data_reader_wake

\* The DataReader as a thread that polls.
data_reader_thread ==
  \/ data_reader_take_notification
  \/ data_reader_poll("reading", "waiting", "waiting")

-----------------------------------------------------------------------------
(* The other ends of the channels *)

\* The DataReader sends a ReaderCommand.
data_reader_send_command ==
  /\ data_reader_command_receiver < CommandCapacity
  /\ data_reader_command_receiver' = data_reader_command_receiver + 1
  /\ UNCHANGED <<reader_vars, notify_vars, status_vars, handler_vars,
                 consumer_vars>>

\* The DataReader takes the oldest status.
data_reader_take_status ==
  /\ status_channel # << >>
  /\ status_channel' = Tail(status_channel)
  /\ UNCHANGED <<reader_vars, data_reader_command_receiver, notify_vars,
                 participant_status_channel, handler_vars, consumer_vars>>

\* The participant takes the oldest participant status.
participant_take_status ==
  /\ participant_status_channel # << >>
  /\ participant_status_channel' = Tail(participant_status_channel)
  /\ UNCHANGED <<reader_vars, data_reader_command_receiver, notify_vars,
                 status_channel, handler_vars, consumer_vars>>

channel_ends ==
  \/ data_reader_send_command
  \/ data_reader_take_status
  \/ participant_take_status

-----------------------------------------------------------------------------
ConsumerNext ==
  \/ reader_call
  \/ reader_notify
  \/ data_reader_task
  \/ data_reader_thread
  \/ channel_ends

\* No method of the Reader blocks, so a handler that has released the cache
\* goes on to its notification; a task that can run is run, and so is a
\* thread.  Nothing is assumed of what arrives, nor of the status channels
\* being drained.
ConsumerFairness ==
  /\ WF_all_vars(reader_notify)
  /\ WF_all_vars(data_reader_task)
  /\ WF_all_vars(data_reader_thread)

ConsumerSpec ==
  ConsumerInit /\ [][ConsumerNext]_all_vars /\ ConsumerFairness

-----------------------------------------------------------------------------
(* Properties *)

\* No wake-up is lost.  A DataReader that is suspended and was not woken
\* has its waker in the slot, and there is nothing readable it has not
\* read, unless the Reader is on its way to notify_cache_change.  This is
\* about the order in which the handlers change the cache and notify, about
\* notify_cache_change taking the waker out of the slot, and about the
\* HEARTBEATs and GAPs that make readable what arrived earlier.
NoLostWakeup ==
  data_reader = "suspended" /\ ~woken =>
    /\ data_reader_waker
    /\ unread # {} => notifying

\* No notification is lost.  While a DataReader that waits by polling has
\* not read something readable, a notification or a poll event is waiting
\* for it, or the Reader is on its way to notify_cache_change: the try_send
\* of notify_cache_change may find the channel full and give up, because
\* what the channel holds is still to be taken.
NoLostNotification ==
  data_reader = "waiting" /\ unread # {} =>
    notification_channel > 0 \/ poll_event \/ notifying

\* Again and again the DataReader has read everything that is readable:
\* whatever the Reader's handlers made readable (process_received_data,
\* handle_heartbeat_msg, handle_gap_msg), and however the steps of the two
\* threads fell, notify_cache_change got the DataReader to read it.
EverythingReadableIsRead == []<>(unread = {})

=============================================================================
