----------------------------- MODULE ShapesDemo -----------------------------
(***************************************************************************)
(* The interoperability test program src/examples/async_shapes_demo: main  *)
(* reads the command line, builds the QoS and the endpoints, and runs a    *)
(* read loop and a write loop side by side until both are done.  The       *)
(* Ctrl-C handler runs in a thread of its own and tells the loops to stop  *)
(* through a bounded channel, one message for each loop.  The write loop   *)
(* moves a shape about the drawing area and publishes it on every tick.    *)
(*                                                                         *)
(* DomainParticipant, DataReader and DataWriter are not code of this       *)
(* program: their streams are ready whenever the environment likes, and    *)
(* async_write resolves (max_blocking_time is zero).                       *)
(***************************************************************************)
EXTENDS Integers

CONSTANTS
  None,         \* Option::None, an argument that is not given
  NaN,          \* an argument that does not parse as a number
  DA_WIDTH,     \* 240 in the source
  DA_HEIGHT,    \* 270 in the source
  CommandLines, \* the command lines the program is started with
  MaxCtrlC      \* how often the user presses Ctrl-C

VARIABLES
  matches,       \* the ArgMatches of get_matches()
  main,          \* where fn main is
  qos,           \* the QosPolicies built of the arguments
  stop_channel,  \* the messages in smol::channel::bounded(2)
  handler_sends, \* send_blocking calls the Ctrl-C handler has still to make
  pressed,       \* Ctrl-C presses so far
  read_loop,     \* where the read loop is
  write_loop,    \* where the write loop is
  shape_sample,  \* x and y of the Shape
  x_vel, y_vel   \* its velocity

vars == <<matches, main, qos, stop_channel, handler_sends, pressed,
          read_loop, write_loop, shape_sample, x_vel, y_vel>>

shape_vars == <<shape_sample, x_vel, y_vel>>

STOP_CAPACITY == 2  \* bounded(2)
shapesize     == 21

-----------------------------------------------------------------------------
(* The command line *)

\* What clap lets through: a topic, a role, and not both reliabilities; the
\* durability is one of the possible values.
get_matches(command_line) ==
  /\ command_line.topic
  /\ command_line.publisher \/ command_line.subscriber
  /\ ~(command_line.best_effort /\ command_line.reliable)
  /\ command_line.durability \in {None, "v", "l", "t", "p"}

\* The arguments main panics on: a deadline that is no number, and the
\* policies that are not implemented.
panics(args) ==
  \/ args.deadline = NaN
  \/ args.partition \/ args.interval \/ args.ownership_strength

\* The QoS main builds.  A history depth that is no number, or is
\* negative, is KeepAll.
qos_of(args) ==
  [reliability |-> IF args.reliable THEN "Reliable" ELSE "BestEffort",
   durability  |-> CASE args.durability = "l" -> "TransientLocal"
                     [] args.durability = "t" -> "Transient"
                     [] args.durability = "p" -> "Persistent"
                     [] OTHER -> "Volatile",
   history     |-> IF args.history_depth \in Nat
                   THEN args.history_depth ELSE "KeepAll",
   deadline    |-> args.deadline]

-----------------------------------------------------------------------------
(* The shape *)

\* gen_range(1..5) or gen_range(-5..-1): the upper end is not drawn.
Velocities == 1 .. 4 \cup -5 .. -2

\* Fault: the far edge is not looked at.
move_no_far_edge(position, velocity, da_size) ==
  LET half_size == shapesize \div 2 + 1
      moved     == position + velocity
  IN  IF moved < half_size THEN <<half_size, -velocity>>
      ELSE <<moved, velocity>>

\* One coordinate of move_shape: a shape that would leave the drawing area
\* is put at its edge and turned round.
move(position, velocity, da_size) ==
  LET half_size == shapesize \div 2 + 1
      moved     == position + velocity
      low       == IF moved < half_size THEN half_size ELSE moved
      clamped   == IF low > da_size - half_size
                   THEN da_size - half_size ELSE low
      bounced   == moved < half_size \/ low > da_size - half_size
  IN  <<clamped, IF bounced THEN -velocity ELSE velocity>>

move_shape ==
  LET x == move(shape_sample.x, x_vel, DA_WIDTH)
      y == move(shape_sample.y, y_vel, DA_HEIGHT)
  IN  /\ shape_sample' = [x |-> x[1], y |-> y[1]]
      /\ x_vel' = x[2]
      /\ y_vel' = y[2]

-----------------------------------------------------------------------------
(* fn main *)

Init ==
  /\ matches \in CommandLines
  /\ main = "start"
  /\ qos = None
  /\ stop_channel = 0
  /\ handler_sends = 0
  /\ pressed = 0
  /\ read_loop = "not started"
  /\ write_loop = "not started"
  /\ shape_sample = [x |-> 0, y |-> 0]
  /\ x_vel = 0
  /\ y_vel = 0

\* clap refuses the command line, or main panics on an argument: the
\* program ends before anything is set up.
refuse ==
  /\ main = "start"
  /\ ~get_matches(matches) \/ panics(matches)
  /\ main' = IF get_matches(matches) THEN "panicked" ELSE "exited"
  /\ UNCHANGED <<matches, qos, stop_channel, handler_sends, pressed,
                 read_loop, write_loop, shape_vars>>

\* main up to block_on: the QoS, the Ctrl-C handler, the endpoints of the
\* roles asked for, the shape and its velocity.  A loop without its
\* endpoint is done at once.
set_up ==
  /\ main = "start"
  /\ get_matches(matches) /\ ~panics(matches)
  /\ qos' = qos_of(matches)
  /\ read_loop'  = IF matches.subscriber THEN "select" ELSE "done"
  /\ write_loop' = IF matches.publisher THEN "select" ELSE "done"
  /\ x_vel' \in Velocities
  /\ y_vel' \in Velocities
  /\ main' = "block_on"
  /\ UNCHANGED <<matches, stop_channel, handler_sends, pressed, shape_sample>>

\* futures::join! has seen both loops done: main returns and the process,
\* with the handler thread, is gone.
join ==
  /\ main = "block_on"
  /\ read_loop = "done" /\ write_loop = "done"
  /\ main' = "done"
  /\ UNCHANGED <<matches, qos, stop_channel, handler_sends, pressed,
                 read_loop, write_loop, shape_vars>>

-----------------------------------------------------------------------------
(* The Ctrl-C handler *)

\* Fault: one message for both.
one_stop_per_ctrl_c == 1

\* How many stop messages one Ctrl-C is worth: one for the reader, the
\* other for the writer.
stops_per_ctrl_c == 2

\* The user presses Ctrl-C: the handler is called once more.
ctrl_c ==
  /\ main = "block_on"
  /\ pressed < MaxCtrlC
  /\ pressed' = pressed + 1
  /\ handler_sends' = handler_sends + stops_per_ctrl_c
  /\ UNCHANGED <<matches, main, qos, stop_channel, read_loop, write_loop,
                 shape_vars>>

\* Fault: the handler does not wait.
has_room_always(channel) == TRUE

\* May the handler put a message in the channel now?  send_blocking waits
\* while the channel is full.
has_room(channel) == channel < STOP_CAPACITY

\* One send_blocking of the handler.
handler_send ==
  /\ main = "block_on"
  /\ handler_sends > 0
  /\ has_room(stop_channel)
  /\ stop_channel' = stop_channel + 1
  /\ handler_sends' = handler_sends - 1
  /\ UNCHANGED <<matches, main, qos, pressed, read_loop, write_loop,
                 shape_vars>>

-----------------------------------------------------------------------------
(* The read loop *)

\* select! takes the arm of the stop future: run = false.
read_loop_stop ==
  /\ read_loop = "select"
  /\ stop_channel > 0
  /\ stop_channel' = stop_channel - 1
  /\ read_loop' = "done"
  /\ UNCHANGED <<matches, main, qos, handler_sends, pressed, write_loop,
                 shape_vars>>

\* The arm of the sample stream: a sample or a disposed key is printed, an
\* error breaks the loop.
read_loop_sample(r) ==
  /\ read_loop = "select"
  /\ read_loop' = IF r = "Err" THEN "done" ELSE "select"
  /\ UNCHANGED <<matches, main, qos, stop_channel, handler_sends, pressed,
                 write_loop, shape_vars>>

\* The arm of the event stream: the event is printed.
read_loop_event ==
  /\ read_loop = "select"
  /\ UNCHANGED vars

-----------------------------------------------------------------------------
(* The write loop *)

write_loop_stop ==
  /\ write_loop = "select"
  /\ stop_channel > 0
  /\ stop_channel' = stop_channel - 1
  /\ write_loop' = "done"
  /\ UNCHANGED <<matches, main, qos, handler_sends, pressed, read_loop,
                 shape_vars>>

\* The arm of the tick stream: the shape moves and is handed to
\* async_write, which the loop awaits.
write_loop_tick ==
  /\ write_loop = "select"
  /\ move_shape
  /\ write_loop' = "async_write"
  /\ UNCHANGED <<matches, main, qos, stop_channel, handler_sends, pressed,
                 read_loop>>

\* async_write has resolved, with a result that is at most logged.
write_loop_written ==
  /\ write_loop = "async_write"
  /\ write_loop' = "select"
  /\ UNCHANGED <<matches, main, qos, stop_channel, handler_sends, pressed,
                 read_loop, shape_vars>>

write_loop_event ==
  /\ write_loop = "select"
  /\ UNCHANGED vars

-----------------------------------------------------------------------------
Next ==
  \/ refuse
  \/ set_up
  \/ join
  \/ ctrl_c
  \/ handler_send
  \/ read_loop_stop
  \/ \E r \in {"sample", "disposed", "Err"} : read_loop_sample(r)
  \/ read_loop_event
  \/ write_loop_stop
  \/ write_loop_tick
  \/ write_loop_written
  \/ write_loop_event

\* main, the executor and the handler thread run when they can.  select!
\* draws one of the arms that are ready at random, so an arm that is ready
\* again and again is taken at last, although the loop is away in between
\* (in async_write); nothing is assumed of the user or of the streams.
Fairness ==
  /\ WF_vars(set_up)
  /\ WF_vars(join)
  /\ WF_vars(handler_send)
  /\ WF_vars(write_loop_written)
  /\ SF_vars(read_loop_stop)
  /\ SF_vars(write_loop_stop)

Spec == Init /\ [][Next]_vars /\ Fairness

-----------------------------------------------------------------------------
\* The type invariant; the channel never holds more than its capacity,
\* because the handler's send_blocking waits for room.
TypeOK ==
  /\ matches \in CommandLines
  /\ main \in {"start", "exited", "panicked", "block_on", "done"}
  /\ qos = None \/ qos = qos_of(matches)
  /\ stop_channel \in 0 .. STOP_CAPACITY
  /\ handler_sends \in 0 .. stops_per_ctrl_c * MaxCtrlC
  /\ pressed \in 0 .. MaxCtrlC
  /\ read_loop \in {"not started", "select", "done"}
  /\ write_loop \in {"not started", "select", "async_write", "done"}
  /\ shape_sample \in [x : 0 .. DA_WIDTH, y : 0 .. DA_HEIGHT]
  /\ x_vel \in Velocities \cup {-v : v \in Velocities} \cup {0}
  /\ y_vel \in Velocities \cup {-v : v \in Velocities} \cup {0}

\* Ctrl-C ends the program: once the user has pressed it, both loops take
\* their stop message and main returns, whichever roles the program plays,
\* wherever the loops are when the handler runs and however often the user
\* presses again.  (The handler's two send_blocking calls, the stop arms of
\* the two select! loops, futures::join!.)
CtrlCStopsTheProgram == pressed > 0 ~> main = "done"

\* Every shape that is published lies within the drawing area, a shape's
\* half size away from its edges, although the shape starts outside of it,
\* at (0, 0), and whatever its velocity.  (move_shape, called by the tick
\* arm of the write loop before async_write.)
ShapeStaysInDrawingArea ==
  LET half_size == shapesize \div 2 + 1
  IN  write_loop = "async_write" =>
        /\ shape_sample.x \in half_size .. DA_WIDTH - half_size
        /\ shape_sample.y \in half_size .. DA_HEIGHT - half_size

=============================================================================
