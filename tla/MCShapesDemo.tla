---------------------------- MODULE MCShapesDemo ----------------------------
(***************************************************************************)
(* The shapes demo for model checking: a handful of command lines, one for *)
(* each way main may go, and a drawing area that the shape crosses in a    *)
(* few ticks.                                                              *)
(***************************************************************************)
EXTENDS ShapesDemo

\* -t Square -P -S: both roles, every option left out.
Plain ==
  [topic |-> TRUE, publisher |-> TRUE, subscriber |-> TRUE,
   best_effort |-> FALSE, reliable |-> FALSE, durability |-> None,
   history_depth |-> None, deadline |-> None, partition |-> FALSE,
   interval |-> FALSE, ownership_strength |-> FALSE]

\* The command lines that are checked: the three choices of roles, each
\* way of giving the QoS, and each way of being turned away.
SomeCommandLines ==
  { Plain,
    [Plain EXCEPT !.subscriber = FALSE, !.reliable = TRUE,
                  !.durability = "l", !.history_depth = 2, !.deadline = 5],
    [Plain EXCEPT !.publisher = FALSE, !.best_effort = TRUE,
                  !.durability = "t", !.history_depth = -1],
    [Plain EXCEPT !.durability = "p", !.history_depth = NaN],
    [Plain EXCEPT !.publisher = FALSE, !.subscriber = FALSE],
    [Plain EXCEPT !.topic = FALSE],
    [Plain EXCEPT !.best_effort = TRUE, !.reliable = TRUE],
    [Plain EXCEPT !.durability = "x"],
    [Plain EXCEPT !.deadline = NaN],
    [Plain EXCEPT !.partition = TRUE],
    [Plain EXCEPT !.interval = TRUE],
    [Plain EXCEPT !.ownership_strength = TRUE] }

=============================================================================
