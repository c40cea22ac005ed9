--------------------------- MODULE MCReliableLink ---------------------------
(***************************************************************************)
(* ReliableLink for one user-defined writer.  The Reader takes its inputs  *)
(* from the network, so the input sets of module Reader are empty.         *)
(***************************************************************************)
EXTENDS ReliableLink

OneWriter     == {<<1, 1>>}
WriterOne     == <<1, 1>>
OnlyEntityOne == {1}
NoInputs      == {}
\* The second sample is a large one.
SecondSample  == {2}

=============================================================================
