----------------------------- MODULE MCDDSCache -----------------------------
(***************************************************************************)
(* DDSCache for model checking: two changes of one writer, and the         *)
(* resource limits a configuration names.                                  *)
(***************************************************************************)
EXTENDS DDSCache

TwoChanges ==
  {[writer_guid |-> <<1, 1>>, sequence_number |-> sn, kind |-> "ALIVE"] :
     sn \in 1 .. 2}

OneChange ==
  {[writer_guid |-> <<1, 1>>, sequence_number |-> 1, kind |-> "ALIVE"]}

\* resource_limits with max_samples of 1 or 3, or none at all.
SmallLimits == {None, 1, 3}

\* resource_limits with max_samples of 0.
ZeroLimit == {0}

=============================================================================
