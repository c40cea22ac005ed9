--------------------------- MODULE ReliableStream ---------------------------
(***************************************************************************)
(* What a Reliable reader promises about the samples of one matched        *)
(* writer, with nothing said of submessages, proxies, counts or locators:  *)
(*                                                                         *)
(*   written       the writer has written the samples 1 .. written         *)
(*   arrived       the sequence numbers in the topic cache, in the order   *)
(*                 they were put there                                     *)
(*   released      the watermark: the DataReader hands the application     *)
(*                 the samples below it                                    *)
(*   acknowledged  the writer has been told that everything below it is    *)
(*                 with the reader, and may forget those samples           *)
(*   kept_from     the writer has given up the samples below it, whether   *)
(*                 they were acknowledged or not (its history is bounded)  *)
(*                                                                         *)
(* A sample arrives at most once and only after it was written; the        *)
(* watermark never passes a sample that has not arrived, unless the writer *)
(* has given it up, and never goes back; the writer is acknowledged only   *)
(* what is released.                                                       *)
(***************************************************************************)
EXTENDS Integers, Sequences

CONSTANT MaxWrites \* the writer writes the samples 1 .. MaxWrites

VARIABLES written, arrived, released, acknowledged, kept_from

vars == <<written, arrived, released, acknowledged, kept_from>>

\* The sequence numbers that have arrived.
Arrived(seq) == {seq[i] : i \in DOMAIN seq}

\* The watermarks that pass no sample the reader is still to get: what is
\* below has arrived in `seq` or was given up by the writer.
Releasable(seq) ==
  {r \in 1 .. MaxWrites + 1 :
     \A sn \in 1 .. r - 1 : sn \in Arrived(seq) \/ sn < kept_from}

Init ==
  /\ written = 0
  /\ arrived = << >>
  /\ released = 1
  /\ acknowledged = 1
  /\ kept_from = 1

Write ==
  /\ written < MaxWrites
  /\ written' = written + 1
  /\ UNCHANGED <<arrived, released, acknowledged, kept_from>>

\* The writer gives up its oldest samples.
Forget ==
  /\ kept_from' \in kept_from + 1 .. written + 1
  /\ UNCHANGED <<written, arrived, released, acknowledged>>

\* The watermark moves forward, over samples that have arrived.
Release(after) ==
  /\ released' >= released
  /\ released' \in Releasable(after)

\* A sample arrives, and the watermark may move with it.
Arrive(sn) ==
  /\ sn \in 1 .. written
  /\ sn \notin Arrived(arrived)
  /\ arrived' = Append(arrived, sn)
  /\ Release(arrived')
  /\ UNCHANGED <<written, acknowledged, kept_from>>

\* The watermark moves by itself.
ReleaseOnly ==
  /\ Release(arrived)
  /\ UNCHANGED <<written, arrived, acknowledged, kept_from>>

\* The writer learns of what the reader released.
Acknowledge ==
  /\ acknowledged' \in acknowledged .. released
  /\ UNCHANGED <<written, arrived, released, kept_from>>

Next ==
  \/ Write
  \/ Forget
  \/ \E sn \in 1 .. MaxWrites : Arrive(sn)
  \/ ReleaseOnly
  \/ Acknowledge

Spec == Init /\ [][Next]_vars

\* The reader catches up, again and again: every sample written so far is
\* released to the application (or passed over once the writer gave it up)
\* and the writer knows it.  The watermark and the acknowledgement never go
\* back, so no sample that was written is waited for for ever.
Complete == []<>(released > written /\ acknowledged > written)

=============================================================================
