-------------------------- MODULE FragmentAssembler --------------------------
(***************************************************************************)
(* FragmentAssembler: reassembly of the DATAFRAG submessages of one remote *)
(* writer.  reader.rs creates and feeds it (fragment_assembler_mutable,    *)
(* new_datafrag, garbage_collect_before, missing_frags_for,                *)
(* is_partially_received) but its file is not part of this repository, so  *)
(* the operators follow section 4.1 of spec.md.                            *)
(*                                                                         *)
(* An assembler is a record                                                *)
(*   [fragment_size    : the size given when the assembler was created,    *)
(*    assembly_buffers : SequenceNumber -> AssemblyBuffer]                 *)
(* and an AssemblyBuffer is [fragment_count, fragment_size, received,      *)
(* modified_time].  The payload bytes are left out: a buffer is told apart *)
(* by WHICH fragments it holds, which is all the Reader asks of it.        *)
(*                                                                         *)
(* A DATAFRAG is [writer_sn, fragment_starting_num,                        *)
(* fragments_in_submessage, fragment_size, data_size].                     *)
(***************************************************************************)
EXTENDS Integers, FiniteSets, Functions, TLC

\* FragmentAssembler::new(frag_size)
new_fragment_assembler(frag_size) ==
  [fragment_size |-> frag_size, assembly_buffers |-> << >>]

\* ceil(data_size / fragment_size): the fragments a sample is cut into.
fragment_count(data_size, fragment_size) ==
  (data_size + fragment_size - 1) \div fragment_size

\* The buffer allocated on the first fragment of a sequence number.
new_assembly_buffer(datafrag) ==
  [fragment_count |-> fragment_count(datafrag.data_size, datafrag.fragment_size),
   fragment_size  |-> datafrag.fragment_size,
   received       |-> {},
   modified_time  |-> 0]

\* The fragment numbers a DATAFRAG submessage carries.
frags_in(datafrag) ==
  datafrag.fragment_starting_num ..
    datafrag.fragment_starting_num + datafrag.fragments_in_submessage - 1

\* One buffer takes one DATAFRAG: a fragment of another size is discarded,
\* and so are the fragment numbers past the expected count.
insert_frags(abuf, datafrag, now) ==
  IF datafrag.fragment_size # abuf.fragment_size
  THEN abuf
  ELSE [abuf EXCEPT
          !.received = @ \cup (frags_in(datafrag) \cap 1 .. abuf.fragment_count),
          !.modified_time = now]

is_complete(abuf) == abuf.received = 1 .. abuf.fragment_count

\* The buffer of datafrag.writer_sn after this DATAFRAG.
fed_buffer(fa, datafrag, now) ==
  LET sn == datafrag.writer_sn
  IN  insert_frags(IF sn \in DOMAIN fa.assembly_buffers
                   THEN fa.assembly_buffers[sn]
                   ELSE new_assembly_buffer(datafrag),
                   datafrag, now)

\* new_datafrag returns Some(payload) exactly when this DATAFRAG brings the
\* last missing fragment ...
completes(fa, datafrag, now) == is_complete(fed_buffer(fa, datafrag, now))

\* ... and then the buffer is destroyed; otherwise it is kept, updated.
new_datafrag(fa, datafrag, now) ==
  LET sn == datafrag.writer_sn
  IN  [fa EXCEPT !.assembly_buffers =
         IF completes(fa, datafrag, now)
         THEN Restrict(@, DOMAIN @ \ {sn})
         ELSE (sn :> fed_buffer(fa, datafrag, now)) @@ @]

\* garbage_collect_before: drop the buffers last touched before the cutoff.
garbage_collect_before(fa, expire_before) ==
  [fa EXCEPT !.assembly_buffers =
     Restrict(@, {sn \in DOMAIN @ : @[sn].modified_time >= expire_before})]

\* missing_frags_for: empty when the sequence number has no buffer.
missing_frags_for(fa, seq) ==
  IF seq \in DOMAIN fa.assembly_buffers
  THEN (1 .. fa.assembly_buffers[seq].fragment_count)
         \ fa.assembly_buffers[seq].received
  ELSE {}

\* is_partially_received: some, but not all, fragments have arrived.
is_partially_received(fa, seq) ==
  /\ seq \in DOMAIN fa.assembly_buffers
  /\ fa.assembly_buffers[seq].received # {}
  /\ ~is_complete(fa.assembly_buffers[seq])

=============================================================================
