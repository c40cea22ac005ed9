-------------------------- MODULE MCReaderConsumer --------------------------
(***************************************************************************)
(* ReaderConsumer with the inputs of MCReader: what one user-defined       *)
(* writer can send.                                                        *)
(***************************************************************************)
EXTENDS ReaderConsumer, MCReader

=============================================================================
