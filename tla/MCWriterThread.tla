--------------------------- MODULE MCWriterThread ---------------------------
(* Instances of WriterThread for TLC. *)
EXTENDS WriterThread, TLC
=============================================================================
