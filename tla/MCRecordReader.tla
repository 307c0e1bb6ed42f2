--------------------------- MODULE MCRecordReader ---------------------------
(* The instance of RecordReader for TLC; its configuration sets the bounds. *)
EXTENDS RecordReader
=============================================================================
