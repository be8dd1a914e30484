--------------------------- MODULE MCParquetWriter ----------------------------
(***************************************************************************)
(* ParquetWriter for TLC.  The rows offered are enough to fill every place *)
(* a batch can be in at the same time (the builder, the queue, the hand of *)
(* the writer thread) with one batch to spare and a partial one at the end.*)
(***************************************************************************)
EXTENDS ParquetWriter

MCMaxRecords == BatchRows * (Depth + 3) + 1
===============================================================================
