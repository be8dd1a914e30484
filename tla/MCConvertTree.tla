---------------------------- MODULE MCConvertTree -----------------------------
(***************************************************************************)
(* ConvertTree for TLC: as many outputs as files, or two files sharing one,*)
(* as a symbolic link to a file of the same name in the same tree does.    *)
(***************************************************************************)
EXTENDS ConvertTree

OwnOut == [i \in Files |-> i]
SharedOut == [i \in Files |-> 1]
===============================================================================
