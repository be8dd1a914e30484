---------------------------- MODULE MCDbnMetadata -----------------------------
(***************************************************************************)
(* DbnMetadata for TLC: headers that end in every part of the lists, and   *)
(* one that declares far more entries than it has bytes.  The addition of  *)
(* the cursor cannot wrap: a length has 32 bits and a width 16, and        *)
(* 2^32 + 2^16 is below 2^64; Word keeps that distance.                    *)
(***************************************************************************)
EXTENDS DbnMetadata

MCLengths == {99} \cup 100 .. 150
MCCounts == {0, 1, 2, 1000}
===============================================================================
