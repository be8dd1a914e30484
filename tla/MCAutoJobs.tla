------------------------------ MODULE MCAutoJobs ------------------------------
(***************************************************************************)
(* AutoJobs for TLC, with 16 bits for 64 and 64 bytes for the 64 MiB of a  *)
(* conversion's fixed part.  136 rows are the most whose peak does not     *)
(* wrap; 137 wrap to a small peak and 546 to a peak of zero.              *)
(***************************************************************************)
EXTENDS AutoJobs

MCReadings == {0, 600, 1600, 9999, 65535, Unknown}

MCCgroup == [limit : {0, 1500, 12000, Unknown}, usage : {0, 1600, Unknown}]

MCHosts == [cores : {0, 1, 3, 4, 16}, available : MCReadings,
            cgroups : MCCgroup \X MCCgroup]

MCRowCounts == {1, 2, 20, 136, 137, 546}
===============================================================================
