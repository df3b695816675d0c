------------------------------- MODULE MCPost -------------------------------
(* PostTransfer for TLC.  The sizes of the reads are scaled down: a read of 7 *)
(* for the 4 or 5 bytes of "fname fsize " brings two or three of what follows,*)
(* as the read of 36 does for a name and size that are shorter.  The length   *)
(* of a file is written in base 2, so that a short file has two digits.       *)
EXTENDS PostTransfer

FileDigits == [n \in FileLen |-> IF n < 2 THEN 1 ELSE 2]
=============================================================================
