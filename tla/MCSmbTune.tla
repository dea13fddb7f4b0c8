----------------------------- MODULE MCSmbTune -----------------------------
(* Instances of SmbTune for TLC.                                            *)
EXTENDS SmbTune

(* Targets beyond a byte too: the argument is an int.                       *)
Ints == -2 .. MaxByte + 2
=============================================================================
