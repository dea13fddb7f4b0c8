---------------------------- MODULE MCHTU21Value ----------------------------
(* Instances of HTU21Value for TLC.                                         *)
EXTENDS HTU21Value

(* Every 64th word, with all status bits of it.                             *)
SomeWords == {64 * n + s : n \in 0 .. 1023, s \in 0 .. 3}
=============================================================================
