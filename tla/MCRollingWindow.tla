---------------------------- MODULE MCRollingWindow ----------------------------
(* Instance of RollingWindow for TLC, with three-bit integers.               *)
EXTENDS RollingWindow

MCFloats  == {Fin(0), Fin(1), Fin(3), Inf(1), Inf(-1), NaN}
MCInts    == {-4, -1, 1, 3}
MCWindows == -1..3
================================================================================
