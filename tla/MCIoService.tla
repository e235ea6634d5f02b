---------------------------- MODULE MCIoService ----------------------------
(* Finite instances of IoService for TLC. *)
EXTENDS IoService

CONSTANTS s1, s2, c1, f1, f2
=============================================================================
