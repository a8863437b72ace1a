---------------------------- MODULE MCVS1Engine ----------------------------
(* Small instances of VS1Engine for TLC: a unit of time is 500 ms.                *)
EXTENDS VS1Engine
=============================================================================
