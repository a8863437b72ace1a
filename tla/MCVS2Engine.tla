---------------------------- MODULE MCVS2Engine -----------------------------
(* A small instance of VS2Engine for TLC. *)
EXTENDS VS2Engine
=============================================================================
