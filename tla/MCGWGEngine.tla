---------------------------- MODULE MCGWGEngine ----------------------------
(* Small instances of GWGEngine for TLC: a unit of time is 250 ms.                *)
EXTENDS GWGEngine
=============================================================================
