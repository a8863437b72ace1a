---------------------------- MODULE MCRingBuffer ----------------------------
(* A small instance of RingBuffer for TLC. *)
EXTENDS RingBuffer
CONSTANTS a, b, c
Items == {a, b, c}
SomeCapacities == {0, 1, 3}
=============================================================================
