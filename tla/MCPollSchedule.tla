--------------------------- MODULE MCPollSchedule ---------------------------
(* Small instances of PollSchedule for TLC. *)
EXTENDS PollSchedule

\* Every cycle, less than a tick, one, one and a half, two ticks, the longest
\* multiple of the tick, the longest interval, and never.
AllIntervals == {0, 2, 4, 6, 8, 28, MaxInterval, Never}
=============================================================================
