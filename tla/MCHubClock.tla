----------------------------- MODULE MCHubClock -----------------------------
(* Small instances of HubClock for TLC. *)
EXTENDS HubClock

\* The clock is entity 1; entity 2 is polled and written, but the engine has no packet to
\* read it; entity 3 shares the register of the clock and is polled.
Registers == [e \in Entities |-> IF e = 2 THEN "r2" ELSE "clock"]
NoReadOfR2 == {<<"read", "r2">>}
WholeRegister == [e \in Entities |-> "all"]
IdentRegs == [s \in IdentStates |-> IF s = "READ_F9" THEN "r2" ELSE "clock"]
PlainSpace == [r \in Regs |-> "OWN"]
ConsoleReads == {[op |-> "read", reg |-> "clock", block |-> Blank]}
=============================================================================
