---------------------------- MODULE MCHubClimate ----------------------------
(* A small instance of HubClimate for TLC. *)
EXTENDS HubClimate

\* The setpoint channel on r1, which a number (entity 3) and the scan console write too; the
\* mode is read at "state" and commanded at "command".  The number reads back, and
\* identification tries, a register the engine has no packet to read.
ReadRegs == <<"r1", "state", "far">>
WriteRegs == <<"r1", "command", "r1">>
NoReadOfFar == {<<"read", "far">>}
IdentRegs == [s \in IdentStates |-> IF s = "READ_F9" THEN "far" ELSE "r1"]
WholeRegister == [e \in Entities |-> "all"]
PlainSpace == [r \in Regs |-> "OWN"]

\* The climate asks for a target of 0, the number and the console for 1.
NumberSetsOne == [e \in Entities |-> IF e = 3 THEN {1} ELSE Values]
ConsoleWrite == {[op |-> "write", reg |-> "r1", block |-> [f \in Fields |-> 1]]}

\* 0 commands what is read as 1; as a state, 0 is in no row.
OnePreset == <<[write |-> 0, reads |-> {1}, mode |-> "HEAT"]>>
=============================================================================
