--------------------------- MODULE MCHubEntities ---------------------------
(* Small instances of HubEntities for TLC. *)
EXTENDS HubEntities

\* Both on one register; entity 1 owns its field "hi", the other "lo".
OneReg == [e \in Entities |-> "r1"]
TwoFields == [e \in Entities |-> IF e = 1 THEN "hi" ELSE "lo"]
IdentRegs == [s \in IdentStates |-> "r1"]
PlainSpace == [r \in Regs |-> "OWN"]
ShowsAll == [e \in Entities |-> Values]
=============================================================================
