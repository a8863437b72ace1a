----------------------------- MODULE MCHubLink -----------------------------
(* A small instance of HubLink for TLC. *)
EXTENDS HubLink

\* Entity 1 owns a field of a burner-control register, which nothing can write; 2 owns a
\* field of r1; 3 is a control beyond the last address the engine can build a packet for.
ThreeRegs == <<"gfa", "r1", "far">>
LinkField == [e \in Entities |-> IF e = 2 THEN "hi" ELSE "lo"]
LinkSpace == [r \in Regs |-> IF r = "gfa" THEN "GFA" ELSE "OWN"]
LinkRefused == {<<"write", "gfa">>, <<"read", "far">>, <<"write", "far">>}

\* Identification reads r1, and in one of its states what cannot be read; so does the console.
LinkIdent == [s \in IdentStates |-> IF s = "READ_F9" THEN "far" ELSE "r1"]
ScanReads == {[op |-> "read", reg |-> r, block |-> Blank] : r \in {"gfa", "far"}}
=============================================================================
