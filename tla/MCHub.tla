------------------------------- MODULE MCHub -------------------------------
(* Small instances of Hub for TLC. *)
EXTENDS Hub

OwnSpace == [r \in Regs |-> "OWN"]

\* Everyone on r1.
OneReg == [e \in Entities |-> "r1"]

\* Identification reads r1, and in one of its states r2.
IdentRegs == [s \in IdentStates |->
                IF s = "READ_F9" /\ "r2" \in Regs THEN "r2" ELSE "r1"]

\* The scan console writes r1.
ScanWrite == {[op |-> "write", reg |-> "r1", block |-> [f \in Fields |-> 1]]}

FirstHi == [e \in Entities |-> IF e = 1 THEN "hi" ELSE "lo"]
=============================================================================
