------------------------------ MODULE MCFleet -------------------------------
(* Instances of Fleet for TLC: two players at most, a few faults.          *)
EXTENDS Fleet

CONSTANTS p1, p2

NoFault == [f \in Faults |-> 0]
RestartAndError == [NoFault EXCEPT !["error"] = 1, !["restart"] = 1]
FewFaults == [NoFault EXCEPT !["crash"] = 1, !["loss"] = 2, !["error"] = 1]
=============================================================================
