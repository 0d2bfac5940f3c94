---------------------------- MODULE LineService ----------------------------
(* A line memory with one client that keeps its request up until it is       *)
(* answered: the contract between a cache and the level below it.            *)
EXTENDS LineMemory

VARIABLE want

serviceVars == <<lines, job, want>>

Port == INSTANCE LinePort

Init == LineMemoryInit /\ Port!PortInit

Next ==
    /\ Port!HoldStep(resp)
    /\ Rest \/ Take(want) \/ Work \/ Finish \/ Done

Spec == Init /\ [][Next]_serviceVars
=============================================================================
