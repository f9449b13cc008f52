--------------------------------- MODULE Store ---------------------------------
(***************************************************************************)
(* What a device's program slots promise to those who fill them and render *)
(* from them, with no chunk, datagram or transfer in sight: a slot holds   *)
(* nothing, or one of the programs given to it, whole.  Before it holds    *)
(* another it holds nothing, and slots do not disturb each other.          *)
(***************************************************************************)
CONSTANTS
    Slots,      \* the device's slots
    Given,      \* Given[s]: what slot s may be filled with
    Nothing     \* what an empty slot holds

VARIABLE held

Init == held = [s \in Slots |-> Nothing]

Keeps(s) == held'[s] = held[s]
Empties(s) == held'[s] = Nothing
Fills(s) == held[s] = Nothing /\ held'[s] \in Given[s]

Next == \A s \in Slots : Keeps(s) \/ Empties(s) \/ Fills(s)

Spec == Init /\ [][Next]_held
==============================================================================
