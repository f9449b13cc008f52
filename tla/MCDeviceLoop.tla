---------------------------- MODULE MCDeviceLoop ----------------------------
(***************************************************************************)
(* DeviceLoop on a small instance: a slew of 1 in 3, corrections stepped   *)
(* above 2, three peers for two places in the table, one of which moves,   *)
(* and two LEDs.                                                           *)
(***************************************************************************)
EXTENDS DeviceLoop

CONSTANTS p1, p2, p3, here, there,
    MaxRaw,     \* bound: how long the loop runs
    MaxCrowd    \* bound: how long it runs with several peers

MCRawTimes == 0 .. MaxRaw
MCOffsets == -MaxRaw .. MaxRaw
MCPrefixes == {p1, p2, p3}
MCHomes == [p \in Prefixes |-> IF p = p1 THEN {here, there} ELSE {here}]
MCTimers == {<< >>, <<1, 3>>, <<3>>}
MCLeads == {-4, -1, 0, 1, 4}

\* Bytes that read the other way round are others, and three that differ.
MCPictures == << << <<1, 44, 255>>, <<0, 128, 7>> >>, << <<90, 0, 3>>, <<200, 17, 0>> >> >>

\* What was left shows that the white dies are dark after a frame.
MCLeftovers == { << <<9, 9, 9, 9>>, <<9, 9, 9, 9>> >> }

\* The table of peers does not depend on the clock nor the clock on who speaks:
\* the table is filled in behaviours whose leader is in step, and in the others
\* one peer speaks from one place.
Crowded == lead = 0
MCNext ==
    /\ LoopNext
    /\ Crowded => last_raw_us' <= MaxCrowd
    /\ ~Crowded => \A p \in Prefixes : heard'[p] \in {None} \cup (IF p = p1 THEN {here} ELSE {})

MCSpec == LoopInit /\ [][MCNext]_loopVars
=============================================================================
