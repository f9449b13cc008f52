----------------------------- MODULE MCShowClock -----------------------------
(***************************************************************************)
(* ShowClock on a small instance: a slew rate of 2 in 5 instead of 200 in  *)
(* 1000000, so that carries, whole budgets and the two kinds of correction *)
(* all occur within a dozen microseconds.                                  *)
(***************************************************************************)
EXTENDS ShowClock

CONSTANTS
    MaxRaw,     \* the hardware counter reads 0 .. MaxRaw, and may run back
    MaxOffset,  \* corrections are -MaxOffset .. MaxOffset
    MaxTold     \* bound on what the clock is told, and on what it reads

MCRawTimes == 0 .. MaxRaw
MCOffsets == -MaxOffset .. MaxOffset
MCShowTimes == {0, 2}

\* The bound on the counters, in the guard of every step.
WithinBounds ==
    /\ told \in -MaxTold .. MaxTold
    /\ now_us <= MaxTold
    /\ waited <= MaxTold
    /\ ran <= MaxTold

MCNext == Next /\ WithinBounds'

MCSpec == Init /\ [][MCNext]_vars
==============================================================================
