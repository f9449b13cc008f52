------------------------------ MODULE MCProvision ------------------------------
(***************************************************************************)
(* Provision on small instances.  The effect is two chunks long: enough for *)
(* a transfer to lose its first chunk, its last or both, and for a restart  *)
(* to fall between them.                                                    *)
(***************************************************************************)
EXTENDS Provision

CONSTANT p1     \* the effect

MCSize == [p \in Programs |-> MAX_PROGRAM]
MCShow == [id |-> "show", zone |-> "all", priority |-> 1]

\* A parser that goes by the header, and accepts any image that starts with a
\* real chunk.
MCTornAny ==
    {image \in UNION {[1 .. n -> Cell] : n \in 1 .. MAX_PROGRAM} : image[1] # Zero}

MCTornNone == {}

\* While the device's clock is ahead the path fails once; otherwise up to its bound.
MCNext == SystemNext /\ (ahead' => faults' <= 1)
MCSpec == SystemInit /\ [][MCNext]_systemVars /\ Fairness
==============================================================================
