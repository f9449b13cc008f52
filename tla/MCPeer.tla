-------------------------------- MODULE MCPeer --------------------------------
(***************************************************************************)
(* Peer on a small instance: a show of one chunk, a second effect of one   *)
(* and an alert of two, so that a transfer can be half lost.               *)
(***************************************************************************)
EXTENDS Peer

MCSize == [p \in Programs |-> IF p = Alert THEN 2 ELSE 1]
MCTornNone == {}

\* Faults and restarts come over a divided show, which fills both slots, with
\* alerts from the timer alone; the undivided show is left undisturbed, takes
\* requests and runs out.
MCNext ==
    /\ PeerNext
    /\ split \/ Undisturbed'
    /\ split => made' = 0 /\ ~runOut'

MCSpec == PeerInit /\ [][MCNext]_peerVars /\ PeerFairness
==============================================================================
