------------------------------ MODULE MCChannels ------------------------------
(***************************************************************************)
(* Channels on a small instance: the sender, and an application that       *)
(* claims at a higher priority and under a prefix of its own.              *)
(***************************************************************************)
EXTENDS Channels

CONSTANTS sender, app

MCPriority == [s \in Producers |-> IF s = app THEN 200 ELSE 100]
MCPrefix == [s \in Producers |-> s]

==============================================================================
