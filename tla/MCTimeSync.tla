------------------------------ MODULE MCTimeSync ------------------------------
(***************************************************************************)
(* TimeSync on a small instance.                                           *)
(***************************************************************************)
EXTENDS TimeSync

MCBursts == <<2, 4>>
MCSkews == {-3, 4}
==============================================================================
