----------------------------- MODULE MCChanFlood -----------------------------
(***************************************************************************)
(* ChanFlood on a small instance.                                          *)
(***************************************************************************)
EXTENDS ChanFlood
==============================================================================
