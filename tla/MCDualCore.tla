------------------------------ MODULE MCDualCore ------------------------------
(***************************************************************************)
(* DualCore on a small instance.                                           *)
(***************************************************************************)
EXTENDS DualCore
==============================================================================
