-------------------------------- MODULE MCNode --------------------------------
(***************************************************************************)
(* Node on a small instance: two slots, a program of two chunks, and more  *)
(* sources than the table of bindings has places.                          *)
(***************************************************************************)
EXTENDS Node

CONSTANT p1     \* the program

MCSize == [p \in Programs |-> MAX_PROGRAM]

\* A parser that is content with a program's first chunk: a transfer declared too
\* short, or one that a frame interrupts, is drawn.
MCTorn == {<<p1>>}
==============================================================================
