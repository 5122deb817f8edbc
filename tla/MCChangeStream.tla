---------------------------- MODULE MCChangeStream ---------------------------
(* The change stream for TLC: one console follows the event. *)
EXTENDS ChangeStream

CONSTANT board
==============================================================================
