--------------------------- MODULE MCRaceRuntime ---------------------------
(***************************************************************************)
(* RaceRuntime on one or two heats for TLC.  The heats are told apart by   *)
(* their round's configuration and by the schedule order, so there is no   *)
(* symmetry between them.                                                  *)
(***************************************************************************)
EXTENDS RaceRuntime

CONSTANTS h1, h2
=============================================================================
