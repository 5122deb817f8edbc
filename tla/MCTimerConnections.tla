-------------------------- MODULE MCTimerConnections -------------------------
(* One RotorHazard timer for TLC: its addresses. *)
EXTENDS TimerConnections

CONSTANTS wrong, right
==============================================================================
