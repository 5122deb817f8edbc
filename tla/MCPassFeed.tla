------------------------------ MODULE MCPassFeed -----------------------------
(* One gate for TLC: a timer on its own, or a primary and an alternate. *)
EXTENDS PassFeed

CONSTANTS primary, alternate

Single == <<primary>>
Redundant == <<primary, alternate>>
==============================================================================
