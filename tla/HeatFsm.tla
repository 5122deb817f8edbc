------------------------------ MODULE HeatFsm ------------------------------
(***************************************************************************)
(* The heat state machine of crates/engine/src/heat.rs as pure operators:  *)
(* which command is legal in which state, the transition it records, and   *)
(* the state a recorded transition lands in.  Nothing here has state of    *)
(* its own: the control handler and the runtime clock drivers both decide  *)
(* by folding the event log through these operators, so the modules that   *)
(* model them share this one.                                              *)
(***************************************************************************)

\* HeatState: the six phases a scheduled heat moves through.
States == {"Scheduled", "Staged", "Armed", "Running", "Unofficial", "Final"}

\* heat_state's None: no HeatScheduled for the heat is in the log yet.
Unknown == "Unknown"

\* HeatCommand: what the race director may ask of a heat.
Commands == {"Stage", "Start", "SkipCountdown", "ForceEnd", "Finalize",
             "Advance", "Revert", "Abort", "Restart", "Discard"}

\* HeatTransition: what the log records (crates/events).
Transitions == {"Staged", "Armed", "Running", "Finished", "Finalized",
                "Advanced", "Reverted", "Aborted", "Restarted", "Discarded"}

\* The legality table of `apply`: the states a command is accepted in.
LegalIn(command) ==
  CASE command = "Stage"         -> {"Scheduled"}
    [] command = "Start"         -> {"Staged"}
    [] command = "SkipCountdown" -> {"Armed"}
    [] command = "ForceEnd"      -> {"Running"}
    [] command = "Finalize"      -> {"Unofficial"}
    [] command = "Advance"       -> {"Final"}
    [] command = "Revert"        -> {"Final"}
    [] command = "Abort"         -> {"Staged", "Armed", "Running"}
    [] command = "Restart"       -> {"Armed", "Running", "Unofficial"}
    [] command = "Discard"       -> {"Unofficial", "Final"}

\* The transition an accepted command records.
Records(command) ==
  CASE command = "Stage"         -> "Staged"
    [] command = "Start"         -> "Armed"
    [] command = "SkipCountdown" -> "Running"
    [] command = "ForceEnd"      -> "Finished"
    [] command = "Finalize"      -> "Finalized"
    [] command = "Advance"       -> "Advanced"
    [] command = "Revert"        -> "Reverted"
    [] command = "Abort"         -> "Aborted"
    [] command = "Restart"       -> "Restarted"
    [] command = "Discard"       -> "Discarded"

\* next_state: where a recorded transition lands, whatever state it left.
NextState(transition) ==
  CASE transition = "Staged"    -> "Staged"
    [] transition = "Armed"     -> "Armed"
    [] transition = "Running"   -> "Running"
    [] transition \in {"Finished", "Reverted"}  -> "Unofficial"
    [] transition \in {"Finalized", "Advanced"} -> "Final"
    [] transition \in {"Aborted", "Restarted", "Discarded"} -> "Scheduled"

\* The off-ramps that abandon the run: every fold over a heat's log that asks
\* about "the current run" starts again behind the latest of these.
Resets == {"Aborted", "Restarted", "Discarded"}
=============================================================================
