----------------------------- MODULE ChangeFolds -----------------------------
(***************************************************************************)
(* What the event's live view folds to over a prefix of its log, as        *)
(* far as the change stream has to tell two bodies apart.                  *)
(*                                                                         *)
(*  heat   a HeatScheduled of the event's one round: the first one puts a  *)
(*         heat up, another behind it changes no body                      *)
(*  lap    a detection of the timer's seat in that heat                    *)
(*  void   a marshal's removal of a standing detection                     *)
(*  quiet  an entry no body shows (a signal chunk, a competitor seen)      *)
(***************************************************************************)
EXTENDS Integers, Sequences, FiniteSets

Entries == {"heat", "lap", "void", "quiet"}

\* The round the heats belong to: still defined in the registry, or removed.
RoundStates == {"defined", "removed"}

CountOf(kind, log, n) == Cardinality({i \in 1..n : log[i] = kind})

Standing(log, n) == CountOf("lap", log, n) - CountOf("void", log, n)

Body(shown, laps) == [shown |-> shown, laps |-> laps]

\* `None` of a fold, the idle live state, a live state with its heat up.
NoBody == Body("none", 0)
Idle == Body("idle", 0)
OnTimer(log, n) == Body("heat", Standing(log, n))

\* What the snapshot and the stream show of the event: both call the one fold.
LiveFold(log, n, rounds) ==
    IF rounds = "defined" /\ CountOf("heat", log, n) > 0 THEN OnTimer(log, n)
    ELSE Idle
==============================================================================
