---------------------------- MODULE MCMarshaling ----------------------------
(***************************************************************************)
(* Marshaling for TLC: two heats, one pilot, three instants, from openings *)
(* that put the interesting moments within reach of a few steps.           *)
(***************************************************************************)
EXTENDS Marshaling

CONSTANTS h1, h2, p1

\* The heat loop up to race-go.
Started(h) == <<Moved(h, "Staged"), Moved(h, "Armed"), Moved(h, "Running")>>

\* h1 is racing and has two crossings.
Racing ==
  <<Scheduled(h1)>> \o Started(h1) \o <<Pass(h1, p1, 1), Pass(h1, p1, 3)>>

\* The next heat is scheduled while h1 races.
Ahead == Racing \o <<Scheduled(h2)>>

\* h1's second crossing was removed and restored.
Restored == Racing \o <<Voided(6), Voided(7)>>

\* h1 is official after a throw-out, and h2 is racing.
NextHeat ==
  <<Scheduled(h1), Scheduled(h2)>> \o Started(h1)
    \o <<Pass(h1, p1, 1), Moved(h1, "Finished"), ThrownOut(6),
         Moved(h1, "Finalized")>>
    \o Started(h2)

\* h1's first run was called back after it was ruled on; it is armed again.
Rerun ==
  <<Scheduled(h1)>> \o Started(h1)
    \o <<Pass(h1, p1, 1), Penalty(h1, p1, "disqualify"), HeatVoided(h1),
         Moved(h1, "Restarted"), Moved(h1, "Staged"), Moved(h1, "Armed")>>

\* A throw-out was taken back, so that the lap may be thrown out again.
Reinstated == Racing \o <<ThrownOut(6), Reversed(7)>>

AllOpenings == {<< >>, Racing, Ahead, Restored, NextHeat, Rerun, Reinstated}
=============================================================================
