------------------------------ MODULE HeatLoop ------------------------------
(***************************************************************************)
(* What the Director promises about its heats, whoever moves them: the     *)
(* race director over the control API, or one of the runtime's clocks.     *)
(* There are no processes here, no log, no bridge and no crash: a heat's   *)
(* phase changes along one edge of the state machine at a time, and a      *)
(* result becomes official only when nobody contests it.  RaceRuntime is   *)
(* shown to implement this specification.                                  *)
(***************************************************************************)
EXTENDS HeatFsm

CONSTANTS Heats,      \* the heats of one event
          Protests    \* the protests that may stand at one time

VARIABLES phase,      \* heat_state of every heat, Unknown before it is scheduled
          contested   \* the open protests against a heat's result

vars == <<phase, contested>>

TypeOK == /\ phase \in [Heats -> States \cup {Unknown}]
          /\ contested \in [Heats -> SUBSET Protests]

Init == /\ phase = [h \in Heats |-> Unknown]
        /\ contested = [h \in Heats |-> {}]

Schedule(h) ==
  /\ phase[h] = Unknown
  /\ phase' = [phase EXCEPT ![h] = "Scheduled"]
  /\ UNCHANGED contested

(***************************************************************************)
(* One edge of the state machine.  A reset abandons the run, and with it   *)
(* every protest against it.                                               *)
(***************************************************************************)
Move(h, command) ==
  /\ phase[h] \in LegalIn(command)
  /\ command = "Finalize" => contested[h] = {}
  /\ phase' = [phase EXCEPT ![h] = NextState(Records(command))]
  /\ contested' = IF Records(command) \in Resets
                  THEN [contested EXCEPT ![h] = {}]
                  ELSE contested

\* A protest is opened against a heat that exists, official or not.
Contest(h, p) ==
  /\ phase[h] # Unknown
  /\ contested' = [contested EXCEPT ![h] = @ \cup {p}]
  /\ UNCHANGED phase

\* A protest is settled.
Settle(h, p) ==
  /\ contested' = [contested EXCEPT ![h] = @ \ {p}]
  /\ UNCHANGED phase

Next == \E h \in Heats :
          \/ Schedule(h)
          \/ \E command \in Commands : Move(h, command)
          \/ \E p \in Protests : Contest(h, p) \/ Settle(h, p)

Spec == Init /\ [][Next]_vars
=============================================================================
