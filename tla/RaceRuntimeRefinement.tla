----------------------- MODULE RaceRuntimeRefinement -----------------------
(***************************************************************************)
(* RaceRuntime implements HeatLoop, for every event: the initial states    *)
(* map to initial states, and every step of a command, a clock, the bridge *)
(* or a crash maps to one step of the abstract heat loop or to none.       *)
(***************************************************************************)
EXTENDS RaceRuntimeProofs

\* The abstract specification has its own copy of the state machine.
LEMMA SameMachine ==
  /\ Promise!Commands = Commands
  /\ Promise!Resets = Resets
  /\ \A command : Promise!LegalIn(command) = LegalIn(command)
  /\ \A command : Promise!Records(command) = Records(command)
  /\ \A t : Promise!NextState(t) = NextState(t)
BY DEF Promise!Commands, Commands, Promise!Resets, Resets, Promise!LegalIn,
       LegalIn, Promise!Records, Records, Promise!NextState, NextState

\* What a transition does to the open protests: a reset ends those of its heat.
LEMMA TransitOpen ==
  ASSUME TypeOK, NEW h \in Heats, NEW t, Transit(h, t), NEW g \in Heats
  PROVE  Open(g)' = IF g = h /\ t \in Resets THEN {} ELSE Open(g)
<1>1. protest' = ProtestsAfter(h, t)
  BY DEF Transit
<1>2. ASSUME NEW p \in Protests
      PROVE  /\ protest'[p].heat = g /\ ~protest'[p].resolved <=>
                  /\ protest[p].heat = g /\ ~protest[p].resolved
                  /\ ~(g = h /\ t \in Resets)
  <2>1. CASE protest[p].heat # h
    <3>1. protest'[p] = protest[p]
      BY <1>1, <2>1 DEF ProtestsAfter
    <3> QED
      BY <2>1, <3>1
  <2>2. CASE protest[p].heat = h /\ t \in Resets
    <3>1. protest'[p].heat = NoHeat
      BY <1>1, <2>2 DEF ProtestsAfter, Unfiled
    <3> QED
      BY <2>2, <3>1, NoHeatAssumption
  <2>3. CASE protest[p].heat = h /\ t \notin Resets
    <3>1. protest'[p] = IF t = "Running"
                        THEN [protest[p] EXCEPT !.visible = FALSE]
                        ELSE protest[p]
      BY <1>1, <2>3 DEF ProtestsAfter
    <3>2. protest[p] \in [heat : Heats \cup {NoHeat},
                          visible : BOOLEAN, resolved : BOOLEAN]
      BY DEF TypeOK
    <3>3. /\ protest'[p].heat = protest[p].heat
          /\ protest'[p].resolved = protest[p].resolved
      BY <3>1, <3>2
    <3> QED
      BY <2>3, <3>3
  <2> QED
    BY <2>1, <2>2, <2>3
<1> QED
  BY <1>2 DEF Open

\* A legal transition, whoever appends it, is a move of the abstract loop.
LEMMA TransitMoves ==
  ASSUME TypeOK, NEW h \in Heats, NEW command \in Commands,
         phase[h] \in LegalIn(command),
         command = "Finalize" => Open(h) = {},
         Transit(h, Records(command))
  PROVE  Promise!Next
<1>1. phase' = [phase EXCEPT ![h] = NextState(Records(command))]
  BY DEF Transit
<1>2. \A g \in Heats :
        Open(g)' = IF g = h /\ Records(command) \in Resets THEN {} ELSE Open(g)
  BY TransitOpen
<1>3. [g \in Heats |-> Open(g)]' =
        IF Records(command) \in Resets
        THEN [[g \in Heats |-> Open(g)] EXCEPT ![h] = {}]
        ELSE [g \in Heats |-> Open(g)]
  BY <1>2
<1>4. Promise!Move(h, command)
  BY <1>1, <1>3, SameMachine DEF Promise!Move
<1> QED
  BY <1>4, SameMachine DEF Promise!Next

\* A clock's checked append is a command's transition from its phase, or
\* nothing.
LEMMA TransitIfMoves ==
  ASSUME TypeOK, NEW check \in BOOLEAN, NEW s \in Slots, NEW command \in Commands,
         check => phase[s[1]] \in LegalIn(command),
         check /\ command = "Finalize" => Open(s[1]) = {},
         TransitIf(check, s, Records(command))
  PROVE  Promise!Next \/ UNCHANGED <<phase, protest>>
<1>1. s[1] \in Heats
  BY DEF Slots
<1> QED
  BY <1>1, TransitMoves DEF TransitIf, logVars

\* Putting a heat on the schedule is the abstract Schedule.
LEMMA SchedulingMoves ==
  ASSUME TypeOK, NEW h \in Heats, phase[h] = Unknown,
         phase' = [phase EXCEPT ![h] = "Scheduled"], UNCHANGED protest
  PROVE  Promise!Next
<1>1. [g \in Heats |-> Open(g)]' = [g \in Heats |-> Open(g)]
  BY DEF Open
<1>2. Promise!Schedule(h)
  BY <1>1 DEF Promise!Schedule, Unknown, Promise!Unknown
<1> QED
  BY <1>2 DEF Promise!Next

\* Filing and re-opening contest a heat; resolving settles it.
LEMMA FilingContests ==
  ASSUME TypeOK, NEW h \in Heats, NEW p \in Protests, FileProtest(h, p)
  PROVE  Promise!Next
<1>1. /\ protest[p] = Unfiled
      /\ protest' = [protest EXCEPT ![p] =
                       [heat |-> h, visible |-> TRUE, resolved |-> FALSE]]
      /\ UNCHANGED phase
      /\ phase[h] # Unknown
  BY DEF FileProtest, Scheduled
<1>2. \A g \in Heats : Open(g)' = IF g = h THEN Open(g) \cup {p} ELSE Open(g)
  BY <1>1, NoHeatAssumption DEF Open, TypeOK, Unfiled
<1>3. [g \in Heats |-> Open(g)]' =
        [[g \in Heats |-> Open(g)] EXCEPT ![h] = @ \cup {p}]
  BY <1>2
<1>4. Promise!Contest(h, p)
  BY <1>1, <1>3 DEF Promise!Contest, Unknown, Promise!Unknown
<1> QED
  BY <1>4 DEF Promise!Next

\* ReverseRuling on a resolution contests the heat again.
LEMMA ReversingContests ==
  ASSUME TypeOK, NEW p \in Protests, ReverseResolution(p),
         phase[protest[p].heat] # Unknown
  PROVE  Promise!Next
<1> DEFINE h == protest[p].heat
<1>1. h \in Heats
  BY DEF ReverseResolution, TypeOK
<1>2. /\ protest' = [protest EXCEPT ![p].resolved = FALSE]
      /\ UNCHANGED phase
  BY DEF ReverseResolution
<1>3. \A g \in Heats : Open(g)' = IF g = h THEN Open(g) \cup {p} ELSE Open(g)
  BY <1>2 DEF Open, TypeOK
<1>4. [g \in Heats |-> Open(g)]' =
        [[g \in Heats |-> Open(g)] EXCEPT ![h] = @ \cup {p}]
  BY <1>3
<1>5. Promise!Contest(h, p)
  BY <1>2, <1>4 DEF Promise!Contest, Unknown, Promise!Unknown
<1> QED
  BY <1>1, <1>5 DEF Promise!Next

\* ResolveProtest settles the protest.
LEMMA ResolvingSettles ==
  ASSUME TypeOK, NEW p \in Protests, ResolveProtest(p)
  PROVE  Promise!Next
<1> DEFINE h == protest[p].heat
<1>1. h \in Heats
  BY DEF ResolveProtest, TypeOK
<1>2. /\ protest' = [protest EXCEPT ![p].resolved = TRUE]
      /\ UNCHANGED phase
  BY DEF ResolveProtest
<1>3. \A g \in Heats : Open(g)' = IF g = h THEN Open(g) \ {p} ELSE Open(g)
  BY <1>2 DEF Open, TypeOK
<1>4. [g \in Heats |-> Open(g)]' =
        [[g \in Heats |-> Open(g)] EXCEPT ![h] = @ \ {p}]
  BY <1>3
<1>5. Promise!Settle(h, p)
  BY <1>2, <1>4 DEF Promise!Settle
<1> QED
  BY <1>1, <1>5 DEF Promise!Next

-----------------------------------------------------------------------------
\* A protest stands against a heat that is scheduled: a heat, once scheduled,
\* never becomes unknown again.  (A re-opened protest contests its heat, and the
\* abstract loop lets only a scheduled heat be contested.)
ProtestsAreAgainstScheduled ==
  \A p \in Protests : protest[p].heat \in Heats => phase[protest[p].heat] # Unknown

\* The phases and the protests are moved by few of the steps.
LEMMA WhoMoves ==
  ASSUME [Next]_vars
  PROVE  \/ \E h \in Heats :
              \/ ScheduleHeat(h) \/ LoadGenerated(h)
              \/ \E command \in Commands : HeatTransition(h, command)
              \/ Finalize(h) \/ Advance(h)
              \/ FireStart(h) \/ FinishAtEnd(h) \/ FinishAfterGrace(h)
              \/ FireOfficial(h)
              \/ \E p \in Protests : FileProtest(h, p)
         \/ \E p \in Protests : ResolveProtest(p) \/ ReverseResolution(p)
         \/ UNCHANGED <<phase, protest>>
<1>1. ASSUME NEW h \in Heats,
             SetCurrentHeat(h) \/ Handle(h)
               \/ AnnounceStart(h) \/ AnnounceWindow(h) \/ NoWindow(h)
               \/ CheckProtests(h) \/ ClockFails(h)
      PROVE  UNCHANGED <<phase, protest>>
  BY <1>1 DEF SetCurrentHeat, Handle, HandleRunning, HandleRunningUnread,
              HandleUnofficial, HandleOffRamp, HandleStaged, HandleArmed,
              AnnounceStart, AnnounceWindow, NoWindow, CheckProtests,
              ClockFails, logVars
<1>2. ASSUME NEW h \in Heats, ExpireRace(h)
      PROVE  UNCHANGED <<phase, protest>>
  BY <1>2 DEF ExpireRace, logVars
<1>3. CASE \/ LoadOnDeck \/ NothingToLoad \/ AppendOther \/ BridgeStarts
           \/ BridgeGivesUp \/ SourcesDone \/ Crash \/ Boot \/ UNCHANGED vars
  BY <1>3 DEF LoadOnDeck, NothingToLoad, AppendOther, BridgeStarts,
              BridgeGivesUp, SourcesDone, Crash, Boot, vars, logVars
<1> QED
  BY <1>1, <1>2, <1>3 DEF Next, RaceDirector, Clocks

\* Whatever moves a scheduled heat keeps it scheduled.
LEMMA PhaseStays ==
  ASSUME TypeOK, [Next]_vars, NEW g \in Heats, phase[g] # Unknown
  PROVE  phase'[g] # Unknown
<1>1. Unknown \notin States
  BY DEF Unknown, States
<1>2. ASSUME NEW h \in Heats, NEW t \in Transitions, Transit(h, t)
      PROVE  phase'[g] # Unknown
  BY <1>1, <1>2, NextStateType DEF Transit, TypeOK
<1>3. ASSUME NEW h \in Heats, ScheduleHeat(h) \/ LoadGenerated(h)
      PROVE  phase'[g] # Unknown
  BY <1>3 DEF ScheduleHeat, LoadGenerated, TypeOK, Unknown
<1>4. ASSUME NEW h \in Heats, NEW command \in Commands, HeatTransition(h, command)
      PROVE  phase'[g] # Unknown
  BY <1>2, <1>4, RecordsType DEF HeatTransition
<1>5. ASSUME NEW h \in Heats, Finalize(h) \/ Advance(h)
      PROVE  phase'[g] # Unknown
  BY <1>2, <1>5 DEF Finalize, Advance, Transitions
<1>6. ASSUME NEW h \in Heats,
             \/ FireStart(h) \/ FinishAtEnd(h)
             \/ FinishAfterGrace(h) \/ FireOfficial(h)
      PROVE  phase'[g] # Unknown
  <2>1. PICK s \in Slots, check \in BOOLEAN, t \in Transitions :
          TransitIf(check, s, t)
    <3>1. {"Running", "Finished", "Finalized"} \subseteq Transitions
      BY DEF Transitions
    <3>2. /\ TasksOf(h, "start") \subseteq Slots
          /\ TasksOf(h, "completion") \subseteq Slots
          /\ TasksOf(h, "protest") \subseteq Slots
      BY SlotTypes DEF Kinds
    <3>3. \A s, p : StillIn(s, p) \in BOOLEAN
      BY DEF StillIn
    <3> QED
      BY <1>6, <3>1, <3>2, <3>3
      DEF FireStart, FinishAtEnd, FinishAfterGrace, FireOfficial
  <2>2. s[1] \in Heats
    BY DEF Slots
  <2> QED
    BY <1>2, <2>1, <2>2 DEF TransitIf, logVars
<1>7. CASE UNCHANGED phase
  BY <1>7
<1>8. ASSUME NEW p \in Protests,
             \/ ResolveProtest(p) \/ ReverseResolution(p)
             \/ \E h \in Heats : FileProtest(h, p)
      PROVE  UNCHANGED phase
  BY <1>8 DEF ResolveProtest, ReverseResolution, FileProtest
<1> QED
  BY <1>3, <1>4, <1>5, <1>6, <1>7, <1>8, WhoMoves

\* The steps that append a transition on behalf of a clock, as one statement.
LEMMA ClockMoves ==
  ASSUME TypeOK, NEW h \in Heats,
         \/ FireStart(h) \/ FinishAtEnd(h)
         \/ FinishAfterGrace(h) \/ FireOfficial(h)
  PROVE  \E s \in Slots, check \in BOOLEAN, command \in Commands :
           /\ s[1] = h
           /\ check => phase[h] \in LegalIn(command)
           /\ check /\ command = "Finalize" => Open(h) = {}
           /\ NextState(Records(command)) = "Final" => command = "Finalize"
           /\ TransitIf(check, s, Records(command))
<1>1. \A k \in Kinds : \A s \in TasksOf(h, k) : s \in Slots /\ s[1] = h
  BY SlotTypes
<1>2. Kinds = {"start", "completion", "protest"}
  BY DEF Kinds
<1>3. \A s, p : StillIn(s, p) \in BOOLEAN /\ (StillIn(s, p) => phase[s[1]] = p)
  BY DEF StillIn
<1>4. CASE FireStart(h)
  <2>1. PICK s \in TasksOf(h, "start") : TransitIf(StillIn(s, "Armed"), s, "Running")
    BY <1>4 DEF FireStart
  <2>2. /\ "SkipCountdown" \in Commands
        /\ LegalIn("SkipCountdown") = {"Armed"}
        /\ Records("SkipCountdown") = "Running"
        /\ NextState("Running") # "Final"
    BY DEF Commands, LegalIn, Records, NextState
  <2> QED
    BY <1>1, <1>2, <1>3, <2>1, <2>2
<1>5. CASE FinishAtEnd(h) \/ FinishAfterGrace(h)
  <2>1. PICK s \in TasksOf(h, "completion") :
          TransitIf(StillIn(s, "Running"), s, "Finished")
    BY <1>5 DEF FinishAtEnd, FinishAfterGrace
  <2>2. /\ "ForceEnd" \in Commands
        /\ LegalIn("ForceEnd") = {"Running"}
        /\ Records("ForceEnd") = "Finished"
        /\ NextState("Finished") # "Final"
    BY DEF Commands, LegalIn, Records, NextState
  <2> QED
    BY <1>1, <1>2, <1>3, <2>1, <2>2
<1>6. CASE FireOfficial(h)
  <2>1. PICK s \in TasksOf(h, "protest") :
          TransitIf(StillIn(s, "Unofficial") /\ Open(h) = {}, s, "Finalized")
    BY <1>6 DEF FireOfficial
  <2>2. /\ "Finalize" \in Commands
        /\ LegalIn("Finalize") = {"Unofficial"}
        /\ Records("Finalize") = "Finalized"
    BY DEF Commands, LegalIn, Records
  <2> QED
    BY <1>1, <1>2, <1>3, <2>1, <2>2
<1> QED
  BY <1>4, <1>5, <1>6

\* The steps of a command that appends a transition, likewise.
LEMMA CommandMoves ==
  ASSUME NEW h \in Heats,
         \/ \E command \in Commands : HeatTransition(h, command)
         \/ Finalize(h) \/ Advance(h)
  PROVE  \E command \in Commands :
           /\ phase[h] \in LegalIn(command)
           /\ command = "Finalize" => Open(h) = {}
           /\ NextState(Records(command)) = "Final" =>
                command = "Finalize" \/ phase[h] = "Final"
           /\ Transit(h, Records(command))
<1>1. CASE \E command \in Commands : HeatTransition(h, command)
  <2>1. PICK command \in Commands \ {"Finalize", "Advance"} :
          phase[h] \in LegalIn(command) /\ Transit(h, Records(command))
    BY <1>1 DEF HeatTransition
  <2>2. NextState(Records(command)) # "Final"
    BY <2>1 DEF Commands, Records, NextState
  <2> QED
    BY <2>1, <2>2
<1>2. CASE Finalize(h)
  BY <1>2 DEF Finalize, Records, Commands
<1>3. CASE Advance(h)
  <2>1. /\ "Advance" \in Commands
        /\ LegalIn("Advance") = {"Final"}
        /\ Records("Advance") = "Advanced"
    BY DEF Commands, LegalIn, Records
  <2> QED
    BY <1>3, <2>1 DEF Advance
<1> QED
  BY <1>1, <1>2, <1>3

\* Protests stay against scheduled heats in every step.
LEMMA ScheduledInductive ==
  ASSUME TypeOK, ProtestsAreAgainstScheduled, [Next]_vars
  PROVE  ProtestsAreAgainstScheduled'
<1> SUFFICES ASSUME NEW p \in Protests, protest'[p].heat \in Heats
             PROVE  phase'[protest'[p].heat] # Unknown
  BY DEF ProtestsAreAgainstScheduled
<1>1. ASSUME protest'[p].heat = protest[p].heat
      PROVE  phase'[protest'[p].heat] # Unknown
  BY <1>1, PhaseStays DEF ProtestsAreAgainstScheduled
<1>2. ASSUME NEW h \in Heats, NEW t, Transit(h, t)
      PROVE  protest'[p].heat = protest[p].heat
  <2>1. protest'[p].heat \in {protest[p].heat, NoHeat}
    BY <1>2 DEF Transit, ProtestsAfter, Unfiled, TypeOK
  <2> QED
    BY <2>1, NoHeatAssumption
<1>3. ASSUME NEW h \in Heats,
             \/ \E command \in Commands : HeatTransition(h, command)
             \/ Finalize(h) \/ Advance(h)
      PROVE  protest'[p].heat = protest[p].heat
  BY <1>2, <1>3, CommandMoves
<1>4. ASSUME NEW h \in Heats,
             \/ FireStart(h) \/ FinishAtEnd(h)
             \/ FinishAfterGrace(h) \/ FireOfficial(h)
      PROVE  protest'[p].heat = protest[p].heat
  BY <1>2, <1>4, ClockMoves DEF TransitIf, logVars
<1>5. ASSUME NEW h \in Heats, NEW q \in Protests, FileProtest(h, q)
      PROVE  phase'[protest'[p].heat] # Unknown
  <2>1. CASE p = q
    <3>1. protest'[p].heat = h /\ phase'[h] # Unknown
      BY <1>5, <2>1 DEF FileProtest, Scheduled, TypeOK
    <3> QED
      BY <3>1
  <2>2. CASE p # q
    <3>1. protest'[p] = protest[p]
      BY <1>5, <2>2 DEF FileProtest, TypeOK
    <3>2. protest'[p].heat = protest[p].heat
      BY <3>1
    <3> QED
      BY <1>1, <3>2
  <2> QED
    BY <2>1, <2>2
<1>6. ASSUME NEW q \in Protests, ResolveProtest(q) \/ ReverseResolution(q)
      PROVE  protest'[p].heat = protest[p].heat
  <2>1. PICK b \in BOOLEAN : protest' = [protest EXCEPT ![q].resolved = b]
    BY <1>6 DEF ResolveProtest, ReverseResolution
  <2>2. protest[q] \in [heat : Heats \cup {NoHeat},
                        visible : BOOLEAN, resolved : BOOLEAN]
    BY DEF TypeOK
  <2> QED
    BY <2>1, <2>2 DEF TypeOK
<1>7. ASSUME NEW h \in Heats, ScheduleHeat(h) \/ LoadGenerated(h)
      PROVE  protest'[p].heat = protest[p].heat
  BY <1>7 DEF ScheduleHeat, LoadGenerated
<1> QED
  BY <1>1, <1>3, <1>4, <1>5, <1>6, <1>7, WhoMoves

\* Protests are only ever against heats on the schedule.
THEOREM ProtestsAgainstScheduled == Spec => []ProtestsAreAgainstScheduled
<1>1. Init => ProtestsAreAgainstScheduled
  BY NoHeatAssumption DEF Init, ProtestsAreAgainstScheduled, Unfiled
<1>2. TypeOK /\ ProtestsAreAgainstScheduled /\ [Next]_vars =>
        ProtestsAreAgainstScheduled'
  BY ScheduledInductive
<1> QED
  BY <1>1, <1>2, TypeCorrect, PTL DEF Spec

-----------------------------------------------------------------------------
\* No path makes a result official over an open protest: the Finalize command,
\* the auto-official timer that lost the race to a fresh filing, and Advance are
\* the only steps that leave a heat Final.
THEOREM OfficialUncontested == Spec => NoOfficialOverProtest
<1>1. ASSUME TypeOK, [Next]_vars, NEW g \in Heats,
             phase[g] # "Final", phase'[g] = "Final"
      PROVE  Open(g) = {}
  <2>1. ASSUME NEW h \in Heats, NEW t, Transit(h, t)
        PROVE  g = h /\ NextState(t) = "Final"
    BY <1>1, <2>1 DEF Transit, TypeOK
  <2>2. ASSUME NEW h \in Heats,
               \/ \E command \in Commands : HeatTransition(h, command)
               \/ Finalize(h) \/ Advance(h)
        PROVE  Open(g) = {}
    BY <1>1, <2>1, <2>2, CommandMoves
  <2>3. ASSUME NEW h \in Heats,
               \/ FireStart(h) \/ FinishAtEnd(h)
               \/ FinishAfterGrace(h) \/ FireOfficial(h)
        PROVE  Open(g) = {}
    BY <1>1, <2>1, <2>3, ClockMoves DEF TransitIf, logVars
  <2>4. ASSUME NEW h \in Heats, ScheduleHeat(h) \/ LoadGenerated(h)
        PROVE  FALSE
    BY <1>1, <2>4 DEF ScheduleHeat, LoadGenerated, TypeOK
  <2>5. ASSUME NEW p \in Protests,
               \/ ResolveProtest(p) \/ ReverseResolution(p)
               \/ \E h \in Heats : FileProtest(h, p)
        PROVE  UNCHANGED phase
    BY <2>5 DEF ResolveProtest, ReverseResolution, FileProtest
  <2> QED
    BY <1>1, <2>2, <2>3, <2>4, <2>5, WhoMoves
<1>2. TypeOK /\ [Next]_vars =>
        [\A h \in Heats :
           phase[h] # "Final" /\ phase'[h] = "Final" => Open(h) = {}]_vars
  BY <1>1
<1> QED
  BY <1>2, TypeCorrect, PTL DEF Spec, NoOfficialOverProtest

\* The Director, with its bridge, clocks, faults and lagging cancels, implements
\* the abstract heat loop.
THEOREM Implementation == Spec => ImplementsHeatLoop
<1>1. Init => Promise!Init
  BY NoHeatAssumption
  DEF Init, Promise!Init, Open, Unfiled, Unknown, Promise!Unknown
<1>2. ASSUME TypeOK, ProtestsAreAgainstScheduled, [Next]_vars
      PROVE  [Promise!Next]_(Promise!vars)
  <2>1. ASSUME UNCHANGED <<phase, protest>>
        PROVE  UNCHANGED Promise!vars
    BY <2>1 DEF Promise!vars, Open
  <2>2. ASSUME NEW h \in Heats,
               \/ \E command \in Commands : HeatTransition(h, command)
               \/ Finalize(h) \/ Advance(h)
        PROVE  Promise!Next
    BY <1>2, <2>2, CommandMoves, TransitMoves
  <2>3. ASSUME NEW h \in Heats,
               \/ FireStart(h) \/ FinishAtEnd(h)
               \/ FinishAfterGrace(h) \/ FireOfficial(h)
        PROVE  Promise!Next \/ UNCHANGED <<phase, protest>>
    BY <1>2, <2>3, ClockMoves, TransitIfMoves
  <2>4. ASSUME NEW h \in Heats, ScheduleHeat(h) \/ LoadGenerated(h)
        PROVE  Promise!Next
    BY <1>2, <2>4, SchedulingMoves DEF ScheduleHeat, LoadGenerated
  <2>5. ASSUME NEW p \in Protests,
               \/ ResolveProtest(p) \/ ReverseResolution(p)
               \/ \E h \in Heats : FileProtest(h, p)
        PROVE  Promise!Next
    <3>1. ASSUME ReverseResolution(p)
          PROVE  phase[protest[p].heat] # Unknown
      BY <1>2, <3>1 DEF ReverseResolution, ProtestsAreAgainstScheduled, TypeOK
    <3> QED
      BY <1>2, <2>5, <3>1, ResolvingSettles, ReversingContests, FilingContests
  <2> QED
    BY <1>2, <2>1, <2>2, <2>3, <2>4, <2>5, WhoMoves
<1> QED
  BY <1>1, <1>2, TypeCorrect, ProtestsAgainstScheduled, PTL
  DEF Spec, ImplementsHeatLoop, Promise!Spec
=============================================================================
