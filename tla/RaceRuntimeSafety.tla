------------------------- MODULE RaceRuntimeSafety -------------------------
(***************************************************************************)
(* The safety of the runtime clocks, for every event: a clock that passes  *)
(* its fire-time recheck has announced itself since the heat's latest      *)
(* transition.  FreshHaveAnnounced is the inductive invariant; it says of  *)
(* the fresh tasks, loose ones included, what the action properties say of *)
(* the step that fires.  And the safety of the bridge, by BridgeInv: what  *)
(* it has not read explains every difference between the phases of the log *)
(* and the clocks and sources it holds, so that a bridge that has caught   *)
(* up holds none too many, and no heat is left without the one it needs.   *)
(***************************************************************************)
EXTENDS RaceRuntimeProofs

\* The variables FreshHaveAnnounced reads.
announceVars == <<task, fresh, cued, expired>>

\* A transition leaves no task of its heat fresh.
LEMMA TransitAnnounced ==
  ASSUME TypeOK, FreshHaveAnnounced, NEW h \in Heats, NEW t, Transit(h, t),
         \A s \in Slots : s[1] # h => task'[s] = task[s]
  PROVE  FreshHaveAnnounced'
<1> SUFFICES ASSUME NEW s \in fresh'
             PROVE  /\ task'[s] # "idle"
                    /\ s[2] = "start" /\ task'[s] = "holding" =>
                         "tone" \in cued'[s[1]]
                    /\ s[2] = "protest" /\ task'[s] \in {"holding", "cleared"} =>
                         "deadline" \in cued'[s[1]]
                    /\ s[2] = "completion" /\ task'[s] = "grace" =>
                         expired'[s[1]] > 0
  BY DEF FreshHaveAnnounced
<1>1. s \in fresh /\ s \in Slots /\ s[1] # h /\ s[1] \in Heats
  BY DEF Transit, TypeOK, Slots
<1>2. task'[s] = task[s]
  BY <1>1
<1>3. cued'[s[1]] = cued[s[1]] /\ expired'[s[1]] = expired[s[1]]
  BY <1>1 DEF Transit, TypeOK
<1> QED
  BY <1>1, <1>2, <1>3 DEF FreshHaveAnnounced

\* Aborting a heat's tasks, and installing one that has announced nothing yet.
LEMMA InstalledAnnounced ==
  ASSUME TypeOK, FreshHaveAnnounced, NEW h \in Heats, NEW k \in Kinds,
         NEW stage \in {"idle", "spawned", "racing"}, NEW late \in SUBSET Late(h),
         Installed(h, k, stage, late), UNCHANGED cueVars,
         \/ fresh' = Surviving(h, late)
         \/ fresh' = Surviving(h, late) \cup {Held(h, k)} /\ stage # "idle"
  PROVE  FreshHaveAnnounced'
<1> SUFFICES ASSUME NEW s \in fresh'
             PROVE  /\ task'[s] # "idle"
                    /\ s[2] = "start" /\ task'[s] = "holding" =>
                         "tone" \in cued[s[1]]
                    /\ s[2] = "protest" /\ task'[s] \in {"holding", "cleared"} =>
                         "deadline" \in cued[s[1]]
                    /\ s[2] = "completion" /\ task'[s] = "grace" =>
                         expired[s[1]] > 0
  BY DEF FreshHaveAnnounced, cueVars
<1>1. CASE s = Held(h, k) /\ stage # "idle"
  <2>1. s \in Slots /\ s[1] = h /\ s[2] = k /\ s[3] = "held"
    BY <1>1 DEF Held, Slots
  <2>2. task'[s] = stage
    BY <2>1 DEF Installed
  <2> QED
    BY <1>1, <2>2
<1>2. CASE s \in fresh /\ s[1] # h
  <2>1. s \in Slots
    BY <1>2 DEF TypeOK
  <2>2. task'[s] = task[s]
    BY <1>2, <2>1 DEF Installed
  <2> QED
    BY <1>2, <2>2 DEF FreshHaveAnnounced
<1>3. CASE s \in fresh /\ s[1] = h /\ s[3] = "loose"
  <2>1. s \in Slots /\ s[2] \in Kinds /\ s = Loose(h, s[2])
    BY <1>3 DEF TypeOK, Slots, Loose
  <2>2. task[s] # "idle"
    BY <1>3 DEF FreshHaveAnnounced
  <2>3. s[2] \notin late
    BY <2>1, <2>2 DEF Late
  <2>4. task'[s] = task[s]
    BY <1>3, <2>1, <2>3 DEF Installed
  <2> QED
    BY <1>3, <2>4 DEF FreshHaveAnnounced
<1>4. ASSUME NEW j \in late, s = Loose(h, j), Held(h, j) \in fresh
      PROVE  /\ task'[s] # "idle"
             /\ s[2] = "start" /\ task'[s] = "holding" => "tone" \in cued[s[1]]
             /\ s[2] = "protest" /\ task'[s] \in {"holding", "cleared"} =>
                  "deadline" \in cued[s[1]]
             /\ s[2] = "completion" /\ task'[s] = "grace" => expired[s[1]] > 0
  <2>1. j \in Kinds
    BY <1>4 DEF Late
  <2>2. s \in Slots /\ s[1] = h /\ s[2] = j /\ s[3] = "loose"
    BY <1>4, <2>1 DEF Loose, Slots
  <2>3. task'[s] = task[Held(h, j)]
    BY <1>4, <2>2 DEF Installed
  <2>4. Held(h, j)[1] = h /\ Held(h, j)[2] = j
    BY DEF Held
  <2> QED
    BY <1>4, <2>2, <2>3, <2>4 DEF FreshHaveAnnounced
<1>5. \/ s = Held(h, k) /\ stage # "idle"
      \/ s \in fresh /\ (s[1] # h \/ s[3] = "loose")
      \/ \E j \in late : s = Loose(h, j) /\ Held(h, j) \in fresh
  BY DEF Surviving
<1> QED
  BY <1>1, <1>2, <1>3, <1>4, <1>5

\* cancel_for alone.
LEMMA CancelAnnounced ==
  ASSUME TypeOK, FreshHaveAnnounced, NEW h \in Heats, Cancel(h),
         UNCHANGED cueVars
  PROVE  FreshHaveAnnounced'
<1>1. "start" \in Kinds
  BY DEF Kinds
<1> QED
  BY <1>1, InstalledAnnounced DEF Cancel

\* cancel_for, and a new driver in the slot.
LEMMA SpawnAnnounced ==
  ASSUME TypeOK, FreshHaveAnnounced, NEW h \in Heats, NEW k \in Kinds,
         NEW stage \in {"spawned", "racing"}, Spawn(h, k, stage),
         UNCHANGED cueVars
  PROVE  FreshHaveAnnounced'
<1>1. PICK late \in SUBSET Late(h) :
        /\ Installed(h, k, stage, late)
        /\ \/ fresh' = Surviving(h, late) \cup {Held(h, k)}
           \/ fresh' = Surviving(h, late)
  BY DEF Spawn
<1> QED
  BY <1>1, InstalledAnnounced

\* A driver that takes a turn without a transition leaves the others alone.
LEMMA TurnsAnnounced ==
  ASSUME TypeOK, FreshHaveAnnounced, NEW s \in Slots, NEW from,
         NEW to \in Stages, Turns(s, from, to), Keeps(s),
         \A h \in Heats : cued[h] \subseteq cued'[h] /\ expired'[h] >= expired[h],
         expired' \in [Heats -> Nat],
         /\ s[2] = "start" /\ to = "holding" => "tone" \in cued'[s[1]]
         /\ s[2] = "protest" /\ to \in {"holding", "cleared"} =>
              "deadline" \in cued'[s[1]]
         /\ s[2] = "completion" /\ to = "grace" => expired'[s[1]] > 0
  PROVE  FreshHaveAnnounced'
<1> SUFFICES ASSUME NEW x \in fresh'
             PROVE  /\ task'[x] # "idle"
                    /\ x[2] = "start" /\ task'[x] = "holding" =>
                         "tone" \in cued'[x[1]]
                    /\ x[2] = "protest" /\ task'[x] \in {"holding", "cleared"} =>
                         "deadline" \in cued'[x[1]]
                    /\ x[2] = "completion" /\ task'[x] = "grace" =>
                         expired'[x[1]] > 0
  BY DEF FreshHaveAnnounced
<1>1. x \in fresh /\ x \in Slots /\ x[1] \in Heats
  BY DEF Keeps, TypeOK, Slots
<1>2. CASE x = s
  <2>1. task'[s] # "idle"
    BY <1>2 DEF Keeps
  <2>2. task'[s] = to
    BY <2>1 DEF Turns, TypeOK
  <2> QED
    BY <1>2, <2>1, <2>2
<1>3. CASE x # s
  <2>1. task'[x] = task[x]
    BY <1>1, <1>3 DEF Turns, TypeOK
  <2>2. cued[x[1]] \subseteq cued'[x[1]] /\ expired'[x[1]] >= expired[x[1]]
        /\ expired[x[1]] \in Nat /\ expired'[x[1]] \in Nat
    BY <1>1 DEF TypeOK
  <2> QED
    BY <1>1, <2>1, <2>2 DEF FreshHaveAnnounced
<1> QED
  BY <1>2, <1>3

\* A driver's checked append.
LEMMA TransitIfAnnounced ==
  ASSUME TypeOK, FreshHaveAnnounced, NEW check \in BOOLEAN, NEW s \in Slots,
         NEW from, NEW t, Turns(s, from, "idle"), TransitIf(check, s, t)
  PROVE  FreshHaveAnnounced'
<1>1. s[1] \in Heats /\ "idle" \in Stages
  BY DEF Slots, Stages
<1>2. CASE check
  <2>1. Transit(s[1], t)
    BY <1>2 DEF TransitIf
  <2>2. \A x \in Slots : x[1] # s[1] => task'[x] = task[x]
    BY DEF Turns, TypeOK
  <2> QED
    BY <1>1, <2>1, <2>2, TransitAnnounced
<1>3. CASE ~check
  <2>1. UNCHANGED cueVars /\ Keeps(s)
    BY <1>3 DEF TransitIf
  <2>2. expired' \in [Heats -> Nat]
        /\ \A h \in Heats : cued[h] \subseteq cued'[h] /\ expired'[h] >= expired[h]
    BY <2>1 DEF cueVars, TypeOK
  <2> QED
    BY <1>1, <2>1, <2>2, TurnsAnnounced
<1> QED
  BY <1>2, <1>3

-----------------------------------------------------------------------------
(***************************************************************************)
(* The invariant, group of actions by group of actions.                    *)
(***************************************************************************)

\* Commands: a transition, or nothing the clocks are judged by.
LEMMA RaceDirectorAnnounced ==
  ASSUME TypeOK, FreshHaveAnnounced, NEW h \in Heats, RaceDirector(h)
  PROVE  FreshHaveAnnounced'
<1>1. CASE \/ \E command \in Commands : HeatTransition(h, command)
           \/ Finalize(h)
           \/ Advance(h)
  <2>1. PICK t : Transit(h, t) /\ UNCHANGED task
    BY <1>1 DEF HeatTransition, Finalize, Advance
  <2> QED
    BY <2>1, TransitAnnounced
<1>2. CASE \/ ScheduleHeat(h) \/ LoadGenerated(h) \/ SetCurrentHeat(h)
           \/ \E p \in Protests : FileProtest(h, p)
  <2>1. UNCHANGED announceVars
    BY <1>2 DEF ScheduleHeat, LoadGenerated, SetCurrentHeat, FileProtest,
                announceVars, cueVars, taskVars
  <2> QED
    BY <2>1 DEF announceVars, FreshHaveAnnounced
<1> QED
  BY <1>1, <1>2 DEF RaceDirector

\* The bridge: cancels, and drivers that have announced nothing yet.
LEMMA HandleAnnounced ==
  ASSUME TypeOK, FreshHaveAnnounced, NEW h \in Heats, Handle(h)
  PROVE  FreshHaveAnnounced'
<1>1. UNCHANGED cueVars
  BY DEF Handle, HandleRunning, HandleRunningUnread, HandleUnofficial,
         HandleOffRamp, HandleStaged, HandleArmed
<1>2. \/ Cancel(h)
      \/ Spawn(h, "completion", "racing")
      \/ Spawn(h, "protest", "spawned")
      \/ Spawn(h, "start", "spawned")
  BY DEF Handle, HandleRunning, HandleRunningUnread, HandleUnofficial,
         HandleOffRamp, HandleStaged, HandleArmed
<1>3. {"start", "completion", "protest"} \subseteq Kinds
  BY DEF Kinds
<1> QED
  BY <1>1, <1>2, <1>3, CancelAnnounced, SpawnAnnounced

\* The clocks: they announce before they hold, and hold before they fire.
LEMMA ClocksAnnounced ==
  ASSUME TypeOK, FreshHaveAnnounced, NEW h \in Heats, Clocks(h)
  PROVE  FreshHaveAnnounced'
<1>1. \A k \in Kinds : \A s \in TasksOf(h, k) : s \in Slots /\ s[1] = h /\ s[2] = k
  BY SlotTypes
<1>2. /\ Stages = {"idle", "spawned", "holding", "cleared", "racing", "grace"}
      /\ Kinds = {"start", "completion", "protest"}
  BY DEF Stages, Kinds
<1>3. ASSUME UNCHANGED cueVars
      PROVE  /\ expired' \in [Heats -> Nat]
             /\ \A g \in Heats : cued[g] \subseteq cued'[g]
                                 /\ expired'[g] >= expired[g]
  BY <1>3 DEF cueVars, TypeOK
<1>4. CASE AnnounceStart(h)
  <2>1. PICK s \in TasksOf(h, "start") :
          Turns(s, "spawned", "holding") /\ Keeps(s)
    BY <1>4 DEF AnnounceStart
  <2>2. /\ cued' = [cued EXCEPT ![h] = @ \cup {"tone"}]
        /\ UNCHANGED expired
    BY <1>4 DEF AnnounceStart
  <2>3. /\ expired' \in [Heats -> Nat]
        /\ \A g \in Heats : cued[g] \subseteq cued'[g]
                            /\ expired'[g] >= expired[g]
        /\ "tone" \in cued'[h]
    BY <2>2 DEF TypeOK
  <2> QED
    BY <1>1, <1>2, <2>1, <2>3, TurnsAnnounced
<1>5. CASE FireStart(h)
  <2>1. PICK s \in TasksOf(h, "start") :
          /\ Turns(s, "holding", "idle")
          /\ TransitIf(StillIn(s, "Armed"), s, "Running")
    BY <1>5 DEF FireStart
  <2>2. StillIn(s, "Armed") \in BOOLEAN
    BY DEF StillIn
  <2> QED
    BY <1>1, <1>2, <2>1, <2>2, TransitIfAnnounced
<1>6. CASE ExpireRace(h)
  <2>1. PICK s \in TasksOf(h, "completion") :
          /\ IF StillIn(s, "Running")
             THEN /\ Turns(s, "racing", "grace")
                  /\ expired' = [expired EXCEPT ![h] = @ + 1]
                  /\ UNCHANGED cued
             ELSE Turns(s, "racing", "idle") /\ UNCHANGED cueVars
          /\ Keeps(s)
    BY <1>6 DEF ExpireRace
  <2>2. CASE StillIn(s, "Running")
    <3>1. /\ expired' = [expired EXCEPT ![h] = @ + 1]
          /\ UNCHANGED cued
      BY <2>1, <2>2
    <3>2. /\ expired' \in [Heats -> Nat]
          /\ \A g \in Heats : cued[g] \subseteq cued'[g]
                              /\ expired'[g] >= expired[g]
          /\ expired'[h] > 0
      BY <3>1 DEF TypeOK
    <3> QED
      BY <1>1, <1>2, <2>1, <2>2, <3>2, TurnsAnnounced
  <2>3. CASE ~StillIn(s, "Running")
    BY <1>1, <1>2, <1>3, <2>1, <2>3, TurnsAnnounced
  <2> QED
    BY <2>2, <2>3
<1>7. CASE FinishAtEnd(h) \/ FinishAfterGrace(h)
  <2>1. PICK s \in TasksOf(h, "completion") :
          \E from : /\ Turns(s, from, "idle")
                    /\ TransitIf(StillIn(s, "Running"), s, "Finished")
    BY <1>7 DEF FinishAtEnd, FinishAfterGrace
  <2>2. StillIn(s, "Running") \in BOOLEAN
    BY DEF StillIn
  <2> QED
    BY <1>1, <1>2, <2>1, <2>2, TransitIfAnnounced
<1>8. CASE AnnounceWindow(h)
  <2>1. PICK s \in TasksOf(h, "protest") :
          Turns(s, "spawned", "holding") /\ Keeps(s)
    BY <1>8 DEF AnnounceWindow
  <2>2. /\ cued' = [cued EXCEPT ![h] = @ \cup {"deadline"}]
        /\ UNCHANGED expired
    BY <1>8 DEF AnnounceWindow
  <2>3. /\ expired' \in [Heats -> Nat]
        /\ \A g \in Heats : cued[g] \subseteq cued'[g]
                            /\ expired'[g] >= expired[g]
        /\ "deadline" \in cued'[h]
    BY <2>2 DEF TypeOK
  <2> QED
    BY <1>1, <1>2, <2>1, <2>3, TurnsAnnounced
<1>9. CASE NoWindow(h)
  <2>1. PICK s \in TasksOf(h, "protest") :
          Turns(s, "spawned", "idle") /\ Keeps(s)
    BY <1>9 DEF NoWindow
  <2>2. UNCHANGED cueVars
    BY <1>9 DEF NoWindow
  <2> QED
    BY <1>1, <1>2, <1>3, <2>1, <2>2, TurnsAnnounced
<1>10. CASE CheckProtests(h)
  \* The task that goes on to `cleared` was holding: its deadline is logged.
  <2>1. PICK s \in TasksOf(h, "protest") :
          /\ Turns(s, "holding", IF Open(h) = {} THEN "cleared" ELSE "idle")
          /\ Keeps(s)
    BY <1>10 DEF CheckProtests
  <2>2. UNCHANGED cueVars
    BY <1>10 DEF CheckProtests
  <2>3. CASE s \in fresh
    <3>1. "deadline" \in cued'[h]
      BY <1>1, <1>2, <2>1, <2>2, <2>3 DEF FreshHaveAnnounced, Turns, cueVars
    <3> QED
      BY <1>1, <1>2, <1>3, <2>1, <2>2, <3>1, TurnsAnnounced
  <2>4. CASE s \notin fresh
    <3>1. \A x \in fresh' : x \in fresh /\ x \in Slots /\ x # s
      BY <2>1, <2>4 DEF Keeps, TypeOK
    <3>2. \A x \in fresh' : task'[x] = task[x]
      BY <2>1, <3>1 DEF Turns, TypeOK
    <3> QED
      BY <2>2, <3>1, <3>2 DEF FreshHaveAnnounced, cueVars
  <2> QED
    BY <2>3, <2>4
<1>11. CASE FireOfficial(h)
  <2>1. PICK s \in TasksOf(h, "protest") :
          /\ Turns(s, "cleared", "idle")
          /\ TransitIf(StillIn(s, "Unofficial") /\ Open(h) = {}, s, "Finalized")
    BY <1>11 DEF FireOfficial
  <2>2. (StillIn(s, "Unofficial") /\ Open(h) = {}) \in BOOLEAN
    OBVIOUS
  <2> QED
    BY <1>1, <1>2, <2>1, <2>2, TransitIfAnnounced
<1>12. CASE ClockFails(h)
  <2>1. PICK k \in Kinds : /\ task' = [task EXCEPT ![Held(h, k)] = "idle"]
                           /\ fresh' = fresh \ {Held(h, k)}
    BY <1>12 DEF ClockFails
  <2>2. \A x \in fresh' : x \in fresh /\ task'[x] = task[x]
    BY <2>1 DEF TypeOK
  <2>3. UNCHANGED cueVars
    BY <1>12 DEF ClockFails
  <2> QED
    BY <2>2, <2>3 DEF FreshHaveAnnounced, cueVars
<1> QED
  BY <1>4, <1>5, <1>6, <1>7, <1>8, <1>9, <1>10, <1>11, <1>12 DEF Clocks

\* A clock whose recheck would pass has announced itself: in every reachable
\* state of every event, however the commands, the poll-paced cancels, the late
\* aborts and the restarts of the Director interleave.
LEMMA AnnouncedInductive ==
  ASSUME TypeOK, FreshHaveAnnounced, [Next]_vars
  PROVE  FreshHaveAnnounced'
<1>1. ASSUME NEW h \in Heats, RaceDirector(h) \/ Handle(h) \/ Clocks(h)
      PROVE  FreshHaveAnnounced'
  BY <1>1, RaceDirectorAnnounced, HandleAnnounced, ClocksAnnounced
<1>2. CASE \/ LoadOnDeck \/ NothingToLoad
           \/ \E p \in Protests : ResolveProtest(p) \/ ReverseResolution(p)
           \/ AppendOther \/ BridgeStarts \/ BridgeGivesUp \/ SourcesDone
           \/ Boot \/ UNCHANGED vars
  <2>1. UNCHANGED announceVars
    BY <1>2 DEF LoadOnDeck, NothingToLoad, ResolveProtest, ReverseResolution,
                AppendOther, BridgeStarts, BridgeGivesUp, SourcesDone, Boot,
                vars, announceVars, cueVars, taskVars
  <2> QED
    BY <2>1 DEF announceVars, FreshHaveAnnounced
<1>3. CASE Crash
  BY <1>3 DEF Crash, FreshHaveAnnounced
<1> QED
  BY <1>1, <1>2, <1>3 DEF Next

\* FreshHaveAnnounced is an invariant of every event.
THEOREM ClocksAnnounce == Spec => []FreshHaveAnnounced
<1>1. Init => FreshHaveAnnounced
  BY DEF Init, FreshHaveAnnounced
<1>2. TypeOK /\ FreshHaveAnnounced /\ [Next]_vars => FreshHaveAnnounced'
  BY AnnouncedInductive
<1> QED
  BY <1>1, <1>2, TypeCorrect, PTL DEF Spec

-----------------------------------------------------------------------------
(***************************************************************************)
(* What the invariant gives at the step that fires.                        *)
(***************************************************************************)

\* A checked append that moved the heat was made by a fresh task.
LEMMA FiredFresh ==
  ASSUME NEW check \in BOOLEAN, NEW s, NEW t, NEW h \in Heats,
         TransitIf(check, s, t), phase'[h] # phase[h]
  PROVE  check
BY DEF TransitIf, logVars

\* A race goes green only behind the HeatStarting of this arming: the start
\* driver's step, in any state the runtime reaches.
THEOREM StartsAnnounced == Spec => StartsAreAnnounced
<1>1. ASSUME FreshHaveAnnounced, NEW h \in Heats, AutoRuns(h)
      PROVE  "tone" \in cued[h]
  <2>1. PICK s \in TasksOf(h, "start") :
          /\ Turns(s, "holding", "idle")
          /\ TransitIf(StillIn(s, "Armed"), s, "Running")
    BY <1>1 DEF AutoRuns, FireStart
  <2>2. StillIn(s, "Armed") \in BOOLEAN
    BY DEF StillIn
  <2>3. StillIn(s, "Armed")
    BY <1>1, <2>1, <2>2, FiredFresh DEF AutoRuns
  <2>4. s \in fresh /\ task[s] = "holding"
    BY <2>1, <2>3 DEF StillIn, Turns
  <2>5. s[1] = h /\ s[2] = "start"
    BY SlotTypes DEF Kinds
  <2> QED
    BY <1>1, <2>4, <2>5 DEF FreshHaveAnnounced
<1>2. FreshHaveAnnounced /\ [Next]_vars =>
        [\A h \in Heats : AutoRuns(h) => "tone" \in cued[h]]_vars
  BY <1>1
<1> QED
  BY <1>2, ClocksAnnounce, PTL DEF Spec, StartsAreAnnounced

\* A result becomes official by itself only behind the HeatFinalizing of this
\* stay in Unofficial.
THEOREM OfficialsAnnounced == Spec => OfficialsAreAnnounced
<1>1. ASSUME FreshHaveAnnounced, NEW h \in Heats, AutoFinal(h)
      PROVE  "deadline" \in cued[h]
  <2>1. PICK s \in TasksOf(h, "protest") :
          /\ Turns(s, "cleared", "idle")
          /\ TransitIf(StillIn(s, "Unofficial") /\ Open(h) = {}, s, "Finalized")
    BY <1>1 DEF AutoFinal, FireOfficial
  <2>2. (StillIn(s, "Unofficial") /\ Open(h) = {}) \in BOOLEAN
    OBVIOUS
  <2>3. StillIn(s, "Unofficial")
    BY <1>1, <2>1, <2>2, FiredFresh DEF AutoFinal
  <2>4. s \in fresh /\ task[s] = "cleared"
    BY <2>1, <2>3 DEF StillIn, Turns
  <2>5. s[1] = h /\ s[2] = "protest"
    BY SlotTypes DEF Kinds
  <2> QED
    BY <1>1, <2>4, <2>5 DEF FreshHaveAnnounced
<1>2. FreshHaveAnnounced /\ [Next]_vars =>
        [\A h \in Heats : AutoFinal(h) => "deadline" \in cued[h]]_vars
  BY <1>1
<1> QED
  BY <1>2, ClocksAnnounce, PTL DEF Spec, OfficialsAreAnnounced

\* A heat with a grace window is closed by its clock only behind a RaceExpired
\* marker of the same run.
THEOREM GraceMarked == Spec => GraceIsMarked
<1>1. ASSUME FreshHaveAnnounced, NEW h \in Heats, AutoFinishes(h),
             h \notin ZeroGrace
      PROVE  expired[h] > 0
  <2>1. FinishAfterGrace(h)
    BY <1>1 DEF AutoFinishes, FinishAtEnd
  <2>2. PICK s \in TasksOf(h, "completion") :
          /\ Turns(s, "grace", "idle")
          /\ TransitIf(StillIn(s, "Running"), s, "Finished")
    BY <2>1 DEF FinishAfterGrace
  <2>3. StillIn(s, "Running") \in BOOLEAN
    BY DEF StillIn
  <2>4. StillIn(s, "Running")
    BY <1>1, <2>2, <2>3, FiredFresh DEF AutoFinishes
  <2>5. s \in fresh /\ task[s] = "grace"
    BY <2>2, <2>4 DEF StillIn, Turns
  <2>6. s[1] = h /\ s[2] = "completion"
    BY SlotTypes DEF Kinds
  <2> QED
    BY <1>1, <2>5, <2>6 DEF FreshHaveAnnounced
<1>2. FreshHaveAnnounced /\ [Next]_vars =>
        [\A h \in Heats :
           AutoFinishes(h) /\ h \notin ZeroGrace => expired[h] > 0]_vars
  BY <1>1
<1> QED
  BY <1>2, ClocksAnnounce, PTL DEF Spec, GraceIsMarked

-----------------------------------------------------------------------------
(***************************************************************************)
(* What the bridge has read and what it has not.  The last unread          *)
(* transition of a heat led to its phase, so the phase is what the handler *)
(* knows of a heat that has none; a heat the timers still emit into was    *)
(* left Running there, and whatever comes next of it stops them.           *)
(***************************************************************************)

\* Without a bridge that follows the log nothing is read, emitted or held.
Asleep ==
  director # "following" =>
    /\ tail = <<>>
    /\ active = NoHeat
    /\ \A h \in Heats, k \in Kinds : ~Waits(h, k)

\* Every heat the log knows is in the schedule a restart goes through.
Listed == \A h \in Heats : Scheduled(h) => \E i \in DOMAIN order : order[i] = h

\* What is unread of a heat behind one of its transitions; the last of all.
After(i) == {j \in DOMAIN tail : i < j /\ tail[j][1] = tail[i][1]}
LastLands ==
  \A i \in DOMAIN tail : After(i) = {} => NextState(tail[i][2]) = phase[tail[i][1]]

\* A heat that is Running is next heard of in a transition that stops it.
FirstOf(h, j) == tail[j][1] = h /\ \A m \in DOMAIN tail : m < j => tail[m][1] # h
RunningStops ==
  \A i, j \in DOMAIN tail :
    tail[i][2] = "Running" /\ j \in After(i) /\ (\A m \in After(i) : j <= m)
      => tail[j][2] \notin {"Staged", "Armed"}
ActiveStops ==
  \A j \in DOMAIN tail :
    active # NoHeat /\ FirstOf(active, j) => tail[j][2] \notin {"Staged", "Armed"}

\* A heat with nothing unread has the timers and the clocks of its phase.
Settled(h) ==
  director = "following" /\ ~Pending(h) =>
    /\ active = h => phase[h] = "Running"
    /\ \A k \in Kinds : Waits(h, k) => phase[h] = PhaseOf[k]

BridgeInv ==
  /\ Asleep /\ Listed /\ LastLands /\ RunningStops /\ ActiveStops
  /\ \A h \in Heats : Settled(h)
  /\ NeverOrphaned

\* What a transition may follow: the heat is known, and if Running stops.
MayFollow(h, t) ==
  /\ h \in Heats /\ t \in Transitions
  /\ Scheduled(h)
  /\ phase[h] = "Running" => t \notin {"Staged", "Armed"}

LEMMA HeldApart ==
  ASSUME NEW g, NEW h, NEW k, NEW j
  PROVE  /\ Held(g, k)[1] = g /\ Held(g, k)[2] = k /\ Held(g, k)[3] = "held"
         /\ Held(g, k) = Held(h, j) => g = h /\ k = j
         /\ Held(g, k) # Loose(h, j)
BY DEF Held, Loose

\* Whoever appends a transition, the bridge has it to read.
LEMMA TransitBridge ==
  ASSUME TypeOK, BridgeInv, NEW h, NEW t, MayFollow(h, t), Transit(h, t),
         UNCHANGED <<active, director, hurt>>,
         \A s \in Slots : /\ s[1] # h => task'[s] = task[s]
                          /\ task[s] = "idle" => task'[s] = "idle"
  PROVE  BridgeInv'
<1>1. h \in Heats /\ t \in Transitions /\ Scheduled(h)
  BY DEF MayFollow
<1>2. /\ phase' = [phase EXCEPT ![h] = NextState(t)] /\ order' = order
      /\ phase'[h] = NextState(t) /\ \A g \in Heats \ {h} : phase'[g] = phase[g]
  BY <1>1 DEF Transit, TypeOK
<1>3. Listed'
  BY <1>1, <1>2 DEF BridgeInv, Listed, Scheduled
<1>4. ASSUME NEW g \in Heats, NEW k \in Kinds
      PROVE  /\ Waits(g, k)' => Waits(g, k)
             /\ g # h => (Waits(g, k)' <=> Waits(g, k))
             /\ g # h => (Held(g, k) \in fresh' <=> Held(g, k) \in fresh)
  <2>1. Held(g, k) \in Slots /\ Held(g, k)[1] = g
    BY SlotTypes, HeldApart
  <2> QED  BY <2>1 DEF Waits, Transit
<1>5. CASE director # "following"
  <2>1. tail' = <<>> /\ active = NoHeat /\ \A g \in Heats, k \in Kinds : ~Waits(g, k)
    BY <1>5 DEF BridgeInv, Asleep, Transit
  <2>2. Asleep'
    BY <1>4, <2>1 DEF Asleep
  <2>3. LastLands' /\ RunningStops' /\ ActiveStops'
    BY <2>1 DEF LastLands, RunningStops, ActiveStops
  <2> QED  BY <1>3, <1>5, <2>2, <2>3 DEF BridgeInv, Settled, NeverOrphaned
<1>6. CASE director = "following"
  <2> DEFINE N == Len(tail)
  <2>1. /\ tail' = Append(tail, <<h, t>>) /\ N \in Nat
        /\ DOMAIN tail = 1 .. N /\ DOMAIN tail' = 1 .. N + 1
        /\ \A i \in 1 .. N : tail'[i] = tail[i]
        /\ tail'[N + 1] = <<h, t>>
    BY <1>6 DEF Transit, TypeOK
  <2>2. \A i \in 1 .. N : tail[i][1] \in Heats
    BY <2>1 DEF TypeOK
  <2>3. ASSUME NEW i \in 1 .. N
        PROVE  /\ After(i) \subseteq After(i)'
               /\ tail[i][1] = h => N + 1 \in After(i)'
               /\ \A j \in After(i) : j < N + 1
               /\ \A j \in After(i)' : j = N + 1 \/ j \in After(i)
    BY <2>1 DEF After
  <2>4. After(N + 1)' = {}
    BY <2>1 DEF After
  <2>5. LastLands'
    <3> SUFFICES ASSUME NEW i \in 1 .. N + 1, After(i)' = {}
                 PROVE  NextState(tail'[i][2]) = phase'[tail'[i][1]]
      BY <2>1 DEF LastLands
    <3>1. CASE i = N + 1
      BY <1>2, <2>1, <3>1
    <3>2. CASE i # N + 1
      <4>1. i \in 1 .. N
        BY <2>1, <3>2
      <4>2. After(i) = {} /\ tail[i][1] # h
        BY <2>3, <4>1
      <4> QED  BY <1>2, <2>1, <2>2, <4>1, <4>2 DEF BridgeInv, LastLands
    <3> QED  BY <3>1, <3>2
  <2>6. RunningStops'
    <3> SUFFICES ASSUME NEW i \in 1 .. N + 1, NEW j \in 1 .. N + 1, tail'[i][2] = "Running",
                        j \in After(i)', \A m \in After(i)' : j <= m
                 PROVE  tail'[j][2] \notin {"Staged", "Armed"}
      BY <2>1 DEF RunningStops
    <3>1. i \in 1 .. N
      BY <2>1 DEF After
    <3>2. CASE j = N + 1
      <4>1. tail[i][1] = h
        BY <2>1, <3>1, <3>2 DEF After
      <4>2. After(i) = {}
        <5> SUFFICES ASSUME NEW m \in After(i) PROVE FALSE
          OBVIOUS
        <5>1. m < N + 1 /\ m \in After(i)' /\ m \in 1 .. N
          BY <2>1, <2>3, <3>1 DEF After
        <5> QED  BY <2>1, <3>2, <5>1
      <4>3. phase[h] = "Running"
        BY <2>1, <3>1, <4>1, <4>2 DEF BridgeInv, LastLands, NextState
      <4> QED  BY <2>1, <3>2, <4>3 DEF MayFollow
    <3>3. CASE j # N + 1
      <4>1. j \in 1 .. N /\ j \in After(i)
        BY <2>1, <2>3, <3>1, <3>3
      <4>0. \A m \in After(i) : j <= m
        BY <2>3, <3>1
      <4>2. tail[i][2] = "Running"
        BY <2>1, <3>1
      <4> QED  BY <2>1, <3>1, <4>0, <4>1, <4>2 DEF BridgeInv, RunningStops
    <3> QED  BY <3>2, <3>3
  <2>7. ActiveStops'
    <3> SUFFICES ASSUME NEW j \in 1 .. N + 1, active # NoHeat, FirstOf(active, j)'
                 PROVE  tail'[j][2] \notin {"Staged", "Armed"}
      BY <2>1 DEF ActiveStops, FirstOf
    <3>0. tail'[j][1] = active /\ \A m \in 1 .. N + 1 : m < j => tail'[m][1] # active
      BY <2>1 DEF FirstOf
    <3>1. CASE j = N + 1
      <4>1. active = h
        BY <2>1, <3>0, <3>1
      <4>2. \A m \in 1 .. N : tail[m][1] # h
        <5> TAKE m \in 1 .. N
        <5>1. m \in 1 .. N + 1 /\ m < j
          BY <2>1, <3>1
        <5> QED  BY <2>1, <3>0, <4>1, <5>1
      <4>3. ~Pending(h)
        BY <2>1, <4>2 DEF Pending
      <4>4. phase[h] = "Running"
        BY <1>1, <1>6, <4>1, <4>3 DEF BridgeInv, Settled
      <4> QED  BY <2>1, <3>1, <4>4 DEF MayFollow
    <3>2. CASE j # N + 1
      <4>1. j \in 1 .. N
        BY <2>1, <3>2
      <4>2. FirstOf(active, j)
        <5>1. \A m \in 1 .. N : m \in 1 .. N + 1
          BY <2>1
        <5> QED  BY <2>1, <3>0, <4>1, <5>1 DEF FirstOf
      <4> QED  BY <2>1, <4>1, <4>2 DEF BridgeInv, ActiveStops
    <3> QED  BY <3>1, <3>2
  <2>8. Pending(h)' /\ \A g \in Heats \ {h} : Pending(g) => Pending(g)'
    <3>1. N + 1 \in 1 .. N + 1 /\ \A i \in 1 .. N : i \in 1 .. N + 1
      BY <2>1
    <3> QED  BY <2>1, <3>1 DEF Pending
  <2>9. \A g \in Heats : Settled(g)'
    BY <1>2, <1>4, <2>8 DEF BridgeInv, Settled
  <2>10. NeverOrphaned'
    <3>1. {"start", "completion"} \subseteq Kinds
      BY DEF Kinds
    <3> QED  BY <1>2, <1>4, <2>8, <3>1 DEF BridgeInv, NeverOrphaned
  <2>11. Asleep'
    BY <1>6 DEF Asleep
  <2> QED  BY <1>3, <2>5, <2>6, <2>7, <2>9, <2>10, <2>11 DEF BridgeInv
<1> QED  BY <1>5, <1>6

\* The bridge handles the next unread transition, of heat h: what it leaves
\* the timers and the clocks of h at is what the transition landed in.
LEMMA HandleBridge ==
  ASSUME TypeOK, BridgeInv, NEW h \in Heats, NEW t \in Transitions, Next1(h, {t}),
         UNCHANGED <<phase, order, director>>,
         active' \in {active, h, NoHeat},
         active' = h => t = "Running" \/ (active = h /\ t \in {"Staged", "Armed"}),
         \A g \in Heats, k \in Kinds : g # h =>
           /\ task'[Held(g, k)] = task[Held(g, k)]
           /\ Held(g, k) \in fresh => Held(g, k) \in fresh',
         \A k \in Kinds : Waits(h, k)' => NextState(t) = PhaseOf[k],
         \A g \in Heats : g # h /\ g \notin hurt' => g \notin hurt,
         h \notin hurt' =>
           /\ t = "Armed" => Waits(h, "start")' /\ Held(h, "start") \in fresh'
           /\ t = "Running" /\ h \notin Unseated =>
                Waits(h, "completion")' /\ Held(h, "completion") \in fresh'
  PROVE  BridgeInv'
<1> DEFINE N == Len(tail)
<1>1. /\ N \in Nat /\ N # 0 /\ DOMAIN tail = 1 .. N /\ DOMAIN tail' = 1 .. N - 1
      /\ \A i \in 1 .. N - 1 : tail'[i] = tail[i + 1]
      /\ tail[1][1] = h /\ tail[1][2] = t
  BY DEF Next1, TypeOK
<1>2. \A i \in 1 .. N - 1 : i + 1 \in 1 .. N /\ i + 1 # 1 /\ 1 < i + 1
  BY <1>1
<1>3. \A i \in 2 .. N : i - 1 \in 1 .. N - 1 /\ (i - 1) + 1 = i /\ i \in 1 .. N
  BY <1>1
<1>4. \A i \in 1 .. N : i # 1 => i \in 2 .. N
  BY <1>1
<1>5. 1 \in 1 .. N
  BY <1>1
<1> HIDE DEF N
<1>6. ASSUME NEW i \in 1 .. N - 1, NEW j \in 1 .. N - 1
      PROVE  j \in After(i)' <=> j + 1 \in After(i + 1)
  <2>1. i < j <=> i + 1 < j + 1
    BY <1>1
  <2> QED  BY <1>1, <1>2, <2>1 DEF After
<1>7. \A i \in 1 .. N : \A m \in After(i) : m \in 2 .. N
  BY <1>1 DEF After
<1>8. Asleep' /\ Listed'
  BY DEF BridgeInv, Asleep, Listed, Scheduled, Next1
<1>9. LastLands'
  <2> SUFFICES ASSUME NEW i \in 1 .. N - 1, After(i)' = {}
               PROVE  NextState(tail'[i][2]) = phase[tail'[i][1]]
    BY <1>1 DEF LastLands
  <2>1. After(i + 1) = {}
    BY <1>2, <1>3, <1>6, <1>7
  <2> QED  BY <1>1, <1>2, <2>1 DEF BridgeInv, LastLands
<1>10. RunningStops'
  <2> SUFFICES ASSUME NEW i \in 1 .. N - 1, NEW j \in 1 .. N - 1, tail'[i][2] = "Running",
                      j \in After(i)', \A m \in After(i)' : j <= m
               PROVE  tail'[j][2] \notin {"Staged", "Armed"}
    BY <1>1 DEF RunningStops
  <2>1. j + 1 \in After(i + 1)
    BY <1>6
  <2>2. ASSUME NEW m \in After(i + 1) PROVE j + 1 <= m
    <3>1. m \in 2 .. N
      BY <1>2, <1>7, <2>2
    <3>2. m - 1 \in After(i)'
      BY <1>3, <1>6, <2>2, <3>1
    <3>3. j <= m - 1
      BY <3>2
    <3> QED  BY <1>1, <3>1, <3>3
  <2>3. tail[i + 1][2] = "Running" /\ i + 1 \in DOMAIN tail /\ j + 1 \in DOMAIN tail
    BY <1>1, <1>2
  <2>4. tail[j + 1][2] \notin {"Staged", "Armed"}
    BY <2>1, <2>2, <2>3 DEF BridgeInv, RunningStops
  <2> QED  BY <1>1, <2>4
<1>11. ActiveStops'
  <2> SUFFICES ASSUME NEW j \in 1 .. N - 1, active' # NoHeat, FirstOf(active, j)'
               PROVE  tail'[j][2] \notin {"Staged", "Armed"}
    BY <1>1 DEF ActiveStops
  <2>1. /\ tail[j + 1][1] = active' /\ j + 1 \in 1 .. N /\ 1 < j + 1
        /\ \A m \in 2 .. N : m < j + 1 => tail[m][1] # active'
    <3>1. tail'[j][1] = active' /\ \A m \in 1 .. N - 1 : m < j => tail'[m][1] # active'
      BY <1>1 DEF FirstOf
    <3>2. ASSUME NEW m \in 2 .. N, m < j + 1 PROVE tail[m][1] # active'
      <4>1. m - 1 \in 1 .. N - 1 /\ m - 1 < j /\ (m - 1) + 1 = m
        BY <1>1, <3>2
      <4> QED  BY <1>1, <3>1, <4>1
    <3> QED  BY <1>1, <1>2, <3>1, <3>2
  <2>2. CASE active' = h
    <3>1. t = "Running"
      <4> SUFFICES ASSUME active = h, t \in {"Staged", "Armed"} PROVE FALSE
        BY <2>2
      <4>1. FirstOf(active, 1)
        <5>1. \A m \in 1 .. N : ~(m < 1)
          BY <1>1
        <5> QED  BY <1>1, <5>1 DEF FirstOf
      <4>2. active # NoHeat
        BY NoHeatAssumption
      <4> QED  BY <1>1, <1>5, <4>1, <4>2 DEF BridgeInv, ActiveStops
    <3>2. j + 1 \in After(1)
      BY <1>1, <2>1, <2>2 DEF After
    <3>3. ASSUME NEW m \in After(1) PROVE j + 1 <= m
      <4>1. m \in 2 .. N /\ tail[m][1] = active'
        BY <1>1, <1>5, <1>7, <2>2 DEF After
      <4> QED  BY <1>1, <2>1, <4>1
    <3>4. tail[1][2] = "Running" /\ j + 1 \in DOMAIN tail /\ 1 \in DOMAIN tail
      BY <1>1, <1>5, <2>1, <3>1
    <3>5. tail[j + 1][2] \notin {"Staged", "Armed"}
      BY <3>2, <3>3, <3>4 DEF BridgeInv, RunningStops
    <3> QED  BY <1>1, <3>5
  <2>3. CASE active' # h
    <3>1. active' = active
      BY <2>3
    <3>2. FirstOf(active, j + 1)
      <4>1. ASSUME NEW m \in 1 .. N, m < j + 1 PROVE tail[m][1] # active
        BY <1>1, <1>4, <2>1, <2>3, <3>1, <4>1
      <4> QED  BY <1>1, <2>1, <3>1, <4>1 DEF FirstOf
    <3> QED  BY <1>1, <2>1, <3>1, <3>2 DEF BridgeInv, ActiveStops
  <2> QED  BY <2>2, <2>3
<1>12. ASSUME NEW g \in Heats, ~Pending(g)'
       PROVE  /\ g # h => ~Pending(g)
              /\ g = h => NextState(t) = phase[h]
  <2>1. \A i \in 1 .. N - 1 : tail[i + 1][1] # g
    BY <1>1, <1>12 DEF Pending
  <2>2. \A i \in 2 .. N : tail[i][1] # g
    BY <1>3, <2>1
  <2>3. g # h => ~Pending(g)
    BY <1>1, <1>4, <2>2 DEF Pending
  <2>4. ASSUME g = h PROVE After(1) = {}
    BY <1>1, <1>5, <1>7, <2>2, <2>4 DEF After
  <2> QED  BY <1>1, <1>5, <2>3, <2>4 DEF BridgeInv, LastLands
<1>13. ASSUME NEW g \in Heats PROVE Settled(g)'
  <2> SUFFICES ASSUME ~Pending(g)'
               PROVE  /\ active' = g => phase[g] = "Running"
                      /\ \A k \in Kinds : Waits(g, k)' => phase[g] = PhaseOf[k]
    BY DEF Settled
  <2>1. CASE g # h
    <3>1. Settled(g) /\ ~Pending(g) /\ director = "following"
      BY <1>12, <2>1 DEF BridgeInv, Next1
    <3>2. active' = g => active = g
      BY <2>1, NoHeatAssumption
    <3>3. \A k \in Kinds : Waits(g, k)' => Waits(g, k)
      BY <2>1 DEF Waits
    <3> QED  BY <3>1, <3>2, <3>3 DEF Settled
  <2>2. CASE g = h
    <3>1. NextState(t) = phase[h]
      BY <1>12, <2>2
    <3>2. active' = h => phase[h] = "Running"
      <4> SUFFICES ASSUME active = h, t \in {"Staged", "Armed"} PROVE FALSE
        BY <3>1 DEF NextState
      <4>1. FirstOf(active, 1)
        <5>1. \A m \in 1 .. N : ~(m < 1)
          BY <1>1
        <5> QED  BY <1>1, <5>1 DEF FirstOf
      <4>2. active # NoHeat
        BY NoHeatAssumption
      <4> QED  BY <1>1, <1>5, <4>1, <4>2 DEF BridgeInv, ActiveStops
    <3> QED  BY <2>2, <3>1, <3>2
  <2> QED  BY <2>1, <2>2
<1>14. NeverOrphaned'
  <2> SUFFICES ASSUME NEW g \in Heats, g \notin hurt', ~Pending(g)'
               PROVE  /\ phase[g] = "Armed" =>
                           Waits(g, "start")' /\ Held(g, "start") \in fresh'
                      /\ phase[g] = "Running" /\ g \notin Unseated =>
                           Waits(g, "completion")' /\ Held(g, "completion") \in fresh'
    BY DEF NeverOrphaned
  <2>0. {"start", "completion"} \subseteq Kinds /\ director = "following"
    BY DEF Kinds, Next1
  <2>1. CASE g # h
    BY <1>12, <2>0, <2>1 DEF BridgeInv, NeverOrphaned, Waits
  <2>2. CASE g = h
    <3>1. /\ phase[g] = "Armed" => t = "Armed"
          /\ phase[g] = "Running" => t = "Running"
      BY <1>12, <2>2 DEF NextState, Transitions
    <3> QED  BY <2>2, <3>1
  <2> QED  BY <2>1, <2>2
<1> QED  BY <1>8, <1>9, <1>10, <1>11, <1>13, <1>14 DEF BridgeInv

\* A step that neither moves a heat nor handles one, and takes no clock from a
\* heat that needs it.
LEMMA QuietBridge ==
  ASSUME BridgeInv, UNCHANGED <<phase, order, tail, director>>, active' \in {active, NoHeat},
         \A h \in Heats, k \in Kinds : Waits(h, k)' => Waits(h, k), NeverOrphaned'
  PROVE  BridgeInv'
<1>1. Asleep'
  BY DEF BridgeInv, Asleep
<1>2. Listed' /\ LastLands' /\ RunningStops'
  BY DEF BridgeInv, Listed, Scheduled, LastLands, RunningStops, After
<1>3. ActiveStops'
  BY DEF BridgeInv, ActiveStops, FirstOf
<1>4. \A h \in Heats : Settled(h)'
  BY NoHeatAssumption DEF BridgeInv, Settled, Pending
<1> QED  BY <1>1, <1>2, <1>3, <1>4 DEF BridgeInv

\* A clock takes a turn and appends nothing: it ends only when its recheck fails.
LEMMA TurnBridge ==
  ASSUME TypeOK, BridgeInv, NEW s \in Slots, NEW from \in Stages \ {"idle"}, NEW to \in Stages,
         Turns(s, from, to), Keeps(s),
         UNCHANGED <<phase, order, tail, director, active, hurt>>,
         to = "idle" => /\ s[2] = "start" => ~StillIn(s, "Armed")
                        /\ s[2] = "completion" => ~StillIn(s, "Running")
  PROVE  BridgeInv'
<1>1. ASSUME NEW h \in Heats, NEW k \in Kinds
      PROVE  /\ Waits(h, k)' => Waits(h, k)
             /\ Held(h, k) # s \/ to # "idle" =>
                  /\ Waits(h, k) => Waits(h, k)'
                  /\ Waits(h, k) /\ Held(h, k) \in fresh => Held(h, k) \in fresh'
  <2>1. Held(h, k) \in Slots /\ Held(h, k)[3] = "held"
    BY SlotTypes, HeldApart
  <2>2. CASE Held(h, k) # s
    BY <2>1, <2>2 DEF Waits, Turns, Keeps, TypeOK
  <2>3. CASE Held(h, k) = s
    <3>1. task[s] # "idle" /\ task'[s] = to
      BY <2>1, <2>3 DEF Turns, TypeOK
    <3> QED  BY <2>3, <3>1 DEF Waits, Keeps
  <2> QED  BY <2>2, <2>3
<1>2. NeverOrphaned'
  <2> SUFFICES ASSUME director = "following", NEW h \in Heats, h \notin hurt, ~Pending(h)
               PROVE  /\ phase[h] = "Armed" =>
                           Waits(h, "start")' /\ Held(h, "start") \in fresh'
                      /\ phase[h] = "Running" /\ h \notin Unseated =>
                           Waits(h, "completion")' /\ Held(h, "completion") \in fresh'
    BY DEF NeverOrphaned, Pending
  <2>0. {"start", "completion"} \subseteq Kinds
    BY DEF Kinds
  <2>1. ASSUME phase[h] = "Armed"
        PROVE  Waits(h, "start")' /\ Held(h, "start") \in fresh'
    <3>1. Waits(h, "start") /\ Held(h, "start") \in fresh
      BY <2>1 DEF BridgeInv, NeverOrphaned
    <3>2. Held(h, "start") # s \/ to # "idle"
      BY <2>1, <3>1, HeldApart DEF StillIn
    <3> QED  BY <1>1, <2>0, <3>1, <3>2
  <2>2. ASSUME phase[h] = "Running", h \notin Unseated
        PROVE  Waits(h, "completion")' /\ Held(h, "completion") \in fresh'
    <3>1. Waits(h, "completion") /\ Held(h, "completion") \in fresh
      BY <2>2 DEF BridgeInv, NeverOrphaned
    <3>2. Held(h, "completion") # s \/ to # "idle"
      BY <2>2, <3>1, HeldApart DEF StillIn
    <3> QED  BY <1>1, <2>0, <3>1, <3>2
  <2> QED  BY <2>1, <2>2
<1> QED  BY <1>1, <1>2, QuietBridge

\* A clock's checked append.
LEMMA TransitIfBridge ==
  ASSUME TypeOK, BridgeInv, NEW s \in Slots, NEW from \in Stages \ {"idle"}, NEW t,
         Turns(s, from, "idle"), NEW check \in BOOLEAN, TransitIf(check, s, t),
         UNCHANGED <<active, director, hurt>>,
         check => MayFollow(s[1], t),
         ~check => /\ s[2] = "start" => ~StillIn(s, "Armed")
                   /\ s[2] = "completion" => ~StillIn(s, "Running")
  PROVE  BridgeInv'
<1>1. CASE check
  <2>1. Transit(s[1], t) /\ MayFollow(s[1], t)
    BY <1>1 DEF TransitIf
  <2>2. \A x \in Slots : /\ x[1] # s[1] => task'[x] = task[x]
                         /\ task[x] = "idle" => task'[x] = "idle"
    BY DEF Turns, TypeOK
  <2> QED  BY <2>1, <2>2, TransitBridge
<1>2. CASE ~check
  <2>1. Keeps(s) /\ UNCHANGED <<phase, order, tail>>
    BY <1>2 DEF TransitIf, logVars
  <2>2. "idle" \in Stages
    BY DEF Stages
  <2> QED  BY <1>2, <2>1, <2>2, TurnBridge
<1> QED  BY <1>1, <1>2

-----------------------------------------------------------------------------
\* The bridge is idle or dead, and the log is where the restart finds it.
LEMMA InitBridge == ASSUME Init PROVE BridgeInv
<1>1. \A h \in Heats, k \in Kinds : ~Waits(h, k)
  BY SlotTypes DEF Init, Waits
<1> QED
  BY <1>1 DEF Init, BridgeInv, Asleep, Listed, Scheduled, LastLands, RunningStops,
              ActiveStops, Settled, NeverOrphaned

\* A heat the log did not know: nothing of it is unread, emitted or held.
LEMMA ScheduleBridge ==
  ASSUME TypeOK, BridgeInv, NEW h \in Heats, phase[h] = Unknown,
         phase' = [phase EXCEPT ![h] = "Scheduled"], order' = Append(order, h),
         UNCHANGED <<bridgeVars, taskVars, director, hurt>>
  PROVE  BridgeInv'
<1>1. /\ phase'[h] = "Scheduled" /\ \A g \in Heats \ {h} : phase'[g] = phase[g]
      /\ UNCHANGED <<tail, active, task, fresh>>
  BY DEF TypeOK, bridgeVars, taskVars
<1>2. Listed'
  <2>1. /\ Len(order) + 1 \in DOMAIN order' /\ order'[Len(order) + 1] = h
        /\ \A i \in DOMAIN order : i \in DOMAIN order' /\ order'[i] = order[i]
    BY DEF TypeOK
  <2> QED  BY <1>1, <2>1 DEF BridgeInv, Listed, Scheduled
<1>3. LastLands'
  <2> SUFFICES ASSUME NEW i \in DOMAIN tail, After(i) = {}
               PROVE  NextState(tail[i][2]) = phase'[tail[i][1]]
    BY <1>1 DEF LastLands, After
  <2>1. /\ NextState(tail[i][2]) = phase[tail[i][1]]
        /\ tail[i][1] \in Heats /\ tail[i][2] \in Transitions
    BY DEF BridgeInv, LastLands, TypeOK
  <2>2. tail[i][1] # h
    BY <2>1, NextStateType DEF States, Unknown
  <2> QED  BY <1>1, <2>1, <2>2
<1>4. Asleep' /\ RunningStops' /\ ActiveStops'
  BY <1>1 DEF BridgeInv, Asleep, Waits, RunningStops, After, ActiveStops, FirstOf
<1>5. ASSUME NEW g \in Heats PROVE Settled(g)'
  <2>1. \A k \in Kinds : PhaseOf[k] # Unknown
    BY DEF PhaseOf, Kinds, Unknown
  <2>2. Settled(g)
    BY DEF BridgeInv
  <2> QED  BY <1>1, <2>1, <2>2 DEF Settled, Pending, Waits, Unknown
<1>6. NeverOrphaned'
  BY <1>1 DEF BridgeInv, NeverOrphaned, Pending, Waits
<1> QED  BY <1>2, <1>3, <1>4, <1>5, <1>6 DEF BridgeInv

\* A command records a transition that is legal in the phase it finds.
LEMMA CommandsMayFollow ==
  ASSUME NEW h \in Heats, NEW command \in Commands, phase[h] \in LegalIn(command)
  PROVE  MayFollow(h, Records(command))
BY RecordsType DEF MayFollow, LegalIn, Records, Commands, Scheduled, Unknown

LEMMA RaceDirectorBridge ==
  ASSUME TypeOK, BridgeInv, NEW h \in Heats, RaceDirector(h)
  PROVE  BridgeInv'
<1>1. CASE \E command \in Commands : HeatTransition(h, command)
  <2>1. PICK command \in Commands :
          /\ MayFollow(h, Records(command)) /\ Transit(h, Records(command))
          /\ UNCHANGED <<active, task, director, hurt>>
    BY <1>1, CommandsMayFollow DEF HeatTransition, faultVars
  <2> QED  BY <2>1, TransitBridge
<1>2. CASE Finalize(h)
  <2>1. MayFollow(h, "Finalized")
    BY <1>2, CommandsMayFollow DEF Finalize, Records, Commands
  <2> QED  BY <1>2, <2>1, TransitBridge DEF Finalize, faultVars
<1>3. CASE Advance(h)
  <2>1. MayFollow(h, "Advanced")
    BY <1>3, CommandsMayFollow DEF Advance, Records, Commands
  <2> QED  BY <1>3, <2>1, TransitBridge DEF Advance, faultVars
<1>4. CASE ScheduleHeat(h) \/ LoadGenerated(h)
  BY <1>4, ScheduleBridge DEF ScheduleHeat, LoadGenerated, faultVars
<1>5. CASE SetCurrentHeat(h) \/ \E p \in Protests : FileProtest(h, p)
  <2>1. UNCHANGED <<phase, order, tail, director, active, task, fresh, hurt>>
    BY <1>5 DEF SetCurrentHeat, FileProtest, bridgeVars, taskVars, faultVars
  <2> QED  BY <2>1, QuietBridge DEF BridgeInv, NeverOrphaned, Pending, Waits
<1> QED  BY <1>1, <1>2, <1>3, <1>4, <1>5 DEF RaceDirector

\* What cancel_for and an install leave in the slots.
LEMMA InstalledSlots ==
  ASSUME TypeOK, NEW h \in Heats, NEW k \in Kinds, NEW stage, NEW late \in SUBSET Late(h),
         Installed(h, k, stage, late), Surviving(h, late) \subseteq fresh'
  PROVE  /\ \A g \in Heats, j \in Kinds : g # h =>
              /\ task'[Held(g, j)] = task[Held(g, j)]
              /\ Held(g, j) \in fresh => Held(g, j) \in fresh'
         /\ \A j \in Kinds \ {k} : ~Waits(h, j)'
         /\ task'[Held(h, k)] = stage
<1>1. ASSUME NEW g \in Heats, NEW j \in Kinds
      PROVE  /\ g # h => task'[Held(g, j)] = task[Held(g, j)]
             /\ g # h /\ Held(g, j) \in fresh => Held(g, j) \in fresh'
             /\ g = h => task'[Held(g, j)] = IF j = k THEN stage ELSE "idle"
  <2>1. Held(g, j) \in Slots /\ Held(g, j)[1] = g /\ Held(g, j)[2] = j /\ Held(g, j)[3] = "held"
    BY SlotTypes, HeldApart
  <2> QED  BY <2>1 DEF Installed, Surviving
<1> QED  BY <1>1 DEF Waits

\* cancel_for alone: h has no clock.
LEMMA CancelSlots ==
  ASSUME TypeOK, NEW h \in Heats, Cancel(h)
  PROVE  /\ \A g \in Heats, j \in Kinds : g # h =>
              /\ task'[Held(g, j)] = task[Held(g, j)]
              /\ Held(g, j) \in fresh => Held(g, j) \in fresh'
         /\ \A k \in Kinds : ~Waits(h, k)'
<1>1. PICK late \in SUBSET Late(h) :
        Installed(h, "start", "idle", late) /\ fresh' = Surviving(h, late)
  BY DEF Cancel
<1>2. "start" \in Kinds
  BY DEF Kinds
<1> QED  BY <1>1, <1>2, InstalledSlots DEF Waits

\* cancel_for and a new driver: h has that clock alone, its watermark the
\* latest transition unless a read failed.
LEMMA SpawnSlots ==
  ASSUME TypeOK, NEW h \in Heats, NEW k \in Kinds, NEW stage, stage # "idle", Spawn(h, k, stage)
  PROVE  /\ \A g \in Heats, j \in Kinds : g # h =>
              /\ task'[Held(g, j)] = task[Held(g, j)]
              /\ Held(g, j) \in fresh => Held(g, j) \in fresh'
         /\ \A j \in Kinds : Waits(h, j)' <=> j = k
         /\ \A g \in Heats : g # h /\ g \notin hurt' => g \notin hurt
         /\ h \notin hurt' => Held(h, k) \in fresh'
<1>1. PICK late \in SUBSET Late(h) :
        /\ Installed(h, k, stage, late)
        /\ \/ fresh' = Surviving(h, late) \cup {Held(h, k)} /\ hurt' = hurt \ {h}
           \/ fresh' = Surviving(h, late) /\ hurt' = hurt \cup {h}
  BY DEF Spawn
<1>2. Surviving(h, late) \subseteq fresh' /\ Held(h, k) \in Surviving(h, late) \cup {Held(h, k)}
  BY <1>1
<1>3. /\ \A g \in Heats : g # h /\ g \notin hurt' => g \notin hurt
      /\ h \notin hurt' => Held(h, k) \in fresh'
  BY <1>1, <1>2
<1> QED  BY <1>1, <1>2, <1>3, InstalledSlots DEF Waits

LEMMA HandleStepBridge ==
  ASSUME TypeOK, BridgeInv, NEW h \in Heats, Handle(h)
  PROVE  BridgeInv'
<1>1. UNCHANGED <<phase, order, director>>
  BY DEF Handle, HandleRunning, HandleRunningUnread, HandleUnofficial, HandleOffRamp,
         HandleStaged, HandleArmed, logVars
<1>2. Kinds = {"start", "completion", "protest"}
  BY DEF Kinds
<1>3. CASE HandleRunning(h)
  <2>1. Next1(h, {"Running"}) /\ active' \in {h, NoHeat} /\ "Running" \in Transitions
    BY <1>3 DEF HandleRunning, Transitions
  <2>2. CASE h \in Unseated
    <3>1. active' = NoHeat /\ Cancel(h) /\ UNCHANGED hurt
      BY <1>3, <2>2 DEF HandleRunning
    <3> QED  BY <1>1, <2>1, <2>2, <3>1, CancelSlots, HandleBridge
  <2>3. CASE h \notin Unseated
    <3>1. Spawn(h, "completion", "racing")
      BY <1>3, <2>3 DEF HandleRunning
    <3>2. NextState("Running") = PhaseOf["completion"]
      BY DEF NextState, PhaseOf, Kinds
    <3> QED  BY <1>1, <1>2, <2>1, <3>1, <3>2, SpawnSlots, HandleBridge
  <2> QED  BY <2>2, <2>3
<1>4. CASE HandleRunningUnread(h)
  <2>1. /\ Next1(h, {"Running"}) /\ active' = NoHeat /\ "Running" \in Transitions
        /\ hurt' = hurt \cup {h} /\ Cancel(h)
    BY <1>1, <1>4 DEF HandleRunningUnread, Transitions
  <2>2. active' # h
    BY <2>1, NoHeatAssumption
  <2> QED  BY <1>1, <2>1, <2>2, CancelSlots, HandleBridge
<1>5. CASE HandleUnofficial(h)
  <2>1. PICK t \in {"Finished", "Reverted"} : Next1(h, {t})
    BY <1>5 DEF HandleUnofficial, Next1
  <2>2. t \in Transitions /\ NextState(t) = PhaseOf["protest"]
    BY DEF NextState, PhaseOf, Kinds, Transitions
  <2>3. active' \in {active, NoHeat} /\ active' # h /\ Spawn(h, "protest", "spawned")
    BY <1>5, NoHeatAssumption DEF HandleUnofficial, Released
  <2> QED  BY <1>1, <1>2, <2>1, <2>2, <2>3, SpawnSlots, HandleBridge
<1>6. CASE HandleOffRamp(h)
  <2>1. PICK t \in {"Aborted", "Finalized", "Restarted", "Discarded", "Advanced"} :
          Next1(h, {t})
    BY <1>6 DEF HandleOffRamp, Next1
  <2>2. t \in Transitions /\ t \notin {"Armed", "Running"}
    BY DEF Transitions
  <2>3. /\ active' \in {active, NoHeat} /\ active' # h /\ Cancel(h)
        /\ UNCHANGED hurt
    BY <1>6, NoHeatAssumption DEF HandleOffRamp, Released, faultVars
  <2> QED  BY <1>1, <2>1, <2>2, <2>3, CancelSlots, HandleBridge
<1>7. CASE HandleStaged(h)
  <2>1. /\ Next1(h, {"Staged"}) /\ "Staged" \in Transitions /\ active' = active
        /\ Cancel(h) /\ UNCHANGED hurt
    BY <1>7 DEF HandleStaged, Transitions, faultVars
  <2> QED  BY <1>1, <2>1, CancelSlots, HandleBridge
<1>8. CASE HandleArmed(h)
  <2>1. /\ Next1(h, {"Armed"}) /\ "Armed" \in Transitions /\ active' = active
        /\ Spawn(h, "start", "spawned")
    BY <1>8 DEF HandleArmed, Transitions
  <2>2. NextState("Armed") = PhaseOf["start"]
    BY DEF NextState, PhaseOf, Kinds
  <2> QED  BY <1>1, <1>2, <2>1, <2>2, SpawnSlots, HandleBridge
<1> QED  BY <1>3, <1>4, <1>5, <1>6, <1>7, <1>8 DEF Handle

LEMMA ClocksBridge ==
  ASSUME TypeOK, BridgeInv, NEW h \in Heats, Clocks(h)
  PROVE  BridgeInv'
<1>1. \A k \in Kinds : \A s \in TasksOf(h, k) : s \in Slots /\ s[1] = h /\ s[2] = k
  BY SlotTypes
<1>2. /\ Stages = {"idle", "spawned", "holding", "cleared", "racing", "grace"}
      /\ Kinds = {"start", "completion", "protest"}
  BY DEF Stages, Kinds
<1>3. CASE AnnounceStart(h)
  <2>1. PICK s \in TasksOf(h, "start") : Turns(s, "spawned", "holding") /\ Keeps(s)
    BY <1>3 DEF AnnounceStart
  <2>2. UNCHANGED <<phase, order, tail, director, active, hurt>>
    BY <1>3 DEF AnnounceStart, bridgeVars, faultVars
  <2> QED  BY <1>1, <1>2, <2>1, <2>2, TurnBridge
<1>4. CASE FireStart(h)
  <2>1. PICK s \in TasksOf(h, "start") :
          Turns(s, "holding", "idle") /\ TransitIf(StillIn(s, "Armed"), s, "Running")
    BY <1>4 DEF FireStart
  <2>2. UNCHANGED <<active, director, hurt>>
    BY <1>4 DEF FireStart, faultVars
  <2>3. s \in Slots /\ s[1] = h /\ s[2] = "start" /\ StillIn(s, "Armed") \in BOOLEAN
    BY <1>1, <1>2 DEF StillIn
  <2>4. StillIn(s, "Armed") => MayFollow(s[1], "Running")
    BY <2>3 DEF StillIn, MayFollow, Scheduled, Unknown, Transitions
  <2> QED  BY <1>2, <2>1, <2>2, <2>3, <2>4, TransitIfBridge
<1>5. CASE ExpireRace(h)
  <2>1. PICK s \in TasksOf(h, "completion") :
          /\ Keeps(s)
          /\ \/ StillIn(s, "Running") /\ Turns(s, "racing", "grace")
             \/ ~StillIn(s, "Running") /\ Turns(s, "racing", "idle")
          /\ UNCHANGED <<phase, order>>
    BY <1>5 DEF ExpireRace, logVars
  <2>2. UNCHANGED <<tail, director, active, hurt>>
    BY <1>5 DEF ExpireRace, bridgeVars, faultVars
  <2> QED  BY <1>1, <1>2, <2>1, <2>2, TurnBridge
<1>6. CASE FinishAtEnd(h) \/ FinishAfterGrace(h)
  <2>1. PICK s \in TasksOf(h, "completion"), from \in {"racing", "grace"} :
          Turns(s, from, "idle") /\ TransitIf(StillIn(s, "Running"), s, "Finished")
    BY <1>6 DEF FinishAtEnd, FinishAfterGrace
  <2>2. UNCHANGED <<active, director, hurt>>
    BY <1>6 DEF FinishAtEnd, FinishAfterGrace, faultVars
  <2>3. s \in Slots /\ s[1] = h /\ s[2] = "completion" /\ StillIn(s, "Running") \in BOOLEAN
    BY <1>1, <1>2 DEF StillIn
  <2>4. StillIn(s, "Running") => MayFollow(s[1], "Finished")
    BY <2>3 DEF StillIn, MayFollow, Scheduled, Unknown, Transitions
  <2> QED  BY <1>2, <2>1, <2>2, <2>3, <2>4, TransitIfBridge
<1>7. CASE AnnounceWindow(h) \/ NoWindow(h) \/ CheckProtests(h)
  <2>1. PICK s \in TasksOf(h, "protest"), from \in {"spawned", "holding"},
             to \in {"idle", "holding", "cleared"} : Turns(s, from, to) /\ Keeps(s)
    BY <1>7 DEF AnnounceWindow, NoWindow, CheckProtests
  <2>2. UNCHANGED <<phase, order, tail, director, active, hurt>>
    BY <1>7 DEF AnnounceWindow, NoWindow, CheckProtests, logVars, bridgeVars, faultVars
  <2> QED  BY <1>1, <1>2, <2>1, <2>2, TurnBridge
<1>8. CASE FireOfficial(h)
  <2> DEFINE check(s) == StillIn(s, "Unofficial") /\ Open(h) = {}
  <2>1. PICK s \in TasksOf(h, "protest") :
          Turns(s, "cleared", "idle") /\ TransitIf(check(s), s, "Finalized")
    BY <1>8 DEF FireOfficial
  <2>2. UNCHANGED <<active, director, hurt>>
    BY <1>8 DEF FireOfficial, faultVars
  <2>3. s \in Slots /\ s[1] = h /\ s[2] = "protest" /\ check(s) \in BOOLEAN
    BY <1>1, <1>2 DEF StillIn
  <2>4. check(s) => MayFollow(s[1], "Finalized")
    BY <2>3 DEF StillIn, MayFollow, Scheduled, Unknown, Transitions
  <2> HIDE DEF check
  <2> QED  BY <1>2, <2>1, <2>2, <2>3, <2>4, TransitIfBridge
<1>9. CASE ClockFails(h)
  <2>1. PICK k \in Kinds : /\ task' = [task EXCEPT ![Held(h, k)] = "idle"]
                           /\ fresh' = fresh \ {Held(h, k)}
    BY <1>9 DEF ClockFails
  <2>2. /\ UNCHANGED <<phase, order, tail, director, active>>
        /\ hurt' = hurt \cup {h}
    BY <1>9 DEF ClockFails, logVars, bridgeVars
  <2>3. \A g \in Heats, j \in Kinds : Waits(g, j)' => Waits(g, j)
    BY <2>1, SlotTypes DEF Waits, TypeOK
  <2>4. ASSUME NEW g \in Heats, g # h, NEW j \in Kinds
        PROVE  /\ Waits(g, j)' <=> Waits(g, j)
               /\ Held(g, j) \in fresh => Held(g, j) \in fresh'
    <3>1. Held(g, j) \in Slots /\ Held(g, j) # Held(h, k)
      BY <2>4, SlotTypes, HeldApart
    <3>2. fresh' = fresh \ {Held(h, k)}
      BY <2>1
    <3> QED  BY <2>1, <3>1, <3>2 DEF Waits, TypeOK
  <2>5. NeverOrphaned'
    <3>1. {"start", "completion"} \subseteq Kinds
      BY DEF Kinds
    <3>2. \A g \in Heats : g \notin hurt' => g # h /\ g \notin hurt
      BY <2>2
    <3>3. \A g \in Heats : Pending(g)' <=> Pending(g)
      BY <2>2 DEF Pending
    <3> QED  BY <2>2, <2>4, <3>1, <3>2, <3>3 DEF BridgeInv, NeverOrphaned
  <2> QED  BY <2>2, <2>3, <2>5, QuietBridge
<1> QED  BY <1>3, <1>4, <1>5, <1>6, <1>7, <1>8, <1>9 DEF Clocks

\* A restart hands the bridge every heat in flight, in the state it was left.
LEMMA BridgeStartsBridge ==
  ASSUME TypeOK, BridgeInv, BridgeStarts
  PROVE  BridgeInv'
<1> DEFINE flying == {i \in DOMAIN order : InFlight(order[i])}
<1>1. PICK n \in 0 .. Len(order) : \E at \in [1 .. n -> flying] :
        /\ \A i \in flying : \E j \in 1 .. n : at[j] = i
        /\ tail' = [i \in 1 .. n |-> Resume(order[at[i]])]
  BY DEF BridgeStarts
<1>2. PICK at \in [1 .. n -> flying] :
        /\ \A i \in flying : \E j \in 1 .. n : at[j] = i
        /\ tail' = [i \in 1 .. n |-> Resume(order[at[i]])]
  BY <1>1
<1>3. /\ active = NoHeat /\ \A h \in Heats, k \in Kinds : ~Waits(h, k)
      /\ UNCHANGED <<phase, order, active, task>> /\ director' = "following"
  BY DEF BridgeStarts, BridgeInv, Asleep, logVars, taskVars
<1>4. DOMAIN tail' = 1 .. n
  BY <1>2
<1>5. ASSUME NEW i \in 1 .. n
      PROVE  /\ NextState(tail'[i][2]) = phase[tail'[i][1]]
             /\ tail'[i][2] # "Staged"
             /\ tail'[i][2] = "Running" <=> phase[tail'[i][1]] = "Running"
             /\ tail'[i][2] = "Armed" <=> phase[tail'[i][1]] = "Armed"
  <2>1. at[i] \in flying
    BY <1>2
  <2>2. InFlight(order[at[i]]) /\ tail'[i] = Resume(order[at[i]])
    BY <1>2, <2>1
  <2> QED  BY <2>2 DEF InFlight, Resume, NextState
<1>6. LastLands'
  BY <1>3, <1>4, <1>5 DEF LastLands
<1>7. RunningStops'
  <2> SUFFICES ASSUME NEW i \in 1 .. n, NEW j \in 1 .. n, tail'[i][2] = "Running",
                      tail'[j][1] = tail'[i][1]
               PROVE  tail'[j][2] \notin {"Staged", "Armed"}
    BY <1>4 DEF RunningStops, After
  <2> QED  BY <1>5
<1>8. ASSUME NEW h \in Heats, phase[h] \in {"Armed", "Running"} PROVE Pending(h)'
  <2>1. PICK i \in DOMAIN order : order[i] = h
    BY <1>8 DEF BridgeInv, Listed, Scheduled, Unknown
  <2>2. i \in flying
    BY <1>8, <2>1 DEF InFlight
  <2>3. PICK j \in 1 .. n : at[j] = i
    BY <1>2, <2>2
  <2>4. tail'[j] = Resume(h)
    BY <1>2, <2>1, <2>3
  <2>5. tail'[j][1] = h
    BY <1>8, <2>4 DEF Resume
  <2> QED  BY <1>4, <2>5 DEF Pending
<1>9. NeverOrphaned'
  BY <1>3, <1>8 DEF NeverOrphaned
<1>10. \A h \in Heats : Settled(h)'
  BY <1>3, NoHeatAssumption DEF Settled, Waits
<1>11. Asleep' /\ ActiveStops' /\ Listed'
  BY <1>3 DEF Asleep, ActiveStops, BridgeInv, Listed, Scheduled
<1> QED  BY <1>6, <1>7, <1>9, <1>10, <1>11 DEF BridgeInv

LEMMA BridgeInductive ==
  ASSUME TypeOK, BridgeInv, [Next]_vars
  PROVE  BridgeInv'
<1>1. ASSUME NEW h \in Heats, RaceDirector(h) \/ Handle(h) \/ Clocks(h)
      PROVE  BridgeInv'
  BY <1>1, RaceDirectorBridge, HandleStepBridge, ClocksBridge
<1> DEFINE seen == <<phase, order, tail, director, task, fresh, hurt>>
<1>2. ASSUME UNCHANGED seen, active' \in {active, NoHeat} PROVE BridgeInv'
  BY <1>2, QuietBridge DEF BridgeInv, NeverOrphaned, Pending, Waits
<1>3. CASE \/ LoadOnDeck \/ NothingToLoad \/ AppendOther \/ SourcesDone \/ UNCHANGED vars
           \/ \E p \in Protests : ResolveProtest(p) \/ ReverseResolution(p)
  <2>1. UNCHANGED seen /\ active' \in {active, NoHeat}
    BY <1>3 DEF LoadOnDeck, NothingToLoad, AppendOther, SourcesDone, ResolveProtest,
                ReverseResolution, vars, logVars, bridgeVars, taskVars, faultVars
  <2> QED  BY <1>2, <2>1
<1>4. CASE BridgeStarts
  BY <1>4, BridgeStartsBridge
<1>5. CASE BridgeGivesUp \/ Boot
  <2>1. /\ UNCHANGED <<phase, order, tail, active, task, fresh>>
        /\ director # "following" /\ director' # "following"
    BY <1>5 DEF BridgeGivesUp, Boot, logVars, bridgeVars, taskVars
  <2> QED
    BY <2>1 DEF BridgeInv, Asleep, Listed, Scheduled, LastLands, RunningStops, After,
                ActiveStops, FirstOf, Settled, NeverOrphaned, Waits
<1>6. CASE Crash
  <2>1. /\ UNCHANGED <<phase, order>> /\ tail' = <<>> /\ active' = NoHeat
        /\ director' = "down" /\ task' = [s \in Slots |-> "idle"]
    BY <1>6 DEF Crash, logVars
  <2>2. \A h \in Heats, k \in Kinds : ~Waits(h, k)'
    BY <2>1, SlotTypes DEF Waits
  <2> QED
    BY <2>1, <2>2 DEF BridgeInv, Asleep, Listed, Scheduled, LastLands, RunningStops,
                      ActiveStops, Settled, NeverOrphaned
<1> QED  BY <1>1, <1>3, <1>4, <1>5, <1>6 DEF Next

LEMMA BridgeInvariance == Spec => []BridgeInv
BY InitBridge, BridgeInductive, TypeCorrect, PTL DEF Spec

\* QuietWhenCaughtUp of RaceRuntime, for any heats, bounds and configuration:
\* whatever a lagging bridge, crashes and failing reads did before, a bridge
\* with nothing unread has no timer emitting into a heat that is not racing and
\* no clock waiting to fire for a phase the heat has left.
THEOREM CaughtUpIsQuiet == Spec => []QuietWhenCaughtUp
<1>1. TypeOK /\ BridgeInv => QuietWhenCaughtUp
  <2> SUFFICES ASSUME TypeOK, BridgeInv, director = "following", tail = <<>>
               PROVE  /\ active # NoHeat => phase[active] = "Running"
                      /\ \A h \in Heats, k \in Kinds : Waits(h, k) => phase[h] = PhaseOf[k]
    BY DEF QuietWhenCaughtUp
  <2>1. \A h \in Heats : ~Pending(h)
    BY DEF Pending
  <2> QED  BY <2>1 DEF BridgeInv, Settled, TypeOK
<1> QED  BY <1>1, BridgeInvariance, TypeCorrect, PTL

\* NeverOrphaned of RaceRuntime, for any heats, bounds and configuration: an
\* Armed or Running heat under a live bridge either has news still to be read
\* or has in its slot the clock that moves it on, with a watermark its recheck
\* will accept -- across crashes, aborts, re-arming and other heats' hand-overs,
\* and behind I/O errors but for the heat whose own clock one of them took.
THEOREM NoHeatIsOrphaned == Spec => []NeverOrphaned
<1>1. BridgeInv => NeverOrphaned
  BY DEF BridgeInv
<1> QED  BY <1>1, BridgeInvariance, PTL
=============================================================================
