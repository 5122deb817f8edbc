------------------------- MODULE RaceRuntimeProofs -------------------------
(***************************************************************************)
(* Proofs about RaceRuntime, for any number of heats and protests, any     *)
(* configuration of them, and any value of the bounds.                     *)
(***************************************************************************)
EXTENDS RaceRuntime, SequenceTheorems, TLAPS

(***************************************************************************)
(* The state machine's operators stay within its types.                    *)
(***************************************************************************)

\* Every transition lands in a phase.
LEMMA NextStateType ==
  ASSUME NEW t \in Transitions
  PROVE  NextState(t) \in States
BY DEF Transitions, NextState, States

\* Every command records a transition.
LEMMA RecordsType ==
  ASSUME NEW command \in Commands
  PROVE  Records(command) \in Transitions
BY DEF Commands, Records, Transitions

\* A slot is a triple; the slots of a kind are slots.
LEMMA SlotTypes ==
  ASSUME NEW h \in Heats, NEW k \in Kinds
  PROVE  /\ Held(h, k) \in Slots
         /\ Loose(h, k) \in Slots
         /\ TasksOf(h, k) \subseteq Slots
         /\ \A s \in TasksOf(h, k) : s[1] = h /\ s[2] = k
BY DEF Slots, TasksOf, Held, Loose

(***************************************************************************)
(* Type correctness.  The variables a transition moves are typed by one    *)
(* lemma, whoever appends it.                                              *)
(***************************************************************************)

\* Appending a transition keeps everything a fold of the log answers typed.
LEMMA TransitType ==
  ASSUME TypeOK, NEW h \in Heats, NEW t \in Transitions, Transit(h, t)
  PROVE  /\ phase' \in [Heats -> States \cup {Unknown}]
         /\ order' \in Seq(Heats)
         /\ current' \in Heats \cup {NoHeat}
         /\ era' \in [Heats -> {"none", "run", "reset"}]
         /\ lastReset' \in Heats \cup {NoHeat}
         /\ protest' \in [Protests -> [heat : Heats \cup {NoHeat},
                                       visible : BOOLEAN, resolved : BOOLEAN]]
         /\ cued' \in [Heats -> SUBSET {"tone", "deadline"}]
         /\ expired' \in [Heats -> Nat]
         /\ tail' \in Seq(Heats \X Transitions)
         /\ fresh' \in SUBSET Slots
<1>1. phase' \in [Heats -> States \cup {Unknown}]
  BY NextStateType DEF Transit, TypeOK
<1>2. order' \in Seq(Heats) /\ current' \in Heats \cup {NoHeat}
  BY DEF Transit, TypeOK
<1>3. /\ era' \in [Heats -> {"none", "run", "reset"}]
      /\ lastReset' \in Heats \cup {NoHeat}
  BY DEF Transit, TypeOK
<1>4. protest' \in [Protests -> [heat : Heats \cup {NoHeat},
                                 visible : BOOLEAN, resolved : BOOLEAN]]
  <2> DEFINE R == [heat : Heats \cup {NoHeat}, visible : BOOLEAN,
                   resolved : BOOLEAN]
  <2>1. Unfiled \in R
    BY DEF Unfiled
  <2>2. \A r \in R : [r EXCEPT !.visible = FALSE] \in R
    OBVIOUS
  <2>3. protest \in [Protests -> R]
    BY DEF TypeOK
  <2> HIDE DEF R
  <2>4. ProtestsAfter(h, t) \in [Protests -> R]
    BY <2>1, <2>2, <2>3 DEF ProtestsAfter
  <2> QED
    BY <2>4 DEF Transit, R
<1>5. cued' \in [Heats -> SUBSET {"tone", "deadline"}]
  BY DEF Transit, TypeOK
<1>6. expired' \in [Heats -> Nat]
  BY DEF Transit, TypeOK
<1>7. tail' \in Seq(Heats \X Transitions)
  BY DEF Transit, TypeOK
<1>8. fresh' \in SUBSET Slots
  BY DEF Transit, TypeOK
<1> QED
  BY <1>1, <1>2, <1>3, <1>4, <1>5, <1>6, <1>7, <1>8

\* A task's turn, and what it does to the fresh tasks when it appends nothing.
LEMMA TurnsType ==
  ASSUME TypeOK, NEW s \in Slots, NEW from, NEW to \in Stages, Turns(s, from, to)
  PROVE  /\ task' \in [Slots -> Stages]
         /\ Keeps(s) => fresh' \in SUBSET Slots
BY DEF Turns, TypeOK, Stages, Keeps

\* Aborting a heat's tasks and installing at most one new one.
LEMMA InstalledType ==
  ASSUME TypeOK, NEW h \in Heats, NEW k \in Kinds, NEW stage \in Stages,
         NEW late \in SUBSET Kinds, Installed(h, k, stage, late)
  PROVE  task' \in [Slots -> Stages]
<1>1. \A j \in late : Held(h, j) \in Slots
  BY SlotTypes
<1>2. \A s \in Slots : s[2] \in late => task[Held(h, s[2])] \in Stages
  BY <1>1 DEF TypeOK
<1>3. "idle" \in Stages
  BY DEF Stages
<1> QED
  BY <1>2, <1>3 DEF Installed, TypeOK

\* The fresh tasks left by a cancel are tasks.
LEMMA SurvivingType ==
  ASSUME TypeOK, NEW h \in Heats, NEW late \in SUBSET Kinds
  PROVE  Surviving(h, late) \subseteq Slots
BY SlotTypes DEF Surviving, TypeOK

\* cancel_for keeps the task tables typed.
LEMMA CancelType ==
  ASSUME TypeOK, NEW h \in Heats, Cancel(h)
  PROVE  task' \in [Slots -> Stages] /\ fresh' \in SUBSET Slots
<1>1. PICK late \in SUBSET Late(h) :
        Installed(h, "start", "idle", late) /\ fresh' = Surviving(h, late)
  BY DEF Cancel
<1>2. late \in SUBSET Kinds
  BY DEF Late
<1>3. "start" \in Kinds /\ "idle" \in Stages
  BY DEF Kinds, Stages
<1> QED
  BY <1>1, <1>2, <1>3, InstalledType, SurvivingType

\* cancel_for and the install of a driver keep them typed, and the faults counted.
LEMMA SpawnType ==
  ASSUME TypeOK, NEW h \in Heats, NEW k \in Kinds, NEW stage \in Stages,
         Spawn(h, k, stage)
  PROVE  /\ task' \in [Slots -> Stages]
         /\ fresh' \in SUBSET Slots
         /\ ioErrors' \in Nat
         /\ hurt' \in SUBSET Heats
<1>1. PICK late \in SUBSET Late(h) :
        /\ Installed(h, k, stage, late)
        /\ \/ /\ fresh' = Surviving(h, late) \cup {Held(h, k)}
              /\ hurt' = hurt \ {h}
              /\ UNCHANGED ioErrors
           \/ /\ ioErrors < MaxIoErrors
              /\ ioErrors' = ioErrors + 1
              /\ hurt' = hurt \cup {h}
              /\ fresh' = Surviving(h, late)
  BY DEF Spawn
<1>2. late \in SUBSET Kinds
  BY DEF Late
<1>3. task' \in [Slots -> Stages]
  BY <1>1, <1>2, InstalledType
<1>4. fresh' \in SUBSET Slots
  BY <1>1, <1>2, SurvivingType, SlotTypes
<1>5. ioErrors' \in Nat /\ hurt' \in SUBSET Heats
  BY <1>1 DEF TypeOK
<1> QED
  BY <1>3, <1>4, <1>5

\* The bridge takes the head of its tail.
LEMMA Next1Type ==
  ASSUME TypeOK, NEW h \in Heats, NEW ts, Next1(h, ts)
  PROVE  tail' \in Seq(Heats \X Transitions)
BY DEF Next1, TypeOK

\* A driver's checked append: a transition, or nothing but its own end.
LEMMA TransitIfType ==
  ASSUME TypeOK, NEW check \in BOOLEAN, NEW s \in Slots, NEW from,
         NEW t \in Transitions,
         Turns(s, from, "idle"), TransitIf(check, s, t),
         UNCHANGED <<active, director, hand, faultVars>>
  PROVE  TypeOK'
<1>1. s[1] \in Heats /\ "idle" \in Stages
  BY DEF Slots, Stages
<1>2. task' \in [Slots -> Stages]
  BY <1>1, TurnsType
<1>3. CASE check
  <2>1. Transit(s[1], t)
    BY <1>3 DEF TransitIf
  <2> QED
    BY <1>1, <1>2, <2>1, TransitType DEF TypeOK, faultVars
<1>4. CASE ~check
  <2>1. UNCHANGED <<logVars, cueVars, tail>> /\ Keeps(s)
    BY <1>4 DEF TransitIf
  <2>2. fresh' \in SUBSET Slots
    BY <1>1, <2>1, TurnsType
  <2> QED
    BY <1>2, <2>1, <2>2 DEF TypeOK, logVars, cueVars, faultVars
<1> QED
  BY <1>3, <1>4

-----------------------------------------------------------------------------
(***************************************************************************)
(* One lemma per group of actions.                                         *)
(***************************************************************************)

\* The commands, and Advance's second append.
LEMMA RaceDirectorType ==
  ASSUME TypeOK, NEW h \in Heats, RaceDirector(h)
  PROVE  TypeOK'
<1>1. CASE ScheduleHeat(h)
  BY <1>1 DEF ScheduleHeat, TypeOK, Append1, States, cueVars, bridgeVars,
              taskVars, faultVars
<1>2. ASSUME NEW command \in Commands, HeatTransition(h, command)
      PROVE  TypeOK'
  BY <1>2, TransitType, RecordsType DEF HeatTransition, TypeOK, faultVars
<1>3. CASE Finalize(h)
  <2>1. Transit(h, "Finalized") /\ "Finalized" \in Transitions
    BY <1>3 DEF Finalize, Transitions
  <2> QED
    BY <1>3, <2>1, TransitType DEF Finalize, TypeOK, faultVars
<1>4. CASE Advance(h)
  <2>1. Transit(h, "Advanced") /\ "Advanced" \in Transitions
    BY <1>4 DEF Advance, Transitions
  <2> QED
    BY <1>4, <2>1, TransitType DEF Advance, TypeOK, faultVars
<1>5. CASE LoadGenerated(h)
  BY <1>5 DEF LoadGenerated, TypeOK, Append1, States, cueVars, bridgeVars,
              taskVars, faultVars
<1>6. CASE SetCurrentHeat(h)
  BY <1>6 DEF SetCurrentHeat, TypeOK, Append1, cueVars, bridgeVars,
              taskVars, faultVars
<1>7. ASSUME NEW p \in Protests, FileProtest(h, p)
      PROVE  TypeOK'
  BY <1>7 DEF FileProtest, TypeOK, Append1, cueVars, bridgeVars, taskVars,
              faultVars
<1> QED
  BY <1>1, <1>2, <1>3, <1>4, <1>5, <1>6, <1>7 DEF RaceDirector

\* The bridge's handler.
LEMMA HandleType ==
  ASSUME TypeOK, NEW h \in Heats, Handle(h)
  PROVE  TypeOK'
<1>1. \A ts : Next1(h, ts) => tail' \in Seq(Heats \X Transitions)
  BY Next1Type
<1>2. Released(h) \in Heats \cup {NoHeat}
  BY DEF Released, TypeOK
<1>3. Kinds = {"start", "completion", "protest"}
      /\ {"idle", "spawned", "racing"} \subseteq Stages
  BY DEF Kinds, Stages
<1>4. CASE HandleRunning(h)
  <2>1. CASE h \in Unseated
    BY <1>1, <1>4, <2>1, CancelType
    DEF HandleRunning, TypeOK, logVars, cueVars
  <2>2. CASE h \notin Unseated
    <3>1. active' \in Heats \cup {NoHeat} /\ Spawn(h, "completion", "racing")
      BY <1>4, <2>2 DEF HandleRunning
    <3> QED
      BY <1>1, <1>3, <1>4, <3>1, SpawnType
      DEF HandleRunning, TypeOK, logVars, cueVars
  <2> QED
    BY <2>1, <2>2
<1>5. CASE HandleRunningUnread(h)
  BY <1>1, <1>5, CancelType
  DEF HandleRunningUnread, TypeOK, logVars, cueVars
<1>6. CASE HandleUnofficial(h)
  BY <1>1, <1>2, <1>3, <1>6, SpawnType
  DEF HandleUnofficial, TypeOK, logVars, cueVars
<1>7. CASE HandleOffRamp(h)
  BY <1>1, <1>2, <1>7, CancelType
  DEF HandleOffRamp, TypeOK, logVars, cueVars, faultVars
<1>8. CASE HandleStaged(h)
  BY <1>1, <1>8, CancelType
  DEF HandleStaged, TypeOK, logVars, cueVars, faultVars
<1>9. CASE HandleArmed(h)
  BY <1>1, <1>3, <1>9, SpawnType
  DEF HandleArmed, TypeOK, logVars, cueVars
<1> QED
  BY <1>4, <1>5, <1>6, <1>7, <1>8, <1>9 DEF Handle

\* The runtime clocks.
LEMMA ClocksType ==
  ASSUME TypeOK, NEW h \in Heats, Clocks(h)
  PROVE  TypeOK'
<1>1. /\ TasksOf(h, "start") \subseteq Slots
      /\ TasksOf(h, "completion") \subseteq Slots
      /\ TasksOf(h, "protest") \subseteq Slots
  BY SlotTypes DEF Kinds
<1>2. /\ Stages = {"idle", "spawned", "holding", "cleared", "racing", "grace"}
      /\ {"Running", "Finished", "Finalized"} \subseteq Transitions
  BY DEF Stages, Transitions
<1>3. \A s, p : StillIn(s, p) \in BOOLEAN
  BY DEF StillIn
<1>4. CASE AnnounceStart(h)
  <2>1. PICK s \in TasksOf(h, "start") :
          Turns(s, "spawned", "holding") /\ Keeps(s)
    BY <1>4 DEF AnnounceStart
  <2>2. task' \in [Slots -> Stages] /\ fresh' \in SUBSET Slots
    BY <1>1, <1>2, <2>1, TurnsType
  <2> QED
    BY <1>4, <2>2 DEF AnnounceStart, TypeOK, Append1, bridgeVars, faultVars
<1>5. CASE FireStart(h)
  BY <1>1, <1>2, <1>3, <1>5, TransitIfType DEF FireStart
<1>6. CASE ExpireRace(h)
  <2>1. PICK s \in TasksOf(h, "completion") :
          /\ IF StillIn(s, "Running")
             THEN /\ Turns(s, "racing", "grace")
                  /\ expired' = [expired EXCEPT ![h] = @ + 1]
                  /\ Append1
                  /\ UNCHANGED <<phase, order, current, era, protest, cued>>
             ELSE /\ Turns(s, "racing", "idle")
                  /\ UNCHANGED <<logVars, cueVars>>
          /\ Keeps(s)
    BY <1>6 DEF ExpireRace
  <2>2. task' \in [Slots -> Stages] /\ fresh' \in SUBSET Slots
    BY <1>1, <1>2, <2>1, TurnsType
  <2>3. UNCHANGED <<bridgeVars, director, hand, faultVars>>
    BY <1>6 DEF ExpireRace
  <2>4. CASE StillIn(s, "Running")
    <3>1. expired' = [expired EXCEPT ![h] = @ + 1] /\ lastReset' = NoHeat
          /\ UNCHANGED <<phase, order, current, era, protest, cued>>
      BY <2>1, <2>4 DEF Append1
    <3>2. expired' \in [Heats -> Nat]
      BY <3>1 DEF TypeOK
    <3> QED
      BY <2>2, <2>3, <3>1, <3>2 DEF TypeOK, bridgeVars, faultVars
  <2>5. CASE ~StillIn(s, "Running")
    BY <2>1, <2>2, <2>3, <2>5
    DEF TypeOK, logVars, cueVars, bridgeVars, faultVars
  <2> QED
    BY <2>4, <2>5
<1>7. CASE FinishAtEnd(h)
  BY <1>1, <1>2, <1>3, <1>7, TransitIfType DEF FinishAtEnd
<1>8. CASE FinishAfterGrace(h)
  BY <1>1, <1>2, <1>3, <1>8, TransitIfType DEF FinishAfterGrace
<1>9. CASE AnnounceWindow(h)
  <2>1. PICK s \in TasksOf(h, "protest") :
          Turns(s, "spawned", "holding") /\ Keeps(s)
    BY <1>9 DEF AnnounceWindow
  <2>2. task' \in [Slots -> Stages] /\ fresh' \in SUBSET Slots
    BY <1>1, <1>2, <2>1, TurnsType
  <2> QED
    BY <1>9, <2>2 DEF AnnounceWindow, TypeOK, Append1, bridgeVars, faultVars
<1>10. CASE NoWindow(h)
  <2>1. PICK s \in TasksOf(h, "protest") :
          Turns(s, "spawned", "idle") /\ Keeps(s)
    BY <1>10 DEF NoWindow
  <2>2. task' \in [Slots -> Stages] /\ fresh' \in SUBSET Slots
    BY <1>1, <1>2, <2>1, TurnsType
  <2> QED
    BY <1>10, <2>2
    DEF NoWindow, TypeOK, logVars, cueVars, bridgeVars, faultVars
<1>11. CASE CheckProtests(h)
  <2>1. PICK s \in TasksOf(h, "protest") :
          /\ Turns(s, "holding", IF Open(h) = {} THEN "cleared" ELSE "idle")
          /\ Keeps(s)
    BY <1>11 DEF CheckProtests
  <2>2. task' \in [Slots -> Stages] /\ fresh' \in SUBSET Slots
    BY <1>1, <1>2, <2>1, TurnsType
  <2> QED
    BY <1>11, <2>2
    DEF CheckProtests, TypeOK, logVars, cueVars, bridgeVars, faultVars
<1>12. CASE FireOfficial(h)
  <2>1. \A s : (StillIn(s, "Unofficial") /\ Open(h) = {}) \in BOOLEAN
    OBVIOUS
  <2> QED
    BY <1>1, <1>2, <1>12, <2>1, TransitIfType DEF FireOfficial
<1>13. CASE ClockFails(h)
  <2>1. task' \in [Slots -> Stages] /\ fresh' \in SUBSET Slots
    BY <1>2, <1>13 DEF ClockFails, TypeOK
  <2>2. /\ ioErrors' = ioErrors + 1 /\ hurt' = hurt \cup {h}
        /\ UNCHANGED <<logVars, cueVars, bridgeVars, director, hand, crashes>>
    BY <1>13 DEF ClockFails
  <2> QED
    BY <2>1, <2>2 DEF TypeOK, logVars, cueVars, bridgeVars
<1> QED
  BY <1>4, <1>5, <1>6, <1>7, <1>8, <1>9, <1>10, <1>11, <1>12, <1>13
  DEF Clocks

\* The rest of Advance.
LEMMA LoadType ==
  ASSUME TypeOK, LoadOnDeck \/ NothingToLoad
  PROVE  TypeOK'
<1>1. \A from : OnDeck(from) \subseteq Heats
  BY ElementOfSeq DEF OnDeck, TypeOK
<1>2. CASE LoadOnDeck
  BY <1>1, <1>2
  DEF LoadOnDeck, TypeOK, Append1, cueVars, bridgeVars, taskVars, faultVars
<1>3. CASE NothingToLoad
  BY <1>3
  DEF NothingToLoad, TypeOK, logVars, cueVars, bridgeVars, taskVars, faultVars
<1> QED
  BY <1>2, <1>3

\* What the bridge finds in flight as it starts is a list of transitions.
LEMMA BridgeStartsType ==
  ASSUME TypeOK, BridgeStarts
  PROVE  TypeOK'
<1> DEFINE flying == {i \in DOMAIN order : InFlight(order[i])}
<1>1. PICK n \in 0 .. Len(order) : \E at \in [1 .. n -> flying] :
        tail' = [i \in 1 .. n |-> Resume(order[at[i]])]
  BY DEF BridgeStarts
<1>2. PICK at \in [1 .. n -> flying] :
        tail' = [i \in 1 .. n |-> Resume(order[at[i]])]
  BY <1>1
<1>3. \A i \in flying : order[i] \in Heats /\ InFlight(order[i])
  BY ElementOfSeq DEF TypeOK
<1>4. \A h \in Heats : InFlight(h) => Resume(h) \in Heats \X Transitions
  BY DEF InFlight, Resume, Transitions
<1>5. n \in Nat
  BY <1>1 DEF TypeOK
<1>6. tail' \in [1 .. n -> Heats \X Transitions]
  BY <1>2, <1>3, <1>4
<1>7. tail' \in Seq(Heats \X Transitions)
  BY <1>5, <1>6
<1> QED
  BY <1>7 DEF BridgeStarts, TypeOK, logVars, cueVars, taskVars, faultVars

\* Type correctness: whatever the race director, the bridge, the clocks and the
\* faults of the process do, the state stays within its types (heat_state of a
\* scheduled heat is always one of the six phases, the tail holds transitions of
\* known heats, every task is in a stage of its own kind of driver).
LEMMA TypeInductive ==
  ASSUME TypeOK, [Next]_vars
  PROVE  TypeOK'
<1>1. ASSUME NEW h \in Heats, RaceDirector(h) \/ Handle(h) \/ Clocks(h)
      PROVE  TypeOK'
  BY <1>1, RaceDirectorType, HandleType, ClocksType
<1>2. CASE LoadOnDeck \/ NothingToLoad
  BY <1>2, LoadType
<1>3. ASSUME NEW p \in Protests, ResolveProtest(p) \/ ReverseResolution(p)
      PROVE  TypeOK'
  <2>1. PICK b \in BOOLEAN :
          protest' = [protest EXCEPT ![p].resolved = b]
    BY <1>3 DEF ResolveProtest, ReverseResolution
  <2>2. protest' \in [Protests -> [heat : Heats \cup {NoHeat},
                                   visible : BOOLEAN, resolved : BOOLEAN]]
    <3> DEFINE R == [heat : Heats \cup {NoHeat}, visible : BOOLEAN,
                     resolved : BOOLEAN]
    <3>1. \A r \in R : [r EXCEPT !.resolved = b] \in R
      OBVIOUS
    <3>2. protest \in [Protests -> R]
      BY DEF TypeOK
    <3>3. protest' = [protest EXCEPT ![p] = [protest[p] EXCEPT !.resolved = b]]
      BY <2>1
    <3> HIDE DEF R
    <3>4. protest' \in [Protests -> R]
      BY <3>1, <3>2, <3>3
    <3> QED
      BY <3>4 DEF R
  <2>3. /\ lastReset' = NoHeat
        /\ UNCHANGED <<phase, order, current, era, cueVars, bridgeVars,
                       taskVars, director, hand, faultVars>>
    BY <1>3 DEF ResolveProtest, ReverseResolution, Append1
  <2> QED
    BY <2>2, <2>3 DEF TypeOK, cueVars, bridgeVars, taskVars, faultVars
<1>4. CASE AppendOther
  BY <1>4 DEF AppendOther, TypeOK, Append1, cueVars, bridgeVars, taskVars,
              faultVars
<1>5. CASE BridgeStarts
  BY <1>5, BridgeStartsType
<1>6. CASE BridgeGivesUp
  BY <1>6 DEF BridgeGivesUp, TypeOK, logVars, cueVars, bridgeVars, taskVars
<1>7. CASE SourcesDone
  BY <1>7 DEF SourcesDone, TypeOK, logVars, cueVars, taskVars, faultVars
<1>8. CASE Crash
  <2>1. "idle" \in Stages /\ <<>> \in Seq(Heats \X Transitions)
    BY DEF Stages
  <2> QED
    BY <1>8, <2>1 DEF Crash, TypeOK, logVars, cueVars
<1>9. CASE Boot
  BY <1>9 DEF Boot, TypeOK, logVars, cueVars, bridgeVars, taskVars, faultVars
<1>10. CASE UNCHANGED vars
  BY <1>10 DEF vars, TypeOK, logVars, cueVars, bridgeVars, taskVars, faultVars
<1> QED
  BY <1>1, <1>2, <1>3, <1>4, <1>5, <1>6, <1>7, <1>8, <1>9, <1>10 DEF Next

\* TypeOK is an invariant of every event the Director runs.
THEOREM TypeCorrect == Spec => []TypeOK
<1>1. Init => TypeOK
  <2>1. "idle" \in Stages /\ <<>> \in Seq(Heats \X Transitions)
        /\ <<>> \in Seq(Heats)
    BY DEF Stages
  <2> QED
    BY <2>1 DEF Init, TypeOK, Unfiled
<1>2. TypeOK /\ [Next]_vars => TypeOK'
  BY TypeInductive
<1> QED
  BY <1>1, <1>2, PTL DEF Spec
=============================================================================
