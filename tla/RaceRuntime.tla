---------------------------- MODULE RaceRuntime ----------------------------
(***************************************************************************)
(* The Director running the heats of one event: the control handler that   *)
(* validates and appends the race director's commands, the bridge that     *)
(* tails the event log (crates/app/src/source.rs, run_bridge), and the     *)
(* runtime clocks the bridge spawns -- the start countdown, the completion *)
(* clock, the auto-official timer -- which append transitions of their     *)
(* own.  They share nothing but the log, one lock, and task handles the    *)
(* bridge can abort.                                                       *)
(*                                                                         *)
(* The log is represented by what its folds answer: a heat's phase, the    *)
(* focus of Live control, the protests still standing, and which tasks     *)
(* have seen its latest transition (the offset a driver keeps as its       *)
(* watermark is only ever compared with the latest one).  The suffix of    *)
(* the log the bridge has not read yet is kept as a sequence, because that *)
(* lag is where the hard behaviours come from.                             *)
(*                                                                         *)
(* Time is left out: a hold, a time limit or a grace deadline may elapse   *)
(* at any moment after it starts.                                          *)
(***************************************************************************)
EXTENDS Naturals, Sequences, FiniteSets, HeatFsm

CONSTANTS Heats,         \* the heats the event may ever schedule
          Protests,      \* protests that may stand at one time
          NoHeat,        \* no heat (None)
          Unseated,      \* heats scheduled with an empty lineup
          Endless,       \* no time limit and no win condition with an end
          ZeroGrace,     \* the effective grace window is zero
          UntilScored,   \* the grace window has no deadline
          AutoOfficial,  \* the round arms a protest window
          MaxLag,        \* bound: unread transitions at which commands pause
          MaxLate,       \* bound: tasks aborted past their last await at a time
          MaxCrashes,    \* bound: Director crashes
          MaxIoErrors    \* bound: reads of the log that fail

ASSUME NoHeatAssumption == NoHeat \notin Heats
ASSUME ConfigAssumption ==
  /\ Unseated \subseteq Heats
  /\ Endless \subseteq Heats
  /\ ZeroGrace \subseteq Heats
  /\ UntilScored \subseteq Heats
  /\ AutoOfficial \subseteq Heats
ASSUME BoundAssumption ==
  /\ MaxLag \in Nat
  /\ MaxLate \in Nat
  /\ MaxCrashes \in Nat
  /\ MaxIoErrors \in Nat

VARIABLES
  phase,      \* heat_state of each heat
  order,      \* the scheduled heats in schedule order
  current,    \* the heat Live control is focused on
  era,        \* per heat: "none", or the latest of Running ("run") and a reset
  lastReset,  \* the heat whose reset is the very last log entry, or NoHeat
  protest,    \* the protests filed since their heat's latest reset
  cued,       \* HeatStarting/HeatFinalizing logged since its latest transition
  expired,    \* RaceExpired markers logged in the heat's latest run
  director,   \* the Director process and its bridge task
  tail,       \* transitions in the log the bridge has not handled yet
  active,     \* the heat whose timer sources are emitting passes, or NoHeat
  task,       \* HeatClock: what each task of a heat is doing
  fresh,      \* tasks spawned since the latest transition of their heat
  hand,       \* the heat whose Advance holds the command lock, or NoHeat
  hurt,       \* heats an I/O error left without the clock last due to them
  crashes, ioErrors  \* how much of the fault bounds is used

logVars     == <<phase, order, current, era, lastReset, protest>>
cueVars     == <<cued, expired>>
bridgeVars  == <<tail, active>>
taskVars    == <<task, fresh>>
faultVars   == <<crashes, ioErrors, hurt>>
vars == <<logVars, cueVars, bridgeVars, taskVars, director, hand, faultVars>>

\* A heat has one slot per kind of clock.  Beside the task in it there may be one
\* that was aborted past its last await and still runs on to the next: it is
\* "loose".
Kinds  == {"start", "completion", "protest"}
Slots  == Heats \X Kinds \X {"held", "loose"}
Held(h, k)  == <<h, k, "held">>
Loose(h, k) == <<h, k, "loose">>
Stages == {"idle", "spawned", "holding", "cleared", "racing", "grace"}
Unfiled == [heat |-> NoHeat, visible |-> FALSE, resolved |-> FALSE]

TypeOK ==
  /\ phase \in [Heats -> States \cup {Unknown}]
  /\ order \in Seq(Heats)
  /\ current \in Heats \cup {NoHeat}
  /\ era \in [Heats -> {"none", "run", "reset"}]
  /\ lastReset \in Heats \cup {NoHeat}
  /\ protest \in [Protests -> [heat : Heats \cup {NoHeat},
                               visible : BOOLEAN, resolved : BOOLEAN]]
  /\ cued \in [Heats -> SUBSET {"tone", "deadline"}]
  /\ expired \in [Heats -> Nat]
  /\ director \in {"down", "booting", "following", "stuck"}
  /\ tail \in Seq(Heats \X Transitions)
  /\ active \in Heats \cup {NoHeat}
  /\ task \in [Slots -> Stages]
  /\ fresh \in SUBSET Slots
  /\ hand \in Heats \cup {NoHeat}
  /\ crashes \in Nat
  /\ ioErrors \in Nat
  /\ hurt \in SUBSET Heats

Init ==
  /\ phase = [h \in Heats |-> Unknown]
  /\ order = <<>>
  /\ current = NoHeat
  /\ era = [h \in Heats |-> "none"]
  /\ lastReset = NoHeat
  /\ protest = [p \in Protests |-> Unfiled]
  /\ cued = [h \in Heats |-> {}]
  /\ expired = [h \in Heats |-> 0]
  /\ director = "booting"
  /\ tail = <<>>
  /\ active = NoHeat
  /\ task = [s \in Slots |-> "idle"]
  /\ fresh = {}
  /\ hand = NoHeat
  /\ crashes = 0
  /\ ioErrors = 0
  /\ hurt = {}
-----------------------------------------------------------------------------
(***************************************************************************)
(* Folds and appends.                                                      *)
(***************************************************************************)

Up   == director # "down"
\* The command serialization lock is free for a command or a checked append.
Free == Up /\ hand = NoHeat

\* The race director is never more than MaxLag transitions ahead of the bridge.
Allowed == Len(tail) < MaxLag

Scheduled(h) == phase[h] # Unknown
Committed(h) == phase[h] \in {"Staged", "Armed", "Running"}

\* open_protest_count, as the set it counts.
Open(h) == {p \in Protests : protest[p].heat = h /\ ~protest[p].resolved}

\* require_heat_has_run: current_run_start(h) < events.len().
HasRun(h) == \/ era[h] = "run"
             \/ era[h] = "reset" /\ lastReset # h

\* What a transition does to the protests of its heat: a reset buries them, and
\* a Running moves the run window past those filed in the gap before it.
ProtestsAfter(h, t) ==
  [p \in Protests |->
     IF protest[p].heat # h THEN protest[p]
     ELSE IF t \in Resets THEN Unfiled
     ELSE IF t = "Running" THEN [protest[p] EXCEPT !.visible = FALSE]
     ELSE protest[p]]

\* Append HeatStateChanged{h, t}: every fold of the log moves with it.
Transit(h, t) ==
  /\ phase' = [phase EXCEPT ![h] = NextState(t)]
  /\ current' = h
  /\ era' = [era EXCEPT ![h] = IF t = "Running" THEN "run"
                               ELSE IF t \in Resets THEN "reset" ELSE @]
  /\ lastReset' = IF t \in Resets THEN h ELSE NoHeat
  /\ protest' = ProtestsAfter(h, t)
  /\ cued' = [cued EXCEPT ![h] = {}]
  /\ expired' = [expired EXCEPT ![h] = IF t = "Running" THEN 0 ELSE @]
  /\ tail' = IF director = "following" THEN Append(tail, <<h, t>>) ELSE tail
  /\ fresh' = {s \in fresh : s[1] # h}
  /\ UNCHANGED order

\* Append anything that is no transition: only "what is the last entry" moves.
Append1 == lastReset' = NoHeat

\* on_deck(events, from): the next still-Scheduled heat behind `from` in
\* schedule order, else the first one anywhere; as a set of at most one heat.
OnDeck(from) ==
  LET waiting == {i \in DOMAIN order : phase[order[i]] = "Scheduled"}
      behind  == {i \in waiting : \E j \in 1 .. i : order[j] = from}
      pick    == IF behind # {} THEN behind ELSE waiting
  IN  {order[i] : i \in {j \in pick : \A k \in pick : j <= k}}
-----------------------------------------------------------------------------
(***************************************************************************)
(* The control handler.  Each command reads, validates and appends under   *)
(* the command lock.                                                       *)
(***************************************************************************)

ScheduleHeat(h) ==
  /\ Free
  /\ phase[h] = Unknown
  /\ phase' = [phase EXCEPT ![h] = "Scheduled"]
  /\ order' = Append(order, h)
  /\ current' = IF current = NoHeat THEN h ELSE current
  /\ Append1
  /\ UNCHANGED <<era, protest, cueVars, bridgeVars, taskVars, director,
                 hand, faultVars>>

\* Stage, Start, SkipCountdown, ForceEnd, Abort, Restart, Revert, Discard.
HeatTransition(h, command) ==
  /\ Free
  /\ command \in Commands \ {"Finalize", "Advance"}
  /\ Allowed
  /\ phase[h] \in LegalIn(command)
  /\ Transit(h, Records(command))
  /\ UNCHANGED <<active, task, director, hand, faultVars>>

\* Finalize is gated on open protests.
Finalize(h) ==
  /\ Free
  /\ Allowed
  /\ Open(h) = {}
  /\ phase[h] \in LegalIn("Finalize")
  /\ Transit(h, "Finalized")
  /\ UNCHANGED <<active, task, director, hand, faultVars>>

(***************************************************************************)
(* Advance appends its transition and then, still holding the lock, loads  *)
(* the next heat: the one on deck, else one the round's generator draws    *)
(* (which then is the only one on deck), else none.  The appends are       *)
(* separate entries, so a crash may fall between any two of them.          *)
(***************************************************************************)
Advance(h) ==
  /\ Free
  /\ Allowed
  /\ phase[h] \in LegalIn("Advance")
  /\ Transit(h, "Advanced")
  /\ hand' = h
  /\ UNCHANGED <<active, task, director, faultVars>>

LoadOnDeck ==
  /\ Up /\ hand # NoHeat
  /\ current' \in OnDeck(hand)
  /\ Append1
  /\ hand' = NoHeat
  /\ UNCHANGED <<phase, order, era, protest, cueVars, bridgeVars,
                 taskVars, director, faultVars>>

LoadGenerated(next) ==
  /\ Up /\ hand # NoHeat
  /\ OnDeck(hand) = {}
  /\ phase[next] = Unknown
  /\ phase' = [phase EXCEPT ![next] = "Scheduled"]
  /\ order' = Append(order, next)
  /\ Append1
  /\ UNCHANGED <<current, era, protest, cueVars, bridgeVars, taskVars,
                 director, hand, faultVars>>

NothingToLoad ==
  /\ Up /\ hand # NoHeat
  /\ OnDeck(hand) = {}
  /\ hand' = NoHeat
  /\ UNCHANGED <<logVars, cueVars, bridgeVars, taskVars, director, faultVars>>

\* SetCurrentHeat: refused while the current heat is committed.
SetCurrentHeat(h) ==
  /\ Free
  /\ Scheduled(h)
  /\ current # NoHeat => ~Committed(current)
  /\ current' = h
  /\ Append1
  /\ UNCHANGED <<phase, order, era, protest, cueVars, bridgeVars,
                 taskVars, director, hand, faultVars>>

FileProtest(h, p) ==
  /\ Free
  /\ Scheduled(h)
  /\ HasRun(h)
  /\ protest[p] = Unfiled
  /\ protest' = [protest EXCEPT ![p] =
                   [heat |-> h, visible |-> TRUE, resolved |-> FALSE]]
  /\ Append1
  /\ UNCHANGED <<phase, order, current, era, cueVars, bridgeVars,
                 taskVars, director, hand, faultVars>>

\* ResolveProtest: one effective resolution per filing; legal on a Final heat.
ResolveProtest(p) ==
  /\ Free
  /\ protest[p].heat # NoHeat
  /\ ~protest[p].resolved
  /\ protest' = [protest EXCEPT ![p].resolved = TRUE]
  /\ Append1
  /\ UNCHANGED <<phase, order, current, era, cueVars, bridgeVars,
                 taskVars, director, hand, faultVars>>

\* ReverseRuling aimed at a resolution re-opens the protest; locked on Final.
ReverseResolution(p) ==
  /\ Free
  /\ protest[p].heat # NoHeat
  /\ protest[p].resolved
  /\ phase[protest[p].heat] # "Final"
  /\ protest' = [protest EXCEPT ![p].resolved = FALSE]
  /\ Append1
  /\ UNCHANGED <<phase, order, current, era, cueVars, bridgeVars,
                 taskVars, director, hand, faultVars>>

\* Any other entry (a pass, a registration, a re-tuned Scheduled heat).
AppendOther ==
  /\ Up
  /\ lastReset # NoHeat
  /\ Append1
  /\ UNCHANGED <<phase, order, current, era, protest, cueVars,
                 bridgeVars, taskVars, director, hand, faultVars>>
-----------------------------------------------------------------------------
(***************************************************************************)
(* The bridge: one task per event that follows the tail of the log and     *)
(* hands each transition to handle_transition.                             *)
(***************************************************************************)

\* in_flight_heats: the transition that re-enters the handler for a heat found
\* in a runtime-driven state.
Resume(h) == CASE phase[h] = "Armed"      -> <<h, "Armed">>
               [] phase[h] = "Running"    -> <<h, "Running">>
               [] phase[h] = "Unofficial" -> <<h, "Finished">>

\* Mutants: a restart forgets the countdowns, or the races.
InFlightButArmed(h)   == phase[h] \in {"Running", "Unofficial"}
InFlightButRunning(h) == phase[h] \in {"Armed", "Unofficial"}

InFlight(h) == phase[h] \in {"Armed", "Running", "Unofficial"}

\* The first read: the cursor starts at the tail of the log, and the heats in
\* flight are handed to the handler as if their state had just been observed.
BridgeStarts ==
  /\ director = "booting"
  /\ director' = "following"
  /\ LET flying == {i \in DOMAIN order : InFlight(order[i])}
     IN  \E n \in 0 .. Len(order) : \E at \in [1 .. n -> flying] :
           /\ \A i, j \in 1 .. n : i < j => at[i] < at[j]
           /\ \A i \in flying : \E j \in 1 .. n : at[j] = i
           /\ tail' = [i \in 1 .. n |-> Resume(order[at[i]])]
  /\ UNCHANGED <<logVars, cueVars, active, taskVars, hand, faultVars>>

\* ... and the task returns for good when that read fails.
BridgeGivesUp ==
  /\ director = "booting"
  /\ ioErrors < MaxIoErrors
  /\ director' = "stuck"
  /\ ioErrors' = ioErrors + 1
  /\ UNCHANGED <<logVars, cueVars, bridgeVars, taskVars, hand, crashes, hurt>>

(***************************************************************************)
(* cancel_for(h) followed by the install of at most one new driver.  A     *)
(* task that is running when it is aborted goes on to its next await:      *)
(* `late` are the kinds the abort comes too late for.  A new task's        *)
(* watermark is the latest transition in the log as it is spawned, which   *)
(* may be younger than the one being handled; a task whose read of it      *)
(* failed (None) will never pass a recheck.                                *)
(***************************************************************************)
Late(h) == {k \in Kinds : /\ task[Held(h, k)] # "idle"
                          /\ task[Loose(h, k)] = "idle"
                          /\ Cardinality({s \in Slots : s[3] = "loose"
                                            /\ task[s] # "idle"}) < MaxLate}

\* Mutant: one slot per kind for all heats, the detached-task bug HeatClock was
\* keyed per heat for.
InstalledInOneSlot(h, k, stage, late) ==
  task' = [s \in Slots |->
             CASE s[2] = k /\ s[3] = "held" -> IF s[1] = h THEN stage ELSE "idle"
               [] s[1] = h /\ s[2] # k /\ s[3] = "held" -> "idle"
               [] s[1] = h /\ s[3] = "loose" /\ s[2] \in late -> task[Held(h, s[2])]
               [] OTHER -> task[s]]

Installed(h, k, stage, late) ==
  task' = [s \in Slots |->
             CASE s[1] = h /\ s[3] = "held" -> IF s[2] = k THEN stage ELSE "idle"
               [] s[1] = h /\ s[3] = "loose" /\ s[2] \in late -> task[Held(h, s[2])]
               [] OTHER -> task[s]]

\* The fresh tasks once `late` have become loose and the others of h are gone.
Surviving(h, late) ==
  {s \in fresh : s[1] # h \/ s[3] = "loose"}
    \cup {Loose(h, k) : k \in {j \in late : Held(h, j) \in fresh}}

\* cancel_for alone.
Cancel(h) ==
  \E late \in SUBSET Late(h) :
    /\ Installed(h, "start", "idle", late)
    /\ fresh' = Surviving(h, late)

Spawn(h, k, stage) ==
  \E late \in SUBSET Late(h) :
    /\ Installed(h, k, stage, late)
    /\ \/ /\ fresh' = Surviving(h, late) \cup {Held(h, k)}
          /\ hurt' = hurt \ {h}
          /\ UNCHANGED ioErrors
       \/ /\ ioErrors < MaxIoErrors
          /\ ioErrors' = ioErrors + 1
          /\ hurt' = hurt \cup {h}
          /\ fresh' = Surviving(h, late)

\* The next unread transition is heat h's, and one of `transitions`.
Next1(h, transitions) ==
  /\ director = "following"
  /\ tail # <<>>
  /\ Head(tail)[1] = h
  /\ Head(tail)[2] \in transitions
  /\ tail' = Tail(tail)

\* Running: h takes the timer over from whichever heat had it.  Whether any
\* source emits depends on the event's timers; an empty lineup starts nothing,
\* not even the completion clock.
HandleRunning(h) ==
  /\ Next1(h, {"Running"})
  /\ IF h \in Unseated
     THEN active' = NoHeat /\ Cancel(h) /\ UNCHANGED <<ioErrors, hurt>>
     ELSE active' \in {h, NoHeat} /\ Spawn(h, "completion", "racing")
  /\ UNCHANGED <<logVars, cueVars, director, hand, crashes>>

\* lineup_of could not read the log: the handler returns with nothing started.
HandleRunningUnread(h) ==
  /\ Next1(h, {"Running"})
  /\ ioErrors < MaxIoErrors
  /\ ioErrors' = ioErrors + 1
  /\ hurt' = hurt \cup {h}
  /\ active' = NoHeat
  /\ Cancel(h)
  /\ UNCHANGED <<logVars, cueVars, director, hand, crashes>>

\* Mutant: leaving Running does not stop the sources.
ReleasedNever(h) == active

Released(h) == IF active = h THEN NoHeat ELSE active

\* Finished and Reverted land in Unofficial: the protest window (re)opens.
HandleUnofficial(h) ==
  /\ Next1(h, {"Finished", "Reverted"})
  /\ active' = Released(h)
  /\ Spawn(h, "protest", "spawned")
  /\ UNCHANGED <<logVars, cueVars, director, hand, crashes>>

HandleOffRamp(h) ==
  /\ Next1(h, {"Aborted", "Finalized", "Restarted", "Discarded", "Advanced"})
  /\ active' = Released(h)
  /\ Cancel(h)
  /\ UNCHANGED <<logVars, cueVars, director, hand, faultVars>>

\* Staged only tunes and seats the timers, which this module leaves out.
HandleStaged(h) ==
  /\ Next1(h, {"Staged"})
  /\ Cancel(h)
  /\ UNCHANGED <<logVars, cueVars, active, director, hand, faultVars>>

HandleArmed(h) ==
  /\ Next1(h, {"Armed"})
  /\ Spawn(h, "start", "spawned")
  /\ UNCHANGED <<logVars, cueVars, active, director, hand, crashes>>

\* The synthetic sources of the active heat ran to their end, and nothing else
\* is armed: the bridge reaps the slot.
SourcesDone ==
  /\ director = "following"
  /\ active # NoHeat
  /\ active' = NoHeat
  /\ UNCHANGED <<logVars, cueVars, tail, taskVars, director, hand, faultVars>>
-----------------------------------------------------------------------------
(***************************************************************************)
(* The clocks.  A task moves from stage to stage; a loose one takes the    *)
(* step it was in and is gone at its next await, which every stage but     *)
(* `cleared` is.                                                           *)
(***************************************************************************)
TasksOf(h, k) == {Held(h, k), Loose(h, k)}

Turns(s, from, to) ==
  /\ task[s] = from
  /\ task' = [task EXCEPT ![s] =
                IF s[3] = "loose" /\ to # "cleared" THEN "idle" ELSE to]

\* The task took a step that is no transition: its watermark goes with it.
Keeps(s) == fresh' = IF task'[s] = "idle" THEN fresh \ {s} ELSE fresh

\* Mutants: no recheck; a recheck of the phase alone.
StillInAnything(s, p) == TRUE
StillInPhase(s, p)    == phase[s[1]] = p

\* The fire-time recheck: the phase, and no transition since the spawn.
StillIn(s, p) == phase[s[1]] = p /\ s \in fresh

\* append_checked: the transition if the recheck passes, else nothing.
TransitIf(check, s, t) ==
  /\ Free
  /\ IF check THEN Transit(s[1], t)
     ELSE UNCHANGED <<logVars, cueVars, tail>> /\ Keeps(s)

\* HeatStarting is logged before the hold, unchecked.
AnnounceStart(h) ==
  /\ Up
  /\ \E s \in TasksOf(h, "start") : Turns(s, "spawned", "holding") /\ Keeps(s)
  /\ cued' = [cued EXCEPT ![h] = @ \cup {"tone"}]
  /\ Append1
  /\ UNCHANGED <<phase, order, current, era, protest, expired, bridgeVars,
                 director, hand, faultVars>>

FireStart(h) ==
  /\ \E s \in TasksOf(h, "start") :
       /\ Turns(s, "holding", "idle")
       /\ TransitIf(StillIn(s, "Armed"), s, "Running")
  /\ UNCHANGED <<active, director, hand, faultVars>>

\* The race is over and a grace window is due: log the RaceExpired marker.
ExpireRace(h) ==
  /\ Free
  /\ h \notin Endless \cup ZeroGrace
  /\ \E s \in TasksOf(h, "completion") :
       /\ IF StillIn(s, "Running")
          THEN /\ Turns(s, "racing", "grace")
               /\ expired' = [expired EXCEPT ![h] = @ + 1]
               /\ Append1
               /\ UNCHANGED <<phase, order, current, era, protest, cued>>
          ELSE /\ Turns(s, "racing", "idle")
               /\ UNCHANGED <<logVars, cueVars>>
       /\ Keeps(s)
  /\ UNCHANGED <<bridgeVars, director, hand, faultVars>>

\* The race is over and no grace applies.
FinishAtEnd(h) ==
  /\ h \in ZeroGrace \ Endless
  /\ \E s \in TasksOf(h, "completion") :
       /\ Turns(s, "racing", "idle")
       /\ TransitIf(StillIn(s, "Running"), s, "Finished")
  /\ UNCHANGED <<active, director, hand, faultVars>>

\* The grace deadline passed, or every pilot still flying has crossed.
FinishAfterGrace(h) ==
  /\ \E s \in TasksOf(h, "completion") :
       /\ Turns(s, "grace", "idle")
       /\ TransitIf(StillIn(s, "Running"), s, "Finished")
  /\ UNCHANGED <<active, director, hand, faultVars>>

\* Mutant: the driver ends once it has logged its deadline.
AnnounceWindowOnly(h) ==
  /\ Up
  /\ h \in AutoOfficial
  /\ \E s \in TasksOf(h, "protest") : Turns(s, "spawned", "idle") /\ Keeps(s)
  /\ cued' = [cued EXCEPT ![h] = @ \cup {"deadline"}]
  /\ Append1
  /\ UNCHANGED <<phase, order, current, era, protest, expired, bridgeVars,
                 director, hand, faultVars>>

\* HeatFinalizing is logged before the hold, unchecked.
AnnounceWindow(h) ==
  /\ Up
  /\ h \in AutoOfficial
  /\ \E s \in TasksOf(h, "protest") :
       Turns(s, "spawned", "holding") /\ Keeps(s)
  /\ cued' = [cued EXCEPT ![h] = @ \cup {"deadline"}]
  /\ Append1
  /\ UNCHANGED <<phase, order, current, era, protest, expired, bridgeVars,
                 director, hand, faultVars>>

\* A round without a protest window spawns an inert driver.
NoWindow(h) ==
  /\ Up
  /\ h \notin AutoOfficial
  /\ \E s \in TasksOf(h, "protest") : Turns(s, "spawned", "idle") /\ Keeps(s)
  /\ UNCHANGED <<logVars, cueVars, bridgeVars, director, hand, faultVars>>

\* At expiry the open protests are counted outside the lock: any, and the
\* driver stands down for good.
CheckProtests(h) ==
  /\ Up
  /\ \E s \in TasksOf(h, "protest") :
       /\ Turns(s, "holding", IF Open(h) = {} THEN "cleared" ELSE "idle")
       /\ Keeps(s)
  /\ UNCHANGED <<logVars, cueVars, bridgeVars, director, hand, faultVars>>

\* Mutant: trusts the count it took outside the lock.
FireOfficialUncounted(h) ==
  /\ \E s \in TasksOf(h, "protest") :
       /\ Turns(s, "cleared", "idle")
       /\ TransitIf(StillIn(s, "Unofficial"), s, "Finalized")
  /\ UNCHANGED <<active, director, hand, faultVars>>

\* ... and then re-counted under it, with the rest of the recheck.
FireOfficial(h) ==
  /\ \E s \in TasksOf(h, "protest") :
       /\ Turns(s, "cleared", "idle")
       /\ TransitIf(StillIn(s, "Unofficial") /\ Open(h) = {}, s, "Finalized")
  /\ UNCHANGED <<active, director, hand, faultVars>>

\* An append (or the read of its recheck) fails: the driver reports and ends.
ClockFails(h) ==
  /\ Up
  /\ ioErrors < MaxIoErrors
  /\ ioErrors' = ioErrors + 1
  /\ hurt' = hurt \cup {h}
  /\ \E k \in Kinds :
       /\ task[Held(h, k)] # "idle"
       /\ task' = [task EXCEPT ![Held(h, k)] = "idle"]
       /\ fresh' = fresh \ {Held(h, k)}
  /\ UNCHANGED <<logVars, cueVars, bridgeVars, director, hand, crashes>>
-----------------------------------------------------------------------------
(***************************************************************************)
(* The process.  A crash keeps the log and loses everything else.          *)
(***************************************************************************)
Crash ==
  /\ Up
  /\ crashes < MaxCrashes
  /\ crashes' = crashes + 1
  /\ director' = "down"
  /\ tail' = <<>>
  /\ active' = NoHeat
  /\ task' = [s \in Slots |-> "idle"]
  /\ fresh' = {}
  /\ hand' = NoHeat
  /\ hurt' = {}
  /\ UNCHANGED <<logVars, cueVars, ioErrors>>

Boot ==
  /\ director = "down"
  /\ director' = "booting"
  /\ UNCHANGED <<logVars, cueVars, bridgeVars, taskVars, hand, faultVars>>
-----------------------------------------------------------------------------
RaceDirector(h) ==
  \/ ScheduleHeat(h)
  \/ \E command \in Commands : HeatTransition(h, command)
  \/ Finalize(h)
  \/ Advance(h)
  \/ LoadGenerated(h)
  \/ SetCurrentHeat(h)
  \/ \E p \in Protests : FileProtest(h, p)

Handle(h) ==
  \/ HandleRunning(h)
  \/ HandleRunningUnread(h)
  \/ HandleUnofficial(h)
  \/ HandleOffRamp(h)
  \/ HandleStaged(h)
  \/ HandleArmed(h)

Clocks(h) ==
  \/ AnnounceStart(h) \/ FireStart(h)
  \/ ExpireRace(h) \/ FinishAtEnd(h) \/ FinishAfterGrace(h)
  \/ AnnounceWindow(h) \/ NoWindow(h) \/ CheckProtests(h) \/ FireOfficial(h)
  \/ ClockFails(h)

Next ==
  \/ \E h \in Heats : RaceDirector(h) \/ Handle(h) \/ Clocks(h)
  \/ LoadOnDeck \/ NothingToLoad
  \/ \E p \in Protests : ResolveProtest(p) \/ ReverseResolution(p)
  \/ AppendOther
  \/ BridgeStarts \/ BridgeGivesUp \/ SourcesDone
  \/ Crash \/ Boot

Spec == Init /\ [][Next]_vars

(***************************************************************************)
(* Fairness.  The process is restarted, its tasks are polled, the bridge's *)
(* ticker ticks, every bounded hold elapses, and a command that holds the  *)
(* lock returns.  Fairness is strong for the steps that take the lock: a   *)
(* task waiting for it gets it between commands.  The race director owes   *)
(* nothing; nor does a race without an end, or a grace window without a    *)
(* deadline.                                                               *)
(***************************************************************************)
Fairness ==
  /\ WF_vars(Boot)
  /\ WF_vars(BridgeStarts)
  /\ WF_vars(LoadOnDeck \/ NothingToLoad \/ \E h \in Heats : LoadGenerated(h))
  /\ \A h \in Heats :
       /\ WF_vars(Handle(h))
       /\ WF_vars(AnnounceStart(h)) /\ WF_vars(AnnounceWindow(h))
       /\ WF_vars(NoWindow(h)) /\ WF_vars(CheckProtests(h))
       /\ SF_vars(FireStart(h)) /\ SF_vars(FireOfficial(h))
       /\ SF_vars(ExpireRace(h)) /\ SF_vars(FinishAtEnd(h))
       /\ h \notin UntilScored => SF_vars(FinishAfterGrace(h))

FairSpec == Spec /\ Fairness
-----------------------------------------------------------------------------
(***************************************************************************)
(* Properties.                                                             *)
(***************************************************************************)

\* The runtime implements the abstract heat loop: whichever of the race
\* director and the clocks moves a heat, and however late a clock fires, the
\* heat moves along one edge of the state machine, and only an uncontested
\* result becomes official.
Promise == INSTANCE HeatLoop WITH contested <- [h \in Heats |-> Open(h)]
ImplementsHeatLoop == Promise!Spec

\* The runtime appends a transition of its own: no command is involved.
AutoRuns(h)     == FireStart(h) /\ phase'[h] # phase[h]
AutoFinishes(h) == (FinishAtEnd(h) \/ FinishAfterGrace(h)) /\ phase'[h] # phase[h]
AutoFinal(h)    == FireOfficial(h) /\ phase'[h] # phase[h]

\* A race never goes green on a countdown nobody saw: when the start driver
\* moves a heat to Running, the HeatStarting it logged (the console's tone) is
\* of this very arming, however often the heat was aborted and re-armed while
\* the driver was holding.
StartsAreAnnounced == [][\A h \in Heats : AutoRuns(h) => "tone" \in cued[h]]_vars

\* A result never becomes official on a countdown nobody saw: the auto-official
\* step is preceded by a HeatFinalizing in the same stay in Unofficial.
OfficialsAreAnnounced ==
  [][\A h \in Heats : AutoFinal(h) => "deadline" \in cued[h]]_vars

\* The completion clock of a heat with a grace window closes it only behind a
\* RaceExpired marker of the same run: without one the scoring fold would count
\* every crossing flown after the buzzer.
GraceIsMarked ==
  [][\A h \in Heats :
       AutoFinishes(h) /\ h \notin ZeroGrace => expired[h] > 0]_vars

\* The three above in one invariant: a clock whose recheck would pass, aborted or
\* not, is a live task that has already logged what its stage calls for.
FreshHaveAnnounced ==
  \A s \in fresh :
    /\ task[s] # "idle"
    /\ s[2] = "start" /\ task[s] = "holding" => "tone" \in cued[s[1]]
    /\ s[2] = "protest" /\ task[s] \in {"holding", "cleared"} =>
         "deadline" \in cued[s[1]]
    /\ s[2] = "completion" /\ task[s] = "grace" => expired[s[1]] > 0

\* No path makes a result official while a protest against it is open: neither
\* the command nor the auto-official timer, which counts the protests before
\* it takes the lock and may lose the race to a fresh filing.
NoOfficialOverProtest ==
  [][\A h \in Heats :
       phase[h] # "Final" /\ phase'[h] = "Final" => Open(h) = {}]_vars

\* A bridge that has caught up has no timer emitting into a heat that is not
\* racing, and no clock waiting to fire for a phase the heat has left.
Waits(h, k) == task[Held(h, k)] # "idle"
PhaseOf == [k \in Kinds |-> CASE k = "start"      -> "Armed"
                              [] k = "completion" -> "Running"
                              [] k = "protest"    -> "Unofficial"]
QuietWhenCaughtUp ==
  director = "following" /\ tail = <<>> =>
    /\ active # NoHeat => phase[active] = "Running"
    /\ \A h \in Heats, k \in Kinds : Waits(h, k) => phase[h] = PhaseOf[k]

\* An Armed heat under a live bridge always has its way on to Running: either
\* the bridge has news of the heat still to read, or its countdown is in the
\* slot with a watermark that passes the recheck.  (No slot is ever left
\* detached or overwritten, and no recheck fails but for newer news.)  Only a
\* heat whose own clock an I/O error took is left without, and no longer than
\* until its next transition is handled or the Director restarts: a failed read
\* or append of one heat never costs another its clock.
Pending(h) == \E i \in DOMAIN tail : tail[i][1] = h
NeverOrphaned ==
  director = "following" =>
    \A h \in Heats \ hurt :
      /\ phase[h] = "Armed" /\ ~Pending(h) =>
           Waits(h, "start") /\ Held(h, "start") \in fresh
      /\ phase[h] = "Running" /\ ~Pending(h) /\ h \notin Unseated =>
           Waits(h, "completion") /\ Held(h, "completion") \in fresh

\* An armed heat does not stay armed: the countdown fires, or the race director
\* moves the heat first -- across Director crashes and a lagging bridge.
ArmedGoes == \A h \in Heats : phase[h] = "Armed" ~> phase[h] # "Armed"

\* A race with pilots, an end and a bounded grace closes by itself.
Closes(h) == h \notin Unseated \cup Endless \cup UntilScored
RaceCloses ==
  \A h \in Heats : Closes(h) => (phase[h] = "Running" ~> phase[h] # "Running")

\* A provisional result whose protest window is running becomes official, or is
\* contested before the window runs out, or is moved on by the race director.
\* (A timer that found a protest stands down for good, so nothing is promised
\* of a heat once its protest is settled.)
WindowCloses ==
  \A h \in AutoOfficial :
    phase[h] = "Unofficial" /\ Waits(h, "protest")
      ~> (phase[h] # "Unofficial" \/ Open(h) # {})

\* The timers of a heat that stopped racing are released.
EmissionStops ==
  \A h \in Heats :
    active = h /\ phase[h] # "Running" ~> (active # h \/ phase[h] = "Running")
-----------------------------------------------------------------------------
(***************************************************************************)
(* What the repository says of the runtime and the code does not do: this  *)
(* is refuted by a run.                                                    *)
(***************************************************************************)

\* The comment on FileProtest: a protest the Finalize gate counts is never
\* outside the run window the audit views show.
ProtestsAreVisible ==
  \A p \in Protests :
    protest[p].heat # NoHeat /\ ~protest[p].resolved => protest[p].visible
=============================================================================
