----------------------------- MODULE Marshaling -----------------------------
(***************************************************************************)
(* The race director marshals the heats of one event while timers still    *)
(* report passes and heats move on: every marshaling command of            *)
(* crates/server/src/control_handler.rs with the guards it takes before it *)
(* appends, over the log and the folds of RaceLog.                         *)
(*                                                                         *)
(* Each action is one append under the command lock; a refused command     *)
(* appends nothing and is no step.  A timer's pass does not take the lock, *)
(* so in the code it may fall between the guard of a command and its       *)
(* append; no guard looks at the passes but the one against collisions,    *)
(* and for that one the pass may as well land right after the command.     *)
(* Protests change no result: they, and the gate they put before Finalize, *)
(* are modelled with the clocks in RaceRuntime.                            *)
(***************************************************************************)
EXTENDS RaceLog

CONSTANTS Openings,     \* the logs the runs start from
          MaxSteps      \* bound: entries appended after the opening

VARIABLE log

\* What the log may hold.
Entries ==
  [kind : {"scheduled", "expired", "heatVoided"}, heat : Heats]
    \cup [kind : {"moved"}, heat : Heats, transition : Transitions]
    \cup [kind : {"pass"}, heat : Heats, pilot : Pilots, at : Instants]
    \cup [kind : {"inserted"}, heat : Heats \cup {NoHeat},
          pilot : Pilots, at : Instants]
    \cup [kind : {"penalty"}, heat : Heats, pilot : Pilots,
          sort : {"disqualify", "time", "points"}]
    \cup [kind : {"voided", "thrownOut", "reversed"}, target : Nat \ {0}]
    \cup [kind : {"adjusted", "split"}, target : Nat \ {0}, at : Instants]

\* The kinds of entry a ruling may be about.
RulesOn(kind) ==
  CASE kind = "voided"   -> PassKinds \cup {"voided"}
    [] kind = "reversed" -> Reversible
    [] OTHER             -> PassKinds

\* Every ruling is about an earlier entry of a kind it may be about.
TypedLog(L) ==
  /\ L \in Seq(Entries)
  /\ \A o \in Of(L, Targeting) :
       /\ L[o].target < o
       /\ L[L[o].target].kind \in RulesOn(L[o].kind)

\* The log before it allows the entry at o.
LegalEntry(L, o) ==
  LET before == SubSeq(L, 1, o - 1)
      e      == L[o]
  IN  CASE e.kind = "scheduled" -> HeatState(before, e.heat) \in {Unknown, "Scheduled"}
        [] e.kind = "moved" ->
             \E c \in Commands : /\ Records(c) = e.transition
                                 /\ HeatState(before, e.heat) \in LegalIn(c)
        [] OTHER -> TRUE

\* No ruling in force twice.
SingleRulings(L) ==
  LET InForce(kind) == Standing(L, DOMAIN L, {kind})
  IN  /\ \A r, s \in InForce("thrownOut") :
           L[r].target = L[s].target => r = s
      /\ \A r, s \in InForce("penalty") :
           L[r] = L[s] /\ L[r].sort = "disqualify" => r = s
      /\ \A r, s \in InForce("heatVoided") :
           /\ L[r].heat = L[s].heat
           /\ RunStart(L, L[r].heat) <= r
           /\ RunStart(L, L[r].heat) <= s
           => r = s

\* A ruling of the current run on a pass is about an entry of that run.
RulingsOfRun(L) ==
  \A o \in Of(L, PassRulings) :
    LET h == HeatOf(L, o)
    IN  h # NoHeat /\ RunStart(L, h) <= o => RunStart(L, h) <= L[o].target

ASSUME OpeningAssumption ==
  /\ MaxSteps \in Nat
  /\ \A L \in Openings :
       /\ TypedLog(L) /\ SingleRulings(L) /\ RulingsOfRun(L)
       /\ \A o \in DOMAIN L : LegalEntry(L, o)

TypeOK == TypedLog(log)

Init == log \in Openings

Record(e) == log' = Append(log, e)
-----------------------------------------------------------------------------
(* The guards of the marshaling commands. *)

IsScheduled(h) == HeatState(log, h) # Unknown

\* require_not_final.
NotFinal(h) == HeatState(log, h) # "Final"

\* require_target_heat_not_final: a target no heat owns passes.
\* Mutant: the heat the log stands at is asked for.
TargetNotFinalHere(o) == NotFinal(PositionalHeat(log, Len(log)))
TargetNotFinal(o) ==
  LET h == HeatOf(log, o) IN h = NoHeat \/ NotFinal(h)

\* require_target_in_current_run.
\* Mutant: any heat that has a run will do.
InCurrentRunOrAny(o) ==
  LET h == HeatOf(log, o) IN h = NoHeat \/ RunStart(log, h) <= Len(log)
InCurrentRun(o) ==
  LET h == HeatOf(log, o) IN h = NoHeat \/ o >= RunStart(log, h)

\* require_heat_has_run.
HasRun(h) == RunStart(log, h) <= Len(log)

\* The guards against a second ruling of the same effect look through the
\* whole log, not the window.
StandingInLog(kinds) == Standing(log, DOMAIN log, kinds)

\* require_no_effective_throw_out.
\* Mutant: the guard is not there.
NotThrownOutUnchecked(o) == TRUE
NotThrownOut(o) ==
  \A r \in StandingInLog({"thrownOut"}) : log[r].target # o

\* require_not_already_disqualified.
\* Mutant: a second disqualification is not noticed.
NotDisqualifiedTwice(h, p) ==
  Cardinality({r \in StandingInLog({"penalty"}) :
                 log[r] = Penalty(h, p, "disqualify")}) < 2
NotDisqualified(h, p) ==
  \A r \in StandingInLog({"penalty"}) : log[r] # Penalty(h, p, "disqualify")

\* require_heat_not_voided: a void of an abandoned run does not count.
NotVoided(h) ==
  \A r \in StandingInLog({"heatVoided"}) :
    log[r].heat = h => r < RunStart(log, h)

\* require_no_instant_collision: over the passes the marshal left, before the
\* automatic rules; the pass that is moved does not collide with itself.
\* Mutant: only the timer's own passes are looked at.
NoRawCollision(h, p, at, moved) ==
  \A o \in Window(log, h) \cap Of(log, {"pass"}) :
    log[o].pilot = p /\ log[o].at = at => o = moved
NoCollision(h, p, at, moved) ==
  \A x \in Corrected(log, Window(log, h)) :
    x.pilot = p /\ x.at = at => x.offset = moved

\* The lap that ends at o: a pass, or what stands for one.
LapEnds == Of(log, PassKinds)
-----------------------------------------------------------------------------
(* The marshaling commands. *)

VoidDetection(o) ==
  /\ o \in LapEnds \cup Of(log, {"voided"})
  /\ TargetNotFinal(o)
  /\ InCurrentRun(o)
  /\ NotThrownOut(o)
  /\ Record(Voided(o))

\* AdjustLap and SplitLap skip the collision guard where no heat owns o.
Placeable(o, at, moved) ==
  /\ o \in LapEnds
  /\ TargetNotFinal(o)
  /\ InCurrentRun(o)
  /\ LET h == HeatOf(log, o)
     IN  h # NoHeat => NoCollision(h, PilotAt(log, o), at, moved)

AdjustLap(o, at) == Placeable(o, at, o) /\ Record(Adjusted(o, at))

SplitLap(o, at) == Placeable(o, at, 0) /\ Record(Split(o, at))

InsertLap(h, p, at) ==
  /\ IsScheduled(h)
  /\ NotFinal(h)
  /\ NoCollision(h, p, at, 0)
  /\ Record(Inserted(h, p, at))

\* A client that names no heat: the insertion lands where the log stands, and
\* nothing looks for a collision.
InsertUntagged(p, at) ==
  /\ NotFinal(PositionalHeat(log, Len(log)))
  /\ Record(Inserted(NoHeat, p, at))

VoidHeat(h) ==
  /\ IsScheduled(h)
  /\ NotFinal(h)
  /\ HasRun(h)
  /\ NotVoided(h)
  /\ Record(HeatVoided(h))

\* ApplyPenalty, and DeductPoints for its points.
ApplyPenalty(h, p, sort) ==
  /\ IsScheduled(h)
  /\ NotFinal(h)
  /\ sort = "disqualify" => NotDisqualified(h, p)
  /\ Record(Penalty(h, p, sort))

ThrowOutLap(o) ==
  /\ o \in LapEnds
  /\ TargetNotFinal(o)
  /\ InCurrentRun(o)
  /\ NotThrownOut(o)
  /\ Record(ThrownOut(o))

\* Neither the run of the ruling nor an earlier reversal is looked at.
ReverseRuling(o) ==
  /\ o \in Of(log, Reversible)
  /\ TargetNotFinal(o)
  /\ Record(Reversed(o))
-----------------------------------------------------------------------------
(* What else appends: scheduling, the heat loop, its clocks, the timers. *)

\* A new heat, or one not yet staged whose seating or layout is set anew.
ScheduleHeat(h) ==
  /\ HeatState(log, h) \in {Unknown, "Scheduled"}
  /\ Record(Scheduled(h))

\* A command of the heat loop, or the clock that appends the same transition
\* under the same test.
HeatLoopStep(h, c) ==
  /\ HeatState(log, h) \in LegalIn(c)
  /\ Record(Moved(h, Records(c)))

\* The completion clock's tone, once a run (a Director crash within the grace
\* may double it: see RaceRuntime).
ExpireRace(h) ==
  /\ HeatState(log, h) = "Running"
  /\ \A o \in Of(log, {"expired"}) : log[o].heat = h => o < RunStart(log, h)
  /\ Record(Expired(h))

\* A source stamps its heat on every pass.  It starts with the run, but what
\* it recovers from the timer may arrive at any time after.
RecordPass(h, p, at) ==
  /\ Moves(log, h, {"Running"}) # {}
  /\ Record(Pass(h, p, at))
-----------------------------------------------------------------------------
Marshal ==
  \/ \E o \in DOMAIN log :
       \/ VoidDetection(o)
       \/ ThrowOutLap(o)
       \/ ReverseRuling(o)
       \/ \E at \in Instants : AdjustLap(o, at)
       \/ \E at \in Instants : SplitLap(o, at)
  \/ \E h \in Heats :
       \/ VoidHeat(h)
       \/ \E p \in Pilots, at \in Instants : InsertLap(h, p, at)
       \/ \E p \in Pilots, sort \in {"disqualify", "time", "points"} :
            ApplyPenalty(h, p, sort)
  \/ \E p \in Pilots, at \in Instants : InsertUntagged(p, at)

Race ==
  \E h \in Heats :
    \/ ScheduleHeat(h)
    \/ \E c \in Commands : HeatLoopStep(h, c)
    \/ ExpireRace(h)
    \/ \E p \in Pilots, at \in Instants : RecordPass(h, p, at)

Next ==
  /\ \E L \in Openings : IsPrefix(L, log) /\ Len(log) < Len(L) + MaxSteps
  /\ Marshal \/ Race

Spec == Init /\ [][Next]_log
-----------------------------------------------------------------------------
(***************************************************************************)
(* Properties.                                                             *)
(***************************************************************************)

\* The entry the step appended, as an action-level constant.
Added == log'[Len(log')]

\* The two folds that attribute an entry agree: what a heat is scored from is
\* what the lock on an official result looks that heat up by.  heat_of_offset
\* "mirrors" heat_window_offsets; where they differ, a ruling is checked
\* against one heat and changes the result of another.
RoutingAgrees ==
  \A h \in Heats : \A o \in Window(log, h) : HeatOf(log, o) = h

\* An official result does not change while it is official, whatever the
\* race director rules and whatever the timers still deliver.
OfficialFrozen ==
  [][\A h \in Heats :
       HeatState(log, h) = "Final" /\ HeatState(log', h) = "Final"
         => Result(log', h) = Result(log, h)]_log

\* Once a run has been official its observations are closed for good: a pass
\* delivered later does not join the result, not even after a Revert.
RecordClosed ==
  [][Added.kind = "pass" =>
       LET h == Added.heat
       IN  (\E o \in Moves(log, h, {"Finalized"}) : o >= RunStart(log, h))
             => Result(log', h) = Result(log, h)]_log

\* A run starts with a clean sheet: no pass, throw-out, penalty or void of an
\* abandoned run, and no penalty filed before the run, is part of its result.
CleanStart ==
  [][\A h \in Heats :
       Added = Moved(h, "Running") =>
         Result(log', h) = [passes |-> {}, thrownOut |-> {},
                            disqualified |-> {}, timeAdded |-> {},
                            void |-> FALSE]]_log

\* Undoing the last word on a pass undoes it: a void of the void or restore
\* that decided whether a pass counts turns the decision round, at any depth.
UndoFlips ==
  [][Added.kind = "voided" /\ log'[Added.target].kind = "voided" =>
       LET h == HeatOf(log, Added.target)
           W == Window(log, h)
           p == Chain(log, Added.target).base
       IN  LastWord(log, W, p) = Added.target
             => ( RemovedByMarshal(log, W, p)
                    # RemovedByMarshal(log', Window(log', h), p) )]_log

\* Reversing a ruling of the current run that stands takes its effect away: no
\* second copy keeps the lap out, the pilot disqualified or the heat void.  (A
\* second reversal of one ruling is accepted too, and changes nothing.)
ReversalBites ==
  [][Added.kind = "reversed" =>
       LET r == log[Added.target]
           h == HeatOf(log, Added.target)
           after == Result(log', h)
       IN  Added.target \in Standing(log, Window(log, h), Reversible) =>
             /\ r.kind = "thrownOut"  => r.target \notin after.thrownOut
             /\ r.kind = "heatVoided" => ~after.void
             /\ r.kind = "penalty" /\ r.sort = "disqualify"
                  => r.pilot \notin after.disqualified]_log

\* One effective throw-out per lap, one disqualification per pilot and heat, one
\* void per run of a heat: what makes a reversal bite.  Resets, re-runs and
\* reversals of what is reversed already do not let a second copy in.
OneOfAKind == SingleRulings(log)

\* The entry at the end of o's targets.
Root(L, o) ==
  LET root[i \in DOMAIN L] ==
        IF L[i].kind \in Targeting THEN root[L[i].target] ELSE i
  IN  root[o]

\* No correction is accepted and then dropped: a ruling on a pass joins the
\* window of the heat that owns the pass, unless the pass came too late to be
\* part of the record.  (No heat owns an insertion without a tag ahead of the
\* first heat, nor what is ruled on it.)
RulingsLand ==
  [][Added.kind \in PassRulings =>
       LET h == HeatOf(log, Added.target)
           r == Root(log, Added.target)
       IN  \/ h = NoHeat
           \/ Len(log') \in Window(log', h)
           \/ log[r].kind = "pass" /\ r >= PassCeiling(log, h)]_log

\* A correction that names its heat never puts a crossing where the pilot has
\* one already, which would be a lap of no duration.
PlacedApart ==
  [][Added.kind \in {"adjusted", "split"}
       \/ (Added.kind = "inserted" /\ Added.heat # NoHeat) =>
       LET placed == IF Added.kind = "adjusted" THEN Added.target ELSE Len(log')
           h == HeatOf(log', placed)
           after == Corrected(log', Window(log', h))
       IN  \A x, y \in after :
             x.offset = placed /\ x.pilot = y.pilot /\ x.at = y.at => x = y]_log

\* A crossing the result keeps so close behind another is there because a
\* marshal put it there: the floor and the bounce window measure from whatever
\* crossing was kept last, ruled or not.
ShortLapsAreRuled ==
  \A h \in Heats :
    \A x, y \in Result(log, h).passes :
      /\ x.pilot = y.pilot
      /\ x.at < y.at
      /\ y.at - x.at < Max({MinLap, Bounce})
      => y.offset \in Exempt(log, Window(log, h))

\* After the tone each pilot finishes the lap he was flying, and no more: the
\* corrected fold voids every later crossing no marshal has ruled on.
OneCrossingAfterTone ==
  \A h \in Heats :
    LET W == Window(log, h)
        tone == Latest({o \in Of(log, {"expired"}) :
                          log[o].heat = h /\ o >= RunStart(log, h)})
    IN  tone # 0 =>
          \A x, y \in Result(log, h).passes :
            /\ x.pilot = y.pilot
            /\ {x.offset, y.offset} \subseteq (tone + 1..Len(log)) \ Exempt(log, W)
            => x = y

\* A disqualification is refused only to a pilot the result disqualifies.
RefusedIsDisqualified ==
  \A h \in Heats, p \in Pilots :
    HeatState(log, h) \in {"Running", "Unofficial"} /\ ~NotDisqualified(h, p)
      => p \in Result(log, h).disqualified
=============================================================================
