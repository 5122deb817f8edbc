------------------------------ MODULE RaceLog ------------------------------
(***************************************************************************)
(* The event log of one racing event and the folds over it that decide     *)
(* what a heat's result is: which heat owns an entry (heat_of_offset),     *)
(* which entries a heat is scored from (heat_window_offsets), what the     *)
(* marshal's corrections make of its passes (corrected_and_voided_passes), *)
(* which of those the automatic rules keep (.._with_floor), and which      *)
(* rulings still stand (Adjudications::collect).                           *)
(*                                                                         *)
(* An entry is addressed by its position in the log; rulings name the      *)
(* entry they are about by that position, and always an earlier one.       *)
(* Positions start at 1 here and at 0 in the code.  Every pass is a pass   *)
(* of the lap gate, from one timer.                                        *)
(***************************************************************************)
EXTENDS Integers, Sequences, FiniteSets, SequencesExt, HeatFsm

CONSTANTS Heats, Pilots,
          Instants,    \* the source-clock instants a crossing may carry
          NoHeat,      \* a pass no source stamped with a heat
          MinLap,      \* the round's minimum-lap floor, 0 for none
          Bounce       \* the bounce window pinned at every arm, 0 for none

ASSUME LogAssumption ==
  /\ NoHeat \notin Heats
  /\ Instants \subseteq Nat \ {0}
  /\ MinLap \in Nat
  /\ Bounce \in Nat

-----------------------------------------------------------------------------
(* The entries (crates/events, enum Event). *)

Scheduled(h)       == [kind |-> "scheduled", heat |-> h]
Moved(h, t)        == [kind |-> "moved", heat |-> h, transition |-> t]
Expired(h)         == [kind |-> "expired", heat |-> h]
Pass(h, p, at)     == [kind |-> "pass", heat |-> h, pilot |-> p, at |-> at]
Inserted(h, p, at) == [kind |-> "inserted", heat |-> h, pilot |-> p, at |-> at]
Penalty(h, p, sort) ==
  [kind |-> "penalty", heat |-> h, pilot |-> p, sort |-> sort]
HeatVoided(h)      == [kind |-> "heatVoided", heat |-> h]
Voided(o)          == [kind |-> "voided", target |-> o]
Adjusted(o, at)    == [kind |-> "adjusted", target |-> o, at |-> at]
Split(o, at)       == [kind |-> "split", target |-> o, at |-> at]
ThrownOut(o)       == [kind |-> "thrownOut", target |-> o]
Reversed(o)        == [kind |-> "reversed", target |-> o]

HeatLoopKinds == {"scheduled", "moved"}
PassKinds     == {"pass", "inserted", "split"}
PassRulings   == {"voided", "adjusted", "split", "thrownOut"}
Targeting     == PassRulings \cup {"reversed"}
Reversible    == {"penalty", "thrownOut", "heatVoided"}

\* The positions of the log's entries of these kinds.
Of(L, kinds) == {o \in DOMAIN L : L[o].kind \in kinds}

\* The latest of a set of positions, 0 if there is none.
Latest(S) == IF S = {} THEN 0 ELSE Max(S)

-----------------------------------------------------------------------------
(* Where a heat stands. *)

\* The positions of h's transitions to one of ts.
Moves(L, h, ts) ==
  {o \in Of(L, {"moved"}) : L[o].heat = h /\ L[o].transition \in ts}

\* heat_state: a heat scheduled anew, re-seated or re-tuned, is Scheduled.
HeatState(L, h) ==
  LET last == Latest({o \in Of(L, HeatLoopKinds) : L[o].heat = h})
  IN  IF last = 0 THEN Unknown
      ELSE IF L[last].kind = "scheduled" THEN "Scheduled"
      ELSE NextState(L[last].transition)

\* current_run_start: the latest Running, or one past the latest reset; past
\* the end of the log for a heat that never ran.
\* Mutant: the window opens behind the latest reset, whether or not the heat
\* has started since.
RunStartBehindReset(L, h) == Latest(Moves(L, h, Resets)) + 1
RunStart(L, h) ==
  LET mark == Latest(Moves(L, h, {"Running"} \cup Resets))
  IN  IF mark = 0 THEN Len(L) + 1
      ELSE IF L[mark].transition = "Running" THEN mark ELSE mark + 1

\* current_run_pass_ceiling: the run's first Finalized, the end of the log
\* until there is one.
\* Mutant: a Revert opens the record again.
PassCeilingWhileFinal(L, h) ==
  IF HeatState(L, h) = "Final"
    THEN Latest(Moves(L, h, {"Finalized"})) ELSE Len(L) + 1
PassCeiling(L, h) ==
  LET closed == {o \in Moves(L, h, {"Finalized"}) : o >= RunStart(L, h)}
  IN  IF closed = {} THEN Len(L) + 1 ELSE Min(closed)

\* positional_heat_at: the heat of the latest heat-loop entry up to o.
PositionalHeat(L, o) ==
  LET last == Latest({i \in Of(L, HeatLoopKinds) : i <= o})
  IN  IF last = 0 THEN NoHeat ELSE L[last].heat

-----------------------------------------------------------------------------
(* Which heat an entry belongs to, told twice. *)

\* heat_of_offset: by tag, else through the target, else by position.
\* Mutant: the tag of a pass is not looked at.
HeatOfByPosition(L, o) ==
  LET of[i \in DOMAIN L] ==
        IF L[i].kind \in Targeting THEN of[L[i].target]
        ELSE IF L[i].kind = "pass" \/ L[i].heat = NoHeat
          THEN PositionalHeat(L, i) ELSE L[i].heat
  IN  of[o]
HeatOf(L, o) ==
  LET of[i \in DOMAIN L] ==
        IF L[i].kind \in Targeting THEN of[L[i].target]
        ELSE IF L[i].kind = "expired" \/ L[i].heat = NoHeat
          THEN PositionalHeat(L, i) ELSE L[i].heat
  IN  of[o]

\* What takes an entry that rules on no other into the window of h, whose run
\* starts at start and whose passes end at ceiling.  The marker of an expired
\* race window is taken by position although it names its heat.
Admits(L, h, start, ceiling, i) ==
  IF L[i].kind \in HeatLoopKinds THEN L[i].heat = h
  ELSE /\ i >= start
       /\ L[i].kind = "pass" => i < ceiling
       /\ IF L[i].kind = "expired" \/ L[i].heat = NoHeat
            THEN PositionalHeat(L, i) = h ELSE L[i].heat = h

\* heat_window_offsets: the positions h is scored from.
Window(L, h) ==
  LET start   == RunStart(L, h)
      ceiling == PassCeiling(L, h)
      in[i \in DOMAIN L] ==
        IF L[i].kind \in Targeting THEN i >= start /\ in[L[i].target]
        ELSE Admits(L, h, start, ceiling, i)
  IN  {i \in DOMAIN L : in[i]}

-----------------------------------------------------------------------------
(* The marshal's corrections, over the entries W of one window. *)

\* A void of a void undoes it, and so on down the chain: the pass at its end,
\* and whether the latest link wants it gone.  (No command voids a re-time, so
\* that arm of the fold is left out.)
\* Mutant: a void of a void restores what that one was about, and no more.
ChainOfTwo(L, o) ==
  LET t == L[o].target
  IN  IF L[t].kind = "voided" THEN [base |-> L[t].target, gone |-> FALSE]
                              ELSE [base |-> t, gone |-> TRUE]
Chain(L, o) ==
  LET link[i \in Of(L, {"voided"})] ==
        IF L[L[i].target].kind = "voided"
          THEN [base |-> link[L[i].target].base, gone |-> ~link[L[i].target].gone]
          ELSE [base |-> L[i].target, gone |-> TRUE]
  IN  link[o]

\* The latest void or re-time about the pass at p: it has the last word.
LastWord(L, W, p) ==
  Latest({o \in W : \/ L[o].kind = "adjusted" /\ L[o].target = p
                    \/ L[o].kind = "voided" /\ Chain(L, o).base = p})

RemovedByMarshal(L, W, p) ==
  LET word == LastWord(L, W, p)
  IN  word # 0 /\ L[word].kind = "voided" /\ Chain(L, word).gone

\* A split adds a pass for the pilot of the lap it splits, whatever became of
\* the pass that ended it.
PilotAt(L, o) ==
  LET pilot[i \in DOMAIN L] ==
        IF L[i].kind = "split" THEN pilot[L[i].target] ELSE L[i].pilot
  IN  pilot[o]

\* The instant of a surviving pass: its latest re-time, else its own.
InstantAt(L, W, p) ==
  LET retime == Latest({o \in W : L[o].kind = "adjusted" /\ L[o].target = p})
  IN  IF retime = 0 THEN L[p].at ELSE L[retime].at

\* corrected_and_voided_passes: the passes that survive the marshal.
Corrected(L, W) ==
  {[offset |-> p, pilot |-> PilotAt(L, p), at |-> InstantAt(L, W, p)] :
     p \in {o \in W \cap Of(L, PassKinds) : ~RemovedByMarshal(L, W, o)}}

\* What a marshal shaped, the automatic rules leave alone.
Exempt(L, W) ==
  (W \cap Of(L, {"inserted", "split"}))
    \cup {L[o].target : o \in W \cap Of(L, {"adjusted"})}

\* race_expired_offset: the last marker of h's among W, 0 if there is none.
Marker(L, W, h) == Latest({o \in W \cap Of(L, {"expired"}) : L[o].heat = h})

\* One pass on the walk down a pilot's chain: dropped if it is unruled and too
\* close behind the last kept one, or a second one after the marker.
\* Mutant: a marshal's crossing does not become the one measured from.
KeepNextUnruled(acc, x, ruled, late) ==
  LET close == acc.kept # {} /\ x.at - acc.last < Max({MinLap, Bounce})
  IN  IF (close /\ ~ruled) \/ (late /\ acc.grace) THEN acc
      ELSE [kept |-> acc.kept \cup {x}, grace |-> acc.grace \/ late,
            last |-> IF ruled THEN acc.last ELSE x.at]
KeepNext(acc, x, ruled, late) ==
  LET close == acc.kept # {} /\ x.at - acc.last < Max({MinLap, Bounce})
  IN  IF (close /\ ~ruled) \/ (late /\ acc.grace) THEN acc
      ELSE [kept |-> acc.kept \cup {x}, grace |-> acc.grace \/ late,
            last |-> x.at]

\* The order a pilot's passes are walked in: by instant, then by position.
Earlier(x, y) == x.at < y.at \/ (x.at = y.at /\ x.offset < y.offset)
LatestPass(S) == CHOOSE x \in S : \A y \in S \ {x} : Earlier(y, x)

\* corrected_and_voided_passes_with_floor: what the walk keeps of each pilot's
\* surviving passes, taken in the order of their instants.
Walk(passes, exempt, marker) ==
  LET Ruled(x) == x.offset \in exempt
      Late(x)  == marker # 0 /\ x.offset > marker /\ ~Ruled(x)
      walked[S \in SUBSET passes] ==
        IF S = {} THEN [kept |-> {}, grace |-> FALSE, last |-> 0]
        ELSE LET x == LatestPass(S)
             IN  KeepNext(walked[S \ {x}], x, Ruled(x), Late(x))
  IN  UNION {walked[{x \in passes : x.pilot = p}].kept : p \in Pilots}
Kept(L, W, marker) == Walk(Corrected(L, W), Exempt(L, W), marker)

-----------------------------------------------------------------------------
(* The rulings that stand, and the result. *)

\* The reversals are collected from the same entries as the rulings.
Standing(L, W, kinds) ==
  {o \in W \cap Of(L, kinds) :
     \A r \in W \cap Of(L, {"reversed"}) : L[r].target # o}

\* score_heat_window: everything about h's result that depends on the log.
\* Penalty points are left to the standings.
Result(L, h) ==
  LET W == Window(L, h)
      Penalised(sort) == {o \in Standing(L, W, {"penalty"}) : L[o].sort = sort}
  IN  [passes |-> Kept(L, W, Marker(L, W, h)),
       thrownOut |-> {L[o].target : o \in Standing(L, W, {"thrownOut"})},
       disqualified |-> {L[o].pilot : o \in Penalised("disqualify")},
       timeAdded |-> Penalised("time"),
       void |-> Standing(L, W, {"heatVoided"}) # {}]
=============================================================================
