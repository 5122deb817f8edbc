-------------------------------- MODULE Rounds -------------------------------
(***************************************************************************)
(* One round of an event and the heats it draws.  Its configuration lives  *)
(* in the event registry (events.rs): a copy in memory, a copy on disk.    *)
(* Its heats live in the event's log (control_handler.rs), drawn from that *)
(* configuration by the round engine (round_engine.rs).  Commands on the   *)
(* log hold the command lock; an edit of the round reads the log before it *)
(* writes the registry and re-draws the heats after it, so commands run    *)
(* in between, and so do edits of a second console.                        *)
(*                                                                         *)
(* The round races head to head: every heat is planned from its field at   *)
(* once, on a timer and off a layout. A line-up is named by the field it   *)
(* was cut from, a heat's channels by the layout that gave them; what a    *)
(* plan or an assignment of channels refuses is left open: any may.        *)
(***************************************************************************)
EXTENDS Naturals, Sequences, FiniteSets

CONSTANTS N,            \* the heats the round's field fills
          Layouts,      \* the event's channel layouts
          Standings,    \* what the source round's ranking may be
          Configs,      \* the configurations the RD may give the round
          FirstConfig,  \* the one it is added with
          Editors,      \* the consoles that edit the round
          MaxEdits,     \* bound: edits and removals of the round
          MaxChoices,   \* bound: layouts and seatings set by hand
          MaxFaults     \* bound: failed reads, writes and appends, and crashes

Heats == 1 .. N

Shapes == [layouts : Seq(Layouts) \ {<< >>}, scoring : Nat,
           seeding : {"roster", "carry"}, defined : BOOLEAN]

ASSUME HeatsAssumption == N \in Nat \ {0}
ASSUME ConfigsAssumption ==
    /\ Configs \subseteq {c \in Shapes : c.defined}
    /\ FirstConfig \in Configs
ASSUME ValuesAssumption ==
    /\ "typed" \notin Layouts /\ {"untouched", "cleared"} \cap Layouts = {}
    /\ {"roster", "manual", "none"} \cap Standings = {}
ASSUME RoundBoundsAssumption ==
    {MaxEdits, MaxChoices, MaxFaults} \subseteq Nat

VARIABLES round,    \* the registry's copy of the round, in memory
          saved,    \* the event's metadata on disk
          heats,    \* what the log says of each heat
          onTimer,  \* the heat live control shows; 0 is another round's
          standing, \* the ranking of the round this one is seeded from
          drawn,    \* the field recorded in the log
          held,     \* the command that holds the command lock, and what it read
          edits,    \* how far each console's edit is, and what it read
          behind,   \* history: the heats an edit, or the RD's choice, did not reach
          left      \* what is left of each bound

vars == <<round, saved, heats, onTimer, standing, drawn, held, edits, behind, left>>

Fields == Standings \cup {"roster"}
Lineups == Fields \cup {"manual"}
Channels == Layouts \cup {"typed"}
NoDraw == "none"

\* A heat of the log: its phase (the four phases of a race are one), its line-up
\* and channels as last scheduled, the layout bound to it and whether the RD
\* seated it by hand: its pilots, or its pilots and their channels.
HeatRecords == [state : {"Unknown", "Scheduled", "Racing", "Final"},
                lineup : Lineups, flies : Channels,
                bind : Layouts \cup {"untouched", "cleared"},
                seat : {"plan", "pilots", "typed"}]

Free == [by |-> "free"]
Holders ==
    {Free}
      \cup [by : {"fill"}, round : Shapes, heat : Heats, field : Fields, draws : BOOLEAN]
      \cup [by : {"refill"}, round : Shapes]
      \cup [by : {"stage"}, heat : Heats]
      \cup [by : {"retune"}, heat : Heats, lineup : Lineups, flies : Channels]

NoEdit == [pc |-> "idle"]
Edits == {NoEdit}
           \cup [pc : {"probed"}, to : Shapes, raced : BOOLEAN]
           \cup [pc : {"rewriting"}, to : Shapes]

TypeOK ==
    /\ round \in Shapes /\ saved \in Shapes
    /\ heats \in [Heats -> HeatRecords]
    /\ onTimer \in Heats \cup {0}
    /\ standing \in Standings
    /\ drawn \in Standings \cup {NoDraw}
    /\ held \in Holders
    /\ edits \in [Editors -> Edits]
    /\ behind \subseteq Heats

Scheduled == {h \in Heats : heats[h].state = "Scheduled"}
Racing == {h \in Heats : heats[h].state = "Racing"}
Raced == {h \in Heats : heats[h].state \in {"Racing", "Final"}}
Unfilled == {h \in Heats : heats[h].state = "Unknown"}
Filled == Scheduled \cup Raced
Rewriting == {e \in Editors : edits[e].pc = "rewriting"}

Init ==
    /\ round = FirstConfig /\ saved = FirstConfig
    /\ heats = [h \in Heats |->
                 [state |-> "Unknown", lineup |-> "roster", flies |-> FirstConfig.layouts[1],
                  bind |-> "untouched", seat |-> "plan"]]
    /\ onTimer = 0
    /\ standing \in Standings
    /\ drawn = NoDraw
    /\ held = Free
    /\ edits = [e \in Editors |-> NoEdit]
    /\ behind = {}
    /\ left = [edits |-> MaxEdits, choices |-> MaxChoices, faults |-> MaxFaults]

Spend(what) == left[what] > 0 /\ left' = [left EXCEPT ![what] = @ - 1]

------------------------------------------------------------------------------
(* The round engine: pure reads of the configuration and the log.          *)

\* A carried field is the recorded draw, once there is one.
Field(r) ==
    IF r.seeding = "roster" THEN "roster"
    ELSE IF drawn = NoDraw THEN standing ELSE drawn

\* A round's layouts go round its heats, in the order they were first scheduled.
DefaultLayout(r, h) == r.layouts[((h - 1) % Len(r.layouts)) + 1]

LayoutFor(r, h) ==
    IF heats[h].bind \in Layouts THEN heats[h].bind ELSE DefaultLayout(r, h)

\* The RD's decisions on top of the planned line-up.
Seated(h, seat, field) == IF seat = "plan" THEN field ELSE "manual"
Tuned(r, h, seat) == IF seat = "typed" THEN "typed" ELSE LayoutFor(r, h)

\* Mutant: a re-draw that takes the raced heats along.
RedrawnWithRaced(r, reached) ==
    [h \in Heats |->
       IF h \in reached \cup Raced
       THEN [heats[h] EXCEPT !.lineup = Seated(h, heats[h].seat, Field(r)),
                             !.flies = Tuned(r, h, heats[h].seat)]
       ELSE heats[h]]

\* The heats a re-draw reaches, seated and tuned by a configuration.
Redrawn(r, reached) ==
    [h \in Heats |->
       IF h \in reached
       THEN [heats[h] EXCEPT !.lineup = Seated(h, heats[h].seat, Field(r)),
                             !.flies = Tuned(r, h, heats[h].seat)]
       ELSE heats[h]]

\* A field resolved live and recorded nowhere.
Undrawn(r) == r.seeding = "carry" /\ drawn = NoDraw

------------------------------------------------------------------------------
(* FillRound: under the lock, off one read of the registry.                *)

\* The first heat of the plan the log does not have.
FirstUnfilled == {h \in Unfilled : \A other \in Unfilled : h <= other}

Drawing(r, h) ==
    [by |-> "fill", round |-> r, heat |-> h, field |-> Field(r), draws |-> Undrawn(r)]

FillRound ==
    /\ held = Free
    /\ round.defined
    /\ \E h \in FirstUnfilled : held' = Drawing(round, h)
    /\ UNCHANGED <<round, saved, heats, onTimer, standing, drawn, edits, behind, left>>

\* Fill-all reads the log again behind every heat, and the registry never; it
\* ends with the round, or with a heat it cannot plan or assign.
FillAgain ==
    /\ held.by = "refill"
    /\ \/ held' = Free
       \/ \E h \in FirstUnfilled : held' = Drawing(held.round, h)
    /\ UNCHANGED <<round, saved, heats, onTimer, standing, drawn, edits, behind, left>>

\* The first fill of a carried round records the field before the heat.
RecordDraw ==
    /\ held.by = "fill" /\ held.draws
    /\ drawn' = held.field
    /\ held' = [held EXCEPT !.draws = FALSE]
    /\ UNCHANGED <<round, saved, heats, onTimer, standing, edits, behind, left>>

\* Mutant: the heat goes first, the draw behind it.
ScheduleBeforeDraw ==
    /\ held.by = "fill" /\ heats[held.heat].state = "Unknown"
    /\ heats' = [heats EXCEPT ![held.heat] =
                   [@ EXCEPT !.state = "Scheduled",
                             !.lineup = Seated(held.heat, heats[held.heat].seat, held.field),
                             !.flies = Tuned(held.round, held.heat, heats[held.heat].seat)]]
    /\ held' = IF held.draws THEN held ELSE Free
    /\ behind' = IF held.round = round THEN behind \ {held.heat} ELSE behind
    /\ UNCHANGED <<round, saved, onTimer, standing, drawn, edits, left>>

ScheduleHeat ==
    /\ held.by = "fill" /\ ~held.draws
    /\ heats' = [heats EXCEPT ![held.heat] =
                   [@ EXCEPT !.state = "Scheduled",
                             !.lineup = Seated(held.heat, heats[held.heat].seat, held.field),
                             !.flies = Tuned(held.round, held.heat, heats[held.heat].seat)]]
    /\ held' \in {Free, [by |-> "refill", round |-> held.round]}
    /\ behind' = IF held.round = round THEN behind \ {held.heat} ELSE behind
    /\ UNCHANGED <<round, saved, onTimer, standing, drawn, edits, left>>

------------------------------------------------------------------------------
(* The heats' own commands.                                                *)

MoveTo(h, state) == heats' = [heats EXCEPT ![h].state = state] /\ onTimer' = h

\* Mutant: staging stamps the round's default over the bind.
StampDefault(h) ==
    /\ held = Free
    /\ h \in Scheduled
    /\ round.defined
    /\ heats' = [heats EXCEPT ![h].bind = DefaultLayout(round, h)]
    /\ held' = [by |-> "stage", heat |-> h]
    /\ UNCHANGED <<round, saved, onTimer, standing, drawn, edits, behind, left>>

\* Staging first records the layout the heat resolves to, unless one is bound.
StampLayout(h) ==
    /\ held = Free
    /\ h \in Scheduled
    /\ round.defined /\ heats[h].bind \notin Layouts
    /\ heats' = [heats EXCEPT ![h].bind = LayoutFor(round, h)]
    /\ held' = [by |-> "stage", heat |-> h]
    /\ UNCHANGED <<round, saved, onTimer, standing, drawn, edits, behind, left>>

\* A heat staged before the re-draw of an edit is not reached by it.
Overtakes(h) == behind' = IF Rewriting = {} THEN behind ELSE behind \cup {h}

StageStamped ==
    /\ held.by = "stage"
    /\ MoveTo(held.heat, "Racing")
    /\ held' = Free
    /\ Overtakes(held.heat)
    /\ UNCHANGED <<round, saved, standing, drawn, edits, left>>

\* A heat with a bind needs no stamp, and one of a removed round gets none.
Stage(h) ==
    /\ held = Free
    /\ h \in Scheduled
    /\ round.defined => heats[h].bind \in Layouts
    /\ MoveTo(h, "Racing")
    /\ Overtakes(h)
    /\ UNCHANGED <<round, saved, standing, drawn, held, edits, left>>

\* The log cannot be read for the stamp: the heat is staged without one.
StageUnstamped(h) ==
    /\ held = Free
    /\ h \in Scheduled
    /\ round.defined /\ heats[h].bind \notin Layouts
    /\ Spend("faults")
    /\ MoveTo(h, "Racing")
    /\ behind' = behind \cup {h}
    /\ UNCHANGED <<round, saved, standing, drawn, held, edits>>

\* The protest window finalizes off the lock; the RD's Finalize ends alike.
Finalize(h) ==
    /\ h \in Racing
    /\ MoveTo(h, "Final")
    /\ UNCHANGED <<round, saved, standing, drawn, held, edits, behind, left>>

Revert(h) ==
    /\ held = Free
    /\ heats[h].state = "Final"
    /\ MoveTo(h, "Racing")
    /\ UNCHANGED <<round, saved, standing, drawn, held, edits, behind, left>>

\* Abort, restart and discard put the heat back to where it may be re-tuned.
Reset(h) ==
    /\ held = Free
    /\ h \in Raced
    /\ MoveTo(h, "Scheduled")
    /\ UNCHANGED <<round, saved, standing, drawn, held, edits, behind, left>>

\* The RD loads a heat of this round, or of another.
SetCurrentHeat(h) ==
    /\ held = Free
    /\ h = 0 \/ h \notin Unfilled
    /\ h # onTimer
    /\ onTimer' = h
    /\ UNCHANGED <<round, saved, heats, standing, drawn, held, edits, behind, left>>

------------------------------------------------------------------------------
(* A heat's layout and seating set by hand: the choice first, the heat     *)
(* scheduled again behind it.                                              *)

Retunable(h) == held = Free /\ round.defined /\ h \in Scheduled

\* Binds one of the round's layouts, or clears the bind. A channel typed by hand
\* is overwritten by the layout's.
SetHeatLayout(h, bind) ==
    /\ Retunable(h)
    /\ bind = "cleared" \/ \E i \in DOMAIN round.layouts : round.layouts[i] = bind
    /\ Spend("choices")
    /\ heats' = [heats EXCEPT ![h].bind = bind]
    /\ held' = [by |-> "retune", heat |-> h, lineup |-> heats[h].lineup,
                flies |-> IF bind = "cleared" THEN DefaultLayout(round, h) ELSE bind]
    /\ UNCHANGED <<round, saved, onTimer, standing, drawn, edits, behind>>

\* The seating is recorded first. Clearing it forms the heat from the round's
\* plan again, off whatever the field is now.
RecordSeating(h, seat) ==
    /\ Retunable(h)
    /\ Spend("choices")
    /\ heats' = [heats EXCEPT ![h].seat = seat]
    /\ UNCHANGED <<round, saved, onTimer, standing, drawn, edits>>

OverrideHeatSeating(h, seat) ==
    /\ RecordSeating(h, seat)
    /\ held' = [by |-> "retune", heat |-> h, lineup |-> Seated(h, seat, Field(round)),
                flies |-> Tuned(round, h, seat)]
    /\ behind' = IF seat = "plan" /\ Undrawn(round) THEN behind \cup {h} ELSE behind

\* The pilots have no channels in the layout, or the plan no such heat: the
\* command is refused, or answers ok, with the choice on record and the heat as
\* it was. Channels typed by hand are assigned by nobody.
SeatingUnassigned(h, seat) ==
    /\ RecordSeating(h, seat)
    /\ seat # "typed"
    /\ behind' = behind \cup {h}
    /\ UNCHANGED held

Reschedule ==
    /\ held.by = "retune"
    /\ heats' = [heats EXCEPT ![held.heat].lineup = held.lineup,
                              ![held.heat].flies = held.flies]
    /\ held' = Free
    /\ UNCHANGED <<round, saved, onTimer, standing, drawn, edits, behind, left>>

\* An append fails, or the read before it: the command ends there, with what it
\* appended before on record - the draw, the stamp or the choice.
FailAppend ==
    /\ held.by \in {"fill", "stage", "retune"}
    /\ Spend("faults")
    /\ held' = Free
    /\ behind' = IF held.by = "retune" THEN behind \cup {held.heat} ELSE behind
    /\ UNCHANGED <<round, saved, heats, onTimer, standing, drawn, edits>>

------------------------------------------------------------------------------
(* An edit of the round: probe the log, write the registry, re-draw.       *)

\* A round with a heat racing, or loaded on the timer, cannot be edited.
InProgress == Racing # {} \/ onTimer \in Scheduled

\* The console asks for a configuration (its own but for the label, too), or
\* for the removal.
Removal == [FirstConfig EXCEPT !.defined = FALSE]
Wishes == Configs \cup {Removal}

Applied(from, to) == IF to.defined THEN to ELSE [from EXCEPT !.defined = FALSE]

Probe(e, to) ==
    /\ edits[e] = NoEdit
    /\ round.defined
    /\ ~InProgress
    /\ to.defined \/ Raced = {}
    /\ Spend("edits")
    /\ edits' = [edits EXCEPT ![e] = [pc |-> "probed", to |-> to, raced |-> Raced # {}]]
    /\ UNCHANGED <<round, saved, heats, onTimer, standing, drawn, held, behind>>

\* A log that cannot be read is a round with nothing raced, nothing in progress.
ProbeBlind(e, to) ==
    /\ edits[e] = NoEdit
    /\ round.defined
    /\ left.edits > 0 /\ left.faults > 0
    /\ left' = [left EXCEPT !.edits = @ - 1, !.faults = @ - 1]
    /\ edits' = [edits EXCEPT ![e] = [pc |-> "probed", to |-> to, raced |-> FALSE]]
    /\ UNCHANGED <<round, saved, heats, onTimer, standing, drawn, held, behind>>

\* What a raced round may no longer change. A removal was refused by its probe.
Frozen(from, to) == to.defined /\ to # from

Accepts(e) ==
    /\ edits[e].pc = "probed"
    /\ round.defined
    /\ ~(edits[e].raced /\ Frozen(round, edits[e].to))

\* Behind a removal, or a raced round with another configuration: refused.
RefuseEdit(e) ==
    /\ edits[e].pc = "probed"
    /\ ~Accepts(e)
    /\ edits' = [edits EXCEPT ![e] = NoEdit]
    /\ UNCHANGED <<round, saved, heats, onTimer, standing, drawn, held, behind, left>>

\* The heats raced by now that the probe did not see keep what they were drawn
\* from.
WriteRegistry(e) ==
    /\ Accepts(e)
    /\ round' = Applied(round, edits[e].to)
    /\ saved' = round'
    /\ edits' = [edits EXCEPT ![e] =
                   IF edits[e].to.defined THEN [pc |-> "rewriting", to |-> edits[e].to]
                   ELSE NoEdit]
    /\ behind' = IF edits[e].raced THEN behind ELSE behind \cup Raced
    /\ UNCHANGED <<heats, onTimer, standing, drawn, held, left>>

\* The disk refuses: memory has the edit already, the heats are left alone, and
\* so is what a fill under way reads of the round.
FailWrite(e) ==
    /\ Accepts(e)
    /\ Spend("faults")
    /\ round' = Applied(round, edits[e].to)
    /\ edits' = [edits EXCEPT ![e] = NoEdit]
    /\ behind' = IF round' = round THEN behind ELSE Heats
    /\ UNCHANGED <<saved, heats, onTimer, standing, drawn, held>>

\* A re-draw seats its heats for good if it works off the configuration the
\* registry holds, and off a recorded field.
Settles(r) == r = round /\ ~Undrawn(r)

\* Mutant: the re-draw runs without the command lock.
RewriteUnlocked(e) ==
    /\ edits[e].pc = "rewriting"
    /\ edits' = [edits EXCEPT ![e] = NoEdit]
    /\ \E reached \in SUBSET Scheduled :
         /\ heats' = Redrawn(edits[e].to, reached)
         /\ behind' = (behind \cup Scheduled)
                        \ (IF Settles(edits[e].to) THEN reached ELSE {})
    /\ UNCHANGED <<round, saved, onTimer, standing, drawn, held, left>>

\* The re-draw works off the configuration this edit wrote, whatever the
\* registry holds by now, and does what it can: a heat the plan does not have, or
\* without channels, or whose append fails, stays as it is, and all of them do if
\* the round cannot be planned or the log read. The edit stands either way.
RewriteHeats(e) ==
    /\ edits[e].pc = "rewriting"
    /\ held = Free
    /\ edits' = [edits EXCEPT ![e] = NoEdit]
    /\ \E reached \in SUBSET Scheduled :
         /\ heats' = Redrawn(edits[e].to, reached)
         /\ behind' = (behind \cup Scheduled)
                        \ (IF Settles(edits[e].to) THEN reached ELSE {})
    /\ UNCHANGED <<round, saved, onTimer, standing, drawn, held, left>>

------------------------------------------------------------------------------

\* A ruling, or a result, moves the ranking of the round this one carries from.
SourceMoves(ranking) ==
    /\ ranking # standing
    /\ standing' = ranking
    /\ UNCHANGED <<round, saved, heats, onTimer, drawn, held, edits, behind, left>>

\* The Director starts again from what is on disk; the log is all there.
Crash ==
    /\ Spend("faults")
    /\ round' = saved
    /\ held' = Free
    /\ edits' = [e \in Editors |-> NoEdit]
    /\ behind' = behind \cup (IF saved # round \/ Rewriting # {} THEN Filled
                               ELSE IF held.by = "retune" THEN {held.heat} ELSE {})
    /\ UNCHANGED <<saved, heats, onTimer, standing, drawn>>

FillStep == FillRound \/ FillAgain \/ RecordDraw \/ ScheduleHeat

HeatStep ==
    \/ StageStamped
    \/ \E h \in Heats : \/ StampLayout(h) \/ Stage(h) \/ StageUnstamped(h)
                        \/ Finalize(h) \/ Revert(h) \/ Reset(h)
    \/ \E h \in Heats \cup {0} : SetCurrentHeat(h)

ChoiceStep ==
    \/ Reschedule \/ FailAppend
    \/ \E h \in Heats :
         \/ \E bind \in Layouts \cup {"cleared"} : SetHeatLayout(h, bind)
         \/ \E seat \in {"plan", "pilots", "typed"} :
              OverrideHeatSeating(h, seat) \/ SeatingUnassigned(h, seat)

EditStep ==
    \E e \in Editors :
       \/ \E to \in Wishes : Probe(e, to) \/ ProbeBlind(e, to)
       \/ RefuseEdit(e) \/ WriteRegistry(e) \/ FailWrite(e) \/ RewriteHeats(e)

Next ==
    \/ FillStep \/ HeatStep \/ ChoiceStep \/ EditStep
    \/ \E ranking \in Standings : SourceMoves(ranking)
    \/ Crash

Spec == Init /\ [][Next]_vars

------------------------------------------------------------------------------
(* Properties.                                                             *)

\* A heat past Scheduled keeps its line-up, its channels, its layout and its
\* seating: no edit of the round, fill or choice in flight while it was staged
\* reaches it (apply_heat_decisions asserts it).
FlownKept ==
    \A h \in Raced :
       /\ heats'[h].lineup = heats[h].lineup /\ heats'[h].flies = heats[h].flies
       /\ heats'[h].bind = heats[h].bind /\ heats'[h].seat = heats[h].seat
KeepsWhatItFlew == [][FlownKept]_vars

Quiet == Rewriting = {} /\ held.by # "retune"

\* With no edit or choice under way, a heat still to race is seated by its round
\* or by the RD, and tuned to the layout bound to it or to its round's, however
\* edits, fills, choices and aborts interleaved: every heat but those that a
\* failure, a best-effort re-draw or another edit left behind.
ScheduledFollowsRound ==
    Quiet /\ round.defined =>
      \A h \in Scheduled \ behind :
         /\ heats[h].lineup = Seated(h, heats[h].seat, Field(round))
         /\ heats[h].seat # "typed" => heats[h].flies = LayoutFor(round, h)

\* The layout staging stamps on a heat is the one that tuned it, unless the heat
\* was left behind.
StampedAsFlown ==
    round.defined =>
      \A h \in Raced \ behind : heats[h].seat # "typed" => heats[h].bind = heats[h].flies

\* Once a carried round has a heat that was not left behind (a re-draw off the
\* live ranking leaves its heats behind: it records no draw), and no edit or
\* choice is under way, nothing the source round does, and no crash behind the
\* draw, changes whom the round is for.
FieldKept ==
    /\ ~(Filled \subseteq behind) /\ Quiet /\ round.defined
    /\ round.seeding = "carry" /\ round'.seeding = "carry"
    => Field(round)' = Field(round)
FieldStands == [][FieldKept]_vars

\* What round_field_at says of a carried field: once the round has raced off it,
\* a ruling on the source changes it no more.
RacedFieldStands ==
    [][(/\ \E h \in Raced : heats[h].lineup \in Standings
        /\ round.seeding = "carry" /\ round'.seeding = "carry") => Field(round)' = Field(round)]_vars
==============================================================================
