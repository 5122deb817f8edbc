----------------------------- MODULE RoundsProofs ----------------------------
(***************************************************************************)
(* A raced heat keeps what it flew, and a carried round keeps its field: by *)
(* one invariant, of the records' own shape, of what the command that holds *)
(* the lock has read (LockTells), and of when the draw must be in the log   *)
(* (DrawTells).  A second one (FollowTells), on top of it, says of each     *)
(* multi-append command what it has left to do: a heat still to fly follows *)
(* its round, and a heat staged flew what was stamped, unless an edit, a    *)
(* failure or the RD's own choice left it behind.                           *)
(***************************************************************************)
EXTENDS Rounds, TLAPS

HeatFields == {"state", "lineup", "flies", "bind", "seat"}
ProbeFields == {"pc", "to", "raced"}
FillFields == {"by", "round", "heat", "field", "draws"}

Shape ==
    /\ round \in Shapes /\ saved \in Shapes /\ standing \in Standings
    /\ DOMAIN heats = Heats /\ \A h \in Heats : DOMAIN heats[h] = HeatFields
    /\ DOMAIN edits = Editors
    /\ \A e \in Editors : edits[e].pc = "probed" =>
         DOMAIN edits[e] = ProbeFields /\ edits[e].to \in Shapes
    /\ held.by = "fill" => DOMAIN held = FillFields

\* The heat a holder of the lock works on is still where it read it.
LockTells ==
    /\ held.by = "fill" => heats[held.heat].state = "Unknown"
    /\ held.by \in {"retune", "stage"} => held.heat \in Scheduled

\* A fill works off the round as it is, or its heat is behind; a carried round's
\* heats stand on a recorded draw, but for those behind.
DrawTells ==
    /\ held.by = "fill" /\ held.draws => drawn = NoDraw /\ held.field \in Standings
    /\ held.by = "fill" /\ ~held.draws /\ held.round.seeding = "carry" => drawn # NoDraw
    /\ held.by \in {"fill", "refill"} /\ Rewriting = {} /\ round.defined /\ held.round # round
         => Unfilled \subseteq behind
    /\ /\ round.defined /\ round.seeding = "carry"
       /\ ~(Raced \subseteq behind) \/ (Rewriting = {} /\ ~(Scheduled \subseteq behind))
       => drawn # NoDraw

IInv == Shape /\ LockTells /\ DrawTells

Kept == IInv' /\ FlownKept /\ FieldKept

------------------------------------------------------------------------------
\* Heats in the same phases are raced, or to race, alike.
LEMMA SamePhases ==
    ASSUME \A h \in Heats : heats'[h].state = heats[h].state
    PROVE  Raced' = Raced /\ Scheduled' = Scheduled /\ Unfilled' = Unfilled
BY DEF Raced, Scheduled, Unfilled

\* A step that leaves the round and the draw alone keeps the field.
LEMMA SameRound ==
    ASSUME UNCHANGED <<round, drawn>>, standing' = standing
    PROVE  FieldKept
BY DEF FieldKept, Field

\* The initial states.
LEMMA InitInv == Init => IInv
<1> SUFFICES ASSUME Init PROVE IInv  OBVIOUS
<1> USE DEF Init
<1>1. FirstConfig \in Shapes  BY ConfigsAssumption
<1>2. \A h \in Heats : heats[h].state = "Unknown"  OBVIOUS
<1>3. Raced = {} /\ Scheduled = {}  BY <1>2 DEF Raced, Scheduled
<1>4. held.by = "free"  BY DEF Free
<1>5. \A e \in Editors : edits[e].pc = "idle"  BY DEF NoEdit
<1>6. Shape  BY <1>1, <1>4, <1>5 DEF Shape, HeatFields
<1> QED  BY <1>3, <1>4, <1>6 DEF IInv, LockTells, DrawTells

------------------------------------------------------------------------------
(* The fill.                                                               *)

\* A fill reads an unfilled heat, and a field it will record or has on record.
Reads(d, r) ==
    /\ d.by = "fill" /\ d.round = r /\ DOMAIN d = FillFields
    /\ heats[d.heat].state = "Unknown"
    /\ d.draws => drawn = NoDraw /\ d.field \in Standings
    /\ ~d.draws /\ r.seeding = "carry" => drawn # NoDraw
LEMMA DrawingReads ==
    ASSUME Shape, NEW r, NEW h \in FirstUnfilled
    PROVE  Reads(Drawing(r, h), r)
<1> DEFINE d == Drawing(r, h)
<1>1. d.by = "fill" /\ d.round = r /\ d.heat = h /\ d.field = Field(r)
        /\ d.draws = Undrawn(r) /\ DOMAIN d = FillFields
  BY DEF Drawing, FillFields
<1>2. heats[h].state = "Unknown"  BY DEF FirstUnfilled, Unfilled
<1>3. Undrawn(r) => drawn = NoDraw /\ Field(r) \in Standings
  BY DEF Undrawn, Field, Shape
<1>4. ~Undrawn(r) /\ r.seeding = "carry" => drawn # NoDraw
  BY DEF Undrawn
<1> HIDE DEF d
<1>5. Reads(d, r)  BY <1>1, <1>2, <1>3, <1>4 DEF Reads
<1> QED  BY <1>5 DEF d

\* What a fill does first touches nothing but the lock.
OnlyHeld ==
    /\ UNCHANGED <<round, saved, heats, onTimer, standing, drawn, edits>>
    /\ behind \subseteq behind'
LEMMA FillReads ==
    ASSUME IInv, OnlyHeld, NEW r, Reads(held', r),
           Rewriting = {} /\ round.defined /\ r # round => Unfilled \subseteq behind
    PROVE  Kept
<1> USE DEF OnlyHeld
<1>1. Raced' = Raced /\ Scheduled' = Scheduled /\ Unfilled' = Unfilled
  BY DEF Raced, Scheduled, Unfilled
<1>2. Rewriting' = Rewriting  BY DEF Rewriting
<1>3. Shape' /\ LockTells'  BY DEF IInv, Shape, LockTells, Reads
<1>4. DrawTells'  BY <1>1, <1>2 DEF IInv, DrawTells, Reads
<1>5. FieldKept  BY SameRound
<1> QED  BY <1>3, <1>4, <1>5 DEF Kept, IInv, FlownKept

LEMMA FillRoundKeeps == ASSUME IInv, FillRound PROVE Kept
<1>1. OnlyHeld  BY DEF FillRound, OnlyHeld
<1>2. PICK h \in FirstUnfilled : held' = Drawing(round, h)  BY DEF FillRound
<1>3. Reads(held', round)  BY <1>2, DrawingReads DEF IInv
<1> QED  BY <1>1, <1>3, FillReads

\* The lock is let go.
LEMMA Released ==
    ASSUME IInv, held' = Free, OnlyHeld
    PROVE  Kept
<1> USE DEF OnlyHeld
<1>1. held'.by = "free"  BY DEF Free
<1>2. Raced' = Raced /\ Scheduled' = Scheduled  BY DEF Raced, Scheduled
<1>3. Rewriting' = Rewriting  BY DEF Rewriting
<1>4. Shape' /\ LockTells'  BY <1>1 DEF IInv, Shape, LockTells
<1>5. DrawTells'  BY <1>1, <1>2, <1>3 DEF IInv, DrawTells
<1>6. FieldKept  BY SameRound
<1> QED  BY <1>4, <1>5, <1>6 DEF Kept, IInv, FlownKept

LEMMA FillAgainKeeps == ASSUME IInv, FillAgain PROVE Kept
<1>1. OnlyHeld  BY DEF FillAgain, OnlyHeld
<1>2. CASE held' = Free  BY <1>1, <1>2, Released
<1>3. CASE \E h \in FirstUnfilled : held' = Drawing(held.round, h)
  <2>1. PICK h \in FirstUnfilled : held' = Drawing(held.round, h)  BY <1>3
  <2>2. Reads(held', held.round)  BY <2>1, DrawingReads DEF IInv
  <2>3. held.by = "refill"  BY DEF FillAgain
  <2>4. Rewriting = {} /\ round.defined /\ held.round # round => Unfilled \subseteq behind
    BY <2>3 DEF IInv, DrawTells
  <2> QED  BY <1>1, <2>2, <2>4, FillReads
<1> QED  BY <1>2, <1>3 DEF FillAgain

LEMMA RecordDrawKeeps == ASSUME IInv, RecordDraw PROVE Kept
<1> USE DEF RecordDraw
<1>1. Raced' = Raced /\ Scheduled' = Scheduled /\ Unfilled' = Unfilled
  BY DEF Raced, Scheduled, Unfilled
<1>2. Rewriting' = Rewriting  BY DEF Rewriting
<1>3. held.by = "fill" /\ held.draws /\ DOMAIN held = FillFields  BY DEF IInv, Shape
<1>4. held'.by = "fill" /\ ~held'.draws /\ held'.round = held.round
        /\ held'.heat = held.heat /\ DOMAIN held' = FillFields
  BY <1>3 DEF FillFields
<1>5. drawn = NoDraw /\ drawn' \in Standings  BY <1>3 DEF IInv, DrawTells
<1>6. drawn' # NoDraw  BY <1>5, ValuesAssumption DEF NoDraw
<1>7. Shape' /\ LockTells'  BY <1>4 DEF IInv, Shape, LockTells
<1>8. DrawTells'  BY <1>1, <1>2, <1>3, <1>4, <1>6 DEF IInv, DrawTells
<1>9. FieldKept
  <2> SUFFICES ASSUME ~(Filled \subseteq behind), Quiet, round.defined,
                      round.seeding = "carry"
               PROVE  FALSE
    BY DEF FieldKept
  <2>1. drawn # NoDraw  BY DEF IInv, DrawTells, Quiet, Filled
  <2> QED  BY <1>5, <2>1
<1>10. FlownKept  BY DEF FlownKept
<1> QED  BY <1>7, <1>8, <1>9, <1>10 DEF Kept, IInv

LEMMA ScheduleHeatKeeps == ASSUME IInv, ScheduleHeat PROVE Kept
<1>0. PICK g : g = held.heat  OBVIOUS
<1> DEFINE r == [heats[g] EXCEPT !.state = "Scheduled",
                   !.lineup = Seated(g, heats[g].seat, held.field),
                   !.flies = Tuned(held.round, g, heats[g].seat)]
<1>1. held.by = "fill" /\ ~held.draws /\ heats' = [heats EXCEPT ![g] = r]
      /\ held' \in {Free, [by |-> "refill", round |-> held.round]}
      /\ behind' = (IF held.round = round THEN behind \ {g} ELSE behind)
      /\ UNCHANGED <<round, saved, onTimer, standing, drawn, edits>>
  BY <1>0 DEF ScheduleHeat
<1>2. heats[g].state = "Unknown"  BY <1>0, <1>1 DEF IInv, LockTells
<1>3. g \in Heats => DOMAIN r = HeatFields /\ r.state = "Scheduled"
  BY DEF IInv, Shape, HeatFields
<1> HIDE DEF r
<1>4. DOMAIN heats = Heats  BY DEF IInv, Shape
<1>5. \A h \in Heats : h # g => heats'[h] = heats[h]  BY <1>1, <1>4
<1>6. g \in Heats => heats'[g] = r  BY <1>1, <1>4
<1>7. DOMAIN heats' = Heats /\ \A h \in Heats : DOMAIN heats'[h] = HeatFields
  BY <1>1, <1>3, <1>4, <1>5, <1>6 DEF IInv, Shape
<1>8. Raced' = Raced /\ g \notin Raced  BY <1>2, <1>3, <1>5, <1>6 DEF Raced
<1>9. /\ Scheduled' \subseteq Scheduled \cup {g}
      /\ Unfilled' = Unfilled \ {g} /\ (g \in Heats => g \in Unfilled)
  BY <1>2, <1>3, <1>5, <1>6 DEF Scheduled, Unfilled
<1>10. Rewriting' = Rewriting  BY <1>1 DEF Rewriting
<1>11. held'.by \in {"free", "refill"} /\ (held'.by = "refill" => held'.round = held.round)
  BY <1>1 DEF Free
<1>12. Shape' /\ LockTells'  BY <1>1, <1>7, <1>11 DEF IInv, Shape, LockTells
<1>13. DrawTells'
  <2>1. held'.by = "refill" /\ Rewriting' = {} /\ round'.defined /\ held'.round # round'
          => Unfilled' \subseteq behind'
    BY <1>1, <1>9, <1>10, <1>11 DEF IInv, DrawTells
  <2>2. ASSUME round'.defined, round'.seeding = "carry", ~(Raced' \subseteq behind')
        PROVE  drawn' # NoDraw
    BY <1>1, <1>8, <2>2 DEF IInv, DrawTells
  <2>3. ASSUME round'.defined, round'.seeding = "carry", Rewriting' = {},
               ~(Scheduled' \subseteq behind')
        PROVE  drawn' # NoDraw
    <3>1. CASE held.round = round  BY <1>1, <2>3, <3>1 DEF IInv, DrawTells
    <3>2. CASE held.round # round
      <4>1. Unfilled \subseteq behind
        BY <1>1, <1>10, <2>3, <3>2 DEF IInv, DrawTells
      <4>2. g \in Heats => g \in behind  BY <1>9, <4>1
      <4>3. ~(Scheduled \subseteq behind)
        BY <1>1, <1>9, <2>3, <3>2, <4>2 DEF Scheduled
      <4> QED  BY <1>1, <1>10, <2>3, <4>3 DEF IInv, DrawTells
    <3> QED  BY <3>1, <3>2
  <2> QED  BY <1>11, <2>1, <2>2, <2>3 DEF DrawTells
<1>14. FlownKept  BY <1>5, <1>8 DEF FlownKept, Raced
<1>15. FieldKept  BY <1>1, SameRound
<1> QED  BY <1>12, <1>13, <1>14, <1>15 DEF Kept, IInv

------------------------------------------------------------------------------
(* The heats' commands.                                                    *)

\* What a heat that changes its phase leaves alone.
LEMMA MoveShape ==
    ASSUME IInv, NEW g \in Heats, NEW s, MoveTo(g, s)
    PROVE  /\ \A h \in Heats : h # g => heats'[h] = heats[h]
           /\ heats'[g].state = s /\ heats'[g].lineup = heats[g].lineup
           /\ heats'[g].flies = heats[g].flies /\ heats'[g].bind = heats[g].bind
           /\ heats'[g].seat = heats[g].seat
           /\ DOMAIN heats' = Heats /\ \A h \in Heats : DOMAIN heats'[h] = HeatFields
<1> DEFINE r == [heats[g] EXCEPT !.state = s]
<1>1. heats' = [heats EXCEPT ![g] = r] /\ DOMAIN heats = Heats
  BY DEF MoveTo, IInv, Shape
<1>2. /\ r.state = s /\ r.lineup = heats[g].lineup /\ r.flies = heats[g].flies
      /\ r.bind = heats[g].bind /\ r.seat = heats[g].seat /\ DOMAIN r = HeatFields
  BY DEF IInv, Shape, HeatFields
<1> HIDE DEF r
<1> QED  BY <1>1, <1>2 DEF IInv, Shape

\* A heat that moves while no fill holds the lock, or from a phase a fill or a
\* choice does not work on.
LEMMA MoveKeeps ==
    ASSUME IInv, NEW g \in Heats, NEW s \in {"Scheduled", "Racing", "Final"}, MoveTo(g, s),
           UNCHANGED <<round, saved, standing, drawn, edits>>,
           held' = Free \/ (held' = held /\ g \in Raced /\ s # "Scheduled"),
           behind \subseteq behind',
           g \in Scheduled => Rewriting = {} \/ g \in behind',
           g \in Raced \/ (g \in Scheduled /\ s # "Scheduled")
    PROVE  Kept
<1>1. /\ \A h \in Heats : h # g => heats'[h] = heats[h]
      /\ heats'[g].state = s /\ heats'[g].lineup = heats[g].lineup
      /\ heats'[g].flies = heats[g].flies /\ heats'[g].bind = heats[g].bind
      /\ heats'[g].seat = heats[g].seat
      /\ DOMAIN heats' = Heats /\ \A h \in Heats : DOMAIN heats'[h] = HeatFields
  BY MoveShape
<1>2. Rewriting' = Rewriting  BY DEF Rewriting
<1>3. Free.by = "free"  BY DEF Free
<1>4. Shape'  BY <1>1, <1>3 DEF IInv, Shape
<1>5. heats[g].state \in {"Scheduled", "Racing", "Final"}  BY DEF Raced, Scheduled
<1>6. LockTells'
  <2>1. CASE held' = Free  BY <2>1, <1>3 DEF LockTells
  <2>2. CASE held' = held /\ g \in Raced
    <3>1. heats[g].state \in {"Racing", "Final"}  BY <2>2 DEF Raced
    <3>2. held.by = "fill" => heats'[held.heat].state = "Unknown"
      <4> SUFFICES ASSUME held.by = "fill" PROVE heats'[held.heat].state = "Unknown"
        OBVIOUS
      <4>1. heats[held.heat].state = "Unknown"  BY DEF IInv, LockTells
      <4>2. held.heat # g  BY <4>1, <3>1
      <4>3. heats'[held.heat] = heats[held.heat]  BY <4>2 DEF MoveTo, IInv, Shape
      <4> QED  BY <4>1, <4>3
    <3>3. held.by \in {"retune", "stage"} => held.heat \in Scheduled'
      BY <3>1, <1>1 DEF IInv, LockTells, Scheduled
    <3> QED  BY <2>2, <3>2, <3>3 DEF LockTells
  <2> QED  BY <2>1, <2>2
<1>7. /\ Raced' \subseteq Raced \cup {g} /\ Scheduled' \subseteq Scheduled \cup {g}
      /\ Unfilled' \subseteq Unfilled
  BY <1>1, <1>5 DEF Raced, Scheduled, Unfilled
<1>8. g \in Scheduled' => g \in Raced  BY <1>1 DEF Scheduled
<1>9. DrawTells'
  <2>1. /\ held'.by = "fill" /\ held'.draws => drawn = NoDraw /\ held'.field \in Standings
        /\ held'.by = "fill" /\ ~held'.draws /\ held'.round.seeding = "carry" => drawn # NoDraw
        /\ held'.by \in {"fill", "refill"} /\ Rewriting = {} /\ round.defined
             /\ held'.round # round => Unfilled' \subseteq behind'
    BY <1>3, <1>7 DEF IInv, DrawTells
  <2>2. ASSUME round.defined, round.seeding = "carry", NEW h \in Raced', h \notin behind'
        PROVE  drawn # NoDraw
    <3>1. CASE h \in Raced  BY <2>2, <3>1 DEF IInv, DrawTells
    <3>2. CASE h \notin Raced
      <4>1. h = g /\ g \in Scheduled  BY <1>7, <3>2
      <4> QED  BY <2>2, <4>1 DEF IInv, DrawTells
    <3> QED  BY <3>1, <3>2
  <2>3. ASSUME round.defined, round.seeding = "carry", Rewriting = {},
               NEW h \in Scheduled', h \notin behind'
        PROVE  drawn # NoDraw
    BY <1>7, <1>8, <2>3 DEF IInv, DrawTells
  <2> QED  BY <1>2, <2>1, <2>2, <2>3 DEF DrawTells
<1>10. FlownKept  BY <1>1 DEF FlownKept, Raced
<1>11. FieldKept  BY SameRound
<1> QED  BY <1>4, <1>6, <1>9, <1>10, <1>11 DEF Kept, IInv

LEMMA StageKeeps == ASSUME IInv, NEW h \in Heats, Stage(h) PROVE Kept
<1>1. h \in Scheduled /\ held' = held /\ held = Free
      /\ MoveTo(h, "Racing") /\ UNCHANGED <<round, saved, standing, drawn, edits>>
      /\ behind \subseteq behind' /\ (Rewriting = {} \/ h \in behind')
  BY DEF Stage, Overtakes
<1> QED  BY <1>1, MoveKeeps

LEMMA StageUnstampedKeeps == ASSUME IInv, NEW h \in Heats, StageUnstamped(h) PROVE Kept
<1>1. h \in Scheduled /\ held' = held /\ held = Free
      /\ MoveTo(h, "Racing") /\ UNCHANGED <<round, saved, standing, drawn, edits>>
      /\ behind \subseteq behind' /\ h \in behind'
  BY DEF StageUnstamped
<1> QED  BY <1>1, MoveKeeps

LEMMA StageStampedKeeps == ASSUME IInv, StageStamped PROVE Kept
<1>0. held.heat \in Scheduled  BY DEF IInv, LockTells, StageStamped
<1>1. held.heat \in Heats /\ held' = Free
      /\ MoveTo(held.heat, "Racing") /\ UNCHANGED <<round, saved, standing, drawn, edits>>
      /\ behind \subseteq behind' /\ (Rewriting = {} \/ held.heat \in behind')
  BY <1>0 DEF StageStamped, Scheduled, Overtakes
<1> QED  BY <1>0, <1>1, MoveKeeps

LEMMA FinalizeKeeps == ASSUME IInv, NEW h \in Heats, Finalize(h) PROVE Kept
<1>1. h \in Raced /\ held' = held /\ MoveTo(h, "Final")
      /\ UNCHANGED <<round, saved, standing, drawn, edits, behind>> /\ h \notin Scheduled
  BY DEF Finalize, Racing, Raced, Scheduled
<1> QED  BY <1>1, MoveKeeps

LEMMA RevertKeeps == ASSUME IInv, NEW h \in Heats, Revert(h) PROVE Kept
<1>1. h \in Raced /\ held' = held /\ held = Free /\ MoveTo(h, "Racing")
      /\ UNCHANGED <<round, saved, standing, drawn, edits, behind>> /\ h \notin Scheduled
  BY DEF Revert, Raced, Scheduled
<1> QED  BY <1>1, MoveKeeps

LEMMA ResetKeeps == ASSUME IInv, NEW h \in Heats, Reset(h) PROVE Kept
<1>1. h \in Raced /\ held' = held /\ held = Free /\ MoveTo(h, "Scheduled")
      /\ UNCHANGED <<round, saved, standing, drawn, edits, behind>> /\ h \notin Scheduled
  BY DEF Reset, Raced, Scheduled
<1> QED  BY <1>1, MoveKeeps

------------------------------------------------------------------------------
(* Choices: no heat changes its phase.                                     *)

\* One field of a heat changes, and not its phase.
Retouched(g, r) ==
    /\ heats' = [heats EXCEPT ![g] = r]
    /\ r.state = heats[g].state /\ DOMAIN r = HeatFields

LEMMA RetouchedKeeps ==
    ASSUME IInv, NEW g \in Heats, g \in Scheduled, NEW r, Retouched(g, r),
           UNCHANGED <<round, saved, standing, drawn, edits>>, behind \subseteq behind',
           held' = Free \/ (held'.by \in {"retune", "stage"} /\ held'.heat = g)
    PROVE  Kept
<1>1. DOMAIN heats = Heats  BY DEF IInv, Shape
<1>2. heats'[g] = r /\ \A h \in Heats : h # g => heats'[h] = heats[h]
  BY <1>1 DEF Retouched
<1>3. \A h \in Heats : heats'[h].state = heats[h].state
  BY <1>2 DEF Retouched
<1>4. Raced' = Raced /\ Scheduled' = Scheduled  BY <1>3, SamePhases
<1>5. Rewriting' = Rewriting  BY DEF Rewriting
<1>6. held'.by \notin {"fill", "refill"}  BY DEF Free
<1>7. Shape'  BY <1>1, <1>2, <1>6 DEF IInv, Shape, Retouched
<1>8. LockTells'  BY <1>4, <1>6 DEF LockTells, Free
<1>9. DrawTells'  BY <1>4, <1>5, <1>6 DEF IInv, DrawTells
<1>10. FlownKept  BY <1>2 DEF FlownKept, Raced, Scheduled
<1>11. FieldKept  BY SameRound
<1> QED  BY <1>7, <1>8, <1>9, <1>10, <1>11 DEF Kept, IInv

LEMMA StampLayoutKeeps == ASSUME IInv, NEW h \in Heats, StampLayout(h) PROVE Kept
<1> DEFINE r == [heats[h] EXCEPT !.bind = LayoutFor(round, h)]
<1>1. r.state = heats[h].state /\ DOMAIN r = HeatFields
  BY DEF IInv, Shape, HeatFields
<1>2. Retouched(h, r)  BY <1>1 DEF StampLayout, Retouched, IInv, Shape
<1> HIDE DEF r
<1>3. held'.by = "stage" /\ held'.heat = h  BY DEF StampLayout
<1> QED  BY <1>2, <1>3, RetouchedKeeps DEF StampLayout

LEMMA SetHeatLayoutKeeps ==
    ASSUME IInv, NEW h \in Heats, NEW bind, SetHeatLayout(h, bind) PROVE Kept
<1> DEFINE r == [heats[h] EXCEPT !.bind = bind]
<1>1. r.state = heats[h].state /\ DOMAIN r = HeatFields
  BY DEF IInv, Shape, HeatFields
<1>2. Retouched(h, r)  BY <1>1 DEF SetHeatLayout, Retouched, IInv, Shape
<1> HIDE DEF r
<1>3. held'.by = "retune" /\ held'.heat = h  BY DEF SetHeatLayout
<1> QED  BY <1>2, <1>3, RetouchedKeeps DEF SetHeatLayout, Retunable

LEMMA OverrideHeatSeatingKeeps ==
    ASSUME IInv, NEW h \in Heats, NEW seat,
           OverrideHeatSeating(h, seat) \/ SeatingUnassigned(h, seat)
    PROVE  Kept
<1> DEFINE r == [heats[h] EXCEPT !.seat = seat]
<1>1. r.state = heats[h].state /\ DOMAIN r = HeatFields
  BY DEF IInv, Shape, HeatFields
<1>2. /\ h \in Scheduled /\ held = Free /\ heats' = [heats EXCEPT ![h] = r]
      /\ UNCHANGED <<round, saved, standing, drawn, edits>>
  BY DEF OverrideHeatSeating, SeatingUnassigned, RecordSeating, Retunable, IInv, Shape
<1>3. Retouched(h, r)  BY <1>1, <1>2 DEF Retouched
<1> HIDE DEF r
<1>4. held' = Free \/ (held'.by = "retune" /\ held'.heat = h)
  BY <1>2 DEF OverrideHeatSeating, SeatingUnassigned
<1>5. behind \subseteq behind'  BY DEF OverrideHeatSeating, SeatingUnassigned
<1> QED  BY <1>2, <1>3, <1>4, <1>5, RetouchedKeeps

LEMMA RescheduleKeeps == ASSUME IInv, Reschedule PROVE Kept
<1> DEFINE g == held.heat
           r == [heats[g] EXCEPT !.lineup = held.lineup, !.flies = held.flies]
<1>1. g \in Scheduled /\ g \in Heats  BY DEF Reschedule, IInv, LockTells, Scheduled
<1>2. r.state = heats[g].state /\ DOMAIN r = HeatFields
  BY <1>1 DEF IInv, Shape, HeatFields
<1>3. heats' = [heats EXCEPT ![g] = r]
  BY <1>1 DEF Reschedule, IInv, Shape
<1>4. Retouched(g, r)  BY <1>2, <1>3 DEF Retouched
<1> HIDE DEF r, g
<1> QED  BY <1>1, <1>4, RetouchedKeeps DEF Reschedule

\* A command that ends at a failing append lets go of the lock.
LEMMA FailAppendKeeps == ASSUME IInv, FailAppend PROVE Kept
<1>1. held' = Free /\ OnlyHeld  BY DEF FailAppend, OnlyHeld
<1> QED  BY <1>1, Released

------------------------------------------------------------------------------
(* Edits.                                                                  *)

\* An edit of one console leaves the heats, the draw and the lock alone.
OneEdit(e, d) ==
    /\ edits' = [edits EXCEPT ![e] = d]
    /\ UNCHANGED <<heats, standing, drawn, held>>

LEMMA OneEditKeeps ==
    ASSUME IInv, NEW e \in Editors, NEW d, OneEdit(e, d),
           d.pc = "probed" => DOMAIN d = ProbeFields /\ d.to \in Shapes,
           round' \in Shapes, saved' \in Shapes
    PROVE  Shape' /\ LockTells' /\ FlownKept
             /\ Raced' = Raced /\ Scheduled' = Scheduled /\ Unfilled' = Unfilled
<1> USE DEF OneEdit
<1>1. edits'[e] = d /\ \A f \in Editors : f # e => edits'[f] = edits[f]
  BY DEF IInv, Shape
<1>2. Raced' = Raced /\ Scheduled' = Scheduled /\ Unfilled' = Unfilled
  BY DEF Raced, Scheduled, Unfilled
<1>3. Shape'  BY <1>1 DEF IInv, Shape
<1>4. LockTells'  BY <1>2 DEF IInv, LockTells
<1> QED  BY <1>2, <1>3, <1>4 DEF FlownKept

\* A step of an edit that writes nothing.
LEMMA UnwrittenKeeps ==
    ASSUME IInv, NEW e \in Editors, NEW d, OneEdit(e, d),
           d.pc = "probed" => DOMAIN d = ProbeFields /\ d.to \in Shapes,
           d.pc # "rewriting", edits[e].pc # "rewriting", UNCHANGED <<round, saved, behind>>
    PROVE  Kept
<1>1. /\ Shape' /\ LockTells' /\ FlownKept
      /\ Raced' = Raced /\ Scheduled' = Scheduled /\ Unfilled' = Unfilled
  BY OneEditKeeps DEF IInv, Shape
<1>2. edits' = [edits EXCEPT ![e] = d] /\ UNCHANGED <<standing, drawn, held>>
  BY DEF OneEdit
<1>3. Rewriting' = Rewriting  BY <1>2 DEF Rewriting, IInv, Shape
<1>4. DrawTells'  BY <1>1, <1>2, <1>3 DEF IInv, DrawTells
<1>5. FieldKept  BY <1>2, SameRound
<1> QED  BY <1>1, <1>4, <1>5 DEF Kept, IInv

LEMMA ProbeKeeps ==
    ASSUME IInv, NEW e \in Editors, NEW to \in Wishes, Probe(e, to) \/ ProbeBlind(e, to)
    PROVE  Kept
<1>0. PICK seen \in BOOLEAN :
        edits' = [edits EXCEPT ![e] = [pc |-> "probed", to |-> to, raced |-> seen]]
  BY DEF Probe, ProbeBlind
<1> DEFINE d == [pc |-> "probed", to |-> to, raced |-> seen]
<1>1. edits[e].pc = "idle"
      /\ UNCHANGED <<round, saved, heats, standing, drawn, held, behind>>
  BY DEF Probe, ProbeBlind, NoEdit
<1>2. to \in Shapes  BY ConfigsAssumption DEF Wishes, Removal, Shapes
<1>3. d.pc = "probed" /\ d.to = to /\ DOMAIN d = ProbeFields  BY DEF ProbeFields
<1>4. edits' = [edits EXCEPT ![e] = d]  BY <1>0
<1> HIDE DEF d
<1>5. OneEdit(e, d)  BY <1>1, <1>4 DEF OneEdit
<1> QED  BY <1>1, <1>2, <1>3, <1>5, UnwrittenKeeps

LEMMA RefuseEditKeeps == ASSUME IInv, NEW e \in Editors, RefuseEdit(e) PROVE Kept
<1>1. edits' = [edits EXCEPT ![e] = NoEdit] /\ edits[e].pc = "probed" /\ NoEdit.pc = "idle"
      /\ UNCHANGED <<round, saved, heats, standing, drawn, held, behind>>
  BY DEF RefuseEdit, NoEdit
<1>2. OneEdit(e, NoEdit)  BY <1>1 DEF OneEdit
<1> QED  BY <1>1, <1>2, UnwrittenKeeps

\* What an accepted edit makes of the round: one its probe saw raced comes out
\* as it went in, or removed.
LEMMA AcceptedEdit ==
    ASSUME IInv, NEW e \in Editors, Accepts(e)
    PROVE  LET to == edits[e].to IN
           /\ Applied(round, to) \in Shapes
           /\ to.defined => Applied(round, to) = to
           /\ ~to.defined => ~Applied(round, to).defined
           /\ edits[e].raced => ~to.defined \/ Applied(round, to) = round
<1> DEFINE to == edits[e].to
           gone == [round EXCEPT !.defined = FALSE]
<1>1. to \in Shapes /\ round \in Shapes  BY DEF Accepts, IInv, Shape
<1>2. gone \in Shapes /\ ~gone.defined  BY <1>1 DEF Shapes
<1>3. Applied(round, to) = IF to.defined THEN to ELSE gone  BY DEF Applied
<1> HIDE DEF gone
<1>4. edits[e].raced => ~to.defined \/ to = round
  BY DEF Accepts, Frozen
<1> QED  BY <1>1, <1>2, <1>3, <1>4

LEMMA WriteRegistryKeeps == ASSUME IInv, NEW e \in Editors, WriteRegistry(e) PROVE Kept
<1> DEFINE to == edits[e].to
           d == IF to.defined THEN [pc |-> "rewriting", to |-> to] ELSE NoEdit
<1>1. /\ Accepts(e) /\ edits[e].pc = "probed"
      /\ round' = Applied(round, to) /\ saved' = round'
      /\ edits' = [edits EXCEPT ![e] = d]
      /\ behind' = (IF edits[e].raced THEN behind ELSE behind \cup Raced)
      /\ UNCHANGED <<heats, standing, drawn, held>>
  BY DEF WriteRegistry, Accepts
<1>2. /\ round' \in Shapes /\ (~to.defined => ~round'.defined)
      /\ edits[e].raced => ~to.defined \/ round' = round
  BY <1>1, AcceptedEdit
<1>3. d.pc # "probed" /\ (to.defined => d.pc = "rewriting")  BY DEF NoEdit
<1> HIDE DEF d
<1>4. OneEdit(e, d)  BY <1>1 DEF OneEdit
<1>5. /\ Shape' /\ LockTells' /\ FlownKept
      /\ Raced' = Raced /\ Scheduled' = Scheduled
  BY <1>1, <1>2, <1>3, <1>4, OneEditKeeps
<1>6. to.defined => Rewriting' # {}  BY <1>1, <1>3 DEF Rewriting, IInv, Shape
<1>7. round'.defined => Rewriting' # {}  BY <1>2, <1>6
<1>8. DrawTells'
  <2>1. ASSUME round'.defined, round'.seeding = "carry", ~(Raced' \subseteq behind')
        PROVE  drawn' # NoDraw
    <3>1. edits[e].raced /\ ~(Raced \subseteq behind)  BY <1>1, <1>5, <2>1
    <3>2. round' = round  BY <1>2, <2>1, <3>1
    <3> QED  BY <1>1, <2>1, <3>1, <3>2 DEF IInv, DrawTells
  <2>2. /\ held'.by = "fill" /\ held'.draws => drawn' = NoDraw /\ held'.field \in Standings
        /\ held'.by = "fill" /\ ~held'.draws /\ held'.round.seeding = "carry" => drawn' # NoDraw
    BY <1>1 DEF IInv, DrawTells
  <2>3. standing' = standing  BY <1>1
  <2> QED  BY <1>7, <2>1, <2>2 DEF DrawTells
<1>9. FieldKept
  BY <1>1 DEF FieldKept, Field, IInv, DrawTells, Quiet, Filled
<1> QED  BY <1>5, <1>8, <1>9 DEF Kept, IInv

LEMMA FailWriteKeeps == ASSUME IInv, NEW e \in Editors, FailWrite(e) PROVE Kept
<1>1. /\ Accepts(e) /\ edits[e].pc = "probed" /\ NoEdit.pc = "idle"
      /\ round' = Applied(round, edits[e].to)
      /\ edits' = [edits EXCEPT ![e] = NoEdit]
      /\ behind' = (IF round' = round THEN behind ELSE Heats)
      /\ UNCHANGED <<saved, heats, standing, drawn, held>>
  BY DEF FailWrite, Accepts, NoEdit
<1>2. round' \in Shapes  BY <1>1, AcceptedEdit
<1>3. OneEdit(e, NoEdit)  BY <1>1 DEF OneEdit
<1>4. /\ Shape' /\ LockTells' /\ FlownKept
      /\ Raced' = Raced /\ Scheduled' = Scheduled /\ Unfilled' = Unfilled
  BY <1>1, <1>2, <1>3, OneEditKeeps DEF IInv, Shape
<1>5. Rewriting' = Rewriting  BY <1>1 DEF Rewriting, IInv, Shape
<1>6. DrawTells'
  <2>1. CASE round' = round
    BY <1>1, <1>4, <1>5, <2>1 DEF IInv, DrawTells
  <2>2. CASE round' # round
    <3>1. behind' = Heats  BY <1>1, <2>2
    <3>2. Raced \subseteq Heats /\ Scheduled \subseteq Heats /\ Unfilled \subseteq Heats
      BY DEF Raced, Scheduled, Unfilled
    <3> QED  BY <1>1, <1>4, <3>1, <3>2 DEF IInv, DrawTells
  <2> QED  BY <2>1, <2>2
<1>7. FieldKept
  BY <1>1 DEF FieldKept, Field, IInv, DrawTells, Quiet, Filled
<1> QED  BY <1>4, <1>6, <1>7 DEF Kept, IInv

\* A re-draw touches the heats still to race, and no phase.
LEMMA RedrawnKeeps ==
    ASSUME IInv, NEW r, NEW reached \in SUBSET Scheduled, heats' = Redrawn(r, reached)
    PROVE  /\ DOMAIN heats' = Heats
           /\ \A h \in Heats : DOMAIN heats'[h] = HeatFields /\ heats'[h].state = heats[h].state
           /\ \A h \in Raced : heats'[h] = heats[h]
<1>1. DOMAIN heats' = Heats  BY DEF Redrawn
<1>2. ASSUME NEW h \in Heats
      PROVE  DOMAIN heats'[h] = HeatFields /\ heats'[h].state = heats[h].state
  <2> DEFINE n == [heats[h] EXCEPT !.lineup = Seated(h, heats[h].seat, Field(r)),
                                   !.flies = Tuned(r, h, heats[h].seat)]
  <2>1. DOMAIN n = HeatFields /\ n.state = heats[h].state
    BY DEF IInv, Shape, HeatFields
  <2>2. heats'[h] \in {n, heats[h]}  BY DEF Redrawn
  <2> HIDE DEF n
  <2> QED  BY <2>1, <2>2 DEF IInv, Shape
<1>3. \A h \in Raced : heats'[h] = heats[h]
  BY DEF Redrawn, Raced, Scheduled
<1> QED  BY <1>1, <1>2, <1>3

LEMMA RewriteHeatsKeeps == ASSUME IInv, NEW e \in Editors, RewriteHeats(e) PROVE Kept
<1>1. /\ edits[e].pc = "rewriting" /\ NoEdit.pc = "idle" /\ held = Free
      /\ edits' = [edits EXCEPT ![e] = NoEdit]
      /\ UNCHANGED <<round, saved, standing, drawn, held>>
  BY DEF RewriteHeats, NoEdit
<1>2. PICK reached \in SUBSET Scheduled :
        /\ heats' = Redrawn(edits[e].to, reached)
        /\ behind' = (behind \cup Scheduled)
                       \ (IF Settles(edits[e].to) THEN reached ELSE {})
  BY DEF RewriteHeats
<1>3. /\ DOMAIN heats' = Heats
      /\ \A h \in Heats : DOMAIN heats'[h] = HeatFields /\ heats'[h].state = heats[h].state
      /\ \A h \in Raced : heats'[h] = heats[h]
  BY <1>2, RedrawnKeeps
<1>4. Raced' = Raced /\ Scheduled' = Scheduled  BY <1>3, SamePhases
<1>5. edits'[e] = NoEdit /\ \A f \in Editors : f # e => edits'[f] = edits[f]
  BY <1>1 DEF IInv, Shape
<1>6. held'.by = "free"  BY <1>1 DEF Free
<1>7. Shape' /\ LockTells'  BY <1>1, <1>3, <1>5, <1>6 DEF IInv, Shape, LockTells
<1>8. Raced \cap Scheduled = {}  BY DEF Raced, Scheduled
<1>9. DrawTells'
  <2>1. ASSUME round.defined, round.seeding = "carry", NEW h \in Raced, h \notin behind'
        PROVE  drawn # NoDraw
    BY <1>2, <1>8, <2>1 DEF IInv, DrawTells
  <2>2. ASSUME round.seeding = "carry", NEW h \in Scheduled, h \notin behind'
        PROVE  drawn # NoDraw
    BY <1>2, <2>2 DEF Settles, Undrawn
  <2> QED  BY <1>1, <1>4, <1>6, <2>1, <2>2 DEF DrawTells
<1>10. FlownKept  BY <1>3 DEF FlownKept
<1>11. FieldKept  BY <1>1, SameRound
<1> QED  BY <1>7, <1>9, <1>10, <1>11 DEF Kept, IInv

------------------------------------------------------------------------------
(* The rest.                                                               *)

LEMMA SourceMovesKeeps ==
    ASSUME IInv, NEW ranking \in Standings, SourceMoves(ranking) PROVE Kept
<1> USE DEF SourceMoves
<1>1. Raced' = Raced /\ Scheduled' = Scheduled /\ Unfilled' = Unfilled
  BY DEF Raced, Scheduled, Unfilled
<1>2. Rewriting' = Rewriting  BY DEF Rewriting
<1>3. Shape' /\ LockTells'  BY <1>1 DEF IInv, Shape, LockTells
<1>4. DrawTells'  BY <1>1, <1>2 DEF IInv, DrawTells
<1>5. FieldKept
  BY DEF FieldKept, Field, IInv, DrawTells, Quiet, Filled
<1>6. FlownKept  BY DEF FlownKept
<1> QED  BY <1>3, <1>4, <1>5, <1>6 DEF Kept, IInv

LEMMA CrashKeeps == ASSUME IInv, Crash PROVE Kept
<1> USE DEF Crash
<1>1. Raced' = Raced /\ Scheduled' = Scheduled  BY DEF Raced, Scheduled
<1>2. \A e \in Editors : edits'[e].pc = "idle"  BY DEF NoEdit
<1>3. held'.by = "free"  BY DEF Free
<1>4. Shape' /\ LockTells'  BY <1>2, <1>3 DEF IInv, Shape, LockTells
<1>5. /\ behind \subseteq behind'
      /\ (round' = round /\ Rewriting = {}) \/ (Raced \cup Scheduled) \subseteq behind'
  BY DEF Filled
<1>6. DrawTells'  BY <1>1, <1>3, <1>5 DEF IInv, DrawTells
<1>7. FieldKept
  BY DEF FieldKept, Field, IInv, DrawTells, Quiet, Filled
<1>8. FlownKept  BY DEF FlownKept
<1> QED  BY <1>4, <1>6, <1>7, <1>8 DEF Kept, IInv

LEMMA SameHeatsKeep ==
    ASSUME IInv, UNCHANGED <<round, saved, heats, standing, drawn, held, edits, behind>>
    PROVE  Kept
<1>1. Raced' = Raced /\ Scheduled' = Scheduled /\ Unfilled' = Unfilled
  BY DEF Raced, Scheduled, Unfilled
<1>2. Rewriting' = Rewriting  BY DEF Rewriting
<1>3. Shape' /\ LockTells'  BY <1>1 DEF IInv, Shape, LockTells
<1>4. DrawTells'  BY <1>1, <1>2 DEF IInv, DrawTells
<1>5. FieldKept  BY SameRound
<1> QED  BY <1>3, <1>4, <1>5 DEF Kept, IInv, FlownKept

LEMMA StepKeeps == ASSUME IInv, [Next]_vars PROVE Kept
<1>1. CASE FillStep
  BY <1>1, FillRoundKeeps, FillAgainKeeps, RecordDrawKeeps, ScheduleHeatKeeps DEF FillStep
<1>2. CASE HeatStep
  <2>1. ASSUME NEW h \in Heats \cup {0}, SetCurrentHeat(h) PROVE Kept
    BY <2>1, SameHeatsKeep DEF SetCurrentHeat
  <2> QED
    BY <1>2, <2>1, StageStampedKeeps, StampLayoutKeeps, StageKeeps, StageUnstampedKeeps,
       FinalizeKeeps, RevertKeeps, ResetKeeps DEF HeatStep
<1>3. CASE ChoiceStep
  BY <1>3, RescheduleKeeps, FailAppendKeeps, SetHeatLayoutKeeps, OverrideHeatSeatingKeeps
  DEF ChoiceStep
<1>4. CASE EditStep
  BY <1>4, ProbeKeeps, RefuseEditKeeps, WriteRegistryKeeps, FailWriteKeeps,
     RewriteHeatsKeeps DEF EditStep
<1>5. CASE \E ranking \in Standings : SourceMoves(ranking)
  BY <1>5, SourceMovesKeeps
<1>6. CASE Crash  BY <1>6, CrashKeeps
<1>7. CASE UNCHANGED vars  BY <1>7, SameHeatsKeep DEF vars
<1> QED  BY <1>1, <1>2, <1>3, <1>4, <1>5, <1>6, <1>7 DEF Next

------------------------------------------------------------------------------
LEMMA Invariance == Spec => []IInv
<1>1. IInv /\ [Next]_vars => IInv'  BY StepKeeps DEF Kept
<1> QED  BY InitInv, <1>1, PTL DEF Spec

\* A heat past Scheduled keeps what it flew, for any number of heats, layouts,
\* consoles and edits: only the lock's holder and a re-draw re-schedule a heat,
\* and both find it still Scheduled.
THEOREM HeatsKeepWhatTheyFlew == Spec => KeepsWhatItFlew
<1>1. IInv /\ [Next]_vars => [FlownKept]_vars  BY StepKeeps DEF Kept
<1> QED  BY Invariance, <1>1, PTL DEF Spec, KeepsWhatItFlew

\* The field of a carried round stands once it has a heat that no edit, failure
\* or choice left behind: that heat's draw is in the log.
THEOREM CarriedFieldsStand == Spec => FieldStands
<1>1. IInv /\ [Next]_vars => [FieldKept]_vars  BY StepKeeps DEF Kept
<1> QED  BY Invariance, <1>1, PTL DEF Spec, FieldStands

------------------------------------------------------------------------------
(* A heat still to race follows its round. Beside IInv: what a fill read is *)
(* the field of the round it read, what a stamp bound is a layout, and the  *)
(* heats that were raced follow the round too, for a reset to find them so. *)

Follows(h) ==
    /\ heats[h].lineup = Seated(h, heats[h].seat, Field(round))
    /\ heats[h].seat # "typed" => heats[h].flies = LayoutFor(round, h)

\* What the choice that holds the lock will make of its heat.
Retuning(h) == held.by = "retune" /\ held.heat = h
WillFollow(h) ==
    /\ held.lineup = Seated(h, heats[h].seat, Field(round))
    /\ heats[h].seat # "typed" => held.flies = LayoutFor(round, h)

FillTells ==
    /\ held.by \in {"fill", "refill"} => held.round \in Shapes
    /\ held.by = "fill" =>
         IF held.draws THEN held.round.seeding = "carry" ELSE held.field = Field(held.round)

StampTells == held.by = "stage" => heats[held.heat].bind \in Layouts

RacedFollow ==
    round.defined =>
      \A h \in Raced \ behind :
         Follows(h) /\ (heats[h].seat # "typed" => heats[h].bind = heats[h].flies)

ScheduledFollow ==
    round.defined /\ Rewriting = {} =>
      \A h \in Scheduled \ behind : IF Retuning(h) THEN WillFollow(h) ELSE Follows(h)

FollowTells == FillTells /\ StampTells /\ RacedFollow /\ ScheduledFollow

\* The field stands while the draw does and there is a heat that is not behind.
LEMMA FieldSteady ==
    ASSUME IInv, round' = round, drawn' = drawn \/ drawn = NoDraw, round.defined,
           NEW h, h \notin behind, h \in Raced \/ (Rewriting = {} /\ h \in Scheduled)
    PROVE  Field(round)' = Field(round)
<1>1. round.seeding \in {"roster", "carry"}  BY DEF IInv, Shape, Shapes
<1>2. round.seeding = "carry" => drawn # NoDraw  BY DEF IInv, DrawTells
<1> QED  BY <1>1, <1>2 DEF Field

\* A heat that nobody touches goes on following.
LEMMA FollowsOn ==
    ASSUME NEW h, round' = round, Field(round)' = Field(round),
           heats'[h].lineup = heats[h].lineup, heats'[h].flies = heats[h].flies,
           heats'[h].bind = heats[h].bind, heats'[h].seat = heats[h].seat
    PROVE  Follows(h)' = Follows(h) /\ LayoutFor(round, h)' = LayoutFor(round, h)
<1>1. LayoutFor(round, h)' = LayoutFor(round, h)
  BY DEF LayoutFor, DefaultLayout
<1>2. Seated(h, heats[h].seat, Field(round))' = Seated(h, heats[h].seat, Field(round))
  BY DEF Seated
<1> QED  BY <1>1, <1>2 DEF Follows

\* The layouts of a heat are its event's.
LEMMA LayoutType ==
    ASSUME NEW r \in Shapes, NEW h \in Heats
    PROVE  DefaultLayout(r, h) \in Layouts /\ LayoutFor(r, h) \in Layouts
<1> DEFINE n == Len(r.layouts)
           i == ((h - 1) % n) + 1
<1>1. r.layouts \in Seq(Layouts) /\ r.layouts # << >>  BY DEF Shapes
<1>2. n \in Nat /\ n > 0  BY <1>1
<1>3. h - 1 \in Nat  BY HeatsAssumption DEF Heats
<1> HIDE DEF n
<1>4. (h - 1) % n \in 0 .. n - 1  BY <1>2, <1>3
<1>5. i \in 1 .. n  BY <1>2, <1>4
<1> HIDE DEF i
<1>6. r.layouts[i] \in Layouts  BY <1>1, <1>5 DEF n
<1>7. DefaultLayout(r, h) \in Layouts  BY <1>6 DEF DefaultLayout, i, n
<1> QED  BY <1>7 DEF LayoutFor

\* The initial states.
LEMMA InitFollows == Init => FollowTells
<1> SUFFICES ASSUME Init PROVE FollowTells  OBVIOUS
<1> USE DEF Init
<1>1. \A h \in Heats : heats[h].state = "Unknown"  OBVIOUS
<1>2. Raced = {} /\ Scheduled = {}  BY <1>1 DEF Raced, Scheduled
<1>3. held.by = "free"  BY DEF Free
<1> QED  BY <1>2, <1>3 DEF FollowTells, FillTells, StampTells, RacedFollow, ScheduledFollow

\* A step that leaves the heats alone, and the round of those not behind.
LEMMA HeatsAlone ==
    ASSUME IInv, FollowTells, heats' = heats,
           \A h \in Heats \ behind' :
             /\ h \notin behind /\ round' = round
             /\ drawn' = drawn \/ drawn = NoDraw
             /\ Rewriting' = {} => Rewriting = {}
             /\ held' = held \/ (~Retuning(h) /\ ~Retuning(h)')
    PROVE  RacedFollow' /\ ScheduledFollow'
<1>1. Raced' = Raced /\ Scheduled' = Scheduled  BY DEF Raced, Scheduled
<1>2. RacedFollow'
  <2> SUFFICES ASSUME round'.defined, NEW h \in Raced \ behind'
               PROVE  Follows(h)' /\ (heats'[h].seat # "typed" => heats'[h].bind = heats'[h].flies)
    BY <1>1 DEF RacedFollow
  <2>1. h \in Heats \ behind'  BY DEF Raced
  <2>2. Field(round)' = Field(round)  BY <2>1, FieldSteady
  <2>3. Follows(h)' = Follows(h)  BY <2>1, <2>2, FollowsOn
  <2> QED  BY <2>1, <2>3 DEF FollowTells, RacedFollow
<1>3. ScheduledFollow'
  <2> SUFFICES ASSUME round'.defined, Rewriting' = {}, NEW h \in Scheduled \ behind'
               PROVE  IF Retuning(h)' THEN WillFollow(h)' ELSE Follows(h)'
    BY <1>1 DEF ScheduledFollow
  <2>0. h \in Heats \ behind'  BY DEF Scheduled
  <2>1. Field(round)' = Field(round)  BY <2>0, FieldSteady
  <2>2. Follows(h)' = Follows(h) /\ LayoutFor(round, h)' = LayoutFor(round, h)
    BY <2>0, <2>1, FollowsOn
  <2>3. IF Retuning(h) THEN WillFollow(h) ELSE Follows(h)
    BY <2>0 DEF FollowTells, ScheduledFollow
  <2>4. CASE held' = held
    BY <2>0, <2>1, <2>2, <2>3, <2>4 DEF Retuning, WillFollow, Seated
  <2>5. CASE ~Retuning(h) /\ ~Retuning(h)'
    BY <2>2, <2>3, <2>5
  <2> QED  BY <2>0, <2>4, <2>5
<1> QED  BY <1>2, <1>3

\* A fill that has read, or that lets go of the lock.
LEMMA FillReadsFollow ==
    ASSUME IInv, FollowTells, OnlyHeld, held.by # "retune",
           held' = Free \/ \E r \in Shapes : \E h \in Heats : held' = Drawing(r, h)
    PROVE  FollowTells'
<1> USE DEF OnlyHeld
<1>1. held'.by \in {"free", "fill"}  BY DEF Free, Drawing
<1>2. RacedFollow' /\ ScheduledFollow'
  <2>1. Rewriting' = Rewriting  BY DEF Rewriting
  <2>2. \A h : ~Retuning(h) /\ ~Retuning(h)'  BY <1>1 DEF Retuning
  <2> QED  BY <2>1, <2>2, HeatsAlone
<1>3. FillTells'
  <2>1. CASE held' = Free  BY <2>1 DEF FillTells, Free
  <2>2. CASE \E r \in Shapes : \E h \in Heats : held' = Drawing(r, h)
    <3>1. PICK r \in Shapes, h \in Heats : held' = Drawing(r, h)  BY <2>2
    <3>2. /\ held'.round = r /\ held'.field = Field(r) /\ held'.draws = Undrawn(r)
      BY <3>1 DEF Drawing
    <3>3. Field(r)' = Field(r)  BY DEF Field
    <3> QED  BY <3>2, <3>3 DEF FillTells, Undrawn
  <2> QED  BY <2>1, <2>2
<1>4. StampTells'  BY <1>1 DEF StampTells
<1> QED  BY <1>2, <1>3, <1>4 DEF FollowTells

LEMMA RecordDrawFollows == ASSUME IInv, FollowTells, RecordDraw PROVE FollowTells'
<1> USE DEF RecordDraw
<1>1. held.by = "fill" /\ held.draws /\ DOMAIN held = FillFields  BY DEF IInv, Shape
<1>2. held'.by = "fill" /\ ~held'.draws /\ held'.round = held.round
        /\ held'.field = held.field
  BY <1>1 DEF FillFields
<1>3. drawn = NoDraw /\ drawn' = held.field /\ drawn' \in Standings
  BY <1>1 DEF IInv, DrawTells
<1>4. drawn' # NoDraw  BY <1>3, ValuesAssumption DEF NoDraw
<1>5. held.round.seeding = "carry" /\ held.round \in Shapes
  BY <1>1 DEF FollowTells, FillTells
<1>6. FillTells'  BY <1>2, <1>3, <1>4, <1>5 DEF FillTells, Field
<1>7. StampTells'  BY <1>2 DEF StampTells
<1>8. Rewriting' = Rewriting  BY DEF Rewriting
<1>9. \A h : ~Retuning(h) /\ ~Retuning(h)'  BY <1>1, <1>2 DEF Retuning
<1>10. RacedFollow' /\ ScheduledFollow'  BY <1>3, <1>8, <1>9, HeatsAlone
<1> QED  BY <1>6, <1>7, <1>10 DEF FollowTells

\* A heat is scheduled off the round as the fill read it.
LEMMA ScheduleHeatFollows == ASSUME IInv, FollowTells, ScheduleHeat PROVE FollowTells'
<1>0. PICK g : g = held.heat  OBVIOUS
<1> DEFINE r == [heats[g] EXCEPT !.state = "Scheduled",
                   !.lineup = Seated(g, heats[g].seat, held.field),
                   !.flies = Tuned(held.round, g, heats[g].seat)]
<1>1. held.by = "fill" /\ ~held.draws /\ heats' = [heats EXCEPT ![g] = r]
      /\ held' \in {Free, [by |-> "refill", round |-> held.round]}
      /\ behind' = (IF held.round = round THEN behind \ {g} ELSE behind)
      /\ UNCHANGED <<round, saved, onTimer, standing, drawn, edits>>
  BY <1>0 DEF ScheduleHeat
<1>2. heats[g].state = "Unknown"  BY <1>0, <1>1 DEF IInv, LockTells
<1>3. g \in Heats =>
        /\ r.state = "Scheduled" /\ r.lineup = Seated(g, heats[g].seat, held.field)
        /\ r.flies = Tuned(held.round, g, heats[g].seat)
        /\ r.bind = heats[g].bind /\ r.seat = heats[g].seat
  BY DEF IInv, Shape, HeatFields
<1> HIDE DEF r
<1>4. DOMAIN heats = Heats  BY DEF IInv, Shape
<1>5. \A h \in Heats : h # g => heats'[h] = heats[h]  BY <1>1, <1>4
<1>6. g \in Heats => heats'[g] = r  BY <1>1, <1>4
<1>7. Raced' = Raced /\ g \notin Raced  BY <1>2, <1>3, <1>5, <1>6 DEF Raced
<1>8. Rewriting' = Rewriting  BY <1>1 DEF Rewriting
<1>9. held'.by \in {"free", "refill"}  BY <1>1 DEF Free
<1>10. Field(round)' = Field(round)  BY <1>1 DEF Field
<1>11. RacedFollow'
  <2> SUFFICES ASSUME round'.defined, NEW h \in Raced \ behind'
               PROVE  Follows(h)' /\ (heats'[h].seat # "typed" => heats'[h].bind = heats'[h].flies)
    BY <1>7 DEF RacedFollow
  <2>1. h \in Heats /\ h # g /\ h \notin behind  BY <1>1, <1>7 DEF Raced
  <2>2. heats'[h] = heats[h]  BY <1>5, <2>1
  <2>3. Follows(h)' = Follows(h)  BY <1>1, <1>10, <2>2, FollowsOn
  <2> QED  BY <1>1, <2>1, <2>2, <2>3 DEF FollowTells, RacedFollow
<1>12. ScheduledFollow'
  <2> SUFFICES ASSUME round'.defined, Rewriting' = {}, NEW h \in Scheduled', h \notin behind'
               PROVE  Follows(h)'
    BY <1>9 DEF ScheduledFollow, Retuning
  <2>1. CASE h # g
    <3>1. h \in Scheduled \ behind /\ heats'[h] = heats[h]
      BY <1>1, <1>5, <2>1 DEF Scheduled
    <3>2. ~Retuning(h)  BY <1>1 DEF Retuning
    <3>3. Follows(h)  BY <1>1, <1>8, <3>1, <3>2 DEF FollowTells, ScheduledFollow
    <3>4. Follows(h)' = Follows(h)  BY <1>1, <1>10, <3>1, FollowsOn
    <3> QED  BY <3>3, <3>4
  <2>2. CASE h = g
    <3>1. g \in Heats /\ heats'[g] = r  BY <1>6, <2>2 DEF Scheduled
    <3>2. held.round = round
      <4> SUFFICES ASSUME held.round # round PROVE FALSE  OBVIOUS
      <4>1. Unfilled \subseteq behind  BY <1>1, <1>8 DEF IInv, DrawTells
      <4>2. g \in behind  BY <1>2, <3>1, <4>1 DEF Unfilled
      <4> QED  BY <1>1, <2>2, <4>2
    <3>3. held.field = Field(round)  BY <1>1, <3>2 DEF FollowTells, FillTells
    <3>4. LayoutFor(round, g)' = LayoutFor(round, g)
      BY <1>1, <1>3, <3>1 DEF LayoutFor, DefaultLayout
    <3> QED
      BY <1>3, <1>10, <2>2, <3>1, <3>2, <3>3, <3>4 DEF Follows, Seated, Tuned
  <2> QED  BY <2>1, <2>2
<1>13. FillTells' /\ StampTells'
  BY <1>1, <1>9 DEF FollowTells, FillTells, StampTells, Free
<1> QED  BY <1>11, <1>12, <1>13 DEF FollowTells

\* A heat changes its phase: staged, it flies what it is tuned to; put back, it
\* still follows.
LEMMA MoveFollows ==
    ASSUME IInv, FollowTells, NEW g \in Heats, NEW s \in {"Scheduled", "Racing", "Final"},
           MoveTo(g, s), UNCHANGED <<round, standing, drawn, edits>>,
           (held' = Free /\ held.by \in {"free", "stage"}) \/ (held' = held /\ g \in Raced),
           behind \subseteq behind',
           g \in Raced \/
             (/\ g \in Scheduled /\ s # "Scheduled" /\ held' = Free
              /\ \/ g \in behind'
                 \/ Rewriting = {} /\ (round.defined => heats[g].bind \in Layouts))
    PROVE  FollowTells'
<1>1. /\ \A h \in Heats : h # g => heats'[h] = heats[h]
      /\ heats'[g].state = s /\ heats'[g].lineup = heats[g].lineup
      /\ heats'[g].flies = heats[g].flies /\ heats'[g].bind = heats[g].bind
      /\ heats'[g].seat = heats[g].seat
      /\ DOMAIN heats' = Heats
  BY MoveShape
<1>2. Rewriting' = Rewriting  BY DEF Rewriting
<1>3. Free.by = "free"  BY DEF Free
<1>4. ASSUME round'.defined, NEW h \in Heats, h \notin behind',
             h \in Raced \/ (Rewriting = {} /\ h \in Scheduled)
      PROVE  Field(round)' = Field(round) /\ Follows(h)' = Follows(h)
  <2>1. h \notin behind  BY <1>4
  <2>2. Field(round)' = Field(round)  BY <1>4, <2>1, FieldSteady
  <2>3. Follows(h)' = Follows(h)  BY <1>1, <1>4, <2>2, FollowsOn
  <2> QED  BY <2>2, <2>3
<1>5. RacedFollow'
  <2> SUFFICES ASSUME round'.defined, NEW h \in Raced', h \notin behind'
               PROVE  Follows(h)' /\ (heats'[h].seat # "typed" => heats'[h].bind = heats'[h].flies)
    BY DEF RacedFollow
  <2>1. h \in Heats /\ h \notin behind  BY DEF Raced
  <2>2. CASE h \in Raced
    BY <1>1, <1>4, <2>1, <2>2 DEF FollowTells, RacedFollow
  <2>3. CASE h \notin Raced
    <3>1. h = g /\ g \in Scheduled  BY <1>1, <2>1, <2>3 DEF Raced
    <3>2. Rewriting = {} /\ heats[g].bind \in Layouts  BY <2>3, <3>1
    <3>3. ~Retuning(g)  BY <1>3, <2>3, <3>1 DEF Retuning
    <3>4. Follows(g)  BY <2>1, <3>1, <3>2, <3>3 DEF FollowTells, ScheduledFollow
    <3>5. heats[g].seat # "typed" => heats[g].bind = heats[g].flies
      BY <3>2, <3>4 DEF Follows, LayoutFor
    <3>6. Follows(g)'  BY <1>4, <3>1, <3>2, <3>4
    <3> QED  BY <1>1, <3>1, <3>5, <3>6
  <2> QED  BY <2>2, <2>3
<1>6. ScheduledFollow'
  <2> SUFFICES ASSUME round'.defined, Rewriting' = {}, NEW h \in Scheduled', h \notin behind'
               PROVE  IF Retuning(h)' THEN WillFollow(h)' ELSE Follows(h)'
    BY DEF ScheduledFollow
  <2>1. h \in Heats /\ h \notin behind  BY DEF Scheduled
  <2>2. CASE h \in Raced
    <3>1. Follows(h)'  BY <1>4, <2>1, <2>2 DEF FollowTells, RacedFollow
    <3>2. ~Retuning(h)'
      <4>1. held.by = "retune" => held.heat \in Scheduled  BY DEF IInv, LockTells
      <4> QED  BY <1>3, <2>2, <4>1 DEF Retuning, Raced, Scheduled
    <3> QED  BY <3>1, <3>2
  <2>3. CASE h \notin Raced
    <3>1. h # g /\ h \in Scheduled
      BY <1>1, <2>1, <2>3 DEF Raced, Scheduled
    <3>2. heats'[h] = heats[h]  BY <1>1, <2>1, <3>1
    <3>3. IF Retuning(h) THEN WillFollow(h) ELSE Follows(h)
      BY <1>2, <2>1, <3>1 DEF FollowTells, ScheduledFollow
    <3>4. LayoutFor(round, h)' = LayoutFor(round, h)
      BY <3>2 DEF LayoutFor, DefaultLayout
    <3>5. Field(round)' = Field(round) /\ Follows(h)' = Follows(h)
      BY <1>2, <1>4, <2>1, <3>1
    <3>6. CASE held' = held
      BY <3>2, <3>3, <3>4, <3>5, <3>6 DEF Retuning, WillFollow, Seated
    <3>7. CASE held' = Free /\ held.by \in {"free", "stage"}
      BY <1>3, <3>3, <3>5, <3>7 DEF Retuning
    <3> QED  BY <3>6, <3>7
  <2> QED  BY <2>2, <2>3
<1>7. FillTells' /\ StampTells'
  <2>1. CASE held' = Free  BY <1>3, <2>1 DEF FillTells, StampTells
  <2>2. CASE held' = held /\ g \in Raced
    <3>1. FillTells'  BY <2>2 DEF FollowTells, FillTells, Field
    <3>2. held.by = "stage" => held.heat \in Scheduled  BY DEF IInv, LockTells
    <3>3. held.by = "stage" => heats'[held.heat] = heats[held.heat]
      BY <1>1, <2>2, <3>2 DEF Raced, Scheduled
    <3>4. StampTells'  BY <2>2, <3>3 DEF FollowTells, StampTells
    <3> QED  BY <3>1, <3>4
  <2> QED  BY <2>1, <2>2
<1> QED  BY <1>5, <1>6, <1>7 DEF FollowTells

LEMMA StageFollows == ASSUME IInv, FollowTells, NEW h \in Heats, Stage(h) PROVE FollowTells'
<1>1. /\ h \in Scheduled /\ held' = Free /\ held.by = "free"
      /\ MoveTo(h, "Racing") /\ UNCHANGED <<round, standing, drawn, edits>>
      /\ behind \subseteq behind' /\ (Rewriting = {} \/ h \in behind')
      /\ round.defined => heats[h].bind \in Layouts
  BY DEF Stage, Free, Overtakes
<1> QED  BY <1>1, MoveFollows

LEMMA StageUnstampedFollows ==
    ASSUME IInv, FollowTells, NEW h \in Heats, StageUnstamped(h) PROVE FollowTells'
<1>1. /\ h \in Scheduled /\ held' = Free /\ held.by = "free"
      /\ MoveTo(h, "Racing") /\ UNCHANGED <<round, standing, drawn, edits>>
      /\ behind \subseteq behind' /\ h \in behind'
  BY DEF StageUnstamped, Free
<1> QED  BY <1>1, MoveFollows

LEMMA StageStampedFollows == ASSUME IInv, FollowTells, StageStamped PROVE FollowTells'
<1>0. PICK g : g = held.heat  OBVIOUS
<1>1. /\ held.by = "stage" /\ held' = Free
      /\ MoveTo(g, "Racing") /\ UNCHANGED <<round, standing, drawn, edits>>
      /\ behind \subseteq behind' /\ (Rewriting = {} \/ g \in behind')
  BY <1>0 DEF StageStamped, Overtakes
<1>2. g \in Heats /\ g \in Scheduled  BY <1>0, <1>1 DEF IInv, LockTells, Scheduled
<1>3. heats[g].bind \in Layouts  BY <1>0, <1>1 DEF FollowTells, StampTells
<1> QED  BY <1>1, <1>2, <1>3, MoveFollows

LEMMA FinalizeFollows == ASSUME IInv, FollowTells, NEW h \in Heats, Finalize(h) PROVE FollowTells'
<1>1. h \in Raced /\ h \notin Scheduled /\ held' = held /\ MoveTo(h, "Final")
      /\ UNCHANGED <<round, standing, drawn, edits, behind>>
  BY DEF Finalize, Racing, Raced, Scheduled
<1> QED  BY <1>1, MoveFollows

LEMMA RevertFollows == ASSUME IInv, FollowTells, NEW h \in Heats, Revert(h) PROVE FollowTells'
<1>1. h \in Raced /\ h \notin Scheduled /\ held' = held /\ MoveTo(h, "Racing")
      /\ UNCHANGED <<round, standing, drawn, edits, behind>>
  BY DEF Revert, Raced, Scheduled
<1> QED  BY <1>1, MoveFollows

LEMMA ResetFollows == ASSUME IInv, FollowTells, NEW h \in Heats, Reset(h) PROVE FollowTells'
<1>1. h \in Raced /\ h \notin Scheduled /\ held' = held /\ MoveTo(h, "Scheduled")
      /\ UNCHANGED <<round, standing, drawn, edits, behind>>
  BY DEF Reset, Raced, Scheduled
<1> QED  BY <1>1, MoveFollows

\* One heat still to race is touched, under the lock: the others go on
\* following, and this one does if it does what its holder is to make of it.
LEMMA TouchFollows ==
    ASSUME IInv, FollowTells, NEW g \in Heats, g \in Scheduled, NEW r,
           heats' = [heats EXCEPT ![g] = r], r.state = heats[g].state,
           UNCHANGED <<round, standing, drawn, edits>>, behind \subseteq behind',
           held.by = "free" \/ Retuning(g),
           held'.by \in {"free", "stage"} \/ Retuning(g)',
           held'.by = "stage" => heats'[held'.heat].bind \in Layouts,
           g \notin behind' /\ round.defined /\ Rewriting = {}
             => IF Retuning(g)' THEN WillFollow(g)' ELSE Follows(g)'
    PROVE  FollowTells'
<1>1. heats'[g] = r /\ \A h \in Heats : h # g => heats'[h] = heats[h]
  BY DEF IInv, Shape
<1>2. \A h \in Heats : heats'[h].state = heats[h].state  BY <1>1
<1>3. Raced' = Raced /\ Scheduled' = Scheduled  BY <1>2, SamePhases
<1>4. Rewriting' = Rewriting  BY DEF Rewriting
<1>5. Field(round)' = Field(round)  BY DEF Field
<1>6. \A h \in Heats : h # g => Follows(h)' = Follows(h)
  <2> SUFFICES ASSUME NEW h \in Heats, h # g PROVE Follows(h)' = Follows(h)  OBVIOUS
  <2> QED  BY <1>1, <1>5, FollowsOn
<1>7. g \notin Raced  BY DEF Raced, Scheduled
<1>8. RacedFollow'
  <2> SUFFICES ASSUME round'.defined, NEW h \in Raced \ behind'
               PROVE  Follows(h)' /\ (heats'[h].seat # "typed" => heats'[h].bind = heats'[h].flies)
    BY <1>3 DEF RacedFollow
  <2>1. h \in Heats /\ h # g /\ h \notin behind  BY <1>7 DEF Raced
  <2> QED  BY <1>1, <1>6, <2>1 DEF FollowTells, RacedFollow
<1>9. ScheduledFollow'
  <2> SUFFICES ASSUME round'.defined, Rewriting' = {}, NEW h \in Scheduled \ behind'
               PROVE  IF Retuning(h)' THEN WillFollow(h)' ELSE Follows(h)'
    BY <1>3 DEF ScheduledFollow
  <2>1. CASE h = g  BY <1>4, <2>1
  <2>2. CASE h # g
    <3>1. h \in Heats  BY DEF Scheduled
    <3>2. ~Retuning(h) /\ ~Retuning(h)'  BY <2>2 DEF Retuning
    <3>3. Follows(h)  BY <1>4, <3>2 DEF FollowTells, ScheduledFollow
    <3> QED  BY <1>6, <2>2, <3>1, <3>2, <3>3
  <2> QED  BY <2>1, <2>2
<1>10. FillTells' /\ StampTells'  BY DEF FillTells, StampTells, Retuning
<1> QED  BY <1>8, <1>9, <1>10 DEF FollowTells

LEMMA StampLayoutFollows ==
    ASSUME IInv, FollowTells, NEW h \in Heats, StampLayout(h) PROVE FollowTells'
<1> DEFINE r == [heats[h] EXCEPT !.bind = LayoutFor(round, h)]
<1>1. /\ held = Free /\ h \in Scheduled /\ round.defined /\ heats[h].bind \notin Layouts
      /\ held' = [by |-> "stage", heat |-> h]
      /\ heats' = [heats EXCEPT ![h] = r]
      /\ UNCHANGED <<round, standing, drawn, edits, behind>>
  BY DEF StampLayout
<1>2. /\ r.state = heats[h].state /\ r.lineup = heats[h].lineup /\ r.seat = heats[h].seat
      /\ r.flies = heats[h].flies /\ r.bind = LayoutFor(round, h)
  BY DEF IInv, Shape, HeatFields
<1> HIDE DEF r
<1>3. heats'[h] = r  BY <1>1 DEF IInv, Shape
<1>4. LayoutFor(round, h) \in Layouts  BY LayoutType DEF IInv, Shape
<1>5. held.by = "free" /\ held'.by = "stage" /\ held'.heat = h  BY <1>1 DEF Free
<1>6. LayoutFor(round, h)' = LayoutFor(round, h)
  BY <1>1, <1>2, <1>3, <1>4 DEF LayoutFor, DefaultLayout
<1>7. Field(round)' = Field(round)  BY <1>1 DEF Field
<1>8. Follows(h)' = Follows(h)
  BY <1>1, <1>2, <1>3, <1>6, <1>7 DEF Follows, Seated
<1>9. ~Retuning(h)' /\ ~Retuning(h)  BY <1>5 DEF Retuning
<1>10. h \notin behind /\ round.defined /\ Rewriting = {} => Follows(h)
  BY <1>1, <1>9 DEF FollowTells, ScheduledFollow
<1> QED  BY <1>1, <1>2, <1>3, <1>4, <1>5, <1>8, <1>9, <1>10, TouchFollows

LEMMA SetHeatLayoutFollows ==
    ASSUME IInv, FollowTells, NEW h \in Heats, NEW bind \in Layouts \cup {"cleared"},
           SetHeatLayout(h, bind)
    PROVE  FollowTells'
<1> DEFINE r == [heats[h] EXCEPT !.bind = bind]
           tuned == IF bind = "cleared" THEN DefaultLayout(round, h) ELSE bind
<1>1. /\ held = Free /\ h \in Scheduled /\ round.defined
      /\ held' = [by |-> "retune", heat |-> h, lineup |-> heats[h].lineup, flies |-> tuned]
      /\ heats' = [heats EXCEPT ![h] = r]
      /\ UNCHANGED <<round, standing, drawn, edits, behind>>
  BY DEF SetHeatLayout, Retunable
<1>2. /\ r.state = heats[h].state /\ r.lineup = heats[h].lineup /\ r.seat = heats[h].seat
      /\ r.bind = bind
  BY DEF IInv, Shape, HeatFields
<1> HIDE DEF r
<1>3. heats'[h] = r  BY <1>1 DEF IInv, Shape
<1>4. held.by = "free" /\ held'.by = "retune" /\ held'.heat = h
        /\ held'.lineup = heats[h].lineup /\ held'.flies = tuned
  BY <1>1 DEF Free
<1>5. LayoutFor(round, h)' = tuned
  BY <1>1, <1>2, <1>3, ValuesAssumption DEF LayoutFor, DefaultLayout
<1> HIDE DEF tuned
<1>6. Field(round)' = Field(round)  BY <1>1 DEF Field
<1>7. Retuning(h)' /\ ~Retuning(h)  BY <1>4 DEF Retuning
<1>8. h \notin behind /\ round.defined /\ Rewriting = {} => WillFollow(h)'
  <2> SUFFICES ASSUME h \notin behind, round.defined, Rewriting = {} PROVE WillFollow(h)'
    OBVIOUS
  <2>1. Follows(h)  BY <1>1, <1>7 DEF FollowTells, ScheduledFollow
  <2> QED  BY <1>2, <1>3, <1>4, <1>5, <1>6, <2>1 DEF WillFollow, Follows, Seated
<1> QED  BY <1>1, <1>2, <1>4, <1>7, <1>8, TouchFollows

LEMMA OverrideHeatSeatingFollows ==
    ASSUME IInv, FollowTells, NEW h \in Heats, NEW seat, OverrideHeatSeating(h, seat)
    PROVE  FollowTells'
<1> DEFINE r == [heats[h] EXCEPT !.seat = seat]
<1>1. /\ held = Free /\ h \in Scheduled /\ round.defined
      /\ held' = [by |-> "retune", heat |-> h, lineup |-> Seated(h, seat, Field(round)),
                  flies |-> Tuned(round, h, seat)]
      /\ heats' = [heats EXCEPT ![h] = r]
      /\ behind \subseteq behind'
      /\ UNCHANGED <<round, standing, drawn, edits>>
  BY DEF OverrideHeatSeating, RecordSeating, Retunable
<1>2. r.state = heats[h].state /\ r.seat = seat /\ r.bind = heats[h].bind
  BY DEF IInv, Shape, HeatFields
<1> HIDE DEF r
<1>3. heats'[h] = r  BY <1>1 DEF IInv, Shape
<1>4. held.by = "free" /\ held'.by = "retune" /\ held'.heat = h
        /\ held'.lineup = Seated(h, seat, Field(round)) /\ held'.flies = Tuned(round, h, seat)
  BY <1>1 DEF Free
<1>5. LayoutFor(round, h)' = LayoutFor(round, h)
  BY <1>1, <1>2, <1>3 DEF LayoutFor, DefaultLayout
<1>6. Field(round)' = Field(round)  BY <1>1 DEF Field
<1>7. Retuning(h)'  BY <1>4 DEF Retuning
<1>8. WillFollow(h)'
  BY <1>2, <1>3, <1>4, <1>5, <1>6 DEF WillFollow, Seated, Tuned
<1> QED  BY <1>1, <1>2, <1>4, <1>7, <1>8, TouchFollows

LEMMA RescheduleFollows == ASSUME IInv, FollowTells, Reschedule PROVE FollowTells'
<1>0. PICK g : g = held.heat  OBVIOUS
<1> DEFINE r == [heats[g] EXCEPT !.lineup = held.lineup, !.flies = held.flies]
<1>1. held.by = "retune" /\ held' = Free
      /\ UNCHANGED <<round, standing, drawn, edits, behind>>
  BY DEF Reschedule
<1>2. g \in Scheduled /\ g \in Heats  BY <1>0, <1>1 DEF IInv, LockTells, Scheduled
<1>3. heats' = [heats EXCEPT ![g] = r]
  BY <1>0, <1>2 DEF Reschedule, IInv, Shape
<1>4. /\ r.state = heats[g].state /\ r.lineup = held.lineup /\ r.flies = held.flies
      /\ r.bind = heats[g].bind /\ r.seat = heats[g].seat
  BY <1>2 DEF IInv, Shape, HeatFields
<1> HIDE DEF r
<1>5. heats'[g] = r  BY <1>2, <1>3 DEF IInv, Shape
<1>6. Retuning(g) /\ held'.by = "free" /\ ~Retuning(g)'
  BY <1>0, <1>1 DEF Retuning, Free
<1>7. LayoutFor(round, g)' = LayoutFor(round, g)
  BY <1>1, <1>4, <1>5 DEF LayoutFor, DefaultLayout
<1>8. Field(round)' = Field(round)  BY <1>1 DEF Field
<1>9. g \notin behind /\ round.defined /\ Rewriting = {} => Follows(g)'
  <2> SUFFICES ASSUME g \notin behind, round.defined, Rewriting = {} PROVE Follows(g)'
    OBVIOUS
  <2>1. WillFollow(g)  BY <1>2, <1>6 DEF FollowTells, ScheduledFollow
  <2> QED  BY <1>4, <1>5, <1>7, <1>8, <2>1 DEF WillFollow, Follows, Seated
<1> QED  BY <1>1, <1>2, <1>3, <1>4, <1>6, <1>9, TouchFollows


\* A refused seating leaves its heat behind, and the lock free.
LEMMA SeatingUnassignedFollows ==
    ASSUME IInv, FollowTells, NEW h \in Heats, NEW seat, SeatingUnassigned(h, seat)
    PROVE  FollowTells'
<1> DEFINE r == [heats[h] EXCEPT !.seat = seat]
<1>1. /\ held = Free /\ held' = Free /\ h \in Scheduled
      /\ heats' = [heats EXCEPT ![h] = r] /\ behind \subseteq behind' /\ h \in behind'
      /\ UNCHANGED <<round, standing, drawn, edits>>
  BY DEF SeatingUnassigned, RecordSeating, Retunable
<1>2. r.state = heats[h].state  BY DEF IInv, Shape, HeatFields
<1> HIDE DEF r
<1>3. Free.by = "free"  BY DEF Free
<1> QED  BY <1>1, <1>2, <1>3, TouchFollows

\* A command that ends at a failing append: the heat it was re-tuning is behind.
LEMMA FailAppendFollows == ASSUME IInv, FollowTells, FailAppend PROVE FollowTells'
<1>1. /\ held' = Free /\ behind \subseteq behind'
      /\ held.by = "retune" => held.heat \in behind'
      /\ UNCHANGED <<round, heats, standing, drawn, edits>>
  BY DEF FailAppend
<1>2. held'.by = "free"  BY <1>1 DEF Free
<1>3. Rewriting' = Rewriting  BY <1>1 DEF Rewriting
<1>4. \A h \in Heats \ behind' : ~Retuning(h) /\ ~Retuning(h)'
  BY <1>1, <1>2 DEF Retuning
<1>5. RacedFollow' /\ ScheduledFollow'  BY <1>1, <1>3, <1>4, HeatsAlone
<1>6. FillTells' /\ StampTells'  BY <1>2 DEF FillTells, StampTells
<1> QED  BY <1>5, <1>6 DEF FollowTells

\* What a fill or a stamp has read stands while the heats, the draw and the lock do.
LEMMA ReadsStand ==
    ASSUME FollowTells, UNCHANGED <<heats, standing, drawn, held>>
    PROVE  FillTells' /\ StampTells'
BY DEF FollowTells, FillTells, StampTells, Field

\* A step of an edit that writes nothing.
LEMMA OneEditFollows ==
    ASSUME IInv, FollowTells, NEW e \in Editors, NEW d, OneEdit(e, d),
           d.pc # "rewriting", edits[e].pc # "rewriting", UNCHANGED <<round, behind>>
    PROVE  FollowTells'
<1> USE DEF OneEdit
<1>1. FillTells' /\ StampTells'  BY ReadsStand
<1>2. Rewriting' = Rewriting  BY DEF Rewriting, IInv, Shape
<1>3. RacedFollow' /\ ScheduledFollow'  BY <1>2, HeatsAlone
<1> QED  BY <1>1, <1>3 DEF FollowTells

LEMMA ProbeFollows ==
    ASSUME IInv, FollowTells, NEW e \in Editors, NEW to, Probe(e, to) \/ ProbeBlind(e, to)
    PROVE  FollowTells'
<1>0. PICK seen \in BOOLEAN :
        edits' = [edits EXCEPT ![e] = [pc |-> "probed", to |-> to, raced |-> seen]]
  BY DEF Probe, ProbeBlind
<1> DEFINE d == [pc |-> "probed", to |-> to, raced |-> seen]
<1>1. edits' = [edits EXCEPT ![e] = d] /\ edits[e].pc = "idle"
      /\ UNCHANGED <<round, heats, standing, drawn, held, behind>>
  BY <1>0 DEF Probe, ProbeBlind, NoEdit
<1>2. d.pc = "probed"  OBVIOUS
<1> HIDE DEF d
<1> QED  BY <1>1, <1>2, OneEditFollows DEF OneEdit

LEMMA RefuseEditFollows ==
    ASSUME IInv, FollowTells, NEW e \in Editors, RefuseEdit(e) PROVE FollowTells'
<1>1. edits' = [edits EXCEPT ![e] = NoEdit] /\ edits[e].pc = "probed" /\ NoEdit.pc = "idle"
      /\ UNCHANGED <<round, heats, standing, drawn, held, behind>>
  BY DEF RefuseEdit, NoEdit
<1> QED  BY <1>1, OneEditFollows DEF OneEdit

\* The registry written, the heats still to race wait for the re-draw, and a
\* raced round comes out as it went in.
LEMMA WriteRegistryFollows ==
    ASSUME IInv, FollowTells, NEW e \in Editors, WriteRegistry(e) PROVE FollowTells'
<1> DEFINE to == edits[e].to
           d == IF to.defined THEN [pc |-> "rewriting", to |-> to] ELSE NoEdit
<1>1. /\ Accepts(e) /\ round' = Applied(round, to)
      /\ edits' = [edits EXCEPT ![e] = d]
      /\ behind' = (IF edits[e].raced THEN behind ELSE behind \cup Raced)
      /\ UNCHANGED <<heats, standing, drawn, held>>
  BY DEF WriteRegistry
<1>2. /\ ~to.defined => ~round'.defined
      /\ edits[e].raced => ~to.defined \/ round' = round
  BY <1>1, AcceptedEdit
<1>3. to.defined => d.pc = "rewriting"  OBVIOUS
<1> HIDE DEF d
<1>4. to.defined => Rewriting' # {}  BY <1>1, <1>3 DEF Rewriting, IInv, Shape
<1>5. FillTells' /\ StampTells'  BY <1>1, ReadsStand
<1>6. ScheduledFollow'  BY <1>2, <1>4 DEF ScheduledFollow
<1>7. RacedFollow'
  <2> SUFFICES ASSUME round'.defined, NEW h \in Raced', h \notin behind'
               PROVE  Follows(h)' /\ (heats'[h].seat # "typed" => heats'[h].bind = heats'[h].flies)
    BY DEF RacedFollow
  <2>1. h \in Raced  BY <1>1 DEF Raced
  <2>2. round' = round /\ h \notin behind  BY <1>1, <1>2, <2>1
  <2>3. Field(round)' = Field(round)  BY <1>1, <2>2 DEF Field
  <2>4. Follows(h)' = Follows(h)  BY <1>1, <2>2, <2>3, FollowsOn
  <2> QED  BY <1>1, <2>1, <2>2, <2>4 DEF FollowTells, RacedFollow
<1> QED  BY <1>5, <1>6, <1>7 DEF FollowTells

LEMMA FailWriteFollows ==
    ASSUME IInv, FollowTells, NEW e \in Editors, FailWrite(e) PROVE FollowTells'
<1>1. /\ edits' = [edits EXCEPT ![e] = NoEdit] /\ edits[e].pc = "probed" /\ NoEdit.pc = "idle"
      /\ behind' = (IF round' = round THEN behind ELSE Heats)
      /\ UNCHANGED <<heats, standing, drawn, held>>
  BY DEF FailWrite, Accepts, NoEdit
<1>2. Rewriting' = Rewriting  BY <1>1 DEF Rewriting, IInv, Shape
<1>3. FillTells' /\ StampTells'  BY <1>1, ReadsStand
<1>4. RacedFollow' /\ ScheduledFollow'  BY <1>1, <1>2, HeatsAlone
<1> QED  BY <1>3, <1>4 DEF FollowTells

\* A heat the re-draw reached follows the round, if it was drawn from that one.
LEMMA RewriteHeatsFollows ==
    ASSUME IInv, FollowTells, NEW e \in Editors, RewriteHeats(e) PROVE FollowTells'
<1>0. PICK to : to = edits[e].to  OBVIOUS
<1>1. PICK reached \in SUBSET Scheduled :
        /\ heats' = Redrawn(to, reached)
        /\ behind' = (behind \cup Scheduled) \ (IF Settles(to) THEN reached ELSE {})
  BY <1>0 DEF RewriteHeats
<1>2. held = Free /\ UNCHANGED <<round, standing, drawn, held>>  BY DEF RewriteHeats
<1>3. /\ \A h \in Heats : heats'[h].state = heats[h].state
      /\ \A h \in Raced : heats'[h] = heats[h]
  BY <1>1, RedrawnKeeps
<1>4. Raced' = Raced /\ Scheduled' = Scheduled /\ Raced \cap Scheduled = {}
  BY <1>3, SamePhases DEF Raced, Scheduled
<1>5. held'.by = "free"  BY <1>2 DEF Free
<1>6. Field(round)' = Field(round)  BY <1>2 DEF Field
<1>7. FillTells' /\ StampTells'  BY <1>5 DEF FillTells, StampTells
<1>8. RacedFollow'
  <2> SUFFICES ASSUME round'.defined, NEW h \in Raced, h \notin behind'
               PROVE  Follows(h)' /\ (heats'[h].seat # "typed" => heats'[h].bind = heats'[h].flies)
    BY <1>4 DEF RacedFollow
  <2>1. heats'[h] = heats[h]  BY <1>3
  <2>2. h \notin behind  BY <1>1, <1>4
  <2>3. Follows(h)' = Follows(h)  BY <1>2, <1>6, <2>1, FollowsOn
  <2> QED  BY <1>2, <2>1, <2>2, <2>3 DEF FollowTells, RacedFollow
<1>9. ScheduledFollow'
  <2> SUFFICES ASSUME round'.defined, NEW h \in Scheduled, h \notin behind'
               PROVE  Follows(h)'
    BY <1>4, <1>5 DEF ScheduledFollow, Retuning
  <2>1. h \in reached /\ to = round  BY <1>1 DEF Settles
  <2> DEFINE r == [heats[h] EXCEPT !.lineup = Seated(h, heats[h].seat, Field(round)),
                                   !.flies = Tuned(round, h, heats[h].seat)]
  <2>2. h \in Heats /\ heats'[h] = r  BY <1>1, <2>1 DEF Redrawn, Scheduled
  <2>3. /\ r.lineup = Seated(h, heats[h].seat, Field(round))
        /\ r.flies = Tuned(round, h, heats[h].seat)
        /\ r.bind = heats[h].bind /\ r.seat = heats[h].seat
    BY <2>2 DEF IInv, Shape, HeatFields
  <2> HIDE DEF r
  <2>4. LayoutFor(round, h)' = LayoutFor(round, h)
    BY <1>2, <2>2, <2>3 DEF LayoutFor, DefaultLayout
  <2> QED  BY <1>6, <2>2, <2>3, <2>4 DEF Follows, Seated, Tuned
<1> QED  BY <1>7, <1>8, <1>9 DEF FollowTells

LEMMA SourceMovesFollows ==
    ASSUME IInv, FollowTells, NEW ranking \in Standings, SourceMoves(ranking)
    PROVE  FollowTells'
<1> USE DEF SourceMoves
<1>1. FillTells'
  <2> SUFFICES ASSUME held.by = "fill", ~held.draws
               PROVE  held.field = Field(held.round)'
    BY DEF FollowTells, FillTells
  <2>1. held.field = Field(held.round)  BY DEF FollowTells, FillTells
  <2>2. held.round.seeding = "carry" => drawn # NoDraw  BY DEF IInv, DrawTells
  <2>3. held.round.seeding = "roster" \/ drawn # NoDraw
    BY <2>2 DEF FollowTells, FillTells, Shapes
  <2> QED  BY <2>1, <2>3 DEF Field
<1>2. StampTells'  BY DEF FollowTells, StampTells
<1>3. Rewriting' = Rewriting  BY DEF Rewriting
<1>4. RacedFollow' /\ ScheduledFollow'  BY <1>3, HeatsAlone
<1> QED  BY <1>1, <1>2, <1>4 DEF FollowTells

LEMMA CrashFollows == ASSUME IInv, FollowTells, Crash PROVE FollowTells'
<1> USE DEF Crash
<1>1. held'.by = "free"  BY DEF Free
<1>2. FillTells' /\ StampTells'  BY <1>1 DEF FillTells, StampTells
<1>3. CASE round' = round /\ Rewriting = {}
  <2>1. behind \subseteq behind' /\ (held.by = "retune" => held.heat \in behind')
    BY <1>3
  <2>2. \A h \in Heats \ behind' : ~Retuning(h) /\ ~Retuning(h)'
    BY <1>1, <2>1 DEF Retuning
  <2>3. RacedFollow' /\ ScheduledFollow'  BY <1>3, <2>1, <2>2, HeatsAlone
  <2> QED  BY <1>2, <2>3 DEF FollowTells
<1>4. CASE ~(round' = round /\ Rewriting = {})
  <2>1. Filled \subseteq behind'  BY <1>4
  <2>2. Raced' \subseteq Filled /\ Scheduled' \subseteq Filled
    BY DEF Filled, Raced, Scheduled
  <2>3. Raced' \ behind' = {} /\ Scheduled' \ behind' = {}  BY <2>1, <2>2
  <2> QED  BY <1>2, <2>3 DEF FollowTells, RacedFollow, ScheduledFollow
<1> QED  BY <1>3, <1>4

LEMMA FollowStands ==
    ASSUME IInv, FollowTells, UNCHANGED <<round, heats, standing, drawn, held, edits, behind>>
    PROVE  FollowTells'
<1>1. FillTells' /\ StampTells'  BY ReadsStand
<1>2. Rewriting' = Rewriting  BY DEF Rewriting
<1>3. RacedFollow' /\ ScheduledFollow'  BY <1>2, HeatsAlone
<1> QED  BY <1>1, <1>3 DEF FollowTells

LEMMA FillStepFollows == ASSUME IInv, FollowTells, FillStep PROVE FollowTells'
<1>1. CASE FillRound
  <2>1. /\ OnlyHeld /\ held.by # "retune"
        /\ \E h \in FirstUnfilled : held' = Drawing(round, h)
    BY <1>1 DEF FillRound, OnlyHeld, Free
  <2>2. round \in Shapes /\ FirstUnfilled \subseteq Heats
    BY DEF IInv, Shape, FirstUnfilled, Unfilled
  <2> QED  BY <2>1, <2>2, FillReadsFollow
<1>2. CASE FillAgain
  <2>1. /\ OnlyHeld /\ held.by # "retune"
        /\ held' = Free \/ \E h \in FirstUnfilled : held' = Drawing(held.round, h)
    BY <1>2 DEF FillAgain, OnlyHeld
  <2>2. held.round \in Shapes /\ FirstUnfilled \subseteq Heats
    BY <1>2 DEF FillAgain, FollowTells, FillTells, FirstUnfilled, Unfilled
  <2> QED  BY <2>1, <2>2, FillReadsFollow
<1> QED  BY <1>1, <1>2, RecordDrawFollows, ScheduleHeatFollows DEF FillStep

LEMMA FollowStep == ASSUME IInv, FollowTells, [Next]_vars PROVE FollowTells'
<1>1. CASE FillStep  BY <1>1, FillStepFollows
<1>2. CASE HeatStep
  <2>1. ASSUME NEW h \in Heats \cup {0}, SetCurrentHeat(h) PROVE FollowTells'
    BY <2>1, FollowStands DEF SetCurrentHeat
  <2> QED
    BY <1>2, <2>1, StageStampedFollows, StampLayoutFollows, StageFollows,
       StageUnstampedFollows, FinalizeFollows, RevertFollows, ResetFollows DEF HeatStep
<1>3. CASE ChoiceStep
  BY <1>3, RescheduleFollows, FailAppendFollows, SetHeatLayoutFollows,
     OverrideHeatSeatingFollows, SeatingUnassignedFollows DEF ChoiceStep
<1>4. CASE EditStep
  BY <1>4, ProbeFollows, RefuseEditFollows, WriteRegistryFollows, FailWriteFollows,
     RewriteHeatsFollows DEF EditStep
<1>5. CASE \E ranking \in Standings : SourceMoves(ranking)
  BY <1>5, SourceMovesFollows
<1>6. CASE Crash  BY <1>6, CrashFollows
<1>7. CASE UNCHANGED vars  BY <1>7, FollowStands DEF vars
<1> QED  BY <1>1, <1>2, <1>3, <1>4, <1>5, <1>6, <1>7 DEF Next

LEMMA Following == Spec => []FollowTells
<1>1. IInv /\ FollowTells /\ [Next]_vars => FollowTells'  BY FollowStep
<1> QED  BY Invariance, InitFollows, <1>1, PTL DEF Spec

\* A heat still to race is seated and tuned by its round, or by the RD, for any
\* number of heats, layouts, consoles and edits: what a fill, a choice, a stamp
\* and an abort read under the lock is still so when they write, and every heat
\* that is not so was left behind by a failure, an edit or a refused seating.
THEOREM ScheduledHeatsFollow == Spec => []ScheduledFollowsRound
<1>1. FollowTells => ScheduledFollowsRound
  BY DEF FollowTells, ScheduledFollow, ScheduledFollowsRound, Quiet, Retuning, Follows
<1> QED  BY Following, <1>1, PTL

\* The layout staging stamps on a heat is the one its pilots fly, unless the heat
\* was left behind.
THEOREM StampsAreFlown == Spec => []StampedAsFlown
<1>1. FollowTells => StampedAsFlown  BY DEF FollowTells, RacedFollow, StampedAsFlown
<1> QED  BY Following, <1>1, PTL
==============================================================================
