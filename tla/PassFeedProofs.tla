---------------------------- MODULE PassFeedProofs ----------------------------
(***************************************************************************)
(* What a timer tells of is in the log once, under the heat it was flown   *)
(* in, or is accounted for: for any timers at the gate, any grace and any  *)
(* bound.  The invariant is stated timer by timer (Fit): what the          *)
(* translator has seen is exactly what it has passed on (Sound), and both  *)
(* stay below the stamps to come (Below); it holds a race to be on while   *)
(* the timer does (InStep), and longer where it did not hear the end; and  *)
(* behind the start of its race, whatever an armed heat's timer can still  *)
(* tell was flown in that heat (Own).                                      *)
(***************************************************************************)
EXTENDS PassFeed, SequenceTheorems, TLAPS

Lap == [at : Nat, n : Nat, k : Nat]
HeldLap == [lap : Lap, times : Nat]
Statuses == {"ready", "racing", "done"}
Box == [status : Statuses, table : Seq(Lap), spawned : SUBSET Lap]
Translator == [last : Statuses \cup {"none"}, seen : SUBSET Nat, held : SUBSET HeldLap,
               live : BOOLEAN, fallback : BOOLEAN]
Event == [kind : {"start", "passes"}, laps : SUBSET Lap]
Slot == [n : Nat, staged : BOOLEAN, started : BOOLEAN, finishing : BOOLEAN, done : BOOLEAN]
Heat == [n : Nat, phase : {"none", "staged", "running"}, crossed : Nat]

\* The laps a timer records and may still tell of; those it may still pass on.
Recorder(b) == ToSet(b.table) \cup b.spawned
Tellable(b, a) == Recorder(b) \cup HeldLaps(a)

\* The laps of one timer in the log.
Logged(t) == {p.lap : p \in {q \in BagToSet(log) : q.timer = t}}

\* A race begins among the events.
Begins(q) == \E i \in DOMAIN q : q[i] = Start

Sound(b, a, q, lg, sp, td) ==
    /\ \A l, m \in Tellable(b, a) : l.at = m.at => l = m
    /\ \A l \in Tellable(b, a) : l.at \in a.seen <=> l \in lg \cup PassesIn(q) \cup sp
    /\ PassesIn(q) \cap lg = {}
    /\ td \subseteq lg \cup PassesIn(q) \cup sp \cup HeldLaps(a)

\* Stamps are no more than the laps recorded, deleted ones included.
Below(b, a, dl) ==
    b.status = "racing" =>
      /\ \A l \in Tellable(b, a) : l.at <= Len(b.table) + dl
      /\ \A x \in a.seen : x <= Len(b.table) + dl

InStep(b, a) == b.status = "racing" => a.last = "racing"

Own(b, a, q, sl) ==
    sl.n # 0 /\ sl.staged =>
      /\ sl.started \/ Begins(q) => \A l \in Tellable(b, a) : l.n = sl.n
      /\ \A j \in DOMAIN q : sl.started \/ j \in Behind(q) => \A l \in q[j].laps : l.n = sl.n

\* A slot is started only once staged, and holds the heat that runs.
Stepped(sl, h) ==
    /\ sl.started => sl.n # 0 /\ sl.staged
    /\ h.phase = "running" => sl.n \in {0, h.n}

Down(q, up, dr) == dr = "down" => ~up /\ q = << >>

\* Every lap is of a crossing there has been.
Past(b, a, q, lg, sp, h) ==
    \A l \in Tellable(b, a) \cup lg \cup PassesIn(q) \cup sp : l.k <= h.crossed

Typed(b, a, q, sl, lg, sp, td, dl, h) ==
    /\ b \in Box /\ a \in Translator /\ q \in Seq(Event) /\ sl \in Slot
    /\ lg \subseteq Lap /\ sp \subseteq Lap /\ td \subseteq Lap
    /\ dl \in Nat /\ h \in Heat

Fit(b, a, q, sl, lg, sp, td, dl, h, up, dr) ==
    /\ Typed(b, a, q, sl, lg, sp, td, dl, h)
    /\ Sound(b, a, q, lg, sp, td)
    /\ Below(b, a, dl)
    /\ InStep(b, a)
    /\ Own(b, a, q, sl)
    /\ Stepped(sl, h)
    /\ Down(q, up, dr)
    /\ Past(b, a, q, lg, sp, h)

------------------------------------------------------------------------------
(* The events of a frame.                                                  *)

\* Adding events adds their passes, and nothing when there are none.
LEMMA PassesInBoth ==
    ASSUME NEW q \in Seq(Event), NEW r \in Seq(Event)
    PROVE  /\ q \o r \in Seq(Event)
           /\ PassesIn(q \o r) = PassesIn(q) \cup PassesIn(r)
           /\ PassesIn(q) \in SUBSET Lap
<1>1. q \o r \in Seq(Event)
  OBVIOUS
<1>2. ToSet(q \o r) = ToSet(q) \cup ToSet(r)
  <2>1. \A e \in ToSet(q \o r) : e \in ToSet(q) \cup ToSet(r)
    BY DEF ToSet
  <2>2. \A e \in ToSet(q) : e \in ToSet(q \o r)
    BY DEF ToSet
  <2>3. \A i \in DOMAIN r : Len(q) + i \in DOMAIN (q \o r) /\ (q \o r)[Len(q) + i] = r[i]
    OBVIOUS
  <2>4. \A e \in ToSet(r) : e \in ToSet(q \o r)
    BY <2>3 DEF ToSet
  <2> QED
    BY <2>1, <2>2, <2>4
<1>3. PassesIn(q \o r) = PassesIn(q) \cup PassesIn(r)
  BY <1>2 DEF PassesIn
<1>4. \A e \in ToSet(q) : e.laps \subseteq Lap
  <2>1. \A i \in DOMAIN q : q[i] \in Event
    OBVIOUS
  <2> QED
    BY <2>1 DEF ToSet, Event
<1> QED
  BY <1>1, <1>3, <1>4 DEF PassesIn

LEMMA PassesInFew ==
    /\ PassesIn(<< >>) = {}
    /\ << >> \in Seq(Event)
    /\ \A f \in SUBSET Lap : /\ PassesIn(<<Passes(f)>>) = f
                             /\ <<Passes(f)>> \in Seq(Event)
                             /\ ~Begins(<<Passes(f)>>)
    /\ PassesIn(<<Start>>) = {}
    /\ <<Start>> \in Seq(Event)
    /\ ~Begins(<< >>)
<1>1. ToSet(<< >>) = {}
  BY DEF ToSet
<1>2. \A e : ToSet(<<e>>) = {e}
  BY DEF ToSet
<1>3. Start \in Event /\ Start.laps = {} /\ Start.kind = "start"
  BY DEF Start, Event
<1>4. ASSUME NEW f \in SUBSET Lap
      PROVE  Passes(f) \in Event /\ Passes(f).laps = f /\ Passes(f).kind = "passes"
  BY DEF Passes, Event
<1>5. \A f \in SUBSET Lap : PassesIn(<<Passes(f)>>) = f
  BY <1>2, <1>4 DEF PassesIn
<1>6. \A f \in SUBSET Lap : <<Passes(f)>> \in Seq(Event)
  BY <1>4
<1>7. \A f \in SUBSET Lap : ~Begins(<<Passes(f)>>)
  <2> SUFFICES ASSUME NEW f \in SUBSET Lap PROVE ~Begins(<<Passes(f)>>)
    OBVIOUS
  <2>1. Passes(f) # Start
    BY <1>3, <1>4
  <2>2. \A i \in DOMAIN <<Passes(f)>> : <<Passes(f)>>[i] = Passes(f)
    OBVIOUS
  <2> QED
    BY <2>1, <2>2 DEF Begins
<1>8. PassesIn(<<Start>>) = {} /\ <<Start>> \in Seq(Event)
  BY <1>2, <1>3 DEF PassesIn
<1>9. PassesIn(<< >>) = {} /\ << >> \in Seq(Event)
  BY <1>1 DEF PassesIn
<1>10. ~Begins(<< >>)
  BY DEF Begins
<1> QED
  BY <1>5, <1>6, <1>7, <1>8, <1>9, <1>10

\* Events in which no race begins move no start, and what is behind one.
LEMMA BehindBoth ==
    ASSUME NEW q \in Seq(Event), NEW r \in Seq(Event), ~Begins(r)
    PROVE  /\ Begins(q \o r) <=> Begins(q)
           /\ \A j \in DOMAIN q : j \in Behind(q \o r) <=> j \in Behind(q)
           /\ \A j \in Behind(q \o r) : Begins(q)
<1>1. /\ DOMAIN q \subseteq DOMAIN (q \o r)
      /\ \A i \in DOMAIN q : (q \o r)[i] = q[i]
  OBVIOUS
<1>2. \A i \in DOMAIN (q \o r) : (q \o r)[i] = Start => i \in DOMAIN q /\ q[i] = Start
  <2> SUFFICES ASSUME NEW i \in DOMAIN (q \o r), (q \o r)[i] = Start
               PROVE  i \in DOMAIN q /\ q[i] = Start
    OBVIOUS
  <2>1. CASE i \in DOMAIN q
    BY <2>1, <1>1
  <2>2. CASE i \notin DOMAIN q
    <3>1. i - Len(q) \in DOMAIN r /\ (q \o r)[i] = r[i - Len(q)]
      BY <2>2
    <3> QED
      BY <3>1 DEF Begins
  <2> QED
    BY <2>1, <2>2
<1>3. Begins(q \o r) <=> Begins(q)
  BY <1>1, <1>2 DEF Begins
<1>4. \A j \in DOMAIN q : j \in Behind(q \o r) <=> j \in Behind(q)
  BY <1>1, <1>2 DEF Behind
<1>5. \A j \in Behind(q \o r) : Begins(q)
  BY <1>2 DEF Behind, Begins
<1> QED
  BY <1>3, <1>4, <1>5

------------------------------------------------------------------------------
(* The translator.                                                         *)

\* What a frame, if no race begins in it, makes of a translator and of the laps
\* it tells: each is passed on unless its stamp has been, or stays held.
Feeds(a, r, new) ==
    /\ r.a \in Translator /\ r.events \in Seq(Event) /\ ~Begins(r.events)
    /\ HeldLaps(r.a) \subseteq HeldLaps(a) \cup new
    /\ PassesIn(r.events) \subseteq HeldLaps(a) \cup new
    /\ \A l \in PassesIn(r.events) : l.at \notin a.seen
    /\ r.a.seen = a.seen \cup {l.at : l \in PassesIn(r.events)}
    /\ \A l \in HeldLaps(a) \cup new : l \in HeldLaps(r.a) \/ l.at \in r.a.seen

LEMMA HeldLapsType ==
    ASSUME NEW a \in Translator
    PROVE  HeldLaps(a) \in SUBSET Lap
BY DEF Translator, HeldLap, HeldLaps

LEMMA NothingFeeds ==
    ASSUME NEW a \in Translator
    PROVE  /\ Feeds(a, Result(a, << >>), {})
           /\ Result(a, << >>).a = a /\ Result(a, << >>).events = << >>
<1>1. Result(a, << >>).a = a /\ Result(a, << >>).events = << >>
  BY DEF Result
<1>2. {l.at : l \in {}} = {}
  OBVIOUS
<1> HIDE DEF Result
<1> QED
  BY <1>1, <1>2, PassesInFew DEF Feeds

\* The deduplicator passes on exactly the laps whose stamp it has not seen.
Mints(a, laps, r) ==
    /\ r.a \in Translator /\ r.events \in Seq(Event) /\ ~Begins(r.events)
    /\ r.a.last = a.last /\ r.a.held = a.held
    /\ PassesIn(r.events) = {l \in laps : l.at \notin a.seen}
    /\ r.a.seen = a.seen \cup {l.at : l \in PassesIn(r.events)}

LEMMA MintPasses ==
    ASSUME NEW a \in Translator, NEW laps \in SUBSET Lap, NEW table
    PROVE  Mints(a, laps, Mint(a, laps, table))
<1> DEFINE fresh == {l \in laps : l.at \notin a.seen}
           b == [a EXCEPT !.seen = @ \cup {l.at : l \in fresh}]
           ev == IF fresh = {} THEN << >> ELSE <<Passes(fresh)>>
           r == Mint(a, laps, table)
<1>1. r.a = b /\ r.events = ev
  BY DEF Mint, CrossingId, Result
<1>2. {l.at : l \in fresh} \subseteq Nat
  BY DEF Lap
<1>3. b \in Translator /\ b.last = a.last /\ b.held = a.held
      /\ b.seen = a.seen \cup {l.at : l \in fresh}
  BY <1>2 DEF Translator
<1>4. fresh \in SUBSET Lap
  OBVIOUS
<1>5. ev \in Seq(Event) /\ ~Begins(ev) /\ PassesIn(ev) = fresh
  BY <1>4, PassesInFew
<1> HIDE DEF b, ev, r, fresh
<1>6. PassesIn(r.events) = {l \in laps : l.at \notin a.seen}
  BY <1>1, <1>5 DEF fresh
<1>7. r.a.seen = a.seen \cup {l.at : l \in PassesIn(r.events)}
  BY <1>1, <1>3, <1>5
<1>8. Mints(a, laps, r)
  BY <1>1, <1>3, <1>5, <1>6, <1>7 DEF Mints
<1> QED
  BY <1>8 DEF r

\* Letting go of what is held passes all of it on.
LEMMA FlushFeeds ==
    ASSUME NEW a \in Translator, NEW b \in Translator, NEW new, NEW table,
           b.seen = a.seen,
           \A l : l \in HeldLaps(b) <=> l \in HeldLaps(a) \/ l \in new
    PROVE  /\ Feeds(a, Flush(b, table), new)
           /\ Flush(b, table).a.last = b.last
           /\ HeldLaps(Flush(b, table).a) = {}
<1> DEFINE c == [b EXCEPT !.held = {}]
           laps == HeldLaps(b)
           r == Mint(c, laps, table)
<1>1. c \in Translator /\ c.held = {} /\ c.seen = a.seen /\ c.last = b.last
  BY DEF Translator
<1>2. laps \in SUBSET Lap
  BY HeldLapsType
<1>3. Flush(b, table) = r
  BY DEF Flush
<1> HIDE DEF c
<1> HIDE DEF laps
<1>4a. Mints(c, laps, r)
  BY <1>1, <1>2, MintPasses
<1> HIDE DEF r
<1>4. /\ r.a \in Translator /\ r.events \in Seq(Event) /\ ~Begins(r.events)
      /\ r.a.last = c.last /\ r.a.held = c.held
      /\ PassesIn(r.events) = {l \in laps : l.at \notin c.seen}
      /\ r.a.seen = c.seen \cup {l.at : l \in PassesIn(r.events)}
  BY <1>4a DEF Mints
<1>5. HeldLaps(r.a) = {}
  BY <1>1, <1>4 DEF HeldLaps
<1>6. laps = HeldLaps(a) \cup new
  BY DEF laps
<1>7. \A l \in HeldLaps(a) \cup new : l.at \in r.a.seen
  BY <1>1, <1>4, <1>6
<1>8. Feeds(a, r, new)
  BY <1>1, <1>4, <1>5, <1>6, <1>7 DEF Feeds
<1> QED
  BY <1>1, <1>3, <1>4, <1>5, <1>8

\* A change of source holds nothing back.
LEMMA SwitchFeeds ==
    ASSUME NEW a \in Translator, NEW live \in BOOLEAN, NEW table
    PROVE  /\ Feeds(a, SwitchSource(a, live, table), {})
           /\ SwitchSource(a, live, table).a.last = a.last
<1> DEFINE b == [a EXCEPT !.live = live]
<1>1. b \in Translator /\ b.seen = a.seen /\ b.last = a.last /\ HeldLaps(b) = HeldLaps(a)
  BY DEF Translator, HeldLaps
<1>2. SwitchSource(a, live, table) = Flush(b, table)
  BY DEF SwitchSource
<1> HIDE DEF b
<1>3. \A l : l \in HeldLaps(b) <=> l \in HeldLaps(a) \/ l \in {}
  BY <1>1
<1>4. Feeds(a, Flush(b, table), {}) /\ Flush(b, table).a.last = b.last
  BY <1>1, <1>3, FlushFeeds
<1> QED
  BY <1>1, <1>2, <1>4

\* A snapshot loses no lap of the table, whatever becomes of the plugin.
LEMMA SnapshotFeeds ==
    ASSUME NEW a \in Translator, NEW table \in Seq(Lap)
    PROVE  /\ Feeds(a, SnapshotSeen(a, table), ToSet(table))
           /\ SnapshotSeen(a, table).a.last = a.last
<1> DEFINE T == ToSet(table)
           unseen == {l \in T : l.at \notin a.seen}
           again(h) == IF h.lap \in unseen THEN [h EXCEPT !.times = @ + 1] ELSE h
           counted == {again(h) : h \in a.held}
           first == {[lap |-> l, times |-> 1] : l \in unseen \ HeldLaps(a)}
           both == counted \cup first
           convicted == [a EXCEPT !.held = both, !.fallback = TRUE]
           waiting == [a EXCEPT !.held = both]
<1>1. T \in SUBSET Lap
  BY DEF ToSet
<1>2. HeldLaps(a) \in SUBSET Lap /\ a.held \in SUBSET HeldLap
  BY HeldLapsType DEF Translator
<1>3. \A h \in a.held : again(h) \in HeldLap /\ again(h).lap = h.lap
  BY <1>2 DEF HeldLap
<1>4. \A l \in unseen : [lap |-> l, times |-> 1] \in HeldLap
  BY <1>1 DEF HeldLap
<1>5. both \in SUBSET HeldLap
  BY <1>3, <1>4
<1>6. {h.lap : h \in both} = HeldLaps(a) \cup unseen
  <2>1. {h.lap : h \in counted} = HeldLaps(a)
    BY <1>3 DEF HeldLaps
  <2>2. {h.lap : h \in first} = unseen \ HeldLaps(a)
    <3> DEFINE one(l) == [lap |-> l, times |-> 1]
    <3>1. \A l : one(l).lap = l
      OBVIOUS
    <3>2. first = {one(l) : l \in unseen \ HeldLaps(a)}
      OBVIOUS
    <3> HIDE DEF first, one, unseen
    <3> QED
      BY <3>1, <3>2
  <2> HIDE DEF counted, first
  <2> QED
    BY <2>1, <2>2
<1> HIDE DEF both
<1>7. /\ convicted \in Translator /\ convicted.seen = a.seen /\ convicted.last = a.last
      /\ HeldLaps(convicted) = HeldLaps(a) \cup unseen
  BY <1>5, <1>6 DEF Translator, HeldLaps
<1>8. /\ waiting \in Translator /\ waiting.seen = a.seen /\ waiting.last = a.last
      /\ HeldLaps(waiting) = HeldLaps(a) \cup unseen
  BY <1>5, <1>6 DEF Translator, HeldLaps
<1>9. \/ SnapshotSeen(a, table) = Mint(a, T, table)
      \/ SnapshotSeen(a, table) = Flush(convicted, table)
      \/ SnapshotSeen(a, table) = Result(waiting, << >>)
  BY DEF SnapshotSeen, CrossingId, both
\* What is said of the laps unseen is said of the table, the rest being seen.
<1>10. ASSUME NEW r, Feeds(a, r, unseen)
       PROVE  Feeds(a, r, T)
  BY <1>10 DEF Feeds
<1> HIDE DEF convicted, waiting
<1>11. CASE SnapshotSeen(a, table) = Mint(a, T, table)
  <2> DEFINE r == Mint(a, T, table)
  <2> HIDE DEF T
  <2>1a. Mints(a, T, r)
    BY <1>1, MintPasses
  <2> HIDE DEF r
  <2>1. /\ r.a \in Translator /\ r.events \in Seq(Event) /\ ~Begins(r.events)
        /\ r.a.last = a.last /\ r.a.held = a.held
        /\ PassesIn(r.events) = {l \in T : l.at \notin a.seen}
        /\ r.a.seen = a.seen \cup {l.at : l \in PassesIn(r.events)}
    BY <2>1a DEF Mints
  <2>2. HeldLaps(r.a) = HeldLaps(a)
    BY <2>1 DEF HeldLaps
  <2>3. \A l \in T : l.at \in r.a.seen
    BY <2>1
  <2>4. Feeds(a, r, T)
    BY <2>1, <2>2, <2>3 DEF Feeds
  <2> QED
    BY <1>11, <2>1, <2>4 DEF r, T
<1>12. CASE SnapshotSeen(a, table) = Flush(convicted, table)
  <2> HIDE DEF unseen, T
  <2>0. \A l : l \in HeldLaps(convicted) <=> l \in HeldLaps(a) \/ l \in unseen
    BY <1>7
  <2>1. Feeds(a, Flush(convicted, table), unseen)
        /\ Flush(convicted, table).a.last = convicted.last
    BY <1>7, <2>0, FlushFeeds
  <2>2. Feeds(a, Flush(convicted, table), T)
    BY <1>10, <2>1
  <2> QED
    BY <1>7, <1>12, <2>1, <2>2 DEF T
<1>13. CASE SnapshotSeen(a, table) = Result(waiting, << >>)
  <2> DEFINE r == Result(waiting, << >>)
  <2>1. r.a = waiting /\ r.events = << >>
    BY DEF Result
  <2> HIDE DEF r, unseen
  <2>2. {l.at : l \in {}} = {}
    OBVIOUS
  <2>3. Feeds(a, r, unseen)
    BY <1>8, <2>1, <2>2, PassesInFew DEF Feeds
  <2> QED
    BY <1>8, <1>10, <1>13, <2>1, <2>3 DEF r
<1> QED
  BY <1>9, <1>11, <1>12, <1>13

\* The plugin's pass takes its own lap out of those held, and no other.
LEMMA PluginFeeds ==
    ASSUME NEW a \in Translator, NEW lap \in Lap, NEW table
    PROVE  /\ Feeds(a, PluginPassSeen(a, lap, table), IF PluginMints(a) THEN {lap} ELSE {})
           /\ PluginPassSeen(a, lap, table).a.last = a.last
<1>1. CASE PluginMints(a)
  <2> DEFINE b == [a EXCEPT !.held = {h \in @ : h.lap # lap}]
             r == Mint(b, {lap}, table)
  <2>1. b \in Translator /\ b.seen = a.seen /\ b.last = a.last
        /\ b.held = {h \in a.held : h.lap # lap}
    BY DEF Translator
  <2>2. PluginPassSeen(a, lap, table) = r
    BY <1>1 DEF PluginPassSeen
  <2> HIDE DEF b
  <2>3a. Mints(b, {lap}, r)
    BY <2>1, MintPasses
  <2> HIDE DEF r
  <2>3. /\ r.a \in Translator /\ r.events \in Seq(Event) /\ ~Begins(r.events)
        /\ r.a.last = b.last /\ r.a.held = b.held
        /\ PassesIn(r.events) = {l \in {lap} : l.at \notin b.seen}
        /\ r.a.seen = b.seen \cup {l.at : l \in PassesIn(r.events)}
    BY <2>3a DEF Mints
  <2>4. HeldLaps(r.a) = HeldLaps(a) \ {lap}
    BY <2>1, <2>3 DEF HeldLaps
  <2>5. lap.at \in r.a.seen
    BY <2>1, <2>3
  <2>6. Feeds(a, r, {lap})
    BY <2>1, <2>3, <2>4, <2>5 DEF Feeds
  <2> QED
    BY <1>1, <2>1, <2>2, <2>3, <2>6
<1>2. CASE ~PluginMints(a)
  BY <1>2, NothingFeeds DEF PluginPassSeen
<1> QED
  BY <1>1, <1>2

\* Of a status that begins no race: at the end of one what is held is passed on.
LEMMA StatusFeeds ==
    ASSUME NEW a \in Translator, NEW status \in Statuses, NEW table,
           status = "racing" => a.last = "racing"
    PROVE  /\ Feeds(a, StatusSeen(a, status, table), {})
           /\ StatusSeen(a, status, table).a.last = status
           /\ status = "ready" => StatusSeen(a, status, table).events = << >>
<1> DEFINE b == [a EXCEPT !.last = status]
           c == [b EXCEPT !.fallback = @ \/ b.held # {}]
<1>1. b \in Translator /\ b.seen = a.seen /\ b.last = status /\ HeldLaps(b) = HeldLaps(a)
  BY DEF Translator, HeldLaps
<1>2. c \in Translator /\ c.seen = a.seen /\ c.last = status /\ HeldLaps(c) = HeldLaps(a)
  <2>1. (b.fallback \/ b.held # {}) \in BOOLEAN
    BY <1>1 DEF Translator
  <2> QED
    BY <1>1, <2>1 DEF Translator, HeldLaps
<1>3. CASE status = a.last
  BY <1>3, NothingFeeds DEF StatusSeen
<1>4. CASE status # a.last /\ status = "done"
  <2>1. StatusSeen(a, status, table) = Flush(c, table)
    BY <1>4 DEF StatusSeen, RaceDone
  <2> HIDE DEF c
  <2>2. \A l : l \in HeldLaps(c) <=> l \in HeldLaps(a) \/ l \in {}
    BY <1>2
  <2>3. Feeds(a, Flush(c, table), {}) /\ Flush(c, table).a.last = c.last
    BY <1>2, <2>2, FlushFeeds
  <2> QED
    BY <1>2, <1>4, <2>1, <2>3
<1>5. CASE status # a.last /\ status = "ready"
  <2>1. StatusSeen(a, status, table) = Result(b, << >>)
    BY <1>5 DEF StatusSeen
  <2> DEFINE r == Result(b, << >>)
  <2>2. r.a = b /\ r.events = << >>
    BY DEF Result
  <2> HIDE DEF b, r
  <2>3. {l.at : l \in {}} = {}
    OBVIOUS
  <2>4. Feeds(a, r, {})
    BY <1>1, <2>2, <2>3, PassesInFew DEF Feeds
  <2> QED
    BY <1>1, <2>1, <2>2, <2>4 DEF r
<1> QED
  BY <1>3, <1>4, <1>5 DEF Statuses

------------------------------------------------------------------------------
(* What a step may do to one timer and keep it fit.                        *)

LEMMA TellableTypes ==
    ASSUME NEW b \in Box, NEW a \in Translator
    PROVE  Tellable(b, a) \in SUBSET Lap /\ Recorder(b) \in SUBSET Lap
<1>1. ToSet(b.table) \in SUBSET Lap /\ b.spawned \in SUBSET Lap
  BY DEF Box, ToSet
<1> QED
  BY <1>1, HeldLapsType DEF Tellable, Recorder

\* A frame is heard, whatever laps the timer forgets with it.
LEMMA FitFeeds ==
    ASSUME NEW b, NEW a, NEW q, NEW sl, NEW lg, NEW sp, NEW td, NEW dl, NEW h, NEW up, NEW dr,
           Fit(b, a, q, sl, lg, sp, td, dl, h, up, dr),
           NEW r, NEW new, Feeds(a, r, new), new \subseteq Tellable(b, a),
           up \/ r.events = << >>,
           NEW c \in Box, Recorder(c) \subseteq Recorder(b),
           c.status = "racing" => b.status = "racing" /\ Len(c.table) = Len(b.table),
           InStep(c, r.a)
    PROVE  Fit(c, r.a, q \o r.events, sl, lg, sp, td \cup new, dl, h, up, dr)
<1> DEFINE L == Tellable(b, a)
           M == Tellable(c, r.a)
           P == PassesIn(q)
           N == PassesIn(r.events)
           s == q \o r.events
<1>1. Typed(b, a, q, sl, lg, sp, td, dl, h)
  BY DEF Fit
<1>2. /\ r.a \in Translator /\ r.events \in Seq(Event) /\ ~Begins(r.events)
      /\ M \subseteq L /\ N \subseteq L /\ new \subseteq L
      /\ \A l \in N : l.at \notin a.seen
      /\ r.a.seen = a.seen \cup {l.at : l \in N}
      /\ \A l \in HeldLaps(a) \cup new : l \in HeldLaps(r.a) \/ l.at \in r.a.seen
  BY DEF Feeds, Tellable
<1>3. s \in Seq(Event) /\ PassesIn(s) = P \cup N
  BY <1>1, <1>2, PassesInBoth DEF Typed
<1>4. L \in SUBSET Lap
  BY <1>1, TellableTypes DEF Typed
<1>5. HeldLaps(a) \subseteq L
  BY DEF Tellable
<1>6. Typed(c, r.a, s, sl, lg, sp, td \cup new, dl, h)
  BY <1>1, <1>2, <1>3, <1>4 DEF Typed
<1>7. Sound(b, a, q, lg, sp, td)
  BY DEF Fit
<1>8. /\ \A l, m \in L : l.at = m.at => l = m
      /\ \A l \in L : l.at \in a.seen <=> l \in lg \cup P \cup sp
      /\ P \cap lg = {}
      /\ td \subseteq lg \cup P \cup sp \cup HeldLaps(a)
  BY <1>7 DEF Sound
<1> HIDE DEF L, M, P, N, s
<1>9. \A l \in L : l.at \in r.a.seen <=> l \in lg \cup (P \cup N) \cup sp
  <2> SUFFICES ASSUME NEW l \in L
               PROVE  l.at \in r.a.seen <=> l \in lg \cup (P \cup N) \cup sp
    OBVIOUS
  <2>1. l.at \in {m.at : m \in N} <=> l \in N
    BY <1>2, <1>8
  <2> QED
    BY <1>2, <1>8, <2>1
<1>10. Sound(c, r.a, s, lg, sp, td \cup new)
  <2>1. \A l, m \in M : l.at = m.at => l = m
    BY <1>2, <1>8
  <2>2. \A l \in M : l.at \in r.a.seen <=> l \in lg \cup (P \cup N) \cup sp
    BY <1>2, <1>9
  <2>3. (P \cup N) \cap lg = {}
    BY <1>2, <1>8
  <2>4. td \cup new \subseteq lg \cup (P \cup N) \cup sp \cup HeldLaps(r.a)
    BY <1>2, <1>5, <1>8, <1>9
  <2> QED
    BY <1>3, <2>1, <2>2, <2>3, <2>4 DEF Sound, M
<1>11. Below(c, r.a, dl)
  <2> SUFFICES ASSUME c.status = "racing"
               PROVE  /\ \A l \in M : l.at <= Len(c.table) + dl
                      /\ \A x \in r.a.seen : x <= Len(c.table) + dl
    BY DEF Below, M
  <2>1. /\ \A l \in L : l.at <= Len(b.table) + dl
        /\ \A x \in a.seen : x <= Len(b.table) + dl
    BY DEF Fit, Below, L
  <2> QED
    BY <1>2, <2>1
<1>12. Own(b, a, q, sl)
  BY DEF Fit
<1>13. Own(c, r.a, s, sl)
  <2> SUFFICES ASSUME sl.n # 0, sl.staged
               PROVE  /\ sl.started \/ Begins(s) => \A l \in M : l.n = sl.n
                      /\ \A j \in DOMAIN s :
                            sl.started \/ j \in Behind(s) => \A l \in s[j].laps : l.n = sl.n
    BY DEF Own, M
  <2>1. /\ sl.started \/ Begins(q) => \A l \in L : l.n = sl.n
        /\ \A j \in DOMAIN q : sl.started \/ j \in Behind(q) => \A l \in q[j].laps : l.n = sl.n
    BY <1>12 DEF Own, L
  <2>2. /\ Begins(s) <=> Begins(q)
        /\ \A j \in DOMAIN q : j \in Behind(s) <=> j \in Behind(q)
        /\ \A j \in Behind(s) : Begins(q)
    BY <1>1, <1>2, BehindBoth DEF Typed, s
  <2>3. ASSUME NEW j \in DOMAIN s, sl.started \/ j \in Behind(s), NEW l \in s[j].laps
        PROVE  l.n = sl.n
    <3>1. CASE j \in DOMAIN q
      <4>1. s[j] = q[j]
        BY <1>1, <1>2, <3>1 DEF Typed, s
      <4> QED
        BY <2>1, <2>2, <2>3, <3>1, <4>1
    <3>2. CASE j \notin DOMAIN q
      <4>1. j - Len(q) \in DOMAIN r.events /\ s[j] = r.events[j - Len(q)]
        BY <1>1, <1>2, <3>2 DEF Typed, s
      <4>2. l \in N
        BY <2>3, <4>1 DEF N, PassesIn, ToSet
      <4> QED
        BY <1>2, <2>1, <2>2, <2>3, <4>2
    <3> QED
      BY <3>1, <3>2
  <2> QED
    BY <1>2, <2>1, <2>2, <2>3
<1>14. Down(s, up, dr)
  <2>1. Down(q, up, dr)
    BY DEF Fit
  <2>2. CASE up
    BY <2>1, <2>2 DEF Down
  <2>3. CASE r.events = << >>
    <3>1. s = q
      BY <1>1, <2>3 DEF Typed, s
    <3> QED
      BY <2>1, <3>1
  <2> QED
    BY <2>2, <2>3
<1>15. Past(c, r.a, s, lg, sp, h)
  <2>1. \A l \in L \cup lg \cup P \cup sp : l.k <= h.crossed
    BY DEF Fit, Past, L, P
  <2>2. \A l \in M \cup lg \cup (P \cup N) \cup sp : l.k <= h.crossed
    BY <1>2, <2>1
  <2> QED
    BY <1>3, <2>2 DEF Past, M
<1>16. Stepped(sl, h) /\ InStep(c, r.a)
  BY DEF Fit
<1> QED
  BY <1>6, <1>10, <1>11, <1>13, <1>14, <1>15, <1>16 DEF Fit, s

\* What is drained comes into the log or is put aside; behind it, the race of an
\* armed heat has begun.
LEMMA FitDrains ==
    ASSUME NEW b, NEW a, NEW q, NEW sl, NEW lg, NEW sp, NEW td, NEW dl, NEW h, NEW up, NEW dr,
           Fit(b, a, q, sl, lg, sp, td, dl, h, up, dr),
           NEW adm \in SUBSET PassesIn(q), NEW put \in SUBSET PassesIn(q),
           adm \cup put = PassesIn(q),
           NEW sl2 \in Slot, sl2.n = sl.n, sl2.staged = sl.staged,
           sl2.started => sl.started \/ (sl.n # 0 /\ sl.staged /\ Begins(q))
    PROVE  Fit(b, a, << >>, sl2, lg \cup adm, sp \cup put, td, dl, h, up, dr)
<1> DEFINE P == PassesIn(q)
<1>1. Typed(b, a, q, sl, lg, sp, td, dl, h)
  BY DEF Fit
<1>2. P \in SUBSET Lap
  BY <1>1, PassesInBoth, PassesInFew DEF Typed
<1>3. Typed(b, a, << >>, sl2, lg \cup adm, sp \cup put, td, dl, h)
  BY <1>1, <1>2, PassesInFew DEF Typed
<1>4. Sound(b, a, << >>, lg \cup adm, sp \cup put, td)
  <2>1. /\ \A l, m \in Tellable(b, a) : l.at = m.at => l = m
        /\ \A l \in Tellable(b, a) : l.at \in a.seen <=> l \in lg \cup P \cup sp
        /\ td \subseteq lg \cup P \cup sp \cup HeldLaps(a)
    BY DEF Fit, Sound
  <2>2. lg \cup P \cup sp = (lg \cup adm) \cup {} \cup (sp \cup put)
    OBVIOUS
  <2>3. PassesIn(<< >>) = {}
    BY PassesInFew
  <2> HIDE DEF P
  <2> QED
    BY <2>1, <2>2, <2>3 DEF Sound
<1>5. Own(b, a, << >>, sl2)
  <2>1. ~Begins(<< >>) /\ DOMAIN << >> = {}
    BY PassesInFew
  <2> QED
    BY <2>1 DEF Fit, Own
<1>6. Stepped(sl2, h) /\ Below(b, a, dl) /\ InStep(b, a)
  BY DEF Fit, Stepped
<1>7. Down(<< >>, up, dr)
  BY DEF Fit, Down
<1>8. Past(b, a, << >>, lg \cup adm, sp \cup put, h)
  BY PassesInFew DEF Fit, Past
<1> QED
  BY <1>3, <1>4, <1>5, <1>6, <1>7, <1>8 DEF Fit

\* Another slot, another phase of the heat; another link.
LEMMA FitSlots ==
    ASSUME NEW b, NEW a, NEW q, NEW sl, NEW lg, NEW sp, NEW td, NEW dl, NEW h, NEW up, NEW dr,
           Fit(b, a, q, sl, lg, sp, td, dl, h, up, dr),
           NEW sl2 \in Slot, NEW h2 \in Heat, h2.crossed = h.crossed,
           Own(b, a, q, sl2), Stepped(sl2, h2)
    PROVE  Fit(b, a, q, sl2, lg, sp, td, dl, h2, up, dr)
BY DEF Fit, Typed, Past

LEMMA FitLinks ==
    ASSUME NEW b, NEW a, NEW q, NEW sl, NEW lg, NEW sp, NEW td, NEW dl, NEW h, NEW up, NEW dr,
           Fit(b, a, q, sl, lg, sp, td, dl, h, up, dr),
           NEW up2, NEW dr2, Down(q, up2, dr2)
    PROVE  Fit(b, a, q, sl, lg, sp, td, dl, h, up2, dr2)
BY DEF Fit

\* A lap is deleted, on this timer or on another.
LEMMA FitDeletes ==
    ASSUME NEW b, NEW a, NEW q, NEW sl, NEW lg, NEW sp, NEW td, NEW dl, NEW h, NEW up, NEW dr,
           Fit(b, a, q, sl, lg, sp, td, dl, h, up, dr),
           NEW c \in Box, Recorder(c) \subseteq Recorder(b), c.status = b.status,
           Len(c.table) + 1 >= Len(b.table)
    PROVE  Fit(c, a, q, sl, lg, sp, td, dl + 1, h, up, dr)
<1> DEFINE L == Tellable(b, a)
           M == Tellable(c, a)
<1>1. M \subseteq L
  BY DEF Tellable
<1>2. Typed(b, a, q, sl, lg, sp, td, dl, h)
  BY DEF Fit
<1>3. L \in SUBSET Lap /\ a.seen \in SUBSET Nat
  BY <1>2, TellableTypes DEF Typed, Translator
<1> HIDE DEF L, M
<1>4. Typed(c, a, q, sl, lg, sp, td, dl + 1, h)
  BY <1>2 DEF Typed
<1>5. Below(c, a, dl + 1)
  <2> SUFFICES ASSUME c.status = "racing"
               PROVE  /\ \A l \in M : l.at <= Len(c.table) + (dl + 1)
                      /\ \A x \in a.seen : x <= Len(c.table) + (dl + 1)
    BY DEF Below, M
  <2>1. /\ \A l \in L : l.at <= Len(b.table) + dl
        /\ \A x \in a.seen : x <= Len(b.table) + dl
    BY DEF Fit, Below, L
  <2>2. Len(c.table) \in Nat /\ Len(b.table) \in Nat /\ dl \in Nat
    BY <1>2 DEF Typed, Box
  <2>3. \A x, y, z, d \in Nat : x <= y + d /\ z + 1 >= y => x <= z + (d + 1)
    OBVIOUS
  <2>4. \A l \in L : l.at \in Nat
    BY <1>3 DEF Lap
  <2>5. \A x \in Nat : x <= Len(b.table) + dl => x <= Len(c.table) + (dl + 1)
    <3> DEFINE y == Len(b.table)
               z == Len(c.table)
    <3>1. y \in Nat /\ z \in Nat /\ z + 1 >= y
      BY <2>2
    <3> HIDE DEF y, z
    <3>2. \A x \in Nat : x <= y + dl => x <= z + (dl + 1)
      BY <2>2, <2>3, <3>1
    <3> QED
      BY <3>2 DEF y, z
  <2> QED
    BY <1>1, <1>3, <2>1, <2>4, <2>5
<1>6. Sound(c, a, q, lg, sp, td)
  BY <1>1 DEF Fit, Sound, L, M
<1>7. Own(c, a, q, sl)
  BY <1>1 DEF Fit, Own, L, M
<1>8. Past(c, a, q, lg, sp, h)
  BY <1>1 DEF Fit, Past, L, M
<1>9. InStep(c, a) /\ Stepped(sl, h) /\ Down(q, up, dr)
  BY DEF Fit, InStep
<1> QED
  BY <1>4, <1>5, <1>6, <1>7, <1>8, <1>9 DEF Fit

\* A race begins on an empty table, with nothing held and nothing seen.
LEMMA FitBegins ==
    ASSUME NEW b, NEW a, NEW q, NEW sl, NEW lg, NEW sp, NEW td, NEW dl, NEW h, NEW up, NEW dr,
           Fit(b, a, q, sl, lg, sp, td, dl, h, up, dr),
           Tellable(b, a) = {}, up,
           NEW c \in Box, NEW e \in Translator, Tellable(c, e) = {}, e.seen = {}, InStep(c, e)
    PROVE  Fit(c, e, q \o <<Start>>, sl, lg, sp, td, dl, h, up, dr)
<1> DEFINE s == q \o <<Start>>
<1>1. Typed(b, a, q, sl, lg, sp, td, dl, h)
  BY DEF Fit
<1>2. s \in Seq(Event) /\ PassesIn(s) = PassesIn(q)
  <2> DEFINE one == <<Start>>
  <2>1. one \in Seq(Event) /\ PassesIn(one) = {}
    BY PassesInFew
  <2> HIDE DEF one
  <2>2. q \o one \in Seq(Event) /\ PassesIn(q \o one) = PassesIn(q) \cup PassesIn(one)
    BY <1>1, <2>1, PassesInBoth DEF Typed
  <2> QED
    BY <2>1, <2>2 DEF one
<1>3. Typed(c, e, s, sl, lg, sp, td, dl, h)
  BY <1>1, <1>2 DEF Typed
<1>4. Sound(c, e, s, lg, sp, td)
  <2>1. PassesIn(q) \cap lg = {} /\ td \subseteq lg \cup PassesIn(q) \cup sp \cup HeldLaps(a)
    BY DEF Fit, Sound
  <2>2. HeldLaps(a) = {}
    BY DEF Tellable
  <2> HIDE DEF s
  <2> QED
    BY <1>2, <2>1, <2>2 DEF Sound
<1>5. Own(c, e, s, sl)
  <2> SUFFICES ASSUME sl.n # 0, sl.staged, NEW j \in DOMAIN s, sl.started \/ j \in Behind(s),
                      NEW l \in s[j].laps
               PROVE  l.n = sl.n
    BY DEF Own
  <2>1. /\ Len(s) = Len(q) + 1 /\ Len(q) \in Nat
        /\ \A i \in DOMAIN q : s[i] = q[i]
        /\ s[Len(q) + 1] = Start
        /\ DOMAIN q = 1..Len(q) /\ DOMAIN s = 1..(Len(q) + 1)
    BY <1>1 DEF Typed
  <2> HIDE DEF s
  <2>2. Start.laps = {}
    BY DEF Start
  <2>3. j \in DOMAIN q
    BY <2>1, <2>2
  <2>4. j \in Behind(s) => j \in Behind(q)
    <3> SUFFICES ASSUME NEW i \in DOMAIN s, i < j, s[i] = Start
                 PROVE  j \in Behind(q)
      BY DEF Behind
    <3>1. i \in DOMAIN q
      BY <2>1, <2>3
    <3> QED
      BY <2>1, <2>3, <3>1 DEF Behind
  <2>5. \A i \in DOMAIN q : sl.started \/ i \in Behind(q) => \A m \in q[i].laps : m.n = sl.n
    BY DEF Fit, Own
  <2> QED
    BY <2>1, <2>3, <2>4, <2>5
<1>6. Below(c, e, dl)
  BY DEF Below
<1>7. Past(c, e, s, lg, sp, h)
  BY <1>2 DEF Fit, Past
<1>8. Down(s, up, dr)
  BY DEF Fit, Down
<1>9. Stepped(sl, h)
  BY DEF Fit
<1> QED
  BY <1>3, <1>4, <1>5, <1>6, <1>7, <1>8, <1>9 DEF Fit

LEMMA EmptiedIsEmpty ==
    ASSUME NEW b \in Box, NEW status \in Statuses
    PROVE  LET c == Emptied(b, status)
           IN  c \in Box /\ c.status = status /\ Recorder(c) = {}
<1> DEFINE c == Emptied(b, status)
           none == << >>
<1>1. none \in Seq(Lap) /\ ToSet(none) = {}
  BY DEF ToSet
<1>2. c = [b EXCEPT !.status = status, !.table = none, !.spawned = {}]
  BY DEF Emptied
<1> HIDE DEF c, none
<1>3. c.status = status /\ c.table = none /\ c.spawned = {}
  BY <1>2 DEF Box
<1>4. c \in Box
  BY <1>1, <1>2 DEF Box
<1>5. c \in Box /\ c.status = status /\ Recorder(c) = {}
  BY <1>1, <1>3, <1>4 DEF Recorder
<1> QED
  BY <1>5 DEF c

\* A timer that obeys the start passes on what is held, then starts afresh.
LEMMA FitStarts ==
    ASSUME NEW b, NEW a, NEW q, NEW sl, NEW lg, NEW sp, NEW td, NEW dl, NEW h, NEW dr,
           Fit(b, a, q, sl, lg, sp, td, dl, h, TRUE, dr),
           b.status = "ready", a.last # "racing"
    PROVE  LET r == StatusSeen(a, "racing", << >>)
           IN  Fit(Emptied(b, "racing"), r.a, q \o r.events, sl, lg, sp, td, dl, h, TRUE, dr)
<1> DEFINE r == StatusSeen(a, "racing", << >>)
           g == [a EXCEPT !.last = "racing"]
           none == << >>
           f == Flush(g, none)
           back == [f.a EXCEPT !.last = a.last]
           f0 == Result(back, f.events)
           c == Emptied(b, "racing")
           c0 == Emptied(b, "ready")
           e == [f.a EXCEPT !.seen = {}, !.fallback = FALSE]
<1>1. Typed(b, a, q, sl, lg, sp, td, dl, h)
  BY DEF Fit
<1>2. a \in Translator /\ b \in Box /\ q \in Seq(Event) /\ td \subseteq Lap
  BY <1>1 DEF Typed
<1>3. a.last # "racing"
  OBVIOUS
<1>4. g \in Translator /\ g.seen = a.seen /\ g.last = "racing"
      /\ \A l : l \in HeldLaps(g) <=> l \in HeldLaps(a) \/ l \in {}
  BY <1>2 DEF Translator, Statuses, HeldLaps
<1>5. r.a = e /\ r.events = Append(f.events, Start)
  BY <1>3 DEF StatusSeen, RaceStarted, Result
<1> HIDE DEF g, r, none
<1>6. Feeds(a, f, {}) /\ f.a.last = "racing" /\ HeldLaps(f.a) = {}
  <2>1. \A l : l \in HeldLaps(g) <=> l \in HeldLaps(a) \/ l \in {}
    BY <1>4
  <2>2. Feeds(a, Flush(g, none), {}) /\ Flush(g, none).a.last = g.last
        /\ HeldLaps(Flush(g, none).a) = {}
    <3>1. a \in Translator /\ g \in Translator /\ g.seen = a.seen
      BY <1>2, <1>4
    <3> QED
      BY <2>1, <3>1, FlushFeeds
  <2> QED
    BY <1>4, <2>2
<1> HIDE DEF f
<1>7. f.a \in Translator /\ f.events \in Seq(Event)
  BY <1>6 DEF Feeds
<1>8. back \in Translator /\ back.last = a.last /\ back.seen = f.a.seen /\ HeldLaps(back) = {}
  BY <1>2, <1>6, <1>7 DEF Translator, HeldLaps
<1>9. e \in Translator /\ e.seen = {} /\ e.last = "racing" /\ HeldLaps(e) = {}
  BY <1>6, <1>7 DEF Translator, HeldLaps
<1>10. f0.a = back /\ f0.events = f.events
  BY DEF Result
<1> HIDE DEF back, e, f0
<1>11. Feeds(a, f0, {})
  BY <1>6, <1>8, <1>10 DEF Feeds
<1>12. c \in Box /\ c.status = "racing" /\ Recorder(c) = {}
  BY <1>2, EmptiedIsEmpty DEF Statuses
<1>13. c0 \in Box /\ c0.status = "ready" /\ Recorder(c0) = {}
  BY <1>2, EmptiedIsEmpty DEF Statuses
<1> HIDE DEF c, c0
<1>14. Fit(c0, f0.a, q \o f0.events, sl, lg, sp, td \cup {}, dl, h, TRUE, dr)
  <2>1. {} \subseteq Tellable(b, a) /\ Recorder(c0) \subseteq Recorder(b)
    BY <1>13
  <2>2. InStep(c0, f0.a)
    BY <1>3, <1>8, <1>10, <1>13 DEF InStep
  <2>3. c0.status = "racing" => b.status = "racing" /\ Len(c0.table) = Len(b.table)
    BY <1>13
  <2> QED
    BY <1>11, <1>13, <2>1, <2>2, <2>3, FitFeeds
<1>15. td \cup {} = td
  OBVIOUS
<1>16. Fit(c0, back, q \o f.events, sl, lg, sp, td, dl, h, TRUE, dr)
  BY <1>10, <1>14, <1>15
<1>17. Fit(c, e, (q \o f.events) \o <<Start>>, sl, lg, sp, td, dl, h, TRUE, dr)
  <2>1. Tellable(c0, back) = {} /\ Tellable(c, e) = {} /\ InStep(c, e)
    BY <1>8, <1>9, <1>12, <1>13 DEF Tellable, InStep
  <2> QED
    BY <1>9, <1>12, <1>16, <2>1, FitBegins
<1>18. (q \o f.events) \o <<Start>> = q \o r.events
  <2>1. Start \in Event
    BY DEF Start, Event
  <2>2. Append(f.events, Start) = f.events \o <<Start>>
    BY <1>7, <2>1
  <2>3. (q \o f.events) \o <<Start>> = q \o (f.events \o <<Start>>)
    <3> DEFINE one == <<Start>>
    <3>1. one \in Seq(Event)
      BY <2>1
    <3> HIDE DEF one
    <3>2. \A x, y, z \in Seq(Event) : (x \o y) \o z = x \o (y \o z)
      BY ConcatAssociative
    <3>3. (q \o f.events) \o one = q \o (f.events \o one)
      BY <1>2, <1>7, <3>1, <3>2
    <3> QED
      BY <3>3 DEF one
  <2> QED
    BY <1>5, <2>2, <2>3
<1> QED
  BY <1>5, <1>17, <1>18 DEF c, r

\* The event counts on; a timer that races records the crossing, with a stamp
\* beyond all it has told and of a crossing none has been told of.
LEMMA FitLater ==
    ASSUME NEW b, NEW a, NEW q, NEW sl, NEW lg, NEW sp, NEW td, NEW dl, NEW h, NEW up, NEW dr,
           Fit(b, a, q, sl, lg, sp, td, dl, h, up, dr)
    PROVE  Fit(b, a, q, sl, lg, sp, td, dl, [h EXCEPT !.crossed = @ + 1], up, dr)
<1> DEFINE h2 == [h EXCEPT !.crossed = @ + 1]
           L == Tellable(b, a) \cup lg \cup PassesIn(q) \cup sp
<1>1. Typed(b, a, q, sl, lg, sp, td, dl, h)
  BY DEF Fit
<1>2. h2 \in Heat /\ h2.n = h.n /\ h2.phase = h.phase /\ h2.crossed = h.crossed + 1
  BY <1>1 DEF Typed, Heat
<1>3. L \subseteq Lap
  BY <1>1, TellableTypes, PassesInBoth, PassesInFew DEF Typed
<1> HIDE DEF h2
<1>4. Past(b, a, q, lg, sp, h2)
  <2>1. \A l \in L : l.k <= h.crossed
    BY DEF Fit, Past
  <2>2. \A l \in Lap : l.k <= h.crossed => l.k <= h2.crossed
    BY <1>1, <1>2 DEF Typed, Heat, Lap
  <2> QED
    BY <1>3, <2>1, <2>2 DEF Past
<1>5. Typed(b, a, q, sl, lg, sp, td, dl, h2)
  BY <1>1, <1>2 DEF Typed
<1>6. Stepped(sl, h2)
  BY <1>2 DEF Fit, Stepped
<1> QED
  BY <1>4, <1>5, <1>6 DEF Fit, h2

LEMMA FitRecords ==
    ASSUME NEW b, NEW a, NEW q, NEW sl, NEW lg, NEW sp, NEW td, NEW dl, NEW h, NEW up, NEW dr,
           Fit(b, a, q, sl, lg, sp, td, dl, h, up, dr),
           b.status = "racing", h.phase = "running",
           NEW lap, lap = [at |-> Len(b.table) + 1 + dl, n |-> h.n, k |-> h.crossed + 1]
    PROVE  Fit(Recorded(lap, b), a, q, sl, lg, sp, td, dl, [h EXCEPT !.crossed = @ + 1], up, dr)
<1> DEFINE h2 == [h EXCEPT !.crossed = @ + 1]
           c == Recorded(lap, b)
           L == Tellable(b, a)
<1>0. Fit(b, a, q, sl, lg, sp, td, dl, h2, up, dr)
  BY FitLater
<1>1. Typed(b, a, q, sl, lg, sp, td, dl, h)
  BY DEF Fit
<1>2. h2 \in Heat /\ h2.n = h.n /\ h2.phase = h.phase /\ h2.crossed = h.crossed + 1
  BY <1>1 DEF Typed, Heat
<1>3. b.table \in Seq(Lap) /\ Len(b.table) \in Nat /\ dl \in Nat
      /\ h.n \in Nat /\ h.crossed \in Nat
  BY <1>1 DEF Typed, Box, Heat
<1>4. lap \in Lap /\ lap.at = Len(b.table) + 1 + dl /\ lap.n = h.n /\ lap.k = h.crossed + 1
  BY <1>3 DEF Lap
<1>5. /\ c \in Box /\ c.status = "racing"
      /\ Len(c.table) = Len(b.table) + 1
      /\ Recorder(c) = Recorder(b) \cup {lap}
  <2>1. /\ c.table = Append(b.table, lap) /\ c.spawned = b.spawned \cup {lap}
        /\ c.status = "racing" /\ c \in Box
    <3>1. b \in Box /\ b.spawned \in SUBSET Lap
      BY <1>1 DEF Typed, Box
    <3>2. Append(b.table, lap) \in Seq(Lap) /\ b.spawned \cup {lap} \in SUBSET Lap
      BY <1>3, <1>4, <3>1
    <3>3. c = [b EXCEPT !.table = Append(b.table, lap), !.spawned = b.spawned \cup {lap}]
      BY DEF Recorded
    <3> QED
      BY <3>1, <3>2, <3>3 DEF Box
  <2> HIDE DEF c
  <2>2. ToSet(Append(b.table, lap)) = ToSet(b.table) \cup {lap}
    <3> DEFINE s == Append(b.table, lap)
    <3>1. /\ DOMAIN s = 1..(Len(b.table) + 1) /\ DOMAIN b.table = 1..Len(b.table)
          /\ s[Len(b.table) + 1] = lap
          /\ \A i \in DOMAIN b.table : s[i] = b.table[i]
      BY <1>3, <1>4
    <3> HIDE DEF s
    <3>2. ToSet(s) = ToSet(b.table) \cup {lap}
      <4>1. \A x \in ToSet(s) : x \in ToSet(b.table) \cup {lap}
        BY <1>3, <3>1 DEF ToSet
      <4>2. \A x \in ToSet(b.table) \cup {lap} : x \in ToSet(s)
        BY <1>3, <3>1 DEF ToSet
      <4> QED
        BY <4>1, <4>2
    <3> QED
      BY <3>2 DEF s
  <2>3. Len(c.table) = Len(b.table) + 1
    BY <1>3, <1>4, <2>1
  <2> QED
    BY <2>1, <2>2, <2>3 DEF Recorder
<1> HIDE DEF c, h2
<1>6. Tellable(c, a) = L \cup {lap}
  BY <1>5 DEF Tellable
<1>7. L \in SUBSET Lap /\ a.seen \in SUBSET Nat
  BY <1>1, TellableTypes DEF Typed, Translator
<1>8. /\ \A l \in L : l.at <= Len(b.table) + dl
      /\ \A x \in a.seen : x <= Len(b.table) + dl
  BY DEF Fit, Below
<1> DEFINE A == lg \cup PassesIn(q) \cup sp
<1>9. \A l \in L \cup A : l.k <= h.crossed
  BY DEF Fit, Past
<1>10. Sound(b, a, q, lg, sp, td)
  BY DEF Fit
<1>11. /\ \A l, m \in L : l.at = m.at => l = m
       /\ \A l \in L : l.at \in a.seen <=> l \in A
  BY <1>10 DEF Sound
<1>12. lap \notin A
  BY <1>3, <1>4, <1>9
<1>13. lap.at \notin a.seen /\ \A l \in L : l.at # lap.at
  <2>1. \A x \in Nat : x <= Len(b.table) + dl => x # Len(b.table) + 1 + dl
    BY <1>3
  <2>2. \A l \in L : l.at \in Nat
    BY <1>7 DEF Lap
  <2> QED
    BY <1>4, <1>7, <1>8, <2>1, <2>2
<1> HIDE DEF L
<1>14. Sound(c, a, q, lg, sp, td)
  <2>1. \A l, m \in L \cup {lap} : l.at = m.at => l = m
    BY <1>11, <1>13
  <2>2. \A l \in L \cup {lap} : l.at \in a.seen <=> l \in A
    BY <1>11, <1>12, <1>13
  <2> QED
    BY <1>6, <1>10, <2>1, <2>2 DEF Sound
<1>15. Below(c, a, dl)
  <2>1. \A x \in Nat : x <= Len(b.table) + dl => x <= (Len(b.table) + 1) + dl
    BY <1>3
  <2>2. lap.at <= (Len(b.table) + 1) + dl
    BY <1>3, <1>4
  <2>3. \A l \in L : l.at \in Nat
    BY <1>7 DEF Lap
  <2>4. \A l \in L \cup {lap} : l.at <= Len(c.table) + dl
    BY <1>5, <1>8, <2>1, <2>2, <2>3
  <2>5. \A x \in a.seen : x <= Len(c.table) + dl
    BY <1>5, <1>7, <1>8, <2>1
  <2> QED
    BY <1>6, <2>4, <2>5 DEF Below
<1>16. Own(c, a, q, sl)
  <2>1. Own(b, a, q, sl) /\ Stepped(sl, h)
    BY DEF Fit
  <2>2. sl.n # 0 => lap.n = sl.n
    BY <1>4, <2>1 DEF Stepped
  <2> QED
    BY <1>6, <2>1, <2>2 DEF Own, L
<1>17. Past(c, a, q, lg, sp, h2)
  <2>1. Past(b, a, q, lg, sp, h2)
    BY <1>0 DEF Fit
  <2>2. lap.k <= h2.crossed
    BY <1>2, <1>3, <1>4
  <2> QED
    BY <1>6, <2>1, <2>2 DEF Past, L
<1>18. Typed(c, a, q, sl, lg, sp, td, dl, h2)
  BY <1>1, <1>2, <1>5 DEF Typed
<1>19. InStep(c, a)
  BY <1>5 DEF Fit, InStep
<1>20. Stepped(sl, h2) /\ Down(q, up, dr)
  BY <1>0 DEF Fit
<1> QED
  BY <1>14, <1>15, <1>16, <1>17, <1>18, <1>19, <1>20 DEF Fit, c, h2

------------------------------------------------------------------------------
(* The invariant.                                                          *)

Shaped ==
    /\ box \in [Timers -> Box]
    /\ adapter \in [Timers -> Translator]
    /\ sink \in [Timers -> Seq(Event)]
    /\ slot \in [Timers -> Slot]
    /\ spent \in [Timers -> SUBSET Lap]
    /\ told \in [Timers -> SUBSET Lap]
    /\ link \in [Timers -> BOOLEAN]
    /\ driver \in [Timers -> {"down", "greeting", "live", "leaving"}]
    /\ heat \in Heat
    /\ left \in [deletions : 0..MaxDeletions, drops : 0..MaxDrops]

Deleted == MaxDeletions - left.deletions

FitAt(t) ==
    Fit(box[t], adapter[t], sink[t], slot[t], Logged(t), spent[t], told[t], Deleted, heat,
        link[t], driver[t])

InItsHeat == \A p \in BagToSet(log) : log[p] = 1 /\ p.lap.n = p.heat

Feed == Shaped /\ (\A t \in Timers : FitAt(t)) /\ InItsHeat

LEMMA DeletedType ==
    ASSUME Feed
    PROVE  Deleted \in Nat
<1>1. MaxDeletions \in Nat /\ left.deletions \in 0..MaxDeletions
  BY FeedBoundsAssumption DEF Feed, Shaped
<1> QED
  BY <1>1 DEF Deleted

\* What is kept per timer changes at one of them.
At(f, g, t, x) == g = [f EXCEPT ![t] = x]

\* A step of one timer: it stays fit, and the others are as they were.
LEMMA OneTimer ==
    ASSUME Feed, NEW t \in Timers,
           NEW b, NEW a, NEW q, NEW sl, NEW sp, NEW td, NEW up \in BOOLEAN,
           NEW dr \in {"down", "greeting", "live", "leaving"},
           Fit(b, a, q, sl, Logged(t), sp, td, Deleted, heat, up, dr),
           At(box, box', t, b), At(adapter, adapter', t, a), At(sink, sink', t, q),
           At(slot, slot', t, sl), At(spent, spent', t, sp), At(told, told', t, td),
           At(link, link', t, up), At(driver, driver', t, dr),
           log' = log, heat' = heat, left'.deletions = left.deletions,
           left' \in [deletions : 0..MaxDeletions, drops : 0..MaxDrops]
    PROVE  Feed'
<1>1. Typed(b, a, q, sl, Logged(t), sp, td, Deleted, heat)
  BY DEF Fit
<1>2. Shaped
  BY DEF Feed
<1>3. Shaped'
  <2>1. box' \in [Timers -> Box] /\ adapter' \in [Timers -> Translator]
    BY <1>1, <1>2 DEF Shaped, Typed, At
  <2>2. sink' \in [Timers -> Seq(Event)] /\ slot' \in [Timers -> Slot]
    BY <1>1, <1>2 DEF Shaped, Typed, At
  <2>3. spent' \in [Timers -> SUBSET Lap] /\ told' \in [Timers -> SUBSET Lap]
    <3>1. sp \in SUBSET Lap /\ td \in SUBSET Lap
      BY <1>1 DEF Typed
    <3>2. spent \in [Timers -> SUBSET Lap] /\ told \in [Timers -> SUBSET Lap]
      BY <1>2 DEF Shaped
    <3> QED
      BY <3>1, <3>2 DEF At
  <2>4. link' \in [Timers -> BOOLEAN] /\ driver' \in [Timers -> {"down", "greeting", "live", "leaving"}]
    BY <1>2 DEF Shaped, At
  <2>5. heat' \in Heat
    BY <1>2 DEF Shaped
  <2> QED
    BY <2>1, <2>2, <2>3, <2>4, <2>5 DEF Shaped
<1>4. Deleted' = Deleted /\ \A u : Logged(u)' = Logged(u)
  BY DEF Deleted, Logged
<1>5. ASSUME NEW u \in Timers PROVE FitAt(u)'
  <2>1. CASE u = t
    <3>1. /\ box'[t] = b /\ adapter'[t] = a /\ sink'[t] = q /\ slot'[t] = sl
          /\ spent'[t] = sp /\ told'[t] = td /\ link'[t] = up /\ driver'[t] = dr
      BY <1>2 DEF Shaped, At
    <3> QED
      BY <1>4, <2>1, <3>1 DEF FitAt
  <2>2. CASE u # t
    <3>1. /\ box'[u] = box[u] /\ adapter'[u] = adapter[u] /\ sink'[u] = sink[u]
          /\ slot'[u] = slot[u] /\ spent'[u] = spent[u] /\ told'[u] = told[u]
          /\ link'[u] = link[u] /\ driver'[u] = driver[u]
      BY <1>2, <2>2 DEF Shaped, At
    <3>2. FitAt(u)
      BY DEF Feed
    <3> QED
      BY <1>4, <3>1, <3>2 DEF FitAt
  <2> QED
    BY <2>1, <2>2
<1>6. InItsHeat'
  BY DEF Feed, InItsHeat
<1> QED
  BY <1>3, <1>5, <1>6 DEF Feed

\* What a step leaves alone, said of one timer.
LEMMA Alone ==
    ASSUME Shaped, NEW t \in Timers
    PROVE  /\ At(box, box, t, box[t])
           /\ At(adapter, adapter, t, adapter[t])
           /\ At(sink, sink, t, sink[t])
           /\ At(slot, slot, t, slot[t])
           /\ At(spent, spent, t, spent[t])
           /\ At(told, told, t, told[t])
           /\ At(link, link, t, link[t])
           /\ At(driver, driver, t, driver[t])
           /\ box[t] \in Box /\ adapter[t] \in Translator /\ sink[t] \in Seq(Event)
           /\ slot[t] \in Slot /\ spent[t] \in SUBSET Lap /\ told[t] \in SUBSET Lap
           /\ link[t] \in BOOLEAN /\ driver[t] \in {"down", "greeting", "live", "leaving"}
           /\ left \in [deletions : 0..MaxDeletions, drops : 0..MaxDrops]
<1>1. \A S, f : f \in [Timers -> S] => At(f, f, t, f[t]) /\ f[t] \in S
  BY DEF At
<1> QED
  BY <1>1 DEF Shaped

\* A frame that begins no race is heard from a timer, which may forget laps.
LEMMA HearsFit ==
    ASSUME Feed, NEW t \in Timers, NEW c \in Box, NEW r, NEW new,
           Feeds(adapter[t], r, new), new \subseteq Tellable(box[t], adapter[t]),
           link[t] \/ r.events = << >>,
           Recorder(c) \subseteq Recorder(box[t]),
           c.status = "racing" => box[t].status = "racing" /\ Len(c.table) = Len(box[t].table),
           InStep(c, r.a),
           At(box, box', t, c), At(adapter, adapter', t, r.a),
           At(sink, sink', t, sink[t] \o r.events), At(told, told', t, told[t] \cup new),
           UNCHANGED <<link, driver, slot, heat, log, spent, left>>
    PROVE  Feed'
<1>1. Shaped /\ FitAt(t)
  BY DEF Feed
<1>2. Fit(c, r.a, sink[t] \o r.events, slot[t], Logged(t), spent[t], told[t] \cup new,
          Deleted, heat, link[t], driver[t])
  BY <1>1, FitFeeds DEF FitAt
<1>3. /\ At(slot, slot', t, slot[t]) /\ At(spent, spent', t, spent[t])
      /\ At(link, link', t, link[t]) /\ At(driver, driver', t, driver[t])
      /\ link[t] \in BOOLEAN /\ driver[t] \in {"down", "greeting", "live", "leaving"}
      /\ left' \in [deletions : 0..MaxDeletions, drops : 0..MaxDrops]
  BY <1>1, Alone
<1> QED
  BY <1>2, <1>3, OneTimer

------------------------------------------------------------------------------
(* RotorHazard's steps.                                                    *)

\* Nothing has been told of, and no race is on.
LEMMA FeedInit == Init => Feed
<1> SUFFICES ASSUME Init PROVE Feed
  OBVIOUS
<1>1. << >> \in Seq(Lap) /\ << >> \in Seq(Event)
  OBVIOUS
<1>2. NoSlot \in Slot /\ NoSlot.n = 0 /\ ~NoSlot.started
  BY DEF NoSlot, Slot
<1>3. /\ box \in [Timers -> Box] /\ adapter \in [Timers -> Translator]
      /\ sink \in [Timers -> Seq(Event)] /\ slot \in [Timers -> Slot]
  BY <1>1, <1>2 DEF Init, Box, Translator, Statuses
<1>4. /\ spent \in [Timers -> SUBSET Lap] /\ told \in [Timers -> SUBSET Lap]
      /\ link \in [Timers -> BOOLEAN] /\ driver \in [Timers -> {"down", "greeting", "live", "leaving"}]
      /\ heat \in Heat
  <2>1. {} \in SUBSET Lap
    OBVIOUS
  <2>2. spent \in [Timers -> SUBSET Lap] /\ told \in [Timers -> SUBSET Lap]
    <3> DEFINE S == SUBSET Lap
    <3> HIDE DEF S
    <3>1. spent \in [Timers -> S] /\ told \in [Timers -> S]
      BY <2>1 DEF Init, S
    <3> QED
      BY <3>1 DEF S
  <2>3. link \in [Timers -> BOOLEAN] /\ driver \in [Timers -> {"down", "greeting", "live", "leaving"}]
    BY DEF Init
  <2>4. heat \in Heat
    BY DEF Init, Heat
  <2> QED
    BY <2>2, <2>3, <2>4
<1>5. left \in [deletions : 0..MaxDeletions, drops : 0..MaxDrops]
  BY FeedBoundsAssumption DEF Init
<1>6. Deleted \in Nat
  BY FeedBoundsAssumption DEF Init, Deleted
<1>7. BagToSet(log) = {}
  BY DEF Init, EmptyBag, SetToBag, BagToSet
<1>8. ASSUME NEW t \in Timers PROVE FitAt(t)
  <2>1. Logged(t) = {}
    BY <1>7 DEF Logged
  <2>2. /\ box[t] = [status |-> "ready", table |-> << >>, spawned |-> {}]
        /\ adapter[t] = [last |-> "none", seen |-> {}, held |-> {}, live |-> FALSE,
                         fallback |-> FALSE]
        /\ sink[t] = << >> /\ slot[t] = NoSlot /\ spent[t] = {} /\ told[t] = {}
        /\ ~link[t] /\ heat.phase = "none" /\ heat.crossed = 0
    BY DEF Init
  <2>3. Recorder(box[t]) = {} /\ HeldLaps(adapter[t]) = {}
    BY <2>2 DEF Recorder, HeldLaps, ToSet
  <2>4. Tellable(box[t], adapter[t]) = {} /\ PassesIn(sink[t]) = {}
    BY <2>2, <2>3, PassesInFew DEF Tellable
  <2>5. Typed(box[t], adapter[t], sink[t], slot[t], Logged(t), spent[t], told[t], Deleted, heat)
    BY <1>3, <1>4, <1>6, <2>1 DEF Typed
  <2>6. Sound(box[t], adapter[t], sink[t], Logged(t), spent[t], told[t])
    BY <2>1, <2>2, <2>4 DEF Sound
  <2>7. /\ Below(box[t], adapter[t], Deleted) /\ InStep(box[t], adapter[t])
        /\ Stepped(slot[t], heat) /\ Down(sink[t], link[t], driver[t])
    BY <1>2, <2>2 DEF Below, InStep, Stepped, Down
  <2>8. /\ Own(box[t], adapter[t], sink[t], slot[t])
        /\ Past(box[t], adapter[t], sink[t], Logged(t), spent[t], heat)
    BY <1>2, <2>1, <2>2, <2>4 DEF Own, Past
  <2> QED
    BY <2>5, <2>6, <2>7, <2>8 DEF FitAt, Fit
<1> QED
  BY <1>3, <1>4, <1>5, <1>7, <1>8 DEF Feed, Shaped, InItsHeat

\* A snapshot and a status, of a timer that has not moved.
LEMMA SendSnapshotFit ==
    ASSUME Feed, NEW t \in Timers, SendSnapshot(t)
    PROVE  Feed'
<1> DEFINE r == SnapshotSeen(adapter[t], box[t].table)
           new == ToSet(box[t].table)
<1>1. Shaped /\ FitAt(t)
  BY DEF Feed
<1>2. box[t] \in Box /\ adapter[t] \in Translator /\ At(box, box, t, box[t])
  BY <1>1, Alone
<1>3. box[t].table \in Seq(Lap)
  BY <1>2 DEF Box
<1>4. Feeds(adapter[t], r, new) /\ r.a.last = adapter[t].last
  BY <1>2, <1>3, SnapshotFeeds
<1> HIDE DEF r
<1>5. new \subseteq Tellable(box[t], adapter[t])
  BY DEF Tellable, Recorder
<1>6. InStep(box[t], r.a)
  BY <1>1, <1>4 DEF FitAt, Fit, InStep
<1>7. /\ At(adapter, adapter', t, r.a) /\ At(sink, sink', t, sink[t] \o r.events)
      /\ At(told, told', t, told[t] \cup new) /\ link[t] /\ box' = box
      /\ UNCHANGED <<link, driver, slot, heat, log, spent, left>>
  BY DEF SendSnapshot, Hears, At, r, timerVars, threadVars, eventVars
<1> HIDE DEF new
<1>8. At(box, box', t, box[t])
  BY <1>2, <1>7
<1> QED
  BY <1>2, <1>4, <1>5, <1>6, <1>7, <1>8, HearsFit

\* A status heard behind a change of the timer that begins no race.
LEMMA HearsStatus ==
    ASSUME Feed, NEW t \in Timers, NEW c \in Box, NEW table,
           c.status = "racing" => c = box[t],
           Recorder(c) \subseteq Recorder(box[t]), link[t],
           At(box, box', t, c), Hears(t, StatusSeen(adapter[t], c.status, table)),
           UNCHANGED <<link, driver, slot, heat, log, spent, left, told>>
    PROVE  Feed'
<1> DEFINE r == StatusSeen(adapter[t], c.status, table)
<1>1. Shaped /\ FitAt(t)
  BY DEF Feed
<1>2. /\ adapter[t] \in Translator /\ At(told, told, t, told[t])
      /\ told[t] \in SUBSET Lap
  BY <1>1, Alone
<1>3. c.status \in Statuses
  BY DEF Box
<1>4. InStep(box[t], adapter[t])
  BY <1>1 DEF FitAt, Fit
<1>5. c.status = "racing" => adapter[t].last = "racing"
  BY <1>4 DEF InStep
<1>6. Feeds(adapter[t], r, {}) /\ r.a.last = c.status
  BY <1>2, <1>3, <1>5, StatusFeeds
<1> HIDE DEF r
<1>7. InStep(c, r.a)
  BY <1>6 DEF InStep
<1>8. At(adapter, adapter', t, r.a) /\ At(sink, sink', t, sink[t] \o r.events)
  BY DEF Hears, At, r
<1>9. told[t] \cup {} = told[t] /\ {} \subseteq Tellable(box[t], adapter[t])
  OBVIOUS
<1>10. At(told, told', t, told[t] \cup {})
  BY <1>2, <1>9
<1>11. c.status = "racing" => box[t].status = "racing" /\ Len(c.table) = Len(box[t].table)
  OBVIOUS
<1> QED
  BY <1>6, <1>7, <1>8, <1>9, <1>10, <1>11, HearsFit

LEMMA SendStatusFit ==
    ASSUME Feed, NEW t \in Timers, SendStatus(t)
    PROVE  Feed'
<1>1. Shaped
  BY DEF Feed
<1>2. box[t] \in Box /\ At(box, box, t, box[t])
  BY <1>1, Alone
<1>3. /\ link[t] /\ Hears(t, StatusSeen(adapter[t], box[t].status, box[t].table))
      /\ UNCHANGED <<link, driver, slot, heat, log, spent, left, told>> /\ box' = box
  BY DEF SendStatus, timerVars, threadVars, eventVars
<1>4. At(box, box', t, box[t])
  BY <1>2, <1>3
<1> QED
  BY <1>2, <1>3, <1>4, HearsStatus

\* The plugin passes a lap the timer has recorded.
LEMMA PluginPassesFit ==
    ASSUME Feed, NEW t \in Timers, PluginPasses(t)
    PROVE  Feed'
<1>1. Shaped /\ FitAt(t)
  BY DEF Feed
<1>2. PICK lap \in box[t].spawned :
        /\ box' = [box EXCEPT ![t].spawned = @ \ {lap}]
        /\ IF link[t]
           THEN /\ Hears(t, PluginPassSeen(adapter[t], lap, box[t].table))
                /\ told' = [told EXCEPT ![t] = IF PluginMints(adapter[t]) THEN @ \cup {lap} ELSE @]
           ELSE UNCHANGED <<adapter, sink, told>>
        /\ UNCHANGED <<link, driver, slot, heat, log, spent, left>>
  BY DEF PluginPasses, threadVars, eventVars
<1>3. /\ box[t] \in Box /\ adapter[t] \in Translator /\ sink[t] \in Seq(Event)
      /\ At(adapter, adapter, t, adapter[t]) /\ At(sink, sink, t, sink[t])
      /\ At(told, told, t, told[t])
  BY <1>1, Alone
<1> DEFINE c == [box[t] EXCEPT !.spawned = @ \ {lap}]
           r == IF link[t] THEN PluginPassSeen(adapter[t], lap, box[t].table)
                ELSE Result(adapter[t], << >>)
           new == IF link[t] /\ PluginMints(adapter[t]) THEN {lap} ELSE {}
<1>4. lap \in Lap
  BY <1>3 DEF Box
<1>5. /\ c \in Box /\ c.status = box[t].status /\ c.table = box[t].table
      /\ Recorder(c) \subseteq Recorder(box[t])
  BY <1>3 DEF Box, Recorder
<1>6. At(box, box', t, c)
  BY <1>2 DEF At
<1> HIDE DEF c
<1>7. Feeds(adapter[t], r, new) /\ r.a.last = adapter[t].last /\ (link[t] \/ r.events = << >>)
  <2>1. CASE link[t]
    BY <1>3, <1>4, <2>1, PluginFeeds
  <2>2. CASE ~link[t]
    BY <1>3, <2>2, NothingFeeds
  <2> QED
    BY <2>1, <2>2
<1>8. new \subseteq Tellable(box[t], adapter[t])
  BY DEF Tellable, Recorder
<1>9. InStep(c, r.a)
  BY <1>1, <1>5, <1>7 DEF FitAt, Fit, InStep
<1>10. /\ At(adapter, adapter', t, r.a) /\ At(sink, sink', t, sink[t] \o r.events)
       /\ At(told, told', t, told[t] \cup new)
  <2>1. CASE link[t]
    <3>1. (IF PluginMints(adapter[t]) THEN told[t] \cup {lap} ELSE told[t]) = told[t] \cup new
      BY <2>1
    <3> QED
      BY <1>2, <2>1, <3>1 DEF Hears, At
  <2>2. CASE ~link[t]
    <3>1. r.a = adapter[t] /\ r.events = << >> /\ new = {}
      BY <1>3, <2>2, NothingFeeds
    <3> HIDE DEF r, new
    <3>2. sink[t] \o r.events = sink[t] /\ told[t] \cup new = told[t]
      BY <1>3, <3>1
    <3> QED
      BY <1>2, <1>3, <2>2, <3>1, <3>2
  <2> QED
    BY <2>1, <2>2
<1> HIDE DEF r, new
<1>11. UNCHANGED <<link, driver, slot, heat, log, spent, left>>
  BY <1>2
<1> QED
  BY <1>5, <1>6, <1>7, <1>8, <1>9, <1>10, <1>11, HearsFit

LEMMA PluginAnswersFit ==
    ASSUME Feed, NEW t \in Timers, PluginAnswers(t)
    PROVE  Feed'
<1> DEFINE r == SwitchSource(adapter[t], TRUE, box[t].table)
<1>1. Shaped /\ FitAt(t)
  BY DEF Feed
<1>2. /\ box[t] \in Box /\ adapter[t] \in Translator /\ At(box, box, t, box[t])
      /\ At(told, told, t, told[t])
  BY <1>1, Alone
<1>3. Feeds(adapter[t], r, {}) /\ r.a.last = adapter[t].last
  BY <1>2, SwitchFeeds
<1>4. /\ At(adapter, adapter', t, r.a) /\ At(sink, sink', t, sink[t] \o r.events)
      /\ told' = told /\ box' = box /\ link[t]
      /\ UNCHANGED <<link, driver, slot, heat, log, spent, left>>
  BY DEF PluginAnswers, Hears, At, timerVars, threadVars, eventVars
<1> HIDE DEF r
<1>5. told[t] \cup {} = told[t] /\ {} \subseteq Tellable(box[t], adapter[t])
  OBVIOUS
<1>6. At(told, told', t, told[t] \cup {}) /\ At(box, box', t, box[t])
  BY <1>2, <1>4, <1>5
<1>7. InStep(box[t], r.a)
  BY <1>1, <1>3 DEF FitAt, Fit, InStep
<1> QED
  BY <1>2, <1>3, <1>4, <1>5, <1>6, <1>7, HearsFit

\* A step of neither a timer nor a slot nor the log.
LEMMA Idle ==
    ASSUME Feed,
           UNCHANGED <<box, adapter, sink, slot, spent, told, link, driver, log, heat, left>>
    PROVE  Feed'
<1>1. Shaped'
  BY DEF Feed, Shaped
<1>2. Deleted' = Deleted /\ \A u : Logged(u)' = Logged(u)
  BY DEF Deleted, Logged
<1>3. \A t \in Timers : FitAt(t)'
  BY <1>2 DEF Feed, FitAt
<1>4. InItsHeat'
  BY DEF Feed, InItsHeat
<1> QED
  BY <1>1, <1>3, <1>4 DEF Feed

LEMMA RemoveAtFacts ==
    ASSUME NEW s \in Seq(Lap), NEW i \in DOMAIN s
    PROVE  /\ RemoveAt(s, i) \in Seq(Lap)
           /\ Len(RemoveAt(s, i)) + 1 = Len(s)
           /\ ToSet(RemoveAt(s, i)) \subseteq ToSet(s)
<1> DEFINE x == SubSeq(s, 1, i - 1)
           y == SubSeq(s, i + 1, Len(s))
<1>1. i \in 1..Len(s) /\ Len(s) \in Nat
  OBVIOUS
<1>2. x \in Seq(Lap) /\ Len(x) = i - 1 /\ \A j \in 1..(i - 1) : x[j] = s[j]
  BY <1>1
<1>3. y \in Seq(Lap) /\ Len(y) = Len(s) - i /\ \A j \in 1..(Len(s) - i) : y[j] = s[i + j]
  BY <1>1
<1> HIDE DEF x, y
<1>4. x \o y \in Seq(Lap) /\ Len(x \o y) = Len(s) - 1
  BY <1>1, <1>2, <1>3
<1>5. \A e \in ToSet(x \o y) : e \in ToSet(s)
  <2> SUFFICES ASSUME NEW j \in DOMAIN (x \o y) PROVE (x \o y)[j] \in ToSet(s)
    BY DEF ToSet
  <2>1. CASE j <= Len(x)
    <3>1. (x \o y)[j] = x[j] /\ j \in 1..(i - 1)
      BY <1>1, <1>2, <1>3, <2>1
    <3> QED
      BY <1>1, <1>2, <3>1 DEF ToSet
  <2>2. CASE j > Len(x)
    <3> DEFINE m == j - Len(x)
    <3>1. (x \o y)[j] = y[m] /\ m \in 1..(Len(s) - i)
      BY <1>1, <1>2, <1>3, <1>4, <2>2
    <3> HIDE DEF m
    <3>2. y[m] = s[i + m] /\ i + m \in 1..Len(s)
      BY <1>1, <1>3, <3>1
    <3>3. s[i + m] \in ToSet(s)
      BY <1>1, <3>2 DEF ToSet
    <3> QED
      BY <3>1, <3>2, <3>3
  <2> QED
    BY <1>2, <1>4, <2>1, <2>2
<1>6. RemoveAt(s, i) = x \o y
  BY DEF RemoveAt, x, y
<1> QED
  BY <1>1, <1>4, <1>5, <1>6

\* A deletion is counted for every timer, and shortens the table of one.
LEMMA DeleteLapFit ==
    ASSUME Feed, NEW t \in Timers, DeleteLap(t)
    PROVE  Feed'
<1>1. Shaped
  BY DEF Feed
<1>2. PICK i \in DOMAIN box[t].table : box' = [box EXCEPT ![t].table = RemoveAt(@, i)]
  BY DEF DeleteLap
<1> DEFINE c == [box[t] EXCEPT !.table = RemoveAt(@, i)]
<1>3. box[t] \in Box /\ box[t].table \in Seq(Lap)
  BY <1>1 DEF Shaped, Box
<1>4. /\ RemoveAt(box[t].table, i) \in Seq(Lap)
      /\ Len(RemoveAt(box[t].table, i)) + 1 = Len(box[t].table)
      /\ ToSet(RemoveAt(box[t].table, i)) \subseteq ToSet(box[t].table)
  BY <1>3, RemoveAtFacts
<1>5. /\ c \in Box /\ c.status = box[t].status /\ Len(c.table) + 1 >= Len(box[t].table)
      /\ Recorder(c) \subseteq Recorder(box[t])
  <2>1. c.table = RemoveAt(box[t].table, i) /\ c.spawned = box[t].spawned
        /\ c.status = box[t].status /\ c \in Box
    BY <1>3, <1>4 DEF Box
  <2> HIDE DEF c
  <2>2. Len(c.table) \in Nat /\ Len(c.table) + 1 = Len(box[t].table)
    BY <1>4, <2>1
  <2> QED
    BY <1>4, <2>1, <2>2 DEF Recorder
<1>6. box' = [box EXCEPT ![t] = c]
  BY <1>2
<1> HIDE DEF c
<1>7. /\ left.deletions > 0 /\ left' = [left EXCEPT !.deletions = @ - 1]
      /\ UNCHANGED <<adapter, sink, slot, spent, told, link, driver, log, heat>>
  BY DEF DeleteLap, Spend, threadVars, eventVars
<1>8. MaxDeletions \in Nat /\ left.deletions \in 0..MaxDeletions
  BY <1>1, FeedBoundsAssumption DEF Shaped
<1>9. /\ left' \in [deletions : 0..MaxDeletions, drops : 0..MaxDrops]
      /\ left'.deletions = left.deletions - 1
  <2>1. left.deletions - 1 \in 0..MaxDeletions
    BY <1>7, <1>8
  <2>2. left \in [deletions : 0..MaxDeletions, drops : 0..MaxDrops]
    BY <1>1 DEF Shaped
  <2> DEFINE fewer == left.deletions - 1
  <2>3. left' = [left EXCEPT !.deletions = fewer] /\ fewer \in 0..MaxDeletions
    BY <1>7, <2>1
  <2> HIDE DEF fewer
  <2>4. /\ left' \in [deletions : 0..MaxDeletions, drops : 0..MaxDrops]
        /\ left'.deletions = fewer
    BY <2>2, <2>3
  <2> QED
    BY <2>4 DEF fewer
<1>10. Deleted' = Deleted + 1
  BY <1>8, <1>9 DEF Deleted
<1>11. \A u : Logged(u)' = Logged(u)
  BY <1>7 DEF Logged
<1>12. ASSUME NEW u \in Timers PROVE FitAt(u)'
  <2>1. FitAt(u)
    BY DEF Feed
  <2> DEFINE d == IF u = t THEN c ELSE box[u]
  <2>2. box'[u] = d
    BY <1>1, <1>6 DEF Shaped
  <2>3. /\ d \in Box /\ Recorder(d) \subseteq Recorder(box[u]) /\ d.status = box[u].status
        /\ Len(d.table) + 1 >= Len(box[u].table)
    <3>1. CASE u = t
      BY <1>5, <3>1
    <3>2. CASE u # t
      <4>1. box[u] \in Box /\ Len(box[u].table) \in Nat
        BY <1>1 DEF Shaped, Box
      <4> QED
        BY <3>2, <4>1
    <3> QED
      BY <3>1, <3>2
  <2> HIDE DEF d
  <2>4. Fit(d, adapter[u], sink[u], slot[u], Logged(u), spent[u], told[u], Deleted + 1, heat,
            link[u], driver[u])
    BY <2>1, <2>3, FitDeletes DEF FitAt
  <2> QED
    BY <1>7, <1>10, <1>11, <2>2, <2>4 DEF FitAt
<1>13. Shaped'
  BY <1>1, <1>5, <1>6, <1>7, <1>9 DEF Shaped
<1>14. InItsHeat'
  BY <1>7 DEF Feed, InItsHeat
<1> QED
  BY <1>12, <1>13, <1>14 DEF Feed

\* A timer ends its race, or empties its table, and is not heard.
LEMMA UnheardFit ==
    ASSUME Feed, NEW t \in Timers, NEW c \in Box, c.status # "racing",
           Recorder(c) \subseteq Recorder(box[t]), At(box, box', t, c),
           UNCHANGED <<adapter, sink, link, driver, slot, heat, log, spent, left, told>>
    PROVE  Feed'
<1> DEFINE a == adapter[t]
           r == Result(a, << >>)
<1>1. Shaped
  BY DEF Feed
<1>2. /\ a \in Translator /\ sink[t] \in Seq(Event) /\ told[t] \in SUBSET Lap
      /\ At(told, told, t, told[t]) /\ At(adapter, adapter, t, a) /\ At(sink, sink, t, sink[t])
  BY <1>1, Alone
<1>3. Feeds(a, r, {}) /\ r.a = a /\ r.events = << >>
  BY <1>2, NothingFeeds
<1> HIDE DEF r
<1>4. /\ sink[t] \o r.events = sink[t] /\ told[t] \cup {} = told[t]
      /\ {} \subseteq Tellable(box[t], a)
  BY <1>2, <1>3
<1>5. InStep(c, r.a)
  BY DEF InStep
<1>6. /\ At(adapter, adapter', t, r.a) /\ At(sink, sink', t, sink[t] \o r.events)
      /\ At(told, told', t, told[t] \cup {})
  BY <1>2, <1>3, <1>4
<1>7. c.status = "racing" => box[t].status = "racing" /\ Len(c.table) = Len(box[t].table)
  OBVIOUS
<1> QED
  BY <1>3, <1>4, <1>5, <1>6, <1>7, HearsFit

\* An order is obeyed.
LEMMA ObeyFit ==
    ASSUME Feed, NEW t \in Timers, Obey(t)
    PROVE  Feed'
<1> DEFINE order == Head(orders[t])
           b == box[t]
           a == adapter[t]
           dun == StatusSeen(a, "done", b.table)
           ready == StatusSeen(dun.a, "ready", << >>)
           staging == StatusSeen(a, "ready", << >>)
           c == Emptied(b, "ready")
           stopped == [b EXCEPT !.status = "done"]
           deaf == UNCHANGED <<adapter, sink>>
<1>1. Shaped /\ FitAt(t)
  BY DEF Feed
<1>2. /\ b \in Box /\ a \in Translator /\ sink[t] \in Seq(Event) /\ told[t] \in SUBSET Lap
      /\ At(told, told, t, told[t]) /\ At(slot, slot, t, slot[t])
      /\ At(spent, spent, t, spent[t]) /\ At(link, link, t, link[t])
      /\ At(driver, driver, t, driver[t])
      /\ link[t] \in BOOLEAN /\ driver[t] \in {"down", "greeting", "live", "leaving"}
      /\ left \in [deletions : 0..MaxDeletions, drops : 0..MaxDrops]
  BY <1>1, Alone
<1>3. link[t] /\ UNCHANGED <<link, driver, slot, heat, log, spent, left, told>>
  BY DEF Obey, threadVars, eventVars
<1>4. \/ /\ b.status = "racing"
         /\ box' = [box EXCEPT ![t] = c]
         /\ Hears(t, Result(ready.a, dun.events \o ready.events))
      \/ /\ b.status # "racing"
         /\ box' = [box EXCEPT ![t] = c]
         /\ Hears(t, staging)
      \/ box' = [box EXCEPT ![t] = c] /\ deaf
      \/ /\ b.status = "ready"
         /\ box' = [box EXCEPT ![t] = Emptied(b, "racing")]
         /\ Hears(t, StatusSeen(staging.a, "racing", << >>))
      \/ /\ b.status = "racing"
         /\ box' = [box EXCEPT ![t].status = "done"]
         /\ Hears(t, dun)
      \/ box' = [box EXCEPT ![t].status = "done"] /\ deaf
      \/ UNCHANGED <<box, adapter, sink>>
  BY DEF Obey
<1>5. c \in Box /\ c.status = "ready" /\ Recorder(c) = {}
  BY <1>2, EmptiedIsEmpty DEF Statuses
<1>6. stopped \in Box /\ stopped.status = "done" /\ Recorder(stopped) = Recorder(b)
  BY <1>2 DEF Box, Statuses, Recorder
<1>7. InStep(b, a)
  BY <1>1 DEF FitAt, Fit
<1> HIDE DEF c, stopped, dun, ready, staging, deaf
<1>8. CASE /\ b.status = "racing"
           /\ box' = [box EXCEPT ![t] = c]
           /\ Hears(t, Result(ready.a, dun.events \o ready.events))
  <2>1. Feeds(a, dun, {}) /\ dun.a.last = "done"
    BY <1>2, StatusFeeds DEF dun, Statuses
  <2>2. dun.a \in Translator /\ dun.events \in Seq(Event)
    BY <2>1 DEF Feeds
  <2> DEFINE e == [dun.a EXCEPT !.last = "ready"]
  <2>3. ready.a = e /\ ready.events = << >>
    BY <2>1 DEF ready, StatusSeen, Result
  <2>4. e \in Translator /\ e.last = "ready" /\ e.seen = dun.a.seen
        /\ HeldLaps(e) = HeldLaps(dun.a)
    BY <2>2 DEF Translator, Statuses, HeldLaps
  <2> DEFINE r == Result(ready.a, dun.events \o ready.events)
  <2>5. r.a = e /\ r.events = dun.events
    <3>1. dun.events \o ready.events = dun.events
      BY <2>2, <2>3
    <3> QED
      BY <2>3, <3>1 DEF Result
  <2>6. At(adapter, adapter', t, r.a) /\ At(sink, sink', t, sink[t] \o r.events)
    BY <1>8 DEF Hears, At
  <2> HIDE DEF e, r
  <2>7. Feeds(a, r, {})
    BY <2>1, <2>4, <2>5 DEF Feeds
  <2>8. InStep(c, r.a)
    BY <1>5, <2>4, <2>5 DEF InStep
  <2>9. At(box, box', t, c)
    BY <1>8 DEF At
  <2>10. told[t] \cup {} = told[t] /\ {} \subseteq Tellable(b, a) /\ Recorder(c) \subseteq Recorder(b)
    BY <1>5
  <2>11. At(told, told', t, told[t] \cup {})
    BY <1>2, <1>3, <2>10
  <2>12. c.status = "racing" => b.status = "racing" /\ Len(c.table) = Len(b.table)
    BY <1>5
  <2> QED
    BY <1>3, <1>5, <2>6, <2>7, <2>8, <2>9, <2>10, <2>11, <2>12, HearsFit
<1>9. CASE /\ b.status # "racing"
           /\ box' = [box EXCEPT ![t] = c]
           /\ Hears(t, staging)
  <2> DEFINE none == << >>
  <2>1. At(box, box', t, c) /\ Hears(t, StatusSeen(a, c.status, none))
    BY <1>5, <1>9 DEF At, staging
  <2> HIDE DEF none
  <2> QED
    BY <1>3, <1>5, <2>1, HearsStatus
<1>10. CASE /\ b.status = "ready"
            /\ box' = [box EXCEPT ![t] = Emptied(b, "racing")]
            /\ Hears(t, StatusSeen(staging.a, "racing", << >>))
  <2> DEFINE r == StatusSeen(staging.a, "racing", << >>)
             d == Emptied(b, "racing")
             none == << >>
  <2>1. Fit(b, staging.a, sink[t], slot[t], Logged(t), spent[t], told[t], Deleted, heat, TRUE,
            driver[t])
    <3>1. "ready" \in Statuses
      BY DEF Statuses
    <3>2. /\ Feeds(a, StatusSeen(a, "ready", none), {})
          /\ StatusSeen(a, "ready", none).a.last = "ready"
          /\ StatusSeen(a, "ready", none).events = none
      BY <1>2, <3>1, StatusFeeds
    <3>3. Feeds(a, staging, {}) /\ staging.a.last = "ready" /\ staging.events = none
      BY <3>2 DEF staging
    <3>4. Fit(b, a, sink[t], slot[t], Logged(t), spent[t], told[t], Deleted, heat, TRUE, driver[t])
      BY <1>1, <1>2, <1>3 DEF FitAt
    <3>5. {} \subseteq Tellable(b, a) /\ InStep(b, staging.a)
      BY <1>10 DEF InStep
    <3>6. Fit(b, staging.a, sink[t] \o staging.events, slot[t], Logged(t), spent[t],
              told[t] \cup {}, Deleted, heat, TRUE, driver[t])
      BY <1>2, <3>3, <3>4, <3>5, FitFeeds
    <3>7. sink[t] \o staging.events = sink[t] /\ told[t] \cup {} = told[t]
      BY <1>2, <3>3
    <3> QED
      BY <3>6, <3>7
  <2>2. Fit(d, r.a, sink[t] \o r.events, slot[t], Logged(t), spent[t], told[t], Deleted, heat,
            TRUE, driver[t])
    <3>1. staging.a.last # "racing"
      <4>1. "ready" \in Statuses
        BY DEF Statuses
      <4>2. StatusSeen(a, "ready", none).a.last = "ready"
        BY <1>2, <4>1, StatusFeeds
      <4> QED
        BY <4>2 DEF staging
    <3> QED
      BY <1>10, <2>1, <3>1, FitStarts
  <2>3. At(box, box', t, d) /\ At(adapter, adapter', t, r.a)
        /\ At(sink, sink', t, sink[t] \o r.events)
    BY <1>10 DEF Hears, At
  <2> HIDE DEF r, d
  <2>4. At(link, link', t, TRUE)
    BY <1>2, <1>3
  <2>5. /\ At(told, told', t, told[t]) /\ At(slot, slot', t, slot[t])
        /\ At(spent, spent', t, spent[t]) /\ At(driver, driver', t, driver[t])
        /\ log' = log /\ heat' = heat /\ left'.deletions = left.deletions
        /\ left' \in [deletions : 0..MaxDeletions, drops : 0..MaxDrops]
    BY <1>2, <1>3
  <2> QED
    BY <1>2, <2>2, <2>3, <2>4, <2>5, OneTimer
<1>11. CASE /\ b.status = "racing"
            /\ box' = [box EXCEPT ![t].status = "done"]
            /\ Hears(t, dun)
  <2>1. At(box, box', t, stopped) /\ Hears(t, StatusSeen(a, stopped.status, b.table))
    BY <1>6, <1>11 DEF At, dun, stopped
  <2> QED
    BY <1>3, <1>6, <2>1, HearsStatus
<1>12. CASE UNCHANGED <<box, adapter, sink>>
  BY <1>3, <1>12, Idle
<1>13. ASSUME NEW d \in Box, d.status # "racing", Recorder(d) \subseteq Recorder(b),
              At(box, box', t, d), deaf
       PROVE  Feed'
  BY <1>2, <1>3, <1>13, UnheardFit DEF deaf
<1>14. CASE box' = [box EXCEPT ![t] = c] /\ deaf
  <2>1. At(box, box', t, c) /\ c.status # "racing" /\ Recorder(c) \subseteq Recorder(b)
    BY <1>5, <1>14 DEF At
  <2> QED
    BY <1>5, <1>13, <1>14, <2>1
<1>15. CASE box' = [box EXCEPT ![t].status = "done"] /\ deaf
  <2>1. At(box, box', t, stopped) /\ stopped.status # "racing"
        /\ Recorder(stopped) \subseteq Recorder(b)
    BY <1>6, <1>15 DEF At, stopped
  <2> QED
    BY <1>6, <1>13, <1>15, <2>1
<1> QED
  BY <1>4, <1>8, <1>9, <1>10, <1>11, <1>12, <1>14, <1>15

\* The laps are saved behind a race, heard or not.
LEMMA SaveFit ==
    ASSUME Feed, NEW t \in Timers, Save(t)
    PROVE  Feed'
<1> DEFINE b == box[t]
           a == adapter[t]
           c == Emptied(b, "ready")
<1>1. Shaped /\ FitAt(t)
  BY DEF Feed
<1>2. /\ b \in Box /\ a \in Translator /\ sink[t] \in Seq(Event) /\ told[t] \in SUBSET Lap
      /\ At(told, told, t, told[t]) /\ At(adapter, adapter, t, a) /\ At(sink, sink, t, sink[t])
  BY <1>1, Alone
<1>3. /\ b.status = "done" /\ box' = [box EXCEPT ![t] = c]
      /\ UNCHANGED <<link, driver, slot, heat, log, spent, left, told>>
  BY DEF Save, threadVars, eventVars
<1>4. c \in Box /\ c.status = "ready" /\ Recorder(c) = {}
  BY <1>2, EmptiedIsEmpty DEF Statuses
<1>5. At(box, box', t, c)
  BY <1>3 DEF At
<1> HIDE DEF c
<1>6. CASE link[t]
  <2> DEFINE none == << >>
  <2>1. Hears(t, StatusSeen(a, c.status, none))
    BY <1>4, <1>6 DEF Save
  <2> HIDE DEF none
  <2> QED
    BY <1>3, <1>4, <1>5, <1>6, <2>1, HearsStatus
<1>7. CASE ~link[t]
  <2>1. adapter' = adapter /\ sink' = sink
    BY <1>7 DEF Save
  <2>2. c.status # "racing" /\ Recorder(c) \subseteq Recorder(b)
    BY <1>4
  <2> QED
    BY <1>3, <1>4, <1>5, <2>1, <2>2, UnheardFit
<1> QED
  BY <1>6, <1>7

------------------------------------------------------------------------------
(* The thread's steps.                                                     *)

LEMMA DropLinkFit ==
    ASSUME Feed, NEW t \in Timers, DropLink(t)
    PROVE  Feed'
<1>1. Shaped /\ FitAt(t)
  BY DEF Feed
<1>2. /\ At(link, link', t, FALSE)
      /\ left.drops > 0 /\ left' = [left EXCEPT !.drops = @ - 1]
      /\ UNCHANGED <<box, adapter, sink, driver, slot, heat, log, told, spent>>
  BY DEF DropLink, Spend, At, threadVars, eventVars
<1>3. Fit(box[t], adapter[t], sink[t], slot[t], Logged(t), spent[t], told[t], Deleted, heat,
          FALSE, driver[t])
  <2>1. Down(sink[t], FALSE, driver[t])
    BY <1>1 DEF FitAt, Fit, Down
  <2> QED
    BY <1>1, <2>1, FitLinks DEF FitAt
<1>4. /\ left' \in [deletions : 0..MaxDeletions, drops : 0..MaxDrops]
      /\ left'.deletions = left.deletions
  <2>1. left \in [deletions : 0..MaxDeletions, drops : 0..MaxDrops] /\ MaxDrops \in Nat
    BY <1>1, FeedBoundsAssumption DEF Shaped
  <2> DEFINE fewer == left.drops - 1
  <2>2. fewer \in 0..MaxDrops /\ left' = [left EXCEPT !.drops = fewer]
    BY <1>2, <2>1
  <2> HIDE DEF fewer
  <2> QED
    BY <2>1, <2>2
<1>5. /\ At(box, box', t, box[t]) /\ At(adapter, adapter', t, adapter[t])
      /\ At(sink, sink', t, sink[t]) /\ At(slot, slot', t, slot[t])
      /\ At(spent, spent', t, spent[t]) /\ At(told, told', t, told[t])
      /\ At(driver, driver', t, driver[t])
      /\ driver[t] \in {"down", "greeting", "live", "leaving"}
  BY <1>1, <1>2, Alone
<1>6. log' = log /\ heat' = heat /\ FALSE \in BOOLEAN
  BY <1>2
<1> QED
  BY <1>2, <1>3, <1>4, <1>5, <1>6, OneTimer

\* A new link: what the change of source lets go of comes into an empty sink.
LEMMA Switched ==
    ASSUME Feed, NEW t \in Timers, driver[t] = "down"
    PROVE  LET r == SwitchSource(adapter[t], FALSE, box[t].table)
           IN  /\ sink[t] = << >> /\ ~link[t] /\ r.events \in Seq(Event)
               /\ Fit(box[t], r.a, r.events, slot[t], Logged(t), spent[t], told[t], Deleted,
                      heat, TRUE, "greeting")
<1> DEFINE r == SwitchSource(adapter[t], FALSE, box[t].table)
<1>1. Shaped /\ FitAt(t)
  BY DEF Feed
<1>2. /\ box[t] \in Box /\ adapter[t] \in Translator /\ sink[t] \in Seq(Event)
  BY <1>1, Alone
<1>3. sink[t] = << >> /\ ~link[t]
  BY <1>1 DEF FitAt, Fit, Down
<1>4. Feeds(adapter[t], r, {}) /\ r.a.last = adapter[t].last
  BY <1>2, SwitchFeeds
<1>5. r.events \in Seq(Event)
  BY <1>4 DEF Feeds
<1> HIDE DEF r
<1>6. Fit(box[t], adapter[t], sink[t], slot[t], Logged(t), spent[t], told[t], Deleted, heat,
          TRUE, "greeting")
  <2>1. Down(sink[t], TRUE, "greeting")
    BY DEF Down
  <2> QED
    BY <1>1, <2>1, FitLinks DEF FitAt
<1>7. InStep(box[t], r.a)
  BY <1>1, <1>4 DEF FitAt, Fit, InStep
<1>8. Fit(box[t], r.a, sink[t] \o r.events, slot[t], Logged(t), spent[t], told[t] \cup {},
          Deleted, heat, TRUE, "greeting")
  <2>1. {} \subseteq Tellable(box[t], adapter[t]) /\ Recorder(box[t]) \subseteq Recorder(box[t])
    OBVIOUS
  <2> QED
    BY <1>2, <1>4, <1>6, <1>7, <2>1, FitFeeds
<1>9. sink[t] \o r.events = r.events /\ told[t] \cup {} = told[t]
  BY <1>3, <1>5
<1> QED
  BY <1>3, <1>5, <1>8, <1>9 DEF r

LEMMA ConnectFit ==
    ASSUME Feed, NEW t \in Timers, Connect(t)
    PROVE  Feed'
<1> DEFINE r == SwitchSource(adapter[t], FALSE, box[t].table)
<1>1. Shaped
  BY DEF Feed
<1>2. /\ driver[t] = "down"
      /\ At(driver, driver', t, "greeting") /\ At(link, link', t, TRUE)
      /\ At(adapter, adapter', t, r.a) /\ At(sink, sink', t, r.events)
      /\ UNCHANGED <<box, slot, heat, log, told, spent, left>>
  BY DEF Connect, At, eventVars
<1>3. Fit(box[t], r.a, r.events, slot[t], Logged(t), spent[t], told[t], Deleted, heat,
          TRUE, "greeting")
  BY <1>2, Switched
<1> HIDE DEF r
<1>4. /\ At(box, box', t, box[t]) /\ At(slot, slot', t, slot[t])
      /\ At(spent, spent', t, spent[t]) /\ At(told, told', t, told[t])
      /\ left' \in [deletions : 0..MaxDeletions, drops : 0..MaxDrops]
      /\ log' = log /\ heat' = heat /\ left'.deletions = left.deletions
  BY <1>1, <1>2, Alone
<1> QED
  BY <1>2, <1>3, <1>4, OneTimer

LEMMA FailConnectFit ==
    ASSUME Feed, NEW t \in Timers, FailConnect(t)
    PROVE  Feed'
<1> DEFINE r == SwitchSource(adapter[t], FALSE, box[t].table)
           aside == spent[t] \cup PassesIn(r.events)
<1>1. Shaped
  BY DEF Feed
<1>2. /\ driver[t] = "down"
      /\ At(adapter, adapter', t, r.a) /\ At(spent, spent', t, aside)
      /\ UNCHANGED <<box, link, sink, driver, slot, heat, log, told, left>>
  BY DEF FailConnect, PutAside, At, timerVars, threadVars, eventVars
<1>3. /\ sink[t] = << >> /\ ~link[t]
      /\ Fit(box[t], r.a, r.events, slot[t], Logged(t), spent[t], told[t], Deleted, heat,
             TRUE, "greeting")
  BY <1>2, Switched
<1> HIDE DEF r
<1>4. slot[t] \in Slot
  BY <1>1 DEF Shaped
<1>5. Fit(box[t], r.a, << >>, slot[t], Logged(t) \cup {}, aside, told[t], Deleted, heat,
          TRUE, "greeting")
  <2>1. /\ {} \in SUBSET PassesIn(r.events) /\ PassesIn(r.events) \in SUBSET PassesIn(r.events)
        /\ {} \cup PassesIn(r.events) = PassesIn(r.events)
    OBVIOUS
  <2> QED
    BY <1>3, <1>4, <2>1, FitDrains
<1>6. Logged(t) \cup {} = Logged(t)
  OBVIOUS
<1>7. Fit(box[t], r.a, << >>, slot[t], Logged(t), aside, told[t], Deleted, heat,
          link[t], driver[t])
  <2>1. Down(<< >>, link[t], driver[t])
    BY <1>3 DEF Down
  <2>2. Fit(box[t], r.a, << >>, slot[t], Logged(t), aside, told[t], Deleted, heat,
            TRUE, "greeting")
    BY <1>5, <1>6
  <2> QED
    BY <2>1, <2>2, FitLinks
<1>8. /\ At(box, box', t, box[t]) /\ At(slot, slot', t, slot[t])
      /\ At(sink, sink', t, sink[t]) /\ At(told, told', t, told[t])
      /\ At(link, link', t, link[t]) /\ At(driver, driver', t, driver[t])
      /\ link[t] \in BOOLEAN /\ driver[t] \in {"down", "greeting", "live", "leaving"}
      /\ left' \in [deletions : 0..MaxDeletions, drops : 0..MaxDrops]
      /\ log' = log /\ heat' = heat /\ left'.deletions = left.deletions
  BY <1>1, <1>2, Alone
<1>9. Fit(box[t], r.a, sink[t], slot[t], Logged(t), aside, told[t], Deleted, heat,
          link[t], driver[t])
  BY <1>3, <1>7
<1> HIDE DEF aside
<1> QED
  BY <1>2, <1>8, <1>9, OneTimer

\* The thread's own step: it changes its place, its slot, and may discard the
\* sink; nothing of the timer.
LEMMA ThreadFit ==
    ASSUME Feed, NEW t \in Timers, NEW sl \in Slot, NEW dr \in {"down", "greeting", "live", "leaving"},
           \/ DiscardSink(t) /\ Own(box[t], adapter[t], << >>, sl)
           \/ UNCHANGED <<sink, spent>> /\ Own(box[t], adapter[t], sink[t], sl)
                /\ Down(sink[t], link[t], dr),
           Stepped(sl, heat), dr = "down" => ~link[t] /\ DiscardSink(t),
           At(slot, slot', t, sl), At(driver, driver', t, dr),
           UNCHANGED <<box, adapter, link, heat, log, told, left>>
    PROVE  Feed'
<1>1. Shaped /\ FitAt(t)
  BY DEF Feed
<1>2. /\ At(box, box', t, box[t]) /\ At(adapter, adapter', t, adapter[t])
      /\ At(told, told', t, told[t]) /\ At(link, link', t, link[t])
      /\ At(sink, sink, t, sink[t]) /\ At(spent, spent, t, spent[t])
      /\ link[t] \in BOOLEAN /\ slot[t] \in Slot
      /\ left' \in [deletions : 0..MaxDeletions, drops : 0..MaxDrops]
      /\ log' = log /\ heat' = heat /\ left'.deletions = left.deletions
      /\ heat \in Heat
  BY <1>1, Alone DEF Shaped
<1>3. CASE DiscardSink(t) /\ Own(box[t], adapter[t], << >>, sl)
  <2> DEFINE aside == spent[t] \cup PassesIn(sink[t])
             none == << >>
  <2>1. /\ At(sink, sink', t, none) /\ At(spent, spent', t, aside)
    BY <1>3 DEF DiscardSink, PutAside, At
  <2>2. Fit(box[t], adapter[t], none, slot[t], Logged(t) \cup {}, aside, told[t], Deleted, heat,
            link[t], driver[t])
    <3>1. /\ {} \in SUBSET PassesIn(sink[t]) /\ PassesIn(sink[t]) \in SUBSET PassesIn(sink[t])
          /\ {} \cup PassesIn(sink[t]) = PassesIn(sink[t])
      OBVIOUS
    <3> QED
      BY <1>1, <1>2, <3>1, FitDrains DEF FitAt
  <2>3. Logged(t) \cup {} = Logged(t)
    OBVIOUS
  <2>4. Down(none, link[t], dr) /\ Own(box[t], adapter[t], none, sl)
    BY <1>3 DEF Down
  <2> HIDE DEF aside, none
  <2>5. Fit(box[t], adapter[t], none, slot[t], Logged(t), aside, told[t], Deleted, heat,
            link[t], driver[t])
    BY <2>2, <2>3
  <2>6. Fit(box[t], adapter[t], none, slot[t], Logged(t), aside, told[t], Deleted, heat,
            link[t], dr)
    BY <2>4, <2>5, FitLinks
  <2>7. Fit(box[t], adapter[t], none, sl, Logged(t), aside, told[t], Deleted, heat, link[t], dr)
    BY <1>2, <2>4, <2>6, FitSlots
  <2> QED
    BY <1>2, <2>1, <2>7, OneTimer
<1>4. CASE UNCHANGED <<sink, spent>> /\ Own(box[t], adapter[t], sink[t], sl)
             /\ Down(sink[t], link[t], dr)
  <2>1. At(sink, sink', t, sink[t]) /\ At(spent, spent', t, spent[t])
    BY <1>2, <1>4
  <2>2. Fit(box[t], adapter[t], sink[t], slot[t], Logged(t), spent[t], told[t], Deleted, heat,
            link[t], dr)
    BY <1>1, <1>4, FitLinks DEF FitAt
  <2>3. Fit(box[t], adapter[t], sink[t], sl, Logged(t), spent[t], told[t], Deleted, heat,
            link[t], dr)
    BY <1>2, <1>4, <2>2, FitSlots
  <2> QED
    BY <1>2, <2>1, <2>3, OneTimer
<1> QED
  BY <1>3, <1>4

LEMMA ThreadStepsFit ==
    ASSUME Feed, NEW t \in Timers,
           \/ Greeted(t) \/ LoseLink(t) \/ Prepare(t) \/ Seat(t) \/ StageRace(t)
           \/ RetryStage(t) \/ GiveUpStage(t) \/ FinishRace(t) \/ SettleAgain(t) \/ ClearSlot(t)
    PROVE  Feed'
<1> DEFINE sl == slot[t]
           b == box[t]
           a == adapter[t]
           none == << >>
<1>1. Shaped /\ FitAt(t)
  BY DEF Feed
<1>2. /\ At(slot, slot, t, sl) /\ At(driver, driver, t, driver[t])
      /\ sl \in Slot /\ driver[t] \in {"down", "greeting", "live", "leaving"}
  BY <1>1, Alone
<1>3. Own(b, a, sink[t], sl) /\ Stepped(sl, heat) /\ Down(sink[t], link[t], driver[t])
  BY <1>1 DEF FitAt, Fit
<1>4. Own(b, a, none, sl)
  <2>1. ~Begins(none) /\ DOMAIN none = {}
    BY PassesInFew
  <2> QED
    BY <1>3, <2>1 DEF Own
<1>5. CASE Greeted(t)
  <2>1. /\ At(driver, driver', t, "live") /\ At(slot, slot', t, sl)
        /\ UNCHANGED <<sink, spent, box, adapter, link, heat, log, told, left>>
    BY <1>2, <1>5 DEF Greeted, At, timerVars, eventVars
  <2>2. Down(sink[t], link[t], "live")
    BY DEF Down
  <2> QED
    BY <1>2, <1>3, <2>1, <2>2, ThreadFit
<1>6. CASE LoseLink(t)
  <2>1. /\ At(driver, driver', t, "down") /\ At(slot, slot', t, sl)
        /\ ~link[t] /\ DiscardSink(t)
        /\ UNCHANGED <<box, adapter, link, heat, log, told, left>>
    BY <1>2, <1>6 DEF LoseLink, At, timerVars, eventVars
  <2> QED
    BY <1>2, <1>3, <1>4, <2>1, ThreadFit
<1>7. CASE Prepare(t) \/ Seat(t)
  <2>1. /\ At(driver, driver', t, driver[t]) /\ At(slot, slot', t, sl)
        /\ driver[t] = "live" /\ DiscardSink(t)
        /\ UNCHANGED <<box, adapter, link, heat, log, told, left>>
    BY <1>2, <1>7 DEF Prepare, Seat, Working, timerVars, eventVars
  <2>2. driver[t] = "down" => ~link[t] /\ DiscardSink(t)
    BY <2>1
  <2> QED
    BY <1>2, <1>3, <1>4, <2>1, <2>2, ThreadFit
<1>8. CASE StageRace(t)
  <2> DEFINE s2 == [sl EXCEPT !.staged = TRUE]
  <2>1. /\ At(driver, driver', t, driver[t]) /\ At(slot, slot', t, s2)
        /\ driver[t] = "live" /\ DiscardSink(t) /\ sl.n # 0 /\ ~sl.staged
        /\ UNCHANGED <<box, adapter, link, heat, log, told, left>>
    BY <1>2, <1>8 DEF StageRace, Working, At
  <2>2. s2 \in Slot /\ s2.n = sl.n /\ s2.staged /\ s2.started = sl.started
    BY <1>2 DEF Slot
  <2>3. ~sl.started
    BY <1>3, <2>1 DEF Stepped
  <2> HIDE DEF s2
  <2>4. Own(b, a, none, s2)
    <3>1. ~Begins(none) /\ DOMAIN none = {}
      BY PassesInFew
    <3> QED
      BY <2>2, <2>3, <3>1 DEF Own
  <2>5. Stepped(s2, heat)
    BY <1>3, <2>1, <2>2, <2>3 DEF Stepped
  <2>6. driver[t] = "down" => ~link[t] /\ DiscardSink(t)
    BY <2>1
  <2> QED
    BY <1>2, <2>1, <2>2, <2>4, <2>5, <2>6, ThreadFit
<1>9. CASE RetryStage(t) \/ GiveUpStage(t) \/ SettleAgain(t)
  <2>1. UNCHANGED <<box, adapter, sink, slot, spent, told, link, driver, log, heat, left>>
    BY <1>9 DEF RetryStage, GiveUpStage, SettleAgain, timerVars, threadVars, eventVars
  <2> QED
    BY <2>1, Idle
<1>10. CASE FinishRace(t)
  <2> DEFINE s2 == [sl EXCEPT !.done = TRUE]
  <2>1. /\ At(driver, driver', t, driver[t]) /\ At(slot, slot', t, s2)
        /\ driver[t] = "live" /\ (DiscardSink(t) \/ UNCHANGED <<sink, spent>>)
        /\ UNCHANGED <<box, adapter, link, heat, log, told, left>>
    BY <1>2, <1>10 DEF FinishRace, At
  <2>2. s2 \in Slot /\ s2.n = sl.n /\ s2.staged = sl.staged /\ s2.started = sl.started
    BY <1>2 DEF Slot
  <2> HIDE DEF s2
  <2>3. Own(b, a, none, s2) /\ Own(b, a, sink[t], s2)
    BY <1>3, <1>4, <2>2 DEF Own
  <2>4. Stepped(s2, heat)
    BY <1>3, <2>2 DEF Stepped
  <2>5. driver[t] = "down" => ~link[t] /\ DiscardSink(t)
    BY <2>1
  <2> QED
    BY <1>2, <1>3, <2>1, <2>2, <2>3, <2>4, <2>5, ThreadFit
<1>11. CASE ClearSlot(t)
  <2>1. /\ At(driver, driver', t, driver[t]) /\ At(slot, slot', t, NoSlot)
        /\ driver[t] = "live"
        /\ UNCHANGED <<sink, spent, box, adapter, link, heat, log, told, left>>
    BY <1>2, <1>11 DEF ClearSlot, At, timerVars
  <2>2. NoSlot \in Slot /\ NoSlot.n = 0 /\ ~NoSlot.started
    BY DEF NoSlot, Slot
  <2>3. Own(b, a, sink[t], NoSlot) /\ Stepped(NoSlot, heat)
    BY <2>2 DEF Own, Stepped
  <2>4. driver[t] = "down" => ~link[t] /\ DiscardSink(t)
    BY <2>1
  <2> QED
    BY <1>2, <1>3, <2>1, <2>2, <2>3, <2>4, ThreadFit
<1> QED
  BY <1>5, <1>6, <1>7, <1>8, <1>9, <1>10, <1>11

\* What a drain may record, of all it takes or of the part it gets to, is the armed
\* heat's own.
LEMMA RecordableIsOwn ==
    ASSUME Feed, NEW t \in Timers, slot[t].n = 0 \/ slot[t].staged,
           NEW s \in Seq(Event), Len(s) <= Len(sink[t]),
           \A j \in DOMAIN s : s[j] = sink[t][j]
    PROVE  /\ Recordable(t, s) \subseteq PassesIn(sink[t])
           /\ \A l \in Recordable(t, s) : l.n = slot[t].n
           /\ Start \in ToSet(s) => Begins(sink[t])
<1> DEFINE q == sink[t]
<1>1. Own(box[t], adapter[t], q, slot[t])
  BY DEF Feed, FitAt, Fit
<1>2. q \in Seq(Event)
  BY DEF Feed, Shaped
<1>3. DOMAIN s \subseteq DOMAIN q /\ Behind(s) \subseteq Behind(q) \cap DOMAIN s
  <2>1. DOMAIN s \subseteq DOMAIN q
    BY <1>2
  <2> HIDE DEF q
  <2>2. \A j \in Behind(s) : j \in Behind(q) \cap DOMAIN s
    BY <2>1 DEF Behind, q
  <2> QED
    BY <2>1, <2>2
<1> HIDE DEF q
<1>4. \A l : l \in PassesIn(s) <=> \E j \in DOMAIN s : l \in s[j].laps
  BY DEF PassesIn, ToSet
<1>5. \A l : l \in PassesIn(q) <=> \E j \in DOMAIN q : l \in q[j].laps
  BY DEF PassesIn, ToSet
<1>6. \A j \in DOMAIN s : s[j] = q[j]
  BY DEF q
<1>7. Start \in ToSet(s) => Begins(q)
  BY <1>3, <1>6 DEF Begins, ToSet
<1>8. CASE slot[t].n = 0
  BY <1>7, <1>8 DEF Recordable, q
<1>9. CASE slot[t].n # 0 /\ slot[t].started
  <2>1. Recordable(t, s) = PassesIn(s)
    BY <1>9 DEF Recordable
  <2>2. \A j \in DOMAIN q : \A l \in q[j].laps : l.n = slot[t].n
    BY <1>1, <1>9 DEF Own
  <2> QED
    BY <1>3, <1>4, <1>5, <1>6, <1>7, <2>1, <2>2 DEF q
<1>10. CASE slot[t].n # 0 /\ ~slot[t].started
  <2>1. Recordable(t, s) = UNION {s[j].laps : j \in Behind(s)}
    BY <1>10 DEF Recordable
  <2>2. \A j \in Behind(q) : \A l \in q[j].laps : l.n = slot[t].n
    <3>1. Behind(q) \subseteq DOMAIN q
      BY DEF Behind
    <3> QED
      BY <1>1, <1>10, <3>1 DEF Own
  <2>3. \A l \in Recordable(t, s) : \E j \in Behind(q) \cap DOMAIN s : l \in q[j].laps
    BY <1>3, <1>6, <2>1
  <2> QED
    BY <1>3, <1>5, <1>7, <2>2, <2>3 DEF q
<1> QED
  BY <1>8, <1>9, <1>10

\* A drain, all of it or in part: each pass it lets in is new to the log.
LEMMA RecordsFit ==
    ASSUME Feed, NEW t \in Timers,
           NEW adm \in SUBSET PassesIn(sink[t]), \A l \in adm : l.n = slot[t].n,
           NEW sl \in Slot, sl.n = slot[t].n, sl.staged = slot[t].staged,
           sl.started => slot[t].started \/ (slot[t].n # 0 /\ slot[t].staged /\ Begins(sink[t])),
           NEW dr \in {"live", "leaving"},
           At(sink, sink', t, << >>), At(slot, slot', t, sl), At(driver, driver', t, dr),
           At(spent, spent', t, spent[t] \cup (PassesIn(sink[t]) \ adm)),
           log' = log (+) AsPasses(t, adm),
           UNCHANGED <<box, adapter, told, link, heat>>, left'.deletions = left.deletions,
           left' \in [deletions : 0..MaxDeletions, drops : 0..MaxDrops]
    PROVE  Feed'
<1> DEFINE P == PassesIn(sink[t])
           put == P \ adm
           S == {[timer |-> t, heat |-> slot[t].n, lap |-> l] : l \in adm}
           none == << >>
<1>1. Shaped /\ FitAt(t) /\ InItsHeat
  BY DEF Feed
<1>2. /\ At(sink, sink', t, none)
      /\ At(slot, slot', t, sl)
      /\ At(driver, driver', t, dr)
      /\ At(spent, spent', t, spent[t] \cup put)
      /\ log' = log (+) SetToBag(S)
      /\ UNCHANGED <<box, adapter, told, link, heat>> /\ left'.deletions = left.deletions
  BY DEF AsPasses
<1>3. adm \subseteq P /\ \A l \in adm : l.n = slot[t].n
  OBVIOUS
<1>8. Fit(box[t], adapter[t], none, sl, Logged(t) \cup adm, spent[t] \cup put, told[t], Deleted,
          heat, link[t], dr)
  <2>1. adm \in SUBSET P /\ put \in SUBSET P /\ adm \cup put = P
    BY <1>3
  <2>2. Down(none, link[t], dr)
    BY DEF Down
  <2> HIDE DEF put, none
  <2>3. Fit(box[t], adapter[t], none, sl, Logged(t) \cup adm, spent[t] \cup put, told[t],
            Deleted, heat, link[t], driver[t])
    BY <1>1, <2>1, FitDrains DEF FitAt, none
  <2> QED
    BY <2>2, <2>3, FitLinks
<1> HIDE DEF put, none
<1>9. \A p \in S : p.timer = t /\ p.heat = slot[t].n /\ p.lap \in adm
  OBVIOUS
<1>10. \A l \in adm : \E p \in S : p.lap = l
  <2> SUFFICES ASSUME NEW l \in adm PROVE \E p \in S : p.lap = l
    OBVIOUS
  <2>1. [timer |-> t, heat |-> slot[t].n, lap |-> l] \in S
    OBVIOUS
  <2> QED
    BY <2>1
<1> HIDE DEF S
<1>11. DOMAIN log' = DOMAIN log \cup S
  BY <1>2 DEF SetToBag, (+)
<1>12. P \cap Logged(t) = {}
  BY <1>1 DEF FitAt, Fit, Sound
<1>13. \A p \in S : p \notin DOMAIN log
  <2> SUFFICES ASSUME NEW p \in S, p \in DOMAIN log PROVE FALSE
    OBVIOUS
  <2>1. p.lap \in Logged(t)
    BY <1>9 DEF Logged, BagToSet
  <2> QED
    BY <1>3, <1>9, <1>12, <2>1
<1>14. \A p \in DOMAIN log : log'[p] = log[p]
  <2> SUFFICES ASSUME NEW p \in DOMAIN log PROVE log'[p] = log[p]
    OBVIOUS
  <2>1. p \notin S /\ log[p] = 1
    BY <1>1, <1>13 DEF InItsHeat, BagToSet
  <2>2. log'[p] = log[p] + 0
    BY <1>2, <2>1 DEF SetToBag, (+)
  <2> QED
    BY <2>1, <2>2
<1>15. \A p \in S : log'[p] = 1
  <2> SUFFICES ASSUME NEW p \in S PROVE log'[p] = 1
    OBVIOUS
  <2>1. log'[p] = 0 + 1
    BY <1>2, <1>13 DEF SetToBag, (+)
  <2> QED
    BY <2>1
<1>16. InItsHeat'
  <2>1. \A p \in DOMAIN log : log[p] = 1 /\ p.lap.n = p.heat
    BY <1>1 DEF InItsHeat, BagToSet
  <2>2. \A p \in S : p.lap.n = p.heat
    BY <1>3, <1>9
  <2>3. \A p \in DOMAIN log' : log'[p] = 1 /\ p.lap.n = p.heat
    BY <1>11, <1>14, <1>15, <2>1, <2>2
  <2> QED
    BY <2>3 DEF InItsHeat, BagToSet
<1>17. Logged(t)' = Logged(t) \cup adm
  <2>1. \A l \in Logged(t)' : l \in Logged(t) \cup adm
    BY <1>9, <1>11 DEF Logged, BagToSet
  <2>2. \A l \in Logged(t) : l \in Logged(t)'
    BY <1>11 DEF Logged, BagToSet
  <2>3. \A l \in adm : l \in Logged(t)'
    BY <1>9, <1>10, <1>11 DEF Logged, BagToSet
  <2> QED
    BY <2>1, <2>2, <2>3
<1>18. ASSUME NEW u \in Timers, u # t PROVE Logged(u)' = Logged(u)
  <2>1. \A p : p.timer = u => (p \in DOMAIN log' <=> p \in DOMAIN log)
    BY <1>9, <1>11, <1>18
  <2> QED
    BY <2>1 DEF Logged, BagToSet
<1>19. Deleted' = Deleted
  BY <1>2 DEF Deleted
<1>20. ASSUME NEW u \in Timers PROVE FitAt(u)'
  <2>1. CASE u = t
    <3>1. /\ sink'[t] = none /\ slot'[t] = sl /\ spent'[t] = spent[t] \cup put
          /\ driver'[t] = dr
      BY <1>1, <1>2 DEF Shaped, At
    <3> QED
      BY <1>2, <1>8, <1>17, <1>19, <2>1, <3>1 DEF FitAt
  <2>2. CASE u # t
    <3>1. /\ sink'[u] = sink[u] /\ slot'[u] = slot[u] /\ spent'[u] = spent[u]
          /\ driver'[u] = driver[u]
      BY <1>1, <1>2, <2>2 DEF Shaped, At
    <3>2. FitAt(u)
      BY DEF Feed
    <3> QED
      BY <1>2, <1>18, <1>19, <2>2, <3>1, <3>2 DEF FitAt
  <2> QED
    BY <2>1, <2>2
<1>21. Shaped'
  <2>1. none \in Seq(Event)
    BY DEF none
  <2>2. sink' \in [Timers -> Seq(Event)] /\ slot' \in [Timers -> Slot]
    BY <1>1, <1>2, <2>1 DEF Shaped, At
  <2>3. spent' \in [Timers -> SUBSET Lap]
    <3>1. spent[t] \cup put \in SUBSET Lap
      BY <1>8 DEF Fit, Typed
    <3>2. spent \in [Timers -> SUBSET Lap]
      BY <1>1 DEF Shaped
    <3> QED
      BY <1>2, <3>1, <3>2 DEF At
  <2>4. driver' \in [Timers -> {"down", "greeting", "live", "leaving"}]
    BY <1>1, <1>2 DEF Shaped, At
  <2> QED
    BY <1>1, <1>2, <2>2, <2>3, <2>4 DEF Shaped
<1> QED
  BY <1>16, <1>20, <1>21 DEF Feed

LEMMA DrainFit ==
    ASSUME Feed, NEW t \in Timers, Drain(t)
    PROVE  Feed'
<1> DEFINE q == sink[t]
           adm == IF gate = t THEN Recordable(t, q) ELSE {}
           begun == slot[t].started \/ (slot[t].n # 0 /\ Start \in ToSet(q))
           sl == [slot[t] EXCEPT !.started = begun]
<1>1. Shaped
  BY DEF Feed
<1>2. /\ driver[t] = "live" /\ (slot[t].n = 0 \/ slot[t].staged)
      /\ At(sink, sink', t, << >>)
      /\ At(slot, slot', t, sl)
      /\ At(spent, spent', t, spent[t] \cup (PassesIn(q) \ adm))
      /\ log' = log (+) AsPasses(t, adm)
      /\ UNCHANGED <<box, adapter, told, link, heat>> /\ driver' = driver /\ left' = left
  BY DEF Drain, At, timerVars
<1>3. /\ slot[t] \in Slot /\ q \in Seq(Event) /\ At(driver, driver, t, driver[t])
      /\ left \in [deletions : 0..MaxDeletions, drops : 0..MaxDrops]
  BY <1>1, Alone
<1>4. /\ Recordable(t, q) \subseteq PassesIn(q)
      /\ \A l \in Recordable(t, q) : l.n = slot[t].n
      /\ Start \in ToSet(q) => Begins(q)
  BY <1>2, <1>3, RecordableIsOwn
<1>5. adm \in SUBSET PassesIn(q) /\ \A l \in adm : l.n = slot[t].n
  BY <1>4
<1>6. begun \in BOOLEAN
  BY <1>3 DEF Slot
<1>7. sl \in Slot /\ sl.n = slot[t].n /\ sl.staged = slot[t].staged /\ sl.started = begun
  BY <1>3, <1>6 DEF Slot
<1>8. sl.started => slot[t].started \/ (slot[t].n # 0 /\ slot[t].staged /\ Begins(q))
  BY <1>2, <1>4, <1>7
<1>9. /\ At(driver, driver', t, "live") /\ "live" \in {"live", "leaving"}
      /\ left'.deletions = left.deletions
      /\ left' \in [deletions : 0..MaxDeletions, drops : 0..MaxDrops]
  BY <1>2, <1>3
<1> HIDE DEF adm, sl, begun
<1> QED
  BY <1>2, <1>5, <1>7, <1>8, <1>9, RecordsFit

\* The drain the log cuts short.
LEMMA FailDrainFit ==
    ASSUME Feed, NEW t \in Timers, FailDrain(t)
    PROVE  Feed'
<1> DEFINE q == sink[t]
<1>1. Shaped
  BY DEF Feed
<1> DEFINE Cut(i, lost) ==
             /\ slot' = [slot EXCEPT ![t].started = @ \/ Start \in ToSet(SubSeq(q, 1, i))]
             /\ log' = log (+) AsPasses(t, Recordable(t, SubSeq(q, 1, i)) \ lost)
             /\ spent' = [spent EXCEPT ![t] =
                             @ \cup (PassesIn(q) \ (Recordable(t, SubSeq(q, 1, i)) \ lost))]
<1>0. PICK i \in 0 .. Len(q) : \E lost \in SUBSET (IF i = 0 THEN {} ELSE q[i].laps) : Cut(i, lost)
  BY DEF FailDrain
<1>2. PICK lost \in SUBSET (IF i = 0 THEN {} ELSE q[i].laps) : Cut(i, lost)
  BY <1>0
<1> DEFINE s == SubSeq(q, 1, i)
           adm == Recordable(t, s) \ lost
           begun == slot[t].started \/ Start \in ToSet(s)
           sl == [slot[t] EXCEPT !.started = begun]
<1>3. /\ slot[t].n # 0 /\ slot[t].staged
      /\ left.drops > 0 /\ left' = [left EXCEPT !.drops = @ - 1]
      /\ At(sink, sink', t, << >>) /\ At(driver, driver', t, "leaving")
      /\ UNCHANGED <<box, adapter, told, link, heat>>
  BY DEF FailDrain, Spend, At
<1>4. /\ slot[t] \in Slot /\ q \in Seq(Event)
      /\ left \in [deletions : 0..MaxDeletions, drops : 0..MaxDrops]
  BY <1>1, Alone
<1>5. s \in Seq(Event) /\ Len(s) <= Len(q) /\ \A j \in DOMAIN s : s[j] = q[j]
  BY <1>4
<1> HIDE DEF s
<1>6. /\ Recordable(t, s) \subseteq PassesIn(q)
      /\ \A l \in Recordable(t, s) : l.n = slot[t].n
      /\ Start \in ToSet(s) => Begins(q)
  BY <1>3, <1>5, RecordableIsOwn
<1>7. adm \in SUBSET PassesIn(q) /\ \A l \in adm : l.n = slot[t].n
  BY <1>6
<1>8. /\ At(slot, slot', t, sl) /\ log' = log (+) AsPasses(t, adm)
      /\ At(spent, spent', t, spent[t] \cup (PassesIn(q) \ adm))
  BY <1>2 DEF At, s
<1>9. begun \in BOOLEAN
  BY <1>4 DEF Slot
<1>10. sl \in Slot /\ sl.n = slot[t].n /\ sl.staged = slot[t].staged /\ sl.started = begun
  BY <1>4, <1>9 DEF Slot
<1>11. sl.started => slot[t].started \/ (slot[t].n # 0 /\ slot[t].staged /\ Begins(q))
  BY <1>3, <1>6, <1>10
<1>12. /\ left'.deletions = left.deletions
       /\ left' \in [deletions : 0..MaxDeletions, drops : 0..MaxDrops]
  <2>1. MaxDrops \in Nat
    BY FeedBoundsAssumption
  <2> DEFINE fewer == left.drops - 1
  <2>2. fewer \in 0..MaxDrops /\ left' = [left EXCEPT !.drops = fewer]
    BY <1>3, <1>4, <2>1
  <2> HIDE DEF fewer
  <2> QED
    BY <1>4, <2>2
<1>13. "leaving" \in {"live", "leaving"}
  OBVIOUS
<1> HIDE DEF adm, sl, begun
<1> QED
  BY <1>3, <1>7, <1>8, <1>10, <1>11, <1>12, <1>13, RecordsFit

\* What was not drained on the link that is closed is put aside.
LEMMA LeaveFit ==
    ASSUME Feed, NEW t \in Timers, Leave(t)
    PROVE  Feed'
<1> DEFINE none == << >>
           P == PassesIn(sink[t])
<1>1. Shaped /\ FitAt(t)
  BY DEF Feed
<1>2. /\ At(sink, sink', t, none) /\ At(spent, spent', t, spent[t] \cup P)
      /\ At(driver, driver', t, "down") /\ At(link, link', t, FALSE)
      /\ UNCHANGED <<box, adapter, slot, heat, log, told, left>>
  BY DEF Leave, DiscardSink, PutAside, At, eventVars
<1>3. /\ At(box, box', t, box[t]) /\ At(adapter, adapter', t, adapter[t])
      /\ At(slot, slot', t, slot[t]) /\ At(told, told', t, told[t])
      /\ slot[t] \in Slot /\ left'.deletions = left.deletions
      /\ left' \in [deletions : 0..MaxDeletions, drops : 0..MaxDrops]
      /\ FALSE \in BOOLEAN /\ "down" \in {"down", "greeting", "live", "leaving"}
  BY <1>1, <1>2, Alone
<1>4. {} \in SUBSET P /\ P \in SUBSET P /\ {} \cup P = P /\ Logged(t) \cup {} = Logged(t)
  OBVIOUS
<1> HIDE DEF P
<1>5. Fit(box[t], adapter[t], none, slot[t], Logged(t) \cup {}, spent[t] \cup P, told[t],
          Deleted, heat, link[t], driver[t])
  BY <1>1, <1>3, <1>4, FitDrains DEF FitAt, P
<1>6. Down(none, FALSE, "down")
  BY DEF Down
<1> HIDE DEF none
<1>7. Fit(box[t], adapter[t], none, slot[t], Logged(t), spent[t] \cup P, told[t],
          Deleted, heat, link[t], driver[t])
  BY <1>4, <1>5
<1>8. Fit(box[t], adapter[t], none, slot[t], Logged(t), spent[t] \cup P, told[t],
          Deleted, heat, FALSE, "down")
  BY <1>6, <1>7, FitLinks
<1> QED
  BY <1>2, <1>3, <1>8, OneTimer

------------------------------------------------------------------------------
(* The bridge's steps, and the crossing.                                   *)

\* Another heat, another phase, another arming.
LEMMA EventFit ==
    ASSUME Feed, slot' \in [Timers -> Slot], heat' \in Heat, heat'.crossed = heat.crossed,
           \A t \in Timers : /\ Own(box[t], adapter[t], sink[t], slot'[t])
                             /\ Stepped(slot'[t], heat'),
           UNCHANGED <<box, adapter, sink, spent, told, link, driver, log, left>>
    PROVE  Feed'
<1>1. Deleted' = Deleted /\ \A u : Logged(u)' = Logged(u)
  BY DEF Deleted, Logged
<1>2. ASSUME NEW t \in Timers PROVE FitAt(t)'
  <2>1. FitAt(t) /\ slot'[t] \in Slot
    BY DEF Feed
  <2>2. Fit(box[t], adapter[t], sink[t], slot'[t], Logged(t), spent[t], told[t], Deleted, heat',
            link[t], driver[t])
    BY <2>1, FitSlots DEF FitAt
  <2> QED
    BY <1>1, <2>2 DEF FitAt
<1>3. Shaped' /\ InItsHeat'
  BY DEF Feed, Shaped, InItsHeat
<1> QED
  BY <1>2, <1>3 DEF Feed

LEMMA BridgeFit ==
    ASSUME Feed, StageHeat \/ ArmHeat \/ PollGate \/ DisarmHeat
    PROVE  Feed'
<1>1. Shaped /\ heat \in Heat /\ slot \in [Timers -> Slot]
  BY DEF Feed, Shaped
<1>2. ASSUME NEW t \in Timers
      PROVE  Own(box[t], adapter[t], sink[t], slot[t]) /\ Stepped(slot[t], heat)
  BY DEF Feed, FitAt, Fit
<1>3. UNCHANGED <<box, adapter, sink, spent, told, link, driver, log, left>>
  BY DEF StageHeat, ArmHeat, PollGate, DisarmHeat, timerVars, threadVars
<1>4. CASE StageHeat
  <2>1. heat' \in Heat /\ heat'.crossed = heat.crossed /\ heat'.phase = "staged" /\ slot' = slot
    <3> DEFINE next == heat.n + 1
    <3>1. next \in Nat
      BY <1>1 DEF Heat
    <3>2. heat' = [heat EXCEPT !.n = next, !.phase = "staged"] /\ slot' = slot
      BY <1>4 DEF StageHeat
    <3> HIDE DEF next
    <3> QED
      BY <1>1, <3>1, <3>2 DEF Heat
  <2>2. \A t \in Timers : Stepped(slot'[t], heat')
    BY <1>2, <2>1 DEF Stepped
  <2> QED
    BY <1>1, <1>2, <1>3, <2>1, <2>2, EventFit
<1>5. CASE ArmHeat
  <2>1. /\ heat' \in Heat /\ heat'.crossed = heat.crossed /\ heat'.n = heat.n
        /\ slot' = [t \in Timers |-> Armed(heat.n)] /\ heat.n \in Nat
    BY <1>1, <1>5 DEF ArmHeat, Heat
  <2>2. /\ Armed(heat.n) \in Slot /\ Armed(heat.n).n = heat.n
        /\ ~Armed(heat.n).staged /\ ~Armed(heat.n).started
    BY <2>1 DEF Armed, NoSlot, Slot
  <2>3. \A t \in Timers : slot'[t] = Armed(heat.n)
    BY <2>1
  <2>4. slot' \in [Timers -> Slot]
    BY <2>1, <2>2
  <2>5. \A t \in Timers : Own(box[t], adapter[t], sink[t], slot'[t]) /\ Stepped(slot'[t], heat')
    BY <2>1, <2>2, <2>3 DEF Own, Stepped
  <2> QED
    BY <1>3, <2>1, <2>4, <2>5, EventFit
<1>6. CASE PollGate
  BY <1>3, <1>6, Idle DEF PollGate
<1>7. CASE DisarmHeat
  <2> DEFINE after(t) == IF slot[t].n = 0 THEN NoSlot ELSE [slot[t] EXCEPT !.finishing = TRUE]
  <2>1. /\ heat' \in Heat /\ heat'.crossed = heat.crossed /\ heat'.phase = "none"
        /\ slot' = [t \in Timers |-> after(t)]
    BY <1>1, <1>7 DEF DisarmHeat, Heat
  <2>2. ASSUME NEW t \in Timers
        PROVE  /\ after(t) \in Slot
               /\ after(t).n = slot[t].n
               /\ after(t).n # 0 => /\ after(t).staged = slot[t].staged
                                    /\ after(t).started = slot[t].started
               /\ after(t).n = 0 => ~after(t).started
    <3>1. slot[t] \in Slot
      BY <1>1
    <3> QED
      BY <3>1 DEF NoSlot, Slot
  <2> HIDE DEF after
  <2>3. slot' \in [Timers -> Slot] /\ \A t \in Timers : slot'[t] = after(t)
    BY <2>1, <2>2
  <2>4. ASSUME NEW t \in Timers
        PROVE  Own(box[t], adapter[t], sink[t], slot'[t]) /\ Stepped(slot'[t], heat')
    BY <1>2, <2>1, <2>2, <2>3 DEF Own, Stepped
  <2> QED
    BY <1>3, <2>1, <2>3, <2>4, EventFit
<1> QED
  BY <1>4, <1>5, <1>6, <1>7

\* A pilot crosses the gate.
LEMMA CrossFit ==
    ASSUME Feed, Cross
    PROVE  Feed'
<1> DEFINE racing == {t \in Timers : box[t].status = "racing"}
           lap(t) == [at |-> Len(box[t].table) + 1 + Deleted, n |-> heat.n,
                      k |-> heat.crossed + 1]
           after(t) == IF t \in racing THEN Recorded(lap(t), box[t]) ELSE box[t]
           heard == {t \in racing : link[t]}
           result(t) == SnapshotSeen(adapter[t], after(t).table)
           h == [heat EXCEPT !.crossed = @ + 1]
           a2(t) == IF t \in heard THEN result(t).a ELSE adapter[t]
           q2(t) == IF t \in heard THEN sink[t] \o result(t).events ELSE sink[t]
           d2(t) == IF t \in heard THEN told[t] \cup ToSet(after(t).table) ELSE told[t]
<1>1. Shaped /\ InItsHeat
  BY DEF Feed
<1>2. /\ heat.phase = "running" /\ heat' = h
      /\ box' = [t \in Timers |-> after(t)]
      /\ adapter' = [t \in Timers |-> a2(t)]
      /\ sink' = [t \in Timers |-> q2(t)]
      /\ told' = [t \in Timers |-> d2(t)]
      /\ UNCHANGED <<slot, spent, link, driver, log, left>>
  BY DEF Cross, Deleted, threadVars
<1>3. Deleted' = Deleted /\ \A u : Logged(u)' = Logged(u)
  BY <1>2 DEF Deleted, Logged
<1>4. ASSUME NEW t \in Timers
      PROVE  Fit(after(t), a2(t), q2(t), slot[t], Logged(t), spent[t], d2(t), Deleted, h,
                 link[t], driver[t])
  <2>1. FitAt(t)
    BY DEF Feed
  <2>2. CASE t \notin racing
    <3>1. after(t) = box[t] /\ a2(t) = adapter[t] /\ q2(t) = sink[t] /\ d2(t) = told[t]
      BY <2>2
    <3> HIDE DEF after, a2, q2, d2
    <3>2. Fit(box[t], adapter[t], sink[t], slot[t], Logged(t), spent[t], told[t], Deleted, h,
              link[t], driver[t])
      BY <2>1, FitLater DEF FitAt
    <3> QED
      BY <3>1, <3>2
  <2>3. CASE t \in racing
    <3> DEFINE c == Recorded(lap(t), box[t])
               new == ToSet(c.table)
               r == SnapshotSeen(adapter[t], c.table)
    <3>1. after(t) = c
      BY <2>3
    <3>2. Fit(c, adapter[t], sink[t], slot[t], Logged(t), spent[t], told[t], Deleted, h,
              link[t], driver[t])
      <4> DEFINE l == lap(t)
      <4>1. /\ l = [at |-> Len(box[t].table) + 1 + Deleted, n |-> heat.n, k |-> heat.crossed + 1]
            /\ box[t].status = "racing"
        BY <2>3
      <4> HIDE DEF l
      <4>2. Fit(Recorded(l, box[t]), adapter[t], sink[t], slot[t], Logged(t), spent[t], told[t],
                Deleted, h, link[t], driver[t])
        BY <1>2, <2>1, <4>1, FitRecords DEF FitAt
      <4> QED
        BY <4>2 DEF l
    <3>3. CASE t \notin heard
      <4>1. a2(t) = adapter[t] /\ q2(t) = sink[t] /\ d2(t) = told[t]
        BY <3>3
      <4> HIDE DEF after, a2, q2, d2, c
      <4> QED
        BY <3>1, <3>2, <4>1
    <3>4. CASE t \in heard
      <4>1. /\ a2(t) = r.a /\ q2(t) = sink[t] \o r.events /\ d2(t) = told[t] \cup new
            /\ link[t]
        BY <3>1, <3>4
      <4> HIDE DEF after, a2, q2, d2, c
      <4>2. c \in Box /\ adapter[t] \in Translator
        BY <3>2 DEF Fit, Typed
      <4>3. c.table \in Seq(Lap)
        BY <4>2 DEF Box
      <4>4. Feeds(adapter[t], r, new) /\ r.a.last = adapter[t].last
        BY <4>2, <4>3, SnapshotFeeds
      <4> HIDE DEF r
      <4>5. new \subseteq Tellable(c, adapter[t]) /\ Recorder(c) \subseteq Recorder(c)
        BY DEF Tellable, Recorder
      <4>6. InStep(c, r.a)
        BY <3>2, <4>4 DEF Fit, InStep
      <4> HIDE DEF new
      <4>7. Fit(c, r.a, sink[t] \o r.events, slot[t], Logged(t), spent[t], told[t] \cup new,
                Deleted, h, link[t], driver[t])
        BY <3>2, <4>1, <4>2, <4>4, <4>5, <4>6, FitFeeds
      <4> QED
        BY <3>1, <4>1, <4>7
    <3> QED
      BY <3>3, <3>4
  <2> QED
    BY <2>2, <2>3
<1> HIDE DEF racing, lap, after, heard, result, h, a2, q2, d2
<1>5. ASSUME NEW t \in Timers PROVE FitAt(t)'
  <2>1. box'[t] = after(t) /\ adapter'[t] = a2(t) /\ sink'[t] = q2(t) /\ told'[t] = d2(t)
    BY <1>2
  <2> QED
    BY <1>2, <1>3, <1>4, <2>1 DEF FitAt
<1>6. Shaped'
  <2>1. ASSUME NEW t \in Timers
        PROVE  /\ after(t) \in Box /\ a2(t) \in Translator /\ q2(t) \in Seq(Event)
               /\ d2(t) \in SUBSET Lap
    <3>1. Typed(after(t), a2(t), q2(t), slot[t], Logged(t), spent[t], d2(t), Deleted, h)
      BY <1>4 DEF Fit
    <3> QED
      BY <3>1 DEF Typed
  <2>2. box' \in [Timers -> Box] /\ adapter' \in [Timers -> Translator]
        /\ sink' \in [Timers -> Seq(Event)]
    BY <1>2, <2>1
  <2>3. told' \in [Timers -> SUBSET Lap]
    BY <1>2, <2>1
  <2>4. heat' \in Heat
    <3> DEFINE more == heat.crossed + 1
    <3>1. heat \in Heat
      BY <1>1 DEF Shaped
    <3>2. more \in Nat
      BY <3>1 DEF Heat
    <3>3. heat' = [heat EXCEPT !.crossed = more]
      BY <1>2 DEF h
    <3> HIDE DEF more
    <3> QED
      BY <3>1, <3>2, <3>3 DEF Heat
  <2> QED
    BY <1>1, <1>2, <2>2, <2>3, <2>4 DEF Shaped
<1>7. InItsHeat'
  BY <1>1, <1>2 DEF InItsHeat
<1> QED
  BY <1>5, <1>6, <1>7 DEF Feed

------------------------------------------------------------------------------
(* The theorems.                                                           *)

LEMMA FeedStep == Feed /\ [Next]_vars => Feed'
<1> SUFFICES ASSUME Feed, [Next]_vars PROVE Feed'
  OBVIOUS
<1>1. CASE Cross
  BY <1>1, CrossFit
<1>2. CASE StageHeat \/ ArmHeat \/ PollGate \/ DisarmHeat
  BY <1>2, BridgeFit
<1>3. ASSUME NEW t \in Timers, BoxStep(t) PROVE Feed'
  BY <1>3, SendSnapshotFit, SendStatusFit, PluginPassesFit, PluginAnswersFit, DeleteLapFit,
     ObeyFit, SaveFit, DropLinkFit DEF BoxStep
<1>4. ASSUME NEW t \in Timers, ThreadStep(t) PROVE Feed'
  <2>1. CASE Connect(t)
    BY <2>1, ConnectFit
  <2>2. CASE FailConnect(t)
    BY <2>2, FailConnectFit
  <2>3. CASE Drain(t) \/ FailDrain(t) \/ Leave(t)
    BY <2>3, DrainFit, FailDrainFit, LeaveFit
  <2>4. CASE \/ Greeted(t) \/ LoseLink(t) \/ Prepare(t) \/ Seat(t) \/ StageRace(t)
             \/ RetryStage(t) \/ GiveUpStage(t) \/ FinishRace(t) \/ SettleAgain(t)
             \/ ClearSlot(t)
    BY <2>4, ThreadStepsFit
  <2> QED
    BY <1>4, <2>1, <2>2, <2>3, <2>4 DEF ThreadStep
<1>5. CASE UNCHANGED vars
  BY <1>5, Idle DEF vars
<1> QED
  BY <1>1, <1>2, <1>3, <1>4, <1>5 DEF Next

\* The log holds what the drains let in, each pass of one timer once and under
\* the heat it was flown in, and the translators lose nothing (dedup and the
\* hold-back of rotorhazard.rs, the drain of source/rotorhazard.rs).
LEMMA FeedAlways == Spec => []Feed
<1>1. Init => Feed
  BY FeedInit
<1> QED
  BY <1>1, FeedStep, PTL DEF Spec

\* The deduplicator: a crossing told over and over, by the plugin, by the table,
\* on link after link, is one pass in the log.
THEOREM CrossingsAreCountedOnce == Spec => []ToldOnceOverAgain
<1>1. Feed => ToldOnceOverAgain
  BY DEF Feed, InItsHeat, ToldOnceOverAgain
<1> QED
  BY <1>1, FeedAlways, PTL

\* The drain of an armed connection records behind the start of its race only: a
\* pass is never under another heat than the one it was flown in.
THEOREM PassesAreOfTheirHeat == Spec => []FlownInItsHeat
<1>1. Feed => FlownInItsHeat
  BY DEF Feed, InItsHeat, FlownInItsHeat
<1> QED
  BY <1>1, FeedAlways, PTL

\* The hold-back for the plugin, its conviction and every change of source drop
\* no lap a timer has told of.
THEOREM NothingIsSwallowed == Spec => []NothingSwallowed
<1>1. Feed => NothingSwallowed
  <2> SUFFICES ASSUME Feed, NEW t \in Timers
               PROVE  told[t] \subseteq Logged(t) \cup PassesIn(sink[t])
                                          \cup HeldLaps(adapter[t]) \cup spent[t]
    BY DEF NothingSwallowed, Logged
  <2>1. FitAt(t)
    BY DEF Feed
  <2> QED
    BY <2>1 DEF FitAt, Fit, Sound
<1> QED
  BY <1>1, FeedAlways, PTL
==============================================================================
