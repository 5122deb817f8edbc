------------------------------- MODULE PassFeed -------------------------------
(***************************************************************************)
(* From a gate crossing to a pass in the log.  A RotorHazard records the   *)
(* crossing; the adapter (adapters/src/rotorhazard.rs) makes a pass of it  *)
(* from one of two streams, the GridFPV plugin's or RotorHazard's own lap  *)
(* table; the connection's thread (app/src/source/rotorhazard.rs) drains   *)
(* the passes into the heat armed on it; the gate (failover.rs) lets those *)
(* of one timer through.  Links drop, the adapter outlives them.           *)
(*                                                                         *)
(* Passes of two seats share no state, so one seat stands for all.  A lap  *)
(* carries its stamp, which starts again with every race, and, for the     *)
(* properties only, the heat it was flown in.  An order to a timer and the *)
(* frames that answer it are one step.                                     *)
(***************************************************************************)
EXTENDS Naturals, Sequences, FiniteSets, SequencesExt, Bags

CONSTANTS Selection,     \* the event's timers at the gate, the primary first
          Grace,         \* PLUGIN_GRACE_SNAPSHOTS
          NoTimer,
          MaxHeats,      \* bound: heats
          MaxCrossings,  \* bound: crossings, over all heats
          MaxDeletions,  \* bound: laps deleted in RotorHazard's own UI
          MaxDrops       \* bound: links lost, by themselves or behind a failed append

Timers == ToSet(Selection)

ASSUME SelectionAssumption == Selection # << >> /\ NoTimer \notin Timers
ASSUME GraceAssumption == Grace \in Nat \ {0, 1}
ASSUME FeedBoundsAssumption == {MaxHeats, MaxCrossings, MaxDeletions, MaxDrops} \subseteq Nat

VARIABLES box,     \* each RotorHazard: its race, its lap table, what its plugin has to say
          link,    \* whether the socket to it works
          orders,  \* what the driver has asked of it on this link
          adapter, \* the translator, carried from link to link
          sink,    \* what it has translated and nobody has drained
          driver,  \* where the connection's thread is: down, greeting, live, leaving
          prepare, \* a heat was staged: the timer is to be reset and its seats filled
          waits,   \* what the thread gives time to: the race it staged, the laps it saves
          slot,    \* the heat armed on the connection
          heat,    \* the event's heat, its phase, and the crossings so far
          gate,    \* the timer whose passes are let in
          log,     \* the passes in the log, each with its timer and heat
          told,    \* history: laps a timer has told of
          spent,   \* history: passes put aside on the way, where the code says so
          left     \* what is left of each bound

vars == <<box, link, orders, adapter, sink, driver, prepare, waits, slot, heat, gate,
          log, told, spent, left>>

timerVars == <<box, link, orders>>
threadVars == <<driver, prepare, waits>>
eventVars == <<slot, heat, gate, log>>

NoSlot == [n |-> 0, staged |-> FALSE, started |-> FALSE, finishing |-> FALSE, done |-> FALSE]
Armed(n) == [NoSlot EXCEPT !.n = n]

\* What a frame adds to the sink: the start of a race, or the passes it made.
Start == [kind |-> "start", laps |-> {}]
Passes(laps) == [kind |-> "passes", laps |-> laps]
PassesIn(events) == UNION {e.laps : e \in ToSet(events)}

Init ==
    /\ box = [t \in Timers |-> [status |-> "ready", table |-> << >>, spawned |-> {}]]
    /\ link = [t \in Timers |-> FALSE]
    /\ orders = [t \in Timers |-> << >>]
    /\ adapter = [t \in Timers |-> [last |-> "none", seen |-> {}, held |-> {},
                                    live |-> FALSE, fallback |-> FALSE]]
    /\ sink = [t \in Timers |-> << >>]
    /\ driver = [t \in Timers |-> "down"]
    /\ prepare = [t \in Timers |-> {}]
    /\ waits = [t \in Timers |-> {}]
    /\ slot = [t \in Timers |-> NoSlot]
    /\ heat = [n |-> 0, phase |-> "none", crossed |-> 0]
    /\ gate = NoTimer
    /\ log = EmptyBag
    /\ told = [t \in Timers |-> {}]
    /\ spent = [t \in Timers |-> {}]
    /\ left = [deletions |-> MaxDeletions, drops |-> MaxDrops]

Spend(what) == left[what] > 0 /\ left' = [left EXCEPT ![what] = @ - 1]

------------------------------------------------------------------------------
(* The adapter: each operator is what one frame makes of the translator,   *)
(* with the events it adds to the sink.                                    *)

Result(a, events) == [a |-> a, events |-> events]

\* Mutant: a crossing goes by the number RotorHazard gives it, which a deletion
\* shifts.
NumberInTable(lap, table) == Cardinality({i \in DOMAIN table : table[i].at <= lap.at})

\* A crossing goes by its stamp, whatever its number in the table.
CrossingId(lap, table) == lap.at

\* Passes of the laps the deduplicator lets through.
Mint(a, laps, table) ==
    LET fresh == {l \in laps : CrossingId(l, table) \notin a.seen}
    IN  Result([a EXCEPT !.seen = @ \cup {CrossingId(l, table) : l \in fresh}],
               IF fresh = {} THEN << >> ELSE <<Passes(fresh)>>)

HeldLaps(a) == {h.lap : h \in a.held}

\* The laps held for the plugin are passed on at last.
Flush(a, table) == Mint([a EXCEPT !.held = {}], HeldLaps(a), table)

\* The plugin is trusted, or no more: either way no held lap is dropped.
SwitchSource(a, live, table) == Flush([a EXCEPT !.live = live], table)

PluginMints(a) == a.live /\ ~a.fallback

\* A snapshot of the lap table. Under the plugin it only counts how often a lap
\* has been told without the plugin passing it; one told Grace times convicts
\* the plugin for the rest of the race.
SnapshotSeen(a, table) ==
    LET unseen == {l \in ToSet(table) : CrossingId(l, table) \notin a.seen}
        again(h) == IF h.lap \in unseen THEN [h EXCEPT !.times = @ + 1] ELSE h
        counted == {again(h) : h \in a.held}
        overdue == \E h \in counted : h.times >= Grace
        first == {[lap |-> l, times |-> 1] : l \in unseen \ HeldLaps(a)}
    IN  IF ~PluginMints(a) THEN Mint(a, ToSet(table), table)
        ELSE IF overdue
        THEN Flush([a EXCEPT !.held = counted \cup first, !.fallback = TRUE], table)
        ELSE Result([a EXCEPT !.held = counted \cup first], << >>)

\* The plugin's own pass; without its word for live passes, or once it has been
\* convicted, it is not heard.
PluginPassSeen(a, lap, table) ==
    IF PluginMints(a)
    THEN Mint([a EXCEPT !.held = {h \in @ : h.lap # lap}], {lap}, table)
    ELSE Result(a, << >>)

\* A new race: what was held belongs to the one before, then all starts afresh.
RaceStarted(a, table) ==
    LET flushed == Flush(a, table) IN
    Result([flushed.a EXCEPT !.seen = {}, !.fallback = FALSE],
           Append(flushed.events, Start))

\* The race is over: a lap still held will not be told again.
RaceDone(a, table) ==
    Flush([a EXCEPT !.fallback = @ \/ a.held # {}], table)

\* Mutant: a status told again is taken for an edge.
StatusTakenForEdge(a, status, table) ==
    LET b == [a EXCEPT !.last = status] IN
    CASE status = "racing" -> RaceStarted(b, table)
      [] status = "done" -> RaceDone(b, table)
      [] OTHER -> Result(b, << >>)

\* Only a transition counts: a status told again changes nothing.
StatusSeen(a, status, table) ==
    LET b == [a EXCEPT !.last = status] IN
    CASE status = a.last -> Result(a, << >>)
      [] status # a.last /\ status = "racing" -> RaceStarted(b, table)
      [] status # a.last /\ status = "done" -> RaceDone(b, table)
      [] OTHER -> Result(b, << >>)

\* The frame of one timer, if its link carries it.
Hears(t, result) ==
    /\ adapter' = [adapter EXCEPT ![t] = result.a]
    /\ sink' = [sink EXCEPT ![t] = @ \o result.events]

------------------------------------------------------------------------------
(* RotorHazard (external): its race, its lap table and its frames.         *)

Recorded(lap, b) == [b EXCEPT !.table = Append(@, lap), !.spawned = @ \cup {lap}]

\* A pilot crosses: every timer that races records a lap, sends its table inline
\* and leaves the plugin's pass to a greenlet.
Cross ==
    LET racing == {t \in Timers : box[t].status = "racing"}
        lap(t) == [at |-> Len(box[t].table) + 1 + (MaxDeletions - left.deletions),
                   n |-> heat.n, k |-> heat.crossed + 1]
        after(t) == IF t \in racing THEN Recorded(lap(t), box[t]) ELSE box[t]
        heard == {t \in racing : link[t]}
        result(t) == SnapshotSeen(adapter[t], after(t).table)
    IN
    /\ heat.phase = "running" /\ heat.crossed < MaxCrossings
    /\ heat' = [heat EXCEPT !.crossed = @ + 1]
    /\ box' = [t \in Timers |-> after(t)]
    /\ adapter' = [t \in Timers |-> IF t \in heard THEN result(t).a ELSE adapter[t]]
    /\ sink' = [t \in Timers |-> IF t \in heard THEN sink[t] \o result(t).events ELSE sink[t]]
    /\ told' = [t \in Timers |-> IF t \in heard THEN told[t] \cup ToSet(after(t).table)
                                 ELSE told[t]]
    /\ UNCHANGED <<link, orders, threadVars, slot, gate, log, spent, left>>

\* The table again: for a new client, an edit, a change of status.
SendSnapshot(t) ==
    /\ link[t]
    /\ Hears(t, SnapshotSeen(adapter[t], box[t].table))
    /\ told' = [told EXCEPT ![t] = @ \cup ToSet(box[t].table)]
    /\ UNCHANGED <<timerVars, threadVars, eventVars, spent, left>>

SendStatus(t) ==
    /\ link[t]
    /\ Hears(t, StatusSeen(adapter[t], box[t].status, box[t].table))
    /\ UNCHANGED <<timerVars, threadVars, eventVars, told, spent, left>>

\* The greenlet runs; with the link down nobody hears it.
PluginPasses(t) ==
    \E lap \in box[t].spawned :
      /\ box' = [box EXCEPT ![t].spawned = @ \ {lap}]
      /\ IF link[t]
         THEN /\ Hears(t, PluginPassSeen(adapter[t], lap, box[t].table))
              /\ told' = [told EXCEPT ![t] = IF PluginMints(adapter[t]) THEN @ \cup {lap} ELSE @]
         ELSE UNCHANGED <<adapter, sink, told>>
      /\ UNCHANGED <<link, orders, threadVars, eventVars, spent, left>>

\* The plugin answers the greeting, if it is installed.
PluginAnswers(t) ==
    /\ link[t] /\ ~adapter[t].live
    /\ Hears(t, SwitchSource(adapter[t], TRUE, box[t].table))
    /\ UNCHANGED <<timerVars, threadVars, eventVars, told, spent, left>>

\* A lap deleted on the timer leaves its table, and the others move up.
DeleteLap(t) ==
    /\ Spend("deletions")
    /\ box[t].status = "racing"
    /\ \E i \in DOMAIN box[t].table : box' = [box EXCEPT ![t].table = RemoveAt(@, i)]
    /\ UNCHANGED <<link, orders, adapter, sink, threadVars, eventVars, told, spent>>

Emptied(b, status) == [b EXCEPT !.status = status, !.table = << >>, !.spawned = {}]

\* A timer obeys, if its race allows: a reset ends the race and empties the
\* table, a start needs one that is ready and goes through STAGING, which an
\* adapter that still holds a race to be on needs to see the new one begin. The
\* adapter of a thread that leaves may be gone before the answer.
Obey(t) ==
    LET order == Head(orders[t])
        b == box[t]
        done == StatusSeen(adapter[t], "done", b.table)
        ready == StatusSeen(done.a, "ready", << >>)
        staging == StatusSeen(adapter[t], "ready", << >>)
        racing == StatusSeen(staging.a, "racing", << >>)
        Answers(r) == \/ Hears(t, r)
                      \/ driver[t] = "leaving" /\ UNCHANGED <<adapter, sink>>
    IN
    /\ link[t] /\ orders[t] # << >>
    /\ orders' = [orders EXCEPT ![t] = Tail(@)]
    /\ CASE order = "reset" /\ b.status = "racing" ->
              /\ box' = [box EXCEPT ![t] = Emptied(@, "ready")]
              /\ Answers(Result(ready.a, done.events \o ready.events))
         [] order = "reset" /\ b.status # "racing" ->
              /\ box' = [box EXCEPT ![t] = Emptied(@, "ready")]
              /\ Answers(staging)
         [] order = "stage" /\ b.status = "ready" ->
              /\ box' = [box EXCEPT ![t] = Emptied(@, "racing")]
              /\ Hears(t, racing)
         [] order = "stop" /\ b.status = "racing" ->
              /\ box' = [box EXCEPT ![t].status = "done"]
              /\ Answers(done)
         [] OTHER -> UNCHANGED <<box, adapter, sink>>
    /\ UNCHANGED <<link, threadVars, eventVars, told, spent, left>>

\* The laps are saved behind a race, and the table is empty again.
Save(t) ==
    /\ box[t].status = "done"
    /\ box' = [box EXCEPT ![t] = Emptied(@, "ready")]
    /\ IF link[t] THEN Hears(t, StatusSeen(adapter[t], "ready", << >>))
       ELSE UNCHANGED <<adapter, sink>>
    /\ UNCHANGED <<link, orders, threadVars, eventVars, told, spent, left>>

DropLink(t) ==
    /\ link[t] /\ Spend("drops")
    /\ link' = [link EXCEPT ![t] = FALSE]
    /\ orders' = [orders EXCEPT ![t] = << >>]
    /\ UNCHANGED <<box, adapter, sink, threadVars, eventVars, told, spent>>

------------------------------------------------------------------------------
(* The connection's thread.                                                *)

PutAside(t, events) == spent' = [spent EXCEPT ![t] = @ \cup PassesIn(events)]
DiscardSink(t) == sink' = [sink EXCEPT ![t] = << >>] /\ PutAside(t, sink[t])

\* A new link starts from RotorHazard's table until the plugin speaks up.
Connect(t) ==
    LET switched == SwitchSource(adapter[t], FALSE, box[t].table) IN
    /\ driver[t] = "down"
    /\ driver' = [driver EXCEPT ![t] = "greeting"]
    /\ link' = [link EXCEPT ![t] = TRUE]
    /\ adapter' = [adapter EXCEPT ![t] = switched.a]
    /\ sink' = [sink EXCEPT ![t] = switched.events]
    /\ UNCHANGED <<box, orders, prepare, waits, eventVars, told, spent, left>>

\* An attempt that fails hands the adapter back; what the switch of source made
\* of the laps it held goes with the attempt, as the doc of connect says.
FailConnect(t) ==
    LET switched == SwitchSource(adapter[t], FALSE, box[t].table) IN
    /\ driver[t] = "down"
    /\ adapter' = [adapter EXCEPT ![t] = switched.a]
    /\ PutAside(t, switched.events)
    /\ UNCHANGED <<timerVars, sink, threadVars, eventVars, told, left>>

\* The plugin has answered, or is given up; the thread turns to the link.
Greeted(t) ==
    /\ driver[t] = "greeting"
    /\ driver' = [driver EXCEPT ![t] = "live"]
    /\ UNCHANGED <<timerVars, adapter, sink, prepare, waits, eventVars, told, spent, left>>

\* The thread sees the link is gone: the adapter is kept, what nobody drained is
\* not, and what was about to be sent may count as sent.
LoseLink(t) ==
    /\ driver[t] = "live" /\ ~link[t]
    /\ driver' = [driver EXCEPT ![t] = "down"]
    /\ \E still \in SUBSET prepare[t] : prepare' = [prepare EXCEPT ![t] = still]
    /\ waits' = [waits EXCEPT ![t] = {}]
    /\ DiscardSink(t)
    /\ UNCHANGED <<timerVars, adapter, eventVars, told, left>>

Working(t) == driver[t] = "live" /\ link[t]

Ask(t, order) == orders' = [orders EXCEPT ![t] = Append(@, order)]

\* What the reset stirs up is no pass of the heat to come.
Prepare(t) ==
    /\ Working(t) /\ "reset" \in prepare[t]
    /\ prepare' = [prepare EXCEPT ![t] = @ \ {"reset"}]
    /\ Ask(t, "reset")
    /\ DiscardSink(t)
    /\ UNCHANGED <<box, link, adapter, driver, waits, eventVars, told, left>>

\* Nor what the seating does, which comes behind it.
Seat(t) ==
    /\ Working(t) /\ prepare[t] = {"seat"}
    /\ prepare' = [prepare EXCEPT ![t] = {}]
    /\ DiscardSink(t)
    /\ UNCHANGED <<timerVars, adapter, driver, waits, eventVars, told, left>>

\* The go: the heat armed since the last look is started on the timer.
StageRace(t) ==
    /\ Working(t) /\ prepare[t] = {}
    /\ slot[t].n # 0 /\ ~slot[t].staged
    /\ Ask(t, "stage")
    /\ slot' = [slot EXCEPT ![t].staged = TRUE]
    /\ waits' = [waits EXCEPT ![t] = {"race"}]
    /\ DiscardSink(t)
    /\ UNCHANGED <<box, link, adapter, driver, prepare, heat, gate, log, told, left>>

\* A timer that was not ready has dropped the order: ask until it races, or the
\* time for it is up.
RetryStage(t) ==
    /\ Working(t)
    /\ "race" \in waits[t] /\ slot[t].staged /\ ~slot[t].started
    /\ orders[t] = << >>
    /\ Ask(t, "stage")
    /\ UNCHANGED <<box, link, adapter, sink, threadVars, eventVars, told, spent, left>>

GiveUpStage(t) ==
    /\ driver[t] = "live" /\ "race" \in waits[t] /\ sink[t] = << >>
    /\ waits' = [waits EXCEPT ![t] = @ \ {"race"}]
    /\ UNCHANGED <<timerVars, adapter, sink, driver, prepare, eventVars, told, spent, left>>

\* Once for an arming, whatever the link does: a savable heat is looked for,
\* which may take events with it, and the race is stopped.
FinishRace(t) ==
    /\ driver[t] = "live"
    /\ slot[t].finishing /\ ~slot[t].done /\ "save" \notin waits[t]
    /\ slot' = [slot EXCEPT ![t].done = TRUE]
    /\ waits' = [waits EXCEPT ![t] = @ \cup {"save"}]
    /\ IF link[t] THEN Ask(t, "stop") ELSE UNCHANGED orders
    /\ DiscardSink(t) \/ UNCHANGED <<sink, spent>>
    /\ UNCHANGED <<box, link, adapter, driver, prepare, heat, gate, log, told, left>>

\* A finish whose link dropped gets its settle time on the next one.
SettleAgain(t) ==
    /\ driver[t] = "live"
    /\ slot[t].done /\ "save" \notin waits[t]
    /\ waits' = [waits EXCEPT ![t] = @ \cup {"save"}]
    /\ UNCHANGED <<timerVars, adapter, sink, driver, prepare, eventVars, told, spent, left>>

\* The history has settled: the slot is emptied, whatever it holds by now.
ClearSlot(t) ==
    /\ driver[t] = "live"
    /\ "save" \in waits[t]
    /\ slot' = [slot EXCEPT ![t] = NoSlot]
    /\ waits' = [waits EXCEPT ![t] = {}]
    /\ UNCHANGED <<timerVars, adapter, sink, driver, prepare, heat, gate, log, told, spent, left>>

\* Mutant: whatever is drained under an armed heat is the heat's.
RecordableOfAnyRace(t, events) == IF slot[t].n = 0 THEN {} ELSE PassesIn(events)

\* The passes of a drain that are the armed heat's: those behind its start.
Behind(events) ==
    {j \in DOMAIN events : \E i \in DOMAIN events : i < j /\ events[i] = Start}
Recordable(t, events) ==
    IF slot[t].n = 0 THEN {}
    ELSE IF slot[t].started THEN PassesIn(events)
    ELSE UNION {events[j].laps : j \in Behind(events)}

AsPasses(t, laps) == SetToBag({[timer |-> t, heat |-> slot[t].n, lap |-> l] : l \in laps})

\* What was asked of the thread comes first in its turn, the drain last. A hot
\* standby's passes are drained like the others and not let in.
Drain(t) ==
    LET admitted == IF gate = t THEN Recordable(t, sink[t]) ELSE {} IN
    /\ driver[t] = "live" /\ sink[t] # << >>
    /\ prepare[t] = {} /\ (slot[t].n = 0 \/ slot[t].staged)
    /\ waits' = [waits EXCEPT ![t] = IF slot[t].n # 0 /\ Start \in ToSet(sink[t])
                                    THEN @ \ {"race"} ELSE @]
    /\ sink' = [sink EXCEPT ![t] = << >>]
    /\ slot' = [slot EXCEPT ![t].started = @ \/ (slot[t].n # 0 /\ Start \in ToSet(sink[t]))]
    /\ log' = log (+) AsPasses(t, admitted)
    /\ spent' = [spent EXCEPT ![t] = @ \cup (PassesIn(sink[t]) \ admitted)]
    /\ UNCHANGED <<timerVars, adapter, driver, prepare, heat, gate, told, left>>

\* The log refuses an append, of a pass or of the signal beside it: what came
\* before it is in, the rest of the drain is dropped, and the thread leaves a link
\* that may be sound, stopping the race on the timer as it goes.
FailDrain(t) ==
    /\ driver[t] = "live" /\ prepare[t] = {}
    /\ slot[t].n # 0 /\ slot[t].staged /\ gate = t
    /\ Spend("drops")
    /\ \E i \in 0 .. Len(sink[t]) :
       \E lost \in SUBSET (IF i = 0 THEN {} ELSE sink[t][i].laps) :
          LET heard == SubSeq(sink[t], 1, i)
              admitted == Recordable(t, heard) \ lost
          IN  /\ slot' = [slot EXCEPT ![t].started = @ \/ Start \in ToSet(heard)]
              /\ log' = log (+) AsPasses(t, admitted)
              /\ spent' = [spent EXCEPT ![t] = @ \cup (PassesIn(sink[t]) \ admitted)]
    /\ sink' = [sink EXCEPT ![t] = << >>]
    /\ waits' = [waits EXCEPT ![t] = {}]
    /\ driver' = [driver EXCEPT ![t] = "leaving"]
    /\ IF link[t] THEN Ask(t, "stop") ELSE UNCHANGED orders
    /\ UNCHANGED <<box, link, adapter, prepare, heat, gate, told>>

\* The link is closed; the thread dials again with the same adapter.
Leave(t) ==
    /\ driver[t] = "leaving"
    /\ driver' = [driver EXCEPT ![t] = "down"]
    /\ link' = [link EXCEPT ![t] = FALSE]
    /\ orders' = [orders EXCEPT ![t] = << >>]
    /\ DiscardSink(t)
    /\ UNCHANGED <<box, adapter, prepare, waits, eventVars, told, left>>

------------------------------------------------------------------------------
(* The bridge.                                                             *)

StageHeat ==
    /\ heat.phase = "none" /\ heat.n < MaxHeats
    /\ heat' = [heat EXCEPT !.n = @ + 1, !.phase = "staged"]
    /\ \E wanted \in {{"reset"}, {"reset", "seat"}} :
          prepare' = [t \in Timers |-> prepare[t] \cup wanted]
    /\ UNCHANGED <<timerVars, adapter, sink, driver, waits, slot, gate, log, told, spent, left>>

\* A timer feeds while its connection says so: the status lags behind the link.
Healthy(t) == driver[t] # "down"

ActiveSource ==
    LET first == SelectInSeq(Selection, Healthy)
    IN  IF first = 0 THEN NoTimer ELSE Selection[first]

ArmHeat ==
    /\ heat.phase = "staged"
    /\ heat' = [heat EXCEPT !.phase = "running"]
    /\ slot' = [t \in Timers |-> Armed(heat.n)]
    /\ gate' = ActiveSource
    /\ UNCHANGED <<timerVars, adapter, sink, threadVars, log, told, spent, left>>

\* The gate is set at every poll of a running heat.
PollGate ==
    /\ heat.phase = "running"
    /\ gate' = ActiveSource
    /\ UNCHANGED <<timerVars, adapter, sink, threadVars, slot, heat, log, told, spent, left>>

DisarmHeat ==
    /\ heat.phase = "running"
    /\ heat' = [heat EXCEPT !.phase = "none"]
    /\ slot' = [t \in Timers |-> IF slot[t].n = 0 THEN NoSlot
                                 ELSE [slot[t] EXCEPT !.finishing = TRUE]]
    /\ UNCHANGED <<timerVars, adapter, sink, threadVars, gate, log, told, spent, left>>

------------------------------------------------------------------------------
BoxStep(t) ==
    \/ SendSnapshot(t) \/ SendStatus(t) \/ PluginPasses(t) \/ PluginAnswers(t)
    \/ DeleteLap(t) \/ Obey(t) \/ Save(t) \/ DropLink(t)

ThreadStep(t) ==
    \/ Connect(t) \/ FailConnect(t) \/ Greeted(t) \/ LoseLink(t)
    \/ Prepare(t) \/ Seat(t) \/ StageRace(t) \/ RetryStage(t) \/ GiveUpStage(t)
    \/ FinishRace(t) \/ SettleAgain(t) \/ ClearSlot(t)
    \/ Drain(t) \/ FailDrain(t) \/ Leave(t)

Next ==
    \/ Cross
    \/ StageHeat \/ ArmHeat \/ PollGate \/ DisarmHeat
    \/ \E t \in Timers : BoxStep(t) \/ ThreadStep(t)

Spec == Init /\ [][Next]_vars

------------------------------------------------------------------------------
(* Properties.                                                             *)

\* One timer's crossing is one pass, however often its lap is told: by the
\* plugin and the table, again behind every crossing, and on every new link.
ToldOnceOverAgain == \A p \in BagToSet(log) : log[p] = 1

\* A pass in a heat's log was flown in that heat: what a timer still tells of
\* the race before is nobody's.
FlownInItsHeat == \A p \in BagToSet(log) : p.lap.n = p.heat

\* No lap that was told is dropped by the translator: it is in the log, on its
\* way there, held for the plugin, or was put aside by the thread - with no heat
\* armed or its race not begun, on a hot standby, with what a reset, a seating, a
\* start or a finish stirs up, by an attempt to connect that failed, behind an
\* append the log refused, or on a link that died before the drain. (With no heat
\* armed or its race not begun, that is all the timer tells: the property is about
\* a heat whose race is on.)
NothingSwallowed ==
    \A t \in Timers :
      told[t] \subseteq
        {p.lap : p \in {q \in BagToSet(log) : q.timer = t}}
          \cup PassesIn(sink[t]) \cup HeldLaps(adapter[t]) \cup spent[t]

\* What failover.rs promises: a drop hands the feed to the alternate, a return
\* takes it back, and no crossing is in the log from both.
NoDoubleCount ==
    \A p, q \in BagToSet(log) : p.lap.k = q.lap.k => p = q
==============================================================================
