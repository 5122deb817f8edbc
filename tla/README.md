# GridFPV in TLA+

GridFPV runs FPV drone races. Its server process, the *Director*, keeps every
race event as an append-only log; race directors (the people) command it over
HTTP and WebSocket, timers feed gate crossings into it, and everything anyone
sees is folded from the log. This directory models the parts of the Director
whose behaviour depends on the order things happen in, checks the models with
TLC and proves the main results with TLAPS.

The modules are translated from the code under `src/`. Paths below leave out
`src/crates/` where that is clear.

## The system

### Components, their state and operations

| Component | Source | State it keeps | Operations |
|---|---|---|---|
| Heat state machine | `engine/src/heat.rs` | none: a pure fold of the log | legality of a command, state after a transition, effective grace and protest windows |
| Event log | `storage`, `server/src/app.rs` (`append`, `append_checked`) | the log of an event with dense offsets, one mutex; a second mutex that serializes commands | append, append-if-still-true, read all, read from an offset |
| Control handler | `server/src/control_handler.rs` | none of its own | validate a command against the folded log, append its event; multi-append commands: Advance, Stage, Start, FillRound |
| Runtime bridge | `app/src/source.rs` (`run_bridge`, `handle_transition`) | a cursor into the log; the heat whose sources emit; a task handle per heat and kind of clock | resume heats in flight at start, poll the tail, start and stop sources and clocks on each transition |
| Runtime clocks | `app/src/source.rs` (`spawn_*_driver`) | per task: watermark, stage, marker | start countdown, completion and grace, auto-official timer |
| Live view | `server/src/live_state.rs` | none: a pure fold | focus of Live control, current run, on deck, running order, tone |
| Results and marshaling | `server/src/app.rs`, `projection/src/lib.rs`, `engine/src/scoring.rs` | none: pure folds | window of a heat, corrected and voided passes, laps, scores, audit |
| Change stream | `server/src/ws.rs` | per session: applied offset, last body, next sequence, its place among the waiters | subscribe, replay span, live tail, stale cursor |
| Protocol client | `frontend/packages/protocol-client/src/client.ts` | body, resume cursor, sequence, what it waits for | snapshot, subscribe, apply, re-snapshot, reconnect |
| Timer connections | `app/src/source/rh_connections.rs`, `server/src/timers.rs` | live connections, resting claims, published statuses, parked writes | reconcile, arm, disarm, stage, deliver |
| Connection thread | `app/src/source/rotorhazard.rs` | attempts, the armed heat's slot, queued writes | dial, greet, maintain, drain, finish, back off |
| Active source | `app/src/source/failover.rs` | the gate of the running heat | re-evaluated every poll |
| Adapters and transports | `adapters/src` | seen passes, passes held for the plugin, last race status | translate, deduplicate, fall back |
| Presence reconciler | `app/src/source.rs` | a cursor | bind a seen pilot once |
| Registry | `server/src/{events,classes,pilots,timers,channels}.rs` | documents in memory and on disk under a lock | CRUD with referential checks, edits of rounds, hold and address of a timer |
| Round engine | `server/src/round_engine.rs`, `engine/src` generators | none: derives from registry and log | fill a round, cycle layouts, re-draw an edited round, seed brackets, rank |
| Auth, HTTP surface, plugins, consoles, desktop shell, build tasks | | | not modelled |

### How they interact

Everything meets in the log. The control handler, the clocks, the adapters'
sinks and the reconcilers append; the bridge, the clocks' rechecks, the control
handler's validations and the change stream read. Commands and the clocks'
transitions take the *command lock* around read, decide and append; passes,
`HeatStarting` and `HeatFinalizing` do not. The bridge learns of a command only
by polling the tail (every 150 ms), so it runs behind, and it cancels a clock
by aborting its tokio task, which stops the task at its next await and no
sooner. A clock therefore re-validates at the moment it fires: the phase must
be the one it was spawned for and no transition of the heat may be younger than
its watermark. A crash loses the bridge, the handles and the clocks and keeps
the log.

### What is hard here

- clocks that fire between a command and the poll that would cancel them;
- a state left and entered again while a clock of the first stay still holds;
- aborts that come too late, reads that are stale when used, counts taken
  outside the lock;
- clocks of several heats in flight at once;
- a restart in the middle of a countdown, a race, a grace or protest window;
- multi-append commands cut by a crash;
- which heat a pass, marker or ruling belongs to when heats interleave in one
  log; rulings upon rulings; the lock on an official result;
- reconnects: of a client to the stream, of a timer to its connection; what was
  read, queued or translated before one and is used behind it;
- reads of the log and the registry that share no lock: an edit of a round
  against fills and heats, the reconciler against the race director;
- laps told again and again, by two streams, on every new link, with stamps
  that start afresh in every race.

`PROJECT.json` lists these hazards at their lines.

### What makes each component correct

- *Heat machine*: any log of transitions the system can write is a path along
  the legality table.
- *Bridge and clocks*: no stale clock moves a heat; no clock is lost; what a
  clock does was announced; every heat the race director leaves alone goes on.
- *Control handler*: every accepted command was legal at its append; the
  Finalize gate and the effective protests agree.
- *Live view*: focus follows the race director; it agrees with the results
  about the current run.
- *Results and marshaling*: an official result is frozen; at most one effective
  ruling of a kind; each crossing counts in at most one heat.
- *Stream and client*: a client that stays connected, or resumes, ends with the
  body the full log folds to, and never shows an older one than it had.
- *Connections*: one connection per wanted timer; a write stays with its link;
  a timer that gave up rests until it is asked for; a race never waits in vain
  for a timer that is back.
- *Adapters, thread, gate*: each crossing is one pass, of the heat it was flown
  in, and none is lost in the translation; one source admitted at a time.
- *Registry, rounds*: what a heat flew stays on record whatever is edited;
  heats to fly follow their round; a draw, once made, stands.

## Modules

| Module | Lines up with | What it is |
|---|---|---|
| `HeatFsm` | `engine/src/heat.rs`, `HeatTransition` | the legality table, the recorded transition and the state it lands in, as operators |
| `HeatLoop` | the promise of the Director | abstract specification: a heat's phase and the protests that contest it, nothing else |
| `RaceRuntime` | control handler, `run_bridge`, `handle_transition`, the three drivers, crash and restart | the detailed specification |
| `MCRaceRuntime` | | names the heats for TLC |
| `RaceLog` | `heat_window_offsets`, `heat_of_offset`, `corrected_and_voided_passes_with_floor`, `Adjudications::collect` | the event log and the folds that make a heat's result of it, as operators |
| `Marshaling` | the marshaling arms of `command_to_event` and their guards | the detailed specification of rulings on a log that goes on growing |
| `MCMarshaling` | | names the heats and the logs TLC starts from |
| `ChangeFolds` | what `live_state_with_rounds` shows of an event | the fold of a prefix, as far as the stream tells bodies apart |
| `LogFollower` | the promise of a connection to its view | abstract specification: a point of the log that moves forward, and the fold there |
| `ChangeStream` | `ws.rs` and `client.ts` | sessions, sockets and clients against a log that grows |
| `TimerConnections` | `rh_connections.rs`, the thread of `source/rotorhazard.rs`, the records of `timers.rs` | one timer and every connection opened to it |
| `PassFeed` | `adapters/src/rotorhazard.rs`, its transport, `maintain` of `source/rotorhazard.rs`, `failover.rs` | from a crossing to a pass in the log |
| `Rounds` | `update_round`, `remove_round`, `FillRound`, `SetHeatLayout`, `OverrideHeatSeating`, the re-draw of `round_engine.rs` | one round, its heats, and consoles that edit it meanwhile |
| `MCChangeStream`, `MCTimerConnections`, `MCPassFeed`, `MCRounds` | | names the consoles, addresses, timers and configurations for TLC |
| `RaceRuntimeProofs` | | type correctness |
| `RaceRuntimeSafety` | | a clock that fires has announced itself; a bridge that has caught up holds no clock too many, and no heat is without its own |
| `RaceRuntimeRefinement` | | protests, official results, refinement of `HeatLoop` |
| `MarshalingProofs` | | type correctness, rulings that stand once; what may change a heat's result, and what a result keeps of its crossings |
| `TimerConnectionsProofs` | | one connection, rest until asked, writes on their own link |
| `PassFeedProofs` | | one pass a crossing, of its heat, and none swallowed unaccounted |
| `RoundsProofs` | | what was flown, the field; heats to fly follow their round |
| `ChangeStreamProofs` | | the fold at the cursor, refinement of `LogFollower`; the frames' order, the resume, the schedules, who is sent for a snapshot |

The modules share the log, the heats and the command lock, each as far as its
own questions need them: `RaceRuntime` composes the control handler with the
bridge, the clocks, crash and restart; `ChangeStream` composes server and client
across a failing link; `TimerConnections` composes the registry, the reconciler,
the connection threads, the bridge and the network; `PassFeed` composes timer,
adapter, thread, bridge and gate; `Rounds` composes registry, log and round
engine. `HeatFsm` is the legality table `HeatLoop`, `RaceRuntime` and `RaceLog`
all take their transitions from.

### RaceRuntime: state

The log is represented by what its folds answer, with the lag of the bridge
kept explicit:

| Variable | In the code |
|---|---|
| `phase` | `heat_state(events, heat)`; `Unknown` is `None` |
| `order` | the `HeatScheduled` entries in log order |
| `current` | `live_state::current_heat`: latest transition or selection, else first scheduled |
| `era`, `lastReset` | what `current_run_start(heat) < events.len()` depends on: the latest of Running and a reset, and whether that reset is the last entry of all |
| `protest` | `ProtestFiled` since the heat's latest reset, whether resolved effectively, whether inside the run window |
| `cued`, `expired` | `HeatStarting`, `HeatFinalizing` since the latest transition; `RaceExpired` markers of the run |
| `tail` | transitions at or above the bridge's cursor |
| `active` | the bridge's `Option<ActiveHeat>` |
| `task` | per heat and kind of clock: the task in the `HeatClock` slot (`held`) and one aborted while running (`loose`) |
| `fresh` | tasks whose watermark equals `latest_transition_offset` now. The offset is only ever compared for equality with the latest, so this set is all of it |
| `hand` | the `Advance` between its appends, holding the command lock |
| `director` | `down`, `booting` (before the bridge's first read), `following`, `stuck` (that read failed) |

`hurt` is history, for `NeverOrphaned`: the heats whose clock an I/O error took
(a lineup that could not be read, a driver without a watermark, a failed read or
append of the driver) and that have been given no other since.

### RaceRuntime: actions

| Action | In the code |
|---|---|
| `ScheduleHeat`, `HeatTransition`, `Finalize`, `SetCurrentHeat`, `FileProtest`, `ResolveProtest`, `ReverseResolution` | the arms of `command_to_event` and what they call, under `command_guard` |
| `Advance`, then `LoadOnDeck`, `LoadGenerated`, `NothingToLoad` | `apply_advance`: its appends are steps of their own, a crash or an unlocked append may fall between |
| `AppendOther` | any entry that is no transition, as far as the folds kept here can tell |
| `BridgeStarts`, `BridgeGivesUp` | the first read, `in_flight_heats`, the early return |
| `HandleRunning`, `HandleRunningUnread`, `HandleUnofficial`, `HandleOffRamp`, `HandleStaged`, `HandleArmed` | `handle_transition` on the next transition of the tail, `cancel_for` and `install` included |
| `SourcesDone` | the reaping of a finished source at the top of the bridge's loop |
| `AnnounceStart`, `FireStart` | the start driver before and after its hold |
| `ExpireRace`, `FinishAtEnd`, `FinishAfterGrace` | the completion driver's stage 1 (with and without a grace window) and stage 2 |
| `AnnounceWindow`, `NoWindow`, `CheckProtests`, `FireOfficial` | the auto-official driver: deadline, hold, count outside the lock, recheck under it |
| `ClockFails` | the `Err` arms of the drivers |
| `Crash`, `Boot` | the process |

Choices made in translating:

- Time is left out. A hold, a limit or a deadline may elapse as soon as it has
  started, which includes every real timing.
- Passes are left out of this module. Whether the race is over is a free
  choice; `Endless` names the heats for which it never is.
- `BridgeStarts` hands the heats in flight to the handler by putting their
  synthetic transitions at the front of the tail. The code handles them inside
  one task turn before it polls; other tasks may run in between on other
  workers in both.
- `Unseated`, `ZeroGrace`, `UntilScored`, `AutoOfficial`: the configuration of
  the heat's round as `heat_clock_config` resolves it.
- A heat still Scheduled may be scheduled again with other seats or channels
  (`SetHeatLayout`, `OverrideHeatSeating`, a round edit). `heat_state` and
  `on_deck` answer as before: an `AppendOther` here, a `ScheduleHeat` in
  `Marshaling`, where it moves the position.
- Entries that Stage and Start append before their transition (the layout
  stamp, the detection pin) are, to these folds, an `AppendOther`; the plugin
  check that may refuse Start adds no behaviour.
- `on_deck` passes over heats of removed rounds; rounds are not part of this
  module, so none is removed.
- A pass or another unlocked append may fall anywhere: `AppendOther`.

### RaceLog and Marshaling

`RaceRuntime` keeps of the log what the clocks need. `RaceLog` keeps the log:
a sequence of entries, each a record of its kind, its heat or the position of
the entry it rules on, and its instant. What the code folds is an operator of
the log:

| Operator | In the code |
|---|---|
| `HeatState`, `RunStart`, `PassCeiling` | `heat_state`, `current_run_start`, `current_run_pass_ceiling` |
| `HeatOf`, `PositionalHeat` | `heat_of_offset`, `positional_heat_at`: what the locks and guards ask |
| `Window` (`Admits`) | `heat_window_offsets`: what a heat is scored from |
| `Corrected` (`Chain`, `LastWord`, `PilotAt`, `InstantAt`) | `corrected_and_voided_passes` |
| `Kept` (`Walk`, `KeepNext`, `Exempt`, `Marker`) | `corrected_and_voided_passes_with_floor`, `race_expired_offset` |
| `Standing`, `Result` | `Adjudications::collect`, and what `score_heat_window` hands to the scorer |

`Marshaling` has one variable, `log`, and one action per command:
`VoidDetection` (also the restore), `AdjustLap`, `SplitLap`, `InsertLap`,
`InsertUntagged`, `VoidHeat`, `ApplyPenalty` (with `DeductPoints`),
`ThrowOutLap`, `ReverseRuling`. Around them the race goes on: `ScheduleHeat`,
`HeatLoopStep`, `ExpireRace`, `RecordPass`. A guard is an operator named for
what it asks (`TargetNotFinal`, `InCurrentRun`, `NotThrownOut`, ...) and is one
`require_..` function.

Choices made in translating:

- Positions start at 1; in the code offsets start at 0. They are only compared.
- A guard that looks through the whole log and one that looks from the run's
  start are kept apart (`StandingInLog`, `NotVoided`), as the code has them.
- No command voids a re-time, so the arm of the corrections fold for it is left
  out. Points change no heat result and are one kind of penalty.
- Every pass carries the heat its sink stamped (`PassSink::for_heat`), is of the
  lap gate and of one timer. It may be appended at any time after the heat first
  ran, for what a source recovers from its timer comes late.
- Protests are in `RaceRuntime`, and with them the gate on Finalize.
- Floor and bounce window are constants. The code takes the floor from the
  round and the bounce window from the pin of the latest arm.
- A fold that scans the log forward is a recursive function of the position, for
  what an entry means depends on the entries before it only. The walk down a
  pilot's crossings is a recursive function of the set of those walked: `Walk`
  takes off the one that comes last.
- Guard and append are one step. Commands and clocks share a lock; a pass does
  not take it, but only the collision guard looks at passes, and a pass between
  it and the append has the effect of the same pass right after.

### ChangeFolds, ChangeStream and LogFollower

A body, what a client shows, is the heat on screen and its standing laps:
`LiveFold(log, n, rounds)` is `ScopeProjection::fold` over the first `n`
entries with the registry's round config of the moment. The entries appended
are those the stream tells apart: one that wakes a client whatever it changes
(`heat`), one that changes the body (`lap`), one that changes it back (`void`)
and one that no body shows (`quiet`).

| Variable | In the code |
|---|---|
| `log`, `rounds` | the event's log; whether the registry still defines the heats' round |
| `unnotified` | appends committed whose `notify_waiters` has not run yet |
| `session` | per open socket: where `run_stream` is, its place among the waiters, the log and rounds it read, and its `Engine` (`applied`, `last`, `nextSeq`) |
| `chan`, `link` | frames sent and not yet handled; whether the socket still reaches its session |
| `client` | the connection object of `client.ts`: body, resume cursor, `streamSeq`, and what it waits for |

| Action | In the code |
|---|---|
| `AppendEntry`, `Notify` | `AppState::append`: commit under the mutex, wake behind it |
| `RemoveRound` | `remove_round`: the registry changes, the log does not |
| `Subscribe` | the tail is read, the cursor judged, the replay span fixed |
| `Enrol`, `ReadLog`, `Replay`, `Walk`, `Park`, `Wake` | one turn of `run_stream`: `wake.enable()`, `read_all` and `RoundFloors`, `advance` over the span that was history and then offset by offset, the `select` |
| `FetchSnapshot`, `SnapshotFails` | `fetchSnapshot`; the snapshot handler's body and cursor are of one read |
| `SocketOpens`, `Deliver`, `SocketCloses`, `Reconnect` | `onopen`, `handleMessage` with `applyEnvelope` and `resnapshot`, `onclose`, the reconnect timer |
| `DropLink`, `Restart` | a socket breaks and some first frames still arrive; the Director starts again on the same log |

Choices made in translating:

- One client state machine stands for consoles and overlays. Clients share
  nothing but the log, so one is enough for TLC.
- A failed request retries; an answer cut off inside its body leaves nothing
  scheduled, as `client.ts` reads the body outside every handler. Such a client
  is `stranded` and excused by `CatchesUp`.
- A removed round is no entry and wakes nobody. A client may show a body of the
  old config until the next append; `ExactCursor` allows that and no more, and
  `CatchesUp` excuses it.
- Left out: the class, heat and pilot scopes, the ranking and signal
  projections (the same engine over another fold), slow readers, backoff
  lengths, `stop()`.

### TimerConnections

| Variable | In the code |
|---|---|
| `timer` | the record of the timer registry: address, kind, published status, manual hold, parked writes |
| `selected` | whether the active event's selection has the timer |
| `seen` | whether the reconciler has granted the courtesy hold of a new timer |
| `tick` | where the reconciler's sweep is, and what it read on the way |
| `conn` | `RhConnections`' map: the connection under each claim, by the event or by the hold |
| `rested` | the resting set |
| `leaving` | cancelled connections whose thread has not ended |
| `heat` | the event's heat: staged, running, unofficial |
| `answers` | the addresses at which a RotorHazard answers now |

`asked` and `straggled` are history, for `RestsUntilAsked` only: whether
anything has asked for the timer since the last dial that answered to what is
wanted, and whether a cancelled connection has since published a status.

| Actions | In the code |
|---|---|
| `Sweep`, `Reconcile`, `Deliver` | a tick of `spawn_rh_reconciler`: `auto_hold_new_timers` and `wanted_connections`; `plan` and what `reconcile` makes of it; the parked writes |
| `Drive`, `DriveOut` by `Dial`, `FailDial`, `Connect`, `Accept`, `DrainWrites`, `Settle`, `LoseLink`, `Leave` | the thread's `drive`, of a connection in the map and of a cancelled one |
| `Select`, `SetManualConnect`, `UpdateTimer`, `RequestWrite` | the race director: selection, Connect and Disconnect, an edit of address or kind, a restart or a tune |
| `StageHeat`, `ArmHeat`, `DisarmHeat`, `FinalizeHeat` | the bridge's `prepare`, `arm_heat`, `disarm` on the connection of the event |
| `Flap` | an address comes up, or goes down with every link to it |

Choices made in translating:

- The reads of a tick share no lock, so each is a step. Everything else may
  come in between.
- A cancelled thread looks at its flag at the top of its loop, in its backoff
  and on every turn of `maintain`, never between a dial and its outcome. So it
  may still connect and publish; `DriveOut` is that thread.
- One timer stands for all: connections of two timers share no state.
- The Director is not restarted here. Connections, rests and parked writes are
  in memory and begin again as in `Init`.
- Backoff lengths are left out: the next dial may come at any time.

### PassFeed

A lap carries its stamp, which starts again with every race, and for the
properties only the heat it was flown in and the number of the crossing.

| Variable | In the code |
|---|---|
| `box` | RotorHazard (external): status of its race, its lap table, laps whose plugin greenlet is still to run |
| `link`, `orders` | whether the socket works; what was emitted on it and not obeyed yet |
| `adapter` | `RotorHazardAdapter`: `last` race status, `seen` keys of the deduplicator, laps `held` for the plugin with the number of tables that told of them, `live` and `fallback` |
| `sink` | the transport's event queue |
| `driver`, `prepare`, `waits` | where the thread is (`leaving`: its drain has failed, it stops the race and closes a link that may be sound); the reset and the seating due for a staged heat; its deadlines (the race it asked to start, the laps it lets settle) |
| `slot` | `ArmedHeat`, with `staged`, `started`, `finishing` and `done` |
| `heat`, `gate`, `log` | the event's heat; the timer let in; the passes in the log, as a bag |

`told` and `spent` are history: the laps a timer has told of, and those put
aside where the code says that it puts them aside.

| Actions | In the code |
|---|---|
| `Cross`, `SendSnapshot`, `SendStatus`, `PluginPasses`, `PluginAnswers`, `DeleteLap`, `Obey`, `Save`, `DropLink` | RotorHazard, its plugin and the network (external); each hands its frame to `translate`: `SnapshotSeen`, `StatusSeen`, `PluginPassSeen`, `SwitchSource` |
| `Connect`, `FailConnect`, `Greeted`, `LoseLink` | `drive` and `RotorHazardConnection::connect`; the adapter is carried from link to link |
| `Prepare`, `Seat`, `StageRace`, `RetryStage`, `GiveUpStage`, `FinishRace`, `SettleAgain`, `ClearSlot`, `Drain` | one turn of `maintain`, top to bottom |
| `FailDrain`, `Leave` | the append of a pass is refused: the rest of the drain is dropped, `maintain` returns the error, and `drive` asks the timer to stop and closes the link |
| `StageHeat`, `ArmHeat`, `PollGate`, `DisarmHeat` | the bridge, with `active_source` at each poll |

Choices made in translating:

- Passes of two seats share no state but the race, so one seat stands for all.
- The passes that one frame yields are one event of the queue, a set: their
  order within the frame, which is that of the lap table, tells no property
  apart. What lies behind a race's start in the queue (`Behind`) is kept.
- An order and the frames that answer it are one step. Orders on a link that
  drops are lost.
- One drain is one step; what was asked of the thread comes before the drain
  of the same turn. A refused append may come anywhere in a drain, and within
  one event too, whose passes are a set. A pass whose append fails is not in the
  log.
- Behind a refused append the order to stop may be obeyed before the link is
  closed, and the answer heard or not. The redial is immediate, which for the
  connection alone is what `TimerConnections` has as a lost link.
- `MaxDrops` bounds the links lost by themselves and behind a refused append,
  together.
- The greenlets of a race have run before the next race begins.
- A crossing's key is its stamp, as `PassKey::of_with` has it. The clock mapping,
  crossings RotorHazard does not count, seat names and signal traces are left
  out.
- A staged heat is not aborted here. That is in `RaceRuntime`, without passes.

### Rounds

| Variable | In the code |
|---|---|
| `round`, `saved` | the event registry's copy of the round, in memory and on disk |
| `heats` | per heat, what the log says: phase, line-up, channels, the bound layout, a seating set by hand |
| `onTimer` | the heat of Live control |
| `standing`, `drawn` | the ranking of the round this one carries from; the field recorded in the log |
| `held` | the command that holds the command lock, and what it read |
| `edits` | how far each console's edit of the round is, and what its probe read |

`behind` is history: the heats that an edit of the round, or a choice of the
race director, did not reach. An edit leaves a heat behind if its write failed
or the Director crashed behind it, if its re-draw skipped the heat, worked off a
configuration another edit has replaced, or off a ranking nobody recorded, or if
the heat was raced by then. A choice leaves its heat behind if it was refused or
cut off after it was recorded. A later re-draw or fill that seats the heat
brings it back.

| Actions | In the code |
|---|---|
| `Probe`, `ProbeBlind`, `RefuseEdit`, `WriteRegistry`, `FailWrite`, `RewriteHeats` | `update_round` and `remove_round`: read the log (`round_heat_facts`, which takes a log it cannot read for one where nothing has raced), then write memory and disk, then `rematerialize_round_heats` under the command lock |
| `FillRound`, `FillAgain`, `RecordDraw`, `ScheduleHeat` | `apply_fill_round` and `fill_round_once`: the registry is read once, the draw recorded before the heat |
| `StampLayout`, `StageStamped`, `Stage`, `StageUnstamped`, `Finalize`, `Revert`, `Reset`, `SetCurrentHeat` | the heat's commands, with the layout stamp staging records first, or does without if the log cannot be read for it |
| `SetHeatLayout`, `OverrideHeatSeating`, `SeatingUnassigned`, `Reschedule` | a layout or a seating set by hand: two appends; a seating that no channels can be assigned to, or a heat that the plan no longer has, ends with the first |
| `FailAppend` | an append, or the read ahead of it, fails between the appends of a fill, a staging or a choice |
| `SourceMoves` | a ruling or a result elsewhere moves the source's ranking |
| `Crash` | memory is read back from disk, the log is all there |

Choices made in translating:

- The round races head to head, so every heat of the field is planned at once
  and heats are filled in order. A line-up is named by the field it was cut
  from; which pilots of the field is not modelled.
- The four phases of a race are one: what matters here is whether a heat may
  still be re-tuned.
- The re-draw is one step, and reaches any subset of the heats still to race.
  The code is best-effort by its own word: a heat that the plan does not have,
  that gets no channels or whose append fails is left alone, all are if the
  round cannot be planned or the log not read, and the edit stands either way.
  Which of them are reached is a free choice here, for plan and assignment are
  not modelled; a crash between two appends is among the choices.
- The event has a timer and every round names a layout, so that a heat is tuned
  off a layout or by hand.
- Adding a round and the CRUD of classes, pilots, events and channels are left out.

## Runs

| Run | Question | Result |
|---|---|---|
| `one_heat` | one heat raced again and again, a protest, bridge up to 3 behind, one late abort, one crash: do all safety properties hold, is it a heat loop, and with fair scheduling does a heat left alone go on? | passes, about 70,000 states |
| `two_heats` | two heats, one with no seats and one with no grace, Advance and generated heats, one crash, one failed read or append: is a clock of either lost but the one the failure took? | passes, about 393,000 states |
| `marshal` | do corrections land in the right heat, undo what they undo, and leave an official result alone? | passes, about 125,000 states |
| `stream` | does a console show the fold at its cursor, never an older one, in the end the log's, and without a snapshot it can do without, through failures? | passes, about 640,000 states |
| `timers` | one connection, no write on another link, no dial from rest, an armed heat that reconnects? | passes, about 340,000 states |
| `rounds` | with two consoles editing and a read, write or append that fails: do heats flown stand as flown, and do heats to fly follow their round, but for those the code leaves behind? | passes, about 1,670,000 states up to symmetry |
| `passes` | with one timer: is each crossing one pass, of its heat, and none lost but where the thread says so? | passes, about 2,830,000 states |
| `gap_protest` | is a protest that blocks Finalize always inside the window shown? | no, after 7 steps |
| `torn_grace` | does one crossing a pilot count after the tone? | no, 3 entries behind an opening |
| `stale_disqualification` | is a refused disqualification one that stands? | no, 1 entry behind an opening |
| `redrawn_field` | does the field of a round that raced off it stand? | no, after 8 steps |
| `failover` | is no crossing in the log from both timers of a gate? | no, after 18 steps or a few more (workers race) |

`one_heat` and `two_heats` use heats with different configuration, so no
symmetry is declared. `rounds` declares its consoles and its rankings
interchangeable: no definition or value tells them apart, and the run has no
liveness property, so the reduction is sound.

Deadlock is checked in the runs of `RaceRuntime` and of `PassFeed`: a live
Director can always do something, and a thread that lost its link always tries
again. The runs of `Marshaling`, `ChangeStream`, `TimerConnections` and `Rounds`
stop where their bounds stop the people in them, so there it is not.

### Properties

Of `RaceRuntime`:

- `QuietWhenCaughtUp`, `NeverOrphaned`: a bridge that has caught up has exactly
  the clocks and timers the phases call for. Together they say that `HeatClock`
  neither leaks nor loses a task, for any interleaving of commands, clocks,
  late aborts and restarts. A failed read or append costs a heat its own clock
  and no longer than until its next one; never another heat's.
- `StartsAreAnnounced`, `OfficialsAreAnnounced`, `GraceIsMarked`: what a clock
  does to a heat was announced in the same stay in the phase. These break if
  the recheck compares the phase alone.
- `NoOfficialOverProtest`: by whichever path, nothing contested becomes final.
- `ImplementsHeatLoop`: refinement of `HeatLoop` with
  `contested[h] = {open protests of h}`.
- `ArmedGoes`, `RaceCloses`, `WindowCloses`, `EmissionStops`: liveness.

Of `Marshaling`:

- `RoutingAgrees`: the fold that decides what a heat is scored from and the one
  the locks ask agree on every entry.
- `OfficialFrozen`: nothing changes a result between Finalize and Revert, be it
  a ruling reached through a chain of rulings, an insertion without a heat, a
  late pass or another heat's transitions.
- `RecordClosed`: after a run has once been official, a late pass never joins
  it, through any number of Reverts.
- `CleanStart`: the moment a run starts its result is empty, whatever was ruled
  on an abandoned one.
- `UndoFlips`: undoing the ruling that decides about a pass turns the decision
  round, at any depth of the chain.
- `OneOfAKind`: what the guards against duplicates are for. At most one
  effective throw-out of a lap, one disqualification of a pilot in a heat, one
  void of a run, whatever is reset, raced again, reversed or restored between.
- `ReversalBites`: therefore the reversal of a ruling that stands takes its
  effect away from the result.
- `RulingsLand`: no accepted ruling on a pass that a heat owns is dropped by the
  fold, unless the pass is outside the closed record.
- `PlacedApart`: no command that names its heat makes a lap of no duration.
- `ShortLapsAreRuled`: two kept crossings closer than the floor or the bounce
  window are there by a marshal's word.

Of `ChangeStream`:

- `ExactCursor`: what a client shows is the fold of the log exactly at its
  resume cursor, after any mix of snapshots, resumes, lost frames, restarts and
  re-snapshots.
- `NoGap`: no frame that is about to be handled is one the client would drop as
  seen or take for the end of a gap.
- `NoStaircase`: a resume is one settled body, not one for each entry missed.
- `SchedulesHeard`: every `HeatScheduled` reaches the client, whether or not it
  changes the body.
- `NoNeedlessSnapshot`: a client that holds a snapshot takes another only where
  the log has outrun the retained window. A cursor at the window's very edge is
  replayed; a refusal one entry early breaks it.
- `CatchesUp`: liveness. A wake-up enrolled too late breaks it.
- `ImplementsFollower`: refinement of `LogFollower`, whose point in the log
  only moves forward.

Of `TimerConnections`:

- `OneConnection`: the map never holds two connections to a timer.
- `WritesStayWithTheirLink`: a queued write is never sent on a later link.
- `RestsUntilAsked`: a timer that gave up is dialled again only if something
  asked for it, or if a connection on its way out wrote over the status the
  rest is read from.
- `ArmedHeatsReconnect`: liveness. Once its timer answers for good, a heat armed
  on a running connection is raced on a live link, whatever the cap on
  attempts, unless it ends, or its timer is deselected or edited.

Of `PassFeed`:

- `ToldOnceOverAgain`: one pass a crossing, by the plugin and the lap table,
  again behind every crossing and on every new link.
- `FlownInItsHeat`: what a timer still tells of the race before is nobody's.
- `NothingSwallowed`: a lap that was told is in the log, on its way, held for
  the plugin, or was put aside at one of the places where the thread says so: no
  heat armed or its race not begun, a gate that is closed, what a reset, a
  seating, a start or a finish stirs up, an attempt to connect that failed, a
  link that died before the drain, an append that was refused.

Of `Rounds`:

- `KeepsWhatItFlew`: no edit, fill or choice in flight reaches a heat past
  Scheduled.
- `ScheduledFollowsRound`: a heat still to race is seated by its round or by
  the race director, and tuned to the layout bound to it or to its round's.
- `StampedAsFlown`: the layout staging records is the one that tuned the heat.
- `FieldStands`: a draw, once made, is not moved by the source round nor lost
  to a crash behind it.

The last three are about the heats that were not left behind (`behind`): for the
others they are false in the code, which says so of its re-draw. What they show
is that nothing else breaks them, and no heat is left behind for good that a
later fill or edit reaches.

Each property is paired in `PROJECT.json` with a mutation of the code's model
that breaks it. Type invariants and `FreshHaveAnnounced`, of `RaceRuntime`, are
proved and not listed in the runs again.

### Bounds

*RaceRuntime.* `MaxLag` pauses the race director while the bridge is that many
transitions behind. Three are enough for a heat to be armed, aborted, staged and
armed again unread, with the clock of the first arming still holding; every
confusion of two stays needs only one unread departure and return. `MaxLate` is
the number of aborted tasks that still run: one loose task beside its successor
is the case the watermark is for, and each loose task acts on its own heat only.
`MaxCrashes` is 1: a restart loses all state but the log, so a second one meets
nothing new, and the phases a crash may find are all reached. `MaxIoErrors` 1,
in `two_heats`, lets each failing read or append happen once, anywhere; what it
costs is told per heat (`hurt`), so that the other heat, and the same one once
it goes on, are still judged behind it. One
protest suffices because protests do not interact except through "is any open";
two heats because a heat meets another only through focus, the active source,
on deck and the lock. `expired` and the sequence `order` are bounded by the
others.

*Marshaling.* The run starts from seven logs (`MCMarshaling`): an empty one, a
heat racing, the same with the next heat scheduled ahead of time, the same with
a crossing removed and restored, the same with a lap thrown out and that taken
back, a heat official while the next one races, and a heat called back after it
was ruled on and armed again. An assumption checks that each is a log the heat
machine and the guards of the rulings accept. From each, `MaxSteps` = 3 further
entries of any kind: enough for a ruling, its reversal and a third that meets
both; for Finalize, Revert and a late pass; for a restart's Running and two
rulings on the new run. One pilot, since no guard or fold relates two but by
keeping them apart; three instants, so that a crossing can be too close
(`MinLap` = 2), far enough, or at the same instant as another; two heats, for
one to interleave with. `torn_grace` and `stale_disqualification` set `MinLap`
to 0 so that only the rule asked about drops a crossing.

*ChangeStream.* Four entries and a retained window of one: a cursor may be at
the tail, inside the window, at its edge or beyond it, and an entry may fall
before the subscription, between the tail read and the log read, and between
the log read and the wait. One failure of any kind at any moment; a second one
meets a client in one of the states the first one already left it in.

*TimerConnections.* A right and a wrong address, a cap of two attempts, one
command of the race director (a selection, a hold, a release or an edit), two
changes of the network (down and up again), one write, one heat. The first sweep
adds the courtesy hold by itself, so that even with one edit the two claims on a
timer meet.

*PassFeed.* Two heats, for laps of the one to be told in the other; two
crossings, for a lap to be told again behind another; one lap deleted on the
timer, so that the numbers shift; one lost link or refused append; attempts to connect may fail
any number of times. `Grace` is 2, the least that tells the first table to
tell of a lap from the one that convicts the plugin. `failover` has a primary
and an alternate, one heat, one crossing and one lost link.

*Rounds.* Two heats, so that one may be raced and the other still to race; two
layouts that go round them; two configurations, which differ in layouts, scoring
and seeding; two edits on two consoles, of which a blind one is one; one choice by
hand; one failure, a read, write or append or a crash. The heats' commands, Live
control and the source's ranking are unbounded, and so are the heats a re-draw
skips: that costs no failure. `redrawn_field` has one edit.

### Fairness

*RaceRuntime.* Weak fairness of `Boot` and `BridgeStarts`: the process is
restarted and its runtime starts. Weak fairness of the handlers: the bridge's
ticker ticks. Weak fairness of each clock's unlocked step: tokio polls it and its
sleep ends. Strong fairness of the steps that take the command lock: a waiting
task gets the mutex between commands, which come from people and are far apart.
The steps of an `Advance` that holds the lock return. Nothing is assumed of the
race director, of a race without an end, or of a grace window without a
deadline. The liveness properties are checked without I/O errors; what one does
is told under *Observed*.

*ChangeStream.* Weak fairness of `Notify`, of each session's steps and of each
client's: `append` goes on from its commit to its wake-up, the server's runtime
polls a task that is ready, the browser runs a callback that is due. Nothing is
assumed of appends, edits and failures.

*TimerConnections.* Weak fairness of the reconciler's three steps, whose ticker
ticks; of each connection's thread, and of cancelled ones, which run on threads
of their own. Nothing is assumed of the race director or the network:
`ArmedHeatsReconnect` has "the addresses come to answer for good" as its
hypothesis.

### What the refuted statements show

1. *A protest in the gap after a reset* (`control_handler.rs:2463`,
   `gap_protest`). The check that a heat has run compares the start of its run
   with the length of the log, so any entry behind the reset satisfies it. The
   protest then blocks Finalize from outside the re-run's window, which the
   comment at line 2032 says it prevents.
2. *Torn grace* (`app.rs:2867`, `torn_grace`). The window has no arm for
   `RaceExpired`, so the marker falls to the positional rule. Scheduling another
   heat while one races moves the position, the marker is not in the window, and
   the result counts every crossing after the tone. The live view finds the
   marker.
3. *Stale disqualification* (`control_handler.rs:2376`,
   `stale_disqualification`). The guard against a second disqualification looks
   through the whole log; one given in an abandoned run counts for nothing and
   still makes the handler refuse the one that would count. The guard for heat
   voids was given the run's start for this reason.
4. *Redrawn field* (`round_engine.rs:2206`, `redrawn_field`). An edit re-draws
   the heats of its round and drops the draw the plan came with. A round filled
   from its roster and edited to a carried seeding then races off a field that
   no entry records, and a ruling on the source round moves it. The comment at
   line 818 says that a carried field is drawn once and recorded.
5. *Failover* (`failover.rs:62`, `failover`). The gate lets in the passes of the
   timer that is active when they are drained, not of the one that was when they
   were flown. The alternate's pass of a crossing is drained, the primary comes
   back, the next poll moves the gate, and the primary's pass of the same
   crossing is let in too. Lines 57 and 58 promise that switching back does not
   double-count.

**Observed**, with no run:

- *A frozen round edited* (`events.rs:2340`). `round_heat_facts` takes a log it
  cannot read for one in which nothing has raced and nothing is in progress, so
  a failed read lets an edit, or a removal, past both guards: the scoring of a
  round that has raced changes. The probe and the write share no lock either: a
  heat staged between them (`events.rs:2512`) has the same effect. `ProbeBlind`
  and `Probe` have it; the heats raced are then `behind`.
- *A re-draw that skips* (`round_engine.rs:2203`, `events.rs:2683`). Heats that
  cannot be planned or assigned stay on the old configuration, and the console
  is told of no difference. Staging such a heat stamps the new layout over the
  channels of the old one.
- *A refused seating that stays* (`control_handler.rs:1614`). The seating is
  appended ahead of the assignment that may refuse the command; it then takes
  effect at the next re-draw.
- *A stamp without its race* (`control_handler.rs`, the stamp of Stage). If the
  append of the transition fails behind the stamp, the heat stays bound to the
  layout, whatever an edit then gives the round.
- *Focus* (`source.rs:1926`). The auto-official step of an earlier heat takes
  Live control away from the heat that is racing; the comment at
  `control_handler.rs:2095` promises that focus stays.
- *Two tones* (`source.rs:1729`). A restart in the grace window logs a second
  end-of-race marker. Scoring takes the last, so the pilots' boundary moves.
- *Read errors* (`source.rs:572`). The bridge's tail loop retries, and its
  comment says why; the first read, a driver's watermark and a driver's append
  do not.
- *A dangling throw-out* (`control_handler.rs:1879`). `VoidDetection` asks for a
  throw-out at the offset it names. Remove a pass, restore it, throw its lap
  out, and void the restore: the void names the restore, the guard finds
  nothing, and the pass goes while the throw-out stands.
- *A second reversal* (`control_handler.rs:2057`). `ReverseRuling`
  does not look for an earlier reversal of the same ruling: a second one is
  accepted and has no effect.
- *An insertion nobody owns* (`control_handler.rs:1935`). An insertion that names
  no heat, ahead of the first heat of the log, belongs to no heat; it and what
  is ruled on it are accepted and count nowhere.
- *The pilot scope* (`ws.rs:292`, `app.rs:2722`). The stream and the snapshot
  resolve a pilot's seat differently: on a timer with seats the stream of a
  pilot never shows the laps its snapshot does. `ChangeStream` follows the event
  scope, which both sides fold alike.
- *A superseded thread* (`source/rotorhazard.rs:815`). A cancelled connection
  that is dialling publishes the outcome over its successor's status, and the
  rest of a timer is read from that status. `RestsUntilAsked` excuses it
  (`straggled`).
- *A lap lost with its link* (`source/rotorhazard.rs:918`). A lap translated on
  a link that dies before the drain is in the deduplicator, which is kept, and
  in the sink, which is not. The replay on the next link is taken for a repeat.
  `NothingSwallowed` counts it as put aside.
- *Passes lost with an append* (`source/rotorhazard.rs:1595`). A refused append
  ends the drain and the link: the rest of the drain is in the deduplicator and
  nowhere else, the race on the timer is stopped, and the thread dials again at
  once, with no status published and no backoff. The heat stays armed with its
  staged flag set, and nothing stages it again. `FailDrain` and `Leave` have it;
  `NothingSwallowed` counts the passes as put aside.
- *A slot cleared under a new heat* (`source/rotorhazard.rs:1543`). A heat armed
  between the look for a staged race and the end of the settle time, in one turn
  of `maintain`, is cleared with the finished one; the cancelling of the settle
  at line 1430 comes only with the next staging. `ClearSlot` has it.

## Proofs

All theorems are for any value of the constants that the named assumptions
allow: any set of heats, protests, pilots, addresses, timers, layouts,
configurations and consoles, and any bounds. The assumptions are in the modules that declare
the constants. `RaceRuntime`: `NoHeatAssumption`, `ConfigAssumption`,
`BoundAssumption`. `RaceLog` and `Marshaling`: `LogAssumption`,
`OpeningAssumption`. `TimerConnections`: `UrlsAssumption`, `CapAssumption`,
`ConnectionBoundsAssumption`. `Rounds`: `HeatsAssumption`, `ConfigsAssumption`,
`ValuesAssumption`, `RoundBoundsAssumption`. `ChangeStream`: `KindsAssumption`,
`WindowAssumption`, `BoundsAssumption`. `PassFeed`: `SelectionAssumption`,
`GraceAssumption`, `FeedBoundsAssumption`. They say that the parameters have
their types, that special values are not members of the sets they stand beside,
and that the logs `Marshaling` starts from are logs the program can have
written; the empty log is one.

- `TypeCorrect` (`RaceRuntimeProofs`). `TypeOK` is inductive. The lemmas follow
  the model's helpers (`Transit`, `Installed`, `Spawn`, `Turns`, `TransitIf`),
  so that each action's case is a citation.
- `ClocksAnnounce` (`RaceRuntimeSafety`). `TypeOK /\ FreshHaveAnnounced` is
  inductive. The properties of the three clocks are not inductive by
  themselves: that a holding countdown has logged its tone must be known of
  *every* task whose recheck would pass, loose ones included, and is kept
  because a transition removes the heat's tasks from `fresh` at the moment it
  empties `cued`. From it follow `StartsAnnounced`, `OfficialsAnnounced` and
  `GraceMarked`.
- `CaughtUpIsQuiet`, `NoHeatIsOrphaned` (`RaceRuntimeSafety`), both through any
  number of I/O errors. That a bridge at
  the end of the log holds the right clocks says nothing of the steps that bring
  it there. `BridgeInv` therefore relates what it has not read to what it
  holds: the last unread transition of a heat lands in its phase (`LastLands`);
  a heat with none unread has the sources and clocks of its phase (`Settled`);
  and a heat that the bridge emits for, or is about to, is next heard of in a
  transition that stops it (`RunningStops`, `ActiveStops`), for without that a
  handler could leave a source behind. `Listed` is for a restart, which finds the
  heats in flight through the schedule; `Asleep` says that it starts from
  nothing. Two lemmas do most of the work: a transition is appended
  (`TransitBridge`), and the head of the tail is handled. Every command and
  every clock's checked append is an instance of the first.
- `ProtestsAgainstScheduled`, `OfficialUncontested`, `Implementation`
  (`RaceRuntimeRefinement`). Every step that changes a phase is shown to be one
  of: scheduling; an accepted command; a clock's `TransitIf`, whose recheck
  makes the same edge legal. The refinement needs the invariant that a filed
  protest is against a scheduled heat, for a reversal re-opens a protest and
  must map to `Contest`.
- `TypeCorrect` (`MarshalingProofs`). Every action is shown to record one entry
  that fits the log (`RulingStep`, `StepRecords`), and a fitting entry keeps the
  log well formed (`AppendType`). The substance of `TypedLog` is that a ruling
  is about an earlier entry of a kind it may be about.
- `SingleInForce` (`MarshalingProofs`). With `TypeOK` it is inductive: a ruling
  in force after an append was in force before it or is the entry
  (`StandingAppend`), and the start of a heat's run stays or passes to the end
  of the log (`RunStartAppend`), so that voids of an abandoned run stay behind.
  `LatestIn`, that a set of positions has a greatest member, is proved by least
  counterexample from the library's `WFMin`.
- `RoutesAgree`, `EveryRulingLands`, `OfficialStays`, `RecordStaysClosed`,
  `UndosFlip`, `ReversalsBite`, `CrossingsApart`, `ShortLapsRuled`, `CleanSheet`
  (`MarshalingProofs`). A result is made by recursive functions: down the
  targets of rulings (`HeatOf`, `Window`, `Chain`, `PilotAt`, `Root`), and down
  a pilot's crossings (`Walk`). That such a function exists is proved once, by
  building it one rank at a time (`RankedRecursion`); what it computes then
  follows for each (`HeatOfIs`, `WindowIs`, `ChainIs`, `PilotAtIs`, `WalkIs`), and
  what holds of all its values by least counterexample, from `WFMin`. The second
  layer is what one more entry does to each fold: nothing, for entries that lie
  before it and a run that does not start anew (`WindowLonger`, `HeatOfLonger`,
  `CeilingLonger`, ...). `ResultLonger` draws this together: a result changes
  only by what joins its window and is neither a heat-loop entry nor another
  heat's tone. What then has to be shown of an official heat is that nothing a
  command or a timer may append joins. Two invariants carry this, beside
  `TypedLog` and `OneOfAKind`. `StandsByRun`: a heat that is Running, Unofficial or
  Final has a run in the log, and a Final one has closed its record within it.
  `RulingsOfRun`: a ruling of the current run on a pass is about an entry of that
  run; it is what `RulingsLand` needs at the second link of a chain. For
  `CrossingsApart` the crossing placed is compared with what the collision guard
  saw (`AloneThere`); for `ShortLapsRuled`, `Spaced` is kept by each step of the
  walk (`StepSpaced`), because the crossing measured from is the latest kept.
- `EntriesCountOnce`, `OthersUntouched`, `GraceIsOneCrossing`,
  `HeatsKeepToTheLoop` (`MarshalingProofs`) state what no run checks. The first
  two follow from the agreement of the two attributions: an entry is in the
  window of one heat only, and a result that changes has taken in the new entry
  (`ChangedByItsOwn`). The third, by `Graced` along the walk, says what is left of
  the grace rule that `torn_grace` refutes: it holds wherever the window has the
  marker. The last is the refinement of `HeatLoop` by the log, through
  `HeatStateLonger`; the openings other than the empty log are in mid-race, so
  its initial state is claimed of the empty one.
- `NeverTwoConnections`, `RestsUntilSomethingAsks` (`TimerConnectionsProofs`).
  The invariant is `Shape /\ OneAtATime /\ Booleans /\ Quiet`. `OneAtATime` says
  that what the sweep read as wanted is a single claim, and so is what is open:
  `Reconcile` retires what is no longer wanted in the step that opens what is.
  `Quiet` says what the reconciler can find when nothing has asked since the
  last dial: every wanted claim is open at the right address, or rests while the
  published status still says why. A step that asks makes it true at once
  (`AskedIsEnough`); a thread's step keeps it because a thread nobody cancelled
  exits only as it publishes `unreachable` (`StepKeeps`).
- `WritesReachTheirOwnLink` (`TimerConnectionsProofs`). `Links`: only a live
  connection accepts writes, what it has queued was asked on the link it has,
  and so is what is parked. A tick queues all parked writes at once by a
  recursive function (`QueueAll`); that every prefix of them is queued fresh is
  proved by least counterexample, from `WFMin`.
- `HeatsKeepWhatTheyFlew`, `CarriedFieldsStand` (`RoundsProofs`). The invariant
  is `Shape /\ LockTells /\ DrawTells`: the heat a holder of the command lock
  works on is still where it read it; and a carried round's heats stand on a
  recorded draw unless they were left behind. Each lemma shows of one action
  that it keeps the invariant and both properties (`Kept`).
- `ScheduledHeatsFollow`, `StampsAreFlown` (`RoundsProofs`). Both are false in
  the middle of a command that appends twice, and an edit reaches the heats some
  steps behind the registry. `FollowTells`, on top of the invariant above, says
  what each holder of the lock has still to write: what a fill will schedule is
  of the round as it is (`FillTells`), a stamp already written is a layout, and
  the heat's own (`StampTells`), and a heat being re-tuned by
  hand will follow (`WillFollow`). What is about heats is claimed of a heat unless it was left
  behind, and a heat that a re-draw or a fill takes out of `behind` is one that
  it has just seated by the round as it is (`Settles`).
- `CursorsAreExact`, `StreamIsAFollower` (`ChangeStreamProofs`). The invariant,
  `Sound`, is one client's at a time and orders what lies between it and the
  log: the client's cursor, the cursors of the frames on their way, first to
  last, what the session has folded, the end of the log. Every frame holds the
  fold at its cursor under a config that stood, and a client without a live
  socket has no frame on its way. The sequence numbers are not needed for these
  two: a frame taken out of turn could not be stale, because the socket keeps
  the order. A session resumes exactly at the client's cursor, so that its
  frames are never behind the client; `FoldOfPrefix` says that a point folds
  alike however far the log has grown. Each lemma shows of one action that it
  keeps the invariant and is a step of the follower or none (`Kept`).
- `FramesAreContiguous`, `ResumesSettle`, `SchedulesAreHeard`
  (`ChangeStreamProofs`). `Steady`, on top of `Sound`, again one client's at a
  time. `Sent`: the frames on their way are numbered on from the client's
  sequence, and the session's next number follows the last; a client starts to
  count with its socket. `Settled`: a session that has caught up has applied the
  tail of its subscription, and nothing on its way is older. `Heard`: each
  `HeatScheduled` the session has folded lies behind the client's cursor or
  behind a frame's.
- `SnapshotsAreNeeded` (`ChangeStreamProofs`). `Refused`, with `Sound`: a session
  that has yet to judge its client's cursor has that cursor, and a client that is
  told to take a snapshot has been outrun by the log, which only grows.
- `CrossingsAreCountedOnce`, `PassesAreOfTheirHeat`, `NothingIsSwallowed`
  (`PassFeedProofs`). One invariant for the three, `Feed`, and in it one timer's
  at a time, `Fit`. `Sound` ties the deduplicator to what it has let through: of
  the laps a timer can still tell of, it has seen exactly those that are in the
  log, in the queue or put aside. A crossing told again is then a repeat, and a
  lap taken for a repeat is accounted for. That needs two laps never to share a
  stamp, though stamps start again with every race: `Below` keeps those of a
  race under way below its next, counting the laps deleted on the timer, and
  `InStep` says that the translator holds a race to be on while the timer does:
  it is then cleared at the edge at which the timer starts afresh, though it may
  not have heard the end of a race stopped behind a refused append.
  `Own` is why a pass is of its heat: a heat that was staged and has seen its
  start, or will as the queue is drained, finds behind that start only laps of
  its own. `Stepped` and `Down` are the thread's part: a slot sees its start only
  once staged and is the running heat's, and a thread without a link has nothing
  left to drain. `Past`, that no lap is of a crossing still to come, makes a new
  crossing a new lap. The lemmas come in three families: of the translator, which frame yields
  which events; of one timer under one step; of each action on all of them.

Only model-checked:

- all liveness, which TLAPS does not reach: `ArmedGoes`, `RaceCloses`,
  `WindowCloses`, `EmissionStops`, `CatchesUp`, `ArmedHeatsReconnect`.

Every safety property a passing run checks is stated by a theorem.

## Plan

In order:

1. `Marshaling`, continued: the window of the live view and its agreement with
   the result; `NoDanglingThrowOut` and the collision of a restored pass; the
   class window (`class_window_offsets`).
2. `Presence`: the tail reader that binds seen pilots, which acts on a fold it
   read without the lock.
3. Pure operators: `race_end_reached`, `grace_satisfied`, placing, the clock
   mapping, against reference definitions.
4. The brackets of the other generators, which wait for results; the class,
   heat and pilot scopes of the stream.

## Not modelled

The models cover the parts in which order matters. They reach less than a tenth
of the implementation's lines, for much of the rest is of a kind that a state
machine has nothing to say about: serializable documents and their defaults,
request and reply shapes, decoding of foreign payloads, and the numeric search
for channels. Tests, which are half and more of several of the longest files,
are not mapped.

- Wire formats and decoding of timer payloads; HTTP routing, error shapes and
  the plugin archive; tokens and roles; SQLite's durability.
- Channel allocation and intermodulation scoring.
- Scoring and placing beyond which passes and rulings count; ranking of rounds,
  which `Rounds` takes as an input.
- The Velocidrone and mock sources; tuning, calibration and seat writes beyond
  that they are queued; signal traces.
- The presence reconciler; the detection pin of Start; open practice;
  registration; creation and removal of events, classes, pilots and channels.
- The RotorHazard plugins, which run inside RotorHazard: `PassFeed` models what
  they and RotorHazard do as far as the adapter relies on it, and marks it
  external. The consoles, the desktop shell, the test kit and the build.

`PROJECT.json` gives the reason for each component.
