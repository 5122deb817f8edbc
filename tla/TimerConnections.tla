--------------------------- MODULE TimerConnections --------------------------
(***************************************************************************)
(* One RotorHazard timer and every connection the Director opens to it.    *)
(* The reconciler (rh_connections.rs) compares twice a second what is      *)
(* wanted with what is open; each connection is a thread of its own        *)
(* (rotorhazard.rs) that publishes into the timer registry (timers.rs);    *)
(* the RD, the bridge and the network act in between. Timers share no      *)
(* state, so one stands for all.                                           *)
(***************************************************************************)
EXTENDS Naturals, Sequences, FiniteSets, SequencesExt

CONSTANTS Urls,         \* the addresses the RD may type
          FirstUrl,     \* the one the timer is created with
          Cap,          \* CONNECT_ATTEMPT_CAP
          MaxEdits,     \* bound: selections, holds, releases and edits
          MaxFlaps,     \* bound: times an address goes up or down
          MaxWrites,    \* bound: writes the RD asks for
          MaxHeats      \* bound: heats staged

ASSUME UrlsAssumption == FirstUrl \in Urls
ASSUME CapAssumption == Cap \in Nat \ {0}
ASSUME ConnectionBoundsAssumption ==
    MaxEdits \in Nat /\ MaxFlaps \in Nat /\ MaxWrites \in Nat /\ MaxHeats \in Nat

VARIABLES timer,    \* the registry's record: url, kind, status, hold, writes
          selected, \* whether the active event selects the timer
          seen,     \* the reconciler's courtesy hold was granted
          tick,     \* how far the reconciler's sweep is, and what it read
          conn,     \* the map's connection for each claim
          rested,   \* the claims that spent their attempts
          leaving,  \* cancelled connections whose thread still runs
          heat,     \* the event's heat: its number and phase
          answers,  \* the addresses where a RotorHazard answers
          asked,    \* history: something asked for the timer since the last dial
          straggled,\* history: a cancelled connection published a status
          left      \* what is left of each bound

vars == <<timer, selected, seen, tick, conn, rested, leaving, heat, answers,
          asked, straggled, left>>

\* Who may want a connection: the active event, or the RD's manual hold.
Claims == {"event", "hold"}

Statuses == {"configured", "connecting", "connected", "disconnected", "error",
             "unreachable", "ready"}

WriteKinds == {"restart", "tune"}
Writes == [kind : WriteKinds, stale : BOOLEAN]

NoHeat == [n |-> 0, finishing |-> FALSE]
Slots == [n : 0 .. MaxHeats, finishing : BOOLEAN]

\* A thread that has not dialled yet is like one whose backoff is over.
\* A connection: the address it was opened with, where its thread is, its
\* attempts in a row, its flags, the heat armed on it and its queued writes.
Connections == [url : Urls, pc : {"none", "dialling", "greeted", "live", "backoff", "exited"},
                attempts : 0 .. Cap, alive : BOOLEAN, accepts : BOOLEAN,
                yields : BOOLEAN, slot : Slots, queue : Seq(Writes)]

Open(url) == [url |-> url, pc |-> "backoff", attempts |-> 0, alive |-> FALSE,
              accepts |-> FALSE, yields |-> FALSE, slot |-> NoHeat, queue |-> << >>]

NoConnection == [Open(FirstUrl) EXCEPT !.pc = "none"]

RestingStatus(kind) == IF kind = "rotorhazard" THEN "configured" ELSE "ready"

Init ==
    /\ timer = [url |-> FirstUrl, kind |-> "rotorhazard", status |-> "configured",
                hold |-> FALSE, writes |-> << >>]
    /\ selected \in BOOLEAN
    /\ seen = FALSE
    /\ tick = [pc |-> "idle", wanted |-> {}, url |-> FirstUrl]
    /\ conn = [c \in Claims |-> NoConnection]
    /\ rested = {}
    /\ leaving = {}
    /\ heat = [n |-> 0, phase |-> "none"]
    /\ answers = Urls
    /\ asked = TRUE
    /\ straggled = FALSE
    /\ left = [edits |-> MaxEdits, flaps |-> MaxFlaps, writes |-> MaxWrites]

IsOpen(c) == conn[c].pc # "none"
OpenClaims == {c \in Claims : IsOpen(c)}

Spend(what) == left[what] > 0 /\ left' = [left EXCEPT ![what] = @ - 1]

------------------------------------------------------------------------------
(* The RD and the network.                                                 *)

\* The active event takes the timer into its selection, or lets it go.
Select ==
    /\ Spend("edits")
    /\ selected' = ~selected
    /\ asked' = TRUE
    /\ UNCHANGED <<timer, seen, tick, conn, rested, leaving, heat, answers, straggled>>

\* Connect holds the timer, and is the "try again" of one that gave up.
SetManualConnect(held) ==
    /\ Spend("edits")
    /\ held => timer.kind = "rotorhazard"
    /\ timer' = [timer EXCEPT !.hold = held,
                   !.status = IF held /\ @ = "unreachable"
                              THEN RestingStatus(timer.kind) ELSE @]
    /\ asked' = TRUE
    /\ UNCHANGED <<selected, seen, tick, conn, rested, leaving, heat, answers, straggled>>

\* Only a change of address or kind resets what is published.
UpdateTimer(url, kind) ==
    /\ Spend("edits")
    /\ <<url, kind>> # <<timer.url, timer.kind>>
    /\ timer' = [timer EXCEPT !.url = url, !.kind = kind, !.status = RestingStatus(kind)]
    /\ asked' = TRUE
    /\ UNCHANGED <<selected, seen, tick, conn, rested, leaving, heat, answers, straggled>>

\* A queued write of the same kind is folded into, in place.
QueueInto(queue, kind) ==
    LET again == SelectInSeq(queue, LAMBDA w : w.kind = kind) IN
    IF again # 0 THEN [queue EXCEPT ![again] = [kind |-> kind, stale |-> FALSE]]
    ELSE Append(queue, [kind |-> kind, stale |-> FALSE])

\* A batch of writes is queued one after the other, in the order it was asked.
QueueAll(queue, batch) ==
    LET after[n \in 0 .. Len(batch)] ==
            IF n = 0 THEN queue ELSE QueueInto(after[n - 1], batch[n].kind)
    IN after[Len(batch)]

\* The route parks a write for a timer that reads connected; a restart is
\* refused while a heat of the timer is in progress.
RequestWrite(kind) ==
    /\ Spend("writes")
    /\ timer.kind = "rotorhazard"
    /\ timer.status = "connected"
    /\ heat.phase = "none"
    /\ timer' = [timer EXCEPT !.writes = QueueInto(@, kind)]
    /\ UNCHANGED <<selected, seen, tick, conn, rested, leaving, heat, answers, asked, straggled>>

\* An address comes up, or goes down with every link to it.
Flap(url) ==
    LET cut(d) == [d EXCEPT !.alive = @ /\ (d.url # url)] IN
    /\ Spend("flaps")
    /\ answers' = IF url \in answers THEN answers \ {url} ELSE answers \cup {url}
    /\ conn' = [c \in Claims |-> IF IsOpen(c) THEN cut(conn[c]) ELSE NoConnection]
    /\ leaving' = {cut(d) : d \in leaving}
    /\ UNCHANGED <<timer, selected, seen, tick, rested, heat, asked, straggled>>

------------------------------------------------------------------------------
(* The bridge: what a heat asks of the event's connection.                 *)

\* With no connection to hand to, every rest on the timer ends.
Rouse ==
    IF IsOpen("event")
    THEN UNCHANGED <<rested, asked>>
    ELSE rested' = {} /\ asked' = TRUE

\* Staged prepares the connection, if the map holds one.
StageHeat ==
    /\ heat.phase = "none"
    /\ heat.n < MaxHeats
    /\ heat' = [n |-> heat.n + 1, phase |-> "staged"]
    /\ selected /\ timer.kind = "rotorhazard"
    /\ Rouse
    /\ UNCHANGED <<timer, selected, seen, tick, conn, leaving, answers, straggled, left>>

\* Running arms the heat on the connection, over whatever was armed before; a
\* timer deselected since is passed over.
ArmHeat ==
    /\ heat.phase = "staged"
    /\ heat' = [heat EXCEPT !.phase = "running"]
    /\ IF selected /\ timer.kind = "rotorhazard"
       THEN /\ Rouse
            /\ conn' = IF IsOpen("event")
                       THEN [conn EXCEPT !["event"].slot = [n |-> heat.n, finishing |-> FALSE]]
                       ELSE conn
       ELSE UNCHANGED <<rested, asked, conn>>
    /\ UNCHANGED <<timer, selected, seen, tick, leaving, answers, straggled, left>>

\* Leaving Running disarms whatever the event's connection has armed.
DisarmHeat ==
    /\ heat.phase = "running"
    /\ heat' = [heat EXCEPT !.phase = "unofficial"]
    /\ conn' = IF IsOpen("event") /\ conn["event"].slot # NoHeat
               THEN [conn EXCEPT !["event"].slot.finishing = TRUE] ELSE conn
    /\ UNCHANGED <<timer, selected, seen, tick, rested, leaving, answers, asked, straggled, left>>

FinalizeHeat ==
    /\ heat.phase = "unofficial"
    /\ heat' = [heat EXCEPT !.phase = "none"]
    /\ UNCHANGED <<timer, selected, seen, tick, conn, rested, leaving, answers, asked,
                   straggled, left>>

------------------------------------------------------------------------------
(* The reconciler's sweep, in three reads that share no lock.              *)

\* Mutant: the two inputs are listed side by side.
WantedUnderBothClaims ==
    IF timer.kind # "rotorhazard" THEN {}
    ELSE {c \in Claims : IF c = "event" THEN selected ELSE timer.hold}

\* A timer both selected and held is wanted once, by the event.
Wanted ==
    IF timer.kind # "rotorhazard" THEN {}
    ELSE IF selected THEN {"event"} ELSE IF timer.hold THEN {"hold"} ELSE {}

\* A timer seen for the first time is held, then what is wanted is read.
Sweep ==
    /\ tick.pc = "idle"
    /\ seen' = TRUE
    /\ IF ~seen /\ timer.kind = "rotorhazard" /\ ~timer.hold
       THEN /\ timer' = [timer EXCEPT !.hold = TRUE,
                           !.status = IF @ = "unreachable" THEN "configured" ELSE @]
            /\ tick' = [pc |-> "reconcile", url |-> timer.url,
                        wanted |-> IF selected THEN {"event"} ELSE {"hold"}]
       ELSE /\ timer' = timer
            /\ tick' = [pc |-> "reconcile", url |-> timer.url, wanted |-> Wanted]
    /\ UNCHANGED <<selected, conn, rested, leaving, heat, answers, asked, straggled, left>>

AtRest == timer.status = "unreachable"

\* What the plan does with the open connections: those whose thread is gone,
\* those moved to another address, those no longer wanted.
Reaped == {c \in OpenClaims \cap tick.wanted :
             conn[c].url = tick.url /\ conn[c].pc = "exited"}
Moved == {c \in OpenClaims \cap tick.wanted : conn[c].url # tick.url}
Unwanted == OpenClaims \ tick.wanted
Retired == Reaped \cup Moved \cup Unwanted

\* Mutant: a reaped claim is not remembered.
NewlyRestedNever == {}

NewlyRested == IF AtRest THEN Reaped ELSE {}

\* A connection that is replaced, or whose timer is no longer a RotorHazard,
\* leaves without a word; one nobody wants says it disconnected.
Yields(c) == c \in tick.wanted \/ tick.wanted # {} \/ timer.kind # "rotorhazard"

Cancelled(c) == [conn[c] EXCEPT !.accepts = FALSE, !.yields = Yields(c)]

\* History: what was asked is answered by a dial that nothing has outdated.
Answered(opened) == opened # {} /\ tick.wanted = Wanted /\ tick.url = timer.url

Reconcile ==
    LET still == {c \in rested : c \in tick.wanted /\ AtRest}
        resting == still \cup NewlyRested
        opened == {c \in tick.wanted \ resting : c \in Retired \/ ~IsOpen(c)}
    IN
    /\ tick.pc = "reconcile"
    /\ tick' = [tick EXCEPT !.pc = "deliver"]
    /\ rested' = resting
    /\ leaving' = leaving \cup {Cancelled(c) : c \in {r \in Retired : conn[r].pc # "exited"}}
    /\ conn' = [c \in Claims |->
                  IF c \in opened THEN Open(tick.url)
                  ELSE IF c \in Retired THEN NoConnection ELSE conn[c]]
    /\ asked' = (asked /\ ~Answered(opened))
    /\ straggled' = (straggled /\ ~Answered(opened))
    /\ UNCHANGED <<timer, selected, seen, heat, answers, left>>

\* The parked writes go to every connection whose link is up, or are lost.
Deliver ==
    LET Queued(d) == [d EXCEPT !.queue = QueueAll(@, timer.writes)] IN
    /\ tick.pc = "deliver"
    /\ tick' = [tick EXCEPT !.pc = "idle", !.wanted = {}, !.url = FirstUrl]
    /\ timer' = [timer EXCEPT !.writes = << >>]
    /\ conn' = [c \in Claims |->
                  IF IsOpen(c) /\ conn[c].accepts THEN Queued(conn[c]) ELSE conn[c]]
    /\ UNCHANGED <<selected, seen, rested, leaving, heat, answers, asked, straggled, left>>

------------------------------------------------------------------------------
(* A connection's thread. Each step takes the connection to another state  *)
(* and may publish a status; a step of a cancelled connection is the same  *)
(* step until the thread looks at its flag.                                *)

Silent == "silent"

\* The thread looks at its flag at the top of its loop, in its backoff and on
\* every turn of `maintain`, never between a dial and its outcome.
Dial(d, cancelled) ==
    IF ~cancelled /\ d.pc = "backoff"
    THEN {<<[d EXCEPT !.pc = "dialling"], "connecting">>} ELSE {}

\* Mutant: a heat armed meanwhile does not lift the cap.
FailDialCapped(d) ==
    LET n == IF d.attempts < Cap THEN d.attempts + 1 ELSE Cap IN
    IF d.pc = "dialling" /\ d.url \notin answers
    THEN IF n = Cap
         THEN {<<[d EXCEPT !.pc = "exited", !.attempts = n], "unreachable">>}
         ELSE {<<[d EXCEPT !.pc = "backoff", !.attempts = n], "error">>}
    ELSE {}

\* An attempt fails: the capped ones are the attempts no heat waits for.
FailDial(d) ==
    LET n == IF d.attempts < Cap THEN d.attempts + 1 ELSE Cap IN
    IF d.pc = "dialling" /\ d.url \notin answers
    THEN IF n = Cap /\ d.slot = NoHeat
         THEN {<<[d EXCEPT !.pc = "exited", !.attempts = n], "unreachable">>}
         ELSE {<<[d EXCEPT !.pc = "backoff", !.attempts = n], "error">>}
    ELSE {}

Connect(d) ==
    IF d.pc = "dialling" /\ d.url \in answers
    THEN {<<[d EXCEPT !.pc = "greeted", !.attempts = 0, !.alive = TRUE], "connected">>}
    ELSE {}

\* Mutant: the queue of the previous link is kept.
AcceptWithoutClearing(d) ==
    IF d.pc = "greeted"
    THEN {<<[d EXCEPT !.pc = "live", !.accepts = TRUE], Silent>>} ELSE {}

\* Writes that outlived the previous link are dropped, then new ones accepted.
Accept(d) ==
    IF d.pc = "greeted"
    THEN {<<[d EXCEPT !.pc = "live", !.queue = << >>, !.accepts = TRUE], Silent>>} ELSE {}

\* The queue is drained whole: under an armed heat every write in it is
\* refused; a restart takes the link down.
DrainWrites(d, cancelled) ==
    IF ~cancelled /\ d.pc = "live" /\ d.alive /\ d.queue # << >>
    THEN LET restarts == d.slot = NoHeat /\ \E i \in DOMAIN d.queue : d.queue[i].kind = "restart"
         IN {<<[d EXCEPT !.queue = << >>, !.alive = ~restarts], Silent>>}
    ELSE {}

\* A finishing heat's slot is cleared once its history has settled.
Settle(d, cancelled) ==
    IF ~cancelled /\ d.pc = "live" /\ d.alive /\ d.slot.finishing
    THEN {<<[d EXCEPT !.slot = NoHeat], Silent>>} ELSE {}

\* A dead link is noticed: what is still queued belongs to the link that died.
LoseLink(d, cancelled) ==
    IF ~cancelled /\ d.pc = "live" /\ ~d.alive
    THEN {<<[d EXCEPT !.pc = "backoff", !.accepts = FALSE,
               !.queue = [i \in DOMAIN @ |-> [@[i] EXCEPT !.stale = TRUE]]], "disconnected">>}
    ELSE {}

\* A cancelled thread ends, saying so unless it yields.
Leave(d, cancelled) ==
    IF cancelled /\ d.pc \in {"backoff", "live"}
    THEN {<<[d EXCEPT !.pc = "exited", !.accepts = FALSE, !.alive = FALSE],
            IF d.yields THEN Silent ELSE "disconnected">>}
    ELSE {}

Steps(d, cancelled) ==
    Dial(d, cancelled) \cup FailDial(d) \cup Connect(d) \cup Accept(d)
      \cup DrainWrites(d, cancelled) \cup Settle(d, cancelled) \cup LoseLink(d, cancelled)
      \cup Leave(d, cancelled)

Publish(status) ==
    timer' = IF status = Silent THEN timer ELSE [timer EXCEPT !.status = status]

Drive(c) ==
    /\ IsOpen(c)
    /\ \E step \in Steps(conn[c], FALSE) :
         /\ conn' = [conn EXCEPT ![c] = step[1]]
         /\ Publish(step[2])
    /\ UNCHANGED <<selected, seen, tick, rested, leaving, heat, answers, asked, straggled, left>>

DriveOut(d) ==
    /\ \E step \in Steps(d, TRUE) :
         /\ leaving' = (leaving \ {d}) \cup (IF step[1].pc = "exited" THEN {} ELSE {step[1]})
         /\ Publish(step[2])
         /\ straggled' = (straggled \/ step[2] # Silent)
    /\ UNCHANGED <<selected, seen, tick, conn, rested, heat, answers, asked, left>>

Next ==
    \/ Select
    \/ \E held \in BOOLEAN : SetManualConnect(held)
    \/ \E url \in Urls, kind \in {"rotorhazard", "mock"} : UpdateTimer(url, kind)
    \/ \E kind \in WriteKinds : RequestWrite(kind)
    \/ \E url \in Urls : Flap(url)
    \/ StageHeat \/ ArmHeat \/ DisarmHeat \/ FinalizeHeat
    \/ Sweep \/ Reconcile \/ Deliver
    \/ \E c \in Claims : Drive(c)
    \/ \E d \in leaving : DriveOut(d)

Spec == Init /\ [][Next]_vars

\* The reconciler's task and every connection's thread keep running.
FairSpec ==
    /\ Spec
    /\ WF_vars(Sweep) /\ WF_vars(Reconcile) /\ WF_vars(Deliver)
    /\ \A c \in Claims : WF_vars(Drive(c))
    /\ WF_vars(\E d \in leaving : DriveOut(d))

------------------------------------------------------------------------------
(* Properties.                                                             *)

\* Every variable stays in its domain.
TypeOK ==
    /\ timer \in [url : Urls, kind : {"rotorhazard", "mock"}, status : Statuses,
                  hold : BOOLEAN, writes : Seq(Writes)]
    /\ tick \in [pc : {"idle", "reconcile", "deliver"}, wanted : SUBSET Claims, url : Urls]
    /\ conn \in [Claims -> Connections]
    /\ leaving \subseteq Connections
    /\ rested \subseteq Claims
    /\ heat \in [n : 0 .. MaxHeats, phase : {"none", "staged", "running", "unofficial"}]
    /\ answers \subseteq Urls
    /\ <<selected, seen, asked, straggled>> \in BOOLEAN \X BOOLEAN \X BOOLEAN \X BOOLEAN

\* However selections, holds, edits and exits interleave with the sweep, the
\* map never holds two connections to one timer: two sockets to the same
\* RotorHazard would both stage and record a heat.
OneConnection == Cardinality(OpenClaims) <= 1

\* A write reaches only the link it was accepted on: none survives a drop and
\* a reconnect to move a detector, or restart a server, minutes later.
WritesStayWithTheirLink ==
    \A c \in OpenClaims : conn[c].pc = "live" =>
        \A i \in DOMAIN conn[c].queue : ~conn[c].queue[i].stale

\* A timer that spent its attempts is left alone: the reconciler opens a
\* connection only if something asked for the timer since the last one, or if
\* a connection on its way out has overwritten the status the rest is read from.
RestsUntilAsked ==
    [][(tick' # tick /\ \E c \in Claims : conn'[c] # conn[c] /\ conn'[c] = Open(tick.url))
         => asked \/ straggled]_vars

\* A heat armed on a running connection outlasts any number of failed attempts:
\* once its timer answers for good it is raced on a live link, or it is over, or
\* the timer was deselected or edited.
ArmedOn(n, url, pcs) ==
    \E c \in OpenClaims : /\ conn[c].url = url /\ conn[c].pc \in pcs
                         /\ conn[c].slot = [n |-> n, finishing |-> FALSE]
ArmedHeatsReconnect ==
    (<>[](answers = Urls)) =>
      \A n \in 1 .. MaxHeats, url \in Urls :
        ArmedOn(n, url, {"backoff", "dialling", "greeted", "live"})
          ~> (\/ ArmedOn(n, url, {"live"})
              \/ heat # [n |-> n, phase |-> "running"]
              \/ Wanted # {"event"} \/ timer.url # url)
==============================================================================
