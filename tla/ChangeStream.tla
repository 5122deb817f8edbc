---------------------------- MODULE ChangeStream -----------------------------
(***************************************************************************)
(* Snapshot, subscribe, resume: how a console or an overlay follows an     *)
(* event's log. The server runs one session per open socket (ws.rs), the   *)
(* client one connection object (protocol-client/src/client.ts). Appends   *)
(* come from everywhere; links fail and the Director restarts, which drops *)
(* every socket and keeps the log.                                         *)
(***************************************************************************)
EXTENDS ChangeFolds, FiniteSetsExt

CONSTANTS Clients,         \* the subscribers
          Kinds,           \* the entries appended
          RetainedWindow,  \* how far behind the tail a resume may start
          MaxLog,          \* bound: entries appended
          MaxDrops         \* bound: lost links, failed requests, restarts

ASSUME KindsAssumption == Kinds \subseteq Entries
ASSUME WindowAssumption == RetainedWindow \in Nat
ASSUME BoundsAssumption == MaxLog \in Nat /\ MaxDrops \in Nat

VARIABLES log,        \* the event's log
          rounds,     \* the registry's round config
          unnotified, \* appends committed whose notify_waiters is still to run
          session,    \* the server's session of each client's socket
          chan,       \* frames the server has sent and the client not handled
          link,       \* whether the client's socket still reaches its session
          client,     \* the client's connection object
          drops       \* failures so far (bounded)

vars == <<log, rounds, unnotified, session, chan, link, client, drops>>

NoCursor == -1

\* A client holds its body, the resume cursor, the per-stream sequence, and
\* what it is waiting for: its snapshot, its socket to open, frames, the
\* reconnect timer, or nothing at all.
Statuses == {"snapshotting", "subscribing", "live", "reconnecting", "stranded"}

NewClient == [status |-> "snapshotting", body |-> NoBody,
              cursor |-> NoCursor, streamSeq |-> 0]

\* A session's engine, and its enrolment in the append notification: not
\* enrolled, enrolled, or woken.
NoSession == [pc |-> "none", wake |-> "idle", view |-> 0, rounds |-> "defined",
              applied |-> 0, until |-> 0, caughtUp |-> FALSE,
              last |-> NoBody, nextSeq |-> 1]

Subscribed(from) == [NoSession EXCEPT !.pc = "subscribe", !.applied = from]

Init ==
    /\ log = << >>
    /\ rounds = "defined"
    /\ unnotified = 0
    /\ session = [c \in Clients |-> NoSession]
    /\ chan = [c \in Clients |-> << >>]
    /\ link = [c \in Clients |-> FALSE]
    /\ client = [c \in Clients |-> NewClient]
    /\ drops = 0

Set(f, c, value) == [f EXCEPT ![c] = value]

------------------------------------------------------------------------------
(* The Director's log and registry.                                        *)

\* Entries a log can carry next: a detection needs a heat, a removal a lap.
Appendable(kind) ==
    CASE kind = "lap" -> rounds = "defined" /\ CountOf("heat", log, Len(log)) > 0
      [] kind = "void" -> Standing(log, Len(log)) > 0
      [] OTHER -> TRUE

\* The entry is committed under the log's mutex; the wake-up follows unlocked.
AppendEntry(kind) ==
    /\ Len(log) < MaxLog
    /\ Appendable(kind)
    /\ log' = Append(log, kind)
    /\ unnotified' = unnotified + 1
    /\ UNCHANGED <<rounds, session, chan, link, client, drops>>

Notify ==
    /\ unnotified > 0
    /\ unnotified' = unnotified - 1
    /\ session' = [c \in Clients |->
                     IF session[c].wake = "enrolled"
                     THEN [session[c] EXCEPT !.wake = "woken"] ELSE session[c]]
    /\ UNCHANGED <<log, rounds, chan, link, client, drops>>

\* A round whose heats are all unstarted is removed from the registry; the log
\* says nothing of it.
RemoveRound ==
    /\ rounds = "defined"
    /\ CountOf("lap", log, Len(log)) = 0
    /\ rounds' = "removed"
    /\ UNCHANGED <<log, unnotified, session, chan, link, client, drops>>

------------------------------------------------------------------------------
(* The server's session.                                                   *)

\* Mutant: a cursor at the very edge of the window is refused with those behind it.
OutOfWindowOneEarly(from, tail) == from > 0 /\ from <= tail - RetainedWindow

\* A resume cursor is too far behind the tail to be replayed.
OutOfWindow(from, tail) == from > 0 /\ from < tail - RetainedWindow

\* The tail is read once: it judges the resume cursor and bounds the replay.
Subscribe(c) ==
    LET s == session[c] tail == Len(log) IN
    /\ s.pc = "subscribe"
    /\ IF OutOfWindow(s.applied, tail)
       THEN /\ session' = Set(session, c, NoSession)
            /\ chan' = Set(chan, c, Append(chan[c], [kind |-> "resnapshot"]))
            /\ link' = Set(link, c, FALSE)
       ELSE /\ session' = Set(session, c, [s EXCEPT !.pc = "enrol", !.until = tail])
            /\ UNCHANGED <<chan, link>>
    /\ UNCHANGED <<log, rounds, unnotified, client, drops>>

\* Mutant: the wake-up is enrolled by the wait, behind the read.
EnrolLazily(c) ==
    /\ session[c].pc = "enrol"
    /\ session' = Set(session, c, [session[c] EXCEPT !.pc = "read"])
    /\ UNCHANGED <<log, rounds, unnotified, chan, link, client, drops>>

\* `wake.enable()`: the session is a waiter before it reads the log.
Enrol(c) ==
    /\ session[c].pc = "enrol"
    /\ session' = Set(session, c, [session[c] EXCEPT !.pc = "read", !.wake = "enrolled"])
    /\ UNCHANGED <<log, rounds, unnotified, chan, link, client, drops>>

\* The log is read whole, then the rounds. With nothing emitted yet, the body
\* at the resume point is what the client is taken to hold.
ReadLog(c) ==
    LET s == session[c] IN
    /\ s.pc = "read"
    /\ session' = Set(session, c,
         [s EXCEPT !.pc = IF s.caughtUp THEN "walk" ELSE "replay",
                   !.view = Len(log),
                   !.rounds = rounds,
                   !.last = IF s.last = NoBody /\ s.applied > 0
                            THEN LiveFold(log, Min({s.applied, Len(log)}), rounds)
                            ELSE @])
    /\ UNCHANGED <<log, rounds, unnotified, chan, link, client, drops>>

\* Mutant: only a changed body is news.
EmittingNews(c, s, to) ==
    LiveFold(log, to, s.rounds) # s.last

\* The envelope of the body folded through `to` is due when the body is news or
\* a heat was scheduled on the way there: its wake-up.
Emitting(c, s, to) ==
    LET body == LiveFold(log, to, s.rounds)
        scheduled == \E i \in s.applied + 1..to : log[i] = "heat"
    IN  scheduled \/ body # s.last

Envelope(c, s, to) ==
    [kind |-> "change", sequence |-> s.nextSeq, cursor |-> to,
     body |-> LiveFold(log, to, s.rounds)]

\* Folds the engine through `to` and emits what is due.
FoldThrough(c, s, to) ==
    LET env == Envelope(c, s, to) IN
    IF Emitting(c, s, to)
    THEN /\ session' = Set(session, c, [s EXCEPT !.applied = to, !.last = env.body,
                                                 !.nextSeq = @ + 1])
         /\ chan' = Set(chan, c, Append(chan[c], env))
    ELSE /\ session' = Set(session, c, [s EXCEPT !.applied = to])
         /\ UNCHANGED chan

\* Mutant: the history is walked one offset at a time.
ReplayAsWalk(c) ==
    /\ session[c].pc = "replay"
    /\ session' = Set(session, c, [session[c] EXCEPT !.pc = "walk", !.caughtUp = TRUE])
    /\ UNCHANGED <<log, rounds, unnotified, chan, link, client, drops>>

\* The span that was history at the subscription is folded once, at its end.
Replay(c) ==
    LET s == [session[c] EXCEPT !.pc = "walk", !.caughtUp = TRUE]
        spanEnd == Min({s.until, s.view})
    IN  /\ session[c].pc = "replay"
        /\ IF s.applied < spanEnd THEN FoldThrough(c, s, spanEnd)
           ELSE session' = Set(session, c, s) /\ UNCHANGED chan
        /\ UNCHANGED <<log, rounds, unnotified, link, client, drops>>

\* What came later is the live tail: one offset, one envelope at most.
Walk(c) ==
    LET s == session[c] IN
    /\ s.pc = "walk" /\ s.applied < s.view
    /\ FoldThrough(c, s, s.applied + 1)
    /\ UNCHANGED <<log, rounds, unnotified, link, client, drops>>

\* The select: polling the wake-up enrols it if nothing did before.
Park(c) ==
    LET s == session[c] IN
    /\ s.pc = "walk" /\ s.applied >= s.view
    /\ session' = Set(session, c, [s EXCEPT !.pc = "park",
                                            !.wake = IF @ = "idle" THEN "enrolled" ELSE @])
    /\ UNCHANGED <<log, rounds, unnotified, chan, link, client, drops>>

Wake(c) ==
    /\ session[c].pc = "park" /\ session[c].wake = "woken"
    /\ session' = Set(session, c, [session[c] EXCEPT !.pc = "enrol", !.wake = "idle"])
    /\ UNCHANGED <<log, rounds, unnotified, chan, link, client, drops>>

------------------------------------------------------------------------------
(* The client.                                                             *)

\* teardownSocket: handlers detached, socket closed, nothing of it is heard
\* again.
Teardown(c) ==
    /\ session' = Set(session, c, NoSession)
    /\ chan' = Set(chan, c, << >>)
    /\ link' = Set(link, c, FALSE)

\* The snapshot answers; then a socket is created and the sequence restarts.
FetchSnapshot(c) ==
    LET n == Len(log) body == LiveFold(log, n, rounds) IN
    /\ client[c].status = "snapshotting"
    /\ client' = Set(client, c, [status |-> "subscribing", body |-> body,
                                 cursor |-> n, streamSeq |-> 0])
    /\ link' = Set(link, c, TRUE)
    /\ UNCHANGED <<log, rounds, unnotified, session, chan, drops>>

\* The request fails, or its answer is cut off inside the body: reading the
\* body is outside every handler, and nothing is scheduled after it.
SnapshotFails(c) ==
    /\ client[c].status = "snapshotting"
    /\ drops < MaxDrops
    /\ drops' = drops + 1
    /\ \E next \in {"reconnecting", "stranded"} :
          client' = [client EXCEPT ![c].status = next]
    /\ UNCHANGED <<log, rounds, unnotified, session, chan, link>>

\* onopen: the subscribe frame carries the resume cursor.
SocketOpens(c) ==
    /\ client[c].status = "subscribing" /\ link[c]
    /\ client' = [client EXCEPT ![c].status = "live"]
    /\ session' = Set(session, c, Subscribed(client[c].cursor))
    /\ UNCHANGED <<log, rounds, unnotified, chan, link, drops>>

\* What applyEnvelope makes of a frame: the sequence dedups and detects gaps.
Verdict(cl, m) ==
    IF m.kind = "resnapshot" THEN "resnapshot"
    ELSE IF cl.streamSeq # 0 /\ m.sequence <= cl.streamSeq THEN "duplicate"
    ELSE IF cl.streamSeq # 0 /\ m.sequence # cl.streamSeq + 1 THEN "resnapshot"
    ELSE "applied"

\* Mutant: the cursor counts the frames applied.
AppliedCounting(cl, m) ==
    [cl EXCEPT !.body = m.body, !.streamSeq = m.sequence, !.cursor = @ + 1]

\* Mutant: the cursor stays where the snapshot put it.
AppliedKeepingCursor(cl, m) ==
    [cl EXCEPT !.body = m.body, !.streamSeq = m.sequence]

Applied(cl, m) == [cl EXCEPT !.body = m.body, !.streamSeq = m.sequence,
                             !.cursor = m.cursor]

Deliver(c) ==
    LET m == Head(chan[c])
        verdict == Verdict(client[c], m)
    IN  /\ client[c].status = "live" /\ chan[c] # << >>
        /\ IF verdict = "resnapshot"
           THEN Teardown(c) /\ client' = [client EXCEPT ![c].status = "snapshotting"]
           ELSE /\ chan' = Set(chan, c, Tail(chan[c]))
                /\ client' = IF verdict = "applied"
                             THEN Set(client, c, Applied(client[c], m)) ELSE client
                /\ UNCHANGED <<session, link>>
        /\ UNCHANGED <<log, rounds, unnotified, drops>>

\* onclose comes behind the frames that still arrived: the reconnect timer is
\* armed.
SocketCloses(c) ==
    /\ client[c].status \in {"subscribing", "live"} /\ ~link[c] /\ chan[c] = << >>
    /\ Teardown(c)
    /\ client' = [client EXCEPT ![c].status = "reconnecting"]
    /\ UNCHANGED <<log, rounds, unnotified, drops>>

\* Mutant: a new subscription keeps the old sequence.
ReconnectKeepingSequence(c) ==
    /\ client[c].status = "reconnecting"
    /\ IF client[c].cursor = NoCursor
       THEN /\ client' = [client EXCEPT ![c].status = "snapshotting"]
            /\ UNCHANGED link
       ELSE /\ client' = [client EXCEPT ![c].status = "subscribing"]
            /\ link' = Set(link, c, TRUE)
    /\ UNCHANGED <<log, rounds, unnotified, session, chan, drops>>

\* The timer fires: resume from the cursor, or take the first snapshot.
Reconnect(c) ==
    /\ client[c].status = "reconnecting"
    /\ IF client[c].cursor = NoCursor
       THEN /\ client' = [client EXCEPT ![c].status = "snapshotting"]
            /\ UNCHANGED link
       ELSE /\ client' = [client EXCEPT ![c].status = "subscribing", ![c].streamSeq = 0]
            /\ link' = Set(link, c, TRUE)
    /\ UNCHANGED <<log, rounds, unnotified, session, chan, drops>>

------------------------------------------------------------------------------
(* Failures.                                                               *)

\* A socket breaks: of the frames on their way some first ones still arrive.
DropLink(c) ==
    /\ link[c] /\ drops < MaxDrops
    /\ drops' = drops + 1
    /\ link' = Set(link, c, FALSE)
    /\ session' = Set(session, c, NoSession)
    /\ \E kept \in 0..Len(chan[c]) : chan' = Set(chan, c, SubSeq(chan[c], 1, kept))
    /\ UNCHANGED <<log, rounds, unnotified, client>>

\* The Director goes down and comes back on the same log and registry: an
\* append that was committed and not yet announced stays committed.
Restart ==
    /\ drops < MaxDrops
    /\ drops' = drops + 1
    /\ unnotified' = 0
    /\ link' = [c \in Clients |-> FALSE]
    /\ session' = [c \in Clients |-> NoSession]
    /\ UNCHANGED <<log, rounds, chan, client>>

------------------------------------------------------------------------------
SessionStep(c) ==
    \/ Subscribe(c) \/ Enrol(c) \/ ReadLog(c) \/ Replay(c)
    \/ Walk(c) \/ Park(c) \/ Wake(c)

ClientStep(c) ==
    \/ FetchSnapshot(c) \/ SocketOpens(c) \/ Deliver(c)
    \/ SocketCloses(c) \/ Reconnect(c)

Next ==
    \/ \E kind \in Kinds : AppendEntry(kind)
    \/ Notify
    \/ RemoveRound
    \/ Restart
    \/ \E c \in Clients : \/ SessionStep(c) \/ ClientStep(c)
                          \/ SnapshotFails(c) \/ DropLink(c)

\* The runtime polls every task that is ready and the browser every callback;
\* nothing says that an append, an edit or a failure happens.
Fairness ==
    /\ WF_vars(Notify)
    /\ \A c \in Clients : WF_vars(SessionStep(c)) /\ WF_vars(ClientStep(c))

Spec == Init /\ [][Next]_vars
FairSpec == Spec /\ Fairness
------------------------------------------------------------------------------
(* Properties.                                                             *)

\* A body a snapshot shows at offset n, under the round config
\* that stands or one that stood before it.
BodyAt(c, n) ==
    {LiveFold(log, n, r) : r \in {"defined", rounds}}

\* ws.rs and stream.rs promise that a subscriber and a snapshot of one scope
\* agree: whatever a client shows is the fold of the log exactly at its
\* resume cursor, and the cursor is a point of the log - after any mix of
\* snapshots, resumes, lost frames, restarts and re-snapshots.
ExactCursor ==
    \A c \in Clients :
       client[c].cursor # NoCursor =>
          /\ client[c].cursor <= Len(log)
          /\ client[c].body \in BodyAt(c, client[c].cursor)

\* The stream is contiguous as the client judges it: no frame that is about to
\* be handled is one it would drop as seen, or take for the end of a gap.
NoGap ==
    \A c \in Clients :
       client[c].status = "live" /\ chan[c] # << >> =>
          \/ Head(chan[c]).kind = "resnapshot"
          \/ Verdict(client[c], Head(chan[c])) = "applied"

\* No staircase: a session sends nothing folded to a point below the tail it
\* read at its subscription, so a resume is one settled body.
NoStaircase ==
    \A c \in Clients :
       session[c].pc \notin {"none", "subscribe"} =>
          \A i \in DOMAIN chan[c] :
             chan[c][i].kind = "change" => chan[c][i].cursor >= session[c].until

\* Every HeatScheduled wakes the client, whether or not it changes the body: a
\* client with nothing on its way, whose session is parked, has handled a frame
\* at or beyond each one its session has folded.
SchedulesHeard ==
    \A c \in Clients :
       /\ client[c].status = "live"
       /\ chan[c] = << >> /\ session[c].pc = "park"
       => \A i \in 1..session[c].applied : log[i] = "heat" => i <= client[c].cursor

\* A client that holds a snapshot takes another only where the log has outrun the
\* window its cursor may be resumed in: no drop, restart or gap costs it one, and
\* a cursor at the window's very edge is still replayed.
NoNeedlessSnapshot ==
    [][\A c \in Clients :
         /\ client[c].cursor # NoCursor /\ client[c].status # "snapshotting"
         /\ client'[c].status = "snapshotting"
         => client[c].cursor + RetainedWindow < Len(log)]_vars

\* The bodies settle: once the failures are over and the log is at rest, a
\* client comes to show the fold of the whole log - if it is not stranded, and
\* if no round was removed: a removal is no entry, and wakes no session.
Stranded(c) == client[c].status = "stranded"
Current(c) == client[c].body = LiveFold(log, Len(log), rounds)
CatchesUp ==
    \A c \in Clients : <>[](Stranded(c) \/ Current(c) \/ rounds = "removed")

\* The abstract reading: a follower is somewhere in the log and moves forward.
Follower == INSTANCE LogFollower
    WITH at <- [c \in Clients |-> client[c].cursor],
         shows <- [c \in Clients |-> client[c].body]
ImplementsFollower == Follower!Spec
==============================================================================
