------------------------- MODULE ChangeStreamProofs --------------------------
(***************************************************************************)
(* A client shows the fold of the log at its cursor, and the cursor only   *)
(* moves forward: the stream implements LogFollower.  The invariant is one *)
(* client's at a time (Sound): what the client holds, the frames on their  *)
(* way and the session that sends them lie in this order along the log.    *)
(* A second one (Steady), on top of it, counts the frames: none is missed, *)
(* none is older than the subscription, and no schedule goes unheard.  A   *)
(* third (Refused) says when a session turns its client away.              *)
(***************************************************************************)
EXTENDS ChangeStream, FiniteSetTheorems, SequenceTheorems, TLAPS

SessionFields == {"pc", "wake", "view", "rounds", "applied", "until", "caughtUp",
                  "last", "nextSeq"}
ClientFields == {"status", "body", "cursor", "streamSeq"}
ChangeFields == {"kind", "sequence", "cursor", "body"}

Bodies == [shown : {"none", "idle", "heat"}, laps : Int]
Frames == [kind : {"resnapshot"}]
            \cup [kind : {"change"}, sequence : Nat, cursor : Int, body : Bodies]

\* A body of a point of the log, under a config that stands or has stood.
BodyOf(l, r, n, body) == \E q \in {"defined", r} : body = LiveFold(l, n, q)

\* The session reads no further than the log, and holds a config of it.
SessionSound(l, r, s) ==
    /\ DOMAIN s = SessionFields
    /\ s.view \in 0 .. Len(l) /\ s.until \in 0 .. Len(l)
    /\ s.applied \in Int /\ s.applied <= Len(l)
    /\ s.rounds \in {"defined", r}
    /\ s.nextSeq \in Nat

\* A client with a socket holds a snapshot.
Held(cl) == cl.status \in {"subscribing", "live"} => cl.cursor # NoCursor

\* The client shows the fold at its cursor; before its socket is live nothing
\* is on its way.
ClientSound(l, r, s, cl, ch) ==
    /\ DOMAIN cl = ClientFields /\ Held(cl)
    /\ cl.cursor \in Int /\ NoCursor <= cl.cursor /\ cl.cursor <= Len(l)
    /\ cl.cursor # NoCursor => BodyOf(l, r, cl.cursor, cl.body)
    /\ cl.status # "live" => ch = << >> /\ s.pc = "none"
    /\ s.pc # "none" => cl.cursor <= s.applied

\* Each frame holds the fold at its cursor, between the client's and the
\* session's, and they come in the order of the log.
FramesSound(l, r, s, cl, ch) ==
    /\ ch \in Seq(Frames)
    /\ \A i \in 1 .. Len(ch) : ch[i].kind = "change" =>
         /\ cl.cursor <= ch[i].cursor /\ ch[i].cursor <= Len(l)
         /\ s.pc # "none" => ch[i].cursor <= s.applied
         /\ BodyOf(l, r, ch[i].cursor, ch[i].body)
         /\ \A j \in i .. Len(ch) : ch[j].kind = "change" => ch[i].cursor <= ch[j].cursor

Sound(l, r, s, cl, ch) ==
    SessionSound(l, r, s) /\ ClientSound(l, r, s, cl, ch) /\ FramesSound(l, r, s, cl, ch)

IInv ==
    /\ log \in Seq(Entries) /\ rounds \in RoundStates
    /\ DOMAIN session = Clients /\ DOMAIN client = Clients /\ DOMAIN chan = Clients
    /\ \A c \in Clients : Sound(log, rounds, session[c], client[c], chan[c])

------------------------------------------------------------------------------
(* The folds.                                                              *)

\* What is counted is a number.
LEMMA CountNat ==
    ASSUME NEW kind, NEW l, NEW n \in Int
    PROVE  CountOf(kind, l, n) \in Nat
<1>1. IsFiniteSet(1 .. n)  BY FS_Interval
<1>2. IsFiniteSet({i \in 1 .. n : l[i] = kind})  BY <1>1, FS_Subset
<1> QED  BY <1>2, FS_CardinalityType DEF CountOf

\* A fold is a body.
LEMMA FoldIsBody ==
    ASSUME NEW l, NEW n \in Int, NEW r
    PROVE  LiveFold(l, n, r) \in Bodies
<1>1. Standing(l, n) \in Int  BY CountNat DEF Standing
<1> QED  BY <1>1 DEF LiveFold, OnTimer, Idle, Body, Bodies

\* A point of the log folds alike however far the log has grown.
LEMMA FoldOfPrefix ==
    ASSUME NEW l \in Seq(Entries), NEW k \in Entries, NEW n \in Int, n <= Len(l), NEW r
    PROVE  LiveFold(Append(l, k), n, r) = LiveFold(l, n, r)
<1>1. \A i \in 1 .. n : Append(l, k)[i] = l[i]  OBVIOUS
<1>2. \A kind : CountOf(kind, Append(l, k), n) = CountOf(kind, l, n)
  <2> TAKE kind
  <2>1. {i \in 1 .. n : Append(l, k)[i] = kind} = {i \in 1 .. n : l[i] = kind}  BY <1>1
  <2> QED  BY <2>1 DEF CountOf
<1>3. Standing(Append(l, k), n) = Standing(l, n)  BY <1>2 DEF Standing
<1> QED  BY <1>2, <1>3 DEF LiveFold, OnTimer

\* A removal changes no body that was shown.
LEMMA BodyRemoved ==
    ASSUME NEW l, NEW n, NEW body, BodyOf(l, "defined", n, body)
    PROVE  BodyOf(l, "removed", n, body)
BY DEF BodyOf

------------------------------------------------------------------------------
(* What is sound stays sound.                                              *)

\* The log grows.
LEMMA SoundGrows ==
    ASSUME NEW l \in Seq(Entries), NEW k \in Entries, NEW r, NEW s, NEW cl, NEW ch,
           Sound(l, r, s, cl, ch)
    PROVE  Sound(Append(l, k), r, s, cl, ch)
<1> DEFINE g == Append(l, k)
<1>1. Len(g) = Len(l) + 1 /\ Len(l) \in Nat  OBVIOUS
<1>2. \A body : \A n \in Int : n <= Len(l) /\ BodyOf(l, r, n, body) => BodyOf(g, r, n, body)
  BY FoldOfPrefix DEF BodyOf
<1> HIDE DEF g
<1>3. SessionSound(g, r, s)  BY <1>1 DEF Sound, SessionSound
<1>4. ClientSound(g, r, s, cl, ch)
  BY <1>1, <1>2 DEF Sound, ClientSound, NoCursor
<1>5. FramesSound(g, r, s, cl, ch)
  <2>1. ASSUME NEW i \in 1 .. Len(ch), ch[i].kind = "change"
        PROVE  ch[i].cursor \in Int
    <3>1. ch[i] \in Frames  BY DEF Sound, FramesSound
    <3> QED  BY <2>1, <3>1 DEF Frames
  <2> QED  BY <1>1, <1>2, <2>1 DEF Sound, FramesSound
<1> QED  BY <1>3, <1>4, <1>5 DEF Sound, g

\* The round is removed.
LEMMA SoundRemoved ==
    ASSUME NEW l, NEW s, NEW cl, NEW ch, Sound(l, "defined", s, cl, ch)
    PROVE  Sound(l, "removed", s, cl, ch)
<1>1. SessionSound(l, "removed", s)  BY DEF Sound, SessionSound
<1>2. ClientSound(l, "removed", s, cl, ch)  BY BodyRemoved DEF Sound, ClientSound
<1>3. FramesSound(l, "removed", s, cl, ch)  BY BodyRemoved DEF Sound, FramesSound
<1> QED  BY <1>1, <1>2, <1>3 DEF Sound

\* The session does something that sends nothing.
LEMMA SessionMoves ==
    ASSUME NEW l, NEW r, NEW s, NEW cl, NEW ch, Sound(l, r, s, cl, ch),
           NEW t, SessionSound(l, r, t), s.pc # "none",
           t.applied >= s.applied
    PROVE  Sound(l, r, t, cl, ch)
<1>1. ClientSound(l, r, t, cl, ch)
  BY DEF Sound, SessionSound, ClientSound
<1>2. ASSUME NEW i \in 1 .. Len(ch), ch[i].kind = "change"
      PROVE  ch[i].cursor \in Int
  <2>1. ch[i] \in Frames  BY DEF Sound, FramesSound
  <2> QED  BY <1>2, <2>1 DEF Frames
<1>3. s.applied \in Int /\ t.applied \in Int
  BY DEF Sound, SessionSound
<1>4. FramesSound(l, r, t, cl, ch)
  <2>1. ASSUME NEW i \in 1 .. Len(ch), ch[i].kind = "change"
        PROVE  ch[i].cursor <= t.applied
    <3>1. ch[i].cursor <= s.applied  BY <2>1 DEF Sound, FramesSound
    <3> QED  BY <1>2, <1>3, <2>1, <3>1
  <2> QED  BY <2>1 DEF Sound, FramesSound
<1> QED  BY <1>1, <1>4 DEF Sound

\* The session ends; of its frames some first ones still arrive.
LEMMA SessionEnds ==
    ASSUME NEW l \in Seq(Entries), NEW r, NEW s, NEW cl, NEW ch, Sound(l, r, s, cl, ch),
           NEW n \in 0 .. Len(ch)
    PROVE  Sound(l, r, NoSession, cl, SubSeq(ch, 1, n))
<1> DEFINE kept == SubSeq(ch, 1, n)
<1>1. ch \in Seq(Frames)  BY DEF Sound, FramesSound
<1>2. kept \in Seq(Frames) /\ Len(kept) = n /\ \A i \in 1 .. n : kept[i] = ch[i]
  BY <1>1
<1>3. ch = << >> => kept = << >>  BY <1>1
<1>4. SessionSound(l, r, NoSession)  BY DEF SessionSound, SessionFields, NoSession
<1>5. NoSession.pc = "none"  BY DEF NoSession
<1> HIDE DEF kept
<1>6. ClientSound(l, r, NoSession, cl, kept)  BY <1>3, <1>5 DEF Sound, ClientSound
<1>7. FramesSound(l, r, NoSession, cl, kept)
  BY <1>1, <1>2, <1>5 DEF Sound, FramesSound
<1> QED  BY <1>4, <1>6, <1>7 DEF Sound, kept

\* The session folds to a later point and sends the body there.
LEMMA SessionSends ==
    ASSUME NEW l \in Seq(Entries), NEW r, NEW s, NEW cl, NEW ch, Sound(l, r, s, cl, ch),
           s.pc # "none", NEW to \in Int, s.applied <= to, to <= Len(l), NEW t, NEW e,
           SessionSound(l, r, t), t.applied = to,
           e = [kind |-> "change", sequence |-> s.nextSeq, cursor |-> to,
                body |-> LiveFold(l, to, s.rounds)]
    PROVE  Sound(l, r, t, cl, Append(ch, e))
<1> DEFINE more == Append(ch, e)
<1>1. ch \in Seq(Frames)  BY DEF Sound, FramesSound
<1>2. e.kind = "change" /\ e.cursor = to /\ e.body = LiveFold(l, to, s.rounds)  OBVIOUS
<1>3. e \in Frames
  <2>1. s.nextSeq \in Nat  BY DEF Sound, SessionSound
  <2> QED  BY <2>1, FoldIsBody DEF Frames
<1>4. BodyOf(l, r, to, e.body)  BY <1>2 DEF BodyOf, Sound, SessionSound
<1>5. /\ more \in Seq(Frames) /\ Len(more) = Len(ch) + 1 /\ Len(ch) \in Nat
      /\ more[Len(ch) + 1] = e /\ \A i \in 1 .. Len(ch) : more[i] = ch[i]
  BY <1>1, <1>3
<1> HIDE DEF more
<1>6. cl.status = "live" /\ cl.cursor <= s.applied /\ cl.cursor \in Int /\ s.applied \in Int
  BY DEF Sound, ClientSound, SessionSound
<1>7. ClientSound(l, r, t, cl, more)
  BY <1>6 DEF Sound, ClientSound
<1>8. \A i \in 1 .. Len(ch) : ch[i].kind = "change" =>
         ch[i].cursor \in Int /\ ch[i].cursor <= to
  <2> SUFFICES ASSUME NEW i \in 1 .. Len(ch), ch[i].kind = "change"
               PROVE  ch[i].cursor \in Int /\ ch[i].cursor <= to
    OBVIOUS
  <2>1. ch[i] \in Frames  BY <1>1
  <2>2. ch[i].cursor \in Int  BY <2>1 DEF Frames
  <2>3. ch[i].cursor <= s.applied  BY DEF Sound, FramesSound
  <2> QED  BY <2>2, <2>3, <1>6
<1>9. FramesSound(l, r, t, cl, more)
  <2> SUFFICES ASSUME NEW i \in 1 .. Len(more), more[i].kind = "change"
               PROVE  /\ cl.cursor <= more[i].cursor /\ more[i].cursor <= Len(l)
                      /\ t.pc # "none" => more[i].cursor <= t.applied
                      /\ BodyOf(l, r, more[i].cursor, more[i].body)
                      /\ \A j \in i .. Len(more) :
                           more[j].kind = "change" => more[i].cursor <= more[j].cursor
    BY <1>5 DEF FramesSound
  <2>1. CASE i = Len(ch) + 1
    BY <2>1, <1>2, <1>4, <1>5, <1>6
  <2>2. CASE i \in 1 .. Len(ch)
    <3>1. more[i] = ch[i] /\ ch[i].cursor \in Int /\ ch[i].cursor <= to
      BY <2>2, <1>5, <1>8
    <3>2. /\ cl.cursor <= ch[i].cursor /\ ch[i].cursor <= Len(l)
          /\ BodyOf(l, r, ch[i].cursor, ch[i].body)
      BY <2>2, <3>1 DEF Sound, FramesSound
    <3>3. ASSUME NEW j \in i .. Len(more), more[j].kind = "change"
          PROVE  more[i].cursor <= more[j].cursor
      <4>1. CASE j = Len(ch) + 1  BY <4>1, <3>1, <1>2, <1>5
      <4>2. CASE j \in i .. Len(ch)
        <5>1. j \in 1 .. Len(ch)  BY <4>2, <2>2, <1>5
        <5>2. more[j] = ch[j] /\ ch[j].kind = "change"  BY <5>1, <3>3, <1>5
        <5>3. ch[i].kind = "change"  BY <3>1
        <5>4. ch[i].cursor <= ch[j].cursor
          BY <5>2, <5>3, <4>2, <2>2 DEF Sound, FramesSound
        <5> QED  BY <5>2, <5>4, <3>1
      <4>3. j = Len(ch) + 1 \/ j \in i .. Len(ch)
        <5>1. j \in i .. Len(ch) + 1  BY <3>3, <1>5
        <5>2. i \in Nat /\ Len(ch) \in Nat  BY <2>2, <1>5
        <5> QED  BY <5>1, <5>2
      <4> QED  BY <4>1, <4>2, <4>3
    <3> QED  BY <3>1, <3>2, <3>3
  <2> QED  BY <2>1, <2>2, <1>5
<1> QED  BY <1>7, <1>9 DEF Sound, more

\* The session gives up with a word that is no change.
LEMMA SessionRefuses ==
    ASSUME NEW l \in Seq(Entries), NEW r, NEW s, NEW cl, NEW ch, Sound(l, r, s, cl, ch),
           s.pc # "none"
    PROVE  Sound(l, r, NoSession, cl, Append(ch, [kind |-> "resnapshot"]))
<1> DEFINE e == [kind |-> "resnapshot"]
           more == Append(ch, e)
<1>1. ch \in Seq(Frames)  BY DEF Sound, FramesSound
<1>2. e \in Frames /\ e.kind # "change"  BY DEF Frames
<1> HIDE DEF e
<1>3. /\ more \in Seq(Frames) /\ Len(more) = Len(ch) + 1 /\ Len(ch) \in Nat
      /\ more[Len(ch) + 1] = e /\ \A i \in 1 .. Len(ch) : more[i] = ch[i]
  BY <1>1, <1>2
<1> HIDE DEF more
<1>4. cl.status = "live"  BY DEF Sound, ClientSound
<1>5. SessionSound(l, r, NoSession) /\ NoSession.pc = "none"
  BY DEF SessionSound, SessionFields, NoSession
<1>6. ClientSound(l, r, NoSession, cl, more)  BY <1>4, <1>5 DEF Sound, ClientSound
<1>7. FramesSound(l, r, NoSession, cl, more)
  <2> SUFFICES ASSUME NEW i \in 1 .. Len(more), more[i].kind = "change"
               PROVE  /\ cl.cursor <= more[i].cursor /\ more[i].cursor <= Len(l)
                      /\ BodyOf(l, r, more[i].cursor, more[i].body)
                      /\ \A j \in i .. Len(more) :
                           more[j].kind = "change" => more[i].cursor <= more[j].cursor
    BY <1>3, <1>5 DEF FramesSound
  <2>1. i \in 1 .. Len(ch) /\ more[i] = ch[i]  BY <1>2, <1>3
  <2>2. \A j \in i .. Len(more) : more[j].kind = "change" => j \in i .. Len(ch) /\ more[j] = ch[j]
    BY <1>2, <1>3, <2>1
  <2> QED  BY <2>1, <2>2 DEF Sound, FramesSound
<1> QED  BY <1>5, <1>6, <1>7 DEF Sound, more, e

------------------------------------------------------------------------------
(* The steps.  Each keeps the invariant and is a step of the follower.     *)

Kept == IInv' /\ [Follower!Next]_(Follower!vars)

\* The follower folds as the stream does.
LEMMA SameFold ==
    /\ Follower!Entries = Entries
    /\ \A l, n, r : Follower!LiveFold(l, n, r) = LiveFold(l, n, r)
<1>1. \A kind, l, n : Follower!CountOf(kind, l, n) = CountOf(kind, l, n)
  BY DEF Follower!CountOf, CountOf, Follower!Cardinality, Cardinality
<1>2. \A l, n : Follower!OnTimer(l, n) = OnTimer(l, n)
  BY <1>1 DEF Follower!OnTimer, OnTimer, Follower!Standing, Standing, Follower!Body, Body
<1> QED
  BY <1>1, <1>2 DEF Follower!LiveFold, LiveFold, Follower!Idle, Idle, Follower!Body, Body,
     Follower!Entries, Entries

\* A step that leaves the log and every client's body and cursor alone.
LEMMA Silent ==
    ASSUME UNCHANGED <<log, rounds>>, DOMAIN client = Clients, DOMAIN client' = Clients,
           \A c \in Clients : /\ client'[c].cursor = client[c].cursor
                              /\ client'[c].body = client[c].body
    PROVE  UNCHANGED Follower!vars
<1>1. [c \in Clients |-> client'[c].cursor] = [c \in Clients |-> client[c].cursor]
  OBVIOUS
<1>2. [c \in Clients |-> client'[c].body] = [c \in Clients |-> client[c].body]
  OBVIOUS
<1> QED  BY <1>1, <1>2 DEF Follower!vars

\* A client that takes up a later point of the log.
LEMMA Forward ==
    ASSUME IInv, UNCHANGED <<log, rounds>>, NEW c \in Clients, NEW v,
           client' = [client EXCEPT ![c] = v],
           v.cursor \in 0 .. Len(log), client[c].cursor <= v.cursor,
           BodyOf(log, rounds, v.cursor, v.body)
    PROVE  Follower!Next
<1> DEFINE at == [d \in Clients |-> client[d].cursor]
           shows == [d \in Clients |-> client[d].body]
<1>1. DOMAIN client = Clients  BY DEF IInv
<1>2. [d \in Clients |-> client'[d].cursor] = [at EXCEPT ![c] = v.cursor]  BY <1>1
<1>3. [d \in Clients |-> client'[d].body] = [shows EXCEPT ![c] = v.body]  BY <1>1
<1>4. at[c] <= v.cursor  OBVIOUS
<1>5. PICK q \in {"defined", rounds} : v.body = LiveFold(log, v.cursor, q)
  BY DEF BodyOf
<1>6. [d \in Clients |-> client'[d].body] = [shows EXCEPT ![c] = LiveFold(log, v.cursor, q)]
  BY <1>3, <1>5
<1> HIDE DEF at, shows
<1>7. \E n \in 0 .. Len(log) :
        /\ n >= at[c]
        /\ [d \in Clients |-> client'[d].cursor] = [at EXCEPT ![c] = n]
        /\ \E p \in {"defined", rounds} :
             [d \in Clients |-> client'[d].body] = [shows EXCEPT ![c] = LiveFold(log, n, p)]
  <2>1. v.cursor >= at[c]  BY <1>1, <1>4 DEF IInv, Sound, ClientSound, at
  <2> QED  BY <2>1, <1>2, <1>6
<1>8. Follower!Follow(c)
  BY <1>7, SameFold DEF Follower!Follow, at, shows
<1> QED  BY <1>8 DEF Follower!Next

\* A step of one client and its session.
LEMMA OneClient ==
    ASSUME IInv, UNCHANGED <<log, rounds>>, NEW c \in Clients,
           DOMAIN session' = Clients, DOMAIN client' = Clients, DOMAIN chan' = Clients,
           \A d \in Clients \ {c} :
              session'[d] = session[d] /\ client'[d] = client[d] /\ chan'[d] = chan[d],
           Sound(log, rounds, session'[c], client'[c], chan'[c])
    PROVE  IInv'
<1>1. \A d \in Clients \ {c} : Sound(log, rounds, session'[d], client'[d], chan'[d])
  BY DEF IInv
<1>2. \A d \in Clients : Sound(log, rounds, session'[d], client'[d], chan'[d])
  BY <1>1
<1> QED  BY <1>2 DEF IInv

\* A session that sends nothing.
LEMMA SessionKeeps ==
    ASSUME IInv, NEW c \in Clients, UNCHANGED <<log, rounds, client, chan>>, NEW t,
           session' = Set(session, c, t), session[c].pc # "none",
           SessionSound(log, rounds, t), t.applied >= session[c].applied
    PROVE  Kept
<1>1. Sound(log, rounds, session[c], client[c], chan[c])  BY DEF IInv
<1>2. Sound(log, rounds, t, client[c], chan[c])  BY <1>1, SessionMoves
<1>3. DOMAIN session = Clients /\ DOMAIN client = Clients /\ DOMAIN chan = Clients
  BY DEF IInv
<1>4. IInv'  BY <1>2, <1>3, OneClient DEF Set
<1>5. UNCHANGED Follower!vars  BY <1>3, Silent
<1> QED  BY <1>4, <1>5 DEF Kept

\* The initial state.
LEMMA InitIInv == Init => IInv
<1> SUFFICES ASSUME Init PROVE IInv  OBVIOUS
<1> USE DEF Init
<1>1. ASSUME NEW c \in Clients
      PROVE  Sound(log, rounds, session[c], client[c], chan[c])
  <2>1. SessionSound(log, rounds, NoSession)
    BY DEF SessionSound, SessionFields, NoSession
  <2>2. ClientSound(log, rounds, NoSession, NewClient, << >>)
    BY DEF ClientSound, Held, ClientFields, NoSession, NewClient, NoCursor
  <2>3. FramesSound(log, rounds, NoSession, NewClient, << >>)
    BY DEF FramesSound
  <2> QED  BY <2>1, <2>2, <2>3 DEF Sound
<1>2. log \in Seq(Entries) /\ rounds \in RoundStates  BY DEF RoundStates
<1> QED  BY <1>1, <1>2 DEF IInv

\* An entry is appended.
LEMMA AppendKeeps == ASSUME IInv, NEW kind \in Kinds, AppendEntry(kind) PROVE Kept
<1> USE DEF AppendEntry
<1>1. kind \in Entries  BY KindsAssumption
<1>2. log' = Append(log, kind) /\ log' \in Seq(Entries)  BY <1>1 DEF IInv
<1>3. \A c \in Clients : Sound(log', rounds, session[c], client[c], chan[c])
  BY <1>1, <1>2, SoundGrows DEF IInv
<1>4. IInv'  BY <1>2, <1>3 DEF IInv
<1>5. /\ [c \in Clients |-> client'[c].cursor] = [c \in Clients |-> client[c].cursor]
      /\ [c \in Clients |-> client'[c].body] = [c \in Clients |-> client[c].body]
  OBVIOUS
<1>6. Follower!Grow  BY <1>1, <1>5, SameFold DEF Follower!Grow
<1> QED  BY <1>4, <1>6 DEF Kept, Follower!Next

\* The round is removed.
LEMMA RemoveKeeps == ASSUME IInv, RemoveRound PROVE Kept
<1> USE DEF RemoveRound
<1>1. \A c \in Clients : Sound(log, "removed", session[c], client[c], chan[c])
  BY SoundRemoved DEF IInv
<1>2. IInv'  BY <1>1 DEF IInv, RoundStates
<1>3. Follower!Remove  BY DEF Follower!Remove
<1> QED  BY <1>2, <1>3 DEF Kept, Follower!Next

\* The waiters are woken.
LEMMA NotifyKeeps == ASSUME IInv, Notify PROVE Kept
<1> USE DEF Notify
<1>1. ASSUME NEW c \in Clients
      PROVE  Sound(log, rounds, session'[c], client[c], chan[c])
  <2> DEFINE s == session[c]
             t == [s EXCEPT !.wake = "woken"]
  <2>1. Sound(log, rounds, s, client[c], chan[c])  BY DEF IInv
  <2>2. DOMAIN s = SessionFields  BY <2>1 DEF Sound, SessionSound
  <2>3. /\ DOMAIN t = SessionFields /\ t.view = s.view /\ t.until = s.until
        /\ t.applied = s.applied /\ t.rounds = s.rounds /\ t.nextSeq = s.nextSeq
        /\ t.pc = s.pc
    BY <2>2
  <2> HIDE DEF t, s
  <2>4. Sound(log, rounds, t, client[c], chan[c])
    BY <2>1, <2>3 DEF Sound, SessionSound, ClientSound, FramesSound
  <2>5. session'[c] = t \/ session'[c] = s  BY DEF t, s
  <2> QED  BY <2>1, <2>4, <2>5
<1>2. IInv'  BY <1>1 DEF IInv
<1>3. UNCHANGED Follower!vars  BY Silent DEF IInv
<1> QED  BY <1>2, <1>3 DEF Kept

------------------------------------------------------------------------------
(* The session's steps.                                                    *)

\* Two sessions that have read and sent alike.
Alike(s, t) ==
    /\ DOMAIN t = SessionFields
    /\ t.view = s.view /\ t.until = s.until /\ t.applied = s.applied
    /\ t.rounds = s.rounds /\ t.nextSeq = s.nextSeq

\* A session that is off to do something else.
LEMMA SessionTurns ==
    ASSUME IInv, NEW c \in Clients, UNCHANGED <<log, rounds, client, chan>>, NEW t,
           session' = Set(session, c, t), session[c].pc # "none", Alike(session[c], t)
    PROVE  Kept
<1>1. SessionSound(log, rounds, session[c])  BY DEF IInv, Sound
<1>2. SessionSound(log, rounds, t) /\ t.applied >= session[c].applied
  BY <1>1 DEF Alike, SessionSound
<1> QED  BY <1>2, SessionKeeps

\* A session that folds through a point it has read.
LEMMA FoldKeeps ==
    ASSUME IInv, NEW c \in Clients, UNCHANGED <<log, rounds, client>>, NEW s,
           session[c].pc # "none", s.pc # "none", Alike(session[c], s),
           NEW to \in Int, s.applied <= to, to <= Len(log), FoldThrough(c, s, to)
    PROVE  Kept
<1>1. Sound(log, rounds, session[c], client[c], chan[c])  BY DEF IInv
<1>2. SessionSound(log, rounds, s) /\ s.applied >= session[c].applied
  BY <1>1 DEF Sound, Alike, SessionSound
<1>3. Sound(log, rounds, s, client[c], chan[c])  BY <1>1, <1>2, SessionMoves
<1>4. DOMAIN session = Clients /\ DOMAIN client = Clients /\ DOMAIN chan = Clients
  BY DEF IInv
<1>5. DOMAIN s = SessionFields  BY DEF Alike
<1>6. CASE Emitting(c, s, to)
  <2> DEFINE e == Envelope(c, s, to)
             t == [s EXCEPT !.applied = to, !.last = e.body, !.nextSeq = @ + 1]
  <2>1. session' = Set(session, c, t) /\ chan' = Set(chan, c, Append(chan[c], e))
    BY <1>6 DEF FoldThrough
  <2>2. /\ DOMAIN t = SessionFields /\ t.applied = to /\ t.nextSeq = s.nextSeq + 1
        /\ t.view = s.view /\ t.until = s.until /\ t.rounds = s.rounds
    BY <1>5 DEF SessionFields
  <2>3. e = [kind |-> "change", sequence |-> s.nextSeq, cursor |-> to,
             body |-> LiveFold(log, to, s.rounds)]
    BY DEF Envelope
  <2> HIDE DEF t, e
  <2>4. SessionSound(log, rounds, t)  BY <1>2, <2>2 DEF SessionSound
  <2>5. Sound(log, rounds, t, client[c], Append(chan[c], e))
    BY <1>3, <2>2, <2>3, <2>4, SessionSends DEF IInv
  <2>6. IInv'  BY <1>4, <2>1, <2>5, OneClient DEF Set
  <2>7. UNCHANGED Follower!vars  BY <1>4, Silent
  <2> QED  BY <2>6, <2>7 DEF Kept
<1>7. CASE ~Emitting(c, s, to)
  <2> DEFINE t == [s EXCEPT !.applied = to]
  <2>1. session' = Set(session, c, t) /\ chan' = chan  BY <1>7 DEF FoldThrough
  <2>2. /\ DOMAIN t = SessionFields /\ t.applied = to /\ t.nextSeq = s.nextSeq
        /\ t.view = s.view /\ t.until = s.until /\ t.rounds = s.rounds
    BY <1>5 DEF SessionFields
  <2> HIDE DEF t
  <2>3. SessionSound(log, rounds, t)  BY <1>2, <2>2 DEF SessionSound
  <2>4. t.applied >= session[c].applied
    BY <1>1, <2>2 DEF Alike, Sound, SessionSound
  <2> QED  BY <2>1, <2>3, <2>4, SessionKeeps
<1> QED  BY <1>6, <1>7

\* The subscription is refused, or its span is fixed.
LEMMA SubscribeKeeps == ASSUME IInv, NEW c \in Clients, Subscribe(c) PROVE Kept
<1> USE DEF Subscribe
<1> DEFINE s == session[c]
<1>1. Sound(log, rounds, s, client[c], chan[c])  BY DEF IInv
<1>2. DOMAIN session = Clients /\ DOMAIN client = Clients /\ DOMAIN chan = Clients
  BY DEF IInv
<1>3. log \in Seq(Entries) /\ Len(log) \in 0 .. Len(log)  BY DEF IInv
<1>4. CASE OutOfWindow(s.applied, Len(log))
  <2>1. Sound(log, rounds, NoSession, client[c], Append(chan[c], [kind |-> "resnapshot"]))
    BY <1>1, <1>3, SessionRefuses
  <2>2. IInv'  BY <1>2, <1>4, <2>1, OneClient DEF Set
  <2>3. UNCHANGED Follower!vars  BY <1>2, Silent
  <2> QED  BY <2>2, <2>3 DEF Kept
<1>5. CASE ~(OutOfWindow(s.applied, Len(log)))
  <2> DEFINE t == [s EXCEPT !.pc = "enrol", !.until = Len(log)]
  <2>1. session' = Set(session, c, t) /\ chan' = chan  BY <1>5
  <2>2. DOMAIN s = SessionFields  BY <1>1 DEF Sound, SessionSound
  <2>3. /\ DOMAIN t = SessionFields /\ t.applied = s.applied /\ t.nextSeq = s.nextSeq
        /\ t.view = s.view /\ t.until = Len(log) /\ t.rounds = s.rounds
    BY <2>2 DEF SessionFields
  <2> HIDE DEF t
  <2>4. SessionSound(log, rounds, t) /\ t.applied >= s.applied
    BY <1>1, <1>3, <2>3 DEF Sound, SessionSound
  <2> QED  BY <2>1, <2>4, SessionKeeps
<1> QED  BY <1>4, <1>5

\* The log and the config are read.
LEMMA ReadKeeps == ASSUME IInv, NEW c \in Clients, ReadLog(c) PROVE Kept
<1> USE DEF ReadLog
<1> DEFINE s == session[c]
           t == [s EXCEPT !.pc = IF s.caughtUp THEN "walk" ELSE "replay",
                   !.view = Len(log), !.rounds = rounds,
                   !.last = IF s.last = NoBody /\ s.applied > 0
                            THEN LiveFold(log, Min({s.applied, Len(log)}), rounds)
                            ELSE @]
<1>1. SessionSound(log, rounds, s)  BY DEF IInv, Sound
<1>2. session' = Set(session, c, t)  OBVIOUS
<1>3. DOMAIN s = SessionFields  BY <1>1 DEF SessionSound
<1>4. /\ DOMAIN t = SessionFields /\ t.applied = s.applied /\ t.nextSeq = s.nextSeq
      /\ t.view = Len(log) /\ t.until = s.until /\ t.rounds = rounds
  BY <1>3 DEF SessionFields
<1> HIDE DEF t
<1>5. Len(log) \in 0 .. Len(log)  BY DEF IInv
<1>6. SessionSound(log, rounds, t) /\ t.applied >= s.applied
  BY <1>1, <1>4, <1>5 DEF SessionSound
<1> QED  BY <1>2, <1>6, SessionKeeps

\* A session enrols, parks or wakes.
LEMMA TurnKeeps ==
    ASSUME IInv, NEW c \in Clients, Enrol(c) \/ Park(c) \/ Wake(c) PROVE Kept
<1> DEFINE s == session[c]
<1>1. DOMAIN s = SessionFields  BY DEF IInv, Sound, SessionSound
<1>2. CASE Enrol(c)
  <2> DEFINE t == [s EXCEPT !.pc = "read", !.wake = "enrolled"]
  <2>1. Alike(s, t)  BY <1>1 DEF Alike, SessionFields
  <2>2. session' = Set(session, c, t)  BY <1>2 DEF Enrol
  <2> HIDE DEF t
  <2> QED  BY <1>2, <2>1, <2>2, SessionTurns DEF Enrol
<1>3. CASE Park(c)
  <2> DEFINE t == [s EXCEPT !.pc = "park", !.wake = IF @ = "idle" THEN "enrolled" ELSE @]
  <2>1. Alike(s, t)  BY <1>1 DEF Alike, SessionFields
  <2>2. session' = Set(session, c, t)  BY <1>3 DEF Park
  <2> HIDE DEF t
  <2> QED  BY <1>3, <2>1, <2>2, SessionTurns DEF Park
<1>4. CASE Wake(c)
  <2> DEFINE t == [s EXCEPT !.pc = "enrol", !.wake = "idle"]
  <2>1. Alike(s, t)  BY <1>1 DEF Alike, SessionFields
  <2>2. session' = Set(session, c, t)  BY <1>4 DEF Wake
  <2> HIDE DEF t
  <2> QED  BY <1>4, <2>1, <2>2, SessionTurns DEF Wake
<1> QED  BY <1>2, <1>3, <1>4

\* The history is folded once, at its end.
LEMMA ReplayKeeps == ASSUME IInv, NEW c \in Clients, Replay(c) PROVE Kept
<1> DEFINE s == [session[c] EXCEPT !.pc = "walk", !.caughtUp = TRUE]
           spanEnd == Min({s.until, s.view})
<1>1. SessionSound(log, rounds, session[c])  BY DEF IInv, Sound
<1>2. Alike(session[c], s) /\ s.pc = "walk"
  BY <1>1 DEF Alike, SessionSound, SessionFields
<1>3. session[c].pc # "none" /\ UNCHANGED <<log, rounds, client>>  BY DEF Replay
<1>4. s.applied < spanEnd => FoldThrough(c, s, spanEnd)  BY DEF Replay
<1>5. ~(s.applied < spanEnd) => session' = Set(session, c, s) /\ chan' = chan  BY DEF Replay
<1>6. spanEnd \in Int /\ spanEnd <= Len(log)
  <2>1. s.until \in 0 .. Len(log) /\ s.view \in 0 .. Len(log)
    BY <1>1, <1>2 DEF Alike, SessionSound
  <2>2. spanEnd = s.until \/ spanEnd = s.view
    <3> HIDE DEF s
    <3>1. Len(log) \in Nat  BY DEF IInv
    <3>2. \E x \in {s.until, s.view} : \A y \in {s.until, s.view} : x =< y
      BY <2>1, <3>1
    <3> QED  BY <3>2 DEF Min
  <2> HIDE DEF s, spanEnd
  <2> QED  BY <2>1, <2>2
<1>7. s.applied \in Int  BY <1>1, <1>2 DEF Alike, SessionSound
<1> HIDE DEF s, spanEnd
<1>8. CASE s.applied < spanEnd
  BY <1>2, <1>3, <1>4, <1>6, <1>7, <1>8, FoldKeeps
<1>9. CASE ~(s.applied < spanEnd)
  BY <1>2, <1>3, <1>5, <1>9, SessionTurns
<1> QED  BY <1>8, <1>9

\* The live tail is folded an entry at a time.
LEMMA WalkKeeps == ASSUME IInv, NEW c \in Clients, Walk(c) PROVE Kept
<1> DEFINE s == session[c]
<1>1. SessionSound(log, rounds, s)  BY DEF IInv, Sound
<1>2. Alike(s, s) /\ s.pc # "none" /\ UNCHANGED <<log, rounds, client>>
  BY <1>1 DEF Alike, SessionSound, Walk
<1>3. FoldThrough(c, s, s.applied + 1) /\ s.applied < s.view  BY DEF Walk
<1>4. Len(log) \in Nat  BY DEF IInv
<1>5. s.applied + 1 \in Int /\ s.applied <= s.applied + 1 /\ s.applied + 1 <= Len(log)
  BY <1>1, <1>3, <1>4 DEF SessionSound
<1> QED  BY <1>2, <1>3, <1>5, FoldKeeps

------------------------------------------------------------------------------
(* The client's steps.                                                     *)

\* What a client without a live socket holds is enough: nothing is on its way.
LEMMA AtRestSound ==
    ASSUME NEW l, NEW r, NEW s, NEW cl, NEW ch, Sound(l, r, s, cl, ch),
           cl.status # "live", NEW v, DOMAIN v = ClientFields, Held(v),
           v.cursor \in Int, NoCursor <= v.cursor, v.cursor <= Len(l),
           v.cursor # NoCursor => BodyOf(l, r, v.cursor, v.body)
    PROVE  Sound(l, r, s, v, ch)
<1>1. ch = << >> /\ s.pc = "none"  BY DEF Sound, ClientSound
<1>2. ClientSound(l, r, s, v, ch)  BY <1>1 DEF ClientSound
<1>3. FramesSound(l, r, s, v, ch)  BY <1>1 DEF Sound, FramesSound
<1> QED  BY <1>2, <1>3 DEF Sound

\* A client that goes on to wait for something else, off the socket.
LEMMA WaitKeeps ==
    ASSUME IInv, NEW c \in Clients, UNCHANGED <<log, rounds, session, chan>>, NEW v,
           client[c].status # "live", client' = [client EXCEPT ![c] = v],
           DOMAIN v = ClientFields, Held(v),
           v.cursor = client[c].cursor, v.body = client[c].body
    PROVE  Kept
<1>1. Sound(log, rounds, session[c], client[c], chan[c])  BY DEF IInv
<1>2. Sound(log, rounds, session[c], v, chan[c])
  BY <1>1, AtRestSound DEF Sound, ClientSound
<1>3. DOMAIN session = Clients /\ DOMAIN client = Clients /\ DOMAIN chan = Clients
  BY DEF IInv
<1>4. IInv'  BY <1>2, <1>3, OneClient
<1>5. UNCHANGED Follower!vars  BY <1>3, Silent
<1> QED  BY <1>4, <1>5 DEF Kept

\* A client whose socket is torn down.
LEMMA TornSound ==
    ASSUME NEW l \in Seq(Entries), NEW r, NEW s, NEW cl, NEW ch, Sound(l, r, s, cl, ch),
           NEW v, DOMAIN v = ClientFields, Held(v), v.cursor = cl.cursor, v.body = cl.body
    PROVE  Sound(l, r, NoSession, v, << >>)
<1>1. SessionSound(l, r, NoSession) /\ NoSession.pc = "none"
  BY DEF SessionSound, SessionFields, NoSession
<1>2. ClientSound(l, r, NoSession, v, << >>)  BY <1>1 DEF Sound, ClientSound
<1>3. FramesSound(l, r, NoSession, v, << >>)  BY DEF FramesSound
<1> QED  BY <1>1, <1>2, <1>3 DEF Sound

\* The same as a step.
LEMMA TeardownKeeps ==
    ASSUME IInv, NEW c \in Clients, UNCHANGED <<log, rounds>>, Teardown(c), NEW v,
           client' = [client EXCEPT ![c] = v], DOMAIN v = ClientFields, Held(v),
           v.cursor = client[c].cursor, v.body = client[c].body
    PROVE  Kept
<1>1. Sound(log, rounds, session[c], client[c], chan[c]) /\ log \in Seq(Entries)
  BY DEF IInv
<1>2. Sound(log, rounds, NoSession, v, << >>)  BY <1>1, TornSound
<1>3. DOMAIN session = Clients /\ DOMAIN client = Clients /\ DOMAIN chan = Clients
  BY DEF IInv
<1>4. IInv'  BY <1>2, <1>3, OneClient DEF Teardown, Set
<1>5. UNCHANGED Follower!vars  BY <1>3, Silent
<1> QED  BY <1>4, <1>5 DEF Kept

\* A snapshot takes the client to the end of the log.
LEMMA FetchKeeps == ASSUME IInv, NEW c \in Clients, FetchSnapshot(c) PROVE Kept
<1> USE DEF FetchSnapshot
<1> DEFINE v == [status |-> "subscribing", body |-> LiveFold(log, Len(log), rounds),
                 cursor |-> Len(log), streamSeq |-> 0]
<1>1. Sound(log, rounds, session[c], client[c], chan[c])  BY DEF IInv
<1>2. client' = [client EXCEPT ![c] = v]  BY DEF Set
<1>3. /\ DOMAIN v = ClientFields /\ v.cursor = Len(log)
      /\ v.body = LiveFold(log, Len(log), rounds)
  BY DEF ClientFields
<1> HIDE DEF v
<1>4. v.cursor \in 0 .. Len(log)  BY <1>3 DEF IInv
<1>5. BodyOf(log, rounds, v.cursor, v.body)  BY <1>3 DEF BodyOf
<1>6. Sound(log, rounds, session[c], v, chan[c])
  BY <1>1, <1>3, <1>4, <1>5, AtRestSound DEF NoCursor, Held
<1>7. DOMAIN session = Clients /\ DOMAIN client = Clients /\ DOMAIN chan = Clients
  BY DEF IInv
<1>8. IInv'  BY <1>2, <1>6, <1>7, OneClient
<1>9. client[c].cursor <= v.cursor  BY <1>1, <1>3 DEF Sound, ClientSound
<1>10. Follower!Next  BY <1>2, <1>4, <1>5, <1>9, Forward
<1> QED  BY <1>8, <1>10 DEF Kept

\* A snapshot fails, or the client resumes.
LEMMA RetryKeeps ==
    ASSUME IInv, NEW c \in Clients, SnapshotFails(c) \/ Reconnect(c) PROVE Kept
<1>1. DOMAIN client = Clients /\ DOMAIN client[c] = ClientFields
  BY DEF IInv, Sound, ClientSound
<1>2. CASE SnapshotFails(c)
  <2>1. PICK next \in {"reconnecting", "stranded"} : client' = [client EXCEPT ![c].status = next]
    BY <1>2 DEF SnapshotFails
  <2> DEFINE v == [client[c] EXCEPT !.status = next]
  <2>2. /\ DOMAIN v = ClientFields /\ Held(v)
        /\ v.cursor = client[c].cursor /\ v.body = client[c].body
    BY <1>1 DEF ClientFields, Held
  <2>3. client' = [client EXCEPT ![c] = v]  BY <2>1
  <2> HIDE DEF v
  <2> QED  BY <1>2, <2>2, <2>3, WaitKeeps DEF SnapshotFails
<1>3. CASE Reconnect(c) /\ client[c].cursor = NoCursor
  <2> DEFINE v == [client[c] EXCEPT !.status = "snapshotting"]
  <2>1. /\ DOMAIN v = ClientFields /\ Held(v)
        /\ v.cursor = client[c].cursor /\ v.body = client[c].body
    BY <1>1 DEF ClientFields, Held
  <2>2. client' = [client EXCEPT ![c] = v]  BY <1>3 DEF Reconnect
  <2> HIDE DEF v
  <2> QED  BY <1>3, <2>1, <2>2, WaitKeeps DEF Reconnect
<1>4. CASE Reconnect(c) /\ client[c].cursor # NoCursor
  <2> DEFINE v == [client[c] EXCEPT !.status = "subscribing", !.streamSeq = 0]
  <2>1. /\ DOMAIN v = ClientFields /\ Held(v)
        /\ v.cursor = client[c].cursor /\ v.body = client[c].body
    BY <1>1, <1>4 DEF ClientFields, Held
  <2>2. client' = [client EXCEPT ![c] = v]  BY <1>1, <1>4 DEF Reconnect
  <2> HIDE DEF v
  <2> QED  BY <1>4, <2>1, <2>2, WaitKeeps DEF Reconnect
<1> QED  BY <1>2, <1>3, <1>4

\* The socket opens: the session begins where the client is.
LEMMA OpenKeeps == ASSUME IInv, NEW c \in Clients, SocketOpens(c) PROVE Kept
<1> USE DEF SocketOpens
<1> DEFINE s == Subscribed(client[c].cursor)
           v == [client[c] EXCEPT !.status = "live"]
<1>1. Sound(log, rounds, session[c], client[c], chan[c]) /\ chan[c] = << >>
  BY DEF IInv, Sound, ClientSound
<1>2. /\ DOMAIN client = Clients /\ DOMAIN session = Clients /\ DOMAIN chan = Clients
      /\ DOMAIN client[c] = ClientFields
  BY <1>1 DEF IInv, Sound, ClientSound
<1>3. /\ DOMAIN v = ClientFields /\ v.status = "live"
      /\ v.cursor = client[c].cursor /\ v.body = client[c].body
  BY <1>2 DEF ClientFields
<1>4. client' = [client EXCEPT ![c] = v] /\ session' = Set(session, c, s)  BY <1>2
<1>5. /\ DOMAIN s = SessionFields /\ s.applied = client[c].cursor /\ s.view = 0
      /\ s.until = 0 /\ s.rounds = "defined" /\ s.nextSeq = 1
  BY DEF Subscribed, NoSession, SessionFields
<1> HIDE DEF s, v
<1>6. Len(log) \in Nat  BY DEF IInv
<1>7. SessionSound(log, rounds, s)
  BY <1>1, <1>5, <1>6 DEF SessionSound, Sound, ClientSound
<1>8. ClientSound(log, rounds, s, v, chan[c])
  <2>1. Held(v)  BY <1>1, <1>3 DEF Sound, ClientSound, Held
  <2> QED  BY <2>1, <1>1, <1>3, <1>5 DEF Sound, ClientSound
<1>9. FramesSound(log, rounds, s, v, chan[c])
  BY <1>1 DEF FramesSound
<1>10. IInv'
  BY <1>2, <1>4, <1>7, <1>8, <1>9, OneClient DEF Sound, Set
<1>11. UNCHANGED Follower!vars  BY <1>2, <1>3, <1>4, Silent
<1> QED  BY <1>10, <1>11 DEF Kept

\* The first frame is taken off the socket: what the client then holds is
\* what it held, or the frame's.
LEMMA FrameTaken ==
    ASSUME NEW l \in Seq(Entries), NEW r, NEW s, NEW cl, NEW ch, Sound(l, r, s, cl, ch),
           cl.status = "live", ch # << >>, NEW v, DOMAIN v = ClientFields, v.status = "live",
           \/ v.cursor = cl.cursor /\ v.body = cl.body
           \/ /\ Head(ch).kind = "change"
              /\ v.cursor = Head(ch).cursor /\ v.body = Head(ch).body
    PROVE  Sound(l, r, s, v, Tail(ch)) /\ cl.cursor <= v.cursor
<1> DEFINE rest == Tail(ch)
<1>1. ch \in Seq(Frames)  BY DEF Sound, FramesSound
<1>2. /\ Len(ch) \in Nat \ {0} /\ Head(ch) = ch[1] /\ 1 \in 1 .. Len(ch)
      /\ rest \in Seq(Frames) /\ Len(rest) = Len(ch) - 1
      /\ \A i \in 1 .. Len(rest) : rest[i] = ch[i + 1]
  BY <1>1
<1> HIDE DEF rest
<1>3. \A i \in 1 .. Len(ch) : ch[i].kind = "change" => ch[i].cursor \in Int
  <2> SUFFICES ASSUME NEW i \in 1 .. Len(ch), ch[i].kind = "change"
               PROVE  ch[i].cursor \in Int
    OBVIOUS
  <2>1. ch[i] \in Frames  BY <1>1
  <2> QED  BY <2>1 DEF Frames
<1>4. cl.cursor \in Int /\ NoCursor <= cl.cursor /\ cl.cursor <= Len(l)
  BY DEF Sound, ClientSound
<1>5. v.cursor \in Int /\ cl.cursor <= v.cursor /\ v.cursor <= Len(l)
  BY <1>2, <1>3, <1>4 DEF Sound, FramesSound
<1>6. v.cursor # NoCursor => BodyOf(l, r, v.cursor, v.body)
  BY <1>2 DEF Sound, ClientSound, FramesSound
<1>7. s.pc # "none" => v.cursor <= s.applied
  BY <1>2 DEF Sound, ClientSound, FramesSound
<1>8. ClientSound(l, r, s, v, rest)
  <2>1. NoCursor <= v.cursor  BY <1>4, <1>5 DEF NoCursor
  <2>2. Held(v)
    <3>1. cl.cursor # NoCursor  BY DEF Sound, ClientSound, Held
    <3> QED  BY <3>1, <1>4, <1>5 DEF Held, NoCursor
  <2> QED  BY <2>1, <2>2, <1>5, <1>6, <1>7 DEF ClientSound
<1>9. FramesSound(l, r, s, v, rest)
  <2> SUFFICES ASSUME NEW i \in 1 .. Len(rest), rest[i].kind = "change"
               PROVE  /\ v.cursor <= rest[i].cursor /\ rest[i].cursor <= Len(l)
                      /\ s.pc # "none" => rest[i].cursor <= s.applied
                      /\ BodyOf(l, r, rest[i].cursor, rest[i].body)
                      /\ \A j \in i .. Len(rest) :
                           rest[j].kind = "change" => rest[i].cursor <= rest[j].cursor
    BY <1>2 DEF FramesSound
  <2>1. i + 1 \in 1 .. Len(ch) /\ rest[i] = ch[i + 1]
    BY <1>2
  <2>2. /\ cl.cursor <= rest[i].cursor /\ rest[i].cursor <= Len(l)
        /\ s.pc # "none" => rest[i].cursor <= s.applied
        /\ BodyOf(l, r, rest[i].cursor, rest[i].body)
    BY <2>1 DEF Sound, FramesSound
  <2>3. Head(ch).kind = "change" => Head(ch).cursor <= rest[i].cursor
    <3>1. i + 1 \in 1 .. Len(ch) /\ ch[i + 1].kind = "change"  BY <2>1
    <3> QED  BY <3>1, <2>1, <1>2 DEF Sound, FramesSound
  <2>4. v.cursor <= rest[i].cursor  BY <2>2, <2>3
  <2>5. ASSUME NEW j \in i .. Len(rest), rest[j].kind = "change"
        PROVE  rest[i].cursor <= rest[j].cursor
    <3>1. i \in Nat /\ Len(rest) \in Nat  BY <1>2
    <3>2. j \in 1 .. Len(rest) /\ j + 1 \in i + 1 .. Len(ch)  BY <1>2, <3>1
    <3>3. rest[j] = ch[j + 1] /\ ch[i + 1].kind = "change"  BY <1>2, <3>2, <2>1
    <3> QED  BY <2>1, <3>2, <3>3, <2>5 DEF Sound, FramesSound
  <2> QED  BY <2>2, <2>4, <2>5
<1>10. SessionSound(l, r, s)  BY DEF Sound
<1> QED  BY <1>5, <1>6, <1>8, <1>9, <1>10 DEF Sound, rest

\* A frame is handled.
LEMMA DeliverKeeps == ASSUME IInv, NEW c \in Clients, Deliver(c) PROVE Kept
<1> DEFINE m == Head(chan[c])
           verdict == Verdict(client[c], m)
<1>1. Sound(log, rounds, session[c], client[c], chan[c]) /\ log \in Seq(Entries)
  BY DEF IInv
<1>2. /\ DOMAIN session = Clients /\ DOMAIN client = Clients /\ DOMAIN chan = Clients
      /\ DOMAIN client[c] = ClientFields
  BY <1>1 DEF IInv, Sound, ClientSound
<1>3. client[c].status = "live" /\ chan[c] # << >> /\ UNCHANGED <<log, rounds>>
  BY DEF Deliver
<1>4. CASE verdict = "resnapshot"
  <2> DEFINE v == [client[c] EXCEPT !.status = "snapshotting"]
  <2>1. Teardown(c) /\ client' = [client EXCEPT ![c] = v]  BY <1>4 DEF Deliver
  <2>2. /\ DOMAIN v = ClientFields /\ Held(v)
        /\ v.cursor = client[c].cursor /\ v.body = client[c].body
    BY <1>2 DEF ClientFields, Held
  <2> HIDE DEF v
  <2> QED  BY <1>3, <2>1, <2>2, TeardownKeeps
<1>5. CASE verdict = "applied"
  <2> DEFINE v == Applied(client[c], m)
  <2>1. /\ client' = [client EXCEPT ![c] = v]
        /\ chan' = [chan EXCEPT ![c] = Tail(chan[c])] /\ session' = session
    BY <1>5 DEF Deliver, Set
  <2>2. /\ DOMAIN v = ClientFields /\ v.cursor = m.cursor /\ v.body = m.body
        /\ v.status = client[c].status
    BY <1>2 DEF Applied, ClientFields
  <2>3. m.kind = "change"
    <3>1. m \in Frames  BY <1>1, <1>3 DEF Sound, FramesSound
    <3>2. m.kind # "resnapshot"  BY <1>5 DEF Verdict
    <3> QED  BY <3>1, <3>2 DEF Frames
  <2> HIDE DEF v
  <2>4. /\ Sound(log, rounds, session[c], v, Tail(chan[c]))
        /\ client[c].cursor <= v.cursor
    BY <1>1, <1>3, <2>2, <2>3, FrameTaken
  <2>5. v.cursor \in 0 .. Len(log) /\ BodyOf(log, rounds, v.cursor, v.body)
    <3>1. BodyOf(log, rounds, m.cursor, m.body)
      BY <1>1, <1>3, <2>3 DEF Sound, FramesSound
    <3>2. client[c].cursor # NoCursor
      BY <1>1, <1>3 DEF Sound, ClientSound, Held
    <3> QED  BY <1>1, <2>2, <2>4, <3>1, <3>2 DEF Sound, ClientSound, NoCursor
  <2>6. IInv'  BY <1>2, <1>3, <2>1, <2>4, OneClient
  <2>7. Follower!Next  BY <1>3, <2>1, <2>4, <2>5, Forward
  <2> QED  BY <2>6, <2>7 DEF Kept
<1>6. CASE verdict # "resnapshot" /\ verdict # "applied"
  <2>1. /\ client' = client
        /\ chan' = [chan EXCEPT ![c] = Tail(chan[c])] /\ session' = session
    BY <1>6 DEF Deliver, Set
  <2>2. Sound(log, rounds, session[c], client[c], Tail(chan[c]))
    BY <1>1, <1>2, <1>3, FrameTaken
  <2>3. IInv'  BY <1>2, <1>3, <2>1, <2>2, OneClient
  <2>4. UNCHANGED Follower!vars  BY <1>2, <1>3, <2>1, Silent
  <2> QED  BY <2>3, <2>4 DEF Kept
<1> QED  BY <1>4, <1>5, <1>6

\* The socket is found closed.
LEMMA CloseKeeps == ASSUME IInv, NEW c \in Clients, SocketCloses(c) PROVE Kept
<1> DEFINE v == [client[c] EXCEPT !.status = "reconnecting"]
<1>1. DOMAIN client[c] = ClientFields  BY DEF IInv, Sound, ClientSound
<1>2. Teardown(c) /\ client' = [client EXCEPT ![c] = v] /\ UNCHANGED <<log, rounds>>
  BY DEF SocketCloses
<1>3. /\ DOMAIN v = ClientFields /\ Held(v)
      /\ v.cursor = client[c].cursor /\ v.body = client[c].body
  BY <1>1 DEF ClientFields, Held
<1> HIDE DEF v
<1> QED  BY <1>2, <1>3, TeardownKeeps

------------------------------------------------------------------------------
(* The failures.                                                           *)

\* A socket breaks.
LEMMA DropKeeps == ASSUME IInv, NEW c \in Clients, DropLink(c) PROVE Kept
<1> USE DEF DropLink
<1>1. Sound(log, rounds, session[c], client[c], chan[c]) /\ log \in Seq(Entries)
  BY DEF IInv
<1>2. DOMAIN session = Clients /\ DOMAIN client = Clients /\ DOMAIN chan = Clients
  BY DEF IInv
<1>3. PICK kept \in 0 .. Len(chan[c]) : chan' = Set(chan, c, SubSeq(chan[c], 1, kept))
  OBVIOUS
<1>4. Sound(log, rounds, NoSession, client[c], SubSeq(chan[c], 1, kept))
  BY <1>1, SessionEnds
<1>5. IInv'  BY <1>2, <1>3, <1>4, OneClient DEF Set
<1>6. UNCHANGED Follower!vars  BY <1>2, Silent
<1> QED  BY <1>5, <1>6 DEF Kept

\* The Director goes down: every session ends.
LEMMA RestartKeeps == ASSUME IInv, Restart PROVE Kept
<1> USE DEF Restart
<1>1. ASSUME NEW c \in Clients
      PROVE  Sound(log, rounds, NoSession, client[c], chan[c])
  <2>1. Sound(log, rounds, session[c], client[c], chan[c]) /\ log \in Seq(Entries)
    BY DEF IInv
  <2>2. chan[c] \in Seq(Frames)  BY <2>1 DEF Sound, FramesSound
  <2>3. Len(chan[c]) \in 0 .. Len(chan[c]) /\ SubSeq(chan[c], 1, Len(chan[c])) = chan[c]
    BY <2>2
  <2>4. Sound(log, rounds, NoSession, client[c], SubSeq(chan[c], 1, Len(chan[c])))
    BY <2>1, <2>3, SessionEnds
  <2> QED  BY <2>3, <2>4
<1>2. IInv'  BY <1>1 DEF IInv
<1>3. UNCHANGED Follower!vars  BY Silent DEF IInv
<1> QED  BY <1>2, <1>3 DEF Kept

\* Nothing happens.
LEMMA StutterKeeps == ASSUME IInv, UNCHANGED vars PROVE Kept
<1>1. IInv'  BY DEF IInv, vars
<1>2. UNCHANGED Follower!vars  BY Silent DEF IInv, vars
<1> QED  BY <1>1, <1>2 DEF Kept

\* Every step.
LEMMA StepKeeps == ASSUME IInv, [Next]_vars PROVE Kept
<1>1. ASSUME NEW kind \in Kinds, AppendEntry(kind) PROVE Kept  BY <1>1, AppendKeeps
<1>2. ASSUME NEW c \in Clients, SessionStep(c) PROVE Kept
  BY <1>2, SubscribeKeeps, TurnKeeps, ReadKeeps, ReplayKeeps, WalkKeeps DEF SessionStep
<1>3. ASSUME NEW c \in Clients, ClientStep(c) PROVE Kept
  BY <1>3, FetchKeeps, OpenKeeps, DeliverKeeps, CloseKeeps, RetryKeeps DEF ClientStep
<1>4. ASSUME NEW c \in Clients, SnapshotFails(c) \/ DropLink(c) PROVE Kept
  BY <1>4, RetryKeeps, DropKeeps
<1> QED
  BY <1>1, <1>2, <1>3, <1>4, NotifyKeeps, RemoveKeeps, RestartKeeps, StutterKeeps DEF Next

------------------------------------------------------------------------------
(* The theorems.                                                           *)

\* The invariant holds throughout.
LEMMA Invariance == Spec => []IInv
<1>1. IInv /\ [Next]_vars => IInv'  BY StepKeeps DEF Kept
<1> QED  BY <1>1, InitIInv, PTL DEF Spec

\* Whatever a client shows is the fold of the log exactly at its resume cursor,
\* and the cursor is a point of the log (protocol-client/src/client.ts, ws.rs):
\* for any clients, any window, any log and any number of failures.
THEOREM CursorsAreExact == Spec => []ExactCursor
<1>1. IInv => ExactCursor
  BY DEF IInv, Sound, ClientSound, BodyOf, ExactCursor, BodyAt
<1> QED  BY <1>1, Invariance, PTL

\* A connection is a follower of the log: each step of the stream - a snapshot,
\* a frame, a lost link, a restart - shows a later point of it or nothing new.
THEOREM StreamIsAFollower == Spec => ImplementsFollower
<1>1. Init => Follower!Init
  <2>1. NewClient.cursor = -1 /\ NewClient.body = Follower!NoBody
    BY DEF NewClient, NoCursor, Follower!NoBody, NoBody, Follower!Body, Body
  <2> QED  BY <2>1 DEF Init, Follower!Init
<1>2. IInv /\ [Next]_vars => [Follower!Next]_(Follower!vars)
  BY StepKeeps DEF Kept
<1> QED
  BY <1>1, <1>2, Invariance, PTL DEF Spec, ImplementsFollower, Follower!Spec

------------------------------------------------------------------------------
(* What is on its way.  Beside IInv, one client's at a time: the frames are *)
(* numbered on from the client's sequence and up to the session's (Sent),   *)
(* none lies below the tail of the subscription (Settled), and each heat    *)
(* the session has folded is behind the client or behind a frame (Heard).   *)

Sent(s, cl, ch) ==
    /\ cl.streamSeq \in Nat
    /\ cl.status = "subscribing" => cl.streamSeq = 0
    /\ \A i \in 1 .. Len(ch) : ch[i].kind = "change" => ch[i].sequence = cl.streamSeq + i
    /\ s.pc # "none" => s.nextSeq = cl.streamSeq + Len(ch) + 1

\* A session that has caught up is past the tail of its subscription.
Settled(s, ch) ==
    /\ s.pc = "subscribe" => ch = << >> /\ ~s.caughtUp
    /\ s.pc # "none" /\ s.caughtUp => s.applied >= s.until
    /\ s.pc \in {"walk", "park"} => s.caughtUp
    /\ s.pc = "replay" => s.view >= s.until
    /\ s.pc \notin {"none", "subscribe"} =>
         \A i \in 1 .. Len(ch) : ch[i].kind = "change" => ch[i].cursor >= s.until

Heard(l, s, cl, ch) ==
    s.pc # "none" =>
      \A i \in 1 .. s.applied : l[i] = "heat" =>
         \/ i <= cl.cursor
         \/ \E j \in 1 .. Len(ch) : ch[j].kind = "change" /\ i <= ch[j].cursor

Steady(l, s, cl, ch) == Sent(s, cl, ch) /\ Settled(s, ch) /\ Heard(l, s, cl, ch)

AllSteady == \A c \in Clients : Steady(log, session[c], client[c], chan[c])

\* The first of the frames on their way is one the client applies.
LEMMA HeadApplies ==
    ASSUME NEW s, NEW cl, NEW ch \in Seq(Frames), Sent(s, cl, ch), ch # << >>
    PROVE  Head(ch).kind = "resnapshot" \/
             (/\ Head(ch).kind = "change" /\ Head(ch).sequence = cl.streamSeq + 1
              /\ Verdict(cl, Head(ch)) = "applied")
<1>1. Head(ch) = ch[1] /\ 1 \in 1 .. Len(ch) /\ ch[1] \in Frames  OBVIOUS
<1>2. ch[1].kind \in {"resnapshot", "change"}  BY <1>1 DEF Frames
<1>3. CASE ch[1].kind = "change"
  <2>1. ch[1].sequence = cl.streamSeq + 1 /\ cl.streamSeq \in Nat
    BY <1>1, <1>3 DEF Sent
  <2>2. Verdict(cl, ch[1]) = "applied"  BY <1>3, <2>1 DEF Verdict
  <2> QED  BY <1>1, <1>3, <2>1, <2>2
<1> QED  BY <1>1, <1>2, <1>3

\* The log grows.
LEMMA SteadyGrows ==
    ASSUME NEW l \in Seq(Entries), NEW k \in Entries, NEW s, NEW cl, NEW ch,
           s.applied \in Int, s.applied <= Len(l), Steady(l, s, cl, ch)
    PROVE  Steady(Append(l, k), s, cl, ch)
<1>1. \A i \in 1 .. s.applied : Append(l, k)[i] = l[i]
  <2> TAKE i \in 1 .. s.applied
  <2>1. Len(l) \in Nat  OBVIOUS
  <2>2. i \in 1 .. Len(l)  BY <2>1
  <2> QED  BY <2>2
<1> QED  BY <1>1 DEF Steady, Heard

\* The session does something that sends nothing and folds nothing.
LEMMA SteadyTurns ==
    ASSUME NEW l, NEW s, NEW cl, NEW ch, Steady(l, s, cl, ch), s.pc # "none",
           NEW t, t.applied = s.applied, t.nextSeq = s.nextSeq, Settled(t, ch)
    PROVE  Steady(l, t, cl, ch)
BY DEF Steady, Sent, Heard

\* There is no session any more; of its frames some first ones still arrive.
LEMMA SteadyEnds ==
    ASSUME NEW l, NEW s, NEW cl, NEW ch \in Seq(Frames), Steady(l, s, cl, ch),
           NEW n \in 0 .. Len(ch)
    PROVE  Steady(l, NoSession, cl, SubSeq(ch, 1, n))
<1> DEFINE kept == SubSeq(ch, 1, n)
<1>1. Len(kept) = n /\ \A i \in 1 .. n : i \in 1 .. Len(ch) /\ kept[i] = ch[i]  OBVIOUS
<1>2. NoSession.pc = "none"  BY DEF NoSession
<1> HIDE DEF kept
<1>3. Sent(NoSession, cl, kept)  BY <1>1, <1>2 DEF Steady, Sent
<1>4. Settled(NoSession, kept)  BY <1>2 DEF Settled
<1>5. Heard(l, NoSession, cl, kept)  BY <1>2 DEF Heard
<1> QED  BY <1>3, <1>4, <1>5 DEF Steady, kept

\* Nothing is on its way and there is no session.
LEMMA SteadyAtRest ==
    ASSUME NEW l, NEW s, s.pc = "none", NEW cl, cl.streamSeq \in Nat,
           cl.status = "subscribing" => cl.streamSeq = 0
    PROVE  Steady(l, s, cl, << >>)
BY DEF Steady, Sent, Settled, Heard

\* The session folds to a later point: what it passed, it sends or is silent on.
FoldsTo(l, o, ch, to, t, n, more) ==
    /\ o.pc \notin {"none", "subscribe"} /\ o.applied \in Int /\ o.until \in Int
    /\ to \in Int /\ o.applied <= to /\ o.until <= to
    /\ t.pc = "walk" /\ t.caughtUp /\ t.applied = to /\ t.until = o.until
    /\ n \in Frames
    /\ \/ /\ more = Append(ch, n) /\ t.nextSeq = o.nextSeq + 1
          /\ n.kind = "change" /\ n.sequence = o.nextSeq /\ n.cursor = to
       \/ /\ more = ch /\ t.nextSeq = o.nextSeq
          /\ ~ \E i \in o.applied + 1 .. to : l[i] = "heat"
LEMMA SteadyFolds ==
    ASSUME NEW l, NEW o, NEW cl, NEW ch \in Seq(Frames), Steady(l, o, cl, ch),
           cl.cursor \in Int, NEW to, NEW t, NEW n, NEW more,
           FoldsTo(l, o, ch, to, t, n, more)
    PROVE  Steady(l, t, cl, more)
<1> USE DEF FoldsTo
<1>1. Len(ch) \in Nat /\ cl.streamSeq \in Nat  BY DEF Steady, Sent
<1>2. \A i \in 1 .. Len(ch) : ch[i].kind = "change" => ch[i].cursor \in Int
  <2> SUFFICES ASSUME NEW i \in 1 .. Len(ch), ch[i].kind = "change"
               PROVE  ch[i].cursor \in Int
    OBVIOUS
  <2>1. ch[i] \in Frames  OBVIOUS
  <2> QED  BY <2>1 DEF Frames
<1>3. CASE more = ch /\ t.nextSeq = o.nextSeq /\ ~ \E i \in o.applied + 1 .. to : l[i] = "heat"
  <2>1. Sent(t, cl, more)  BY <1>3 DEF Steady, Sent
  <2>2. Settled(t, more)  BY <1>3 DEF Steady, Settled
  <2>3. Heard(l, t, cl, more)
    <3> SUFFICES ASSUME NEW i \in 1 .. to, l[i] = "heat"
                 PROVE  \/ i <= cl.cursor
                        \/ \E j \in 1 .. Len(ch) : ch[j].kind = "change" /\ i <= ch[j].cursor
      BY <1>3 DEF Heard
    <3>1. i \in 1 .. o.applied  BY <1>3
    <3> QED  BY <3>1 DEF Steady, Heard
  <2> QED  BY <2>1, <2>2, <2>3 DEF Steady
<1>4. CASE /\ more = Append(ch, n) /\ t.nextSeq = o.nextSeq + 1
           /\ n.kind = "change" /\ n.sequence = o.nextSeq /\ n.cursor = to
  <2>1. /\ Len(more) = Len(ch) + 1 /\ more[Len(ch) + 1] = n
        /\ \A i \in 1 .. Len(ch) : more[i] = ch[i]
    BY <1>4
  <2>2. /\ o.nextSeq = cl.streamSeq + (Len(ch) + 1)
        /\ o.nextSeq + 1 = cl.streamSeq + (Len(ch) + 1) + 1
    <3>1. o.nextSeq = cl.streamSeq + Len(ch) + 1  BY DEF Steady, Sent
    <3> QED  BY <1>1, <3>1
  <2>3. \A i \in 1 .. Len(more) : i = Len(ch) + 1 \/ i \in 1 .. Len(ch)  BY <1>1, <2>1
  <2>4. Sent(t, cl, more)
    <3>1. \A i \in 1 .. Len(more) :
            more[i].kind = "change" => more[i].sequence = cl.streamSeq + i
      <4> TAKE i \in 1 .. Len(more)
      <4>1. CASE i = Len(ch) + 1  BY <4>1, <1>4, <2>1, <2>2
      <4>2. CASE i \in 1 .. Len(ch)  BY <4>2, <2>1 DEF Steady, Sent
      <4> QED  BY <4>1, <4>2, <2>3
    <3>2. t.nextSeq = cl.streamSeq + Len(more) + 1  BY <1>4, <2>1, <2>2
    <3> QED  BY <3>1, <3>2 DEF Steady, Sent
  <2>5. Settled(t, more)
    <3>1. \A i \in 1 .. Len(more) : more[i].kind = "change" => more[i].cursor >= o.until
      <4> TAKE i \in 1 .. Len(more)
      <4>1. CASE i = Len(ch) + 1  BY <4>1, <1>4, <2>1
      <4>2. CASE i \in 1 .. Len(ch)  BY <4>2, <2>1 DEF Steady, Settled
      <4> QED  BY <4>1, <4>2, <2>3
    <3> QED  BY <3>1 DEF Settled
  <2>6. Heard(l, t, cl, more)
    <3>1. Len(ch) + 1 \in 1 .. Len(more)  BY <1>1, <2>1
    <3> QED  BY <3>1, <1>4, <2>1 DEF Heard
  <2> QED  BY <2>4, <2>5, <2>6 DEF Steady
<1> QED  BY <1>3, <1>4

\* The client applies the first frame.
LEMMA SteadyTaken ==
    ASSUME NEW l, NEW s, NEW cl, NEW ch \in Seq(Frames), Steady(l, s, cl, ch), ch # << >>,
           s.pc # "subscribe", s.applied \in Int, cl.cursor \in Int,
           Head(ch).kind = "change", cl.cursor <= Head(ch).cursor,
           NEW v, v.status = "live", v.cursor = Head(ch).cursor,
           v.streamSeq = Head(ch).sequence
    PROVE  Steady(l, s, v, Tail(ch))
<1> DEFINE rest == Tail(ch)
<1>1. /\ Len(ch) \in Nat \ {0} /\ Head(ch) = ch[1] /\ 1 \in 1 .. Len(ch)
      /\ rest \in Seq(Frames) /\ Len(rest) = Len(ch) - 1
      /\ \A i \in 1 .. Len(rest) : i + 1 \in 1 .. Len(ch) /\ rest[i] = ch[i + 1]
  OBVIOUS
<1> HIDE DEF rest
<1>2. cl.streamSeq \in Nat /\ v.streamSeq = cl.streamSeq + 1  BY <1>1 DEF Steady, Sent
<1>3. Sent(s, v, rest)
  <2>1. \A i \in 1 .. Len(rest) :
          rest[i].kind = "change" => rest[i].sequence = v.streamSeq + i
    <3> TAKE i \in 1 .. Len(rest)
    <3>1. i + 1 \in 1 .. Len(ch) /\ rest[i] = ch[i + 1]  BY <1>1
    <3>2. cl.streamSeq + (i + 1) = v.streamSeq + i
      <4>1. \A a \in Nat : a + (i + 1) = (a + 1) + i  OBVIOUS
      <4> QED  BY <4>1, <1>2
    <3>3. ch[i + 1].kind = "change" => ch[i + 1].sequence = cl.streamSeq + (i + 1)
      BY <3>1 DEF Steady, Sent
    <3> QED  BY <3>1, <3>2, <3>3
  <2>2. s.pc # "none" => s.nextSeq = v.streamSeq + Len(rest) + 1
    BY <1>1, <1>2 DEF Steady, Sent
  <2> QED  BY <2>1, <2>2, <1>2 DEF Sent
<1>4. Settled(s, rest)  BY <1>1 DEF Steady, Settled
<1>5. Heard(l, s, v, rest)
  <2> SUFFICES ASSUME s.pc # "none", NEW i \in 1 .. s.applied, l[i] = "heat"
               PROVE  \/ i <= v.cursor
                      \/ \E j \in 1 .. Len(rest) : rest[j].kind = "change" /\ i <= rest[j].cursor
    BY DEF Heard
  <2>0. v.cursor \in Int
    <3>1. ch[1] \in Frames /\ ch[1].kind = "change"  BY <1>1
    <3> QED  BY <3>1, <1>1 DEF Frames
  <2>1. CASE i <= cl.cursor  BY <2>0, <2>1
  <2>2. CASE \E j \in 1 .. Len(ch) : ch[j].kind = "change" /\ i <= ch[j].cursor
    <3>1. PICK j \in 1 .. Len(ch) : ch[j].kind = "change" /\ i <= ch[j].cursor  BY <2>2
    <3>2. CASE j = 1  BY <3>1, <3>2, <1>1
    <3>3. CASE j # 1
      <4>1. j - 1 \in 1 .. Len(rest) /\ (j - 1) + 1 = j  BY <3>3, <1>1
      <4>2. rest[j - 1] = ch[j]  BY <4>1, <1>1
      <4> QED  BY <4>1, <4>2, <3>1
    <3> QED  BY <3>2, <3>3
  <2> QED  BY <2>1, <2>2 DEF Steady, Heard
<1> QED  BY <1>3, <1>4, <1>5 DEF Steady, rest

\* A step of one client and its session.
LEMMA OneSteady ==
    ASSUME AllSteady, log' = log, NEW c \in Clients,
           \A d \in Clients \ {c} :
              session'[d] = session[d] /\ client'[d] = client[d] /\ chan'[d] = chan[d],
           Steady(log, session'[c], client'[c], chan'[c])
    PROVE  AllSteady'
<1>1. \A d \in Clients \ {c} : Steady(log, session'[d], client'[d], chan'[d])
  BY DEF AllSteady
<1> QED  BY <1>1 DEF AllSteady

\* What IInv says of one client, for the steps below.
Typed(c) ==
    /\ log \in Seq(Entries) /\ Len(log) \in Nat
    /\ c \in DOMAIN session /\ c \in DOMAIN client /\ c \in DOMAIN chan
    /\ DOMAIN session[c] = SessionFields /\ DOMAIN client[c] = ClientFields
    /\ session[c].applied \in Int /\ session[c].applied <= Len(log)
    /\ session[c].until \in 0 .. Len(log) /\ session[c].view \in 0 .. Len(log)
    /\ client[c].cursor \in Int
    /\ chan[c] \in Seq(Frames)
    /\ client[c].status # "live" => chan[c] = << >> /\ session[c].pc = "none"
LEMMA IsTyped == ASSUME IInv, NEW c \in Clients PROVE Typed(c)
BY DEF IInv, Sound, SessionSound, ClientSound, FramesSound, Typed

\* A session that turns to something else.
LEMMA TurnSteady ==
    ASSUME IInv, AllSteady, NEW c \in Clients, UNCHANGED <<log, client, chan>>, NEW t,
           session' = Set(session, c, t), session[c].pc # "none",
           t.applied = session[c].applied, t.nextSeq = session[c].nextSeq,
           Settled(t, chan[c])
    PROVE  AllSteady'
<1>1. Typed(c)  BY IsTyped
<1>2. Steady(log, session[c], client[c], chan[c])  BY DEF AllSteady
<1>3. Steady(log, t, client[c], chan[c])  BY <1>2, SteadyTurns
<1> QED  BY <1>1, <1>3, OneSteady DEF Set, Typed

\* A client whose socket is torn down.
LEMMA TornSteady ==
    ASSUME IInv, AllSteady, NEW c \in Clients, log' = log, Teardown(c), NEW v,
           client' = [client EXCEPT ![c] = v],
           v.streamSeq = client[c].streamSeq, v.status # "subscribing"
    PROVE  AllSteady'
<1>1. Typed(c)  BY IsTyped
<1>2. v.streamSeq \in Nat  BY DEF AllSteady, Steady, Sent
<1>3. NoSession.pc = "none"  BY DEF NoSession
<1>4. Steady(log, NoSession, v, << >>)  BY <1>2, <1>3, SteadyAtRest
<1>5. /\ session'[c] = NoSession /\ chan'[c] = << >> /\ client'[c] = v
      /\ \A d \in Clients \ {c} :
           session'[d] = session[d] /\ client'[d] = client[d] /\ chan'[d] = chan[d]
  BY <1>1 DEF Teardown, Set, Typed
<1> QED  BY <1>4, <1>5, OneSteady

\* A client that goes on to wait for something else, off the socket.
LEMMA WaitSteady ==
    ASSUME IInv, AllSteady, NEW c \in Clients, UNCHANGED <<log, session, chan>>, NEW v,
           client[c].status # "live", client' = [client EXCEPT ![c] = v],
           \/ v.streamSeq = client[c].streamSeq /\ v.status # "subscribing"
           \/ v.streamSeq = 0
    PROVE  AllSteady'
<1>1. Typed(c)  BY IsTyped
<1>2. v.streamSeq \in Nat /\ (v.status = "subscribing" => v.streamSeq = 0)
  BY DEF AllSteady, Steady, Sent
<1>3. session[c].pc = "none" /\ chan[c] = << >>  BY <1>1 DEF Typed
<1>4. Steady(log, session[c], v, chan[c])  BY <1>2, <1>3, SteadyAtRest
<1> QED  BY <1>1, <1>4, OneSteady DEF Typed

LEMMA InitSteady == Init => AllSteady
<1> SUFFICES ASSUME Init, NEW c \in Clients
             PROVE  Steady(log, session[c], client[c], chan[c])
  BY DEF AllSteady
<1>1. NoSession.pc = "none" /\ NewClient.streamSeq = 0  BY DEF NoSession, NewClient
<1> QED  BY <1>1, SteadyAtRest DEF Init

LEMMA AppendSteady ==
    ASSUME IInv, AllSteady, NEW kind \in Kinds, AppendEntry(kind) PROVE AllSteady'
<1> USE DEF AppendEntry
<1> SUFFICES ASSUME NEW c \in Clients
             PROVE  Steady(log', session[c], client[c], chan[c])
  BY DEF AllSteady
<1>1. kind \in Entries  BY KindsAssumption
<1>2. Steady(log, session[c], client[c], chan[c])  BY DEF AllSteady
<1> QED  BY <1>1, <1>2, IsTyped, SteadyGrows DEF Typed

LEMMA NotifySteady == ASSUME IInv, AllSteady, Notify PROVE AllSteady'
<1> USE DEF Notify
<1> SUFFICES ASSUME NEW c \in Clients
             PROVE  Steady(log, session'[c], client[c], chan[c])
  BY DEF AllSteady
<1> DEFINE s == session[c]
           t == [s EXCEPT !.wake = "woken"]
<1>1. Steady(log, s, client[c], chan[c])  BY DEF AllSteady
<1>2. DOMAIN s = SessionFields  BY IsTyped DEF Typed
<1>3. /\ t.pc = s.pc /\ t.applied = s.applied /\ t.until = s.until /\ t.view = s.view
      /\ t.nextSeq = s.nextSeq /\ t.caughtUp = s.caughtUp
  BY <1>2
<1>4. session'[c] = t \/ session'[c] = s  OBVIOUS
<1> HIDE DEF t, s
<1>5. Steady(log, t, client[c], chan[c])
  BY <1>1, <1>3 DEF Steady, Sent, Settled, Heard
<1> QED  BY <1>1, <1>4, <1>5

\* The resume cursor is refused, or the tail of the subscription is read.
LEMMA SubscribeSteady == ASSUME IInv, AllSteady, NEW c \in Clients, Subscribe(c) PROVE AllSteady'
<1> USE DEF Subscribe
<1> DEFINE s == session[c]
<1>1. Typed(c)  BY IsTyped
<1>2. Steady(log, s, client[c], chan[c])  BY DEF AllSteady
<1>3. chan[c] = << >> /\ ~s.caughtUp /\ s.pc # "none"  BY <1>2 DEF Steady, Settled
<1>4. CASE OutOfWindow(s.applied, Len(log))
  <2> DEFINE e == [kind |-> "resnapshot"]
             more == Append(chan[c], e)
  <2>1. /\ session' = Set(session, c, NoSession) /\ chan' = Set(chan, c, more)
        /\ UNCHANGED <<log, client>>
    BY <1>4
  <2>2. Len(more) = 1 /\ more[1] = e /\ e.kind # "change"  BY <1>3
  <2> HIDE DEF more, e
  <2>3. NoSession.pc = "none"  BY DEF NoSession
  <2>4. \A i \in 1 .. Len(more) : more[i].kind # "change"  BY <2>2
  <2>5. Steady(log, NoSession, client[c], more)
    BY <1>2, <2>3, <2>4 DEF Steady, Sent, Settled, Heard
  <2> QED  BY <1>1, <2>1, <2>5, OneSteady DEF Set, Typed
<1>5. CASE ~(OutOfWindow(s.applied, Len(log)))
  <2> DEFINE t == [s EXCEPT !.pc = "enrol", !.until = Len(log)]
  <2>1. session' = Set(session, c, t) /\ UNCHANGED <<log, client, chan>>  BY <1>5
  <2>2. t.applied = s.applied /\ t.nextSeq = s.nextSeq /\ t.pc = "enrol"
          /\ t.caughtUp = s.caughtUp
    BY <1>1 DEF Typed, SessionFields
  <2> HIDE DEF t
  <2>3. Settled(t, chan[c])  BY <1>3, <2>2 DEF Settled
  <2> QED  BY <1>3, <2>1, <2>2, <2>3, TurnSteady
<1> QED  BY <1>4, <1>5

LEMMA ReadSteady == ASSUME IInv, AllSteady, NEW c \in Clients, ReadLog(c) PROVE AllSteady'
<1> DEFINE s == session[c]
           t == [s EXCEPT !.pc = IF s.caughtUp THEN "walk" ELSE "replay",
                   !.view = Len(log), !.rounds = rounds,
                   !.last = IF s.last = NoBody /\ s.applied > 0
                            THEN LiveFold(log, Min({s.applied, Len(log)}), rounds)
                            ELSE @]
<1>1. Typed(c)  BY IsTyped
<1>2. /\ session' = Set(session, c, t) /\ UNCHANGED <<log, client, chan>>
      /\ s.pc = "read"
  BY DEF ReadLog
<1>3. /\ t.applied = s.applied /\ t.nextSeq = s.nextSeq /\ t.caughtUp = s.caughtUp
      /\ t.view = Len(log) /\ t.until = s.until
      /\ t.pc = IF s.caughtUp THEN "walk" ELSE "replay"
  BY <1>1 DEF Typed, SessionFields
<1> HIDE DEF t
<1>4. t.view >= t.until  BY <1>1, <1>3 DEF Typed
<1>5. Settled(t, chan[c])
  BY <1>2, <1>3, <1>4 DEF AllSteady, Steady, Settled
<1> QED  BY <1>2, <1>3, <1>5, TurnSteady

LEMMA TurnsSteady ==
    ASSUME IInv, AllSteady, NEW c \in Clients, Enrol(c) \/ Park(c) \/ Wake(c) PROVE AllSteady'
<1> DEFINE s == session[c]
<1>1. DOMAIN s = SessionFields  BY IsTyped DEF Typed
<1>2. Settled(s, chan[c])  BY DEF AllSteady, Steady
<1>3. ASSUME NEW t, session' = Set(session, c, t), UNCHANGED <<log, client, chan>>,
             t.applied = s.applied, t.nextSeq = s.nextSeq, t.caughtUp = s.caughtUp,
             t.until = s.until, s.pc \notin {"none", "subscribe"},
             t.pc \in {"read", "enrol"} \/ (t.pc = "park" /\ s.pc = "walk")
      PROVE  AllSteady'
  <2>1. Settled(t, chan[c])  BY <1>2, <1>3 DEF Settled
  <2> QED  BY <1>3, <2>1, TurnSteady
<1>4. CASE Enrol(c)
  <2> DEFINE t == [s EXCEPT !.pc = "read", !.wake = "enrolled"]
  <2>1. /\ t.applied = s.applied /\ t.nextSeq = s.nextSeq /\ t.caughtUp = s.caughtUp
        /\ t.until = s.until /\ t.pc = "read"
    BY <1>1 DEF SessionFields
  <2>2. session' = Set(session, c, t) /\ UNCHANGED <<log, client, chan>> /\ s.pc = "enrol"
    BY <1>4 DEF Enrol
  <2> HIDE DEF t
  <2> QED  BY <1>3, <2>1, <2>2
<1>5. CASE Park(c)
  <2> DEFINE t == [s EXCEPT !.pc = "park", !.wake = IF @ = "idle" THEN "enrolled" ELSE @]
  <2>1. /\ t.applied = s.applied /\ t.nextSeq = s.nextSeq /\ t.caughtUp = s.caughtUp
        /\ t.until = s.until /\ t.pc = "park"
    BY <1>1 DEF SessionFields
  <2>2. session' = Set(session, c, t) /\ UNCHANGED <<log, client, chan>> /\ s.pc = "walk"
    BY <1>5 DEF Park
  <2> HIDE DEF t
  <2> QED  BY <1>3, <2>1, <2>2
<1>6. CASE Wake(c)
  <2> DEFINE t == [s EXCEPT !.pc = "enrol", !.wake = "idle"]
  <2>1. /\ t.applied = s.applied /\ t.nextSeq = s.nextSeq /\ t.caughtUp = s.caughtUp
        /\ t.until = s.until /\ t.pc = "enrol"
    BY <1>1 DEF SessionFields
  <2>2. session' = Set(session, c, t) /\ UNCHANGED <<log, client, chan>> /\ s.pc = "park"
    BY <1>6 DEF Wake
  <2> HIDE DEF t
  <2> QED  BY <1>3, <2>1, <2>2
<1> QED  BY <1>4, <1>5, <1>6

\* A session past its subscription folds through a later point.
LEMMA FoldSteady ==
    ASSUME IInv, AllSteady, NEW c \in Clients, UNCHANGED <<log, client>>,
           session[c].pc \notin {"none", "subscribe"}, NEW s, Alike(session[c], s),
           s.pc = "walk", s.caughtUp, NEW to \in Int,
           s.applied <= to, s.until <= to, to <= Len(log), FoldThrough(c, s, to)
    PROVE  AllSteady'
<1> DEFINE o == session[c]
           e == Envelope(c, s, to)
           t == IF Emitting(c, s, to)
                THEN [s EXCEPT !.applied = to, !.last = e.body, !.nextSeq = @ + 1]
                ELSE [s EXCEPT !.applied = to]
           more == IF Emitting(c, s, to) THEN Append(chan[c], e) ELSE chan[c]
<1>1. Typed(c) /\ Steady(log, o, client[c], chan[c])  BY IsTyped DEF AllSteady
<1>2. /\ s.applied = o.applied /\ s.until = o.until /\ s.nextSeq = o.nextSeq
      /\ DOMAIN s = SessionFields
  BY DEF Alike
<1>3. e.kind = "change" /\ e.sequence = s.nextSeq /\ e.cursor = to  BY DEF Envelope
<1>4. e \in Frames
  <2>1. s.nextSeq \in Nat  BY <1>2 DEF IInv, Sound, SessionSound
  <2> QED  BY <2>1, FoldIsBody DEF Envelope, Frames
<1>5. /\ t.pc = "walk" /\ t.caughtUp /\ t.applied = to /\ t.until = o.until
      /\ t.nextSeq = IF Emitting(c, s, to) THEN o.nextSeq + 1 ELSE o.nextSeq
  <2>1. CASE Emitting(c, s, to)  BY <2>1, <1>2 DEF SessionFields
  <2>2. CASE ~Emitting(c, s, to)  BY <2>2, <1>2 DEF SessionFields
  <2> QED  BY <2>1, <2>2
<1>6. session' = Set(session, c, t) /\ chan' \in {chan, Set(chan, c, more)}
      /\ chan'[c] = more
  BY <1>1 DEF FoldThrough, Set, Typed
<1>7. ~Emitting(c, s, to) => ~ \E i \in o.applied + 1 .. to : log[i] = "heat"
  BY <1>2 DEF Emitting
<1> HIDE DEF e, t
<1>8. \/ /\ more = Append(chan[c], e) /\ t.nextSeq = o.nextSeq + 1
         /\ e.kind = "change" /\ e.sequence = o.nextSeq /\ e.cursor = to
      \/ /\ more = chan[c] /\ t.nextSeq = o.nextSeq
         /\ ~ \E i \in o.applied + 1 .. to : log[i] = "heat"
  BY <1>2, <1>3, <1>5, <1>7
<1> HIDE DEF more
<1>9. /\ o.pc \notin {"none", "subscribe"}
      /\ chan[c] \in Seq(Frames) /\ o.applied \in Int /\ o.until \in Int
      /\ client[c].cursor \in Int /\ o.applied <= to /\ o.until <= to
  BY <1>1, <1>2 DEF Typed
<1>10. Steady(log, t, client[c], more)
  <2>1. FoldsTo(log, o, chan[c], to, t, e, more)
    BY <1>4, <1>5, <1>8, <1>9 DEF FoldsTo
  <2> QED  BY <1>1, <1>9, <2>1, SteadyFolds
<1>11. session'[c] = t /\ \A d \in Clients \ {c} : session'[d] = session[d]
  BY <1>1, <1>6 DEF Set, Typed
<1>12. \A d \in Clients \ {c} : chan'[d] = chan[d]
  BY <1>1, <1>6 DEF Set, IInv
<1> QED  BY <1>6, <1>10, <1>11, <1>12, OneSteady

\* The history is folded to the tail of the subscription, no point of it below.
LEMMA ReplaySteady == ASSUME IInv, AllSteady, NEW c \in Clients, Replay(c) PROVE AllSteady'
<1> DEFINE s == [session[c] EXCEPT !.pc = "walk", !.caughtUp = TRUE]
           spanEnd == Min({s.until, s.view})
<1>1. Typed(c) /\ Settled(session[c], chan[c])  BY IsTyped DEF AllSteady, Steady
<1>2. session[c].pc = "replay" /\ UNCHANGED <<log, client>>  BY DEF Replay
<1>3. Alike(session[c], s) /\ s.pc = "walk" /\ s.caughtUp
  BY <1>1 DEF Alike, Typed, SessionFields
<1>4. spanEnd = session[c].until
  <2> HIDE DEF s
  <2>1. s.until \in Int /\ s.view \in Int /\ s.until <= s.view /\ s.until = session[c].until
    BY <1>1, <1>2, <1>3 DEF Alike, Typed, Settled
  <2>2. Min({s.until, s.view}) = s.until  BY <2>1 DEF Min
  <2> QED  BY <2>1, <2>2
<1>5. s.applied < spanEnd => FoldThrough(c, s, spanEnd)  BY DEF Replay
<1>6. ~(s.applied < spanEnd) => session' = Set(session, c, s) /\ chan' = chan  BY DEF Replay
<1> HIDE DEF s, spanEnd
<1>7. /\ s.applied = session[c].applied /\ s.until = session[c].until
      /\ s.nextSeq = session[c].nextSeq
  BY <1>3 DEF Alike
<1>8. CASE s.applied < spanEnd
  <2>1. spanEnd \in Int /\ s.applied <= spanEnd /\ s.until <= spanEnd /\ spanEnd <= Len(log)
    BY <1>1, <1>4, <1>7, <1>8 DEF Typed
  <2> QED  BY <1>2, <1>3, <1>5, <1>8, <2>1, FoldSteady
<1>9. CASE ~(s.applied < spanEnd)
  <2>1. s.applied >= s.until  BY <1>1, <1>4, <1>7, <1>9 DEF Typed
  <2>2. Settled(s, chan[c])
    BY <1>1, <1>2, <1>3, <1>7, <2>1 DEF Settled
  <2> QED  BY <1>2, <1>6, <1>7, <1>9, <2>2, TurnSteady
<1> QED  BY <1>8, <1>9

LEMMA WalkSteady == ASSUME IInv, AllSteady, NEW c \in Clients, Walk(c) PROVE AllSteady'
<1> DEFINE s == session[c]
<1>1. Typed(c) /\ Settled(s, chan[c])  BY IsTyped DEF AllSteady, Steady
<1>2. s.pc = "walk" /\ s.applied < s.view /\ UNCHANGED <<log, client>>
      /\ FoldThrough(c, s, s.applied + 1)
  BY DEF Walk
<1>3. s.caughtUp /\ s.applied >= s.until  BY <1>1, <1>2 DEF Settled
<1>4. /\ s.applied + 1 \in Int /\ s.applied <= s.applied + 1
      /\ s.until <= s.applied + 1 /\ s.applied + 1 <= Len(log)
  BY <1>1, <1>2, <1>3 DEF Typed
<1>5. Alike(s, s)  BY <1>1 DEF Alike, Typed
<1> QED  BY <1>2, <1>3, <1>4, <1>5, FoldSteady

------------------------------------------------------------------------------
(* The client's steps, and the failures.                                   *)

LEMMA FetchSteady == ASSUME IInv, AllSteady, NEW c \in Clients, FetchSnapshot(c) PROVE AllSteady'
<1> DEFINE v == [status |-> "subscribing", body |-> LiveFold(log, Len(log), rounds),
                 cursor |-> Len(log), streamSeq |-> 0]
<1>1. client[c].status # "live" /\ client' = [client EXCEPT ![c] = v]
      /\ UNCHANGED <<log, session, chan>>
  BY DEF FetchSnapshot, Set
<1>2. v.streamSeq = 0  OBVIOUS
<1> HIDE DEF v
<1> QED  BY <1>1, <1>2, WaitSteady

LEMMA RetrySteady ==
    ASSUME IInv, AllSteady, NEW c \in Clients, SnapshotFails(c) \/ Reconnect(c)
    PROVE  AllSteady'
<1>1. DOMAIN client = Clients /\ DOMAIN client[c] = ClientFields
  BY DEF IInv, Sound, ClientSound
<1>2. UNCHANGED <<log, session, chan>> /\ client[c].status # "live"
  BY DEF SnapshotFails, Reconnect
<1>3. CASE SnapshotFails(c)
  <2>1. PICK next \in {"reconnecting", "stranded"} : client' = [client EXCEPT ![c].status = next]
    BY <1>3 DEF SnapshotFails
  <2> DEFINE v == [client[c] EXCEPT !.status = next]
  <2>2. v.status # "subscribing" /\ v.streamSeq = client[c].streamSeq
    BY <1>1 DEF ClientFields
  <2>3. client' = [client EXCEPT ![c] = v]  BY <2>1
  <2> HIDE DEF v
  <2> QED  BY <1>2, <2>2, <2>3, WaitSteady
<1>4. CASE Reconnect(c) /\ client[c].cursor = NoCursor
  <2> DEFINE v == [client[c] EXCEPT !.status = "snapshotting"]
  <2>1. v.status # "subscribing" /\ v.streamSeq = client[c].streamSeq
    BY <1>1 DEF ClientFields
  <2>2. client' = [client EXCEPT ![c] = v]  BY <1>4 DEF Reconnect
  <2> HIDE DEF v
  <2> QED  BY <1>2, <2>1, <2>2, WaitSteady
<1>5. CASE Reconnect(c) /\ client[c].cursor # NoCursor
  <2> DEFINE v == [client[c] EXCEPT !.status = "subscribing", !.streamSeq = 0]
  <2>1. v.streamSeq = 0  BY <1>1 DEF ClientFields
  <2>2. client' = [client EXCEPT ![c] = v]  BY <1>1, <1>5 DEF Reconnect
  <2> HIDE DEF v
  <2> QED  BY <1>2, <2>1, <2>2, WaitSteady
<1> QED  BY <1>3, <1>4, <1>5

LEMMA OpenSteady == ASSUME IInv, AllSteady, NEW c \in Clients, SocketOpens(c) PROVE AllSteady'
<1> DEFINE s == Subscribed(client[c].cursor)
           v == [client[c] EXCEPT !.status = "live"]
<1>1. Typed(c) /\ Sent(session[c], client[c], chan[c])  BY IsTyped DEF AllSteady, Steady
<1>2. client[c].status = "subscribing" /\ log' = log /\ chan' = chan
      /\ session' = Set(session, c, s) /\ client' = [client EXCEPT ![c] = v]
  BY <1>1 DEF SocketOpens, Typed
<1>3. chan[c] = << >> /\ client[c].streamSeq = 0  BY <1>1, <1>2 DEF Typed, Sent
<1>4. v.status = "live" /\ v.cursor = client[c].cursor /\ v.streamSeq = 0
  BY <1>1, <1>3 DEF Typed, ClientFields
<1>5. s.pc = "subscribe" /\ ~s.caughtUp /\ s.applied = v.cursor /\ s.nextSeq = 1
  BY <1>4 DEF Subscribed, NoSession
<1> HIDE DEF s, v
<1>6. v.cursor \in Int  BY <1>1, <1>4 DEF Typed
<1>7. Steady(log, s, v, << >>)
  BY <1>4, <1>5, <1>6 DEF Steady, Sent, Settled, Heard
<1>8. /\ session'[c] = s /\ client'[c] = v
      /\ \A d \in Clients \ {c} : session'[d] = session[d] /\ client'[d] = client[d]
  BY <1>1, <1>2 DEF Set, Typed
<1> QED  BY <1>2, <1>3, <1>7, <1>8, OneSteady

\* No frame is dropped as seen: it is applied, or ends the stream.
LEMMA DeliverSteady == ASSUME IInv, AllSteady, NEW c \in Clients, Deliver(c) PROVE AllSteady'
<1> DEFINE m == Head(chan[c])
<1>1. Typed(c) /\ Steady(log, session[c], client[c], chan[c])
  BY IsTyped DEF AllSteady
<1>2. client[c].status = "live" /\ chan[c] # << >> /\ log' = log  BY DEF Deliver
<1>3. m.kind = "resnapshot" \/ (/\ m.kind = "change"
                                /\ m.sequence = client[c].streamSeq + 1
                                /\ Verdict(client[c], m) = "applied")
  BY <1>1, <1>2, HeadApplies DEF Steady, Typed
<1>4. CASE m.kind = "resnapshot"
  <2> DEFINE v == [client[c] EXCEPT !.status = "snapshotting"]
  <2>1. Teardown(c) /\ client' = [client EXCEPT ![c] = v]
    BY <1>4 DEF Deliver, Verdict
  <2>2. v.streamSeq = client[c].streamSeq /\ v.status # "subscribing"
    BY <1>1 DEF Typed, ClientFields
  <2> HIDE DEF v
  <2> QED  BY <1>2, <2>1, <2>2, TornSteady
<1>5. CASE m.kind = "change" /\ Verdict(client[c], m) = "applied"
  <2> DEFINE v == Applied(client[c], m)
  <2>1. /\ client' = Set(client, c, v) /\ chan' = Set(chan, c, Tail(chan[c]))
        /\ session' = session
    BY <1>5 DEF Deliver
  <2>2. v.status = "live" /\ v.cursor = m.cursor /\ v.streamSeq = m.sequence
    BY <1>1, <1>2 DEF Typed, ClientFields, Applied
  <2> HIDE DEF v
  <2>3. session[c].pc # "subscribe"  BY <1>1, <1>2 DEF Steady, Settled
  <2>4. client[c].cursor <= m.cursor
    <3>1. 1 \in 1 .. Len(chan[c]) /\ m = chan[c][1]  BY <1>1, <1>2 DEF Typed
    <3> QED  BY <1>5, <3>1 DEF IInv, Sound, FramesSound
  <2>5. Steady(log, session[c], v, Tail(chan[c]))
    BY <1>1, <1>2, <1>5, <2>2, <2>3, <2>4, SteadyTaken DEF Typed
  <2>6. /\ client'[c] = v /\ chan'[c] = Tail(chan[c])
        /\ \A d \in Clients \ {c} : client'[d] = client[d] /\ chan'[d] = chan[d]
    BY <1>1, <2>1 DEF Set, Typed
  <2> QED  BY <1>2, <2>1, <2>5, <2>6, OneSteady
<1> QED  BY <1>3, <1>4, <1>5

LEMMA CloseSteady == ASSUME IInv, AllSteady, NEW c \in Clients, SocketCloses(c) PROVE AllSteady'
<1> DEFINE v == [client[c] EXCEPT !.status = "reconnecting"]
<1>1. Teardown(c) /\ client' = [client EXCEPT ![c] = v] /\ log' = log
  BY DEF SocketCloses
<1>2. v.streamSeq = client[c].streamSeq /\ v.status # "subscribing"
  BY IsTyped DEF Typed, ClientFields
<1> HIDE DEF v
<1> QED  BY <1>1, <1>2, TornSteady

LEMMA DropSteady == ASSUME IInv, AllSteady, NEW c \in Clients, DropLink(c) PROVE AllSteady'
<1>1. Typed(c) /\ Steady(log, session[c], client[c], chan[c])
  BY IsTyped DEF AllSteady
<1>2. PICK kept \in 0 .. Len(chan[c]) : chan' = Set(chan, c, SubSeq(chan[c], 1, kept))
  BY DEF DropLink
<1>3. session' = Set(session, c, NoSession) /\ UNCHANGED <<log, client>>
  BY DEF DropLink
<1>4. Steady(log, NoSession, client[c], SubSeq(chan[c], 1, kept))
  BY <1>1, SteadyEnds DEF Typed
<1>5. /\ session'[c] = NoSession /\ chan'[c] = SubSeq(chan[c], 1, kept)
      /\ \A d \in Clients \ {c} : session'[d] = session[d] /\ chan'[d] = chan[d]
  BY <1>1, <1>2, <1>3 DEF Set, Typed
<1> QED  BY <1>3, <1>4, <1>5, OneSteady

LEMMA RestartSteady == ASSUME IInv, AllSteady, Restart PROVE AllSteady'
<1> SUFFICES ASSUME NEW c \in Clients
             PROVE  Steady(log, NoSession, client[c], chan[c])
  BY DEF AllSteady, Restart
<1>1. Steady(log, session[c], client[c], chan[c])  BY DEF AllSteady
<1>2. chan[c] \in Seq(Frames)  BY IsTyped DEF Typed
<1>3. Len(chan[c]) \in 0 .. Len(chan[c]) /\ SubSeq(chan[c], 1, Len(chan[c])) = chan[c]
  BY <1>2
<1>4. Steady(log, NoSession, client[c], SubSeq(chan[c], 1, Len(chan[c])))
  BY <1>1, <1>2, <1>3, SteadyEnds
<1> QED  BY <1>3, <1>4

LEMMA StepSteady == ASSUME IInv, AllSteady, [Next]_vars PROVE AllSteady'
<1>1. ASSUME NEW kind \in Kinds, AppendEntry(kind) PROVE AllSteady'  BY <1>1, AppendSteady
<1>2. ASSUME NEW c \in Clients, SessionStep(c) PROVE AllSteady'
  BY <1>2, SubscribeSteady, TurnsSteady, ReadSteady, ReplaySteady, WalkSteady DEF SessionStep
<1>3. ASSUME NEW c \in Clients, ClientStep(c) PROVE AllSteady'
  BY <1>3, FetchSteady, OpenSteady, DeliverSteady, CloseSteady, RetrySteady DEF ClientStep
<1>4. ASSUME NEW c \in Clients, SnapshotFails(c) \/ DropLink(c) PROVE AllSteady'
  BY <1>4, RetrySteady, DropSteady
<1>5. CASE RemoveRound  BY <1>5 DEF RemoveRound, AllSteady
<1>6. CASE UNCHANGED vars  BY <1>6 DEF vars, AllSteady
<1> QED
  BY <1>1, <1>2, <1>3, <1>4, <1>5, <1>6, NotifySteady, RestartSteady DEF Next

LEMMA Steadiness == Spec => []AllSteady
<1>1. IInv /\ AllSteady /\ [Next]_vars => AllSteady'  BY StepSteady
<1> QED  BY <1>1, InitSteady, Invariance, PTL DEF Spec

\* No frame is dropped as seen or taken for the end of a gap (applyEnvelope),
\* for any number of lost links, restarts and resumes: a socket's frames are
\* numbered on from the last one the client took off it.
THEOREM FramesAreContiguous == Spec => []NoGap
<1>1. IInv /\ AllSteady => NoGap
  <2> SUFFICES ASSUME IInv, AllSteady, NEW c \in Clients, chan[c] # << >>
               PROVE  Head(chan[c]).kind = "resnapshot"
                        \/ Verdict(client[c], Head(chan[c])) = "applied"
    BY DEF NoGap
  <2>1. chan[c] \in Seq(Frames)  BY IsTyped DEF Typed
  <2>2. Sent(session[c], client[c], chan[c])  BY DEF AllSteady, Steady
  <2> QED  BY <2>1, <2>2, HeadApplies
<1> QED  BY <1>1, Invariance, Steadiness, PTL

\* A resume is one settled body, however far the log ran on behind it.
THEOREM ResumesSettle == Spec => []NoStaircase
<1>1. IInv /\ AllSteady => NoStaircase
  <2> SUFFICES ASSUME IInv, AllSteady, NEW c \in Clients,
                      session[c].pc \notin {"none", "subscribe"},
                      NEW i \in DOMAIN chan[c], chan[c][i].kind = "change"
               PROVE  chan[c][i].cursor >= session[c].until
    BY DEF NoStaircase
  <2>1. i \in 1 .. Len(chan[c])  BY IsTyped DEF Typed
  <2> QED  BY <2>1 DEF AllSteady, Steady, Settled
<1> QED  BY <1>1, Invariance, Steadiness, PTL

\* No heat's scheduling passes a live client by, whether it changes the body or
\* not.
THEOREM SchedulesAreHeard == Spec => []SchedulesHeard
<1>1. AllSteady => SchedulesHeard
  <2> SUFFICES ASSUME AllSteady, NEW c \in Clients, chan[c] = << >>,
                      session[c].pc = "park", NEW i \in 1 .. session[c].applied,
                      log[i] = "heat"
               PROVE  i <= client[c].cursor
    BY DEF SchedulesHeard
  <2> QED  BY DEF AllSteady, Steady, Heard
<1> QED  BY <1>1, Steadiness, PTL

------------------------------------------------------------------------------
(* Who is turned away.  A session judges the cursor its client holds, and a *)
(* client told to take another snapshot has been outrun by the log.         *)

Refused(l, s, cl, ch) ==
    /\ s.pc = "subscribe" => s.applied = cl.cursor
    /\ \A i \in 1 .. Len(ch) : ch[i].kind = "resnapshot" =>
         i = 1 /\ s.pc = "none" /\ cl.cursor + RetainedWindow < Len(l)

AllRefused == \A c \in Clients : Refused(log, session[c], client[c], chan[c])

\* One client's step.
LEMMA OneRefused ==
    ASSUME AllRefused, log' = log, NEW c \in Clients,
           \A d \in Clients \ {c} :
              session'[d] = session[d] /\ client'[d] = client[d] /\ chan'[d] = chan[d],
           Refused(log, session'[c], client'[c], chan'[c])
    PROVE  AllRefused'
<1>1. \A d \in Clients \ {c} : Refused(log, session'[d], client'[d], chan'[d])
  BY DEF AllRefused
<1> QED  BY <1>1 DEF AllRefused

\* A session that serves turns nobody away.
LEMMA ServesRefused ==
    ASSUME IInv, AllRefused, NEW c \in Clients, UNCHANGED <<log, client>>,
           session[c].pc # "none", NEW t, t.pc # "subscribe", session' = Set(session, c, t),
           \/ chan' = chan
           \/ \E e : e.kind = "change" /\ chan' = Set(chan, c, Append(chan[c], e))
    PROVE  AllRefused'
<1>1. Typed(c)  BY IsTyped
<1>2. \A i \in 1 .. Len(chan[c]) : chan[c][i].kind # "resnapshot"  BY DEF AllRefused, Refused
<1>3. /\ session'[c] = t /\ \A d \in Clients \ {c} : session'[d] = session[d]
      /\ \A d \in Clients \ {c} : chan'[d] = chan[d]
  BY <1>1 DEF Set, Typed, IInv
<1>4. \A i \in 1 .. Len(chan'[c]) : chan'[c][i].kind # "resnapshot"
  <2>1. CASE chan' = chan  BY <2>1, <1>2
  <2>2. CASE \E e : e.kind = "change" /\ chan' = Set(chan, c, Append(chan[c], e))
    <3>1. PICK e : e.kind = "change" /\ chan' = Set(chan, c, Append(chan[c], e))  BY <2>2
    <3>2. chan'[c] = Append(chan[c], e)  BY <1>1, <3>1 DEF Set, Typed
    <3>3. Len(chan[c]) \in Nat /\ Len(chan'[c]) = Len(chan[c]) + 1
          /\ chan'[c][Len(chan[c]) + 1] = e
          /\ \A i \in 1 .. Len(chan[c]) : chan'[c][i] = chan[c][i]
      BY <1>1, <3>2 DEF Typed
    <3> QED  BY <1>2, <3>1, <3>3
  <2> QED  BY <2>1, <2>2
<1>5. Refused(log, t, client[c], chan'[c])  BY <1>4 DEF Refused
<1> QED  BY <1>3, <1>5, OneRefused

\* A client off the socket, whatever it waits for.
LEMMA IdleRefused ==
    ASSUME IInv, AllRefused, NEW c \in Clients, log' = log, NEW v,
           client' = [client EXCEPT ![c] = v],
           \/ client[c].status # "live" /\ UNCHANGED <<session, chan>>
           \/ Teardown(c)
    PROVE  AllRefused'
<1>1. Typed(c)  BY IsTyped
<1>2. NoSession.pc = "none"  BY DEF NoSession
<1>3. client'[c] = v /\ \A d \in Clients \ {c} : client'[d] = client[d]
  BY <1>1 DEF Typed
<1>4. /\ session'[c].pc = "none" /\ chan'[c] = << >>
      /\ \A d \in Clients \ {c} : session'[d] = session[d] /\ chan'[d] = chan[d]
  <2>1. CASE client[c].status # "live" /\ UNCHANGED <<session, chan>>
    BY <1>1, <2>1 DEF Typed
  <2>2. CASE Teardown(c)
    <3>1. session' = [session EXCEPT ![c] = NoSession] /\ chan' = [chan EXCEPT ![c] = << >>]
      BY <2>2 DEF Teardown, Set
    <3>2. session'[c] = NoSession /\ chan'[c] = << >>  BY <1>1, <3>1 DEF Typed
    <3> QED  BY <1>2, <3>1, <3>2
  <2> QED  BY <2>1, <2>2
<1>5. Refused(log, session'[c], client'[c], chan'[c])
  <2>1. ~(session'[c].pc = "subscribe") /\ 1 .. Len(chan'[c]) = {}  BY <1>4
  <2> QED  BY <2>1 DEF Refused
<1> QED  BY <1>3, <1>4, <1>5, OneRefused

\* A session judges the cursor, or reads, folds, waits.
LEMMA SessionRefused == ASSUME IInv, AllSteady, AllRefused, NEW c \in Clients, SessionStep(c) PROVE AllRefused'
<1> DEFINE s == session[c]
<1>1. Typed(c) /\ Refused(log, s, client[c], chan[c])  BY IsTyped DEF AllRefused
<1>2. DOMAIN s = SessionFields  BY <1>1 DEF Typed
<1>3. ASSUME NEW o, o.pc = "walk", DOMAIN o = SessionFields, NEW to, FoldThrough(c, o, to),
             s.pc # "none", UNCHANGED <<log, client>>
      PROVE  AllRefused'
  <2>1. CASE Emitting(c, o, to)
    <3> DEFINE e == Envelope(c, o, to)
               t == [o EXCEPT !.applied = to, !.last = e.body, !.nextSeq = @ + 1]
    <3>1. session' = Set(session, c, t) /\ chan' = Set(chan, c, Append(chan[c], e))
      BY <2>1, <1>3 DEF FoldThrough
    <3>2. t.pc = "walk" /\ e.kind = "change"  BY <1>3 DEF SessionFields, Envelope
    <3> HIDE DEF t, e
    <3> QED  BY <1>3, <3>1, <3>2, ServesRefused
  <2>2. CASE ~Emitting(c, o, to)
    <3> DEFINE t == [o EXCEPT !.applied = to]
    <3>1. session' = Set(session, c, t) /\ chan' = chan  BY <2>2, <1>3 DEF FoldThrough
    <3>2. t.pc = "walk"  BY <1>3 DEF SessionFields
    <3> HIDE DEF t
    <3> QED  BY <1>3, <3>1, <3>2, ServesRefused
  <2> QED  BY <2>1, <2>2
<1>4. ASSUME NEW t, session' = Set(session, c, t), UNCHANGED <<log, client, chan>>,
             s.pc # "none", t.pc # "subscribe"
      PROVE  AllRefused'
  BY <1>4, ServesRefused
<1>5. CASE Subscribe(c) /\ OutOfWindow(s.applied, Len(log))
  <2> DEFINE e == [kind |-> "resnapshot"]
             more == Append(chan[c], e)
  <2>1. /\ session' = Set(session, c, NoSession) /\ chan' = Set(chan, c, more)
        /\ UNCHANGED <<log, client>> /\ s.pc = "subscribe"
    BY <1>5 DEF Subscribe
  <2>2. s.applied = client[c].cursor  BY <1>1, <2>1 DEF Refused
  <2>3. chan[c] = << >>  BY <2>1 DEF AllSteady, Steady, Settled
  <2>4. client[c].cursor + RetainedWindow < Len(log)
    <3>1. RetainedWindow \in Int  BY WindowAssumption
    <3> QED  BY <1>1, <1>5, <2>2, <3>1 DEF OutOfWindow, Typed
  <2>5. Len(more) = 1  BY <2>3
  <2>6. NoSession.pc = "none"  BY DEF NoSession
  <2> HIDE DEF more
  <2>7. Refused(log, NoSession, client[c], more)  BY <2>4, <2>5, <2>6 DEF Refused
  <2> QED  BY <1>1, <2>1, <2>7, OneRefused DEF Set, Typed
<1>6. CASE Subscribe(c) /\ ~OutOfWindow(s.applied, Len(log))
  <2> DEFINE t == [s EXCEPT !.pc = "enrol", !.until = Len(log)]
  <2>1. session' = Set(session, c, t) /\ UNCHANGED <<log, client, chan>> /\ s.pc = "subscribe"
    BY <1>6 DEF Subscribe
  <2>2. t.pc = "enrol"  BY <1>2 DEF SessionFields
  <2> HIDE DEF t
  <2> QED  BY <1>4, <2>1, <2>2
<1>7. CASE Enrol(c)
  <2> DEFINE t == [s EXCEPT !.pc = "read", !.wake = "enrolled"]
  <2>1. session' = Set(session, c, t) /\ UNCHANGED <<log, client, chan>> /\ s.pc = "enrol"
    BY <1>7 DEF Enrol
  <2>2. t.pc = "read"  BY <1>2 DEF SessionFields
  <2> HIDE DEF t
  <2> QED  BY <1>4, <2>1, <2>2
<1>8. CASE ReadLog(c)
  <2> DEFINE t == [s EXCEPT !.pc = IF s.caughtUp THEN "walk" ELSE "replay",
                     !.view = Len(log), !.rounds = rounds,
                     !.last = IF s.last = NoBody /\ s.applied > 0
                              THEN LiveFold(log, Min({s.applied, Len(log)}), rounds)
                              ELSE @]
  <2>1. session' = Set(session, c, t) /\ UNCHANGED <<log, client, chan>> /\ s.pc = "read"
    BY <1>8 DEF ReadLog
  <2>2. t.pc = IF s.caughtUp THEN "walk" ELSE "replay"  BY <1>2 DEF SessionFields
  <2> HIDE DEF t
  <2> QED  BY <1>4, <2>1, <2>2
<1>9. CASE Park(c)
  <2> DEFINE t == [s EXCEPT !.pc = "park", !.wake = IF @ = "idle" THEN "enrolled" ELSE @]
  <2>1. session' = Set(session, c, t) /\ UNCHANGED <<log, client, chan>> /\ s.pc = "walk"
    BY <1>9 DEF Park
  <2>2. t.pc = "park"  BY <1>2 DEF SessionFields
  <2> HIDE DEF t
  <2> QED  BY <1>4, <2>1, <2>2
<1>10. CASE Wake(c)
  <2> DEFINE t == [s EXCEPT !.pc = "enrol", !.wake = "idle"]
  <2>1. session' = Set(session, c, t) /\ UNCHANGED <<log, client, chan>> /\ s.pc = "park"
    BY <1>10 DEF Wake
  <2>2. t.pc = "enrol"  BY <1>2 DEF SessionFields
  <2> HIDE DEF t
  <2> QED  BY <1>4, <2>1, <2>2
<1>11. CASE Replay(c)
  <2> DEFINE o == [s EXCEPT !.pc = "walk", !.caughtUp = TRUE]
             spanEnd == Min({o.until, o.view})
  <2>1. s.pc = "replay" /\ UNCHANGED <<log, client>>
        /\ (FoldThrough(c, o, spanEnd) \/ (session' = Set(session, c, o) /\ chan' = chan))
    BY <1>11 DEF Replay
  <2>2. o.pc = "walk" /\ DOMAIN o = SessionFields  BY <1>2 DEF SessionFields
  <2> HIDE DEF o, spanEnd
  <2> QED  BY <1>3, <1>4, <2>1, <2>2
<1>12. CASE Walk(c)
  <2>1. s.pc = "walk" /\ UNCHANGED <<log, client>> /\ FoldThrough(c, s, s.applied + 1)
    BY <1>12 DEF Walk
  <2> QED  BY <1>2, <1>3, <2>1
<1> QED
  BY <1>5, <1>6, <1>7, <1>8, <1>9, <1>10, <1>11, <1>12 DEF SessionStep

\* A client opens its socket with the cursor it holds, takes a frame, or waits.
LEMMA ClientRefused ==
    ASSUME IInv, AllSteady, AllRefused, NEW c \in Clients, ClientStep(c)
    PROVE  AllRefused'
<1>1. Typed(c) /\ Refused(log, session[c], client[c], chan[c])  BY IsTyped DEF AllRefused
<1>2. CASE FetchSnapshot(c)
  <2> DEFINE v == [status |-> "subscribing", body |-> LiveFold(log, Len(log), rounds),
                   cursor |-> Len(log), streamSeq |-> 0]
  <2>1. client[c].status # "live" /\ client' = [client EXCEPT ![c] = v]
        /\ UNCHANGED <<log, session, chan>>
    BY <1>2 DEF FetchSnapshot, Set
  <2> HIDE DEF v
  <2> QED  BY <2>1, IdleRefused
<1>3. CASE SocketCloses(c)
  <2> DEFINE v == [client[c] EXCEPT !.status = "reconnecting"]
  <2>1. Teardown(c) /\ client' = [client EXCEPT ![c] = v] /\ log' = log
    BY <1>3 DEF SocketCloses
  <2> HIDE DEF v
  <2> QED  BY <2>1, IdleRefused
<1>4. CASE Reconnect(c)
  <2>1. client[c].status # "live" /\ UNCHANGED <<log, session, chan>>  BY <1>4 DEF Reconnect
  <2> DEFINE first == [client[c] EXCEPT !.status = "snapshotting"]
             again == [client[c] EXCEPT !.status = "subscribing", !.streamSeq = 0]
  <2>2. client' = [client EXCEPT ![c] = first] \/ client' = [client EXCEPT ![c] = again]
    BY <1>1, <1>4 DEF Reconnect, Typed
  <2> HIDE DEF first, again
  <2> QED  BY <2>1, <2>2, IdleRefused
<1>5. CASE Deliver(c)
  <2> DEFINE m == Head(chan[c])
  <2>1. log' = log /\ chan[c] # << >> /\ chan[c] \in Seq(Frames)
    BY <1>1, <1>5 DEF Deliver, Typed
  <2>2. CASE m.kind = "resnapshot"
    <3> DEFINE v == [client[c] EXCEPT !.status = "snapshotting"]
    <3>1. Teardown(c) /\ client' = [client EXCEPT ![c] = v]
      BY <1>5, <2>2 DEF Deliver, Verdict
    <3> HIDE DEF v
    <3> QED  BY <2>1, <3>1, IdleRefused
  <2>3. CASE m.kind # "resnapshot"
    <3> DEFINE v == Applied(client[c], m)
               rest == Tail(chan[c])
    <3>0. Sent(session[c], client[c], chan[c])  BY DEF AllSteady, Steady
    <3>1. Verdict(client[c], m) = "applied"  BY <2>1, <2>3, <3>0, HeadApplies
    <3>2. client' = Set(client, c, v) /\ chan' = Set(chan, c, rest) /\ session' = session
      BY <1>5, <3>1 DEF Deliver
    <3>3. \A i \in 1 .. Len(rest) : i + 1 \in 1 .. Len(chan[c]) /\ rest[i] = chan[c][i + 1]
      BY <2>1
    <3>4. \A i \in 1 .. Len(rest) : rest[i].kind # "resnapshot"
      <4> SUFFICES ASSUME NEW i \in 1 .. Len(rest), rest[i].kind = "resnapshot" PROVE FALSE
        OBVIOUS
      <4>1. i + 1 = 1  BY <1>1, <3>3 DEF Refused
      <4> QED  BY <4>1
    <3>5. session[c].pc # "subscribe"  BY <2>1 DEF AllSteady, Steady, Settled
    <3>6. Refused(log, session[c], v, rest)  BY <3>4, <3>5 DEF Refused
    <3> HIDE DEF v, rest
    <3>7. /\ client'[c] = v /\ chan'[c] = rest
          /\ \A d \in Clients \ {c} : client'[d] = client[d] /\ chan'[d] = chan[d]
      BY <1>1, <3>2 DEF Set, Typed
    <3> QED  BY <2>1, <3>2, <3>6, <3>7, OneRefused
  <2> QED  BY <2>2, <2>3
<1>6. CASE SocketOpens(c)
  <2> DEFINE s == Subscribed(client[c].cursor)
             v == [client[c] EXCEPT !.status = "live"]
  <2>1. client[c].status = "subscribing" /\ log' = log /\ chan' = chan
        /\ session' = Set(session, c, s) /\ client' = [client EXCEPT ![c] = v]
    BY <1>1, <1>6 DEF SocketOpens, Typed
  <2>2. chan[c] = << >>  BY <1>1, <2>1 DEF Typed
  <2>3. v.cursor = client[c].cursor  BY <1>1 DEF Typed, ClientFields
  <2>4. s.applied = v.cursor  BY <2>3 DEF Subscribed, NoSession
  <2> HIDE DEF s, v
  <2>5. Refused(log, s, v, << >>)  BY <2>4 DEF Refused
  <2>6. /\ session'[c] = s /\ client'[c] = v
        /\ \A d \in Clients \ {c} : session'[d] = session[d] /\ client'[d] = client[d]
    BY <1>1, <2>1 DEF Set, Typed
  <2> QED  BY <2>1, <2>2, <2>5, <2>6, OneRefused
<1> QED  BY <1>2, <1>3, <1>4, <1>5, <1>6 DEF ClientStep

\* A session that is gone turns nobody away that it had not.
LEMMA GoneRefused ==
    ASSUME NEW l, NEW s, NEW cl, NEW ch \in Seq(Frames), NEW n \in 0 .. Len(ch),
           Refused(l, s, cl, ch)
    PROVE  Refused(l, NoSession, cl, SubSeq(ch, 1, n))
<1> DEFINE kept == SubSeq(ch, 1, n)
<1>1. Len(kept) = n /\ \A i \in 1 .. n : i \in 1 .. Len(ch) /\ kept[i] = ch[i]  OBVIOUS
<1>2. NoSession.pc = "none"  BY DEF NoSession
<1> HIDE DEF kept
<1>3. Refused(l, NoSession, cl, kept)  BY <1>1, <1>2 DEF Refused
<1> QED  BY <1>3 DEF kept

\* Failures, and what the log and the registry do.
LEMMA FailRefused ==
    ASSUME IInv, AllRefused, NEW c \in Clients, SnapshotFails(c) \/ DropLink(c)
    PROVE  AllRefused'
<1>1. Typed(c) /\ Refused(log, session[c], client[c], chan[c])  BY IsTyped DEF AllRefused
<1>2. CASE SnapshotFails(c)
  <2>1. PICK next \in {"reconnecting", "stranded"} : client' = [client EXCEPT ![c].status = next]
    BY <1>2 DEF SnapshotFails
  <2> DEFINE v == [client[c] EXCEPT !.status = next]
  <2>2. client' = [client EXCEPT ![c] = v]  BY <2>1
  <2>3. client[c].status # "live" /\ UNCHANGED <<log, session, chan>>
    BY <1>2 DEF SnapshotFails
  <2> HIDE DEF v
  <2> QED  BY <2>2, <2>3, IdleRefused
<1>3. CASE DropLink(c)
  <2>1. PICK kept \in 0 .. Len(chan[c]) : chan' = Set(chan, c, SubSeq(chan[c], 1, kept))
    BY <1>3 DEF DropLink
  <2>2. session' = Set(session, c, NoSession) /\ UNCHANGED <<log, client>>
    BY <1>3 DEF DropLink
  <2>3. Refused(log, NoSession, client[c], SubSeq(chan[c], 1, kept))
    BY <1>1, GoneRefused DEF Typed
  <2>4. /\ session'[c] = NoSession /\ chan'[c] = SubSeq(chan[c], 1, kept)
        /\ \A d \in Clients \ {c} : session'[d] = session[d] /\ chan'[d] = chan[d]
    BY <1>1, <2>1, <2>2 DEF Set, Typed
  <2> QED  BY <2>2, <2>3, <2>4, OneRefused
<1> QED  BY <1>2, <1>3

LEMMA OthersRefused ==
    ASSUME IInv, AllRefused,
           \/ \E kind \in Kinds : AppendEntry(kind)
           \/ Notify \/ RemoveRound \/ Restart \/ UNCHANGED vars
    PROVE  AllRefused'
<1> SUFFICES ASSUME NEW c \in Clients
             PROVE  Refused(log', session'[c], client'[c], chan'[c])
  BY DEF AllRefused
<1>1. Typed(c) /\ Refused(log, session[c], client[c], chan[c])  BY IsTyped DEF AllRefused
<1>2. CASE \E kind \in Kinds : AppendEntry(kind)
  <2>1. PICK kind \in Kinds : log' = Append(log, kind) /\ UNCHANGED <<session, client, chan>>
    BY <1>2 DEF AppendEntry
  <2>2. kind \in Entries  BY KindsAssumption
  <2>3. Len(log') = Len(log) + 1 /\ Len(log) \in Nat  BY <1>1, <2>1, <2>2 DEF Typed
  <2>4. \A x \in Int : x < Len(log) => x < Len(log')  BY <2>3
  <2>5. client[c].cursor + RetainedWindow \in Int  BY <1>1, WindowAssumption DEF Typed
  <2> QED  BY <1>1, <2>1, <2>4, <2>5 DEF Refused
<1>3. CASE Notify
  <2> DEFINE t == [session[c] EXCEPT !.wake = "woken"]
  <2>1. session'[c] = t \/ session'[c] = session[c]  BY <1>3 DEF Notify
  <2>2. t.pc = session[c].pc /\ t.applied = session[c].applied
    BY <1>1 DEF Typed, SessionFields
  <2> HIDE DEF t
  <2>3. Refused(log, session'[c], client[c], chan[c])  BY <1>1, <2>1, <2>2 DEF Refused
  <2> QED  BY <1>3, <2>3 DEF Notify
<1>4. CASE RemoveRound \/ UNCHANGED vars  BY <1>1, <1>4 DEF RemoveRound, vars
<1>5. CASE Restart
  <2>1. chan[c] \in Seq(Frames) /\ Len(chan[c]) \in 0 .. Len(chan[c])
        /\ SubSeq(chan[c], 1, Len(chan[c])) = chan[c]
    BY <1>1 DEF Typed
  <2>2. Refused(log, NoSession, client[c], SubSeq(chan[c], 1, Len(chan[c])))
    BY <1>1, <2>1, GoneRefused
  <2> QED  BY <1>5, <2>1, <2>2 DEF Restart
<1> QED  BY <1>2, <1>3, <1>4, <1>5

LEMMA StepRefused == ASSUME IInv, AllSteady, AllRefused, [Next]_vars PROVE AllRefused'
BY SessionRefused, ClientRefused, FailRefused, OthersRefused DEF Next

LEMMA Refusals == Spec => []AllRefused
<1>1. Init => AllRefused
  <2>1. NoSession.pc = "none"  BY DEF NoSession
  <2> QED  BY <2>1 DEF Init, AllRefused, Refused
<1>2. IInv /\ AllSteady /\ AllRefused /\ [Next]_vars => AllRefused'  BY StepRefused
<1> QED  BY <1>1, <1>2, Invariance, Steadiness, PTL DEF Spec

\* A client that goes back for a snapshot was told to.
LEMMA OnlyRefused ==
    ASSUME IInv, AllSteady, AllRefused, [Next]_vars, NEW c \in Clients,
           client[c].cursor # NoCursor, client[c].status # "snapshotting",
           client'[c].status = "snapshotting"
    PROVE  client[c].cursor + RetainedWindow < Len(log)
<1>1. Typed(c) /\ Refused(log, session[c], client[c], chan[c])  BY IsTyped DEF AllRefused
<1>2. client' # client  OBVIOUS
<1>3. PICK d \in Clients : SessionStep(d) \/ ClientStep(d) \/ SnapshotFails(d) \/ DropLink(d)
  BY <1>2 DEF Next, vars, AppendEntry, Notify, RemoveRound, Restart
<1>4. ~SessionStep(d) /\ ~DropLink(d)
  BY <1>2 DEF SessionStep, Subscribe, Enrol, ReadLog, Replay, Walk, Park, Wake, DropLink
<1>5. \/ FetchSnapshot(d) \/ SocketOpens(d) \/ Deliver(d) \/ SocketCloses(d)
      \/ Reconnect(d) \/ SnapshotFails(d)
  BY <1>3, <1>4 DEF ClientStep
<1>6. d = c
  <2> SUFFICES ASSUME d # c PROVE FALSE  OBVIOUS
  <2>1. client'[c] = client[c]
    <3>1. CASE FetchSnapshot(d)  BY <1>1, <3>1 DEF FetchSnapshot, Set, Typed
    <3>2. CASE SocketOpens(d)  BY <1>1, <3>2 DEF SocketOpens, Set, Typed
    <3>3. CASE Deliver(d)  BY <1>1, <3>3 DEF Deliver, Set, Typed
    <3>4. CASE SocketCloses(d)  BY <1>1, <3>4 DEF SocketCloses, Set, Typed
    <3>5. CASE Reconnect(d)  BY <1>1, <3>5 DEF Reconnect, Set, Typed
    <3>6. CASE SnapshotFails(d)
      <4>1. PICK next \in {"reconnecting", "stranded"} :
              client' = [client EXCEPT ![d].status = next]
        BY <3>6 DEF SnapshotFails
      <4> QED  BY <1>1, <4>1 DEF Typed
    <3> QED  BY <1>5, <3>1, <3>2, <3>3, <3>4, <3>5, <3>6
  <2> QED  BY <2>1
<1>7. Deliver(c)
  <2>1. ~SnapshotFails(c)  BY DEF SnapshotFails
  <2>2. ~FetchSnapshot(c)  BY DEF FetchSnapshot
  <2>3. ~SocketOpens(c)  BY <1>1 DEF SocketOpens, Typed, ClientFields
  <2>4. ~SocketCloses(c)  BY <1>1 DEF SocketCloses, Typed, ClientFields
  <2>5. ~Reconnect(c)  BY <1>1 DEF Reconnect, Set, Typed, ClientFields
  <2> QED  BY <1>5, <1>6, <2>1, <2>2, <2>3, <2>4, <2>5
<1>8. chan[c] # << >> /\ chan[c] \in Seq(Frames) /\ Sent(session[c], client[c], chan[c])
  BY <1>1, <1>7 DEF Deliver, Typed, AllSteady, Steady
<1>9. Head(chan[c]).kind = "resnapshot"
  <2> SUFFICES ASSUME Verdict(client[c], Head(chan[c])) = "applied" PROVE FALSE
    BY <1>8, HeadApplies
  <2> DEFINE v == Applied(client[c], Head(chan[c]))
  <2>1. client' = [client EXCEPT ![c] = v]  BY <1>7 DEF Deliver, Set
  <2>2. v.status = client[c].status  BY <1>1 DEF Applied, Typed, ClientFields
  <2> HIDE DEF v
  <2>3. client'[c] = v  BY <1>1, <2>1 DEF Typed
  <2> QED  BY <2>2, <2>3
<1>10. 1 \in 1 .. Len(chan[c]) /\ Head(chan[c]) = chan[c][1]  BY <1>8
<1> QED  BY <1>1, <1>9, <1>10 DEF Refused

\* A client that holds a snapshot goes back for another only when the session
\* judged its cursor (stream, ws.rs) to lie behind the retained window, which it
\* still does: no frame it took for a gap sends it there.
THEOREM SnapshotsAreNeeded == Spec => NoNeedlessSnapshot
<1> DEFINE Needed ==
             \A c \in Clients :
               /\ client[c].cursor # NoCursor /\ client[c].status # "snapshotting"
               /\ client'[c].status = "snapshotting"
               => client[c].cursor + RetainedWindow < Len(log)
<1>1. IInv /\ AllSteady /\ AllRefused /\ [Next]_vars => [Needed]_vars  BY OnlyRefused
<1> QED
  BY <1>1, Invariance, Steadiness, Refusals, PTL DEF Spec, NoNeedlessSnapshot
==============================================================================
