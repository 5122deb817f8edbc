----------------------- MODULE TimerConnectionsProofs ------------------------
(***************************************************************************)
(* Two connections are never open to one timer, a timer that gave up rests *)
(* until it is asked for, and a write reaches only the link it was asked   *)
(* on: by invariants of the records' fields (Shape), of what the           *)
(* reconciler finds when nothing has asked since its last dial (Quiet),    *)
(* and of what a connection accepts and holds queued (Links).              *)
(***************************************************************************)
EXTENDS TimerConnections, FiniteSetTheorems, SequenceTheorems, WellFoundedInduction, TLAPS

\* The records keep their fields, whatever is in them.
ConnectionFields == {"url", "pc", "attempts", "alive", "accepts", "yields", "slot", "queue"}
Fields(d) == DOMAIN d = ConnectionFields
Shape ==
    /\ DOMAIN timer = {"url", "kind", "status", "hold", "writes"}
    /\ DOMAIN tick = {"pc", "wanted", "url"}
    /\ DOMAIN conn = Claims
    /\ \A c \in Claims : Fields(conn[c])

\* What is read to be wanted is one claim, and so is what is open.
Single(S) == \A a, b \in S : a = b
OneAtATime == Single(tick.wanted) /\ Single(OpenClaims)

\* Nothing has asked for the timer since a dial answered to what is wanted, and
\* no connection on its way out has written over the status: each wanted claim
\* is open, at the right address, or rests, and its exit can still be read.
QuietClaim(c) ==
    /\ IsOpen(c) => conn[c].url = timer.url /\ (conn[c].pc = "exited" => AtRest)
    /\ ~IsOpen(c) => c \in rested /\ AtRest
Quiet ==
    ~asked /\ ~straggled =>
      /\ seen
      /\ tick.pc = "reconcile" => tick.wanted = Wanted /\ tick.url = timer.url
      /\ OpenClaims \subseteq Wanted
      /\ \A c \in Wanted : QuietClaim(c)
Booleans == asked \in BOOLEAN /\ straggled \in BOOLEAN /\ seen \in BOOLEAN
                /\ (tick.pc # "idle" => seen)

IInv == Shape /\ OneAtATime /\ Booleans /\ Quiet

------------------------------------------------------------------------------
\* A thread's step keeps its record, and a thread nobody cancelled exits only
\* as it publishes that the timer is unreachable.
LEMMA StepKeeps ==
    ASSUME NEW d, NEW k \in BOOLEAN, Fields(d), NEW step \in Steps(d, k)
    PROVE  /\ Fields(step[1])
           /\ step[1].url = d.url
           /\ d.pc # "none" /\ d.pc # "exited" /\ step[1].pc # "none"
           /\ ~k /\ step[1].pc = "exited" => step[2] = "unreachable"
<1>1. CASE step \in Dial(d, k)
  BY <1>1 DEF Dial, Fields, ConnectionFields
<1>2. CASE step \in FailDial(d)
  <2> DEFINE n == IF d.attempts < Cap THEN d.attempts + 1 ELSE Cap
             e == [d EXCEPT !.pc = "exited", !.attempts = n]
             b == [d EXCEPT !.pc = "backoff", !.attempts = n]
  <2>1. d.pc = "dialling" /\ step \in {<<e, "unreachable">>, <<b, "error">>}
    BY <1>2 DEF FailDial
  <2>2. Fields(e) /\ e.url = d.url /\ e.pc = "exited"
    BY DEF Fields, ConnectionFields
  <2>3. Fields(b) /\ b.url = d.url /\ b.pc = "backoff"
    BY DEF Fields, ConnectionFields
  <2> HIDE DEF e, b, n
  <2> QED  BY <2>1, <2>2, <2>3
<1>3. CASE step \in Connect(d)
  <2> DEFINE e == [d EXCEPT !.pc = "greeted", !.attempts = 0, !.alive = TRUE]
  <2>1. d.pc = "dialling" /\ step = <<e, "connected">>
    BY <1>3 DEF Connect
  <2>2. Fields(e) /\ e.url = d.url /\ e.pc = "greeted"
    BY DEF Fields, ConnectionFields
  <2> HIDE DEF e
  <2> QED  BY <2>1, <2>2
<1>4. CASE step \in Accept(d)
  <2> DEFINE e == [d EXCEPT !.pc = "live", !.queue = << >>, !.accepts = TRUE]
  <2>1. d.pc = "greeted" /\ step = <<e, Silent>>
    BY <1>4 DEF Accept
  <2>2. Fields(e) /\ e.url = d.url /\ e.pc = "live"
    BY DEF Fields, ConnectionFields
  <2> HIDE DEF e
  <2> QED  BY <2>1, <2>2
<1>5. CASE step \in DrainWrites(d, k)
  <2>1. PICK up : d.pc = "live" /\ step = <<[d EXCEPT !.queue = << >>, !.alive = up], Silent>>
    BY <1>5 DEF DrainWrites
  <2> DEFINE e == [d EXCEPT !.queue = << >>, !.alive = up]
  <2>2. Fields(e) /\ e.url = d.url /\ e.pc = d.pc
    BY DEF Fields, ConnectionFields
  <2> HIDE DEF e
  <2> QED  BY <2>1, <2>2 DEF e
<1>6. CASE step \in Settle(d, k)
  BY <1>6 DEF Settle, Fields, ConnectionFields
<1>7. CASE step \in LoseLink(d, k)
  <2>1. PICK q : d.pc = "live"
             /\ step = <<[d EXCEPT !.pc = "backoff", !.accepts = FALSE, !.queue = q], "disconnected">>
    BY <1>7 DEF LoseLink
  <2> DEFINE e == [d EXCEPT !.pc = "backoff", !.accepts = FALSE, !.queue = q]
  <2>2. Fields(e) /\ e.url = d.url /\ e.pc = "backoff"
    BY DEF Fields, ConnectionFields
  <2>3. d.pc = "live" /\ step = <<e, "disconnected">>
    BY <2>1
  <2> HIDE DEF e
  <2> QED  BY <2>2, <2>3
<1>8. CASE step \in Leave(d, k)
  <2>1. PICK s : k /\ d.pc \in {"backoff", "live"}
             /\ step = <<[d EXCEPT !.pc = "exited", !.accepts = FALSE, !.alive = FALSE], s>>
    BY <1>8 DEF Leave
  <2> DEFINE e == [d EXCEPT !.pc = "exited", !.accepts = FALSE, !.alive = FALSE]
  <2>2. Fields(e) /\ e.url = d.url /\ e.pc = "exited"
    BY DEF Fields, ConnectionFields
  <2>3. k /\ d.pc \in {"backoff", "live"} /\ step = <<e, s>>
    BY <2>1
  <2> HIDE DEF e
  <2> QED  BY <2>2, <2>3
<1> QED  BY <1>1, <1>2, <1>3, <1>4, <1>5, <1>6, <1>7, <1>8 DEF Steps

\* What is wanted is at most one claim.
LEMMA WantedSingle == Single(Wanted) /\ Wanted \subseteq Claims
BY DEF Single, Wanted, Claims

LEMMA InitIInv == ASSUME Init PROVE IInv
<1>1. Fields(NoConnection) /\ NoConnection.pc = "none"
  BY DEF NoConnection, Open, Fields, ConnectionFields
<1>2. Shape
  BY <1>1 DEF Init, Shape
<1>3. OpenClaims = {}
  BY <1>1 DEF Init, OpenClaims, IsOpen
<1>4. tick.wanted = {} /\ tick.pc = "idle" /\ asked = TRUE /\ straggled = FALSE /\ seen = FALSE
  BY DEF Init
<1> QED  BY <1>2, <1>3, <1>4 DEF IInv, OneAtATime, Single, Booleans, Quiet

------------------------------------------------------------------------------
\* A step after which the timer has been asked for owes nothing to Quiet.
LEMMA AskedIsEnough == asked' => Quiet'
BY DEF Quiet

\* A step that leaves the connections, the sweep and what is read alone.
LEMMA SameConnections ==
    ASSUME IInv, UNCHANGED <<tick, conn, seen, straggled>>, DOMAIN timer' = DOMAIN timer,
           asked' \in BOOLEAN,
           asked' \/ UNCHANGED <<selected, rested, asked, timer.url, timer.kind,
                                 timer.status, timer.hold>>
    PROVE  IInv'
<1>1. Shape' /\ OneAtATime' /\ Booleans'
  BY DEF IInv, Shape, OneAtATime, Booleans, OpenClaims, IsOpen
<1>2. CASE asked'
  BY <1>1, <1>2, AskedIsEnough DEF IInv
<1>3. CASE UNCHANGED <<selected, rested, asked, timer.url, timer.kind,
                       timer.status, timer.hold>>
  BY <1>1, <1>3 DEF IInv, Quiet, QuietClaim, AtRest, Wanted, OpenClaims, IsOpen
<1> QED  BY <1>2, <1>3

\* A step that keeps every connection's address and where its thread is.
LEMMA SameThreads ==
    ASSUME IInv, UNCHANGED <<timer, selected, seen, tick, straggled>>,
           asked' \in BOOLEAN, asked' \/ UNCHANGED <<rested, asked>>,
           DOMAIN conn' = Claims,
           \A c \in Claims : /\ Fields(conn'[c])
                             /\ conn'[c].pc = conn[c].pc
                             /\ IsOpen(c) => conn'[c].url = conn[c].url
    PROVE  IInv'
<1>1. OpenClaims' = OpenClaims /\ \A c \in Claims : IsOpen(c)' = IsOpen(c)
  BY DEF OpenClaims, IsOpen
<1>2. Shape' /\ OneAtATime' /\ Booleans'
  BY <1>1 DEF IInv, Shape, OneAtATime, Booleans
<1>3. CASE asked'
  BY <1>2, <1>3, AskedIsEnough DEF IInv
<1>4. CASE UNCHANGED <<rested, asked>>
  BY <1>1, <1>2, <1>4, WantedSingle DEF IInv, Quiet, QuietClaim, AtRest, Wanted
<1> QED  BY <1>3, <1>4

LEMMA SelectStep == IInv /\ Select => IInv'
BY SameConnections DEF Select

LEMMA HoldStep == ASSUME NEW held \in BOOLEAN, IInv, SetManualConnect(held) PROVE IInv'
<1>1. DOMAIN timer' = DOMAIN timer  BY DEF SetManualConnect, IInv, Shape
<1> QED  BY <1>1, SameConnections DEF SetManualConnect

LEMMA UpdateStep == ASSUME NEW url, NEW kind, IInv, UpdateTimer(url, kind) PROVE IInv'
<1>1. DOMAIN timer' = DOMAIN timer  BY DEF UpdateTimer, IInv, Shape
<1> QED  BY <1>1, SameConnections DEF UpdateTimer

LEMMA WriteStep == ASSUME NEW kind, IInv, RequestWrite(kind) PROVE IInv'
<1>1. DOMAIN timer' = DOMAIN timer  BY DEF RequestWrite, IInv, Shape
<1>2. UNCHANGED <<timer.url, timer.kind, timer.status, timer.hold>>
  BY DEF RequestWrite, IInv, Shape
<1> QED  BY <1>1, <1>2, SameConnections DEF RequestWrite, IInv, Booleans

LEMMA FlapStep == ASSUME NEW url, IInv, Flap(url) PROVE IInv'
<1>1. DOMAIN conn' = Claims  BY DEF Flap
<1>2. ASSUME NEW c \in Claims
      PROVE  /\ Fields(conn'[c]) /\ conn'[c].pc = conn[c].pc
             /\ IsOpen(c) => conn'[c].url = conn[c].url
  BY DEF Flap, IInv, Shape, Fields, ConnectionFields, NoConnection, Open, IsOpen
<1> QED  BY <1>1, <1>2, SameThreads DEF Flap, IInv, Booleans

LEMMA StageStep == IInv /\ StageHeat => IInv'
BY SameConnections DEF StageHeat, Rouse, IInv, Booleans

LEMMA ArmStep == ASSUME IInv, ArmHeat PROVE IInv'
<1>1. DOMAIN conn' = Claims  BY DEF ArmHeat, IInv, Shape
<1>2. ASSUME NEW c \in Claims
      PROVE  /\ Fields(conn'[c]) /\ conn'[c].pc = conn[c].pc
             /\ IsOpen(c) => conn'[c].url = conn[c].url
  BY DEF ArmHeat, IInv, Shape, Fields, ConnectionFields, Claims
<1>3. asked' \in BOOLEAN /\ (asked' \/ UNCHANGED <<rested, asked>>)
  BY DEF ArmHeat, Rouse, IInv, Booleans
<1> QED  BY <1>1, <1>2, <1>3, SameThreads DEF ArmHeat

LEMMA DisarmStep == ASSUME IInv, DisarmHeat PROVE IInv'
<1>1. DOMAIN conn' = Claims  BY DEF DisarmHeat, IInv, Shape
<1>2. ASSUME NEW c \in Claims
      PROVE  /\ Fields(conn'[c]) /\ conn'[c].pc = conn[c].pc
             /\ IsOpen(c) => conn'[c].url = conn[c].url
  BY DEF DisarmHeat, IInv, Shape, Fields, ConnectionFields, Claims
<1> QED  BY <1>1, <1>2, SameThreads DEF DisarmHeat, IInv, Booleans

LEMMA FinalizeStep == IInv /\ FinalizeHeat => IInv'
BY SameConnections DEF FinalizeHeat, IInv, Booleans

LEMMA DeliverStep == ASSUME IInv, Deliver PROVE IInv'
<1>1. Shape'
  BY DEF Deliver, IInv, Shape, Fields, ConnectionFields
<1>2. ASSUME NEW c \in Claims
      PROVE  conn'[c].pc = conn[c].pc /\ conn'[c].url = conn[c].url
  BY DEF Deliver, IInv, Shape, Fields, ConnectionFields
<1>3. OpenClaims' = OpenClaims /\ \A c \in Claims : IsOpen(c)' = IsOpen(c)
  BY <1>2 DEF OpenClaims, IsOpen
<1>4. tick'.pc = "idle" /\ tick'.wanted = {}
  BY DEF Deliver, IInv, Shape
<1>5. UNCHANGED <<timer.url, timer.kind, timer.status, timer.hold>>
  BY DEF Deliver, IInv, Shape
<1>6. OneAtATime' /\ Booleans'
  BY <1>3, <1>4 DEF Deliver, IInv, OneAtATime, Single, Booleans
<1>7. UNCHANGED <<selected, seen, rested, asked, straggled>>
  BY DEF Deliver
<1>8. Wanted' = Wanted
  BY <1>5, <1>7 DEF Wanted
<1>9. Quiet'
  BY <1>2, <1>3, <1>4, <1>5, <1>7, <1>8, WantedSingle DEF IInv, Quiet, QuietClaim, AtRest
<1> QED  BY <1>1, <1>6, <1>9 DEF IInv

LEMMA SweepStep == ASSUME IInv, Sweep PROVE IInv'
<1>1. Shape'
  BY DEF Sweep, IInv, Shape
<1>2. OpenClaims' = OpenClaims /\ \A c \in Claims : IsOpen(c)' = IsOpen(c)
  BY DEF Sweep, OpenClaims, IsOpen
<1>3. Single(tick'.wanted) /\ tick'.pc = "reconcile"
  BY WantedSingle DEF Sweep, Single
<1>4. OneAtATime' /\ Booleans'
  BY <1>2, <1>3 DEF Sweep, IInv, OneAtATime, Booleans
<1>5. ASSUME ~asked, ~straggled PROVE timer' = timer /\ tick'.wanted = Wanted /\ tick'.url = timer.url
  BY <1>5 DEF Sweep, IInv, Quiet
<1>6. Quiet'
  <2> SUFFICES ASSUME ~asked', ~straggled'
               PROVE  /\ seen'
                      /\ tick'.wanted = Wanted' /\ tick'.url = timer'.url
                      /\ OpenClaims' \subseteq Wanted'
                      /\ \A c \in Wanted' : QuietClaim(c)'
    BY DEF Quiet
  <2>1. ~asked /\ ~straggled
    BY DEF Sweep
  <2>2. timer' = timer /\ tick'.wanted = Wanted /\ tick'.url = timer.url
    BY <1>5, <2>1
  <2>3. Wanted' = Wanted
    BY <2>2 DEF Sweep, Wanted
  <2>4. \A c \in Wanted : QuietClaim(c)'
    BY <1>2, <2>1, <2>2, WantedSingle DEF Sweep, IInv, Quiet, QuietClaim, AtRest
  <2> QED  BY <1>2, <2>1, <2>2, <2>3, <2>4 DEF Sweep, IInv, Quiet
<1> QED  BY <1>1, <1>4, <1>6 DEF IInv

\* A thread that runs on keeps its claim; one that exits leaves the status it
\* is known to rest by.
LEMMA DriveStep == ASSUME NEW c \in Claims, IInv, Drive(c) PROVE IInv'
<1>1. PICK step \in Steps(conn[c], FALSE) :
         conn' = [conn EXCEPT ![c] = step[1]] /\ Publish(step[2])
  BY DEF Drive
<1>2. /\ Fields(step[1]) /\ step[1].url = conn[c].url
      /\ IsOpen(c) /\ step[1].pc # "none"
      /\ step[1].pc = "exited" => step[2] = "unreachable"
  BY StepKeeps DEF IInv, Shape, IsOpen
<1>3. conn'[c] = step[1] /\ \A b \in Claims \ {c} : conn'[b] = conn[b]
  BY <1>1 DEF IInv, Shape
<1>4. /\ DOMAIN timer' = DOMAIN timer /\ timer'.url = timer.url
      /\ timer'.kind = timer.kind /\ timer'.hold = timer.hold
      /\ step[2] = "unreachable" => timer'.status = "unreachable"
  BY <1>1 DEF Publish, IInv, Shape, Silent
<1>5. Shape'
  BY <1>1, <1>2, <1>3, <1>4 DEF Drive, IInv, Shape
<1>6. OpenClaims' = OpenClaims /\ \A b \in Claims : IsOpen(b)' = IsOpen(b)
  BY <1>2, <1>3 DEF OpenClaims, IsOpen
<1>7. OneAtATime' /\ Booleans'
  BY <1>6 DEF Drive, IInv, OneAtATime, Booleans
<1>8. Wanted' = Wanted
  BY <1>4 DEF Drive, Wanted
<1>9. ASSUME ~asked, ~straggled PROVE \A b \in Wanted : QuietClaim(b)'
  <2>1. c \in Wanted /\ QuietClaim(c)
    BY <1>2, <1>9 DEF IInv, Quiet, OpenClaims
  <2>2. Wanted = {c}
    BY <2>1, WantedSingle DEF Single
  <2>3. QuietClaim(c)'
    BY <1>2, <1>3, <1>4, <1>6, <2>1 DEF QuietClaim, AtRest
  <2> QED  BY <2>2, <2>3
<1>10. Quiet'
  BY <1>4, <1>6, <1>8, <1>9 DEF Drive, IInv, Quiet
<1> QED  BY <1>5, <1>7, <1>10 DEF IInv

\* A thread on its way out may overwrite the status, and is then remembered.
LEMMA DriveOutStep == ASSUME NEW d \in leaving, IInv, DriveOut(d) PROVE IInv'
<1>1. PICK step \in Steps(d, TRUE) :
         Publish(step[2]) /\ straggled' = (straggled \/ step[2] # Silent)
  BY DEF DriveOut
<1>2. DOMAIN timer' = DOMAIN timer
  BY <1>1 DEF Publish, IInv, Shape
<1>3. Shape' /\ OneAtATime' /\ Booleans'
  BY <1>1, <1>2 DEF DriveOut, IInv, Shape, OneAtATime, Booleans, OpenClaims, IsOpen
<1>4. ASSUME ~straggled' PROVE timer' = timer /\ ~straggled
  BY <1>1, <1>4 DEF Publish
<1>5. Quiet'
  BY <1>4 DEF DriveOut, IInv, Quiet, QuietClaim, AtRest, Wanted, OpenClaims, IsOpen
<1> QED  BY <1>3, <1>5 DEF IInv

------------------------------------------------------------------------------
(* The reconciler: what it opens when nothing has asked, and when it has.  *)

Resting == {c \in rested : c \in tick.wanted /\ AtRest} \cup NewlyRested
Opened == {c \in tick.wanted \ Resting : c \in Retired \/ ~IsOpen(c)}

LEMMA ReconcileOpens ==
    ASSUME Reconcile
    PROVE  /\ rested' = Resting
           /\ conn' = [c \in Claims |->
                         IF c \in Opened THEN Open(tick.url)
                         ELSE IF c \in Retired THEN NoConnection ELSE conn[c]]
           /\ asked' = (asked /\ ~Answered(Opened))
           /\ straggled' = (straggled /\ ~Answered(Opened))
           /\ tick.pc = "reconcile" /\ tick' = [tick EXCEPT !.pc = "deliver"]
           /\ UNCHANGED <<timer, selected, seen>>
BY DEF Reconcile, Resting, Opened

LEMMA OpenShapes ==
    ASSUME NEW url
    PROVE  /\ Fields(Open(url)) /\ Open(url).url = url /\ Open(url).pc = "backoff"
           /\ Fields(NoConnection) /\ NoConnection.pc = "none"
BY DEF Open, NoConnection, Fields, ConnectionFields

\* What is open after the sweep was wanted by it.
LEMMA OpenAfter ==
    ASSUME IInv, Reconcile, NEW c \in Claims
    PROVE  /\ IsOpen(c)' <=> c \in Opened \/ (IsOpen(c) /\ c \notin Retired)
           /\ IsOpen(c)' => c \in tick.wanted
           /\ Fields(conn'[c])
<1>1. conn'[c] = IF c \in Opened THEN Open(tick.url)
                 ELSE IF c \in Retired THEN NoConnection ELSE conn[c]
  BY ReconcileOpens
<1>2. Fields(conn[c])
  BY DEF IInv, Shape
<1>3. IsOpen(c) /\ c \notin tick.wanted => c \in Retired
  BY DEF Retired, Unwanted, OpenClaims
<1> QED  BY <1>1, <1>2, <1>3, OpenShapes DEF IsOpen, Opened

\* Nothing has asked: the sweep opens nothing, and a thread that is gone leaves
\* a claim at rest.
LEMMA QuietOpensNothing ==
    ASSUME IInv, Reconcile, ~asked, ~straggled
    PROVE  Opened = {} /\ \A c \in Wanted : QuietClaim(c)'
<1>1. tick.wanted = Wanted /\ tick.url = timer.url /\ \A c \in Wanted : QuietClaim(c)
  BY ReconcileOpens DEF IInv, Quiet
<1>2. ASSUME NEW c \in Wanted PROVE c \notin Opened /\ QuietClaim(c)'
  <2>1. c \in Claims /\ c \in tick.wanted /\ QuietClaim(c)
    BY <1>1, WantedSingle
  <2>2. AtRest' = AtRest /\ timer' = timer
    BY ReconcileOpens DEF AtRest
  <2>3. CASE ~IsOpen(c)
    <3>1. c \in Resting
      BY <2>1, <2>3 DEF QuietClaim, Resting
    <3> QED  BY <2>1, <2>2, <2>3, <3>1, OpenAfter, ReconcileOpens DEF Opened, QuietClaim
  <2>4. CASE IsOpen(c) /\ conn[c].pc = "exited"
    <3>1. AtRest /\ c \in Reaped /\ c \in Resting
      BY <1>1, <2>1, <2>4 DEF QuietClaim, Reaped, NewlyRested, Resting, OpenClaims
    <3> QED  BY <2>1, <2>2, <3>1, OpenAfter, ReconcileOpens DEF Opened, QuietClaim, Retired
  <2>5. CASE IsOpen(c) /\ conn[c].pc # "exited"
    <3>1. c \notin Retired
      BY <1>1, <2>1, <2>5 DEF QuietClaim, Retired, Reaped, Moved, Unwanted
    <3>2. c \notin Opened
      BY <2>5, <3>1 DEF Opened
    <3>3. conn'[c] = conn[c]
      BY <2>1, <3>1, <3>2, ReconcileOpens
    <3> QED  BY <2>1, <2>2, <2>5, <3>2, <3>3 DEF QuietClaim, IsOpen
  <2> QED  BY <2>3, <2>4, <2>5
<1> QED  BY <1>1, <1>2 DEF Opened

LEMMA ReconcileStep == ASSUME IInv, Reconcile PROVE IInv'
<1>1. Shape'
  BY ReconcileOpens, OpenAfter DEF IInv, Shape
<1>2. /\ tick'.wanted = tick.wanted /\ tick'.pc = "deliver"
      /\ UNCHANGED <<timer, selected, seen>>
  BY ReconcileOpens DEF IInv, Shape
<1>3. OpenClaims' \subseteq tick.wanted
  BY OpenAfter DEF OpenClaims
<1>4. OneAtATime'
  BY <1>2, <1>3 DEF IInv, OneAtATime, Single
<1>5. Booleans' /\ seen
  BY <1>2, ReconcileOpens DEF IInv, Booleans
<1>6. Wanted' = Wanted
  BY <1>2 DEF Wanted
<1>7. CASE ~asked /\ ~straggled
  <2>1. tick.wanted = Wanted
    BY <1>7, ReconcileOpens DEF IInv, Quiet
  <2> QED  BY <1>1, <1>2, <1>3, <1>4, <1>5, <1>6, <1>7, <2>1, QuietOpensNothing DEF IInv, Quiet
<1>8. CASE Answered(Opened)
  <2>1. Opened # {} /\ Opened \subseteq Wanted /\ tick.wanted = Wanted /\ tick.url = timer.url
    BY <1>8 DEF Answered, Opened
  <2>2. Opened = Wanted
    BY <2>1, WantedSingle DEF Single
  <2>3. ASSUME NEW c \in Wanted PROVE QuietClaim(c)'
    <3>1. conn'[c] = Open(timer.url) /\ c \in Claims
      BY <2>1, <2>2, WantedSingle, ReconcileOpens
    <3> QED  BY <1>2, <3>1, OpenShapes DEF QuietClaim, IsOpen
  <2> QED  BY <1>1, <1>2, <1>3, <1>4, <1>5, <1>6, <2>1, <2>3 DEF IInv, Quiet
<1>9. CASE ~Answered(Opened) /\ (asked \/ straggled)
  <2>1. asked' \/ straggled'
    BY <1>9, ReconcileOpens
  <2> QED  BY <1>1, <1>4, <1>5, <2>1 DEF IInv, Quiet
<1> QED  BY <1>7, <1>8, <1>9

------------------------------------------------------------------------------
LEMMA NextIInv == ASSUME IInv, [Next]_vars PROVE IInv'
<1>1. CASE UNCHANGED vars
  BY <1>1, SameConnections DEF vars, IInv, Booleans
<1>2. CASE Next
  BY <1>2, SelectStep, HoldStep, UpdateStep, WriteStep, FlapStep, StageStep, ArmStep,
     DisarmStep, FinalizeStep, SweepStep, ReconcileStep, DeliverStep, DriveStep,
     DriveOutStep DEF Next
<1> QED  BY <1>1, <1>2

LEMMA Invariance == Spec => []IInv
BY InitIInv, NextIInv, PTL DEF Spec

\* OneConnection of TimerConnections, for any addresses and bounds: however
\* selections, holds, edits and exits interleave with the reconciler's sweep,
\* the map holds at most one connection to the timer.
THEOREM NeverTwoConnections == Spec => []OneConnection
<1>1. IInv => OneConnection
  <2> SUFFICES ASSUME IInv PROVE OneConnection
    OBVIOUS
  <2>1. CASE OpenClaims = {}
    BY <2>1, FS_EmptySet DEF OneConnection
  <2>2. CASE \E c \in OpenClaims : TRUE
    <3>1. PICK c \in OpenClaims : OpenClaims = {c}
      BY <2>2 DEF IInv, OneAtATime, Single
    <3>2. Cardinality(OpenClaims) = 1
      BY <3>1, FS_Singleton
    <3> QED  BY <3>2 DEF OneConnection
  <2> QED  BY <2>1, <2>2
<1> QED  BY <1>1, Invariance, PTL

\* RestsUntilAsked of TimerConnections: a timer that gave up is not dialled
\* again unless something asked for it, or a connection that was cancelled has
\* since published over the status its rest is read from.
THEOREM RestsUntilSomethingAsks == Spec => RestsUntilAsked
<1> DEFINE Opens == \E c \in Claims : conn'[c] # conn[c] /\ conn'[c] = Open(tick.url)
<1>1. ASSUME IInv, [Next]_vars, tick' # tick, Opens, ~asked, ~straggled PROVE FALSE
  <2>1. Sweep \/ Reconcile \/ Deliver
    BY <1>1 DEF Next, vars, Select, SetManualConnect, UpdateTimer, RequestWrite, Flap,
          StageHeat, ArmHeat, DisarmHeat, FinalizeHeat, Drive, DriveOut
  <2>2. CASE Sweep
    BY <1>1, <2>2 DEF Sweep
  <2>3. CASE Reconcile
    <3>1. PICK c \in Claims : conn'[c] # conn[c] /\ conn'[c] = Open(tick.url)
      BY <1>1
    <3>2. Opened = {}
      BY <1>1, <2>3, QuietOpensNothing
    <3>3. conn'[c] = IF c \in Retired THEN NoConnection ELSE conn[c]
      BY <2>3, <3>2, ReconcileOpens
    <3> QED  BY <3>1, <3>3, OpenShapes
  <2>4. CASE Deliver
    <3>1. PICK c \in Claims : conn'[c] # conn[c] /\ conn'[c] = Open(tick.url)
      BY <1>1
    <3>2. conn'[c].accepts = TRUE
      BY <1>1, <2>4, <3>1 DEF Deliver, IInv, Shape, Fields, ConnectionFields
    <3>3. Open(tick.url).accepts = FALSE
      BY DEF Open
    <3> QED  BY <3>1, <3>2, <3>3
  <2> QED  BY <2>1, <2>2, <2>3, <2>4
<1>2. IInv /\ [Next]_vars =>
        [tick' # tick /\ Opens => asked \/ straggled]_vars
  BY <1>1
<1> QED  BY <1>2, Invariance, PTL DEF Spec, RestsUntilAsked

------------------------------------------------------------------------------
(* Writes.  Only a connection with a link accepts any, and its queue holds *)
(* writes of that link alone (OwnWrites): of the map's connections, since  *)
(* one that was cancelled accepts nothing more.                            *)

Fresh == [kind : WriteKinds, stale : {FALSE}]
OwnWrites(d) == IF d.pc = "live" THEN d.queue \in Seq(Fresh) ELSE d.accepts = FALSE
Links == timer.writes \in Seq(Fresh) /\ \A c \in Claims : OwnWrites(conn[c])

\* A write queued is a fresh one, whichever it is folded into.
LEMMA QueueIntoFresh ==
    ASSUME NEW q \in Seq(Fresh), NEW kind \in WriteKinds
    PROVE  QueueInto(q, kind) \in Seq(Fresh)
<1> DEFINE w == [kind |-> kind, stale |-> FALSE]
           again == SelectInSeq(q, LAMBDA x : x.kind = kind)
<1>1. w \in Fresh
  BY DEF Fresh
<1> HIDE DEF w, again
<1>2. Append(q, w) \in Seq(Fresh)
  BY <1>1
<1>3. [q EXCEPT ![again] = w] \in Seq(Fresh)
  <2>1. CASE again \in 1 .. Len(q)
    BY <1>1, <2>1, ExceptSeq
  <2>2. CASE again \notin 1 .. Len(q)
    <3>1. q = [i \in 1 .. Len(q) |-> q[i]] /\ DOMAIN q = 1 .. Len(q)
      OBVIOUS
    <3>2. [q EXCEPT ![again] = w] = q
      BY <2>2, <3>1
    <3> QED  BY <3>2
  <2> QED  BY <2>1, <2>2
<1>4. QueueInto(q, kind) = IF again # 0 THEN [q EXCEPT ![again] = w] ELSE Append(q, w)
  BY DEF QueueInto, again, w
<1> QED  BY <1>2, <1>3, <1>4

\* A set of numbers that has 0 and, with every number below n, its successor,
\* has all of them up to n.
LEMMA Reaches ==
    ASSUME NEW n \in Nat, NEW S, 0 \in S, \A i \in 0 .. n : i < n /\ i \in S => i + 1 \in S
    PROVE  \A i \in 0 .. n : i \in S
<1> DEFINE T == {i \in 0 .. n : i \notin S}
           R == OpToRel(<, Nat)
<1> SUFFICES ASSUME T # {} PROVE FALSE
  OBVIOUS
<1>1. IsWellFoundedOn(R, Nat)
  BY NatLessThanWellFounded, Zenon
<1>2. \A x, y \in Nat : x < y => <<x, y>> \in R
  BY DEF OpToRel
<1>3. T \subseteq Nat
  OBVIOUS
<1> HIDE DEF R
<1>4. PICK x \in T : \A y \in T : <<y, x>> \notin R
  BY <1>1, <1>3, WFMin
<1>5. x \in 0 .. n /\ x \notin S /\ x # 0
  OBVIOUS
<1>6. x - 1 \in 0 .. n /\ x - 1 < n /\ (x - 1) + 1 = x /\ x - 1 < x
  BY <1>5
<1>7. x - 1 \notin S
  BY <1>5, <1>6
<1>8. x - 1 \in T
  BY <1>6, <1>7
<1> QED  BY <1>2, <1>3, <1>4, <1>6, <1>8

\* A batch queued on what holds only fresh writes leaves only fresh writes.
LEMMA QueueAllFresh ==
    ASSUME NEW q \in Seq(Fresh), NEW batch \in Seq(Fresh)
    PROVE  QueueAll(q, batch) \in Seq(Fresh)
<1> DEFINE N == Len(batch)
           Follow(f, n) == [i \in 0 .. n |->
               IF i = 0 THEN q ELSE QueueInto(f[i - 1], batch[i].kind)]
           Defined == {n \in 0 .. N : \E f : f = Follow(f, n)}
<1>1. N \in Nat
  OBVIOUS
<1>2. 0 \in Defined
  <2> DEFINE f == [i \in 0 .. 0 |-> q]
  <2>1. \A i \in 0 .. 0 : q = IF i = 0 THEN q ELSE QueueInto(f[i - 1], batch[i].kind)
    OBVIOUS
  <2>2. f = Follow(f, 0)
    BY <2>1
  <2> HIDE DEF f, Follow
  <2>3. 0 \in 0 .. N
    BY <1>1
  <2> QED  BY <2>2, <2>3
<1>3. ASSUME NEW n \in 0 .. N, n < N, n \in Defined PROVE n + 1 \in Defined
  <2>1. PICK f : f = Follow(f, n)
    BY <1>3
  <2> DEFINE g == [i \in 0 .. n + 1 |->
                     IF i = n + 1 THEN QueueInto(f[n], batch[i].kind) ELSE f[i]]
  <2>2. ASSUME NEW i \in 0 .. n + 1
        PROVE  g[i] = IF i = 0 THEN q ELSE QueueInto(g[i - 1], batch[i].kind)
    <3>1. CASE i = n + 1
      <4>1. i # 0 /\ i - 1 = n /\ n \in 0 .. n + 1 /\ n # n + 1
        BY <1>1, <3>1
      <4>2. g[i] = QueueInto(f[n], batch[i].kind) /\ g[n] = f[n]
        BY <3>1, <4>1
      <4> QED  BY <4>1, <4>2
    <3>2. CASE i = 0
      BY <1>1, <2>1, <3>2
    <3>3. CASE i # 0 /\ i # n + 1
      <4>1. i \in 0 .. n /\ i - 1 \in 0 .. n /\ i - 1 # n + 1 /\ i - 1 \in 0 .. n + 1
        BY <1>1, <3>3
      <4>2. g[i] = f[i] /\ g[i - 1] = f[i - 1]
        BY <3>3, <4>1
      <4>3. f[i] = Follow(f, n)[i]
        BY <2>1
      <4>4. f[i] = QueueInto(f[i - 1], batch[i].kind)
        BY <3>3, <4>1, <4>3
      <4> QED  BY <3>3, <4>2, <4>4
    <3> QED  BY <3>1, <3>2, <3>3
  <2>3. g = Follow(g, n + 1)
    BY <2>2
  <2> HIDE DEF g, Follow
  <2>4. n + 1 \in 0 .. N
    BY <1>1, <1>3
  <2> QED  BY <2>3, <2>4
<1>4. N \in Defined
  <2> HIDE DEF Defined
  <2>1. \A i \in 0 .. N : i \in Defined
    BY <1>1, <1>2, <1>3, Reaches
  <2> QED  BY <1>1, <2>1
<1> DEFINE f == CHOOSE f : f = Follow(f, N)
<1>5. f = Follow(f, N) /\ QueueAll(q, batch) = f[N]
  BY <1>4 DEF QueueAll
<1> HIDE DEF f, Defined
<1> DEFINE Good == {n \in 0 .. N : f[n] \in Seq(Fresh)}
<1>6. \A n \in 0 .. N : f[n] = IF n = 0 THEN q ELSE QueueInto(f[n - 1], batch[n].kind)
  BY <1>5
<1>7. 0 \in Good
  BY <1>1, <1>6
<1>8. ASSUME NEW n \in 0 .. N, n < N, n \in Good PROVE n + 1 \in Good
  <2>1. n + 1 \in 1 .. N /\ n + 1 \in 0 .. N /\ (n + 1) - 1 = n /\ n + 1 # 0
    BY <1>1, <1>8
  <2>2. batch[n + 1] \in Fresh
    BY <2>1
  <2>3. batch[n + 1].kind \in WriteKinds
    BY <2>2 DEF Fresh
  <2>4. f[n + 1] = QueueInto(f[n], batch[n + 1].kind)
    BY <1>6, <2>1
  <2>5. f[n] \in Seq(Fresh)
    BY <1>8
  <2>6. f[n + 1] \in Seq(Fresh)
    BY <2>3, <2>4, <2>5, QueueIntoFresh
  <2> QED  BY <2>1, <2>6
<1>9. N \in Good
  <2> HIDE DEF Good
  <2>1. \A i \in 0 .. N : i \in Good
    BY <1>1, <1>7, <1>8, Reaches
  <2> QED  BY <1>1, <2>1
<1> QED  BY <1>5, <1>9

\* A step that keeps where every thread is, what it accepts and what is queued.
LEMMA SameWrites ==
    ASSUME Links, timer'.writes = timer.writes,
           \A c \in Claims : UNCHANGED <<conn[c].pc, conn[c].accepts, conn[c].queue>>
    PROVE  Links'
BY DEF Links, OwnWrites

\* A thread's step: it accepts once the queue of the earlier link is gone, and
\* accepts no more as it leaves the link.
LEMMA StepOwnWrites ==
    ASSUME NEW d, Fields(d), OwnWrites(d), NEW step \in Steps(d, FALSE)
    PROVE  OwnWrites(step[1])
<1>1. << >> \in Seq(Fresh)
  OBVIOUS
<1>2. CASE step \in Dial(d, FALSE)
  <2>1. d.pc # "live" /\ step[1] = [d EXCEPT !.pc = "dialling"]
    BY <1>2 DEF Dial
  <2> QED  BY <2>1 DEF OwnWrites, Fields, ConnectionFields
<1>3. CASE step \in FailDial(d)
  <2> DEFINE n == IF d.attempts < Cap THEN d.attempts + 1 ELSE Cap
             e == [d EXCEPT !.pc = "exited", !.attempts = n]
             b == [d EXCEPT !.pc = "backoff", !.attempts = n]
  <2>1. d.pc = "dialling" /\ step \in {<<e, "unreachable">>, <<b, "error">>}
    BY <1>3 DEF FailDial
  <2>2. d.accepts = FALSE
    BY <2>1 DEF OwnWrites
  <2>3. /\ e.pc = "exited" /\ e.accepts = d.accepts
        /\ b.pc = "backoff" /\ b.accepts = d.accepts
    BY DEF Fields, ConnectionFields
  <2> HIDE DEF e, b, n
  <2>4. OwnWrites(e) /\ OwnWrites(b)
    BY <2>2, <2>3 DEF OwnWrites
  <2> QED  BY <2>1, <2>4
<1>4. CASE step \in Connect(d)
  <2>1. d.pc # "live"
        /\ step[1] = [d EXCEPT !.pc = "greeted", !.attempts = 0, !.alive = TRUE]
    BY <1>4 DEF Connect
  <2>2. step[1].pc = "greeted" /\ step[1].accepts = d.accepts
    BY <2>1 DEF Fields, ConnectionFields
  <2> QED  BY <2>1, <2>2 DEF OwnWrites
<1>5. CASE step \in Accept(d)
  <2>1. step[1] = [d EXCEPT !.pc = "live", !.queue = << >>, !.accepts = TRUE]
    BY <1>5 DEF Accept
  <2>2. step[1].pc = "live" /\ step[1].queue = << >>
    BY <2>1 DEF Fields, ConnectionFields
  <2> QED  BY <1>1, <2>2 DEF OwnWrites
<1>6. CASE step \in DrainWrites(d, FALSE)
  <2>1. PICK up : d.pc = "live"
             /\ step = <<[d EXCEPT !.queue = << >>, !.alive = up], Silent>>
    BY <1>6 DEF DrainWrites
  <2>2. step[1].pc = "live" /\ step[1].queue = << >>
    BY <2>1 DEF Fields, ConnectionFields
  <2> QED  BY <1>1, <2>2 DEF OwnWrites
<1>7. CASE step \in Settle(d, FALSE)
  <2>1. d.pc = "live" /\ step[1] = [d EXCEPT !.slot = NoHeat]
    BY <1>7 DEF Settle
  <2>2. step[1].pc = "live" /\ step[1].queue = d.queue
    BY <2>1 DEF Fields, ConnectionFields
  <2> QED  BY <2>1, <2>2 DEF OwnWrites
<1>8. CASE step \in LoseLink(d, FALSE)
  <2>1. PICK q : step = <<[d EXCEPT !.pc = "backoff", !.accepts = FALSE, !.queue = q],
                          "disconnected">>
    BY <1>8 DEF LoseLink
  <2>2. step[1].pc = "backoff" /\ step[1].accepts = FALSE
    BY <2>1 DEF Fields, ConnectionFields
  <2> QED  BY <2>2 DEF OwnWrites
<1>9. step \notin Leave(d, FALSE)
  BY DEF Leave
<1> QED  BY <1>2, <1>3, <1>4, <1>5, <1>6, <1>7, <1>8, <1>9 DEF Steps

\* A connection just opened, or none, accepts nothing yet.
LEMMA OpenOwnWrites == \A url : OwnWrites(Open(url)) /\ OwnWrites(NoConnection)
BY DEF OwnWrites, Open, NoConnection

\* A step that leaves the connections and the parked writes alone.
LEMMA SameMap == ASSUME Links, timer'.writes = timer.writes, UNCHANGED conn PROVE Links'
BY SameWrites

LEMMA WriteLinks ==
    ASSUME Shape, Links, NEW kind \in WriteKinds, RequestWrite(kind) PROVE Links'
<1>1. timer'.writes = QueueInto(timer.writes, kind) /\ UNCHANGED conn
  BY DEF RequestWrite, Shape
<1>2. timer'.writes \in Seq(Fresh)
  BY <1>1, QueueIntoFresh DEF Links
<1> QED  BY <1>1, <1>2 DEF Links

LEMMA FlapLinks == ASSUME NEW url, Shape, Links, Flap(url) PROVE Links'
<1>1. ASSUME NEW c \in Claims, IsOpen(c)
      PROVE  UNCHANGED <<conn[c].pc, conn[c].accepts, conn[c].queue>>
  BY <1>1 DEF Flap, Shape, Fields, ConnectionFields
<1>2. ASSUME NEW c \in Claims, ~IsOpen(c) PROVE conn'[c] = NoConnection
  BY <1>2 DEF Flap
<1>3. ASSUME NEW c \in Claims PROVE OwnWrites(conn'[c])
  BY <1>1, <1>2, OpenOwnWrites DEF Links, OwnWrites
<1> QED  BY <1>3 DEF Flap, Links

LEMMA BridgeLinks ==
    ASSUME Shape, Links, StageHeat \/ ArmHeat \/ DisarmHeat \/ FinalizeHeat PROVE Links'
<1>1. UNCHANGED timer
  BY DEF StageHeat, ArmHeat, DisarmHeat, FinalizeHeat
<1>2. ASSUME NEW c \in Claims
      PROVE  UNCHANGED <<conn[c].pc, conn[c].accepts, conn[c].queue>>
  <2>1. CASE StageHeat \/ FinalizeHeat
    BY <2>1 DEF StageHeat, FinalizeHeat
  <2>2. CASE ArmHeat
    BY <2>2 DEF ArmHeat, Shape, Fields, ConnectionFields, Claims
  <2>3. CASE DisarmHeat
    BY <2>3 DEF DisarmHeat, Shape, Fields, ConnectionFields, Claims
  <2> QED  BY <2>1, <2>2, <2>3
<1> QED  BY <1>1, <1>2, SameWrites

LEMMA ReconcileLinks == ASSUME Links, Reconcile PROVE Links'
<1>1. ASSUME NEW c \in Claims
      PROVE  conn'[c] \in {Open(tick.url), NoConnection, conn[c]}
  BY ReconcileOpens
<1>2. ASSUME NEW c \in Claims PROVE OwnWrites(conn'[c])
  BY <1>1, OpenOwnWrites DEF Links
<1> QED  BY <1>2, ReconcileOpens DEF Links

\* The parked writes go to the connections that accept them.
LEMMA DeliverLinks == ASSUME Shape, Links, Deliver PROVE Links'
<1>1. timer'.writes = << >>
  BY DEF Deliver, Shape
<1>2. ASSUME NEW c \in Claims PROVE OwnWrites(conn'[c])
  <2>1. CASE IsOpen(c) /\ conn[c].accepts
    <3>1. conn'[c] = [conn[c] EXCEPT !.queue = QueueAll(@, timer.writes)]
      BY <2>1 DEF Deliver
    <3>2. conn'[c].pc = conn[c].pc
          /\ conn'[c].queue = QueueAll(conn[c].queue, timer.writes)
      BY <3>1 DEF Shape, Fields, ConnectionFields
    <3>3. conn[c].pc = "live" /\ conn[c].queue \in Seq(Fresh)
      BY <2>1 DEF Links, OwnWrites
    <3>4. conn'[c].queue \in Seq(Fresh)
      BY <3>2, <3>3, QueueAllFresh DEF Links
    <3> QED  BY <3>2, <3>3, <3>4 DEF OwnWrites
  <2>2. CASE ~(IsOpen(c) /\ conn[c].accepts)
    BY <2>2 DEF Deliver, Links
  <2> QED  BY <2>1, <2>2
<1>3. << >> \in Seq(Fresh)
  OBVIOUS
<1> QED  BY <1>1, <1>2, <1>3 DEF Links

LEMMA DriveLinks == ASSUME NEW c \in Claims, Shape, Links, Drive(c) PROVE Links'
<1>1. PICK step \in Steps(conn[c], FALSE) :
         conn' = [conn EXCEPT ![c] = step[1]] /\ Publish(step[2])
  BY DEF Drive
<1>2. OwnWrites(step[1])
  BY StepOwnWrites DEF Shape, Links
<1>3. ASSUME NEW b \in Claims PROVE OwnWrites(conn'[b])
  BY <1>1, <1>2 DEF Shape, Links
<1>4. timer'.writes = timer.writes
  BY <1>1 DEF Publish, Shape
<1> QED  BY <1>3, <1>4 DEF Links

LEMMA NextLinks == ASSUME IInv, Links, [Next]_vars PROVE Links'
<1>1. Shape
  BY DEF IInv
<1>2. CASE UNCHANGED vars
  BY <1>2, SameMap DEF vars
<1>3. CASE Select
  BY <1>3, SameMap DEF Select
<1>4. CASE \E held \in BOOLEAN : SetManualConnect(held)
  BY <1>1, <1>4, SameMap DEF SetManualConnect, Shape
<1>5. CASE \E url \in Urls, kind \in {"rotorhazard", "mock"} : UpdateTimer(url, kind)
  BY <1>1, <1>5, SameMap DEF UpdateTimer, Shape
<1>6. CASE Sweep
  BY <1>1, <1>6, SameMap DEF Sweep, Shape
<1>7. CASE \E d \in leaving : DriveOut(d)
  BY <1>1, <1>7, SameMap DEF DriveOut, Publish, Shape
<1> QED  BY <1>1, <1>2, <1>3, <1>4, <1>5, <1>6, <1>7, WriteLinks, FlapLinks, BridgeLinks,
            ReconcileLinks, DeliverLinks, DriveLinks DEF Next

\* WritesStayWithTheirLink of TimerConnections, for any addresses and bounds:
\* whatever drops, reconnects and sweeps come between the asking and the
\* drain, what a live connection has queued was asked on that very link.
THEOREM WritesReachTheirOwnLink == Spec => []WritesStayWithTheirLink
<1>1. Init => Links
  BY OpenOwnWrites DEF Init, Links
<1>2. Links => WritesStayWithTheirLink
  <2> SUFFICES ASSUME Links, NEW c \in OpenClaims, conn[c].pc = "live",
                      NEW i \in DOMAIN conn[c].queue
               PROVE  ~conn[c].queue[i].stale
    BY DEF WritesStayWithTheirLink
  <2>1. conn[c].queue \in Seq(Fresh)
    BY DEF Links, OwnWrites, OpenClaims
  <2>2. conn[c].queue[i] \in Fresh
    BY <2>1
  <2> QED  BY <2>2 DEF Fresh
<1>3. IInv /\ Links /\ [Next]_vars => Links'
  BY NextLinks
<1> QED  BY <1>1, <1>2, <1>3, Invariance, PTL DEF Spec
==============================================================================
