-------------------------- MODULE MarshalingProofs --------------------------
(***************************************************************************)
(* Proofs about Marshaling, for any heats, pilots and instants, from any   *)
(* well-formed openings: the log stays well formed; rulings stand once;    *)
(* the folds over the log are defined and what they compute; what one more *)
(* entry may change of them; and from this what may change the result of a *)
(* heat, and what a result keeps of the crossings it is made of.           *)
(***************************************************************************)
EXTENDS Marshaling, FiniteSetTheorems, SequenceTheorems, WellFoundedInduction, TLAPS

\* What an entry must be for the log to stay well formed behind it.
Fits(L, e) ==
  /\ e \in Entries
  /\ e.kind \in Targeting =>
       e.target \in DOMAIN L /\ L[e.target].kind \in RulesOn(e.kind)

\* A fitting entry leaves the log well formed: positions only ever gain
\* entries behind them, so no ruling changes what it is about.
LEMMA AppendType ==
  ASSUME NEW L, TypedLog(L), NEW e, Fits(L, e)
  PROVE  TypedLog(Append(L, e))
<1> DEFINE M == Append(L, e)
<1>1. /\ L \in Seq(Entries)
      /\ e \in Entries
  BY DEF TypedLog, Fits
<1>2. /\ M \in Seq(Entries)
      /\ DOMAIN M = DOMAIN L \cup {Len(L) + 1}
      /\ \A o \in DOMAIN L : M[o] = L[o]
      /\ M[Len(L) + 1] = e
      /\ DOMAIN L = 1..Len(L)
      /\ Len(L) \in Nat
  BY <1>1
<1>3. ASSUME NEW o \in Of(M, Targeting)
      PROVE  M[o].target < o /\ M[M[o].target].kind \in RulesOn(M[o].kind)
  <2>1. CASE o \in DOMAIN L
    <3>1. o \in Of(L, Targeting) /\ M[o] = L[o]
      BY <1>2, <1>3, <2>1 DEF Of
    <3>2. L[o].target < o /\ L[L[o].target].kind \in RulesOn(L[o].kind)
      BY <3>1 DEF TypedLog
    <3>3. L[o].target \in Nat \ {0}
      BY <1>1, <2>1, <3>1 DEF Of, Entries, Targeting, PassRulings
    <3>4. L[o].target \in DOMAIN L
      BY <1>2, <2>1, <3>2, <3>3
    <3> QED
      BY <1>2, <3>1, <3>2, <3>4
  <2>2. CASE o = Len(L) + 1
    BY <1>2, <1>3, <2>2 DEF Of, Fits
  <2> QED
    BY <1>2, <1>3, <2>1, <2>2 DEF Of
<1> QED
  BY <1>2, <1>3 DEF TypedLog

\* A command that rules on an entry names one of a kind it may rule on.
LEMMA RulingsFit ==
  ASSUME TypeOK, NEW o \in DOMAIN log
  PROVE  /\ log[o].kind \in PassKinds \cup {"voided"} => Fits(log, Voided(o))
         /\ log[o].kind \in PassKinds =>
              /\ Fits(log, ThrownOut(o))
              /\ \A at \in Instants :
                   Fits(log, Adjusted(o, at)) /\ Fits(log, Split(o, at))
         /\ log[o].kind \in Reversible => Fits(log, Reversed(o))
<1>1. o \in Nat \ {0}
  BY DEF TypeOK, TypedLog
<1>2. /\ {Voided(o), ThrownOut(o), Reversed(o)} \subseteq Entries
      /\ \A at \in Instants : {Adjusted(o, at), Split(o, at)} \subseteq Entries
  BY <1>1 DEF Entries, Voided, ThrownOut, Reversed, Adjusted, Split
<1> QED
  BY <1>2 DEF Fits, RulesOn, Voided, ThrownOut, Reversed, Adjusted, Split

\* An entry that rules on nothing fits any log.
LEMMA OthersFit ==
  /\ \A h \in Heats :
       /\ Fits(log, Scheduled(h)) /\ Fits(log, Expired(h))
       /\ Fits(log, HeatVoided(h))
       /\ \A t \in Transitions : Fits(log, Moved(h, t))
  /\ \A h \in Heats, p \in Pilots, at \in Instants :
       Fits(log, Pass(h, p, at)) /\ Fits(log, Inserted(h, p, at))
  /\ \A p \in Pilots, at \in Instants : Fits(log, Inserted(NoHeat, p, at))
  /\ \A h \in Heats, p \in Pilots, sort \in {"disqualify", "time", "points"} :
       Fits(log, Penalty(h, p, sort))
BY DEF Fits, Entries, Targeting, PassRulings, Scheduled, Expired, HeatVoided,
       Moved, Pass, Inserted, Penalty

\* What the guards see to: of a ruling on an entry, of one that may stand but
\* once, of one on a heat, of a crossing put somewhere, and of the race's own.
Guarded(e) ==
  /\ e.kind \in Targeting => TargetNotFinal(e.target)
  /\ e.kind \in PassRulings => InCurrentRun(e.target)
  /\ e.kind = "thrownOut" => NotThrownOut(e.target)
  /\ e.kind = "penalty" /\ e.sort = "disqualify" =>
       NotDisqualified(e.heat, e.pilot)
  /\ e.kind = "heatVoided" => NotVoided(e.heat)
  /\ e.kind \in {"inserted", "penalty", "heatVoided"} =>
       NotFinal(IF e.heat = NoHeat THEN PositionalHeat(log, Len(log)) ELSE e.heat)
  /\ e.kind = "inserted" /\ e.heat # NoHeat => NoCollision(e.heat, e.pilot, e.at, 0)
  /\ e.kind \in {"adjusted", "split"} =>
       LET h == HeatOf(log, e.target)
       IN  h # NoHeat =>
             NoCollision(h, PilotAt(log, e.target), e.at,
                         IF e.kind = "adjusted" THEN e.target ELSE 0)
  /\ e.kind = "scheduled" => HeatState(log, e.heat) \in {Unknown, "Scheduled"}
  /\ e.kind = "moved" =>
       \E c \in Commands : /\ e.transition = Records(c)
                           /\ HeatState(log, e.heat) \in LegalIn(c)
  /\ e.kind = "pass" => Moves(log, e.heat, {"Running"}) # {}
  /\ e.kind = "expired" => HeatState(log, e.heat) = "Running"

\* Every step records one fitting, guarded entry: first the rulings that name
\* an entry, then everything else.
LEMMA RulingStep ==
  ASSUME TypeOK, NEW o \in DOMAIN log,
         \/ VoidDetection(o)
         \/ ThrowOutLap(o)
         \/ ReverseRuling(o)
         \/ \E at \in Instants : AdjustLap(o, at)
         \/ \E at \in Instants : SplitLap(o, at)
  PROVE  \E e : Record(e) /\ Fits(log, e) /\ Guarded(e)
<1>1. CASE VoidDetection(o)
  <2>1. log[o].kind \in PassKinds \cup {"voided"}
    BY <1>1 DEF VoidDetection, LapEnds, Of
  <2>2. Guarded(Voided(o))
    BY <1>1 DEF VoidDetection, Guarded, Voided, Targeting, PassRulings
  <2> QED
    BY <1>1, <2>1, <2>2, RulingsFit DEF VoidDetection
<1>2. CASE ThrowOutLap(o)
  <2>1. log[o].kind \in PassKinds
    BY <1>2 DEF ThrowOutLap, LapEnds, Of
  <2>2. Guarded(ThrownOut(o))
    BY <1>2 DEF Guarded, ThrownOut, ThrowOutLap, Targeting, PassRulings
  <2> QED
    BY <1>2, <2>1, <2>2, RulingsFit DEF ThrowOutLap
<1>3. CASE ReverseRuling(o)
  <2>1. log[o].kind \in Reversible
    BY <1>3 DEF ReverseRuling, Of
  <2>2. Guarded(Reversed(o))
    BY <1>3 DEF ReverseRuling, Guarded, Reversed, Targeting, PassRulings
  <2> QED
    BY <1>3, <2>1, <2>2, RulingsFit DEF ReverseRuling
<1>4. ASSUME NEW at \in Instants, AdjustLap(o, at)
      PROVE  \E e : Record(e) /\ Fits(log, e) /\ Guarded(e)
  <2>1. log[o].kind \in PassKinds
    BY <1>4 DEF AdjustLap, Placeable, LapEnds, Of
  <2>2. Guarded(Adjusted(o, at))
    BY <1>4 DEF AdjustLap, Placeable, Guarded, Adjusted, Targeting, PassRulings
  <2> QED
    BY <1>4, <2>1, <2>2, RulingsFit DEF AdjustLap
<1>5. ASSUME NEW at \in Instants, SplitLap(o, at)
      PROVE  \E e : Record(e) /\ Fits(log, e) /\ Guarded(e)
  <2>1. log[o].kind \in PassKinds
    BY <1>5 DEF SplitLap, Placeable, LapEnds, Of
  <2>2. Guarded(Split(o, at))
    BY <1>5 DEF SplitLap, Placeable, Guarded, Split, Targeting, PassRulings
  <2> QED
    BY <1>5, <2>1, <2>2, RulingsFit DEF SplitLap
<1> QED
  BY <1>1, <1>2, <1>3, <1>4, <1>5

LEMMA StepRecords ==
  ASSUME TypeOK, Next
  PROVE  \E e : Record(e) /\ Fits(log, e) /\ Guarded(e)
<1> DEFINE Goal == \E e : Record(e) /\ Fits(log, e) /\ Guarded(e)
<1>1. ASSUME NEW h \in Heats, VoidHeat(h)
      PROVE  Goal
  <2>1. Guarded(HeatVoided(h))
    BY <1>1, LogAssumption DEF Guarded, HeatVoided, VoidHeat, Targeting, PassRulings
  <2> QED
    BY <1>1, <2>1, OthersFit DEF VoidHeat
<1>2. ASSUME NEW h \in Heats, NEW p \in Pilots,
             NEW sort \in {"disqualify", "time", "points"},
             ApplyPenalty(h, p, sort)
      PROVE  Goal
  <2>1. Guarded(Penalty(h, p, sort))
    BY <1>2, LogAssumption DEF Guarded, Penalty, ApplyPenalty, Targeting, PassRulings
  <2> QED
    BY <1>2, <2>1, OthersFit DEF ApplyPenalty
<1>3. ASSUME NEW h, NEW p \in Pilots, NEW at \in Instants,
             \/ h \in Heats /\ InsertLap(h, p, at)
             \/ h = NoHeat /\ InsertUntagged(p, at)
      PROVE  Goal
  <2>1. Guarded(Inserted(h, p, at))
    BY <1>3, LogAssumption
    DEF Guarded, Inserted, InsertLap, InsertUntagged, Targeting, PassRulings
  <2> QED
    BY <1>3, <2>1, OthersFit DEF InsertLap, InsertUntagged
<1>4. ASSUME NEW h \in Heats, ScheduleHeat(h) \/ ExpireRace(h)
      PROVE  Goal
  <2>1. CASE ScheduleHeat(h)
    <3>1. Guarded(Scheduled(h))
      BY <2>1 DEF Guarded, Scheduled, ScheduleHeat, Targeting, PassRulings
    <3> QED
      BY <2>1, <3>1, OthersFit DEF ScheduleHeat
  <2>2. CASE ExpireRace(h)
    <3>1. Guarded(Expired(h))
      BY <2>2 DEF Guarded, Expired, ExpireRace, Targeting, PassRulings
    <3> QED
      BY <2>2, <3>1, OthersFit DEF ExpireRace
  <2> QED
    BY <1>4, <2>1, <2>2
<1>5. ASSUME NEW h \in Heats, NEW c \in Commands, HeatLoopStep(h, c)
      PROVE  Goal
  <2>1. Records(c) \in Transitions
    BY DEF Commands, Records, Transitions
  <2>2. Guarded(Moved(h, Records(c)))
    BY <1>5 DEF HeatLoopStep, Guarded, Moved, Targeting, PassRulings
  <2> QED
    BY <1>5, <2>1, <2>2, OthersFit DEF HeatLoopStep
<1>6. ASSUME NEW h \in Heats, NEW p \in Pilots, NEW at \in Instants,
             RecordPass(h, p, at)
      PROVE  Goal
  <2>1. Guarded(Pass(h, p, at))
    BY <1>6 DEF Guarded, Pass, RecordPass, Targeting, PassRulings
  <2> QED
    BY <1>6, <2>1, OthersFit DEF RecordPass
<1> QED
  BY <1>1, <1>2, <1>3, <1>4, <1>5, <1>6, RulingStep DEF Next, Marshal, Race

\* Whatever the race director and the timers do, the log holds what it may
\* hold, and every ruling in it is about an earlier entry of a kind it may be
\* about: the folds that follow targets down the log always end.
THEOREM TypeCorrect == Spec => []TypeOK
<1>1. Init => TypeOK
  BY OpeningAssumption DEF Init, TypeOK
<1>2. TypeOK /\ [Next]_log => TypeOK'
  BY StepRecords, AppendType DEF Record, TypeOK
<1> QED
  BY <1>1, <1>2, PTL DEF Spec
-----------------------------------------------------------------------------
(* Rulings that may stand but once. *)

\* What the latest of some positions is rests on sets of numbers having a
\* greatest member.
LEMMA LeastOf ==
  ASSUME NEW S \in SUBSET Nat, S # {}
  PROVE  \E x \in S : \A y \in S : x <= y
<1> DEFINE R == OpToRel(<, Nat)
<1>1. IsWellFoundedOn(R, Nat)
  BY NatLessThanWellFounded, Zenon
<1>2. \A x, y \in Nat : x < y => <<x, y>> \in R
  BY DEF OpToRel
<1> HIDE DEF R
<1>3. PICK x \in S : \A y \in S : <<y, x>> \notin R
  BY <1>1, WFMin
<1>4. \A y \in S : x \in Nat /\ y \in Nat /\ ~(y < x)
  BY <1>2, <1>3
<1> QED
  BY <1>4

LEMMA LatestIn ==
  ASSUME NEW n \in Nat, NEW S \in SUBSET (1..n)
  PROVE  /\ S = {} => Latest(S) = 0
         /\ S # {} => Latest(S) \in S /\ \A y \in S : Latest(S) >= y
<1> SUFFICES ASSUME S # {}
             PROVE  \E x \in S : \A y \in S : x >= y
  BY DEF Latest, Max
<1> DEFINE T == {n - x : x \in S}
<1>1. T \in SUBSET Nat /\ T # {}
  <2>1. \A x \in S : n - x \in Nat
    OBVIOUS
  <2> QED
    BY <2>1, Zenon
<1>2. PICK t \in T : \A y \in T : t <= y
  BY <1>1, LeastOf
<1>3. PICK x \in S : t = n - x
  BY <1>2
<1>4. \A y \in S : n - x <= n - y
  BY <1>2, <1>3
<1> QED
  BY <1>3, <1>4

\* A ruling in force after an append was in force before it, or is the entry.
LEMMA StandingAppend ==
  ASSUME NEW L \in Seq(Entries), NEW e \in Entries, NEW kinds,
         NEW r \in Standing(Append(L, e), DOMAIN Append(L, e), kinds)
  PROVE  \/ r = Len(L) + 1 /\ Append(L, e)[r] = e /\ e.kind \in kinds
         \/ /\ r \in Standing(L, DOMAIN L, kinds)
            /\ r \in 1..Len(L)
            /\ Append(L, e)[r] = L[r]
<1> DEFINE M == Append(L, e)
<1>1. /\ DOMAIN M = DOMAIN L \cup {Len(L) + 1}
      /\ DOMAIN L = 1..Len(L)
      /\ \A o \in DOMAIN L : M[o] = L[o]
      /\ M[Len(L) + 1] = e
  OBVIOUS
<1>2. r \in DOMAIN M /\ M[r].kind \in kinds
  BY DEF Standing, Of
<1>3. CASE r \in DOMAIN L
  <2>1. \A v \in Of(L, {"reversed"}) : v \in Of(M, {"reversed"}) /\ M[v] = L[v]
    BY <1>1 DEF Of
  <2>2. \A v \in DOMAIN M \cap Of(M, {"reversed"}) : M[v].target # r
    BY DEF Standing
  <2>3. \A v \in DOMAIN L \cap Of(L, {"reversed"}) : L[v].target # r
    BY <1>1, <2>1, <2>2
  <2> QED
    BY <1>1, <1>2, <1>3, <2>3 DEF Standing, Of
<1> QED
  BY <1>1, <1>2, <1>3

LEMMA RunStartNat ==
  ASSUME NEW L \in Seq(Entries), NEW h
  PROVE  RunStart(L, h) \in Nat
<1> DEFINE marks == Moves(L, h, {"Running"} \cup Resets)
<1>1. /\ Len(L) \in Nat
      /\ marks \in SUBSET (1..Len(L))
      /\ \A m \in marks : m \in Nat
  BY DEF Moves, Of
<1> HIDE DEF marks
<1>2. CASE marks = {}
  BY <1>1, <1>2 DEF RunStart, Latest, marks
<1>3. CASE marks # {}
  <2>1. Latest(marks) \in marks
    BY <1>1, <1>3, LatestIn
  <2>2. Latest(marks) \in Nat
    BY <1>1, <2>1
  <2> QED
    BY <1>1, <2>2 DEF RunStart, marks
<1> QED
  BY <1>2, <1>3

\* The start of a heat's run stays where it is, or moves to the end of the log.
LEMMA RunStartAppend ==
  ASSUME NEW L \in Seq(Entries), NEW e \in Entries, NEW h
  PROVE  \/ RunStart(Append(L, e), h) = RunStart(L, h)
         \/ \A o \in 1..Len(L) : ~(RunStart(Append(L, e), h) <= o)
<1> DEFINE M      == Append(L, e)
           ts     == {"Running"} \cup Resets
           before == Moves(L, h, ts)
           after  == Moves(M, h, ts)
<1>1. /\ DOMAIN M = 1..Len(L) + 1
      /\ DOMAIN L = 1..Len(L)
      /\ Len(M) = Len(L) + 1
      /\ Len(L) \in Nat
      /\ \A o \in DOMAIN L : M[o] = L[o]
      /\ M[Len(L) + 1] = e
  OBVIOUS
<1>2. /\ before \in SUBSET (1..Len(L))
      /\ after \in SUBSET (1..Len(L) + 1)
      /\ \A o \in after : o \in Nat /\ o <= Len(L) + 1
      /\ \A o \in 1..Len(L) : o \in before <=> o \in after
  BY <1>1 DEF Moves, Of
<1> HIDE DEF M, before, after
<1>3. CASE Len(L) + 1 \in after
  <2>1. Latest(after) \in after /\ Latest(after) >= Len(L) + 1
    <3>1. Len(L) + 1 \in Nat
      BY <1>1
    <3> QED
      BY <1>2, <1>3, <3>1, LatestIn
  <2>2. RunStart(M, h) \in {Len(L) + 1, Len(L) + 2}
    <3> DEFINE mark == Latest(after)
               end  == Len(L) + 1
    <3>1. mark \in Nat /\ mark <= end /\ mark >= end
      BY <1>2, <2>1
    <3>2. end \in Nat
      BY <1>1
    <3>3. mark = end
      <4> HIDE DEF mark, end
      <4> QED
        BY <3>1, <3>2
    <3> QED
      BY <1>1, <3>3 DEF RunStart, after
  <2> QED
    BY <1>1, <2>2 DEF M
<1>4. CASE Len(L) + 1 \notin after
  <2>1. after = before
    <3>1. after \subseteq 1..Len(L)
      BY <1>1, <1>2, <1>4
    <3> QED
      BY <1>2, <3>1
  <2>2. CASE before = {}
    <3>1. RunStart(M, h) = Len(L) + 2
      <4>1. Latest(after) = 0
        BY <2>1, <2>2 DEF Latest
      <4> QED
        BY <1>1, <4>1 DEF RunStart, after
    <3> QED
      BY <1>1, <3>1 DEF M
  <2>3. CASE before # {}
    <3>1. Latest(before) \in 1..Len(L)
      BY <1>1, <1>2, <2>3, LatestIn
    <3>2. M[Latest(before)] = L[Latest(before)]
      BY <1>1, <3>1
    <3> QED
      BY <1>1, <2>1, <3>1, <3>2 DEF RunStart, before, after, M
  <2> QED
    BY <2>2, <2>3
<1> QED
  BY <1>3, <1>4

\* A guarded entry leaves no ruling in force twice.
LEMMA SinglesKept ==
  ASSUME TypeOK, OneOfAKind, NEW e, Record(e), Fits(log, e), Guarded(e)
  PROVE  OneOfAKind'
<1> DEFINE InForce(kind)  == Standing(log, DOMAIN log, {kind})
           InForce2(kind) == Standing(log', DOMAIN log', {kind})
<1>1. log \in Seq(Entries) /\ e \in Entries /\ log' = Append(log, e)
  BY DEF TypeOK, TypedLog, Fits, Record
<1>2. ASSUME NEW kind, NEW r \in InForce2(kind)
      PROVE  \/ r = Len(log) + 1 /\ log'[r] = e /\ e.kind = kind
             \/ r \in InForce(kind) /\ r \in 1..Len(log) /\ log'[r] = log[r]
  <2> DEFINE kinds == {kind}
  <2>1. r \in Standing(Append(log, e), DOMAIN Append(log, e), kinds)
    BY <1>1, <1>2
  <2> HIDE DEF kinds
  <2>2. \/ r = Len(log) + 1 /\ Append(log, e)[r] = e /\ e.kind \in kinds
        \/ /\ r \in Standing(log, DOMAIN log, kinds)
           /\ r \in 1..Len(log)
           /\ Append(log, e)[r] = log[r]
    BY <1>1, <2>1, StandingAppend
  <2> QED
    BY <1>1, <2>2 DEF kinds
<1>3. ASSUME NEW r \in InForce2("thrownOut"), NEW s \in InForce2("thrownOut"),
             log'[r].target = log'[s].target
      PROVE  r = s
  <2>1. \A t \in InForce("thrownOut") :
          e.kind = "thrownOut" => log[t].target # e.target
    BY DEF Guarded, NotThrownOut, StandingInLog
  <2>2. \A t, u \in InForce("thrownOut") : log[t].target = log[u].target => t = u
    BY DEF OneOfAKind, SingleRulings
  <2> HIDE DEF InForce, InForce2
  <2> QED
    BY <1>2, <1>3, <2>1, <2>2
<1>4. ASSUME NEW r \in InForce2("penalty"), NEW s \in InForce2("penalty"),
             log'[r] = log'[s], log'[r].sort = "disqualify"
      PROVE  r = s
  <2>1. ASSUME e.kind = "penalty", e.sort = "disqualify",
               NEW t \in InForce("penalty")
        PROVE  log[t] # e
    <3>1. e = Penalty(e.heat, e.pilot, e.sort)
      BY <1>1, <2>1 DEF Entries, Penalty
    <3> QED
      BY <2>1, <3>1 DEF Guarded, NotDisqualified, StandingInLog
  <2>2. \A t, u \in InForce("penalty") :
          log[t] = log[u] /\ log[t].sort = "disqualify" => t = u
    BY DEF OneOfAKind, SingleRulings
  <2> HIDE DEF InForce, InForce2
  <2> QED
    BY <1>2, <1>4, <2>1, <2>2
<1>5. ASSUME NEW r \in InForce2("heatVoided"), NEW s \in InForce2("heatVoided"),
             log'[r].heat = log'[s].heat,
             RunStart(log', log'[r].heat) <= r,
             RunStart(log', log'[r].heat) <= s
      PROVE  r = s
  <2> DEFINE h == log'[r].heat
  <2>1. \A t \in InForce("heatVoided") :
          e.kind = "heatVoided" /\ log[t].heat = e.heat
            => t < RunStart(log, e.heat)
    BY DEF Guarded, NotVoided, StandingInLog
  <2>2. \A t, u \in InForce("heatVoided") :
          /\ log[t].heat = log[u].heat
          /\ RunStart(log, log[t].heat) <= t
          /\ RunStart(log, log[t].heat) <= u
          => t = u
    BY DEF OneOfAKind, SingleRulings
  <2>3. \/ RunStart(log', h) = RunStart(log, h)
        \/ \A o \in 1..Len(log) : ~(RunStart(log', h) <= o)
    BY <1>1, RunStartAppend
  <2>4. RunStart(log, h) \in Nat
    BY <1>1, RunStartNat
  <2> HIDE DEF InForce, InForce2
  <2> QED
    BY <1>2, <1>5, <2>1, <2>2, <2>3, <2>4
<1> QED
  BY <1>3, <1>4, <1>5 DEF OneOfAKind, SingleRulings

\* However often a heat is reset and raced again and rulings are reversed, no
\* lap is thrown out, no pilot disqualified and no run voided twice at a time:
\* the reversal of what is in force leaves nothing of it in force.
THEOREM SingleInForce == Spec => []OneOfAKind
<1>1. Init => TypeOK /\ OneOfAKind
  BY OpeningAssumption DEF Init, TypeOK, OneOfAKind
<1>2. TypeOK /\ OneOfAKind /\ [Next]_log => (TypeOK /\ OneOfAKind)'
  <2>1. CASE Next
    BY <2>1, StepRecords, AppendType, SinglesKept DEF Record, TypeOK
  <2>2. CASE UNCHANGED log
    BY <2>2 DEF TypeOK, OneOfAKind
  <2> QED
    BY <2>1, <2>2
<1> QED
  BY <1>1, <1>2, PTL DEF Spec
-----------------------------------------------------------------------------
(***************************************************************************)
(* The folds that follow targets down the log are defined: each is a       *)
(* function of the positions whose value at a position rests on its value  *)
(* at an earlier one.                                                      *)
(***************************************************************************)

\* What holds at 0, and at n + 1 whenever at n, is reached everywhere.
LEMMA Reaches ==
  ASSUME NEW N \in Nat, NEW T \in SUBSET (0..N), 0 \in T,
         \A n \in 0..N : n < N /\ n \in T => n + 1 \in T
  PROVE  N \in T
<1> SUFFICES ASSUME N \notin T
             PROVE  FALSE
  OBVIOUS
<1>1. (0..N) \ T \in SUBSET Nat /\ (0..N) \ T # {}
  OBVIOUS
<1>2. PICK x \in (0..N) \ T : \A y \in (0..N) \ T : x <= y
  BY <1>1, LeastOf
<1>3. x # 0 /\ x - 1 \in 0..N /\ x - 1 < N /\ ~(x <= x - 1)
  BY <1>2
<1>4. x - 1 \in T /\ (x - 1) + 1 = x
  BY <1>2, <1>3
<1> QED
  BY <1>2, <1>3, <1>4

IsFold(f, D, R, t, base, next) ==
  f = [i \in D |-> IF i \in R THEN next[i][f[t[i]]] ELSE base[i]]

\* Such a function exists, over any D whose members have a rank, with values in
\* any V: where it rests on a member of lower rank (R), it is the value there
\* put through next.
LEMMA RankedRecursion ==
  ASSUME NEW K \in Nat, NEW D, NEW rank \in [D -> 0..K], NEW R \in SUBSET D,
         NEW t \in [R -> D], \A i \in R : rank[t[i]] < rank[i],
         NEW V, NEW base \in [D -> V], NEW next \in [R -> [V -> V]]
  PROVE  \E f \in [D -> V] : IsFold(f, D, R, t, base, next)
<1> DEFINE Upto(n)  == {i \in D : rank[i] <= n}
           Is(f, i) == f[i] = IF i \in R THEN next[i][f[t[i]]] ELSE base[i]
           T        == {n \in 0..K : \E f \in [Upto(n) -> V] : \A i \in Upto(n) : Is(f, i)}
<1>0. /\ \A i \in D : rank[i] \in Nat /\ rank[i] <= K
      /\ \A i \in R : i \in D /\ t[i] \in D /\ rank[t[i]] < rank[i]
  OBVIOUS
<1>1. 0 \in T
  <2> DEFINE f == [i \in Upto(0) |-> base[i]]
  <2>1. \A i \in Upto(0) : i \notin R
    <3>1. \A i \in R : rank[i] \in Nat /\ rank[t[i]] \in Nat /\ rank[t[i]] < rank[i]
      BY <1>0
    <3> QED
      BY <3>1
  <2>2. f \in [Upto(0) -> V] /\ \A i \in Upto(0) : Is(f, i)
    BY <2>1
  <2> HIDE DEF f, Upto, Is
  <2> QED
    BY <2>2
<1>2. ASSUME NEW n \in 0..K, n < K, n \in T
      PROVE  n + 1 \in T
  <2>1. PICK f \in [Upto(n) -> V] : \A i \in Upto(n) : Is(f, i)
    BY <1>2
  <2> DEFINE m == n + 1
             v(i) == IF i \in R THEN next[i][f[t[i]]] ELSE base[i]
             g == [i \in Upto(m) |-> IF rank[i] = m THEN v(i) ELSE f[i]]
  <2>0. n \in Nat /\ \A i \in Nat : i < m <=> i <= n
    OBVIOUS
  <2>2. \A i \in R : rank[i] <= m => t[i] \in Upto(n) /\ t[i] \in Upto(m) /\ rank[t[i]] # m
    <3> SUFFICES ASSUME NEW i \in R, rank[i] <= m
                 PROVE  t[i] \in D /\ rank[t[i]] <= n /\ rank[t[i]] <= m /\ rank[t[i]] # m
      OBVIOUS
    <3>1. rank[i] \in Nat /\ rank[t[i]] \in Nat /\ rank[t[i]] < rank[i] /\ t[i] \in D
      BY <1>0
    <3> HIDE DEF Upto, Is, g, v
    <3> QED
      BY <2>0, <3>1
  <2>3. \A i \in Upto(m) : v(i) \in V
    <3> SUFFICES ASSUME NEW i \in Upto(m)
                 PROVE  v(i) \in V
      OBVIOUS
    <3>1. i \in R => t[i] \in Upto(n)
      BY <2>2
    <3>2. i \in R => f[t[i]] \in V
      BY <2>1, <3>1
    <3> QED
      BY <3>2
  <2>4. \A i \in Upto(m) : rank[i] # m => i \in Upto(n)
    <3> SUFFICES ASSUME NEW i \in D, rank[i] <= m, rank[i] # m
                 PROVE  rank[i] <= n
      OBVIOUS
    <3>1. rank[i] \in Nat
      BY <1>0
    <3> HIDE DEF Upto, Is, g, v
    <3> QED
      BY <2>0, <3>1
  <2>5. g \in [Upto(m) -> V]
    BY <2>3, <2>4
  <2>6. ASSUME NEW i \in Upto(m)
        PROVE  Is(g, i)
    <3>1. i \in R => t[i] \in Upto(m) /\ rank[t[i]] # m /\ t[i] \in Upto(n)
      BY <2>2
    <3>2. i \in R => g[t[i]] = f[t[i]]
      BY <3>1
    <3>3. CASE rank[i] = m
      BY <3>2, <3>3
    <3>4. CASE rank[i] # m
      <4>1. g[i] = f[i] /\ Is(f, i)
        BY <2>1, <2>4, <3>4
      <4> QED
        BY <3>2, <4>1
    <3> QED
      BY <3>3, <3>4
  <2>7. m \in 0..K
    BY <1>2
  <2> HIDE DEF m, g, Upto, Is
  <2>8. m \in T
    BY <2>5, <2>6, <2>7
  <2> QED
    BY <2>8 DEF m
<1>3. K \in T
  <2> HIDE DEF T
  <2>1. T \in SUBSET (0..K)
    BY DEF T
  <2> QED
    BY <1>1, <1>2, <2>1, Reaches
<1>4. PICK f \in [Upto(K) -> V] : \A i \in Upto(K) : Is(f, i)
  BY <1>3
<1>5. Upto(K) = D
  BY <1>0
<1>6. f = [i \in D |-> IF i \in R THEN next[i][f[t[i]]] ELSE base[i]]
  <2> HIDE DEF Upto
  <2> QED
    BY <1>4, <1>5
<1> QED
  BY <1>4, <1>5, <1>6 DEF IsFold

\* Positions have themselves for a rank.
LEMMA Recursion ==
  ASSUME NEW K \in Nat, NEW D \in SUBSET (1..K), NEW R \in SUBSET D,
         NEW t \in [R -> D], \A i \in R : t[i] < i,
         NEW V, NEW base \in [D -> V], NEW next \in [R -> [V -> V]]
  PROVE  \E f \in [D -> V] : IsFold(f, D, R, t, base, next)
<1> DEFINE rank == [i \in D |-> i]
<1>1. rank \in [D -> 0..K]
  OBVIOUS
<1>2. \A i \in R : rank[t[i]] < rank[i]
  OBVIOUS
<1> HIDE DEF rank
<1> QED
  BY <1>1, <1>2, RankedRecursion

\* A ruling in a well-formed log names an earlier entry.
LEMMA TargetsBelow ==
  ASSUME NEW L, TypedLog(L), NEW o \in Of(L, Targeting)
  PROVE  /\ o \in DOMAIN L /\ L[o].target \in DOMAIN L /\ L[o].target < o
         /\ L[L[o].target].kind \in RulesOn(L[o].kind)
<1>1. /\ L \in Seq(Entries)
      /\ L[o].target < o
      /\ L[L[o].target].kind \in RulesOn(L[o].kind)
  BY DEF TypedLog
<1>2. o \in DOMAIN L /\ L[o].kind \in Targeting /\ L[o] \in Entries
  BY <1>1 DEF Of
<1>3. L[o].target \in Nat \ {0}
  BY <1>2 DEF Entries, Targeting, PassRulings
<1> QED
  BY <1>1, <1>2, <1>3

LEMMA HeatOfIs ==
  ASSUME NEW L, TypedLog(L), NEW o \in DOMAIN L
  PROVE  HeatOf(L, o) =
           IF L[o].kind \in Targeting THEN HeatOf(L, L[o].target)
           ELSE IF L[o].kind = "expired" \/ L[o].heat = NoHeat
             THEN PositionalHeat(L, o) ELSE L[o].heat
<1> DEFINE D == DOMAIN L
           R == Of(L, Targeting)
           t == [i \in R |-> L[i].target]
           base == [i \in D |-> IF L[i].kind = "expired" \/ L[i].heat = NoHeat
                                  THEN PositionalHeat(L, i) ELSE L[i].heat]
           V == {base[i] : i \in D}
           next == [i \in R |-> [v \in V |-> v]]
           Folds(f) == f = [i \in D |->
             IF L[i].kind \in Targeting THEN f[L[i].target]
             ELSE IF L[i].kind = "expired" \/ L[i].heat = NoHeat
               THEN PositionalHeat(L, i) ELSE L[i].heat]
<1>1. Len(L) \in Nat /\ D = 1..Len(L) /\ R \subseteq D
  BY DEF TypedLog, Of
<1>2. \A i \in R : L[i].target \in D /\ L[i].target < i
  BY TargetsBelow
<1>3. t \in [R -> D] /\ \A i \in R : t[i] < i
  BY <1>2
<1>4. base \in [D -> V] /\ next \in [R -> [V -> V]]
  OBVIOUS
<1>5. PICK f \in [D -> V] :
        f = [i \in D |-> IF i \in R THEN next[i][f[t[i]]] ELSE base[i]]
  <2> HIDE DEF D, R, t, base, V, next
  <2>1. D \in SUBSET (1..Len(L)) /\ R \in SUBSET D
    BY <1>1
  <2>2. \E f \in [D -> V] : IsFold(f, D, R, t, base, next)
    BY <1>1, <1>3, <1>4, <2>1, Recursion
  <2> QED
    BY <2>2 DEF IsFold
<1>6. \A i \in D : i \in R <=> L[i].kind \in Targeting
  BY DEF Of
<1>7. \A i \in R : next[i][f[t[i]]] = f[L[i].target]
  BY <1>2, <1>5
<1>8. Folds(f)
  <2> HIDE DEF R, t, next, V
  <2> QED
    BY <1>5, <1>6, <1>7
<1> DEFINE of == CHOOSE g : Folds(g)
<1>9. Folds(of)
  BY <1>8
<1>10. \A i : HeatOf(L, i) = of[i]
  BY DEF HeatOf
<1> HIDE DEF of
<1> QED
  BY <1>9, <1>10

\* h's window takes in the entry at i, which rules on no other.
Takes(L, h, i) == Admits(L, h, RunStart(L, h), PassCeiling(L, h), i)

LEMMA WindowIs ==
  ASSUME NEW L, TypedLog(L), NEW h
  PROVE  /\ Window(L, h) \subseteq DOMAIN L
         /\ \A i \in DOMAIN L :
              i \in Window(L, h) <=>
                IF L[i].kind \in Targeting
                  THEN i >= RunStart(L, h) /\ L[i].target \in Window(L, h)
                  ELSE Takes(L, h, i)
<1> DEFINE D == DOMAIN L
           R == Of(L, Targeting)
           t == [i \in R |-> L[i].target]
           start == RunStart(L, h)
           ceiling == PassCeiling(L, h)
           base == [i \in D |-> Admits(L, h, start, ceiling, i)]
           next == [i \in R |-> [v \in BOOLEAN |-> i >= start /\ v]]
           Folds(f) == f = [i \in D |->
             IF L[i].kind \in Targeting THEN i >= start /\ f[L[i].target]
             ELSE Admits(L, h, start, ceiling, i)]
<1>1. Len(L) \in Nat /\ D = 1..Len(L) /\ R \subseteq D
  BY DEF TypedLog, Of
<1>2. \A i \in R : L[i].target \in D /\ L[i].target < i
  BY TargetsBelow
<1>3. t \in [R -> D] /\ \A i \in R : t[i] < i
  BY <1>2
<1>4. base \in [D -> BOOLEAN] /\ next \in [R -> [BOOLEAN -> BOOLEAN]]
  BY DEF Admits
<1>5. PICK f \in [D -> BOOLEAN] :
        f = [i \in D |-> IF i \in R THEN next[i][f[t[i]]] ELSE base[i]]
  <2> HIDE DEF D, R, t, base, next
  <2>1. D \in SUBSET (1..Len(L)) /\ R \in SUBSET D
    BY <1>1
  <2>2. \E f \in [D -> BOOLEAN] : IsFold(f, D, R, t, base, next)
    BY <1>1, <1>3, <1>4, <2>1, Recursion
  <2> QED
    BY <2>2 DEF IsFold
<1>6. \A i \in D : i \in R <=> L[i].kind \in Targeting
  BY DEF Of
<1>7. \A i \in R : next[i][f[t[i]]] = (i >= start /\ f[L[i].target])
  BY <1>2, <1>5
<1>8. Folds(f)
  <2>1. \A i \in D : f[i] = IF L[i].kind \in Targeting THEN i >= start /\ f[L[i].target]
                            ELSE Admits(L, h, start, ceiling, i)
    <3> HIDE DEF R, t, next, start, ceiling
    <3> QED
      BY <1>5, <1>6, <1>7
  <2>2. f = [i \in D |-> f[i]]
    BY <1>5
  <2> HIDE DEF next, base, R, t, start, ceiling
  <2> QED
    BY <2>1, <2>2
<1> DEFINE in == CHOOSE g : Folds(g)
<1>9. Folds(in)
  BY <1>8
<1>10. Window(L, h) = {i \in D : in[i]}
  BY DEF Window
<1> HIDE DEF in
<1>11. \A i \in D :
         in[i] <=> IF L[i].kind \in Targeting THEN i >= start /\ in[L[i].target]
                   ELSE Takes(L, h, i)
  BY <1>9 DEF Takes
<1>12. \A i \in D : L[i].kind \in Targeting => L[i].target \in D
  BY <1>2, <1>6
<1> QED
  <2> HIDE DEF R, t, next, base, start
  <2> QED
    BY <1>10, <1>11, <1>12 DEF start

LEMMA ChainIs ==
  ASSUME NEW L, TypedLog(L), NEW o \in Of(L, {"voided"})
  PROVE  Chain(L, o) =
           IF L[L[o].target].kind = "voided"
             THEN [base |-> Chain(L, L[o].target).base,
                   gone |-> ~Chain(L, L[o].target).gone]
             ELSE [base |-> L[o].target, gone |-> TRUE]
<1> DEFINE D == Of(L, {"voided"})
           R == {i \in D : L[L[i].target].kind = "voided"}
           t == [i \in R |-> L[i].target]
           V == [base : DOMAIN L, gone : BOOLEAN]
           base == [i \in D |-> [base |-> L[i].target, gone |-> TRUE]]
           next == [i \in R |-> [v \in V |-> [base |-> v.base, gone |-> ~v.gone]]]
           Folds(f) == f = [i \in D |->
             IF L[L[i].target].kind = "voided"
               THEN [base |-> f[L[i].target].base, gone |-> ~f[L[i].target].gone]
               ELSE [base |-> L[i].target, gone |-> TRUE]]
<1>1. Len(L) \in Nat /\ DOMAIN L = 1..Len(L) /\ D \subseteq DOMAIN L /\ R \subseteq D
  BY DEF TypedLog, Of
<1>2. \A i \in D : L[i].target \in DOMAIN L /\ L[i].target < i
  <2>1. D \subseteq Of(L, Targeting)
    BY DEF Of, Targeting, PassRulings
  <2> QED
    BY <2>1, TargetsBelow
<1>3. t \in [R -> D] /\ \A i \in R : t[i] < i
  BY <1>1, <1>2 DEF Of
<1>4. base \in [D -> V] /\ next \in [R -> [V -> V]]
  BY <1>1, <1>2
<1>5. PICK f \in [D -> V] :
        f = [i \in D |-> IF i \in R THEN next[i][f[t[i]]] ELSE base[i]]
  <2> HIDE DEF D, R, t, base, next, V
  <2>1. D \in SUBSET (1..Len(L)) /\ R \in SUBSET D
    BY <1>1
  <2>2. \E f \in [D -> V] : IsFold(f, D, R, t, base, next)
    BY <1>1, <1>3, <1>4, <2>1, Recursion
  <2> QED
    BY <2>2 DEF IsFold
<1>6. \A i \in R : /\ next[i][f[t[i]]] = [base |-> f[L[i].target].base,
                                          gone |-> ~f[L[i].target].gone]
  <2>1. \A i \in R : t[i] = L[i].target /\ f[t[i]] \in V
    BY <1>3, <1>5
  <2> HIDE DEF D, R, t, V
  <2> QED
    BY <2>1
<1>7. Folds(f)
  <2>1. \A i \in D : f[i] = IF i \in R THEN [base |-> f[L[i].target].base,
                                             gone |-> ~f[L[i].target].gone]
                            ELSE [base |-> L[i].target, gone |-> TRUE]
    <3> HIDE DEF D, R, t, V, next
    <3> QED
      BY <1>5, <1>6
  <2>2. f = [i \in D |-> f[i]]
    BY <1>5
  <2> HIDE DEF next, base, V, D
  <2> QED
    BY <2>1, <2>2
<1> DEFINE link == CHOOSE g : Folds(g)
<1>8. Folds(link)
  BY <1>7
<1>9. \A i : Chain(L, i) = link[i]
  BY DEF Chain
<1>10. link[o] = IF L[L[o].target].kind = "voided"
                  THEN [base |-> link[L[o].target].base, gone |-> ~link[L[o].target].gone]
                  ELSE [base |-> L[o].target, gone |-> TRUE]
  <2> HIDE DEF link
  <2> QED
    BY <1>8
<1> HIDE DEF link, D, V, R, t, next, base, Folds
<1> QED
  BY <1>9, <1>10

LEMMA PilotAtIs ==
  ASSUME NEW L, TypedLog(L), NEW o \in DOMAIN L
  PROVE  PilotAt(L, o) = IF L[o].kind = "split" THEN PilotAt(L, L[o].target)
                         ELSE L[o].pilot
<1> DEFINE D == DOMAIN L
           R == Of(L, {"split"})
           t == [i \in R |-> L[i].target]
           base == [i \in D |-> L[i].pilot]
           V == {base[i] : i \in D}
           next == [i \in R |-> [v \in V |-> v]]
           Folds(f) == f = [i \in D |->
             IF L[i].kind = "split" THEN f[L[i].target] ELSE L[i].pilot]
<1>1. Len(L) \in Nat /\ D = 1..Len(L) /\ R \subseteq D
  BY DEF TypedLog, Of
<1>2. \A i \in R : L[i].target \in D /\ L[i].target < i
  <2>1. R \subseteq Of(L, Targeting)
    BY DEF Of, Targeting, PassRulings
  <2> QED
    BY <2>1, TargetsBelow
<1>3. t \in [R -> D] /\ \A i \in R : t[i] < i
  BY <1>2
<1>4. base \in [D -> V] /\ next \in [R -> [V -> V]]
  OBVIOUS
<1>5. PICK f \in [D -> V] :
        f = [i \in D |-> IF i \in R THEN next[i][f[t[i]]] ELSE base[i]]
  <2> HIDE DEF D, R, t, base, V, next
  <2>1. D \in SUBSET (1..Len(L)) /\ R \in SUBSET D
    BY <1>1
  <2>2. \E f \in [D -> V] : IsFold(f, D, R, t, base, next)
    BY <1>1, <1>3, <1>4, <2>1, Recursion
  <2> QED
    BY <2>2 DEF IsFold
<1>6. \A i \in D : i \in R <=> L[i].kind = "split"
  BY DEF Of
<1>7. \A i \in R : next[i][f[t[i]]] = f[L[i].target]
  BY <1>2, <1>5
<1>8. Folds(f)
  <2> HIDE DEF R, t, next, V
  <2> QED
    BY <1>5, <1>6, <1>7
<1> DEFINE pilot == CHOOSE g : Folds(g)
<1>9. Folds(pilot)
  BY <1>8
<1>10. \A i : PilotAt(L, i) = pilot[i]
  BY DEF PilotAt
<1> HIDE DEF pilot
<1> QED
  BY <1>9, <1>10

\* The entry a ruling rests on at last.
LEMMA RootIs ==
  ASSUME NEW L, TypedLog(L), NEW o \in DOMAIN L
  PROVE  Root(L, o) = IF L[o].kind \in Targeting THEN Root(L, L[o].target) ELSE o
<1> DEFINE D == DOMAIN L
           R == Of(L, Targeting)
           t == [i \in R |-> L[i].target]
           base == [i \in D |-> i]
           next == [i \in R |-> [v \in D |-> v]]
           Folds(f) == f = [i \in D |->
             IF L[i].kind \in Targeting THEN f[L[i].target] ELSE i]
<1>1. Len(L) \in Nat /\ D = 1..Len(L) /\ R \subseteq D
  BY DEF TypedLog, Of
<1>2. \A i \in R : L[i].target \in D /\ L[i].target < i
  BY TargetsBelow
<1>3. t \in [R -> D] /\ \A i \in R : t[i] < i
  BY <1>2
<1>4. base \in [D -> D] /\ next \in [R -> [D -> D]]
  OBVIOUS
<1>5. PICK f \in [D -> D] :
        f = [i \in D |-> IF i \in R THEN next[i][f[t[i]]] ELSE base[i]]
  <2> HIDE DEF D, R, t, base, next
  <2>1. D \in SUBSET (1..Len(L)) /\ R \in SUBSET D
    BY <1>1
  <2>2. \E f \in [D -> D] : IsFold(f, D, R, t, base, next)
    BY <1>1, <1>3, <1>4, <2>1, Recursion
  <2> QED
    BY <2>2 DEF IsFold
<1>6. \A i \in D : i \in R <=> L[i].kind \in Targeting
  BY DEF Of
<1>7. \A i \in R : next[i][f[t[i]]] = f[L[i].target]
  BY <1>2, <1>5
<1>8. Folds(f)
  <2> HIDE DEF R, t, next
  <2> QED
    BY <1>5, <1>6, <1>7
<1> DEFINE root == CHOOSE g : Folds(g)
<1>9. Folds(root)
  BY <1>8
<1>10. \A i : Root(L, i) = root[i]
  BY DEF Root
<1>11. root[o] = IF L[o].kind \in Targeting THEN root[L[o].target] ELSE o
  <2> HIDE DEF root
  <2> QED
    BY <1>9
<1> HIDE DEF root, D, R, t, base, next, Folds
<1> QED
  BY <1>10, <1>11

\* Of some positions, one comes first.
LEMMA FirstOf ==
  ASSUME NEW L, TypedLog(L), NEW S \in SUBSET DOMAIN L, S # {}
  PROVE  \E x \in S : x \in Nat /\ \A y \in S : x <= y
<1>1. S \in SUBSET Nat
  BY DEF TypedLog
<1> QED
  BY <1>1, LeastOf

\* In any well-formed log an entry a heat is scored from is that heat's to the
\* locks: both folds come down to the same entry by the same targets.
LEMMA WindowOwned ==
  ASSUME NEW L, TypedLog(L), NEW h, h # NoHeat, NEW o \in Window(L, h)
  PROVE  HeatOf(L, o) = h
<1> DEFINE S == {i \in Window(L, h) : HeatOf(L, i) # h}
<1> SUFFICES ASSUME S # {}
             PROVE  FALSE
  OBVIOUS
<1>1. S \in SUBSET DOMAIN L
  BY WindowIs
<1>2. PICK x \in S : x \in Nat /\ \A y \in S : x <= y
  <2> HIDE DEF S
  <2> QED
    BY <1>1, FirstOf
<1>3. x \in DOMAIN L /\ x \in Window(L, h) /\ HeatOf(L, x) # h
  BY <1>1, <1>2
<1>4. CASE L[x].kind \in Targeting
  <2>1. x \in Of(L, Targeting)
    BY <1>3, <1>4 DEF Of
  <2>2. L[x].target \in DOMAIN L /\ L[x].target < x /\ L[x].target \in Nat
    BY <2>1, TargetsBelow DEF TypedLog
  <2>3. L[x].target \in Window(L, h)
    BY <1>3, <1>4, WindowIs
  <2>4. HeatOf(L, x) = HeatOf(L, L[x].target)
    BY <1>3, <1>4, HeatOfIs
  <2>5. L[x].target \in S
    BY <1>3, <2>3, <2>4
  <2> QED
    BY <1>2, <2>2, <2>5
<1>5. CASE L[x].kind \notin Targeting
  <2>1. Takes(L, h, x)
    BY <1>3, <1>5, WindowIs
  <2>2. HeatOf(L, x) = IF L[x].kind = "expired" \/ L[x].heat = NoHeat
                         THEN PositionalHeat(L, x) ELSE L[x].heat
    BY <1>3, <1>5, HeatOfIs
  <2>3. L[x].kind \in HeatLoopKinds => L[x].heat = h /\ L[x].kind # "expired"
    BY <2>1 DEF Takes, Admits, HeatLoopKinds
  <2> QED
    BY <1>3, <2>1, <2>2, <2>3 DEF Takes, Admits
<1> QED
  BY <1>4, <1>5

\* What a heat is scored from is what the lock on an official result looks that
\* heat up by, in every log the program can write.
THEOREM RoutesAgree == Spec => []RoutingAgrees
<1>1. TypeOK => RoutingAgrees
  BY WindowOwned, LogAssumption DEF TypeOK, RoutingAgrees
<1> QED
  BY <1>1, TypeCorrect, PTL

-----------------------------------------------------------------------------
(***************************************************************************)
(* An entry at the end of the log leaves every fold of what lies before it *)
(* as it was, but for the start of its heat's run.                         *)
(***************************************************************************)

\* The log one entry on.
Longer(L, e, M) == TypedLog(L) /\ Fits(L, e) /\ M = Append(L, e)
N(L) == Len(L) + 1
Keeps(L, M) == \A o \in DOMAIN L : M[o] = L[o]

LEMMA LongerTyped ==
  ASSUME NEW L, NEW e, NEW M, Longer(L, e, M)
  PROVE  /\ TypedLog(L) /\ TypedLog(M) /\ e \in Entries
         /\ L \in Seq(Entries) /\ M \in Seq(Entries)
BY AppendType DEF Longer, TypedLog, Fits

LEMMA LongerIs ==
  ASSUME NEW L, NEW e, NEW M, Longer(L, e, M)
  PROVE  /\ DOMAIN M = DOMAIN L \cup {N(L)} /\ N(L) \notin DOMAIN L
         /\ Keeps(L, M)
         /\ M[N(L)] = e
<1>1. L \in Seq(Entries) /\ e \in Entries /\ M = Append(L, e)
  BY LongerTyped DEF Longer
<1> QED
  BY <1>1 DEF N, Keeps

LEMMA LongerNat ==
  ASSUME NEW L, NEW e, NEW M, Longer(L, e, M)
  PROVE  /\ Len(M) = N(L) /\ N(L) \in Nat /\ Len(L) \in Nat /\ Len(L) < N(L)
         /\ \A o \in DOMAIN L : o \in Nat /\ 1 <= o /\ o < N(L) /\ o <= Len(L)
         /\ DOMAIN L = 1..Len(L) /\ DOMAIN M = 1..N(L)
<1>1. L \in Seq(Entries) /\ e \in Entries /\ M = Append(L, e)
  BY LongerTyped DEF Longer
<1> QED
  BY <1>1 DEF N

\* The greatest of some positions is the latest.
LEMMA LatestIs ==
  ASSUME NEW n \in Nat, NEW S \in SUBSET (1..n), NEW x \in S, \A y \in S : y <= x
  PROVE  Latest(S) = x
<1>1. Latest(S) \in S /\ \A y \in S : Latest(S) >= y
  BY LatestIn
<1>2. Latest(S) \in Nat /\ x \in Nat /\ Latest(S) >= x /\ x >= Latest(S)
  <2>1. \A y \in S : y \in Nat
    OBVIOUS
  <2> QED
    BY <1>1, <2>1
<1> HIDE DEF Latest
<1> QED
  BY <1>2

\* The positions of some kinds.
LEMMA OfLonger ==
  ASSUME NEW L, NEW e, NEW M, Longer(L, e, M), NEW kinds
  PROVE  /\ Of(L, kinds) \subseteq DOMAIN L
         /\ \A o \in DOMAIN L : o \in Of(M, kinds) <=> o \in Of(L, kinds)
         /\ N(L) \in Of(M, kinds) <=> e.kind \in kinds
         /\ Of(M, kinds) = Of(L, kinds) \cup (IF e.kind \in kinds THEN {N(L)} ELSE {})
<1>1. DOMAIN M = DOMAIN L \cup {N(L)} /\ N(L) \notin DOMAIN L /\ M[N(L)] = e /\ Keeps(L, M)
  BY LongerIs
<1> QED
  BY <1>1 DEF Of, Keeps

LEMMA PositionalLonger ==
  ASSUME NEW L, NEW e, NEW M, Longer(L, e, M)
  PROVE  /\ \A o \in DOMAIN L : PositionalHeat(M, o) = PositionalHeat(L, o)
         /\ e.kind \notin HeatLoopKinds =>
              PositionalHeat(M, N(L)) = PositionalHeat(L, Len(L))
<1>1. ASSUME NEW o \in Nat, NEW p \in Nat,
             {i \in Of(M, HeatLoopKinds) : i <= o} = {i \in Of(L, HeatLoopKinds) : i <= p}
      PROVE  PositionalHeat(M, o) = PositionalHeat(L, p)
  <2> DEFINE S == {i \in Of(L, HeatLoopKinds) : i <= p}
  <2>1. S \in SUBSET (1..Len(L)) /\ Len(L) \in Nat
    BY OfLonger, LongerNat
  <2> HIDE DEF S
  <2>2. Latest(S) # 0 => Latest(S) \in DOMAIN L
    BY <2>1, LatestIn, LongerNat
  <2>3. Latest(S) # 0 => M[Latest(S)] = L[Latest(S)]
    <3>1. Keeps(L, M)
      BY LongerIs
    <3> QED
      BY <2>2, <3>1 DEF Keeps
  <2> QED
    BY <1>1, <2>3 DEF PositionalHeat, S
<1>2. ASSUME NEW o \in DOMAIN L
      PROVE  PositionalHeat(M, o) = PositionalHeat(L, o)
  <2>1. o \in Nat /\ o < N(L) /\ N(L) \in Nat
    BY LongerNat
  <2>2. \A i \in Of(L, HeatLoopKinds) : i \in Of(M, HeatLoopKinds)
    BY OfLonger
  <2>3. \A i \in Of(M, HeatLoopKinds) : i <= o => i \in Of(L, HeatLoopKinds)
    <3>1. ~(N(L) <= o)
      BY <2>1
    <3> QED
      BY <3>1, OfLonger
  <2> QED
    BY <1>1, <2>1, <2>2, <2>3
<1>3. ASSUME e.kind \notin HeatLoopKinds
      PROVE  PositionalHeat(M, N(L)) = PositionalHeat(L, Len(L))
  <2>1. Len(L) \in Nat /\ N(L) \in Nat /\ \A i \in DOMAIN L : i <= Len(L) /\ i <= N(L)
    <3>1. \A i \in DOMAIN L : i \in Nat /\ i <= Len(L) /\ i < N(L)
      BY LongerNat
    <3>2. Len(L) \in Nat /\ N(L) \in Nat
      BY LongerNat
    <3> QED
      BY <3>1, <3>2
  <2>2. Of(M, HeatLoopKinds) = Of(L, HeatLoopKinds) /\ Of(L, HeatLoopKinds) \subseteq DOMAIN L
    BY <1>3, OfLonger
  <2> QED
    BY <1>1, <2>1, <2>2
<1> QED
  BY <1>2, <1>3

LEMMA MovesLonger ==
  ASSUME NEW L, NEW e, NEW M, Longer(L, e, M), NEW h, NEW ts
  PROVE  /\ Moves(L, h, ts) \in SUBSET (1..Len(L))
         /\ \A o \in Moves(L, h, ts) : L[o].transition \in ts /\ L[o].heat = h
         /\ Moves(M, h, ts) =
              Moves(L, h, ts)
                \cup (IF e.kind = "moved" /\ e.heat = h /\ e.transition \in ts
                        THEN {N(L)} ELSE {})
<1>1. /\ Of(L, {"moved"}) \subseteq DOMAIN L /\ DOMAIN L = 1..Len(L)
      /\ \A o \in DOMAIN L : o \in Of(M, {"moved"}) <=> o \in Of(L, {"moved"})
      /\ N(L) \in Of(M, {"moved"}) <=> e.kind = "moved"
      /\ Of(M, {"moved"}) \subseteq DOMAIN M
      /\ DOMAIN M = DOMAIN L \cup {N(L)} /\ N(L) \notin DOMAIN L
  <2>1. /\ Of(L, {"moved"}) \subseteq DOMAIN L
        /\ \A o \in DOMAIN L : o \in Of(M, {"moved"}) <=> o \in Of(L, {"moved"})
        /\ N(L) \in Of(M, {"moved"}) <=> e.kind \in {"moved"}
    BY OfLonger
  <2>2. DOMAIN M = DOMAIN L \cup {N(L)} /\ N(L) \notin DOMAIN L
    BY LongerIs
  <2>3. DOMAIN L = 1..Len(L)
    BY LongerNat
  <2>4. Of(M, {"moved"}) \subseteq DOMAIN M
    BY DEF Of
  <2> QED
    BY <2>1, <2>2, <2>3, <2>4
<1>2. Keeps(L, M) /\ M[N(L)] = e
  BY LongerIs
<1>3. /\ \A o \in DOMAIN L : o \in Moves(M, h, ts) <=> o \in Moves(L, h, ts)
      /\ N(L) \in Moves(M, h, ts) <=> e.kind = "moved" /\ e.heat = h /\ e.transition \in ts
      /\ Moves(M, h, ts) \subseteq DOMAIN M /\ Moves(L, h, ts) \subseteq DOMAIN L
  BY <1>1, <1>2 DEF Moves, Keeps
<1> QED
  BY <1>1, <1>3 DEF Moves

\* The entry starts a run of h or calls it back.
Restarts(e, h) ==
  e.kind = "moved" /\ e.heat = h /\ e.transition \in {"Running"} \cup Resets

LEMMA RunStartLonger ==
  ASSUME NEW L, NEW e, NEW M, Longer(L, e, M), NEW h
  PROVE  /\ ~Restarts(e, h) =>
              \/ RunStart(M, h) = RunStart(L, h)
              \/ RunStart(L, h) = N(L) /\ RunStart(M, h) = N(L) + 1
         /\ Restarts(e, h) => RunStart(M, h) \in {N(L), N(L) + 1}
         /\ Restarts(e, h) /\ e.transition = "Running" => RunStart(M, h) = N(L)
         /\ RunStart(L, h) \in Nat /\ RunStart(M, h) \in Nat
<1> DEFINE ts == {"Running"} \cup Resets
           S == Moves(L, h, ts)
           mark == Latest(S)
<1>1. /\ S \in SUBSET (1..Len(L)) /\ Len(L) \in Nat /\ N(L) \in Nat
      /\ DOMAIN L = 1..Len(L) /\ Len(M) = N(L) /\ Len(L) < N(L)
  BY MovesLonger, LongerNat
<1>2. Moves(M, h, ts) = S \cup (IF Restarts(e, h) THEN {N(L)} ELSE {})
  BY MovesLonger DEF Restarts
<1>3. RunStart(L, h) \in Nat /\ RunStart(M, h) \in Nat
  BY LongerTyped, RunStartNat
<1>4. Keeps(L, M) /\ M[N(L)] = e
  BY LongerIs
<1>5. mark = 0 \/ mark \in DOMAIN L
  <2> HIDE DEF S
  <2> QED
    BY <1>1, LatestIn
<1>6. RunStart(L, h) = IF mark = 0 THEN Len(L) + 1
                       ELSE IF L[mark].transition = "Running" THEN mark ELSE mark + 1
  BY DEF RunStart
<1>7. RunStart(M, h) = LET last == Latest(Moves(M, h, ts))
                       IN  IF last = 0 THEN Len(M) + 1
                           ELSE IF M[last].transition = "Running" THEN last ELSE last + 1
  BY DEF RunStart
<1>8. CASE ~Restarts(e, h)
  <2>1. Latest(Moves(M, h, ts)) = mark
    BY <1>2, <1>8
  <2>2. mark # 0 => M[mark] = L[mark]
    BY <1>4, <1>5 DEF Keeps
  <2> HIDE DEF mark, ts
  <2>3. RunStart(M, h) = IF mark = 0 THEN Len(M) + 1
                         ELSE IF M[mark].transition = "Running" THEN mark ELSE mark + 1
    BY <1>7, <2>1
  <2> QED
    BY <1>1, <1>3, <1>6, <1>8, <2>2, <2>3 DEF N
<1>9. CASE Restarts(e, h)
  <2> DEFINE T == Moves(M, h, ts)
  <2>1. T \in SUBSET (1..N(L)) /\ N(L) \in T /\ \A y \in T : y <= N(L)
    <3>1. T = S \cup {N(L)}
      BY <1>2, <1>9
    <3> HIDE DEF S, T
    <3>2. \A y \in S : y \in Nat /\ 1 <= y /\ y <= Len(L)
      BY <1>1
    <3>3. \A y \in T : y \in 1..N(L)
      BY <1>1, <3>1, <3>2
    <3> QED
      BY <3>1, <3>3
  <2> HIDE DEF T
  <2>2. Latest(T) = N(L)
    BY <1>1, <2>1, LatestIs
  <2>3. N(L) # 0
    BY <1>1
  <2>4. RunStart(M, h) = IF M[N(L)].transition = "Running" THEN N(L) ELSE N(L) + 1
    BY <1>7, <2>2, <2>3 DEF T
  <2> QED
    BY <1>3, <1>4, <1>9, <2>4
<1> QED
  BY <1>8, <1>9

\* What lies since the start of the run, and what lies in a run begun anew.
LEMMA SinceLonger ==
  ASSUME NEW L, NEW e, NEW M, Longer(L, e, M), NEW h
  PROVE  /\ ~Restarts(e, h) =>
              \A o \in DOMAIN L : o >= RunStart(M, h) <=> o >= RunStart(L, h)
         /\ Restarts(e, h) => \A o \in DOMAIN L : ~(o >= RunStart(M, h))
         /\ ~Restarts(e, h) /\ RunStart(L, h) <= Len(L) => RunStart(M, h) = RunStart(L, h)
         /\ RunStart(L, h) <= N(L)
<1>1. /\ ~Restarts(e, h) =>
           \/ RunStart(M, h) = RunStart(L, h)
           \/ RunStart(L, h) = N(L) /\ RunStart(M, h) = N(L) + 1
      /\ Restarts(e, h) => RunStart(M, h) \in {N(L), N(L) + 1}
      /\ RunStart(L, h) \in Nat /\ RunStart(M, h) \in Nat
  BY RunStartLonger
<1>2. /\ N(L) \in Nat /\ Len(L) \in Nat /\ Len(L) < N(L)
      /\ \A o \in DOMAIN L : o \in Nat /\ o < N(L)
  BY LongerNat
<1>3. RunStart(L, h) <= N(L)
  <2> DEFINE S == Moves(L, h, {"Running"} \cup Resets)
  <2>1. S \in SUBSET (1..Len(L))
    BY MovesLonger
  <2> HIDE DEF S
  <2>2. Latest(S) = 0 \/ Latest(S) \in 1..Len(L)
    BY <1>2, <2>1, LatestIn
  <2>3. RunStart(L, h) \in {N(L), Latest(S), Latest(S) + 1} /\ (Latest(S) = 0 => RunStart(L, h) = N(L))
    BY DEF RunStart, S, N
  <2> QED
    BY <1>2, <2>2, <2>3 DEF N
<1> QED
  BY <1>1, <1>2, <1>3

\* The first of some positions.
LEMMA MinIn ==
  ASSUME NEW S \in SUBSET Nat, S # {}
  PROVE  Min(S) \in S /\ \A y \in S : Min(S) <= y
BY LeastOf DEF Min

\* The entries that closed the record of h's run.
Closings(L, h) == {o \in Moves(L, h, {"Finalized"}) : o >= RunStart(L, h)}

LEMMA CeilingLonger ==
  ASSUME NEW L, NEW e, NEW M, Longer(L, e, M), NEW h, ~Restarts(e, h)
  PROVE  /\ \A i \in DOMAIN L : i < PassCeiling(M, h) <=> i < PassCeiling(L, h)
         /\ Closings(L, h) # {} =>
              PassCeiling(M, h) = PassCeiling(L, h) /\ PassCeiling(L, h) \in DOMAIN L
<1> DEFINE S == Closings(L, h)
           T == Closings(M, h)
<1>1. /\ Moves(L, h, {"Finalized"}) \in SUBSET (1..Len(L)) /\ DOMAIN L = 1..Len(L)
      /\ Moves(M, h, {"Finalized"}) \subseteq Moves(L, h, {"Finalized"}) \cup {N(L)}
      /\ Moves(L, h, {"Finalized"}) \subseteq Moves(M, h, {"Finalized"})
      /\ N(L) \in Nat /\ N(L) \notin DOMAIN L
      /\ \A o \in DOMAIN L : o \in Nat /\ o < N(L)
      /\ Len(M) = N(L)
  BY MovesLonger, LongerNat, LongerIs
<1>2. \A o \in DOMAIN L : o >= RunStart(M, h) <=> o >= RunStart(L, h)
  BY SinceLonger
<1>3. S \subseteq T /\ T \subseteq S \cup {N(L)} /\ S \subseteq DOMAIN L
  BY <1>1, <1>2 DEF Closings
<1>4. /\ PassCeiling(L, h) = IF S = {} THEN N(L) ELSE Min(S)
      /\ PassCeiling(M, h) = IF T = {} THEN N(L) + 1 ELSE Min(T)
  BY <1>1 DEF PassCeiling, Closings, N
<1> HIDE DEF S, T
<1>5. CASE S = {}
  <2>1. PassCeiling(L, h) = N(L)
    BY <1>4, <1>5
  <2>2. T = {} \/ T = {N(L)}
    BY <1>3, <1>5
  <2>3. PassCeiling(M, h) \in {N(L), N(L) + 1}
    <3>1. Min({N(L)}) = N(L)
      BY <1>1 DEF Min
    <3> QED
      BY <1>4, <2>2, <3>1
  <2> QED
    BY <1>1, <1>5, <2>1, <2>3 DEF S
<1>6. CASE S # {}
  <2>1. T # {} /\ S \in SUBSET Nat /\ T \in SUBSET Nat
    BY <1>1, <1>3, <1>6
  <2>2. /\ Min(S) \in S /\ \A y \in S : Min(S) <= y
        /\ Min(T) \in T /\ \A y \in T : Min(T) <= y
    BY <1>6, <2>1, MinIn
  <2>3. Min(T) <= Min(S) /\ Min(S) \in DOMAIN L /\ Min(S) \in Nat /\ Min(T) \in Nat
    BY <1>1, <1>3, <2>1, <2>2
  <2>4. Min(T) # N(L)
    <3>1. Min(S) < N(L) /\ N(L) \in Nat
      BY <1>1, <2>3
    <3> HIDE DEF Min
    <3> QED
      BY <2>3, <3>1
  <2>5. Min(S) <= Min(T)
    BY <1>3, <2>2, <2>4
  <2>6. Min(S) = Min(T)
    <3> HIDE DEF Min
    <3> QED
      BY <2>3, <2>5
  <2> QED
    BY <1>4, <1>6, <2>1, <2>3, <2>6
<1> QED
  BY <1>5, <1>6

\* A position of the log has one entry more on it, or the end of it is meant.
LEMMA PositionLonger ==
  ASSUME NEW L, NEW e, NEW M, Longer(L, e, M), NEW o \in DOMAIN M
  PROVE  \/ o = N(L) /\ M[o] = e
         \/ o \in DOMAIN L /\ M[o] = L[o]
<1>1. DOMAIN M = DOMAIN L \cup {N(L)} /\ M[N(L)] = e
  BY LongerIs
<1>2. Keeps(L, M)
  BY LongerIs
<1> QED
  BY <1>1, <1>2 DEF Keeps

LEMMA KeptEntry ==
  ASSUME NEW L, NEW e, NEW M, Longer(L, e, M), NEW o \in DOMAIN L
  PROVE  o \in DOMAIN M /\ M[o] = L[o]
<1>1. DOMAIN M = DOMAIN L \cup {N(L)}
  BY LongerIs
<1>2. Keeps(L, M)
  BY LongerIs
<1> QED
  BY <1>1, <1>2 DEF Keeps

\* The new entry rules on one the log has already.
LEMMA TargetLonger ==
  ASSUME NEW L, NEW e, NEW M, Longer(L, e, M), e.kind \in Targeting
  PROVE  e.target \in DOMAIN L /\ L[e.target].kind \in RulesOn(e.kind)
BY DEF Longer, Fits

\* Where a heat stands changes by an entry of its own heat loop only.
LEMMA HeatStateLonger ==
  ASSUME NEW L, NEW e, NEW M, Longer(L, e, M), NEW h
  PROVE  HeatState(M, h) =
           IF e.kind \in HeatLoopKinds /\ e.heat = h
             THEN IF e.kind = "scheduled" THEN "Scheduled" ELSE NextState(e.transition)
             ELSE HeatState(L, h)
<1> DEFINE S == {o \in Of(L, HeatLoopKinds) : L[o].heat = h}
           T == {o \in Of(M, HeatLoopKinds) : M[o].heat = h}
           Lands(x) == IF x.kind = "scheduled" THEN "Scheduled" ELSE NextState(x.transition)
<1>1. /\ Of(L, HeatLoopKinds) \subseteq DOMAIN L
      /\ \A o \in DOMAIN L : o \in Of(M, HeatLoopKinds) <=> o \in Of(L, HeatLoopKinds)
      /\ N(L) \in Of(M, HeatLoopKinds) <=> e.kind \in HeatLoopKinds
  BY OfLonger
<1>2. Of(M, HeatLoopKinds) \subseteq DOMAIN M
  BY DEF Of
<1>3. /\ DOMAIN L = 1..Len(L) /\ DOMAIN M = 1..N(L) /\ Len(L) \in Nat /\ N(L) \in Nat
      /\ \A o \in DOMAIN L : o < N(L)
  BY LongerNat
<1>4. M[N(L)] = e /\ N(L) # 0 /\ N(L) \in DOMAIN M
  <2>1. Len(L) < N(L)
    BY LongerNat
  <2>2. N(L) # 0
    BY <1>3, <2>1
  <2> QED
    BY <2>2, LongerIs
<1>5. \A o \in DOMAIN L : M[o] = L[o]
  BY KeptEntry
<1>6. \A o \in DOMAIN M : o = N(L) \/ o \in DOMAIN L
  BY PositionLonger
<1>7. S \in SUBSET (1..Len(L)) /\ T \in SUBSET (1..N(L))
  BY <1>1, <1>2, <1>3
<1>8. /\ HeatState(L, h) = IF Latest(S) = 0 THEN Unknown ELSE Lands(L[Latest(S)])
      /\ HeatState(M, h) = IF Latest(T) = 0 THEN Unknown ELSE Lands(M[Latest(T)])
  BY DEF HeatState
<1>9. CASE e.kind \in HeatLoopKinds /\ e.heat = h
  <2>1. N(L) \in T
    BY <1>1, <1>4, <1>9
  <2>2. \A y \in T : y <= N(L)
    BY <1>3, <1>7
  <2> HIDE DEF T, Lands
  <2>3. Latest(T) = N(L)
    BY <1>3, <1>7, <2>1, <2>2, LatestIs
  <2> QED
    BY <1>4, <1>8, <1>9, <2>3 DEF Lands
<1>10. CASE ~(e.kind \in HeatLoopKinds /\ e.heat = h)
  <2>1. T = S
    <3>1. N(L) \notin T
      BY <1>1, <1>4, <1>10
    <3>2. \A o \in DOMAIN L : o \in T <=> o \in S
      BY <1>1, <1>5
    <3>3. S \subseteq DOMAIN L /\ T \subseteq DOMAIN M
      BY <1>1, <1>2
    <3> HIDE DEF S, T
    <3> QED
      BY <1>6, <3>1, <3>2, <3>3
  <2> HIDE DEF S, T, Lands
  <2>2. Latest(S) = 0 \/ Latest(S) \in DOMAIN L
    BY <1>3, <1>7, LatestIn
  <2> QED
    BY <1>5, <1>8, <1>10, <2>1, <2>2
<1> QED
  BY <1>9, <1>10

LEMMA HeatOfLonger ==
  ASSUME NEW L, NEW e, NEW M, Longer(L, e, M), NEW o \in DOMAIN L
  PROVE  HeatOf(M, o) = HeatOf(L, o)
<1> DEFINE S == {i \in DOMAIN L : HeatOf(M, i) # HeatOf(L, i)}
<1> SUFFICES ASSUME S # {}
             PROVE  FALSE
  OBVIOUS
<1>1. TypedLog(L) /\ TypedLog(M)
  BY LongerTyped
<1>2. PICK x \in S : x \in Nat /\ \A y \in S : x <= y
  <2>1. S \in SUBSET DOMAIN L
    OBVIOUS
  <2> HIDE DEF S
  <2> QED
    BY <1>1, <2>1, FirstOf
<1>3. x \in DOMAIN L /\ x \in DOMAIN M /\ M[x] = L[x]
  BY KeptEntry
<1>4. PositionalHeat(M, x) = PositionalHeat(L, x)
  BY <1>3, PositionalLonger
<1>5. /\ HeatOf(L, x) = IF L[x].kind \in Targeting THEN HeatOf(L, L[x].target)
                        ELSE IF L[x].kind = "expired" \/ L[x].heat = NoHeat
                          THEN PositionalHeat(L, x) ELSE L[x].heat
      /\ HeatOf(M, x) = IF M[x].kind \in Targeting THEN HeatOf(M, M[x].target)
                        ELSE IF M[x].kind = "expired" \/ M[x].heat = NoHeat
                          THEN PositionalHeat(M, x) ELSE M[x].heat
  BY <1>1, <1>3, HeatOfIs
<1>6. L[x].kind \in Targeting /\ HeatOf(M, L[x].target) # HeatOf(L, L[x].target)
  BY <1>2, <1>3, <1>4, <1>5
<1>7. L[x].target \in DOMAIN L /\ L[x].target < x
  <2>1. x \in Of(L, Targeting)
    BY <1>3, <1>6 DEF Of
  <2> QED
    BY <1>1, <2>1, TargetsBelow
<1>8. L[x].target \in S /\ L[x].target \in Nat
  BY <1>6, <1>7, LongerNat
<1> HIDE DEF S
<1> QED
  BY <1>2, <1>7, <1>8

\* The void or restore at o decides over the same pass, the same way.
LEMMA ChainLonger ==
  ASSUME NEW L, NEW e, NEW M, Longer(L, e, M), NEW o \in Of(L, {"voided"})
  PROVE  Chain(M, o) = Chain(L, o)
<1> DEFINE S == {i \in Of(L, {"voided"}) : Chain(M, i) # Chain(L, i)}
<1> SUFFICES ASSUME S # {}
             PROVE  FALSE
  OBVIOUS
<1>1. TypedLog(L) /\ TypedLog(M)
  BY LongerTyped
<1>2. PICK x \in S : x \in Nat /\ \A y \in S : x <= y
  <2>1. S \in SUBSET DOMAIN L
    BY DEF Of
  <2> HIDE DEF S
  <2> QED
    BY <1>1, <2>1, FirstOf
<1>3. x \in Of(L, {"voided"}) /\ x \in DOMAIN L /\ L[x].kind = "voided"
  BY DEF Of
<1>4. M[x] = L[x] /\ x \in Of(M, {"voided"})
  BY <1>3, KeptEntry, OfLonger
<1>5. L[x].target \in DOMAIN L /\ L[x].target < x
  <2>1. x \in Of(L, Targeting)
    BY <1>3 DEF Of, Targeting, PassRulings
  <2> QED
    BY <1>1, <2>1, TargetsBelow
<1>6. M[L[x].target] = L[L[x].target]
  BY <1>5, KeptEntry
<1>7. /\ Chain(L, x) = IF L[L[x].target].kind = "voided"
                         THEN [base |-> Chain(L, L[x].target).base,
                               gone |-> ~Chain(L, L[x].target).gone]
                         ELSE [base |-> L[x].target, gone |-> TRUE]
      /\ Chain(M, x) = IF M[M[x].target].kind = "voided"
                         THEN [base |-> Chain(M, M[x].target).base,
                               gone |-> ~Chain(M, M[x].target).gone]
                         ELSE [base |-> M[x].target, gone |-> TRUE]
  BY <1>1, <1>3, <1>4, ChainIs
<1>8. L[L[x].target].kind = "voided" /\ Chain(M, L[x].target) # Chain(L, L[x].target)
  BY <1>2, <1>4, <1>6, <1>7
<1>9. L[x].target \in S /\ L[x].target \in Nat
  BY <1>5, <1>8, LongerNat DEF Of
<1> HIDE DEF S
<1> QED
  BY <1>2, <1>5, <1>9

\* A lap keeps its pilot.
LEMMA PilotLonger ==
  ASSUME NEW L, NEW e, NEW M, Longer(L, e, M), NEW o \in DOMAIN L
  PROVE  PilotAt(M, o) = PilotAt(L, o)
<1> DEFINE S == {i \in DOMAIN L : PilotAt(M, i) # PilotAt(L, i)}
<1> SUFFICES ASSUME S # {}
             PROVE  FALSE
  OBVIOUS
<1>1. TypedLog(L) /\ TypedLog(M)
  BY LongerTyped
<1>2. PICK x \in S : x \in Nat /\ \A y \in S : x <= y
  <2>1. S \in SUBSET DOMAIN L
    OBVIOUS
  <2> HIDE DEF S
  <2> QED
    BY <1>1, <2>1, FirstOf
<1>3. x \in DOMAIN L /\ x \in DOMAIN M /\ M[x] = L[x]
  BY KeptEntry
<1>4. /\ PilotAt(L, x) = IF L[x].kind = "split" THEN PilotAt(L, L[x].target) ELSE L[x].pilot
      /\ PilotAt(M, x) = IF M[x].kind = "split" THEN PilotAt(M, M[x].target) ELSE M[x].pilot
  BY <1>1, <1>3, PilotAtIs
<1>5. L[x].kind = "split" /\ PilotAt(M, L[x].target) # PilotAt(L, L[x].target)
  BY <1>2, <1>3, <1>4
<1>6. L[x].target \in DOMAIN L /\ L[x].target < x
  <2>1. x \in Of(L, Targeting)
    BY <1>3, <1>5 DEF Of, Targeting, PassRulings
  <2> QED
    BY <1>1, <2>1, TargetsBelow
<1>7. L[x].target \in S /\ L[x].target \in Nat
  BY <1>5, <1>6, LongerNat
<1> HIDE DEF S
<1> QED
  BY <1>2, <1>6, <1>7

\* What an entry that rules on no other needs to join h's window stays as it
\* was, unless the run of h begins anew.
LEMMA TakesLonger ==
  ASSUME NEW L, NEW e, NEW M, Longer(L, e, M), NEW h, ~Restarts(e, h),
         NEW o \in DOMAIN L
  PROVE  Takes(M, h, o) <=> Takes(L, h, o)
<1>1. M[o] = L[o]
  BY KeptEntry
<1>2. PositionalHeat(M, o) = PositionalHeat(L, o)
  BY PositionalLonger
<1>3. o >= RunStart(M, h) <=> o >= RunStart(L, h)
  BY SinceLonger
<1>4. o < PassCeiling(M, h) <=> o < PassCeiling(L, h)
  BY CeilingLonger
<1> QED
  BY <1>1, <1>2, <1>3, <1>4 DEF Takes, Admits

LEMMA WindowLonger ==
  ASSUME NEW L, NEW e, NEW M, Longer(L, e, M), NEW h, ~Restarts(e, h),
         NEW o \in DOMAIN L
  PROVE  o \in Window(M, h) <=> o \in Window(L, h)
<1> DEFINE S == {i \in DOMAIN L : ~(i \in Window(M, h) <=> i \in Window(L, h))}
<1> SUFFICES ASSUME S # {}
             PROVE  FALSE
  OBVIOUS
<1>1. TypedLog(L) /\ TypedLog(M)
  BY LongerTyped
<1>2. PICK x \in S : x \in Nat /\ \A y \in S : x <= y
  <2>1. S \in SUBSET DOMAIN L
    OBVIOUS
  <2> HIDE DEF S
  <2> QED
    BY <1>1, <2>1, FirstOf
<1>3. x \in DOMAIN L /\ x \in DOMAIN M /\ M[x] = L[x]
  BY KeptEntry
<1>4. Takes(M, h, x) <=> Takes(L, h, x)
  BY <1>3, TakesLonger
<1>5. x >= RunStart(M, h) <=> x >= RunStart(L, h)
  BY <1>3, SinceLonger
<1>6. /\ x \in Window(L, h) <=>
           IF L[x].kind \in Targeting
             THEN x >= RunStart(L, h) /\ L[x].target \in Window(L, h)
             ELSE Takes(L, h, x)
      /\ x \in Window(M, h) <=>
           IF M[x].kind \in Targeting
             THEN x >= RunStart(M, h) /\ M[x].target \in Window(M, h)
             ELSE Takes(M, h, x)
  BY <1>1, <1>3, WindowIs
<1>7. /\ L[x].kind \in Targeting
      /\ ~(L[x].target \in Window(M, h) <=> L[x].target \in Window(L, h))
  BY <1>2, <1>3, <1>4, <1>5, <1>6
<1>8. L[x].target \in DOMAIN L /\ L[x].target < x
  <2>1. x \in Of(L, Targeting)
    BY <1>3, <1>7 DEF Of
  <2> QED
    BY <1>1, <2>1, TargetsBelow
<1>9. L[x].target \in S /\ L[x].target \in Nat
  BY <1>7, <1>8, LongerNat
<1> HIDE DEF S
<1> QED
  BY <1>2, <1>8, <1>9

\* What takes the new entry into h's window.
LEMMA WindowEnd ==
  ASSUME NEW L, NEW e, NEW M, Longer(L, e, M), NEW h
  PROVE  N(L) \in Window(M, h) <=>
           IF e.kind \in Targeting
             THEN N(L) >= RunStart(M, h) /\ e.target \in Window(M, h)
             ELSE Takes(M, h, N(L))
<1>1. TypedLog(M)
  BY LongerTyped
<1>2. N(L) \in DOMAIN M /\ M[N(L)] = e
  BY LongerIs
<1> QED
  BY <1>1, <1>2, WindowIs
-----------------------------------------------------------------------------
(* What a marshal rules joins the window. *)

LEMMA CeilingNat ==
  ASSUME NEW L, TypedLog(L), NEW h
  PROVE  PassCeiling(L, h) \in Nat
<1> DEFINE S == {o \in Moves(L, h, {"Finalized"}) : o >= RunStart(L, h)}
<1>1. Len(L) \in Nat
  BY DEF TypedLog
<1>2. S \in SUBSET Nat
  BY DEF Moves, Of, TypedLog
<1>3. PassCeiling(L, h) = IF S = {} THEN Len(L) + 1 ELSE Min(S)
  BY DEF PassCeiling
<1> HIDE DEF S
<1>4. S # {} => Min(S) \in Nat
  BY <1>2, MinIn
<1> QED
  BY <1>1, <1>3, <1>4

\* An entry of the current run is in its window, but for a pass that came after
\* the record was closed and what is ruled on one.
LEMMA RunIsWindow ==
  ASSUME NEW L, TypedLog(L), RulingsOfRun(L), NEW h, h # NoHeat,
         NEW o \in DOMAIN L, L[o].kind \in PassKinds \cup PassRulings,
         HeatOf(L, o) = h, RunStart(L, h) <= o
  PROVE  \/ o \in Window(L, h)
         \/ L[Root(L, o)].kind = "pass" /\ Root(L, o) >= PassCeiling(L, h)
<1> DEFINE Lands(i) == \/ i \in Window(L, h)
                       \/ L[Root(L, i)].kind = "pass" /\ Root(L, i) >= PassCeiling(L, h)
           S == {i \in DOMAIN L : /\ L[i].kind \in PassKinds \cup PassRulings
                                  /\ HeatOf(L, i) = h
                                  /\ RunStart(L, h) <= i
                                  /\ ~Lands(i)}
<1> SUFFICES ASSUME S # {}
             PROVE  FALSE
  OBVIOUS
<1>1. PICK x \in S : x \in Nat /\ \A y \in S : x <= y
  <2>1. S \in SUBSET DOMAIN L
    OBVIOUS
  <2> HIDE DEF S
  <2> QED
    BY <2>1, FirstOf
<1>2. /\ x \in DOMAIN L /\ L[x].kind \in PassKinds \cup PassRulings
      /\ HeatOf(L, x) = h /\ RunStart(L, h) <= x /\ ~Lands(x)
  OBVIOUS
<1> HIDE DEF Lands
<1>3. RunStart(L, h) \in Nat /\ PassCeiling(L, h) \in Nat
  BY RunStartNat, CeilingNat DEF TypedLog
<1>4. CASE L[x].kind \in Targeting
  <2>1. x \in Of(L, Targeting) /\ x \in Of(L, PassRulings)
    BY <1>2, <1>4 DEF Of, PassKinds, PassRulings, Targeting
  <2>2. /\ L[x].target \in DOMAIN L /\ L[x].target < x
        /\ L[L[x].target].kind \in RulesOn(L[x].kind)
    BY <2>1, TargetsBelow
  <2>3. L[L[x].target].kind \in PassKinds \cup PassRulings
    BY <2>1, <2>2 DEF RulesOn, PassRulings, PassKinds, Of
  <2>4. HeatOf(L, L[x].target) = h
    BY <1>2, <1>4, HeatOfIs
  <2>5. RunStart(L, h) <= L[x].target
    BY <1>2, <2>1 DEF RulingsOfRun
  <2>6. Root(L, x) = Root(L, L[x].target)
    BY <1>2, <1>4, RootIs
  <2>7. Lands(L[x].target)
    <3>1. L[x].target \notin S
      BY <1>1, <2>2 DEF TypedLog
    <3> QED
      BY <2>2, <2>3, <2>4, <2>5, <3>1
  <2>8. L[x].target \in Window(L, h) => x \in Window(L, h)
    BY <1>2, <1>3, <1>4, WindowIs DEF TypedLog
  <2> QED
    BY <1>2, <2>6, <2>7, <2>8 DEF Lands
<1>5. CASE L[x].kind \notin Targeting
  <2>1. L[x].kind \in {"pass", "inserted"}
    BY <1>2, <1>5 DEF PassKinds, PassRulings, Targeting
  <2>2. HeatOf(L, x) = IF L[x].heat = NoHeat THEN PositionalHeat(L, x) ELSE L[x].heat
    BY <1>2, <1>5, <2>1, HeatOfIs
  <2>3. Root(L, x) = x
    BY <1>2, <1>5, RootIs
  <2>4. x \notin Window(L, h) /\ ~(L[x].kind = "pass" /\ x >= PassCeiling(L, h))
    BY <1>2, <2>3 DEF Lands
  <2>5. ~Takes(L, h, x)
    BY <1>2, <1>5, <2>4, WindowIs
  <2>6. x >= RunStart(L, h) /\ (L[x].kind = "pass" => x < PassCeiling(L, h))
    BY <1>1, <1>2, <1>3, <2>4
  <2> QED
    BY <1>2, <2>1, <2>2, <2>5, <2>6 DEF Takes, Admits, HeatLoopKinds
<1> QED
  BY <1>4, <1>5

\* Rulings stay rulings of the run they were made in.
LEMMA RulingsOfRunKept ==
  ASSUME NEW L, NEW e, NEW M, Longer(L, e, M), RulingsOfRun(L),
         e.kind \in PassRulings =>
           LET h == HeatOf(L, e.target) IN h = NoHeat \/ e.target >= RunStart(L, h)
  PROVE  RulingsOfRun(M)
<1> SUFFICES ASSUME NEW o \in Of(M, PassRulings), HeatOf(M, o) # NoHeat,
                    RunStart(M, HeatOf(M, o)) <= o
             PROVE  RunStart(M, HeatOf(M, o)) <= M[o].target
  BY DEF RulingsOfRun
<1> DEFINE h == HeatOf(M, o)
<1>1. TypedLog(L) /\ TypedLog(M)
  BY LongerTyped
<1>2. o \in DOMAIN M /\ M[o].kind \in PassRulings
  BY DEF Of
<1>3. RunStart(L, h) \in Nat /\ RunStart(M, h) \in Nat
  BY RunStartLonger
<1>4. CASE o \in DOMAIN L
  <2>1. M[o] = L[o] /\ HeatOf(L, o) = h /\ o \in Nat
    BY <1>4, KeptEntry, HeatOfLonger, LongerNat
  <2>2. o \in Of(L, PassRulings)
    BY <1>2, <1>4, <2>1 DEF Of
  <2>3. ~Restarts(e, h)
    BY <1>3, <1>4, <2>1, SinceLonger
  <2>4. RunStart(L, h) <= o
    BY <1>3, <1>4, <2>1, <2>3, SinceLonger
  <2>5. RunStart(L, h) <= L[o].target
    BY <2>1, <2>2, <2>4 DEF RulingsOfRun
  <2>6. L[o].target \in DOMAIN L /\ L[o].target \in Nat
    <3>1. o \in Of(L, Targeting)
      BY <2>2 DEF Of, Targeting
    <3> QED
      BY <1>1, <3>1, TargetsBelow, LongerNat
  <2> HIDE DEF h
  <2>7. RunStart(M, h) <= L[o].target
    BY <1>3, <2>3, <2>5, <2>6, SinceLonger
  <2> QED
    BY <2>1, <2>7 DEF h
<1>5. CASE o \notin DOMAIN L
  <2>1. o = N(L) /\ M[o] = e
    BY <1>2, <1>5, PositionLonger
  <2>2. e.kind \in PassRulings /\ e.kind \in Targeting
    BY <1>2, <2>1 DEF Targeting
  <2>3. e.target \in DOMAIN L /\ e.target \in Nat
    BY <2>2, TargetLonger, LongerNat
  <2>4. h = HeatOf(M, e.target)
    BY <1>1, <1>2, <2>1, <2>2, HeatOfIs
  <2>5. h = HeatOf(L, e.target)
    BY <2>3, <2>4, HeatOfLonger
  <2>6. ~Restarts(e, h)
    BY <2>2 DEF Restarts, PassRulings
  <2> HIDE DEF h
  <2>7. h # NoHeat
    BY DEF h
  <2>8. e.target >= RunStart(L, h)
    BY <2>2, <2>5, <2>7
  <2>9. e.target >= RunStart(M, h)
    BY <2>3, <2>6, <2>8, SinceLonger
  <2> QED
    BY <1>3, <2>1, <2>3, <2>9 DEF h
<1> QED
  BY <1>4, <1>5

\* The log a step leaves is the log before it and one entry more.
LEMMA StepLengthens ==
  ASSUME TypeOK, Next
  PROVE  \E e : Longer(log, e, log') /\ Guarded(e)
BY StepRecords DEF TypeOK, Record, Longer

LEMMA AddedIs ==
  ASSUME NEW e, Longer(log, e, log')
  PROVE  Added = e /\ Len(log') = N(log)
<1>1. log'[N(log)] = e
  BY LongerIs
<1>2. Len(log') = N(log)
  BY LongerNat
<1> QED
  BY <1>1, <1>2 DEF Added

LEMMA RulingsStayInRun ==
  TypeOK /\ RulingsOfRun(log) /\ [Next]_log => RulingsOfRun(log')
<1> SUFFICES ASSUME TypeOK, RulingsOfRun(log), [Next]_log
             PROVE  RulingsOfRun(log')
  OBVIOUS
<1>1. CASE Next
  <2>1. PICK e : Longer(log, e, log') /\ Guarded(e)
    BY <1>1, StepLengthens
  <2>2. e.kind \in PassRulings =>
          LET h == HeatOf(log, e.target) IN h = NoHeat \/ e.target >= RunStart(log, h)
    BY <2>1 DEF Guarded, InCurrentRun
  <2> QED
    BY <2>1, <2>2, RulingsOfRunKept
<1>2. CASE log' = log
  BY <1>2
<1> QED
  BY <1>1, <1>2

\* No correction is lost: whatever a marshal may rule on a pass joins the window
\* of the heat that owns the pass, but for a pass outside the closed record.
THEOREM EveryRulingLands == Spec => RulingsLand
<1>1. Init => TypeOK /\ RulingsOfRun(log)
  BY OpeningAssumption DEF Init, TypeOK
<1>2. TypeOK /\ RulingsOfRun(log) /\ [Next]_log => (TypeOK /\ RulingsOfRun(log))'
  <2>1. TypeOK /\ [Next]_log => TypeOK'
    BY StepRecords, AppendType DEF Record, TypeOK
  <2> QED
    BY <2>1, RulingsStayInRun
<1> DEFINE Lands ==
      Added.kind \in PassRulings =>
        LET h == HeatOf(log, Added.target)
            r == Root(log, Added.target)
        IN  \/ h = NoHeat
            \/ Len(log') \in Window(log', h)
            \/ log[r].kind = "pass" /\ r >= PassCeiling(log, h)
<1>3. TypeOK /\ RulingsOfRun(log) /\ [Next]_log => [Lands]_log
  <2> SUFFICES ASSUME TypeOK, RulingsOfRun(log), Next
               PROVE  Lands
    OBVIOUS
  <2>1. PICK e : Longer(log, e, log') /\ Guarded(e)
    BY StepLengthens
  <2>2. Added = e /\ Len(log') = N(log)
    BY <2>1, AddedIs
  <2> SUFFICES ASSUME e.kind \in PassRulings, HeatOf(log, e.target) # NoHeat,
                      ~(/\ log[Root(log, e.target)].kind = "pass"
                        /\ Root(log, e.target) >= PassCeiling(log, HeatOf(log, e.target)))
               PROVE  N(log) \in Window(log', HeatOf(log, e.target))
    BY <2>2
  <2> DEFINE h == HeatOf(log, e.target)
  <2>3. TypedLog(log) /\ e.kind \in Targeting
    BY DEF TypeOK, Targeting
  <2>4. /\ e.target \in DOMAIN log /\ e.target \in Nat /\ e.target <= Len(log)
        /\ log[e.target].kind \in RulesOn(e.kind)
    BY <2>1, <2>3, TargetLonger, LongerNat
  <2>5. log[e.target].kind \in PassKinds \cup PassRulings
    BY <2>4 DEF RulesOn, PassRulings
  <2> HIDE DEF h
  <2>6. h # NoHeat /\ RunStart(log, h) <= e.target /\ RunStart(log, h) \in Nat
    BY <2>1, <2>3, <2>4, RunStartNat DEF Guarded, InCurrentRun, TypedLog, h
  <2>7. e.target \in Window(log, h)
    BY <2>3, <2>4, <2>5, <2>6, RunIsWindow DEF h
  <2>8. ~Restarts(e, h)
    BY DEF Restarts, PassRulings
  <2>9. e.target \in Window(log', h)
    BY <2>1, <2>4, <2>7, <2>8, WindowLonger
  <2>10. N(log) >= RunStart(log', h)
    <3>1. RunStart(log, h) <= Len(log) /\ Len(log) \in Nat /\ Len(log) < N(log) /\ N(log) \in Nat
      BY <2>1, <2>4, <2>6, LongerNat
    <3>2. RunStart(log', h) = RunStart(log, h)
      BY <2>1, <2>8, <3>1, SinceLonger
    <3> QED
      BY <2>6, <3>1, <3>2
  <2> QED
    BY <2>1, <2>3, <2>9, <2>10, WindowEnd DEF h
<1> QED
  BY <1>1, <1>2, <1>3, PTL DEF Spec, RulingsLand
-----------------------------------------------------------------------------
(* The reversal of what stands leaves nothing of it. *)

\* But for the heat loop, what h is scored from is of its current run.
LEMMA WindowOfRun ==
  ASSUME NEW L, TypedLog(L), NEW h, NEW o \in Window(L, h),
         L[o].kind \notin HeatLoopKinds
  PROVE  o \in DOMAIN L /\ o >= RunStart(L, h)
BY WindowIs DEF Takes, Admits

\* A ruling of the window that no reversal of the window takes back is taken
\* back by none at all.
LEMMA StandsInLog ==
  ASSUME NEW L, TypedLog(L), NEW h, NEW kinds \in SUBSET Reversible,
         NEW o \in Standing(L, Window(L, h), kinds)
  PROVE  /\ o \in Standing(L, DOMAIN L, kinds)
         /\ o \in DOMAIN L /\ o \in Window(L, h) /\ L[o].kind \in kinds
         /\ o >= RunStart(L, h)
<1>1. /\ o \in Window(L, h) /\ o \in Of(L, kinds) /\ L[o].kind \in kinds
      /\ \A r \in Window(L, h) \cap Of(L, {"reversed"}) : L[r].target # o
  BY DEF Standing, Of
<1>2. o \in DOMAIN L /\ o >= RunStart(L, h)
  BY <1>1, WindowOfRun DEF Reversible, HeatLoopKinds
<1>3. ASSUME NEW r \in Of(L, {"reversed"}), L[r].target = o
      PROVE  FALSE
  <2>1. r \in Of(L, Targeting) /\ L[r].kind \in Targeting /\ r \in DOMAIN L
    BY DEF Of, Targeting
  <2>2. o < r
    BY <1>3, <2>1, TargetsBelow
  <2>3. r \in Nat /\ o \in Nat /\ RunStart(L, h) \in Nat
    BY <1>2, <2>1, RunStartNat DEF TypedLog
  <2>4. r \in Window(L, h)
    BY <1>1, <1>2, <1>3, <2>1, <2>2, <2>3, WindowIs
  <2> QED
    BY <1>1, <1>3, <2>4
<1> QED
  BY <1>1, <1>2, <1>3 DEF Standing

\* What stands after a reversal stood before it.
LEMMA StandingLonger ==
  ASSUME NEW L, NEW e, NEW M, Longer(L, e, M), NEW h, ~Restarts(e, h),
         NEW kinds, NEW o \in Standing(M, Window(M, h), kinds), e.kind \notin kinds
  PROVE  o \in Standing(L, Window(L, h), kinds) /\ M[o] = L[o]
<1>1. o \in Window(M, h) /\ o \in DOMAIN M /\ M[o].kind \in kinds
  BY DEF Standing, Of
<1>2. o \in DOMAIN L /\ M[o] = L[o]
  BY <1>1, PositionLonger
<1>3. o \in Window(L, h) /\ o \in Of(L, kinds)
  BY <1>1, <1>2, WindowLonger DEF Of
<1>4. ASSUME NEW r \in Window(L, h), r \in Of(L, {"reversed"})
      PROVE  L[r].target # o
  <2>1. r \in DOMAIN L /\ M[r] = L[r]
    BY <1>4, KeptEntry DEF Of
  <2>2. r \in Window(M, h) /\ r \in Of(M, {"reversed"})
    BY <1>4, <2>1, WindowLonger, OfLonger
  <2> QED
    BY <2>1, <2>2 DEF Standing
<1> QED
  BY <1>2, <1>3, <1>4 DEF Standing

\* The reversal of a ruling of the window is of the window.
LEMMA ReversalJoins ==
  ASSUME NEW L, NEW e, NEW M, Longer(L, e, M), e.kind = "reversed", NEW h,
         e.target \in Standing(L, Window(L, h), Reversible)
  PROVE  \A kinds : e.target \notin Standing(M, Window(M, h), kinds)
<1>1. TypedLog(L) /\ e.kind \in Targeting
  BY LongerTyped DEF Targeting
<1>2. /\ e.target \in DOMAIN L /\ e.target \in Window(L, h)
      /\ e.target >= RunStart(L, h)
  BY <1>1, StandsInLog
<1>3. ~Restarts(e, h)
  BY DEF Restarts
<1>4. e.target \in Window(M, h) /\ e.target >= RunStart(M, h)
  BY <1>2, <1>3, WindowLonger, SinceLonger
<1>5. N(L) \in Nat /\ RunStart(M, h) \in Nat /\ e.target \in Nat /\ e.target < N(L)
  BY <1>2, LongerNat, RunStartLonger
<1>6. N(L) \in Window(M, h)
  BY <1>1, <1>4, <1>5, WindowEnd
<1>7. N(L) \in Of(M, {"reversed"})
  BY OfLonger
<1>8. M[N(L)] = e
  BY LongerIs
<1> QED
  BY <1>6, <1>7, <1>8 DEF Standing

\* Reversing a ruling that stands takes its effect away for good: nothing keeps
\* the lap out, the pilot disqualified or the heat void.
THEOREM ReversalsBite == Spec => ReversalBites
<1> DEFINE Bites ==
      Added.kind = "reversed" =>
        LET r == log[Added.target]
            h == HeatOf(log, Added.target)
            after == Result(log', h)
        IN  Added.target \in Standing(log, Window(log, h), Reversible) =>
              /\ r.kind = "thrownOut"  => r.target \notin after.thrownOut
              /\ r.kind = "heatVoided" => ~after.void
              /\ r.kind = "penalty" /\ r.sort = "disqualify"
                   => r.pilot \notin after.disqualified
<1>1. TypeOK /\ OneOfAKind /\ [Next]_log => [Bites]_log
  <2> SUFFICES ASSUME TypeOK, OneOfAKind, Next
               PROVE  Bites
    OBVIOUS
  <2>1. PICK e : Longer(log, e, log') /\ Guarded(e)
    BY StepLengthens
  <2>2. Added = e
    BY <2>1, AddedIs
  <2> DEFINE o == e.target
             h == HeatOf(log, o)
  <2> SUFFICES ASSUME e.kind = "reversed",
                      o \in Standing(log, Window(log, h), Reversible)
               PROVE  /\ log[o].kind = "thrownOut"
                           => log[o].target \notin Result(log', h).thrownOut
                      /\ log[o].kind = "heatVoided" => ~Result(log', h).void
                      /\ log[o].kind = "penalty" /\ log[o].sort = "disqualify"
                           => log[o].pilot \notin Result(log', h).disqualified
    BY <2>2
  <2> HIDE DEF o, h
  <2>3. \A kinds : o \notin Standing(log', Window(log', h), kinds)
    BY <2>1, ReversalJoins DEF o
  <2>4. TypedLog(log)
    BY DEF TypeOK
  <2>5. /\ o \in Standing(log, DOMAIN log, Reversible) /\ o \in DOMAIN log
        /\ o \in Window(log, h) /\ o >= RunStart(log, h)
    BY <2>4, StandsInLog
  <2>6. \A kinds : log[o].kind \in kinds => o \in Standing(log, DOMAIN log, kinds)
    BY <2>5 DEF Standing, Of
  <2>7. ~Restarts(e, h)
    BY DEF Restarts
  <2>8. ASSUME NEW kind \in Reversible, NEW q \in Standing(log', Window(log', h), {kind})
        PROVE  /\ q # o /\ log'[q] = log[q] /\ log[q].kind = kind /\ q \in DOMAIN log
               /\ q \in Standing(log, DOMAIN log, {kind})
               /\ q \in Window(log, h) /\ q >= RunStart(log, h)
    <3>1. q \in Standing(log, Window(log, h), {kind}) /\ log'[q] = log[q]
      BY <2>1, <2>7, StandingLonger DEF Reversible
    <3>2. q \in Standing(log, DOMAIN log, {kind}) /\ q \in DOMAIN log
          /\ q \in Window(log, h) /\ log[q].kind \in {kind} /\ q >= RunStart(log, h)
      BY <2>4, <3>1, StandsInLog
    <3> QED
      BY <2>3, <3>1, <3>2
  <2>9. ASSUME log[o].kind = "thrownOut"
        PROVE  log[o].target \notin Result(log', h).thrownOut
    <3>1. Result(log', h).thrownOut =
            {log'[q].target : q \in Standing(log', Window(log', h), {"thrownOut"})}
      BY DEF Result
    <3>2. ASSUME NEW q \in Standing(log', Window(log', h), {"thrownOut"})
          PROVE  log'[q].target # log[o].target
      <4>1. q # o /\ log'[q] = log[q] /\ q \in Standing(log, DOMAIN log, {"thrownOut"})
        BY <2>8 DEF Reversible
      <4> QED
        BY <2>6, <2>9, <4>1 DEF OneOfAKind, SingleRulings
    <3> QED
      BY <3>1, <3>2
  <2>10. \A q \in DOMAIN log :
           q \in Window(log, h) /\ log[q].kind \in {"penalty", "heatVoided"}
             => log[q].heat = h
    <3> SUFFICES ASSUME NEW q \in DOMAIN log, q \in Window(log, h),
                        log[q].kind \in {"penalty", "heatVoided"}
                 PROVE  log[q].heat = h
      OBVIOUS
    <3>1. log[q] \in Entries
      BY <2>4 DEF TypedLog
    <3>2. log[q].heat # NoHeat
      BY <3>1, LogAssumption DEF Entries
    <3>3. Takes(log, h, q)
      BY <2>4, WindowIs DEF Targeting, PassRulings
    <3> QED
      BY <3>2, <3>3 DEF Takes, Admits, HeatLoopKinds
  <2>11. ASSUME log[o].kind = "heatVoided"
         PROVE  ~Result(log', h).void
    <3>1. Result(log', h).void <=> Standing(log', Window(log', h), {"heatVoided"}) # {}
      BY DEF Result
    <3>2. ASSUME NEW q \in Standing(log', Window(log', h), {"heatVoided"})
          PROVE  FALSE
      <4>1. /\ q # o /\ q \in Standing(log, DOMAIN log, {"heatVoided"})
            /\ log[q].kind = "heatVoided" /\ q >= RunStart(log, h)
            /\ q \in Window(log, h) /\ q \in DOMAIN log
        BY <2>8 DEF Reversible
      <4>2. log[q].heat = h /\ log[o].heat = h
        BY <2>5, <2>10, <2>11, <4>1
      <4>3. RunStart(log, h) <= q /\ RunStart(log, h) <= o
        BY <2>4, <2>5, <4>1, RunStartNat DEF TypedLog
      <4> QED
        BY <2>6, <2>11, <4>1, <4>2, <4>3 DEF OneOfAKind, SingleRulings
    <3> QED
      BY <3>1, <3>2
  <2>12. ASSUME log[o].kind = "penalty", log[o].sort = "disqualify"
         PROVE  log[o].pilot \notin Result(log', h).disqualified
    <3>1. Result(log', h).disqualified =
            {log'[q].pilot : q \in {d \in Standing(log', Window(log', h), {"penalty"}) :
                                      log'[d].sort = "disqualify"}}
      BY DEF Result
    <3>2. ASSUME NEW q \in Standing(log', Window(log', h), {"penalty"}),
                 log'[q].sort = "disqualify", log'[q].pilot = log[o].pilot
          PROVE  FALSE
      <4>1. /\ q # o /\ log'[q] = log[q] /\ q \in Standing(log, DOMAIN log, {"penalty"})
            /\ log[q].kind = "penalty" /\ q \in Window(log, h) /\ q \in DOMAIN log
        BY <2>8 DEF Reversible
      <4>2. log[q].heat = h /\ log[o].heat = h
        BY <2>5, <2>10, <2>12, <4>1
      <4>3. log[q] \in Entries /\ log[o] \in Entries
        BY <2>4, <2>5, <4>1 DEF TypedLog
      <4>4. log[q] = log[o]
        <5> DEFINE P == [kind : {"penalty"}, heat : Heats, pilot : Pilots,
                         sort : {"disqualify", "time", "points"}]
        <5>1. log[q] \in P /\ log[o] \in P
          BY <2>12, <4>1, <4>3 DEF Entries
        <5> QED
          BY <2>12, <3>2, <4>1, <4>2, <5>1
      <4> QED
        BY <2>6, <2>12, <4>1, <4>4 DEF OneOfAKind, SingleRulings
    <3> QED
      BY <3>1, <3>2
  <2> QED
    BY <2>9, <2>11, <2>12
<1>2. Spec => []TypeOK /\ []OneOfAKind
  BY TypeCorrect, SingleInForce
<1> QED
  BY <1>1, <1>2, PTL DEF Spec, ReversalBites
-----------------------------------------------------------------------------
(* A result changes by what joins the window, and by nothing else. *)

\* The new entry is a void, a restore or a re-time about the pass at q, in the
\* window of h.
Concerns(L, e, M, h, q) ==
  /\ N(L) \in Window(M, h)
  /\ \/ e.kind = "adjusted" /\ e.target = q
     \/ e.kind = "voided" /\ Chain(M, N(L)).base = q

\* What the marshal has to say about a pass.
Words(L, W, p) ==
  {o \in W : \/ L[o].kind = "adjusted" /\ L[o].target = p
             \/ L[o].kind = "voided" /\ Chain(L, o).base = p}
Retimes(L, W, p) == {o \in W : L[o].kind = "adjusted" /\ L[o].target = p}

LEMMA WordsLonger ==
  ASSUME NEW L, NEW e, NEW M, Longer(L, e, M), NEW h, ~Restarts(e, h),
         NEW q, ~Concerns(L, e, M, h, q)
  PROVE  /\ Words(M, Window(M, h), q) = Words(L, Window(L, h), q)
         /\ Retimes(M, Window(M, h), q) = Retimes(L, Window(L, h), q)
<1>1. Window(L, h) \subseteq DOMAIN L /\ Window(M, h) \subseteq DOMAIN M
  BY WindowIs, LongerTyped
<1>2. \A o \in DOMAIN L : M[o] = L[o] /\ (o \in Window(M, h) <=> o \in Window(L, h))
  BY KeptEntry, WindowLonger
<1>3. \A o \in DOMAIN L : L[o].kind = "voided" => Chain(M, o) = Chain(L, o)
  <2>1. \A o \in DOMAIN L : L[o].kind = "voided" => o \in Of(L, {"voided"})
    BY DEF Of
  <2> QED
    BY <2>1, ChainLonger
<1>4. \A o \in DOMAIN M : o \in DOMAIN L \/ (o = N(L) /\ M[o] = e)
  BY PositionLonger
<1>5. N(L) \notin Words(M, Window(M, h), q) /\ N(L) \notin Retimes(M, Window(M, h), q)
  <2>1. M[N(L)] = e
    BY LongerIs
  <2> QED
    BY <2>1 DEF Words, Retimes, Concerns
<1>6. \A o \in DOMAIN L : /\ o \in Words(M, Window(M, h), q) <=> o \in Words(L, Window(L, h), q)
                          /\ o \in Retimes(M, Window(M, h), q) <=> o \in Retimes(L, Window(L, h), q)
  BY <1>2, <1>3 DEF Words, Retimes
<1>7. /\ Words(M, Window(M, h), q) \subseteq DOMAIN M
      /\ Words(L, Window(L, h), q) \subseteq DOMAIN L
      /\ Retimes(M, Window(M, h), q) \subseteq DOMAIN M
      /\ Retimes(L, Window(L, h), q) \subseteq DOMAIN L
  BY <1>1 DEF Words, Retimes
<1> QED
  BY <1>4, <1>5, <1>6, <1>7

\* A word about a pass, if there is any, is an entry of the window.
LEMMA WordIn ==
  ASSUME NEW L, TypedLog(L), NEW h, NEW p
  PROVE  /\ LastWord(L, Window(L, h), p) = Latest(Words(L, Window(L, h), p))
         /\ \/ LastWord(L, Window(L, h), p) = 0
            \/ /\ LastWord(L, Window(L, h), p) \in Words(L, Window(L, h), p)
               /\ LastWord(L, Window(L, h), p) \in DOMAIN L
         /\ Words(L, Window(L, h), p) \in SUBSET (1..Len(L))
         /\ Retimes(L, Window(L, h), p) \in SUBSET (1..Len(L))
         /\ \/ Latest(Retimes(L, Window(L, h), p)) = 0
            \/ /\ Latest(Retimes(L, Window(L, h), p)) \in Retimes(L, Window(L, h), p)
               /\ Latest(Retimes(L, Window(L, h), p)) \in DOMAIN L
<1>1. Len(L) \in Nat /\ DOMAIN L = 1..Len(L)
  BY DEF TypedLog
<1>2. Window(L, h) \subseteq DOMAIN L
  BY WindowIs
<1>3. /\ Words(L, Window(L, h), p) \in SUBSET (1..Len(L))
      /\ Retimes(L, Window(L, h), p) \in SUBSET (1..Len(L))
  BY <1>1, <1>2 DEF Words, Retimes
<1>4. LastWord(L, Window(L, h), p) = Latest(Words(L, Window(L, h), p))
  BY DEF LastWord, Words
<1> QED
  BY <1>1, <1>3, <1>4, LatestIn

\* What no new word is about counts as it did, at the instant it had.
LEMMA Unruled ==
  ASSUME NEW L, NEW e, NEW M, Longer(L, e, M), NEW h, ~Restarts(e, h),
         NEW q \in DOMAIN L, ~Concerns(L, e, M, h, q)
  PROVE  /\ RemovedByMarshal(M, Window(M, h), q) <=> RemovedByMarshal(L, Window(L, h), q)
         /\ InstantAt(M, Window(M, h), q) = InstantAt(L, Window(L, h), q)
<1>1. TypedLog(L) /\ TypedLog(M)
  BY LongerTyped
<1> DEFINE word == LastWord(L, Window(L, h), q)
           retime == Latest(Retimes(L, Window(L, h), q))
<1>2. LastWord(M, Window(M, h), q) = word
  BY <1>1, WordIn, WordsLonger
<1>3. Latest(Retimes(M, Window(M, h), q)) = retime
  BY WordsLonger
<1>4. word = 0 \/ word \in DOMAIN L
  BY <1>1, WordIn
<1>5. retime = 0 \/ retime \in DOMAIN L
  BY <1>1, WordIn
<1>6. word # 0 /\ L[word].kind = "voided" =>
        Chain(M, word) = Chain(L, word)
  <2>1. word # 0 /\ L[word].kind = "voided" => word \in Of(L, {"voided"})
    BY <1>4 DEF Of
  <2> HIDE DEF word
  <2> QED
    BY <2>1, ChainLonger
<1>7. \A o \in DOMAIN L : M[o] = L[o]
  BY KeptEntry
<1>8. RemovedByMarshal(M, Window(M, h), q) <=> RemovedByMarshal(L, Window(L, h), q)
  <2>1. RemovedByMarshal(L, Window(L, h), q) <=>
          word # 0 /\ L[word].kind = "voided" /\ Chain(L, word).gone
    BY DEF RemovedByMarshal
  <2>2. RemovedByMarshal(M, Window(M, h), q) <=>
          word # 0 /\ M[word].kind = "voided" /\ Chain(M, word).gone
    BY <1>2 DEF RemovedByMarshal
  <2> HIDE DEF word
  <2> QED
    BY <1>4, <1>6, <1>7, <2>1, <2>2
<1>9. InstantAt(M, Window(M, h), q) = InstantAt(L, Window(L, h), q)
  <2>1. InstantAt(L, Window(L, h), q) = IF retime = 0 THEN L[q].at ELSE L[retime].at
    BY DEF InstantAt, Retimes
  <2>2. InstantAt(M, Window(M, h), q) = IF retime = 0 THEN M[q].at ELSE M[retime].at
    BY <1>3 DEF InstantAt, Retimes
  <2> HIDE DEF retime
  <2> QED
    BY <1>5, <1>7, <2>1, <2>2
<1> QED
  BY <1>8, <1>9

\* The passes the marshal left, of which a result is made.
Left(L, h) == {o \in Window(L, h) \cap Of(L, PassKinds) :
                 ~RemovedByMarshal(L, Window(L, h), o)}
Crossing(L, h, p) == [offset |-> p, pilot |-> PilotAt(L, p),
                      at |-> InstantAt(L, Window(L, h), p)]

LEMMA CorrectedIs ==
  ASSUME NEW L, NEW h
  PROVE  Corrected(L, Window(L, h)) = {Crossing(L, h, p) : p \in Left(L, h)}
BY DEF Corrected, Left, Crossing

LEMMA CrossingLonger ==
  ASSUME NEW L, NEW e, NEW M, Longer(L, e, M), NEW h, ~Restarts(e, h),
         NEW q \in DOMAIN L, ~Concerns(L, e, M, h, q)
  PROVE  /\ q \in Left(M, h) <=> q \in Left(L, h)
         /\ Crossing(M, h, q) = Crossing(L, h, q)
<1>1. q \in Window(M, h) <=> q \in Window(L, h)
  BY WindowLonger
<1>2. q \in Of(M, PassKinds) <=> q \in Of(L, PassKinds)
  BY OfLonger
<1>3. /\ RemovedByMarshal(M, Window(M, h), q) <=> RemovedByMarshal(L, Window(L, h), q)
      /\ InstantAt(M, Window(M, h), q) = InstantAt(L, Window(L, h), q)
  BY Unruled
<1>4. PilotAt(M, q) = PilotAt(L, q)
  BY PilotLonger
<1> QED
  BY <1>1, <1>2, <1>3, <1>4 DEF Left, Crossing

\* The new entry, if the window takes it in at all, is one no fold of h's
\* result looks at: a step of the heat loop, or another heat's tone.
Idle(L, e, M, h) ==
  N(L) \in Window(M, h) =>
    e.kind \in HeatLoopKinds \/ (e.kind = "expired" /\ e.heat # h)

LEMMA ResultLonger ==
  ASSUME NEW L, NEW e, NEW M, Longer(L, e, M), NEW h, ~Restarts(e, h), Idle(L, e, M, h)
  PROVE  Result(M, h) = Result(L, h)
<1> DEFINE V == Window(L, h)
           W == Window(M, h)
<1>1. V \subseteq DOMAIN L /\ W \subseteq DOMAIN M
  BY WindowIs, LongerTyped
<1>2. \A o \in DOMAIN M : o \in DOMAIN L \/ (o = N(L) /\ M[o] = e)
  BY PositionLonger
<1>3. \A o \in DOMAIN L : M[o] = L[o] /\ (o \in W <=> o \in V)
  BY KeptEntry, WindowLonger
<1>4. \A q : ~Concerns(L, e, M, h, q)
  BY DEF Concerns, Idle, HeatLoopKinds
<1>5. ASSUME NEW kinds,
             kinds \cap (HeatLoopKinds \cup {"expired"}) = {}
      PROVE  W \cap Of(M, kinds) = V \cap Of(L, kinds)
  <2>1. N(L) \notin W \cap Of(M, kinds)
    <3>1. N(L) \in Of(M, kinds) <=> e.kind \in kinds
      BY OfLonger
    <3> QED
      BY <1>5, <3>1 DEF Idle
  <2>2. \A o \in DOMAIN L : o \in Of(M, kinds) <=> o \in Of(L, kinds)
    BY OfLonger
  <2> HIDE DEF V, W
  <2> QED
    BY <1>1, <1>2, <1>3, <2>1, <2>2
<1>6. Corrected(M, W) = Corrected(L, V)
  <2>1. Left(M, h) = Left(L, h)
    <3>1. \A q \in DOMAIN L : q \in Left(M, h) <=> q \in Left(L, h)
      BY <1>4, CrossingLonger
    <3>2. N(L) \notin Left(M, h)
      <4>1. W \cap Of(M, PassKinds) = V \cap Of(L, PassKinds)
        BY <1>5 DEF PassKinds, HeatLoopKinds
      <4>2. N(L) \notin V
        BY <1>1, LongerIs
      <4> QED
        BY <4>1, <4>2 DEF Left
    <3>3. Left(M, h) \subseteq DOMAIN M /\ Left(L, h) \subseteq DOMAIN L
      BY <1>1 DEF Left
    <3> QED
      BY <1>2, <3>1, <3>2, <3>3
  <2>2. \A q \in Left(L, h) : Crossing(M, h, q) = Crossing(L, h, q)
    <3>1. Left(L, h) \subseteq DOMAIN L
      BY <1>1 DEF Left
    <3> QED
      BY <1>4, <3>1, CrossingLonger
  <2>3. {Crossing(M, h, p) : p \in Left(L, h)} = {Crossing(L, h, p) : p \in Left(L, h)}
    BY <2>2
  <2>4. Corrected(L, V) = {Crossing(L, h, p) : p \in Left(L, h)}
    BY CorrectedIs
  <2>5. Corrected(M, W) = {Crossing(M, h, p) : p \in Left(M, h)}
    BY CorrectedIs
  <2> HIDE DEF V, W
  <2> QED
    BY <2>1, <2>3, <2>4, <2>5
<1>7. Exempt(M, W) = Exempt(L, V)
  <2>1. W \cap Of(M, {"inserted", "split"}) = V \cap Of(L, {"inserted", "split"})
    BY <1>5 DEF HeatLoopKinds
  <2>2. W \cap Of(M, {"adjusted"}) = V \cap Of(L, {"adjusted"})
    BY <1>5 DEF HeatLoopKinds
  <2>3. \A o \in V \cap Of(L, {"adjusted"}) : M[o] = L[o]
    BY <1>1, <1>3
  <2>4. {M[o].target : o \in V \cap Of(L, {"adjusted"})}
          = {L[o].target : o \in V \cap Of(L, {"adjusted"})}
    BY <2>3
  <2> HIDE DEF V, W
  <2> QED
    BY <2>1, <2>2, <2>4 DEF Exempt
<1>8. Marker(M, W, h) = Marker(L, V, h)
  <2> DEFINE S == {o \in V \cap Of(L, {"expired"}) : L[o].heat = h}
             T == {o \in W \cap Of(M, {"expired"}) : M[o].heat = h}
  <2>1. N(L) \notin T
    <3>1. N(L) \in Of(M, {"expired"}) <=> e.kind \in {"expired"}
      BY OfLonger
    <3>2. M[N(L)] = e
      BY LongerIs
    <3> QED
      BY <3>1, <3>2 DEF Idle, HeatLoopKinds
  <2>2. \A o \in DOMAIN L : o \in Of(M, {"expired"}) <=> o \in Of(L, {"expired"})
    BY OfLonger
  <2>3. \A o \in DOMAIN L : o \in T <=> o \in S
    BY <1>3, <2>2
  <2>4. S \subseteq DOMAIN L /\ T \subseteq DOMAIN M
    BY <1>1
  <2>5. Marker(L, V, h) = Latest(S) /\ Marker(M, W, h) = Latest(T)
    BY DEF Marker
  <2> HIDE DEF S, T
  <2>6. S = T
    BY <1>2, <2>1, <2>3, <2>4
  <2> QED
    BY <2>5, <2>6
<1>9. ASSUME NEW kinds \in SUBSET Reversible
      PROVE  Standing(M, W, kinds) = Standing(L, V, kinds)
  <2>1. W \cap Of(M, kinds) = V \cap Of(L, kinds)
    BY <1>5 DEF Reversible, HeatLoopKinds
  <2>2. W \cap Of(M, {"reversed"}) = V \cap Of(L, {"reversed"})
    BY <1>5 DEF HeatLoopKinds
  <2>3. \A o \in V \cap Of(L, {"reversed"}) : M[o] = L[o]
    BY <1>1, <1>3
  <2> HIDE DEF V, W
  <2> QED
    BY <2>1, <2>2, <2>3 DEF Standing
<1>10. ASSUME NEW kinds
       PROVE  \A o \in Standing(L, V, kinds) : M[o] = L[o]
  BY <1>1, <1>3 DEF Standing
<1>11. /\ Standing(M, W, {"thrownOut"}) = Standing(L, V, {"thrownOut"})
       /\ Standing(M, W, {"penalty"}) = Standing(L, V, {"penalty"})
       /\ Standing(M, W, {"heatVoided"}) = Standing(L, V, {"heatVoided"})
  BY <1>9 DEF Reversible
<1>12. /\ {M[o].target : o \in Standing(M, W, {"thrownOut"})}
            = {L[o].target : o \in Standing(L, V, {"thrownOut"})}
  BY <1>10, <1>11
<1>13. \A sort : {o \in Standing(M, W, {"penalty"}) : M[o].sort = sort}
                   = {o \in Standing(L, V, {"penalty"}) : L[o].sort = sort}
  BY <1>10, <1>11
<1>14. {M[o].pilot : o \in {d \in Standing(M, W, {"penalty"}) : M[d].sort = "disqualify"}}
         = {L[o].pilot : o \in {d \in Standing(L, V, {"penalty"}) : L[d].sort = "disqualify"}}
  <2> DEFINE D == {d \in Standing(L, V, {"penalty"}) : L[d].sort = "disqualify"}
  <2>1. {d \in Standing(M, W, {"penalty"}) : M[d].sort = "disqualify"} = D
    BY <1>13
  <2>2. \A o \in D : M[o] = L[o]
    BY <1>10
  <2> HIDE DEF D
  <2>3. {M[o].pilot : o \in D} = {L[o].pilot : o \in D}
    BY <2>2
  <2> QED
    BY <2>1, <2>3 DEF D
<1>15. Kept(M, W, Marker(M, W, h)) = Kept(L, V, Marker(L, V, h))
  BY <1>6, <1>7, <1>8 DEF Kept
<1> QED
  BY <1>11, <1>12, <1>13, <1>14, <1>15 DEF Result
-----------------------------------------------------------------------------
(* Where a heat stands tells of its run: it has one while it races and after, *)
(* and the run of an official heat has its record closed.                     *)

StandsByRun(L) ==
  \A h \in Heats :
    /\ HeatState(L, h) \in {"Running", "Unofficial", "Final"} => RunStart(L, h) <= Len(L)
    /\ HeatState(L, h) = "Final" => Closings(L, h) # {}

\* The heat loop's table allows the entry.
Allowed(L, e) ==
  e.kind = "moved" =>
    \E c \in Commands : e.transition = Records(c) /\ HeatState(L, e.heat) \in LegalIn(c)

LEMMA ClosingsLonger ==
  ASSUME NEW L, NEW e, NEW M, Longer(L, e, M), NEW h, ~Restarts(e, h)
  PROVE  Closings(L, h) \subseteq Closings(M, h)
<1>1. Moves(L, h, {"Finalized"}) \subseteq Moves(M, h, {"Finalized"})
  BY MovesLonger
<1>2. Moves(L, h, {"Finalized"}) \subseteq DOMAIN L
  BY MovesLonger, LongerNat
<1>3. \A o \in DOMAIN L : o >= RunStart(M, h) <=> o >= RunStart(L, h)
  BY SinceLonger
<1> QED
  BY <1>1, <1>2, <1>3 DEF Closings

LEMMA StandsByRunLonger ==
  ASSUME NEW L, NEW e, NEW M, Longer(L, e, M), StandsByRun(L), Allowed(L, e)
  PROVE  StandsByRun(M)
<1> DEFINE Raced(h, K) == HeatState(K, h) \in {"Running", "Unofficial", "Final"}
                            => RunStart(K, h) <= Len(K)
           Closed(h, K) == HeatState(K, h) = "Final" => Closings(K, h) # {}
<1> SUFFICES ASSUME NEW h \in Heats
             PROVE  Raced(h, M) /\ Closed(h, M)
  BY DEF StandsByRun
<1>1. Raced(h, L) /\ Closed(h, L)
  BY DEF StandsByRun
<1>2. /\ Len(M) = N(L) /\ N(L) \in Nat /\ Len(L) \in Nat /\ Len(L) < N(L)
      /\ RunStart(L, h) \in Nat /\ RunStart(M, h) \in Nat
  BY LongerNat, RunStartLonger
<1>3. ASSUME ~Restarts(e, h), RunStart(L, h) <= Len(L)
      PROVE  RunStart(M, h) = RunStart(L, h) /\ RunStart(M, h) <= Len(M)
  <2>1. RunStart(M, h) = RunStart(L, h)
    BY <1>3, SinceLonger
  <2> QED
    BY <1>2, <1>3, <2>1
<1>4. CASE ~(e.kind \in HeatLoopKinds /\ e.heat = h)
  <2>1. HeatState(M, h) = HeatState(L, h)
    BY <1>4, HeatStateLonger
  <2>2. ~Restarts(e, h)
    BY <1>4 DEF Restarts, HeatLoopKinds
  <2>3. Closings(L, h) \subseteq Closings(M, h)
    BY <2>2, ClosingsLonger
  <2> QED
    BY <1>1, <1>3, <2>1, <2>2, <2>3
<1>5. CASE e.kind = "scheduled" /\ e.heat = h
  <2>1. HeatState(M, h) = "Scheduled"
    BY <1>5, HeatStateLonger DEF HeatLoopKinds
  <2> QED
    BY <2>1
<1>6. CASE e.kind = "moved" /\ e.heat = h
  <2>1. PICK c \in Commands : e.transition = Records(c) /\ HeatState(L, h) \in LegalIn(c)
    BY <1>6 DEF Allowed
  <2>2. HeatState(M, h) = NextState(e.transition)
    BY <1>6, HeatStateLonger DEF HeatLoopKinds
  <2>3. CASE c \in {"Stage", "Start"}
    BY <2>1, <2>2, <2>3 DEF Records, NextState
  <2>4. CASE c \in {"Abort", "Restart", "Discard"}
    BY <2>1, <2>2, <2>4 DEF Records, NextState
  <2>5. CASE c = "SkipCountdown"
    <3>1. e.transition = "Running" /\ HeatState(M, h) = "Running"
      BY <2>1, <2>2, <2>5 DEF Records, NextState
    <3>2. RunStart(M, h) = N(L)
      BY <1>6, <3>1, RunStartLonger DEF Restarts
    <3> QED
      BY <1>2, <3>1, <3>2
  <2>6. CASE c \in {"ForceEnd", "Finalize", "Advance", "Revert"}
    <3>1. HeatState(L, h) \in {"Running", "Unofficial", "Final"}
      BY <2>1, <2>6 DEF LegalIn
    <3>2. ~Restarts(e, h)
      BY <2>1, <2>6 DEF Restarts, Records, Resets
    <3>3. RunStart(M, h) <= Len(M)
      BY <1>1, <1>3, <3>1, <3>2
    <3>4. CASE c \in {"ForceEnd", "Revert"}
      <4>1. HeatState(M, h) = "Unofficial"
        BY <2>1, <2>2, <3>4 DEF Records, NextState
      <4> QED
        BY <3>3, <4>1
    <3>5. CASE c = "Finalize"
      <4>1. e.transition = "Finalized"
        BY <2>1, <3>5 DEF Records
      <4>2. N(L) \in Moves(M, h, {"Finalized"})
        BY <1>6, <4>1, MovesLonger
      <4>3. N(L) >= RunStart(M, h)
        BY <1>2, <3>3
      <4>4. N(L) \in Closings(M, h)
        BY <4>2, <4>3 DEF Closings
      <4> QED
        BY <3>3, <4>4
    <3>6. CASE c = "Advance"
      <4>1. HeatState(L, h) = "Final"
        BY <2>1, <3>6 DEF LegalIn
      <4>2. Closings(L, h) \subseteq Closings(M, h)
        BY <3>2, ClosingsLonger
      <4> QED
        BY <1>1, <3>3, <4>1, <4>2
    <3> QED
      BY <2>6, <3>4, <3>5, <3>6
  <2> QED
    BY <2>3, <2>4, <2>5, <2>6 DEF Commands
<1> QED
  BY <1>4, <1>5, <1>6 DEF HeatLoopKinds

\* A well-formed log is built entry by entry of what fits.
Prefix(L, n) == SubSeq(L, 1, n)

LEMMA PrefixGrows ==
  ASSUME NEW L, TypedLog(L), NEW n \in 0..Len(L)
  PROVE  /\ TypedLog(Prefix(L, n))
         /\ n < Len(L) => Longer(Prefix(L, n), L[n + 1], Prefix(L, n + 1))
<1>1. L \in Seq(Entries) /\ Len(L) \in Nat
  BY DEF TypedLog
<1>2. ASSUME NEW m \in 0..Len(L)
      PROVE  /\ Prefix(L, m) \in Seq(Entries) /\ Len(Prefix(L, m)) = m
             /\ DOMAIN Prefix(L, m) = 1..m
             /\ \A i \in 1..m : Prefix(L, m)[i] = L[i]
  BY <1>1 DEF Prefix
<1>3. TypedLog(Prefix(L, n))
  <2> DEFINE K == Prefix(L, n)
  <2>1. K \in Seq(Entries) /\ DOMAIN K = 1..n /\ \A i \in 1..n : K[i] = L[i]
    BY <1>2
  <2> HIDE DEF K
  <2>2. ASSUME NEW o \in Of(K, Targeting)
        PROVE  K[o].target < o /\ K[K[o].target].kind \in RulesOn(K[o].kind)
    <3>1. o \in 1..n /\ K[o] = L[o] /\ o \in DOMAIN L /\ L[o].kind \in Targeting
      BY <1>1, <2>1 DEF Of
    <3>2. o \in Of(L, Targeting)
      BY <3>1 DEF Of
    <3>3. /\ L[o].target \in DOMAIN L /\ L[o].target < o
          /\ L[L[o].target].kind \in RulesOn(L[o].kind)
      BY <3>2, TargetsBelow
    <3>4. L[o].target \in 1..n
      BY <1>1, <3>1, <3>3
    <3> QED
      BY <2>1, <3>1, <3>3, <3>4
  <2> QED
    BY <2>1, <2>2 DEF TypedLog, K
<1>4. ASSUME n < Len(L)
      PROVE  Longer(Prefix(L, n), L[n + 1], Prefix(L, n + 1))
  <2>1. n + 1 \in 1..Len(L) /\ n + 1 \in 0..Len(L) /\ DOMAIN L = 1..Len(L) /\ n \in Nat
    BY <1>1, <1>4
  <2>2. Prefix(L, n + 1) = Append(Prefix(L, n), L[n + 1])
    BY <1>1, <1>2, <2>1 DEF Prefix
  <2>3. Fits(Prefix(L, n), L[n + 1])
    <3>1. L[n + 1] \in Entries
      BY <1>1, <2>1
    <3>2. ASSUME L[n + 1].kind \in Targeting
          PROVE  /\ L[n + 1].target \in 1..n
                 /\ L[L[n + 1].target].kind \in RulesOn(L[n + 1].kind)
      <4>1. n + 1 \in Of(L, Targeting)
        BY <2>1, <3>2 DEF Of
      <4>2. /\ L[n + 1].target \in DOMAIN L /\ L[n + 1].target < n + 1
            /\ L[L[n + 1].target].kind \in RulesOn(L[n + 1].kind)
        BY <4>1, TargetsBelow
      <4> QED
        BY <1>1, <2>1, <4>2
    <3> QED
      BY <1>2, <3>1, <3>2 DEF Fits
  <2> QED
    BY <1>3, <2>2, <2>3 DEF Longer
<1> QED
  BY <1>3, <1>4

\* A log every entry of which is legal is one the heat loop could have written.
LEMMA LegalStandsByRun ==
  ASSUME NEW L, TypedLog(L), \A o \in DOMAIN L : LegalEntry(L, o)
  PROVE  StandsByRun(L)
<1> DEFINE T == {n \in 0..Len(L) : StandsByRun(Prefix(L, n))}
<1>1. L \in Seq(Entries) /\ Len(L) \in Nat /\ DOMAIN L = 1..Len(L)
  BY DEF TypedLog
<1>2. 0 \in T
  <2>1. Prefix(L, 0) = << >>
    BY SubSeqEmpty DEF Prefix
  <2>2. \A kinds : Of(<< >>, kinds) = {}
    BY DEF Of
  <2>3. ASSUME NEW h
        PROVE  HeatState(<< >>, h) = Unknown
    <3> DEFINE S == {o \in Of(<< >>, HeatLoopKinds) : << >>[o].heat = h}
    <3>1. S = {}
      BY <2>2
    <3>2. HeatState(<< >>, h) = IF Latest(S) = 0 THEN Unknown
                                ELSE IF << >>[Latest(S)].kind = "scheduled" THEN "Scheduled"
                                ELSE NextState(<< >>[Latest(S)].transition)
      BY DEF HeatState
    <3> HIDE DEF S
    <3> QED
      BY <3>1, <3>2 DEF Latest
  <2>4. StandsByRun(<< >>)
    BY <2>3 DEF StandsByRun, Unknown
  <2> QED
    BY <1>1, <2>1, <2>4
<1>3. ASSUME NEW n \in 0..Len(L), n < Len(L), n \in T
      PROVE  n + 1 \in T
  <2>1. Longer(Prefix(L, n), L[n + 1], Prefix(L, n + 1))
    BY <1>3, PrefixGrows
  <2>2. n + 1 \in DOMAIN L /\ n + 1 \in 0..Len(L) /\ (n + 1) - 1 = n
    BY <1>1, <1>3
  <2>3. LegalEntry(L, n + 1)
    BY <2>2
  <2>4. Allowed(Prefix(L, n), L[n + 1])
    BY <2>2, <2>3 DEF LegalEntry, Allowed, Prefix
  <2>5. StandsByRun(Prefix(L, n + 1))
    BY <1>3, <2>1, <2>4, StandsByRunLonger
  <2> QED
    BY <2>2, <2>5
<1>4. Len(L) \in T
  <2>1. T \in SUBSET (0..Len(L))
    OBVIOUS
  <2> HIDE DEF T
  <2> QED
    BY <1>1, <1>2, <1>3, <2>1, Reaches
<1>5. Prefix(L, Len(L)) = L
  BY <1>1, SubSeqFull DEF Prefix
<1> QED
  BY <1>4, <1>5

\* A guarded entry is one the heat loop allows.
LEMMA StepStandsByRun ==
  TypeOK /\ StandsByRun(log) /\ [Next]_log => StandsByRun(log')
<1> SUFFICES ASSUME TypeOK, StandsByRun(log), [Next]_log
             PROVE  StandsByRun(log')
  OBVIOUS
<1>1. CASE Next
  <2>1. PICK e : Longer(log, e, log') /\ Guarded(e)
    BY <1>1, StepLengthens
  <2>2. Allowed(log, e)
    BY <2>1 DEF Guarded, Allowed
  <2> QED
    BY <2>1, <2>2, StandsByRunLonger
<1>2. CASE log' = log
  BY <1>2
<1> QED
  BY <1>1, <1>2

LEMMA AlwaysStandsByRun == Spec => []StandsByRun(log)
<1>1. Init => StandsByRun(log)
  BY OpeningAssumption, LegalStandsByRun DEF Init
<1>2. TypeOK /\ StandsByRun(log) /\ [Next]_log => StandsByRun(log)'
  BY StepStandsByRun
<1> QED
  BY <1>1, <1>2, TypeCorrect, PTL DEF Spec

\* While a result stays official, what is recorded is nothing it is made of:
\* the guards refuse the marshal, and the record is closed to the timers.
LEMMA OfficialIdle ==
  ASSUME TypeOK, StandsByRun(log), NEW e, Longer(log, e, log'), Guarded(e),
         NEW h \in Heats, HeatState(log, h) = "Final", HeatState(log', h) = "Final"
  PROVE  ~Restarts(e, h) /\ Idle(log, e, log', h)
<1>1. TypedLog(log) /\ h # NoHeat
  BY LogAssumption DEF TypeOK
<1>2. ~Restarts(e, h)
  <2> SUFFICES ASSUME Restarts(e, h)
               PROVE  FALSE
    OBVIOUS
  <2>1. HeatState(log', h) = NextState(e.transition)
    BY HeatStateLonger DEF Restarts, HeatLoopKinds
  <2>2. e.transition \in {"Running", "Aborted", "Restarted", "Discarded"}
    BY DEF Restarts, Resets
  <2> QED
    BY <2>1, <2>2 DEF NextState
<1>3. /\ PassCeiling(log', h) = PassCeiling(log, h)
      /\ PassCeiling(log, h) \in DOMAIN log
  BY <1>2, CeilingLonger DEF StandsByRun
<1>4. log'[N(log)] = e
  BY LongerIs
<1>5. N(log) \in Window(log', h) <=>
        IF e.kind \in Targeting
          THEN N(log) >= RunStart(log', h) /\ e.target \in Window(log', h)
          ELSE Takes(log', h, N(log))
  BY WindowEnd
<1>6. CASE e.kind \in Targeting
  <2>1. e.target \in DOMAIN log
    BY <1>6, TargetLonger
  <2>2. ASSUME e.target \in Window(log', h)
        PROVE  FALSE
    <3>1. e.target \in Window(log, h)
      BY <1>2, <2>1, <2>2, WindowLonger
    <3>2. HeatOf(log, e.target) = h
      BY <1>1, <3>1, WindowOwned
    <3> QED
      BY <1>1, <1>6, <3>2 DEF Guarded, TargetNotFinal, NotFinal
  <2> QED
    BY <1>2, <1>5, <1>6, <2>2 DEF Idle
<1>7. CASE e.kind \notin Targeting
  <2>1. ASSUME e.kind \notin HeatLoopKinds, Takes(log', h, N(log))
        PROVE  e.kind = "expired" /\ e.heat # h
    <3>1. /\ e.kind = "pass" => N(log) < PassCeiling(log', h)
          /\ IF e.kind = "expired" \/ e.heat = NoHeat
               THEN PositionalHeat(log', N(log)) = h ELSE e.heat = h
      BY <1>4, <2>1 DEF Takes, Admits
    <3>2. e.kind # "pass"
      <4>1. PassCeiling(log, h) \in Nat /\ PassCeiling(log, h) < N(log) /\ N(log) \in Nat
        BY <1>3, LongerNat
      <4> QED
        BY <1>3, <3>1, <4>1
    <3>3. PositionalHeat(log', N(log)) = PositionalHeat(log, Len(log))
      BY <2>1, PositionalLonger
    <3>4. e.kind \notin {"inserted", "penalty", "heatVoided"}
      BY <3>1, <3>3 DEF Guarded, NotFinal
    <3>5. e \in Entries
      BY LongerTyped
    <3>6. e.kind = "expired"
      BY <1>7, <2>1, <3>2, <3>4, <3>5
      DEF Entries, Targeting, PassRulings, HeatLoopKinds
    <3> QED
      BY <3>6 DEF Guarded
  <2> QED
    BY <1>2, <1>5, <1>7, <2>1 DEF Idle
<1> QED
  BY <1>6, <1>7

\* Nothing the race director rules and nothing the timers deliver changes an
\* official result while it stays official.
THEOREM OfficialStays == Spec => OfficialFrozen
<1> DEFINE Frozen ==
      \A h \in Heats :
        HeatState(log, h) = "Final" /\ HeatState(log', h) = "Final"
          => Result(log', h) = Result(log, h)
<1>1. TypeOK /\ StandsByRun(log) /\ [Next]_log => [Frozen]_log
  <2> SUFFICES ASSUME TypeOK, StandsByRun(log), Next, NEW h \in Heats,
                      HeatState(log, h) = "Final", HeatState(log', h) = "Final"
               PROVE  Result(log', h) = Result(log, h)
    OBVIOUS
  <2>1. PICK e : Longer(log, e, log') /\ Guarded(e)
    BY StepLengthens
  <2>2. ~Restarts(e, h) /\ Idle(log, e, log', h)
    BY <2>1, OfficialIdle
  <2> QED
    BY <2>1, <2>2, ResultLonger
<1> QED
  BY <1>1, TypeCorrect, AlwaysStandsByRun, PTL DEF Spec, OfficialFrozen

\* Once a run has been official a late pass changes nothing, whatever the heat's
\* state is by then.
THEOREM RecordStaysClosed == Spec => RecordClosed
<1> DEFINE Stays ==
      Added.kind = "pass" =>
        LET h == Added.heat
        IN  (\E o \in Moves(log, h, {"Finalized"}) : o >= RunStart(log, h))
              => Result(log', h) = Result(log, h)
<1>1. TypeOK /\ [Next]_log => [Stays]_log
  <2> SUFFICES ASSUME TypeOK, Next
               PROVE  Stays
    OBVIOUS
  <2>1. PICK e : Longer(log, e, log') /\ Guarded(e)
    BY StepLengthens
  <2>2. Added = e
    BY <2>1, AddedIs
  <2> DEFINE h == e.heat
  <2> SUFFICES ASSUME e.kind = "pass", Closings(log, h) # {}
               PROVE  Result(log', h) = Result(log, h)
    BY <2>2 DEF Closings
  <2> HIDE DEF h
  <2>3. ~Restarts(e, h)
    BY DEF Restarts
  <2>4. PassCeiling(log', h) = PassCeiling(log, h) /\ PassCeiling(log, h) \in DOMAIN log
    BY <2>1, <2>3, CeilingLonger
  <2>5. ~(N(log) < PassCeiling(log', h))
    <3>1. PassCeiling(log, h) \in Nat /\ PassCeiling(log, h) < N(log) /\ N(log) \in Nat
      BY <2>1, <2>4, LongerNat
    <3> QED
      BY <2>4, <3>1
  <2>6. log'[N(log)] = e
    BY <2>1, LongerIs
  <2>7. N(log) \notin Window(log', h)
    <3>1. N(log) \in Window(log', h) <=>
            IF e.kind \in Targeting
              THEN N(log) >= RunStart(log', h) /\ e.target \in Window(log', h)
              ELSE Takes(log', h, N(log))
      BY <2>1, WindowEnd
    <3> QED
      BY <2>5, <2>6, <3>1 DEF Takes, Admits, Targeting, PassRulings, HeatLoopKinds
  <2> QED
    BY <2>1, <2>3, <2>7, ResultLonger DEF Idle
<1> QED
  BY <1>1, TypeCorrect, PTL DEF Spec, RecordClosed
-----------------------------------------------------------------------------
(* Voids of voids. *)

\* What is ruled on an entry of the current window joins that window.
LEMMA RulingJoins ==
  ASSUME NEW L, NEW e, NEW M, Longer(L, e, M), e.kind \in Targeting, NEW h,
         e.target \in Window(L, h), RunStart(L, h) <= e.target
  PROVE  ~Restarts(e, h) /\ N(L) \in Window(M, h)
<1>1. ~Restarts(e, h)
  BY DEF Restarts, Targeting, PassRulings
<1>2. e.target \in DOMAIN L
  BY TargetLonger
<1>3. e.target \in Window(M, h)
  BY <1>1, <1>2, WindowLonger
<1>4. N(L) >= RunStart(M, h)
  <2>1. /\ e.target \in Nat /\ e.target <= Len(L) /\ Len(L) \in Nat /\ Len(L) < N(L)
        /\ N(L) \in Nat /\ RunStart(L, h) \in Nat
    BY <1>2, LongerNat, RunStartLonger
  <2>2. RunStart(L, h) <= Len(L)
    BY <2>1
  <2>3. RunStart(M, h) = RunStart(L, h)
    BY <1>1, <2>2, SinceLonger
  <2> QED
    BY <2>1, <2>2, <2>3
<1> QED
  BY <1>1, <1>3, <1>4, WindowEnd

LEMMA UndoTurns ==
  ASSUME NEW L, NEW e, NEW M, Longer(L, e, M), e.kind = "voided",
         L[e.target].kind = "voided", NEW h,
         LastWord(L, Window(L, h), Chain(L, e.target).base) = e.target
  PROVE  RemovedByMarshal(L, Window(L, h), Chain(L, e.target).base)
           # RemovedByMarshal(M, Window(M, h), Chain(L, e.target).base)
<1> DEFINE t == e.target
           p == Chain(L, t).base
<1>1. TypedLog(L) /\ TypedLog(M) /\ e.kind \in Targeting
  BY LongerTyped DEF Targeting, PassRulings
<1>2. t \in DOMAIN L /\ t \in Nat /\ 1 <= t /\ L[t].kind = "voided"
  BY <1>1, TargetLonger, LongerNat
<1>3. LastWord(L, Window(L, h), p) = t
  OBVIOUS
<1> HIDE DEF p
<1>4. t # 0
  BY <1>2
<1>5. t \in Window(L, h)
  <2>1. t \in Words(L, Window(L, h), p)
    BY <1>1, <1>3, <1>4, WordIn
  <2> QED
    BY <2>1 DEF Words
<1>6. RunStart(L, h) <= t
  <2>1. t >= RunStart(L, h)
    BY <1>1, <1>2, <1>5, WindowOfRun DEF HeatLoopKinds
  <2> QED
    BY <1>2, <2>1, RunStartLonger
<1>7. N(L) \in Window(M, h)
  BY <1>1, <1>5, <1>6, RulingJoins
<1>8. M[N(L)] = e /\ M[t] = L[t]
  <2>1. M[N(L)] = e
    BY LongerIs
  <2>2. M[t] = L[t]
    BY <1>2, KeptEntry
  <2> QED
    BY <2>1, <2>2
<1>9. Chain(M, N(L)) = [base |-> p, gone |-> ~Chain(L, t).gone]
  <2>1. N(L) \in Of(M, {"voided"})
    BY OfLonger
  <2>2. t \in Of(L, {"voided"})
    BY <1>2 DEF Of
  <2>3. Chain(M, t) = Chain(L, t)
    BY <2>2, ChainLonger
  <2>4. Chain(M, N(L)) = [base |-> Chain(M, t).base, gone |-> ~Chain(M, t).gone]
    BY <1>1, <1>2, <1>8, <2>1, ChainIs
  <2> QED
    BY <2>3, <2>4 DEF p
<1>10. LastWord(M, Window(M, h), p) = N(L)
  <2> DEFINE S == Words(M, Window(M, h), p)
  <2>1. /\ LastWord(M, Window(M, h), p) = Latest(S)
        /\ S \in SUBSET (1..Len(M))
    BY <1>1, WordIn
  <2>2. Len(M) = N(L) /\ N(L) \in Nat
    BY LongerNat
  <2>3. N(L) \in S
    BY <1>7, <1>8, <1>9 DEF Words
  <2> HIDE DEF S
  <2>4. \A y \in S : y <= N(L)
    BY <2>1, <2>2
  <2>5. S \in SUBSET (1..N(L))
    BY <2>1, <2>2
  <2> QED
    BY <2>1, <2>2, <2>3, <2>4, <2>5, LatestIs
<1>11. RemovedByMarshal(L, Window(L, h), p) <=> Chain(L, t).gone
  <2> HIDE DEF t
  <2> QED
    BY <1>2, <1>3, <1>4 DEF RemovedByMarshal
<1>12. RemovedByMarshal(M, Window(M, h), p) <=> ~Chain(L, t).gone
  <2>1. N(L) # 0
    BY LongerNat
  <2>2. Chain(M, N(L)).gone = ~Chain(L, t).gone
    BY <1>9
  <2> HIDE DEF t
  <2> QED
    BY <1>8, <1>10, <2>1, <2>2 DEF RemovedByMarshal
<1> QED
  BY <1>11, <1>12 DEF p

\* However deep the chain of voids, voiding its last link turns round whether
\* the pass at its end counts.
THEOREM UndosFlip == Spec => UndoFlips
<1> DEFINE Flips ==
      Added.kind = "voided" /\ log'[Added.target].kind = "voided" =>
        LET h == HeatOf(log, Added.target)
            W == Window(log, h)
            p == Chain(log, Added.target).base
        IN  LastWord(log, W, p) = Added.target
              => ( RemovedByMarshal(log, W, p)
                     # RemovedByMarshal(log', Window(log', h), p) )
<1>1. TypeOK /\ [Next]_log => [Flips]_log
  <2> SUFFICES ASSUME TypeOK, Next
               PROVE  Flips
    OBVIOUS
  <2>1. PICK e : Longer(log, e, log') /\ Guarded(e)
    BY StepLengthens
  <2>2. Added = e
    BY <2>1, AddedIs
  <2> DEFINE h == HeatOf(log, e.target)
             p == Chain(log, e.target).base
  <2> SUFFICES ASSUME e.kind = "voided", log'[e.target].kind = "voided",
                      LastWord(log, Window(log, h), p) = e.target
               PROVE  RemovedByMarshal(log, Window(log, h), p)
                        # RemovedByMarshal(log', Window(log', h), p)
    BY <2>2
  <2>3. e.kind \in Targeting
    BY DEF Targeting, PassRulings
  <2>4. e.target \in DOMAIN log
    BY <2>1, <2>3, TargetLonger
  <2>5. log[e.target].kind = "voided"
    BY <2>1, <2>4, KeptEntry
  <2> HIDE DEF h
  <2> QED
    BY <2>1, <2>5, UndoTurns
<1> QED
  BY <1>1, TypeCorrect, PTL DEF Spec, UndoFlips
-----------------------------------------------------------------------------
(* Crossings a marshal puts somewhere. *)

\* No heat at all is scored from nothing.
LEMMA NoHeatNoWindow ==
  ASSUME NEW L, TypedLog(L)
  PROVE  Window(L, NoHeat) = {}
<1>1. L \in Seq(Entries) /\ Len(L) \in Nat /\ DOMAIN L = 1..Len(L)
  BY DEF TypedLog
<1>2. \A o \in DOMAIN L : L[o].kind \in HeatLoopKinds => L[o].heat # NoHeat
  <2> SUFFICES ASSUME NEW o \in DOMAIN L, L[o].kind \in HeatLoopKinds
               PROVE  L[o].heat # NoHeat
    OBVIOUS
  <2>1. L[o] \in Entries
    BY <1>1
  <2> QED
    BY <2>1, LogAssumption DEF Entries, HeatLoopKinds
<1>3. Moves(L, NoHeat, {"Running"} \cup Resets) = {}
  BY <1>2 DEF Moves, Of, HeatLoopKinds
<1>4. RunStart(L, NoHeat) = Len(L) + 1
  BY <1>3 DEF RunStart, Latest
<1> SUFFICES ASSUME NEW o \in Window(L, NoHeat)
             PROVE  FALSE
  OBVIOUS
<1>5. o \in DOMAIN L
  BY WindowIs
<1>6. CASE L[o].kind \in HeatLoopKinds
  <2>1. Takes(L, NoHeat, o)
    BY <1>5, <1>6, WindowIs DEF HeatLoopKinds, Targeting, PassRulings
  <2> QED
    BY <1>2, <1>5, <1>6, <2>1 DEF Takes, Admits
<1>7. CASE L[o].kind \notin HeatLoopKinds
  <2>1. o >= RunStart(L, NoHeat)
    BY <1>7, WindowOfRun
  <2> QED
    BY <1>1, <1>4, <1>5, <2>1
<1> QED
  BY <1>6, <1>7

\* No surviving crossing of the pilot is at the instant, but for one that moves.
Vacant(L, h, pilot, at, moved) ==
  \A z \in Corrected(L, Window(L, h)) :
    z.pilot = pilot /\ z.at = at => z.offset = moved

\* The crossing put there is the pilot's, and is there.
Put(M, h, placed, pilot, at) ==
  placed \in Left(M, h) => /\ Crossing(M, h, placed).pilot = pilot
                           /\ Crossing(M, h, placed).at = at

\* The others are where they were.
OthersStay(L, e, M, h, placed, moved) ==
  \A b \in Left(M, h) :
    b # placed => b \in DOMAIN L /\ b # moved /\ ~Concerns(L, e, M, h, b)

\* A crossing put at an instant no other of the pilot's crossings has is alone
\* there afterwards.
LEMMA AloneThere ==
  ASSUME NEW L, NEW e, NEW M, Longer(L, e, M), NEW h, ~Restarts(e, h),
         NEW placed, NEW pilot, NEW at, NEW moved,
         Vacant(L, h, pilot, at, moved),
         Put(M, h, placed, pilot, at),
         OthersStay(L, e, M, h, placed, moved)
  PROVE  \A x, y \in Corrected(M, Window(M, h)) :
           x.offset = placed /\ x.pilot = y.pilot /\ x.at = y.at => x = y
<1> SUFFICES ASSUME NEW x \in Corrected(M, Window(M, h)),
                    NEW y \in Corrected(M, Window(M, h)),
                    x.offset = placed, x.pilot = y.pilot, x.at = y.at
             PROVE  x = y
  OBVIOUS
<1>1. Corrected(M, Window(M, h)) = {Crossing(M, h, p) : p \in Left(M, h)}
  BY CorrectedIs
<1>2. Corrected(L, Window(L, h)) = {Crossing(L, h, p) : p \in Left(L, h)}
  BY CorrectedIs
<1>3. PICK a \in Left(M, h) : x = Crossing(M, h, a)
  BY <1>1
<1>4. PICK b \in Left(M, h) : y = Crossing(M, h, b)
  BY <1>1
<1>5. a = placed
  BY <1>3 DEF Crossing
<1>6. CASE b = placed
  BY <1>3, <1>4, <1>5, <1>6
<1>7. CASE b # placed
  <2>1. b \in DOMAIN L /\ b # moved /\ ~Concerns(L, e, M, h, b)
    BY <1>7 DEF OthersStay
  <2>2. b \in Left(L, h) /\ Crossing(M, h, b) = Crossing(L, h, b)
    BY <2>1, CrossingLonger
  <2>3. y \in Corrected(L, Window(L, h))
    BY <1>2, <1>4, <2>2
  <2>4. y.pilot = pilot /\ y.at = at
    BY <1>3, <1>5 DEF Put
  <2>5. y.offset = b
    BY <1>4 DEF Crossing
  <2> QED
    BY <2>1, <2>3, <2>4, <2>5 DEF Vacant
<1> QED
  BY <1>6, <1>7

\* What is at the end of the log no entry re-times.
LEMMA NewInstant ==
  ASSUME NEW L, NEW e, NEW M, Longer(L, e, M), NEW h
  PROVE  Crossing(M, h, N(L)).at = e.at
<1> DEFINE S == Retimes(M, Window(M, h), N(L))
<1>1. TypedLog(M) /\ M[N(L)] = e
  <2>1. TypedLog(M)
    BY LongerTyped
  <2>2. M[N(L)] = e
    BY LongerIs
  <2> QED
    BY <2>1, <2>2
<1>2. ASSUME NEW o \in S
      PROVE  FALSE
  <2>1. o \in DOMAIN M /\ M[o].kind = "adjusted" /\ M[o].target = N(L)
    BY <1>1, WindowIs DEF Retimes
  <2>2. o \in Of(M, Targeting)
    BY <2>1 DEF Of, Targeting, PassRulings
  <2>3. N(L) < o
    BY <1>1, <2>1, <2>2, TargetsBelow
  <2>4. DOMAIN M = 1..N(L) /\ N(L) \in Nat
    BY LongerNat
  <2> QED
    BY <2>1, <2>3, <2>4
<1>3. S = {}
  BY <1>2
<1>4. InstantAt(M, Window(M, h), N(L)) = IF Latest(S) = 0 THEN M[N(L)].at ELSE M[Latest(S)].at
  BY DEF InstantAt, Retimes
<1> HIDE DEF S
<1> QED
  BY <1>1, <1>3, <1>4 DEF Latest, Crossing

\* A re-time of the window has the last word on the instant.
LEMMA NewRetime ==
  ASSUME NEW L, NEW e, NEW M, Longer(L, e, M), e.kind = "adjusted", NEW h,
         N(L) \in Window(M, h)
  PROVE  Crossing(M, h, e.target).at = e.at
<1> DEFINE S == Retimes(M, Window(M, h), e.target)
<1>1. TypedLog(M)
  BY LongerTyped
<1>2. M[N(L)] = e
  BY LongerIs
<1>3. S \in SUBSET (1..Len(M))
  BY <1>1, WordIn
<1>4. Len(M) = N(L) /\ N(L) \in Nat /\ Len(L) \in Nat /\ Len(L) < N(L)
  BY LongerNat
<1>5. N(L) \in S
  BY <1>2 DEF Retimes
<1>6. InstantAt(M, Window(M, h), e.target)
        = IF Latest(S) = 0 THEN M[e.target].at ELSE M[Latest(S)].at
  BY DEF InstantAt, Retimes
<1> HIDE DEF S
<1>7. Latest(S) = N(L)
  <2>1. S \in SUBSET (1..N(L)) /\ \A y \in S : y <= N(L)
    BY <1>3, <1>4
  <2> QED
    BY <1>4, <1>5, <2>1, LatestIs
<1> QED
  BY <1>2, <1>4, <1>6, <1>7 DEF Crossing

\* A crossing a correction puts at an instant, in a heat it names or through
\* the lap it rules on, shares that instant with no other of the pilot's: no lap
\* takes no time.
THEOREM CrossingsApart == Spec => PlacedApart
<1> DEFINE Apart ==
      Added.kind \in {"adjusted", "split"}
        \/ (Added.kind = "inserted" /\ Added.heat # NoHeat) =>
        LET placed == IF Added.kind = "adjusted" THEN Added.target ELSE Len(log')
            h == HeatOf(log', placed)
            after == Corrected(log', Window(log', h))
        IN  \A x, y \in after :
              x.offset = placed /\ x.pilot = y.pilot /\ x.at = y.at => x = y
<1>1. TypeOK /\ [Next]_log => [Apart]_log
  <2> SUFFICES ASSUME TypeOK, Next
               PROVE  Apart
    OBVIOUS
  <2>1. PICK e : Longer(log, e, log') /\ Guarded(e)
    BY StepLengthens
  <2>2. Added = e /\ Len(log') = N(log)
    BY <2>1, AddedIs
  <2> DEFINE placed == IF e.kind = "adjusted" THEN e.target ELSE N(log)
             h == HeatOf(log', placed)
             Alone == \A x, y \in Corrected(log', Window(log', h)) :
                        x.offset = placed /\ x.pilot = y.pilot /\ x.at = y.at => x = y
  <2> SUFFICES ASSUME \/ e.kind \in {"adjusted", "split"}
                      \/ e.kind = "inserted" /\ e.heat # NoHeat
               PROVE  Alone
    BY <2>2
  <2>3. TypedLog(log) /\ TypedLog(log') /\ log'[N(log)] = e /\ N(log) \in DOMAIN log'
    <3>1. TypedLog(log) /\ TypedLog(log')
      BY <2>1, LongerTyped
    <3>2. log'[N(log)] = e
      BY <2>1, LongerIs
    <3>3. DOMAIN log' = DOMAIN log \cup {N(log)}
      BY <2>1, LongerIs
    <3> QED
      BY <3>1, <3>2, <3>3
  <2>4. ~Restarts(e, h)
    BY DEF Restarts
  <2>5. \A b \in Left(log', h) :
          /\ b \in DOMAIN log \/ b = N(log)
          /\ b \in Window(log', h)
          /\ log'[b].kind \in PassKinds
          /\ b # 0
    <3> SUFFICES ASSUME NEW b \in Left(log', h)
                 PROVE  /\ b \in DOMAIN log \/ b = N(log)
                        /\ b \in Window(log', h)
                        /\ log'[b].kind \in PassKinds
                        /\ b # 0
      OBVIOUS
    <3>1. b \in Window(log', h) /\ b \in DOMAIN log' /\ log'[b].kind \in PassKinds
      BY DEF Left, Of
    <3>2. b \in DOMAIN log \/ b = N(log)
      BY <2>1, <3>1, PositionLonger
    <3>3. DOMAIN log' = 1..N(log) /\ N(log) \in Nat
      BY <2>1, LongerNat
    <3>4. b # 0
      BY <3>1, <3>3
    <3> QED
      BY <3>1, <3>2, <3>4
  <2>6. CASE e.kind = "inserted"
    <3>1. placed = N(log) /\ h = e.heat
      BY <2>3, <2>6, HeatOfIs DEF Targeting, PassRulings
    <3> HIDE DEF placed, h
    <3>2. Vacant(log, h, e.pilot, e.at, 0)
      BY <2>1, <2>6, <3>1 DEF Guarded, NoCollision, Vacant
    <3>3. Crossing(log', h, placed).pilot = e.pilot
      <4>1. PilotAt(log', N(log)) = e.pilot
        BY <2>3, <2>6, PilotAtIs
      <4> QED
        BY <3>1, <4>1 DEF Crossing
    <3>4. Crossing(log', h, placed).at = e.at
      BY <2>1, <3>1, NewInstant
    <3>5. OthersStay(log, e, log', h, placed, 0)
      BY <2>5, <2>6, <3>1 DEF Concerns, OthersStay
    <3>6. Put(log', h, placed, e.pilot, e.at)
      BY <3>3, <3>4 DEF Put
    <3> QED
      BY <2>1, <2>4, <3>2, <3>5, <3>6, AloneThere
  <2>7. CASE e.kind = "split"
    <3>1. e.target \in DOMAIN log /\ e.kind \in Targeting
      BY <2>1, <2>7, TargetLonger DEF Targeting, PassRulings
    <3>2. HeatOf(log', N(log)) = HeatOf(log', e.target)
      BY <2>3, <3>1, HeatOfIs
    <3>3. HeatOf(log', e.target) = HeatOf(log, e.target)
      BY <2>1, <3>1, HeatOfLonger
    <3>4. placed = N(log) /\ h = HeatOf(log, e.target)
      BY <2>7, <3>2, <3>3
    <3> HIDE DEF placed, h
    <3>5. CASE h = NoHeat
      <4>1. Window(log', h) = {}
        BY <2>3, <3>5, NoHeatNoWindow
      <4> QED
        BY <4>1 DEF Corrected
    <3>6. CASE h # NoHeat
      <4> DEFINE pilot == PilotAt(log, e.target)
      <4>1. Vacant(log, h, pilot, e.at, 0)
        BY <2>1, <2>7, <3>4, <3>6 DEF Guarded, NoCollision, Vacant
      <4>2. Crossing(log', h, placed).pilot = pilot
        <5>1. PilotAt(log', N(log)) = PilotAt(log', e.target)
          BY <2>3, <2>7, PilotAtIs
        <5>2. PilotAt(log', e.target) = pilot
          BY <2>1, <3>1, PilotLonger
        <5> QED
          BY <3>4, <5>1, <5>2 DEF Crossing
      <4>3. Crossing(log', h, placed).at = e.at
        BY <2>1, <3>4, NewInstant
      <4>4. OthersStay(log, e, log', h, placed, 0)
        BY <2>5, <2>7, <3>4 DEF Concerns, OthersStay
      <4>5. Put(log', h, placed, pilot, e.at)
        BY <4>2, <4>3 DEF Put
      <4> HIDE DEF pilot
      <4> QED
        BY <2>1, <2>4, <4>1, <4>4, <4>5, AloneThere
    <3> QED
      BY <3>5, <3>6
  <2>8. CASE e.kind = "adjusted"
    <3>1. e.target \in DOMAIN log /\ e.kind \in Targeting
      BY <2>1, <2>8, TargetLonger DEF Targeting, PassRulings
    <3>2. HeatOf(log', e.target) = HeatOf(log, e.target)
      BY <2>1, <3>1, HeatOfLonger
    <3>3. placed = e.target /\ h = HeatOf(log, e.target)
      BY <2>8, <3>2
    <3> HIDE DEF placed, h
    <3>4. CASE h = NoHeat
      <4>1. Window(log', h) = {}
        BY <2>3, <3>4, NoHeatNoWindow
      <4> QED
        BY <4>1 DEF Corrected
    <3>5. CASE h # NoHeat
      <4> DEFINE pilot == PilotAt(log, e.target)
      <4>1. Vacant(log, h, pilot, e.at, e.target)
        BY <2>1, <2>8, <3>3, <3>5 DEF Guarded, NoCollision, Vacant
      <4>2. Crossing(log', h, placed).pilot = pilot
        <5>1. PilotAt(log', e.target) = pilot
          BY <2>1, <3>1, PilotLonger
        <5> QED
          BY <3>3, <5>1 DEF Crossing
      <4>3. ASSUME placed \in Left(log', h)
            PROVE  Crossing(log', h, placed).at = e.at
        <5>1. e.target \in Window(log', h)
          BY <2>5, <3>3, <4>3
        <5>2. e.target \in Window(log, h)
          BY <2>1, <2>4, <3>1, <5>1, WindowLonger
        <5>3. RunStart(log, h) <= e.target
          <6>1. e.target >= RunStart(log, h)
            BY <2>1, <2>8, <3>3, <3>5 DEF Guarded, InCurrentRun, PassRulings
          <6>2. e.target \in Nat /\ RunStart(log, h) \in Nat
            BY <2>1, <3>1, LongerNat, RunStartLonger
          <6> QED
            BY <6>1, <6>2
        <5>4. N(log) \in Window(log', h)
          BY <2>1, <3>1, <5>2, <5>3, RulingJoins
        <5> QED
          BY <2>1, <2>8, <3>3, <5>4, NewRetime
      <4>4. OthersStay(log, e, log', h, placed, e.target)
        <5>1. N(log) \notin Left(log', h)
          BY <2>3, <2>5, <2>8 DEF PassKinds
        <5> QED
          BY <2>5, <2>8, <3>3, <5>1 DEF Concerns, OthersStay
      <4>5. Put(log', h, placed, pilot, e.at)
        BY <4>2, <4>3 DEF Put
      <4> HIDE DEF pilot
      <4> QED
        BY <2>1, <2>4, <4>1, <4>4, <4>5, AloneThere
    <3> QED
      BY <3>4, <3>5
  <2> QED
    BY <2>6, <2>7, <2>8
<1> QED
  BY <1>1, TypeCorrect, PTL DEF Spec, PlacedApart
-----------------------------------------------------------------------------
(* The walk down a pilot's crossings. *)

\* What may be walked: finitely many crossings, each with an offset of its own.
Walkable(P) ==
  /\ IsFiniteSet(P)
  /\ \A x \in P : x.at \in Nat /\ x.offset \in Nat
  /\ \A x, y \in P : x.offset = y.offset => x = y

\* Whatever is to be walked ends somewhere.
LEMMA LatestPassIn ==
  ASSUME NEW P, Walkable(P), NEW S \in SUBSET P, S # {}
  PROVE  /\ LatestPass(S) \in S
         /\ \A y \in S \ {LatestPass(S)} : Earlier(y, LatestPass(S))
<1> DEFINE Ends(U) == \E x \in U : \A y \in U \ {x} : Earlier(y, x)
           K == Cardinality(P)
           T == {n \in 0..K : \A U \in SUBSET P : Cardinality(U) = n /\ U # {} => Ends(U)}
<1>1. K \in Nat /\ IsFiniteSet(P)
  BY FS_CardinalityType DEF Walkable
<1>2. \A U \in SUBSET P : /\ IsFiniteSet(U) /\ Cardinality(U) \in Nat /\ Cardinality(U) <= K
                          /\ Cardinality(U) = 0 <=> U = {}
  BY <1>1, FS_Subset, FS_CardinalityType, FS_EmptySet
<1>3. 0 \in T
  <2>1. \A U \in SUBSET P : ~(Cardinality(U) = 0 /\ U # {})
    BY <1>2
  <2> QED
    BY <1>1, <2>1
<1>4. ASSUME NEW n \in 0..K, n < K, n \in T
      PROVE  n + 1 \in T
  <2>1. n + 1 \in 0..K /\ n \in Nat
    BY <1>1, <1>4
  <2>2. ASSUME NEW U \in SUBSET P, Cardinality(U) = n + 1, U # {}
        PROVE  Ends(U)
    <3>1. PICK z \in U : TRUE
      BY <2>2
    <3> DEFINE U1 == U \ {z}
    <3>2. Cardinality(U1) = n /\ U1 \in SUBSET P
      <4>1. Cardinality(U1) = Cardinality(U) - 1
        BY <1>2, <3>1, FS_RemoveElement
      <4> QED
        BY <2>1, <2>2, <4>1
    <3>3. CASE U1 = {}
      BY <3>1, <3>3
    <3>4. CASE U1 # {}
      <4>1. Ends(U1)
        BY <1>4, <3>2, <3>4
      <4>2. PICK x \in U1 : \A y \in U1 \ {x} : Earlier(y, x)
        BY <4>1
      <4>3. /\ x \in P /\ z \in P /\ x # z /\ x.offset # z.offset
            /\ \A y \in U : y.at \in Nat /\ y.offset \in Nat
        BY <3>1, <4>2 DEF Walkable
      <4>4. x.at \in Nat /\ z.at \in Nat /\ x.offset \in Nat /\ z.offset \in Nat
        BY <3>1, <4>2, <4>3
      <4>5. CASE Earlier(z, x)
        <5>1. \A y \in U \ {x} : Earlier(y, x)
          BY <4>2, <4>5
        <5> QED
          BY <4>2, <5>1
      <4>6. CASE ~Earlier(z, x)
        <5>1. Earlier(x, z)
          BY <4>3, <4>4, <4>6 DEF Earlier
        <5>2. ASSUME NEW y \in U \ {z}
              PROVE  Earlier(y, z)
          <6>1. y = x \/ Earlier(y, x)
            BY <4>2
          <6>2. y.at \in Nat /\ y.offset \in Nat
            BY <4>3
          <6> QED
            BY <4>4, <5>1, <6>1, <6>2 DEF Earlier
        <5> QED
          BY <3>1, <5>2
      <4> QED
        BY <4>5, <4>6
    <3> QED
      BY <3>3, <3>4
  <2> HIDE DEF Ends
  <2> QED
    BY <2>1, <2>2
<1>5. Cardinality(S) \in T
  <2>1. ASSUME NEW m \in 0..K
        PROVE  m \in T
    <3> DEFINE X == {n \in 0..m : n \in T}
    <3>1. 0 \in X
      BY <1>3, <2>1
    <3>2. \A n \in 0..m : n < m /\ n \in X => n + 1 \in X
      <4> SUFFICES ASSUME NEW n \in 0..m, n < m, n \in T
                   PROVE  n + 1 \in 0..m /\ n + 1 \in T
        OBVIOUS
      <4>1. n \in 0..K /\ n < K /\ n + 1 \in 0..m
        BY <1>1, <2>1
      <4> HIDE DEF T, K
      <4> QED
        BY <1>4, <4>1
    <3>3. X \in SUBSET (0..m) /\ m \in Nat
      BY <1>1
    <3> HIDE DEF X
    <3>4. m \in X
      BY <3>1, <3>2, <3>3, Reaches
    <3> QED
      BY <3>4 DEF X
  <2>2. Cardinality(S) \in 0..K
    BY <1>1, <1>2
  <2> QED
    BY <2>1, <2>2
<1>6. Ends(S)
  BY <1>5
<1> QED
  BY <1>6 DEF LatestPass

\* Where the walk starts, and its step to the crossing x.
Unwalked == [kept |-> {}, grace |-> FALSE, last |-> 0]
WalkTo(acc, x, exempt, marker) ==
  KeepNext(acc, x, x.offset \in exempt,
           marker # 0 /\ x.offset > marker /\ ~(x.offset \in exempt))

\* The walk is that function of the crossings already passed.
IsWalk(w, P, exempt, marker) ==
  w = [S \in SUBSET P |->
         IF S = {} THEN Unwalked
         ELSE WalkTo(w[S \ {LatestPass(S)}], LatestPass(S), exempt, marker)]

LEMMA WalkIs ==
  ASSUME NEW P, Walkable(P), NEW exempt, NEW marker
  PROVE  \E w : /\ IsWalk(w, P, exempt, marker)
                /\ Walk(P, exempt, marker)
                     = UNION {w[{x \in P : x.pilot = p}].kept : p \in Pilots}
<1> DEFINE D == SUBSET P
           K == Cardinality(P)
           R == {S \in D : S # {}}
           rank == [S \in D |-> Cardinality(S)]
           t == [S \in R |-> S \ {LatestPass(S)}]
           V == [kept : SUBSET P, grace : BOOLEAN, last : {0} \cup {x.at : x \in P}]
           base == [S \in D |-> Unwalked]
           next == [S \in R |-> [acc \in V |-> WalkTo(acc, LatestPass(S), exempt, marker)]]
           Folds(f) == f = [S \in SUBSET P |->
             IF S = {} THEN [kept |-> {}, grace |-> FALSE, last |-> 0]
             ELSE LET x == LatestPass(S)
                  IN  KeepNext(f[S \ {x}], x, x.offset \in exempt,
                               marker # 0 /\ x.offset > marker /\ ~(x.offset \in exempt))]
<1>1. K \in Nat /\ IsFiniteSet(P)
  BY FS_CardinalityType DEF Walkable
<1>2. \A S \in SUBSET P : IsFiniteSet(S) /\ Cardinality(S) \in Nat /\ Cardinality(S) <= K
  BY <1>1, FS_Subset, FS_CardinalityType
<1>3. \A S \in R : LatestPass(S) \in S /\ LatestPass(S) \in P
  BY LatestPassIn
<1>4. rank \in [D -> 0..K]
  BY <1>1, <1>2
<1>5. t \in [R -> D] /\ \A S \in R : rank[t[S]] < rank[S]
  <2>1. \A S \in R : S \ {LatestPass(S)} \in D
    OBVIOUS
  <2>2. \A S \in R : Cardinality(S \ {LatestPass(S)}) = Cardinality(S) - 1
    BY <1>2, <1>3, FS_RemoveElement
  <2>3. \A S \in R : Cardinality(S \ {LatestPass(S)}) < Cardinality(S)
    BY <1>2, <2>2
  <2>4. \A S \in R : t[S] = S \ {LatestPass(S)} /\ S \in D
    OBVIOUS
  <2> HIDE DEF D, R
  <2> QED
    BY <2>1, <2>3, <2>4
<1>6. base \in [D -> V]
  BY DEF Unwalked
<1>7. next \in [R -> [V -> V]]
  <2> SUFFICES ASSUME NEW S \in R, NEW acc \in V
               PROVE  WalkTo(acc, LatestPass(S), exempt, marker) \in V
    OBVIOUS
  <2> DEFINE x == LatestPass(S)
  <2>1. x \in P /\ x.at \in {0} \cup {y.at : y \in P}
    BY <1>3
  <2> HIDE DEF x, R, D, K
  <2>2. WalkTo(acc, x, exempt, marker) \in V
    BY <2>1 DEF WalkTo, KeepNext
  <2> QED
    BY <2>2 DEF x
<1>8. PICK f \in [D -> V] :
        f = [S \in D |-> IF S \in R THEN next[S][f[t[S]]] ELSE base[S]]
  <2> HIDE DEF D, K, R, rank, t, V, base, next
  <2>1. R \in SUBSET D
    BY DEF R
  <2>2. \E f \in [D -> V] : IsFold(f, D, R, t, base, next)
    BY <1>1, <1>4, <1>5, <1>6, <1>7, <2>1, RankedRecursion
  <2> QED
    BY <2>2 DEF IsFold
<1>9. \A S \in R : next[S][f[t[S]]] = WalkTo(f[S \ {LatestPass(S)}], LatestPass(S), exempt, marker)
  <2> SUFFICES ASSUME NEW S \in R
               PROVE  next[S][f[t[S]]] = WalkTo(f[S \ {LatestPass(S)}], LatestPass(S), exempt, marker)
    OBVIOUS
  <2>1. t[S] = S \ {LatestPass(S)} /\ t[S] \in D
    BY <1>5
  <2>2. f[t[S]] \in V
    BY <1>8, <2>1
  <2> HIDE DEF V, D, R, t
  <2> QED
    BY <2>1, <2>2
<1>10. IsWalk(f, P, exempt, marker)
  <2>1. \A S \in SUBSET P :
          f[S] = IF S = {} THEN Unwalked
                 ELSE WalkTo(f[S \ {LatestPass(S)}], LatestPass(S), exempt, marker)
    <3>1. \A S \in D : f[S] = IF S \in R THEN next[S][f[t[S]]] ELSE base[S]
      BY <1>8
    <3>2. \A S \in D : base[S] = Unwalked /\ (S \in R <=> S # {})
      OBVIOUS
    <3> HIDE DEF R, t, V, next, base
    <3> QED
      BY <1>9, <3>1, <3>2
  <2>2. f = [S \in SUBSET P |-> f[S]]
    BY <1>8
  <2> HIDE DEF D, R, t, V, next, base
  <2>3. f = [S \in SUBSET P |-> IF S = {} THEN Unwalked
               ELSE WalkTo(f[S \ {LatestPass(S)}], LatestPass(S), exempt, marker)]
    BY <2>1, <2>2
  <2> QED
    BY <2>3 DEF IsWalk
<1>11. \A w : Folds(w) <=> IsWalk(w, P, exempt, marker)
  BY DEF IsWalk, WalkTo, Unwalked
<1> DEFINE walked == CHOOSE w : Folds(w)
<1>12. Folds(walked)
  BY <1>10, <1>11
<1>13. Walk(P, exempt, marker) = UNION {walked[{x \in P : x.pilot = p}].kept : p \in Pilots}
  BY DEF Walk
<1> HIDE DEF walked, Folds
<1>14. IsWalk(walked, P, exempt, marker)
  BY <1>11, <1>12
<1> HIDE DEF D, K, R, rank, t, V, base, next
<1> QED
  BY <1>13, <1>14

\* What a walk through S has kept: no unruled crossing is close behind another,
\* and none is later than the one measured from.
Floor == Max({MinLap, Bounce})
Spaced(acc, S, exempt) ==
  /\ acc.kept \subseteq S
  /\ acc.kept # {} => acc.last \in Nat /\ \A z \in acc.kept : z.at <= acc.last
  /\ \A x, y \in acc.kept :
       x.at < y.at /\ y.at - x.at < Floor => y.offset \in exempt

LEMMA FloorNat == Floor \in Nat
<1>1. MinLap \in Nat /\ Bounce \in Nat
  BY LogAssumption
<1>2. \E x \in {MinLap, Bounce} : \A y \in {MinLap, Bounce} : x >= y
  BY <1>1
<1> QED
  BY <1>1, <1>2 DEF Floor, Max

LEMMA StepSpaced ==
  ASSUME NEW acc, NEW S, NEW x, NEW exempt, NEW marker, Spaced(acc, S, exempt),
         x.at \in Nat, \A y \in S : y.at \in Nat /\ y.at <= x.at
  PROVE  Spaced(WalkTo(acc, x, exempt, marker), S \cup {x}, exempt)
<1> DEFINE ruled == x.offset \in exempt
           late  == marker # 0 /\ x.offset > marker /\ ~ruled
           close == acc.kept # {} /\ x.at - acc.last < Floor
           after == [kept |-> acc.kept \cup {x}, grace |-> acc.grace \/ late,
                     last |-> x.at]
<1>1. WalkTo(acc, x, exempt, marker)
        = IF (close /\ ~ruled) \/ (late /\ acc.grace) THEN acc ELSE after
  BY DEF WalkTo, KeepNext, Floor
<1>2. Spaced(acc, S \cup {x}, exempt)
  BY DEF Spaced
<1>3. ASSUME ~(close /\ ~ruled)
      PROVE  Spaced(after, S \cup {x}, exempt)
  <2>1. after.kept = acc.kept \cup {x} /\ after.last = x.at
    OBVIOUS
  <2> HIDE DEF after
  <2>2. acc.kept \subseteq S /\ \A z \in acc.kept : z.at \in Nat /\ z.at <= x.at
    BY DEF Spaced
  <2>3. \A z \in after.kept : z.at <= after.last
    BY <2>1, <2>2
  <2>4. ASSUME NEW y \in after.kept, NEW z \in after.kept, y.at < z.at, z.at - y.at < Floor
        PROVE  z.offset \in exempt
    <3>1. CASE y \in acc.kept /\ z \in acc.kept
      BY <2>4, <3>1 DEF Spaced
    <3>2. CASE y = x
      <4>1. z.at <= x.at /\ z.at \in Nat
        BY <2>1, <2>2
      <4> QED
        BY <2>4, <3>2, <4>1
    <3>3. CASE y \in acc.kept /\ z = x
      <4>1. acc.kept # {} /\ acc.last \in Nat /\ y.at <= acc.last /\ y.at \in Nat
        BY <2>2, <3>3 DEF Spaced
      <4>2. x.at - acc.last < Floor
        BY <2>4, <3>3, <4>1, FloorNat
      <4> QED
        BY <1>3, <3>3, <4>1, <4>2
    <3> QED
      BY <2>1, <3>1, <3>2, <3>3
  <2> QED
    BY <2>1, <2>2, <2>3, <2>4 DEF Spaced
<1> QED
  BY <1>1, <1>2, <1>3

LEMMA WalkSpaced ==
  ASSUME NEW P, Walkable(P), NEW exempt, NEW marker, NEW w,
         IsWalk(w, P, exempt, marker), NEW S \in SUBSET P
  PROVE  Spaced(w[S], S, exempt)
<1> DEFINE Fails == {U \in SUBSET P : ~Spaced(w[U], U, exempt)}
           B == {Cardinality(U) : U \in Fails}
<1> SUFFICES ASSUME Fails # {}
             PROVE  FALSE
  OBVIOUS
<1>1. \A U \in SUBSET P : IsFiniteSet(U) /\ Cardinality(U) \in Nat
  BY FS_Subset, FS_CardinalityType DEF Walkable
<1>2. PICK n \in B : \A m \in B : n <= m
  <2>1. B \in SUBSET Nat /\ B # {}
    BY <1>1
  <2> HIDE DEF B
  <2> QED
    BY <2>1, LeastOf
<1>3. PICK U \in Fails : Cardinality(U) = n
  BY <1>2
<1> DEFINE x == LatestPass(U)
           U1 == U \ {x}
<1>4. CASE U = {}
  <2>1. w[U] = Unwalked
    BY <1>4 DEF IsWalk
  <2>2. Spaced(Unwalked, U, exempt)
    BY DEF Spaced, Unwalked
  <2> QED
    BY <1>3, <2>1, <2>2
<1>5. CASE U # {}
  <2>1. U \in SUBSET P
    BY <1>3
  <2>2. x \in U /\ \A y \in U1 : Earlier(y, x)
    BY <1>5, <2>1, LatestPassIn
  <2>3. Cardinality(U1) = Cardinality(U) - 1 /\ U1 \in SUBSET P
    BY <1>1, <2>1, <2>2, FS_RemoveElement
  <2>4. U1 \notin Fails
    <3>1. Cardinality(U) \in Nat
      BY <1>1, <2>1
    <3> HIDE DEF Fails, x, U1
    <3>2. U1 \in Fails => Cardinality(U1) \in B
      OBVIOUS
    <3> QED
      BY <1>2, <1>3, <2>3, <3>1, <3>2
  <2>5. Spaced(w[U1], U1, exempt)
    BY <2>3, <2>4
  <2>6. w[U] = WalkTo(w[U1], x, exempt, marker)
    BY <1>5, <2>1 DEF IsWalk
  <2>7. x.at \in Nat /\ \A y \in U1 : y.at \in Nat /\ y.at <= x.at
    <3>1. x.at \in Nat /\ \A y \in U1 : y.at \in Nat
      BY <2>1, <2>2 DEF Walkable
    <3> QED
      BY <2>2, <3>1 DEF Earlier
  <2>8. U = U1 \cup {x}
    BY <2>2
  <2> HIDE DEF x, U1
  <2>9. Spaced(w[U], U1 \cup {x}, exempt)
    BY <2>5, <2>6, <2>7, StepSpaced
  <2> QED
    BY <1>3, <2>8, <2>9
<1> QED
  BY <1>4, <1>5

\* What is kept of a heat's crossings is of them, spaced but where ruled.
LEMMA KeptSpaced ==
  ASSUME NEW P, Walkable(P), NEW exempt, NEW marker,
         NEW x \in Walk(P, exempt, marker), NEW y \in Walk(P, exempt, marker),
         x.pilot = y.pilot, x.at < y.at, y.at - x.at < Floor
  PROVE  y.offset \in exempt
<1>1. PICK w : /\ IsWalk(w, P, exempt, marker)
               /\ Walk(P, exempt, marker)
                    = UNION {w[{z \in P : z.pilot = p}].kept : p \in Pilots}
  BY WalkIs
<1> DEFINE Of1(p) == {z \in P : z.pilot = p}
<1>2. \A p : Spaced(w[Of1(p)], Of1(p), exempt)
  BY <1>1, WalkSpaced
<1>3. PICK p \in Pilots : x \in w[Of1(p)].kept
  BY <1>1
<1>4. PICK q \in Pilots : y \in w[Of1(q)].kept
  BY <1>1
<1>5. x.pilot = p /\ y.pilot = q
  BY <1>2, <1>3, <1>4 DEF Spaced
<1>6. x \in w[Of1(p)].kept /\ y \in w[Of1(p)].kept
  BY <1>3, <1>4, <1>5
<1>7. Spaced(w[Of1(p)], Of1(p), exempt)
  BY <1>2
<1> DEFINE A == w[Of1(p)]
           B == Of1(p)
<1>8. x \in A.kept /\ y \in A.kept /\ Spaced(A, B, exempt)
  BY <1>6, <1>7
<1> HIDE DEF A, B, Of1
<1> QED
  BY <1>8 DEF Spaced

LEMMA NothingKept ==
  ASSUME NEW exempt, NEW marker
  PROVE  Walk({}, exempt, marker) = {}
<1>1. Walkable({})
  BY FS_EmptySet DEF Walkable
<1>2. PICK w : /\ IsWalk(w, {}, exempt, marker)
               /\ Walk({}, exempt, marker)
                    = UNION {w[{z \in {} : z.pilot = p}].kept : p \in Pilots}
  BY <1>1, WalkIs
<1>3. w[{}] = Unwalked
  BY <1>2 DEF IsWalk
<1>4. \A p : {z \in {} : z.pilot = p} = {}
  OBVIOUS
<1>5. \A p : w[{z \in {} : z.pilot = p}].kept = {}
  BY <1>3, <1>4 DEF Unwalked
<1> QED
  BY <1>2, <1>5
-----------------------------------------------------------------------------
(* What a result makes of the crossings. *)

\* The passes a marshal left may be walked.
LEMMA CorrectedWalkable ==
  ASSUME NEW L, TypedLog(L), NEW h
  PROVE  Walkable(Corrected(L, Window(L, h)))
<1> DEFINE S == Left(L, h)
           g == [p \in S |-> Crossing(L, h, p)]
           P == {Crossing(L, h, p) : p \in S}
<1>1. L \in Seq(Entries) /\ Len(L) \in Nat /\ DOMAIN L = 1..Len(L)
  BY DEF TypedLog
<1>2. S \subseteq DOMAIN L /\ \A p \in S : L[p].kind \in PassKinds
  BY DEF Left, Of
<1>3. IsFiniteSet(P)
  <2>1. IsFiniteSet(1..Len(L))
    BY <1>1, FS_Interval
  <2>2. S \in SUBSET (1..Len(L))
    BY <1>1, <1>2
  <2>3. IsFiniteSet(S)
    <3> HIDE DEF S
    <3> QED
      BY <2>1, <2>2, FS_Subset
  <2>4. g \in Surjection(S, P)
    <3> HIDE DEF S
    <3> QED
      BY DEF Surjection
  <2> HIDE DEF S, g, P
  <2> QED
    BY <2>3, <2>4, FS_Surjection
<1>4. \A o \in DOMAIN L : L[o].kind \in PassKinds \cup {"adjusted"} => L[o].at \in Nat
  <2>1. \A e \in Entries : e.kind \in PassKinds \cup {"adjusted"} => e.at \in Instants
    BY DEF Entries, PassKinds
  <2>2. \A o \in DOMAIN L : L[o] \in Entries
    BY <1>1
  <2> QED
    BY <2>1, <2>2, LogAssumption
<1>5. ASSUME NEW p \in S
      PROVE  InstantAt(L, Window(L, h), p) \in Nat /\ p \in Nat
  <2> DEFINE retime == Latest(Retimes(L, Window(L, h), p))
  <2>1. p \in DOMAIN L /\ L[p].at \in Nat /\ p \in Nat
    BY <1>1, <1>2, <1>4
  <2>2. retime = 0 \/ (retime \in Retimes(L, Window(L, h), p) /\ retime \in DOMAIN L)
    BY WordIn
  <2>3. InstantAt(L, Window(L, h), p) = IF retime = 0 THEN L[p].at ELSE L[retime].at
    BY DEF InstantAt, Retimes
  <2>4. retime \in Retimes(L, Window(L, h), p) => L[retime].kind = "adjusted"
    BY DEF Retimes
  <2> HIDE DEF retime
  <2> QED
    BY <1>4, <2>1, <2>2, <2>3, <2>4
<1>6. \A x \in P : x.at \in Nat /\ x.offset \in Nat
  <2> HIDE DEF S
  <2> QED
    BY <1>5 DEF Crossing
<1>7. \A x, y \in P : x.offset = y.offset => x = y
  <2> HIDE DEF S
  <2> QED
    BY DEF Crossing
<1>8. Corrected(L, Window(L, h)) = P
  BY CorrectedIs
<1> HIDE DEF P
<1> QED
  BY <1>3, <1>6, <1>7, <1>8 DEF Walkable

\* Two crossings of a pilot closer than the floor and the bounce window allow
\* are in no result, unless a marshal put the later one there.
THEOREM ShortLapsRuled == Spec => []ShortLapsAreRuled
<1>1. ASSUME TypeOK, NEW h \in Heats,
             NEW x \in Result(log, h).passes, NEW y \in Result(log, h).passes,
             x.pilot = y.pilot, x.at < y.at, y.at - x.at < Max({MinLap, Bounce})
      PROVE  y.offset \in Exempt(log, Window(log, h))
  <2> DEFINE P      == Corrected(log, Window(log, h))
             exempt == Exempt(log, Window(log, h))
             marker == Marker(log, Window(log, h), h)
  <2>1. Walkable(P)
    BY <1>1, CorrectedWalkable DEF TypeOK
  <2>2. Result(log, h).passes = Walk(P, exempt, marker)
    BY DEF Result, Kept
  <2>3. y.at - x.at < Floor
    BY <1>1 DEF Floor
  <2> HIDE DEF P, exempt, marker
  <2>4. y.offset \in exempt
    BY <1>1, <2>1, <2>2, <2>3, KeptSpaced
  <2> QED
    BY <2>4 DEF exempt
<1>2. TypeOK => ShortLapsAreRuled
  BY <1>1 DEF ShortLapsAreRuled
<1> QED
  BY <1>2, TypeCorrect, PTL

\* What a walk through S has kept of the crossings behind the marker that no
\* marshal ruled on: one at most, and the walk knows of it.
Overtime(x, exempt, marker) == x.offset > marker /\ x.offset \notin exempt
Graced(acc, S, exempt, marker) ==
  /\ acc.kept \subseteq S
  /\ \A x \in acc.kept : Overtime(x, exempt, marker) => acc.grace
  /\ \A x, y \in acc.kept :
       Overtime(x, exempt, marker) /\ Overtime(y, exempt, marker) => x = y

LEMMA StepGraced ==
  ASSUME NEW acc, NEW S, NEW x, NEW exempt, NEW marker, marker # 0,
         Graced(acc, S, exempt, marker)
  PROVE  Graced(WalkTo(acc, x, exempt, marker), S \cup {x}, exempt, marker)
<1> DEFINE ruled == x.offset \in exempt
           late  == marker # 0 /\ x.offset > marker /\ ~ruled
           close == acc.kept # {} /\ x.at - acc.last < Floor
           after == [kept |-> acc.kept \cup {x}, grace |-> acc.grace \/ late,
                     last |-> x.at]
<1>1. WalkTo(acc, x, exempt, marker)
        = IF (close /\ ~ruled) \/ (late /\ acc.grace) THEN acc ELSE after
  BY DEF WalkTo, KeepNext, Floor
<1>2. Graced(acc, S \cup {x}, exempt, marker)
  BY DEF Graced
<1>3. ASSUME ~(late /\ acc.grace)
      PROVE  Graced(after, S \cup {x}, exempt, marker)
  <2>1. after.kept = acc.kept \cup {x} /\ (after.grace <=> acc.grace \/ late)
    OBVIOUS
  <2>2. late <=> Overtime(x, exempt, marker)
    BY DEF Overtime
  <2> HIDE DEF after, late
  <2>3. \A z \in after.kept : Overtime(z, exempt, marker) => after.grace
    BY <2>1, <2>2 DEF Graced
  <2>4. ASSUME NEW y \in after.kept, NEW z \in after.kept,
               Overtime(y, exempt, marker), Overtime(z, exempt, marker)
        PROVE  y = z
    <3>1. Overtime(x, exempt, marker) => \A u \in acc.kept : ~Overtime(u, exempt, marker)
      BY <1>3, <2>2 DEF Graced
    <3> QED
      BY <2>1, <2>4, <3>1 DEF Graced
  <2>5. after.kept \subseteq S \cup {x}
    BY <2>1 DEF Graced
  <2> QED
    BY <2>3, <2>4, <2>5 DEF Graced
<1> QED
  BY <1>1, <1>2, <1>3

LEMMA WalkGraced ==
  ASSUME NEW P, Walkable(P), NEW exempt, NEW marker, marker # 0, NEW w,
         IsWalk(w, P, exempt, marker), NEW S \in SUBSET P
  PROVE  Graced(w[S], S, exempt, marker)
<1> DEFINE Fails == {U \in SUBSET P : ~Graced(w[U], U, exempt, marker)}
           B == {Cardinality(U) : U \in Fails}
<1> SUFFICES ASSUME Fails # {}
             PROVE  FALSE
  OBVIOUS
<1>1. \A U \in SUBSET P : IsFiniteSet(U) /\ Cardinality(U) \in Nat
  BY FS_Subset, FS_CardinalityType DEF Walkable
<1>2. PICK n \in B : \A m \in B : n <= m
  <2>1. B \in SUBSET Nat /\ B # {}
    BY <1>1
  <2> HIDE DEF B
  <2> QED
    BY <2>1, LeastOf
<1>3. PICK U \in Fails : Cardinality(U) = n
  BY <1>2
<1> DEFINE x == LatestPass(U)
           U1 == U \ {x}
<1>4. CASE U = {}
  <2>1. w[U] = Unwalked
    BY <1>4 DEF IsWalk
  <2>2. Graced(Unwalked, U, exempt, marker)
    BY DEF Graced, Unwalked
  <2> QED
    BY <1>3, <2>1, <2>2
<1>5. CASE U # {}
  <2>1. U \in SUBSET P
    BY <1>3
  <2>2. x \in U
    BY <1>5, <2>1, LatestPassIn
  <2>3. Cardinality(U1) = Cardinality(U) - 1 /\ U1 \in SUBSET P
    BY <1>1, <2>1, <2>2, FS_RemoveElement
  <2>4. U1 \notin Fails
    <3>1. Cardinality(U) \in Nat
      BY <1>1, <2>1
    <3> HIDE DEF Fails, x, U1
    <3>2. U1 \in Fails => Cardinality(U1) \in B
      OBVIOUS
    <3> QED
      BY <1>2, <1>3, <2>3, <3>1, <3>2
  <2>5. Graced(w[U1], U1, exempt, marker)
    BY <2>3, <2>4
  <2>6. w[U] = WalkTo(w[U1], x, exempt, marker)
    BY <1>5, <2>1 DEF IsWalk
  <2>7. U = U1 \cup {x}
    BY <2>2
  <2> HIDE DEF x, U1
  <2>8. Graced(w[U], U1 \cup {x}, exempt, marker)
    BY <2>5, <2>6, StepGraced
  <2> QED
    BY <1>3, <2>7, <2>8
<1> QED
  BY <1>4, <1>5

LEMMA KeptGraced ==
  ASSUME NEW P, Walkable(P), NEW exempt, NEW marker, marker # 0,
         NEW x \in Walk(P, exempt, marker), NEW y \in Walk(P, exempt, marker),
         x.pilot = y.pilot, Overtime(x, exempt, marker), Overtime(y, exempt, marker)
  PROVE  x = y
<1>1. PICK w : /\ IsWalk(w, P, exempt, marker)
               /\ Walk(P, exempt, marker)
                    = UNION {w[{z \in P : z.pilot = p}].kept : p \in Pilots}
  BY WalkIs
<1> DEFINE Of1(p) == {z \in P : z.pilot = p}
<1>2. \A p : Graced(w[Of1(p)], Of1(p), exempt, marker)
  BY <1>1, WalkGraced
<1>3. PICK p \in Pilots : x \in w[Of1(p)].kept
  BY <1>1
<1>4. PICK q \in Pilots : y \in w[Of1(q)].kept
  BY <1>1
<1>5. x.pilot = p /\ y.pilot = q
  BY <1>2, <1>3, <1>4 DEF Graced
<1> DEFINE A == w[Of1(p)]
           B == Of1(p)
<1>6. x \in A.kept /\ y \in A.kept /\ Graced(A, B, exempt, marker)
  BY <1>2, <1>3, <1>4, <1>5
<1> HIDE DEF A, B, Of1
<1> QED
  BY <1>6 DEF Graced

\* Where the window holds the tone, a result counts one unruled crossing of a
\* pilot behind it and no more: what torn_grace refutes is that the window always
\* holds it.
OneCrossingPastMarker ==
  \A h \in Heats :
    LET W == Window(log, h)
        marker == Marker(log, W, h)
    IN  marker # 0 =>
          \A x, y \in Result(log, h).passes :
            /\ x.pilot = y.pilot
            /\ Overtime(x, Exempt(log, W), marker)
            /\ Overtime(y, Exempt(log, W), marker)
            => x = y

\* The grace behind the tone is one crossing for each pilot, in any result whose
\* window holds the tone.
THEOREM GraceIsOneCrossing == Spec => []OneCrossingPastMarker
<1>1. ASSUME TypeOK, NEW h \in Heats, Marker(log, Window(log, h), h) # 0,
             NEW x \in Result(log, h).passes, NEW y \in Result(log, h).passes,
             x.pilot = y.pilot,
             Overtime(x, Exempt(log, Window(log, h)), Marker(log, Window(log, h), h)),
             Overtime(y, Exempt(log, Window(log, h)), Marker(log, Window(log, h), h))
      PROVE  x = y
  <2> DEFINE P      == Corrected(log, Window(log, h))
             exempt == Exempt(log, Window(log, h))
             marker == Marker(log, Window(log, h), h)
  <2>1. Walkable(P)
    BY <1>1, CorrectedWalkable DEF TypeOK
  <2>2. Result(log, h).passes = Walk(P, exempt, marker)
    BY DEF Result, Kept
  <2>3. marker # 0 /\ Overtime(x, exempt, marker) /\ Overtime(y, exempt, marker)
    BY <1>1
  <2> HIDE DEF P, exempt, marker
  <2> QED
    BY <1>1, <2>1, <2>2, <2>3, KeptGraced
<1>2. TypeOK => OneCrossingPastMarker
  BY <1>1 DEF OneCrossingPastMarker
<1> QED
  BY <1>2, TypeCorrect, PTL

\* Behind the entry that starts a run there is nothing to score.
LEMMA FreshWindow ==
  ASSUME NEW L, NEW e, NEW M, Longer(L, e, M), NEW h, Restarts(e, h)
  PROVE  \A o \in Window(M, h) : M[o].kind \in HeatLoopKinds
<1> SUFFICES ASSUME NEW o \in Window(M, h), M[o].kind \notin HeatLoopKinds
             PROVE  FALSE
  OBVIOUS
<1>1. o \in DOMAIN M /\ o >= RunStart(M, h)
  BY LongerTyped, WindowOfRun
<1>2. o \in DOMAIN L \/ (o = N(L) /\ M[o] = e)
  BY <1>1, PositionLonger
<1>3. e.kind \in HeatLoopKinds
  BY DEF Restarts, HeatLoopKinds
<1>4. o \in DOMAIN L
  BY <1>2, <1>3
<1> QED
  BY <1>1, <1>4, SinceLonger

\* A run starts with a clean sheet, whatever was ruled on an abandoned one or
\* filed ahead of this one.
THEOREM CleanSheet == Spec => CleanStart
<1> DEFINE Clean == [passes |-> {}, thrownOut |-> {}, disqualified |-> {},
                     timeAdded |-> {}, void |-> FALSE]
           Starts == \A h \in Heats :
                       Added = Moved(h, "Running") => Result(log', h) = Clean
<1>1. TypeOK /\ [Next]_log => [Starts]_log
  <2> SUFFICES ASSUME TypeOK, Next, NEW h \in Heats, Added = Moved(h, "Running")
               PROVE  Result(log', h) = Clean
    OBVIOUS
  <2>1. PICK e : Longer(log, e, log')
    BY StepLengthens
  <2>2. e = Moved(h, "Running")
    BY <2>1, AddedIs
  <2>3. Restarts(e, h)
    BY <2>2 DEF Restarts, Moved
  <2> DEFINE W == Window(log', h)
  <2>4. \A o \in W : log'[o].kind \in HeatLoopKinds
    BY <2>1, <2>3, FreshWindow
  <2>5. Corrected(log', W) = {}
    <3>1. W \cap Of(log', PassKinds) = {}
      BY <2>4 DEF Of, PassKinds, HeatLoopKinds
    <3> QED
      BY <3>1 DEF Corrected
  <2>6. Kept(log', W, Marker(log', W, h)) = {}
    BY <2>5, NothingKept DEF Kept
  <2>7. \A kind \in Reversible : Standing(log', W, {kind}) = {}
    BY <2>4 DEF Standing, Of, Reversible, HeatLoopKinds
  <2>8. /\ Standing(log', W, {"thrownOut"}) = {}
        /\ Standing(log', W, {"penalty"}) = {}
        /\ Standing(log', W, {"heatVoided"}) = {}
    BY <2>7 DEF Reversible
  <2> HIDE DEF W
  <2>9. Result(log', h)
          = [passes |-> {}, thrownOut |-> {}, disqualified |-> {},
             timeAdded |-> {}, void |-> FALSE]
    <3>1. /\ {log'[o].target : o \in Standing(log', W, {"thrownOut"})} = {}
          /\ \A sort : {o \in Standing(log', W, {"penalty"}) : log'[o].sort = sort} = {}
      BY <2>8
    <3>2. {log'[o].pilot : o \in {i \in Standing(log', W, {"penalty"}) :
                                    log'[i].sort = "disqualify"}} = {}
      BY <2>8
    <3> QED
      BY <2>6, <2>8, <3>1, <3>2 DEF Result, W
  <2> QED
    BY <2>9
<1> QED
  BY <1>1, TypeCorrect, PTL DEF Spec, CleanStart
-----------------------------------------------------------------------------
(* What the heats of one log have to do with each other. *)

\* No entry, a crossing or a ruling on it, counts in two heats.
OneHeatAnEntry ==
  \A h, g \in Heats : h # g => Window(log, h) \cap Window(log, g) = {}

\* No step changes the results of two heats: what a marshal rules on one heat,
\* or a timer delivers for it, leaves every other alone.
OneResultAStep ==
  [][\A h, g \in Heats :
       Result(log', h) # Result(log, h) /\ Result(log', g) # Result(log, g)
         => h = g]_log

\* Heats that interleave, and insertions that name none, are told apart by the
\* window: each entry is of the heat the locks give it to.
THEOREM EntriesCountOnce == Spec => []OneHeatAnEntry
<1>1. TypeOK => OneHeatAnEntry
  <2> SUFFICES ASSUME TypeOK, NEW h \in Heats, NEW g \in Heats,
                      NEW o \in Window(log, h), o \in Window(log, g)
               PROVE  h = g
    BY DEF OneHeatAnEntry
  <2>1. TypedLog(log) /\ h # NoHeat /\ g # NoHeat
    BY LogAssumption DEF TypeOK
  <2>2. HeatOf(log, o) = h
    BY <2>1, WindowOwned
  <2>3. HeatOf(log, o) = g
    BY <2>1, WindowOwned
  <2> QED
    BY <2>2, <2>3
<1> QED
  BY <1>1, TypeCorrect, PTL

\* A result that changes has taken in the entry that changes it.
LEMMA ChangedByItsOwn ==
  ASSUME NEW L, NEW e, NEW M, Longer(L, e, M), NEW h, Result(M, h) # Result(L, h)
  PROVE  N(L) \in Window(M, h)
<1>1. CASE Restarts(e, h)
  <2>1. e.kind \in HeatLoopKinds /\ e.kind \notin Targeting /\ e.heat = h
    BY <1>1 DEF Restarts, HeatLoopKinds, Targeting, PassRulings
  <2>2. TypedLog(M)
    BY LongerTyped
  <2>3. N(L) \in DOMAIN M
    BY LongerIs
  <2>4. M[N(L)] = e
    BY LongerIs
  <2>5. Takes(M, h, N(L))
    BY <2>1, <2>4 DEF Takes, Admits
  <2> QED
    BY <2>1, <2>2, <2>3, <2>4, <2>5, WindowIs
<1>2. CASE ~Restarts(e, h)
  <2>1. ~Idle(L, e, M, h)
    BY <1>2, ResultLonger
  <2> QED
    BY <2>1 DEF Idle
<1> QED
  BY <1>1, <1>2

\* Whatever is appended, at most one heat's result is another.
THEOREM OthersUntouched == Spec => OneResultAStep
<1> DEFINE Apart ==
      \A h, g \in Heats :
        Result(log', h) # Result(log, h) /\ Result(log', g) # Result(log, g)
          => h = g
<1>1. TypeOK /\ [Next]_log => [Apart]_log
  <2> SUFFICES ASSUME TypeOK, Next, NEW h \in Heats, NEW g \in Heats,
                      Result(log', h) # Result(log, h),
                      Result(log', g) # Result(log, g)
               PROVE  h = g
    OBVIOUS
  <2>1. PICK e : Longer(log, e, log')
    BY StepLengthens
  <2>2. N(log) \in Window(log', h) /\ N(log) \in Window(log', g)
    BY <2>1, ChangedByItsOwn
  <2>3. TypedLog(log') /\ h # NoHeat /\ g # NoHeat
    BY <2>1, LongerTyped, LogAssumption
  <2>4. HeatOf(log', N(log)) = h
    BY <2>2, <2>3, WindowOwned
  <2>5. HeatOf(log', N(log)) = g
    BY <2>2, <2>3, WindowOwned
  <2> QED
    BY <2>4, <2>5
<1> QED
  BY <1>1, TypeCorrect, PTL DEF Spec, OneResultAStep
-----------------------------------------------------------------------------
(***************************************************************************)
(* The heats of a log that is marshaled keep to the abstract heat loop.    *)
(* Protests are not modelled here: nothing is ever contested.              *)
(***************************************************************************)

Loop == INSTANCE HeatLoop WITH
          phase <- [h \in Heats |-> HeatState(log, h)],
          contested <- [h \in Heats |-> {}], Protests <- {}

LEMMA EmptyLogUnknown ==
  ASSUME NEW L, L = << >>, NEW h
  PROVE  HeatState(L, h) = Unknown
<1>1. {o \in Of(L, HeatLoopKinds) : L[o].heat = h} = {}
  BY DEF Of
<1> QED
  BY <1>1 DEF HeatState, Latest

LEMMA StepKeepsToLoop ==
  ASSUME TypeOK, Next
  PROVE  [Loop!Next]_(Loop!vars)
<1> DEFINE was == [h \in Heats |-> HeatState(log, h)]
           is  == [h \in Heats |-> HeatState(log', h)]
           none == [h \in Heats |-> {}]
<1>1. PICK e : Longer(log, e, log') /\ Guarded(e)
  BY StepLengthens
<1>2. e \in Entries
  BY <1>1, LongerTyped
<1>3. e.kind \in HeatLoopKinds => e.heat \in Heats
  BY <1>2 DEF Entries, HeatLoopKinds
<1>4. \A h \in Heats :
        HeatState(log', h) =
          IF e.kind \in HeatLoopKinds /\ e.heat = h
            THEN IF e.kind = "scheduled" THEN "Scheduled" ELSE NextState(e.transition)
            ELSE HeatState(log, h)
  BY <1>1, HeatStateLonger
<1>5. CASE e.kind = "scheduled"
  <2>1. e.heat \in Heats /\ HeatState(log, e.heat) \in {Unknown, "Scheduled"}
    BY <1>1, <1>3, <1>5 DEF Guarded, HeatLoopKinds
  <2>2. is = [was EXCEPT ![e.heat] = "Scheduled"]
    BY <1>4, <1>5 DEF HeatLoopKinds
  <2>3. CASE HeatState(log, e.heat) = Unknown
    <3>1. was[e.heat] = Unknown
      BY <2>1, <2>3
    <3>2. Loop!Schedule(e.heat)
      BY <2>2, <3>1 DEF Loop!Schedule, Loop!Unknown, Unknown
    <3> QED
      BY <2>1, <3>2 DEF Loop!Next
  <2>4. CASE HeatState(log, e.heat) = "Scheduled"
    <3>1. is = was
      BY <2>1, <2>2, <2>4
    <3> QED
      BY <3>1 DEF Loop!vars
  <2> QED
    BY <2>1, <2>3, <2>4
<1>6. CASE e.kind = "moved"
  <2>1. PICK c \in Commands : /\ e.transition = Records(c)
                              /\ HeatState(log, e.heat) \in LegalIn(c)
    BY <1>1, <1>6 DEF Guarded
  <2>2. e.heat \in Heats
    BY <1>3, <1>6 DEF HeatLoopKinds
  <2>3. is = [was EXCEPT ![e.heat] = NextState(Records(c))]
    BY <1>4, <1>6, <2>1 DEF HeatLoopKinds
  <2>4. was[e.heat] \in LegalIn(c) /\ none[e.heat] = {}
    BY <2>1, <2>2
  <2>5. [none EXCEPT ![e.heat] = {}] = none
    OBVIOUS
  <2>6. /\ Loop!LegalIn(c) = LegalIn(c)
        /\ Loop!Records(c) = Records(c)
        /\ Loop!NextState(Records(c)) = NextState(Records(c))
    BY DEF Loop!LegalIn, LegalIn, Loop!Records, Records, Loop!NextState, NextState
  <2>7. Loop!Move(e.heat, c)
    BY <2>3, <2>4, <2>5, <2>6 DEF Loop!Move
  <2>8. c \in Loop!Commands
    BY DEF Loop!Commands, Commands
  <2> QED
    BY <2>2, <2>7, <2>8 DEF Loop!Next
<1>7. CASE e.kind \notin HeatLoopKinds
  <2>1. is = was
    BY <1>4, <1>7
  <2> QED
    BY <2>1 DEF Loop!vars
<1> QED
  BY <1>5, <1>6, <1>7 DEF HeatLoopKinds

\* Whatever is ruled, scheduled or delivered, the phase that the log gives a
\* heat moves along one edge of the state machine at a time; from the empty log
\* on, this is the abstract heat loop.
THEOREM HeatsKeepToTheLoop ==
  Spec => /\ log = << >> => Loop!Init
          /\ [][Loop!Next]_(Loop!vars)
<1>1. log = << >> => Loop!Init
  BY EmptyLogUnknown DEF Loop!Init, Loop!Unknown, Unknown
<1>2. TypeOK /\ [Next]_log => [Loop!Next]_(Loop!vars)
  <2>1. CASE log' = log
    BY <2>1 DEF Loop!vars
  <2> QED
    BY <2>1, StepKeepsToLoop
<1> QED
  BY <1>1, <1>2, TypeCorrect, PTL DEF Spec
=============================================================================
