--------------------------- MODULE BacktraceProofs ---------------------------
(***************************************************************************)
(* The collector implements Backtrace, for any threads and stacks.  The    *)
(* first half is about one stack: what IsCapture says of captured frames   *)
(* makes Locate of them the backtrace of the stack.  The second follows a  *)
(* request through the calls: from the end of the first loop on, the       *)
(* answer is that backtrace, whatever the threads do meanwhile.            *)
(***************************************************************************)
EXTENDS CollectorProofs, WellFoundedInduction, NaturalsInduction

(* Min of the community modules is a CHOOSE; on naturals it finds one. *)
LEMMA MinOfNaturals ==
  ASSUME NEW S \in SUBSET Nat, S # {}
  PROVE  Min(S) \in S /\ \A y \in S : Min(S) <= y
<1>1. PICK x \in S : \A y \in S : <<y, x>> \notin OpToRel(<, Nat)
  BY WFMin, NatLessThanWellFounded, Zenon
<1>2. \A y \in S : x <= y
  <2> SUFFICES ASSUME NEW y \in S PROVE x <= y
    OBVIOUS
  <2>1. x \in Nat /\ y \in Nat
    OBVIOUS
  <2>2. ~ (y < x)
    BY <1>1, <2>1, Zenon DEF OpToRel
  <2>3. QED
    BY <2>1, <2>2
<1>3. QED
  BY <1>2, Zenon DEF Min

LEMMA MinIsUnique ==
  ASSUME NEW S \in SUBSET Nat, NEW x \in S, \A y \in S : x <= y
  PROVE  Min(S) = x
<1>1. Min(S) \in S /\ Min(S) <= x
  BY MinOfNaturals
<1>2. x <= Min(S) /\ x \in Nat /\ Min(S) \in Nat
  BY <1>1
<1>3. QED
  BY <1>1, <1>2

-----------------------------------------------------------------------------
(* Ranks number the shown frames from 1 on, in their order, and leave none *)
(* of the numbers out.                                                     *)
LEMMA RankType ==
  ASSUME NEW s, NEW k \in Nat, NEW n \in Nat, NEW j \in Shown(s, k, n)
  PROVE  Rank(s, k, n, j) \in 1 .. Cardinality(Shown(s, k, n))
BY ShownFinite

LEMMA RankIncreases ==
  ASSUME NEW s, NEW k \in Nat, NEW n \in Nat,
         NEW i \in Shown(s, k, n), NEW j \in Shown(s, k, n), i < j
  PROVE  Rank(s, k, n, i) < Rank(s, k, n, j)
<1> DEFINE upto(m) == {x \in Shown(s, k, n) : x <= m}
<1>1. i \in Nat /\ j \in Nat
  BY DEF Shown
<1>2. IsFiniteSet(upto(j)) /\ IsFiniteSet(upto(i))
  BY ShownFinite, FS_Subset
<1>3. j \notin upto(i) /\ upto(i) \cup {j} \subseteq upto(j)
  BY <1>1 DEF Shown
<1>4. Cardinality(upto(i) \cup {j}) = Cardinality(upto(i)) + 1
  BY <1>2, <1>3, FS_AddElement
<1>5. Cardinality(upto(i) \cup {j}) <= Cardinality(upto(j))
  BY <1>2, <1>3, FS_Subset
<1>6. Cardinality(upto(i)) \in Nat /\ Cardinality(upto(j)) \in Nat
  BY <1>2, FS_CardinalityType
<1>7. QED
  BY <1>4, <1>5, <1>6 DEF Rank

LEMMA EveryRankIsTaken ==
  ASSUME NEW s, NEW k \in Nat, NEW n \in Nat,
         NEW r \in 1 .. Cardinality(Shown(s, k, n))
  PROVE  \E j \in Shown(s, k, n) : Rank(s, k, n, j) = r
<1> DEFINE A == Shown(s, k, n)
           T == 1 .. Cardinality(A)
           f == [j \in A |-> Rank(s, k, n, j)]
<1>1. IsFiniteSet(A) /\ Cardinality(A) \in Nat
  BY ShownFinite, FS_CardinalityType
<1>2. f \in [A -> T]
  BY RankType
<1>3. \A i, j \in A : f[i] = f[j] => i = j
  <2> SUFFICES ASSUME NEW i \in A, NEW j \in A, f[i] = f[j], i # j PROVE FALSE
    OBVIOUS
  <2>1. i \in Nat /\ j \in Nat
    BY DEF Shown
  <2>2. CASE i < j
    BY <2>2, RankIncreases, RankType
  <2>3. CASE j < i
    BY <2>3, RankIncreases, RankType
  <2>4. QED
    BY <2>1, <2>2, <2>3
<1>4. f \in Injection(A, T)
  BY <1>2, <1>3, Zenon DEF Injection, IsInjective
<1>5. IsFiniteSet(T) /\ Cardinality(T) = Cardinality(A)
  BY <1>1, FS_Interval
<1>6. f \in Surjection(A, T)
  BY <1>4, <1>5, FS_Injection
<1>7. QED
  BY <1>6 DEF Surjection

(* Ranks are ordered as the frames are. *)
LEMMA RankOrder ==
  ASSUME NEW s, NEW k \in Nat, NEW n \in Nat,
         NEW i \in Shown(s, k, n), NEW j \in Shown(s, k, n)
  PROVE  /\ i <= j <=> Rank(s, k, n, i) <= Rank(s, k, n, j)
         /\ i = j <=> Rank(s, k, n, i) = Rank(s, k, n, j)
<1>1. i \in Nat /\ j \in Nat
  BY DEF Shown
<1>2. Rank(s, k, n, i) \in Nat /\ Rank(s, k, n, j) \in Nat
  BY RankType
<1>3. i < j => Rank(s, k, n, i) < Rank(s, k, n, j)
  BY RankIncreases
<1>4. j < i => Rank(s, k, n, j) < Rank(s, k, n, i)
  BY RankIncreases
<1>5. QED
  BY <1>1, <1>2, <1>3, <1>4

(* The Ruby frames at or below a shown frame are the Ruby frames at or     *)
(* after its place among the captured ones.                                *)
LEMMA RubyFramesCorrespond ==
  ASSUME NEW raws, NEW s, NEW k \in Nat, FrameCount(s) \in Nat,
         IsCapture(raws, s, k, FrameCount(s)),
         NEW j \in Shown(s, k, FrameCount(s))
  PROVE  RubyFrom(raws, Rank(s, k, FrameCount(s), j))
           = {Rank(s, k, FrameCount(s), m) : m \in RubyAtOrBelow(s, j)}
<1> DEFINE A == Shown(s, k, FrameCount(s))
           R(m) == Rank(s, k, FrameCount(s), m)
<1>0. j \in Nat /\ Len(raws) = Cardinality(A) /\ Cardinality(A) \in Nat
  BY ShownFinite DEF IsCapture, Shown
<1>1. \A m \in A : R(m) \in 1 .. Len(raws)
  BY <1>0, RankType
<1>2. \A m \in A : raws[R(m)].ruby = FrameAt(s, m).ruby
  <2>1. \A m \in A : raws[R(m)] = Capture(FrameAt(s, m))
    BY DEF IsCapture
  <2>2. \A f : Capture(f).ruby = f.ruby
    BY DEF Capture
  <2>3. QED
    BY <2>1, <2>2, Zenon
<1>3. RubyAtOrBelow(s, j) = {m \in A : j <= m /\ FrameAt(s, m).ruby}
  BY <1>0 DEF RubyAtOrBelow, Shown
<1>4. \A m \in A : j <= m <=> R(j) <= R(m)
  BY RankOrder
<1>5. ASSUME NEW m \in RubyAtOrBelow(s, j) PROVE R(m) \in RubyFrom(raws, R(j))
  <2>1. m \in A /\ R(j) <= R(m) /\ raws[R(m)].ruby
    BY <1>2, <1>3, <1>4
  <2>2. R(m) \in R(j) .. Len(raws)
    BY <1>0, <1>1, <2>1
  <2>3. QED
    BY <2>1, <2>2 DEF RubyFrom
<1>6. ASSUME NEW r \in RubyFrom(raws, R(j))
      PROVE  \E m \in RubyAtOrBelow(s, j) : r = R(m)
  <2>1. r \in R(j) .. Len(raws) /\ raws[r].ruby /\ R(j) \in 1 .. Len(raws)
    BY <1>1 DEF RubyFrom
  <2>2. r \in 1 .. Cardinality(A)
    BY <1>0, <2>1
  <2>3. PICK m \in A : R(m) = r
    BY <2>2, EveryRankIsTaken
  <2>4. j <= m /\ FrameAt(s, m).ruby
    BY <1>2, <1>4, <2>1, <2>3
  <2>5. QED
    BY <1>3, <2>3, <2>4
<1>7. QED
  BY <1>5, <1>6

(* What is captured of a stack is located as its backtrace. *)
LEMMA LocateIsBacktrace ==
  ASSUME NEW S, NEW raws \in Seq(S), NEW s, NEW k \in Nat, FrameCount(s) \in Nat,
         IsCapture(raws, s, k, FrameCount(s))
  PROVE  IsBacktrace(Locate(raws), s, k)
<1> DEFINE n == FrameCount(s)
           A == Shown(s, k, n)
           R(m) == Rank(s, k, n, m)
<1>1. Len(Locate(raws)) = Cardinality(A) /\ Len(raws) = Cardinality(A)
  BY DEF Locate, IsCapture
<1>2. ASSUME NEW j \in A PROVE Locate(raws)[R(j)] = LocationAt(s, j)
  <2> DEFINE below == RubyAtOrBelow(s, j)
             near == Min(below)
  <2>1. R(j) \in 1 .. Len(raws) /\ raws[R(j)] = Capture(FrameAt(s, j)) /\ R(j) # 0
    BY <1>1, RankType DEF IsCapture
  <2>2. Locate(raws)[R(j)] = ToLocation(raws, R(j), NearestRuby(raws, R(j)))
    BY <2>1 DEF Locate
  <2>3. RubyFrom(raws, R(j)) = {R(m) : m \in below}
    BY RubyFramesCorrespond
  <2>4. CASE below = {}
    <3>1. NearestRuby(raws, R(j)) = 0
      BY <2>3, <2>4 DEF NearestRuby
    <3>2. QED
      BY <2>1, <2>2, <2>4, <3>1 DEF ToLocation, LocationAt
  <2>5. CASE below # {}
    <3>1. below \in SUBSET A /\ A \in SUBSET Nat
      <4>1. j \in Nat /\ k <= j
        BY DEF Shown
      <4>2. QED
        BY <4>1 DEF RubyAtOrBelow, Shown
    <3>2. near \in below /\ \A m \in below : near <= m
      BY <2>5, <3>1, MinOfNaturals
    <3>3. R(near) \in 1 .. Len(raws) /\ raws[R(near)] = Capture(FrameAt(s, near))
      BY <1>1, <3>1, <3>2, RankType DEF IsCapture
    <3>4. NearestRuby(raws, R(j)) = R(near)
      <4> DEFINE places == RubyFrom(raws, R(j))
      <4>1. R(near) \in places
        BY <2>3, <3>2
      <4>2. \A r \in places : R(near) <= r
        <5> SUFFICES ASSUME NEW m \in below PROVE R(near) <= R(m)
          BY <2>3
        <5>1. m \in A /\ near \in A /\ near <= m
          BY <3>1, <3>2
        <5>2. QED
          BY <5>1, RankOrder
      <4>3. places \in SUBSET Nat
        <5>1. \A m \in A : R(m) \in Nat
          BY RankType
        <5>2. QED
          BY <2>3, <3>1, <5>1
      <4>4. Min(places) = R(near)
        BY <4>1, <4>2, <4>3, MinIsUnique
      <4>5. QED
        BY <4>1, <4>4 DEF NearestRuby
    <3>5. R(j) # R(near) <=> near # j
      BY <3>1, <3>2, RankOrder
    <3>6. R(near) # 0
      BY <3>3
    <3>7. QED
      BY <2>1, <2>2, <2>5, <3>3, <3>4, <3>5, <3>6 DEF ToLocation, LocationAt
  <2>6. QED
    BY <2>4, <2>5
<1>3. QED
  BY <1>1, <1>2 DEF IsBacktrace

-----------------------------------------------------------------------------
(* The reading of a stack, said by Backtrace and by Collector, is the same. *)
LEMMA SameCapture == \A f : Abstract!Capture(f) = Capture(f)
BY DEF Abstract!Capture, Abstract!KeepsSelf, Capture, KeepsSelf

LEMMA SameLine == \A raw : Abstract!LineNumber(raw) = LineNumber(raw)
BY DEF Abstract!LineNumber, LineNumber

LEMMA SameCardinality == \A S : Abstract!Cardinality(S) = Cardinality(S)
BY Zenon DEF Abstract!Cardinality, Cardinality

LEMMA SameShown ==
  /\ \A s : Abstract!FrameCount(s) = FrameCount(s)
  /\ \A s, j : Abstract!FrameAt(s, j) = FrameAt(s, j)
  /\ \A s, k, n : Abstract!Shown(s, k, n) = Shown(s, k, n)
  /\ \A s, k, n, j : Abstract!Rank(s, k, n, j) = Rank(s, k, n, j)
<1>1. \A s : Abstract!FrameCount(s) = FrameCount(s)
  BY DEF Abstract!FrameCount, FrameCount
<1>2. \A s, j : Abstract!FrameAt(s, j) = FrameAt(s, j)
  BY DEF Abstract!FrameAt, FrameAt
<1>3. \A f : Abstract!IsValid(f) <=> IsValid(f)
  BY DEF Abstract!IsValid, IsValid
<1>4. \A s, k, n : Abstract!Shown(s, k, n) = Shown(s, k, n)
  BY <1>2, <1>3 DEF Abstract!Shown, Shown
<1>5. \A s, k, n, j : Abstract!Rank(s, k, n, j) = Rank(s, k, n, j)
  BY <1>4, SameCardinality DEF Abstract!Rank, Rank
<1>6. QED
  BY <1>1, <1>2, <1>4, <1>5

LEMMA SameBacktrace ==
  ASSUME NEW value, NEW s, NEW k, IsBacktrace(value, s, k)
  PROVE  Abstract!IsBacktrace(value, s, k)
<1>1. \A j : Abstract!RubyAtOrBelow(s, j) = RubyAtOrBelow(s, j)
  BY SameShown DEF Abstract!RubyAtOrBelow, RubyAtOrBelow
<1>2. \A S : Abstract!Min(S) = Min(S)
  BY DEF Abstract!Min, Min
<1>3. \A j : Abstract!LocationAt(s, j) = LocationAt(s, j)
  BY <1>1, <1>2, SameShown, SameCapture, SameLine
  DEF Abstract!LocationAt, LocationAt
<1>4. QED
  BY <1>3, SameShown, SameCardinality DEF Abstract!IsBacktrace, IsBacktrace

-----------------------------------------------------------------------------
(* The second loop: the Ruby frame it saw last is the one that locates the *)
(* frame it is at, and what it stored so far is right.                     *)
Located(t) ==
  \A n \in (index[t] + 1) .. Len(frames[t]) :
    locs[t][n] = ToLocation(frames[t], n, NearestRuby(frames[t], n))

Answering(t) ==
  /\ ~ Requested(t) => ignored[t] = 0
  /\ pc[t] \notin {"convert", "initialize", "return"} => locs[t] = NULL
  /\ pc[t] = "convert" => prev[t] = NearestRuby(frames[t], index[t] + 1)
  /\ pc[t] = "initialize" => prev[t] = NearestRuby(frames[t], index[t])
  /\ pc[t] \in {"convert", "initialize"} => Located(t)

AInv == IInv /\ \A t \in Threads : Answering(t)

(* The nearest Ruby frame at or after a place is the frame there, if it is *)
(* one, and otherwise the nearest one after it.                            *)
LEMMA NearestRubyStep ==
  ASSUME NEW raws \in Seq(RawLocation), NEW n \in 1 .. Len(raws)
  PROVE  NearestRuby(raws, n) =
           IF raws[n].ruby THEN n ELSE NearestRuby(raws, n + 1)
<1>1. CASE raws[n].ruby
  <2>1. n \in RubyFrom(raws, n) /\ \A m \in RubyFrom(raws, n) : n <= m
    BY <1>1 DEF RubyFrom
  <2>2. RubyFrom(raws, n) \in SUBSET Nat
    BY DEF RubyFrom
  <2>3. Min(RubyFrom(raws, n)) = n
    BY <2>1, <2>2, MinIsUnique
  <2>4. QED
    BY <1>1, <2>1, <2>3 DEF NearestRuby
<1>2. CASE ~ raws[n].ruby
  <2>1. RubyFrom(raws, n) = RubyFrom(raws, n + 1)
    BY <1>2 DEF RubyFrom
  <2>2. QED
    BY <1>2, <2>1 DEF NearestRuby
<1>3. QED
  BY <1>1, <1>2

LEMMA NoRubyAfterLast ==
  ASSUME NEW raws \in Seq(RawLocation)
  PROVE  NearestRuby(raws, Len(raws) + 1) = 0
<1>1. RubyFrom(raws, Len(raws) + 1) = {}
  BY DEF RubyFrom
<1>2. QED
  BY <1>1 DEF NearestRuby

(* When the second loop is done its array is that of the captured frames.  *)
LEMMA AllLocated ==
  ASSUME TypeOK, NEW t \in Threads, Answering(t), Converting(t),
         pc[t] = "convert", index[t] = 0
  PROVE  locs[t] = Locate(frames[t])
<1>1. locs[t] \in Seq(Location \cup {NULL}) /\ Len(locs[t]) = Len(frames[t])
  BY DEF Converting
<1>2. Len(frames[t]) \in Nat
  BY DEF TypeOK
<1>3. locs[t] = [n \in 1 .. Len(frames[t]) |-> locs[t][n]]
  BY <1>1
<1>4. \A n \in 1 .. Len(frames[t]) :
        locs[t][n] = ToLocation(frames[t], n, NearestRuby(frames[t], n))
  BY DEF Answering, Located
<1>5. QED
  BY <1>3, <1>4 DEF Locate

(* An array of locations, and so not nil. *)
LEMMA LocateType ==
  ASSUME NEW raws \in Seq(RawLocation)
  PROVE  Locate(raws) \in Seq(Location) /\ Locate(raws) # NULL
<1>1. ASSUME NEW n \in 1 .. Len(raws)
      PROVE  ToLocation(raws, n, NearestRuby(raws, n)) \in Location
  <2>1. RubyFrom(raws, n) \in SUBSET Nat
    BY DEF RubyFrom
  <2>2. CASE RubyFrom(raws, n) = {}
    BY <2>2, ToLocationType DEF NearestRuby
  <2>3. CASE RubyFrom(raws, n) # {}
    <3>1. NearestRuby(raws, n) \in RubyFrom(raws, n)
      BY <2>1, <2>3, MinOfNaturals DEF NearestRuby
    <3>2. NearestRuby(raws, n) \in 1 .. Len(raws) /\ raws[NearestRuby(raws, n)].ruby
      BY <3>1 DEF RubyFrom
    <3>3. QED
      BY <3>2, ToLocationType
  <2>4. QED
    BY <2>2, <2>3
<1>2. Locate(raws) \in Seq(Location)
  BY <1>1 DEF Locate
<1>3. QED
  BY <1>2, CollectorAssumption, Zenon

-----------------------------------------------------------------------------
(* What a step of a thread does to its own request.                        *)
Untouched(t) ==
  /\ Phase(t)' = Phase(t) /\ Subject(t)' = Subject(t)
  /\ ignored'[t] = ignored[t] /\ Answer(t)' = Answer(t)

Asks(t) ==
  /\ Phase(t) = "none" /\ Phase(t)' = "asked"
  /\ Subject(t)' \in Threads /\ ignored'[t] \in {0, 3}
  /\ Answer(t)' = Answer(t)

Takes(t) ==
  /\ Phase(t) = "asked" /\ Phase(t)' = "answered"
  /\ Subject(t)' = Subject(t) /\ ignored'[t] = ignored[t]
  /\ UNCHANGED status /\ \A u \in Threads \ {t} : stack'[u] = stack[u]
  /\ IF Alive(Subject(t))
     THEN /\ Answer(t)' # NULL
          /\ IsBacktrace(Answer(t)', stack[Subject(t)], ignored[t])
     ELSE Answer(t)' = NULL

Ends(t) ==
  /\ Phase(t) = "answered" /\ Phase(t)' = "none"
  /\ Subject(t)' = NULL /\ ignored'[t] = 0 /\ Answer(t)' = NULL

OwnEffect(t) == Untouched(t) \/ Asks(t) \/ Takes(t) \/ Ends(t)

(* Outside collect_backtrace_locations there is no request. *)
LEMMA NoRequest ==
  ASSUME NEW t, pc'[t] \in {"program", "wrapper", "ensure"},
         ignored'[t] = 0, locs'[t] = NULL
  PROVE  /\ Answering(t)'
         /\ Phase(t)' = "none" /\ Subject(t)' = NULL /\ Answer(t)' = NULL
<1>1. Answering(t)'
  BY DEF Answering, Requested
<1>2. QED
  BY <1>1 DEF Phase, Subject, Answer, Requested

LEMMA StaysOutside ==
  ASSUME NEW t, Answering(t), pc[t] \in {"program", "wrapper", "ensure"},
         pc'[t] \in {"program", "wrapper", "ensure"},
         ignored'[t] = 0, locs'[t] = NULL
  PROVE  Answering(t)' /\ OwnEffect(t)
<1>1. /\ Phase(t) = "none" /\ Subject(t) = NULL /\ Answer(t) = NULL
      /\ ignored[t] = 0
  BY DEF Phase, Subject, Answer, Requested, Answering
<1>2. QED
  BY <1>1, NoRequest DEF OwnEffect, Untouched

(* A call is left from a safepoint. *)
LEMMA LeaveCallEffect ==
  ASSUME TypeOK, NEW t \in Threads, Answering(t), AtSafepoint(t), LeaveCall(t)
  PROVE  Answering(t)' /\ OwnEffect(t)
<1>1. pc'[t] = "program" /\ ignored'[t] = 0 /\ locs'[t] = NULL
  BY DEF LeaveCall, Forget, TypeOK
<1>2. CASE pc[t] \in {"program", "wrapper", "ensure"}
  BY <1>1, <1>2, StaysOutside
<1>3. CASE pc[t] \in {"initialize", "return"}
  <2>1. Phase(t) = "answered"
    BY <1>3 DEF Phase, Requested
  <2>2. QED
    BY <1>1, <2>1, NoRequest DEF OwnEffect, Ends
<1>4. QED
  BY <1>2, <1>3 DEF AtSafepoint, Safepoints

LEMMA ProgramStepEffect ==
  ASSUME AInv, NEW t \in Threads, ProgramStep(t)
  PROVE  Answering(t)' /\ OwnEffect(t)
<1>0. TypeOK /\ ThreadInv(t) /\ Answering(t)
  BY DEF AInv, IInv
<1>1. CASE \/ Start(t) \/ LeaveMethod(t) \/ Advance(t) \/ Terminate(t)
           \/ \E f \in AppFrames : Call(t, f)
  <2>1. /\ pc'[t] = "program" /\ pc[t] = "program"
        /\ ignored'[t] = ignored[t] /\ locs'[t] = locs[t]
    BY <1>0, <1>1
    DEF Start, LeaveMethod, Advance, Terminate, Call, InProgram, callVars
  <2>2. ignored[t] = 0 /\ locs[t] = NULL
    BY <1>0, <2>1 DEF Answering, Requested
  <2>3. QED
    BY <1>0, <2>1, <2>2, StaysOutside
<1>2. CASE Interrupt(t)
  <2>1. CASE InCall(t)
    BY <1>0, <1>2, <2>1, LeaveCallEffect DEF Interrupt
  <2>2. CASE ~ InCall(t)
    <3>1. /\ pc'[t] = "program" /\ pc[t] = "program"
          /\ ignored'[t] = ignored[t] /\ locs'[t] = locs[t]
      BY <1>0, <1>2, <2>2 DEF Interrupt, InCall, callVars, ThreadInv, Atomic
    <3>2. ignored[t] = 0 /\ locs[t] = NULL
      BY <1>0, <3>1 DEF Answering, Requested
    <3>3. QED
      BY <1>0, <3>1, <3>2, StaysOutside
  <2>3. QED
    BY <2>1, <2>2
<1>3. CASE \/ CallerLocations(t)
           \/ \E u \in Threads \cup {NotThread} : BacktraceLocations(t, u)
  <2>1. /\ pc[t] = "program" /\ pc'[t] \in {"wrapper", "ensure"}
        /\ ignored'[t] = ignored[t] /\ locs'[t] = locs[t]
    BY <1>0, <1>3
    DEF BacktraceLocations, CallerLocations, InProgram, Goto, TypeOK
  <2>2. ignored[t] = 0 /\ locs[t] = NULL
    BY <1>0, <2>1 DEF Answering, Requested
  <2>3. QED
    BY <1>0, <2>1, <2>2, StaysOutside
<1>4. QED
  BY <1>1, <1>2, <1>3 DEF ProgramStep

LEMMA LibraryStepEffect ==
  ASSUME AInv, NEW t \in Threads, LibraryStep(t)
  PROVE  Answering(t)' /\ OwnEffect(t)
<1>0. TypeOK /\ ThreadInv(t) /\ Answering(t)
  BY DEF AInv, IInv
<1>1. CASE EnsureObjectIsThread(t)
  <2>1. CASE target[t] = NotThread
    BY <1>0, <1>1, <2>1, LeaveCallEffect
    DEF EnsureObjectIsThread, AtSafepoint, Safepoints
  <2>2. CASE target[t] # NotThread
    <3>1. /\ pc[t] = "ensure" /\ pc'[t] = "alive" /\ UNCHANGED callVars
          /\ ignored[t] = 0 /\ locs[t] = NULL
      BY <1>0, <1>1, <2>2
      DEF EnsureObjectIsThread, Goto, TypeOK, Answering, Requested
    <3>2. target'[t] \in Threads \cup {NULL}
      BY <1>0, <2>2, <3>1 DEF TypeOK, callVars
    <3>3. Asks(t)
      BY <3>1, <3>2 DEF Asks, Phase, Subject, Answer, Requested, callVars
    <3>4. QED
      BY <3>1, <3>3 DEF OwnEffect, Answering, Requested, callVars
  <2>3. QED
    BY <2>1, <2>2
<1>2. CASE PrimitiveCallerLocations(t)
  <2>1. /\ pc[t] = "wrapper" /\ pc'[t] = "alive" /\ target'[t] = NULL
        /\ ignored'[t] = 3 /\ locs'[t] = NULL /\ locs[t] = NULL
    BY <1>0, <1>2
    DEF PrimitiveCallerLocations, Goto, TypeOK, ThreadInv, HasTarget, Answering
  <2>2. Asks(t)
    BY <2>1 DEF Asks, Phase, Subject, Answer, Requested
  <2>3. QED
    BY <2>1, <2>2 DEF OwnEffect, Answering, Requested
<1>3. CASE CheckAlive(t)
  <2> DEFINE thread == IF target[t] = NULL THEN t ELSE target[t]
  <2>1. /\ thread \in Threads /\ target'[t] = thread /\ pc[t] = "alive"
        /\ locs'[t] = NULL /\ locs[t] = NULL /\ ignored'[t] = ignored[t]
        /\ UNCHANGED status
    BY <1>0, <1>3 DEF CheckAlive, TypeOK, ThreadInv, HasTarget, Answering
  <2>2. thread # NULL
    BY <2>1, CollectorAssumption
  <2>3. CASE Alive(thread)
    <3>1. pc'[t] = "count"
      BY <1>0, <1>3, <2>3 DEF CheckAlive, Goto, TypeOK
    <3>2. Untouched(t)
      BY <2>1, <2>2, <3>1 DEF Untouched, Phase, Subject, Answer, Requested
    <3>3. QED
      BY <2>1, <3>1, <3>2 DEF OwnEffect, Answering, Requested
  <2>4. CASE ~ Alive(thread)
    <3>1. pc'[t] = "return" /\ \A u \in Threads \ {t} : stack'[u] = stack[u]
      BY <1>0, <1>3, <2>4 DEF CheckAlive, Goto, Pop, TypeOK
    <3>2. Takes(t)
      BY <2>1, <2>2, <2>4, <3>1 DEF Takes, Phase, Subject, Answer, Requested
    <3>3. QED
      BY <2>1, <3>1, <3>2 DEF OwnEffect, Answering, Requested
  <2>5. QED
    BY <2>3, <2>4
<1>4. CASE CountFrames(t) \/ CaptureFrame(t)
  <2>1. /\ pc[t] \in {"count", "capture"} /\ pc'[t] \in {"capture", "crash"}
        /\ target'[t] = target[t] /\ ignored'[t] = ignored[t]
        /\ locs'[t] = NULL /\ locs[t] = NULL
    BY <1>0, <1>4
    DEF CountFrames, CaptureFrame, CaptureInto, Goto, TypeOK, Answering
  <2>2. Untouched(t)
    BY <2>1 DEF Untouched, Phase, Subject, Answer, Requested
  <2>3. QED
    BY <2>1, <2>2 DEF OwnEffect, Answering, Requested
<1>5. CASE EndCapture(t)
  <2> DEFINE s == stack[target[t]]
  <2>1. /\ pc[t] = "capture" /\ pc'[t] = "convert"
        /\ index[t] >= count[t] /\ index[t] \in Nat /\ count[t] \in Nat
        /\ frames'[t] = frames[t] /\ frames[t] \in Seq(RawLocation)
        /\ index'[t] = Len(frames[t]) /\ prev'[t] = 0
        /\ target'[t] = target[t] /\ ignored'[t] = ignored[t]
        /\ UNCHANGED <<status, stack>>
    BY <1>0, <1>5 DEF EndCapture, Goto, TypeOK
  <2>2. /\ target[t] \in Threads /\ target[t] # NULL /\ Alive(target[t])
        /\ count[t] = FrameCount(s) /\ Captured(t)
    BY <1>0, <2>1, CollectorAssumption
    DEF ThreadInv, HasTarget, Capturing
  <2>3. IsCapture(frames[t], s, ignored[t], FrameCount(s))
    <3>1. (IF index[t] <= count[t] THEN index[t] ELSE count[t]) = FrameCount(s)
      BY <2>1, <2>2
    <3>2. QED
      BY <2>2, <3>1 DEF Captured
  <2>4. ignored[t] \in Nat /\ FrameCount(s) \in Nat
    <3>1. ignored[t] \in {0, 3}
      BY <1>0 DEF TypeOK
    <3>2. QED
      BY <2>1, <2>2, <3>1
  <2>5. IsBacktrace(Locate(frames[t]), s, ignored[t])
    BY <2>1, <2>3, <2>4, LocateIsBacktrace
  <2>6. Locate(frames[t]) # NULL
    BY <2>1, LocateType
  <2>7. Takes(t)
    <3>1. /\ Phase(t) = "asked" /\ Phase(t)' = "answered"
          /\ Subject(t) = target[t] /\ Subject(t)' = target[t]
          /\ Answer(t)' = Locate(frames'[t])
      BY <2>1, <2>2 DEF Phase, Subject, Answer, Requested
    <3>2. QED
      BY <2>1, <2>2, <2>5, <2>6, <3>1 DEF Takes
  <2>8. Answering(t)'
    <3>1. prev'[t] = NearestRuby(frames'[t], index'[t] + 1)
      BY <2>1, NoRubyAfterLast
    <3>2. Located(t)'
      BY <2>1 DEF Located
    <3>3. QED
      BY <2>1, <3>1, <3>2 DEF Answering, Requested
  <2>9. QED
    BY <2>7, <2>8 DEF OwnEffect
<1>6. CASE ConvertFrame(t)
  <2>1. /\ pc[t] = "convert" /\ pc'[t] = "initialize"
        /\ frames'[t] = frames[t] /\ frames[t] \in Seq(RawLocation)
        /\ index'[t] = index[t] /\ index[t] \in 1 .. Len(frames[t])
        /\ locs'[t] = locs[t] /\ target'[t] = target[t]
        /\ ignored'[t] = ignored[t]
    BY <1>0, <1>6 DEF ConvertFrame, Goto, TypeOK, ThreadInv, Converting
  <2>2. prev'[t] = NearestRuby(frames[t], index[t])
    <3>1. prev[t] = NearestRuby(frames[t], index[t] + 1)
      BY <1>0, <2>1 DEF Answering
    <3>2. prev'[t] = IF frames[t][index[t]].ruby THEN index[t] ELSE prev[t]
      BY <1>0, <1>6 DEF ConvertFrame, TypeOK
    <3>3. QED
      BY <2>1, <3>1, <3>2, NearestRubyStep
  <2>3. Untouched(t)
    BY <2>1 DEF Untouched, Phase, Subject, Answer, Requested
  <2>4. Answering(t)'
    <3>1. Located(t)'
      BY <1>0, <2>1 DEF Answering, Located
    <3>2. QED
      BY <2>1, <2>2, <3>1 DEF Answering, Requested
  <2>5. QED
    BY <2>3, <2>4 DEF OwnEffect
<1>7. CASE StoreLocation(t)
  <2> DEFINE loc == ToLocation(frames[t], index[t], prev[t])
  <2>1. /\ pc[t] = "initialize" /\ pc'[t] = "convert"
        /\ frames'[t] = frames[t] /\ frames[t] \in Seq(RawLocation)
        /\ index'[t] = index[t] - 1 /\ index[t] \in 1 .. Len(frames[t])
        /\ prev'[t] = prev[t] /\ target'[t] = target[t]
        /\ ignored'[t] = ignored[t]
        /\ locs'[t] = [locs[t] EXCEPT ![index[t]] = loc]
        /\ locs[t] \in Seq(Location \cup {NULL}) /\ Len(locs[t]) = Len(frames[t])
    BY <1>0, <1>7 DEF StoreLocation, Goto, TypeOK, ThreadInv, Converting
  <2>2. prev[t] = NearestRuby(frames[t], index[t])
    BY <1>0, <2>1 DEF Answering
  <2>3. Untouched(t)
    BY <2>1 DEF Untouched, Phase, Subject, Answer, Requested
  <2>4. Located(t)'
    <3> SUFFICES ASSUME NEW n \in index[t] .. Len(frames[t])
                 PROVE  locs'[t][n]
                          = ToLocation(frames[t], n, NearestRuby(frames[t], n))
      BY <2>1 DEF Located
    <3>1. CASE n = index[t]
      BY <2>1, <2>2, <3>1
    <3>2. CASE n # index[t]
      <4>1. n \in (index[t] + 1) .. Len(frames[t]) /\ locs'[t][n] = locs[t][n]
        BY <2>1, <3>2
      <4>2. QED
        BY <1>0, <2>1, <4>1 DEF Answering, Located
    <3>3. QED
      BY <3>1, <3>2
  <2>5. Answering(t)'
    <3>1. index'[t] + 1 = index[t]
      BY <2>1
    <3>2. QED
      BY <2>1, <2>2, <2>4, <3>1 DEF Answering, Requested
  <2>6. QED
    BY <2>3, <2>5 DEF OwnEffect
<1>8. CASE EndConvert(t)
  <2>1. /\ pc[t] = "convert" /\ pc'[t] = "return" /\ index[t] = 0
        /\ UNCHANGED callVars
    BY <1>0, <1>8 DEF EndConvert, Goto, TypeOK
  <2>2. locs[t] = Locate(frames[t])
    BY <1>0, <2>1, AllLocated DEF ThreadInv
  <2>3. Untouched(t)
    BY <2>1, <2>2 DEF Untouched, Phase, Subject, Answer, Requested, callVars
  <2>4. QED
    BY <2>1, <2>3 DEF OwnEffect, Answering, Requested, callVars
<1>9. CASE Return(t)
  BY <1>0, <1>9, LeaveCallEffect DEF Return, AtSafepoint, Safepoints
<1>10. QED
  BY <1>1, <1>2, <1>3, <1>4, <1>5, <1>6, <1>7, <1>8, <1>9 DEF LibraryStep

-----------------------------------------------------------------------------
(* The steps of Backtrace *)

LEMMA OthersUntouched ==
  ASSUME AInv, NEW t \in Threads, LibraryStep(t) \/ ProgramStep(t),
         NEW u \in Threads, u # t
  PROVE  Untouched(u) /\ Answering(u)'
<1>1. CallUnchanged(u) /\ Answering(u)
  BY StepIsLocal DEF AInv, IInv
<1>2. QED
  BY <1>1 DEF CallUnchanged, Untouched, Answering, Located, Phase, Subject,
              Answer, Requested

(* A type-correct step lets the program run. *)
LEMMA ProgramRunsAnyway ==
  ASSUME TypeOK'
  PROVE  Abstract!ProgramRuns
<1>1. Abstract!Frame = Frame
  BY DEF Abstract!Frame, Frame
<1>2. QED
  BY <1>1 DEF TypeOK, Statuses, Abstract!ProgramRuns

LEMMA UntouchedIsProgram ==
  ASSUME TypeOK, TypeOK', \A u \in Threads : Untouched(u)
  PROVE  Abstract!Program
<1>1. ignored' = ignored
  BY DEF TypeOK, Untouched
<1>2. QED
  BY <1>1, ProgramRunsAnyway DEF Untouched, Abstract!Program

LEMMA AskIsAsk ==
  ASSUME TypeOK, TypeOK', NEW t \in Threads, Asks(t),
         \A u \in Threads \ {t} : Untouched(u)
  PROVE  Abstract!Ask(t)
<1>1. ignored' = [ignored EXCEPT ![t] = ignored'[t]]
  BY DEF TypeOK, Untouched
<1>2. QED
  BY <1>1, ProgramRunsAnyway DEF Asks, Untouched, Abstract!Ask

LEMMA TakeIsTake ==
  ASSUME TypeOK, TypeOK', NEW t \in Threads, Takes(t),
         \A u \in Threads \ {t} : Untouched(u)
  PROVE  Abstract!Take(t)
<1>1. ignored' = ignored
  BY DEF TypeOK, Untouched, Takes
<1>2. \A u \in Threads : Abstract!Alive(u) <=> Alive(u)
  BY DEF Abstract!Alive, Alive
<1>3. Abstract!ProgramRuns
  BY ProgramRunsAnyway
<1>4. Subject(t) = Subject(t)
  OBVIOUS
<1>5. QED
  BY <1>1, <1>2, <1>3, SameBacktrace
  DEF Takes, Untouched, Abstract!Take, Abstract!Alive, Alive, Abstract!ProgramRuns

LEMMA EndIsEnd ==
  ASSUME TypeOK, TypeOK', NEW t \in Threads, Ends(t),
         \A u \in Threads \ {t} : Untouched(u)
  PROVE  Abstract!End(t)
<1>1. ignored' = [ignored EXCEPT ![t] = 0]
  BY DEF TypeOK, Untouched, Ends
<1>2. QED
  BY <1>1, ProgramRunsAnyway DEF Ends, Untouched, Abstract!End

LEMMA StepImplements ==
  ASSUME AInv, IInv', NEW t \in Threads, LibraryStep(t) \/ ProgramStep(t)
  PROVE  Abstract!Next /\ AInv'
<1>1. TypeOK /\ TypeOK'
  BY DEF AInv, IInv
<1>2. Answering(t)' /\ OwnEffect(t)
  BY LibraryStepEffect, ProgramStepEffect
<1>3. \A u \in Threads \ {t} : Untouched(u) /\ Answering(u)'
  BY OthersUntouched
<1>4. Abstract!Next
  <2>1. CASE Untouched(t)
    BY <1>1, <1>3, <2>1, UntouchedIsProgram DEF Abstract!Next
  <2>2. CASE Asks(t)
    BY <1>1, <1>3, <2>2, AskIsAsk DEF Abstract!Next
  <2>3. CASE Takes(t)
    BY <1>1, <1>3, <2>3, TakeIsTake DEF Abstract!Next
  <2>4. CASE Ends(t)
    BY <1>1, <1>3, <2>4, EndIsEnd DEF Abstract!Next
  <2>5. QED
    BY <1>2, <2>1, <2>2, <2>3, <2>4 DEF OwnEffect
<1>5. QED
  BY <1>2, <1>3, <1>4 DEF AInv

LEMMA StutterImplements ==
  ASSUME AInv, IInv', UNCHANGED <<status, stack, pc, callVars>>
  PROVE  UNCHANGED Abstract!vars /\ AInv'
<1>1. \A u \in Threads : Untouched(u)
  BY DEF Untouched, Phase, Subject, Answer, Requested, callVars
<1>2. \A u \in Threads : Answering(u)'
  BY DEF AInv, Answering, Located, Requested, callVars
<1>3. UNCHANGED Abstract!vars
  BY <1>1 DEF Untouched, Abstract!vars, callVars
<1>4. QED
  BY <1>2, <1>3 DEF AInv

LEMMA InitImplements == Init => Abstract!Init /\ AInv
<1> SUFFICES ASSUME Init PROVE Abstract!Init /\ AInv
  OBVIOUS
<1>1. IInv /\ TypeOK
  BY InitInv DEF IInv
<1>2. \A u \in Threads : Phase(u) = "none" /\ Subject(u) = NULL /\ Answer(u) = NULL
  BY DEF Init, Phase, Subject, Answer, Requested
<1>3. \A u \in Threads : Answering(u)
  BY DEF Init, Answering, Requested
<1>4. Abstract!Frame = Frame
  BY DEF Abstract!Frame, Frame
<1>5. Abstract!Init
  BY <1>1, <1>2, <1>4 DEF Init, TypeOK, Statuses, Abstract!Init
<1>6. QED
  BY <1>1, <1>3, <1>5 DEF AInv

(* Whatever the threads of a program do between its question and its       *)
(* answer, a request ends with one answer, which is the backtrace that the *)
(* subject's stack had at one instant, or nil where it was dying or dead:  *)
(* the collector implements Backtrace, for any threads and stacks.         *)
THEOREM Refinement == Spec => ImplementsBacktrace
<1>1. AInv /\ IInv' /\ [Next]_vars => [Abstract!Next]_(Abstract!vars) /\ AInv'
  <2> SUFFICES ASSUME AInv, IInv', [Next]_vars
               PROVE  [Abstract!Next]_(Abstract!vars) /\ AInv'
    OBVIOUS
  <2>1. CASE \E t \in Threads : LibraryStep(t) \/ ProgramStep(t)
    BY <2>1, StepImplements
  <2>2. CASE \/ UNCHANGED vars
             \/ \E t \in Threads : Switch(t)
    <3>1. UNCHANGED <<status, stack, pc, callVars>>
      BY <2>2 DEF vars, Switch
    <3>2. QED
      BY <3>1, StutterImplements
  <2>3. QED
    BY <2>1, <2>2 DEF Next
<1>2. Init => Abstract!Init /\ AInv
  BY InitImplements
<1>3. QED
  BY <1>1, <1>2, Invariance, PTL DEF Spec, ImplementsBacktrace, Abstract!Spec
=============================================================================
