------------------------ MODULE CallerLocationsProofs ------------------------
(***************************************************************************)
(* caller_locations answers with the backtrace of the stack its caller was *)
(* called from, for any threads and stacks: the three frames that it skips *)
(* are the two of the library and its caller's, whatever happened to the   *)
(* thread between the call and the answer.                                 *)
(***************************************************************************)
EXTENDS BacktraceProofs, LegacyCallerLocations

(* The frames that the library has on the stack, over the program's. *)
Entered(t) ==
  IF ignored[t] = 3
  THEN <<CallerLocationsFrame, PrimitiveCallerLocationsFrame>>
  ELSE <<BacktraceLocationsFrame>>

LibraryTop(t) ==
  CASE pc[t] = "wrapper" -> <<CallerLocationsFrame>>
    [] pc[t] = "ensure" -> <<BacktraceLocationsFrame, EnsureObjectIsThreadFrame>>
    [] pc[t] \in {"alive", "count", "capture", "convert"} -> Entered(t)
    [] pc[t] = "initialize" -> Append(Entered(t), InitializeFrame)
    [] OTHER -> Front(Entered(t))

(* A call of caller_locations is about the thread that makes it.  What a   *)
(* call about its own thread answers is the backtrace of the stack it was  *)
(* made from, with the library's frames on top.                            *)
Viewing(t) ==
  /\ InCall(t) => stack[t] = saved[t] \o LibraryTop(t) /\ saved[t] # <<>>
  /\ ignored[t] = 3 =>
       /\ target[t] \in {t, NULL}
       /\ pc[t] \in {"convert", "initialize", "return"} => target[t] = t
  /\ target[t] = t =>
       /\ pc[t] \in {"convert", "initialize"} =>
            IsBacktrace(Locate(frames[t]), saved[t] \o Entered(t), ignored[t])
       /\ pc[t] = "return" /\ locs[t] # NULL =>
            /\ locs[t] \in Seq(Location)
            /\ IsBacktrace(locs[t], saved[t] \o Entered(t), ignored[t])

VInv == AInv /\ \A t \in Threads : Viewing(t)

-----------------------------------------------------------------------------
(* Two more frames on a stack move the index of every other one by two. *)

LEMMA ShownShifts ==
  ASSUME NEW S, NEW s \in Seq(S), NEW a \in S, NEW b \in S,
         NEW k \in Nat, NEW n \in Nat, n < Len(s)
  PROVE  Shown(s \o <<a, b>>, k + 2, n + 2) = {j + 2 : j \in Shown(s, k, n)}
<1> DEFINE z == s \o <<a, b>>
<1>1. Len(s) \in Nat /\ Len(z) = Len(s) + 2
  OBVIOUS
<1>2. ASSUME NEW j \in Nat, j < Len(s) PROVE FrameAt(z, j + 2) = FrameAt(s, j)
  <2>1. Len(z) - (j + 2) = Len(s) - j /\ Len(s) - j \in 1 .. Len(s)
    BY <1>1, <1>2
  <2>2. z[Len(s) - j] = s[Len(s) - j]
    BY <2>1
  <2>3. QED
    BY <2>1, <2>2 DEF FrameAt
<1>3. ASSUME NEW j \in Shown(s, k, n) PROVE j + 2 \in Shown(z, k + 2, n + 2)
  <2>1. j \in k .. (n - 1) /\ IsValid(FrameAt(s, j)) /\ j \in Nat /\ j < Len(s)
    BY <1>1 DEF Shown
  <2>2. j + 2 \in (k + 2) .. ((n + 2) - 1)
    BY <2>1
  <2>3. QED
    BY <1>2, <2>1, <2>2 DEF Shown
<1>4. ASSUME NEW i \in Shown(z, k + 2, n + 2)
      PROVE  \E j \in Shown(s, k, n) : i = j + 2
  <2> DEFINE j == i - 2
  <2>1. j \in k .. (n - 1) /\ i = j + 2 /\ j \in Nat /\ j < Len(s)
    BY <1>1 DEF Shown
  <2>2. IsValid(FrameAt(s, j))
    BY <1>2, <2>1 DEF Shown
  <2>3. j \in Shown(s, k, n)
    BY <2>1, <2>2 DEF Shown
  <2>4. QED
    BY <2>1, <2>3
<1>5. QED
  BY <1>3, <1>4

(* So their number, their ranks and the nearest of them are kept. *)
LEMMA SizeShifts ==
  ASSUME NEW S \in SUBSET Nat, IsFiniteSet(S)
  PROVE  Cardinality({j + 2 : j \in S}) = Cardinality(S)
<1> DEFINE T == {j + 2 : j \in S}
           f == [j \in S |-> j + 2]
<1>1. f \in Bijection(S, T)
  BY DEF Bijection, Injection, Surjection, IsInjective
<1>2. ExistsBijection(S, T)
  BY <1>1 DEF ExistsBijection
<1>3. QED
  BY <1>2, FS_Bijection

LEMMA MinShifts ==
  ASSUME NEW S \in SUBSET Nat, S # {}
  PROVE  Min({j + 2 : j \in S}) = Min(S) + 2
<1> DEFINE T == {j + 2 : j \in S}
<1>1. Min(S) \in S /\ \A j \in S : Min(S) <= j
  BY MinOfNaturals
<1>2. T \in SUBSET Nat
  OBVIOUS
<1>3. Min(S) + 2 \in T
  BY <1>1
<1>4. ASSUME NEW j \in S PROVE Min(S) + 2 <= j + 2
  <2>1. Min(S) \in Nat /\ j \in Nat /\ Min(S) <= j
    BY <1>1
  <2>2. QED
    BY <2>1
<1>5. \A i \in T : Min(S) + 2 <= i
  BY <1>4
<1>6. QED
  BY <1>2, <1>3, <1>5, MinIsUnique

(* The two forms of a location. *)
LEMMA LocationWithoutRuby ==
  ASSUME NEW s, NEW j, RubyAtOrBelow(s, j) = {}
  PROVE  LocationAt(s, j) = [of |-> Capture(FrameAt(s, j)), file |-> NULL,
                             line |-> 0, synthetic |-> TRUE]
BY DEF LocationAt

LEMMA LocationWithRuby ==
  ASSUME NEW s, NEW j, RubyAtOrBelow(s, j) # {},
         NEW near, near = Min(RubyAtOrBelow(s, j))
  PROVE  LocationAt(s, j) =
           [of |-> Capture(FrameAt(s, j)),
            file |-> Capture(FrameAt(s, near)).iseq,
            line |-> LineNumber(Capture(FrameAt(s, near))),
            synthetic |-> near # j]
BY DEF LocationAt

(* Three skipped with two more frames is one skipped without them. *)
LEMMA BacktraceShifts ==
  ASSUME NEW S, NEW s \in Seq(S), s # <<>>, NEW a \in S, NEW b \in S,
         NEW k \in Nat, NEW value, IsBacktrace(value, s \o <<a, b>>, k + 2)
  PROVE  IsBacktrace(value, s, k)
<1> DEFINE z == s \o <<a, b>>
           n == FrameCount(s)
<1>1. /\ Len(s) \in Nat \ {0} /\ Len(z) = Len(s) + 2
      /\ n \in Nat /\ n < Len(s) /\ FrameCount(z) = n + 2
  BY DEF FrameCount
<1>2. \A i \in Nat : Shown(z, i + 2, n + 2) = {j + 2 : j \in Shown(s, i, n)}
  BY <1>1, ShownShifts
<1>3. \A i \in Nat : Shown(s, i, n) \in SUBSET Nat
  BY DEF Shown
<1>4. \A j \in Nat : j < Len(s) => FrameAt(z, j + 2) = FrameAt(s, j)
  <2> SUFFICES ASSUME NEW j \in Nat, j < Len(s)
               PROVE  FrameAt(z, j + 2) = FrameAt(s, j)
    OBVIOUS
  <2>1. Len(z) - (j + 2) = Len(s) - j /\ Len(s) - j \in 1 .. Len(s)
    BY <1>1
  <2>2. z[Len(s) - j] = s[Len(s) - j]
    BY <2>1
  <2>3. QED
    BY <2>1, <2>2 DEF FrameAt
<1>5. Shown(z, k + 2, n + 2) = {j + 2 : j \in Shown(s, k, n)}
  BY <1>2
<1>6. Cardinality(Shown(z, k + 2, n + 2)) = Cardinality(Shown(s, k, n))
  BY <1>1, <1>3, <1>5, SizeShifts, ShownFinite
<1>7. ASSUME NEW j \in Shown(s, k, n)
      PROVE  /\ Rank(z, k + 2, n + 2, j + 2) = Rank(s, k, n, j)
             /\ LocationAt(z, j + 2) = LocationAt(s, j)
  <2>1. j \in Nat /\ j < n
    BY <1>1 DEF Shown
  <2> DEFINE upto == {m \in Shown(s, k, n) : m <= j}
             below == RubyAtOrBelow(s, j)
  <2>2. {m \in Shown(z, k + 2, n + 2) : m <= j + 2} = {m + 2 : m \in upto}
    BY <1>3, <1>5, <2>1
  <2>3. upto \in SUBSET Nat /\ IsFiniteSet(upto)
    BY <1>1, <1>3, ShownFinite, FS_Subset
  <2>4. Rank(z, k + 2, n + 2, j + 2) = Rank(s, k, n, j)
    BY <2>2, <2>3, SizeShifts DEF Rank
  <2>5. \A m \in Shown(s, j, n) : m \in Nat /\ FrameAt(z, m + 2) = FrameAt(s, m)
    <3> SUFFICES ASSUME NEW m \in Shown(s, j, n)
                 PROVE  m \in Nat /\ FrameAt(z, m + 2) = FrameAt(s, m)
      OBVIOUS
    <3>1. m \in j .. (n - 1)
      BY DEF Shown
    <3>2. m \in Nat /\ m < Len(s)
      BY <1>1, <2>1, <3>1
    <3>3. QED
      BY <1>4, <3>2
  <2>6. RubyAtOrBelow(z, j + 2) = {m + 2 : m \in below}
    BY <1>1, <1>2, <2>1, <2>5 DEF RubyAtOrBelow
  <2>7. below \in SUBSET Nat /\ \A m \in below : FrameAt(z, m + 2) = FrameAt(s, m)
    BY <1>3, <2>1, <2>5 DEF RubyAtOrBelow
  <2>8. FrameAt(z, j + 2) = FrameAt(s, j)
    BY <1>1, <1>4, <2>1
  <2>9. CASE below = {}
    <3>1. RubyAtOrBelow(z, j + 2) = {}
      BY <2>6, <2>9
    <3>2. LocationAt(z, j + 2) =
            [of |-> Capture(FrameAt(s, j)), file |-> NULL, line |-> 0,
             synthetic |-> TRUE]
      BY <2>8, <3>1, LocationWithoutRuby
    <3>3. LocationAt(s, j) =
            [of |-> Capture(FrameAt(s, j)), file |-> NULL, line |-> 0,
             synthetic |-> TRUE]
      BY <2>9, LocationWithoutRuby
    <3>4. QED
      BY <2>4, <3>2, <3>3
  <2>10. CASE below # {}
    <3>1. /\ Min(RubyAtOrBelow(z, j + 2)) = Min(below) + 2
          /\ Min(below) \in below /\ RubyAtOrBelow(z, j + 2) # {}
      BY <2>6, <2>7, <2>10, MinShifts, MinOfNaturals
    <3>2. FrameAt(z, Min(below) + 2) = FrameAt(s, Min(below))
      BY <2>7, <3>1
    <3>3. Min(below) + 2 # j + 2 <=> Min(below) # j
      BY <2>1, <2>7, <3>1
    <3> DEFINE near == Min(below)
               raw == Capture(FrameAt(s, near))
    <3>4. LocationAt(z, j + 2) =
            [of |-> Capture(FrameAt(s, j)), file |-> raw.iseq,
             line |-> LineNumber(raw), synthetic |-> near # j]
      BY <2>8, <3>1, <3>2, <3>3, LocationWithRuby
    <3>5. LocationAt(s, j) =
            [of |-> Capture(FrameAt(s, j)), file |-> raw.iseq,
             line |-> LineNumber(raw), synthetic |-> near # j]
      BY <2>10, LocationWithRuby
    <3>6. QED
      BY <2>4, <3>4, <3>5
  <2>11. QED
    BY <2>9, <2>10
<1>8. QED
  BY <1>1, <1>5, <1>6, <1>7 DEF IsBacktrace

-----------------------------------------------------------------------------
(* Each step *)

LEMMA FrontOfAppend ==
  ASSUME NEW S, NEW s \in Seq(S), NEW x \in Seq(S), NEW e \in S
  PROVE  /\ Front(Append(x, e)) = x
         /\ s \o Append(x, e) = Append(s \o x, e)
         /\ Front(s \o Append(x, e)) = s \o x
<1>1. s \o Append(x, e) = Append(s \o x, e)
  OBVIOUS
<1>2. s \o x \in Seq(S)
  OBVIOUS
<1>3. ASSUME NEW q \in Seq(S) PROVE Front(Append(q, e)) = q
  <2>1. Len(Append(q, e)) - 1 = Len(q)
    OBVIOUS
  <2>2. QED
    BY <2>1 DEF Front
<1>4. QED
  BY <1>1, <1>2, <1>3

(* The frames of the library on top of the stack, step by step. *)
LEMMA EnteredFrames ==
  ASSUME NEW t
  PROVE  /\ Entered(t) \in Seq(Frame) /\ Front(Entered(t)) \in Seq(Frame)
         /\ \A s \in Seq(Frame) :
              /\ Front(s \o Entered(t)) = s \o Front(Entered(t))
              /\ Append(s \o Entered(t), InitializeFrame)
                   = s \o Append(Entered(t), InitializeFrame)
              /\ Front(s \o Append(Entered(t), InitializeFrame)) = s \o Entered(t)
<1>1. LibraryFrames \subseteq Frame
  BY CollectorAssumption
<1>2. PICK x \in Seq(Frame), e \in Frame : Entered(t) = Append(x, e)
  <2>1. CASE ignored[t] = 3
    <3>1. /\ <<CallerLocationsFrame>> \in Seq(Frame)
          /\ PrimitiveCallerLocationsFrame \in Frame
      BY <1>1 DEF LibraryFrames
    <3>2. Entered(t) = Append(<<CallerLocationsFrame>>, PrimitiveCallerLocationsFrame)
      BY <2>1 DEF Entered
    <3>3. QED
      BY <3>1, <3>2
  <2>2. CASE ignored[t] # 3
    <3>1. << >> \in Seq(Frame) /\ BacktraceLocationsFrame \in Frame
      BY <1>1 DEF LibraryFrames
    <3>2. Entered(t) = Append(<< >>, BacktraceLocationsFrame)
      BY <2>2 DEF Entered
    <3>3. QED
      BY <3>1, <3>2
  <2>3. QED
    BY <2>1, <2>2
<1>3. Entered(t) \in Seq(Frame)
  BY <1>2
<1>4. Front(Entered(t)) = x
  BY <1>2, FrontOfAppend
<1>5. InitializeFrame \in Frame
  BY <1>1 DEF LibraryFrames
<1>6. ASSUME NEW s \in Seq(Frame)
      PROVE  /\ Front(s \o Entered(t)) = s \o Front(Entered(t))
             /\ Append(s \o Entered(t), InitializeFrame)
                  = s \o Append(Entered(t), InitializeFrame)
             /\ Front(s \o Append(Entered(t), InitializeFrame)) = s \o Entered(t)
  <2>1. Front(s \o Append(x, e)) = s \o x
    BY FrontOfAppend
  <2>2. /\ Append(s \o Entered(t), InitializeFrame)
             = s \o Append(Entered(t), InitializeFrame)
        /\ Front(s \o Append(Entered(t), InitializeFrame)) = s \o Entered(t)
    <3>1. \A y \in Seq(Frame) :
            /\ s \o Append(y, InitializeFrame) = Append(s \o y, InitializeFrame)
            /\ Front(s \o Append(y, InitializeFrame)) = s \o y
      <4> SUFFICES ASSUME NEW y \in Seq(Frame)
                   PROVE  /\ s \o Append(y, InitializeFrame)
                               = Append(s \o y, InitializeFrame)
                          /\ Front(s \o Append(y, InitializeFrame)) = s \o y
        OBVIOUS
      <4>1. InitializeFrame \in Frame /\ s \in Seq(Frame)
        BY <1>5
      <4>2. QED
        BY <4>1, FrontOfAppend
    <3>2. QED
      BY <1>3, <3>1
  <2>3. QED
    BY <1>2, <1>4, <2>1, <2>2
<1>7. QED
  BY <1>2, <1>3, <1>4, <1>6

LEMMA OtherStacks ==
  ASSUME TypeOK, NEW t \in Threads, LibraryStep(t) \/ ProgramStep(t),
         NEW u \in Threads, u # t
  PROVE  stack'[u] = stack[u] /\ saved'[u] = saved[u]
<1> USE DEF callVars, TypeOK, LeaveCall, Forget, Push, Pop
<1>1. CASE \/ Start(t) \/ LeaveMethod(t) \/ Advance(t) \/ Terminate(t)
           \/ Interrupt(t) \/ \E f \in AppFrames : Call(t, f)
  BY <1>1 DEF Start, LeaveMethod, Advance, Terminate, Interrupt, Call
<1>2. CASE \/ CallerLocations(t)
           \/ \E v \in Threads \cup {NotThread} : BacktraceLocations(t, v)
  BY <1>2 DEF BacktraceLocations, CallerLocations
<1>3. CASE \/ EnsureObjectIsThread(t) \/ PrimitiveCallerLocations(t)
           \/ CheckAlive(t) \/ CountFrames(t)
  BY <1>3
  DEF EnsureObjectIsThread, PrimitiveCallerLocations, CheckAlive, CountFrames
<1>4. CASE CaptureFrame(t) \/ EndCapture(t) \/ ConvertFrame(t)
  BY <1>4 DEF CaptureFrame, EndCapture, ConvertFrame
<1>5. CASE StoreLocation(t) \/ EndConvert(t) \/ Return(t)
  BY <1>5 DEF StoreLocation, EndConvert, Return
<1>6. QED
  BY <1>1, <1>2, <1>3, <1>4, <1>5 DEF LibraryStep, ProgramStep

LEMMA OthersView ==
  ASSUME TypeOK, NEW t \in Threads, LibraryStep(t) \/ ProgramStep(t),
         NEW u \in Threads, u # t, Viewing(u)
  PROVE  Viewing(u)'
<1>1. /\ stack'[u] = stack[u] /\ saved'[u] = saved[u] /\ pc'[u] = pc[u]
      /\ ignored'[u] = ignored[u] /\ target'[u] = target[u]
      /\ frames'[u] = frames[u] /\ locs'[u] = locs[u]
  BY StepIsLocal, OtherStacks DEF CallUnchanged
<1>2. Entered(u)' = Entered(u)
  BY <1>1 DEF Entered
<1>3. LibraryTop(u)' = LibraryTop(u)
  BY <1>1, <1>2, Zenon DEF LibraryTop
<1>4. QED
  BY <1>1, <1>2, <1>3 DEF Viewing, InCall

LEMMA OutsideViews ==
  ASSUME NEW t, pc'[t] = "program", ignored'[t] = 0
  PROVE  Viewing(t)'
BY DEF Viewing, InCall

LEMMA ProgramStepViews ==
  ASSUME VInv, NEW t \in Threads, ProgramStep(t)
  PROVE  Viewing(t)'
<1>0. TypeOK /\ ThreadInv(t) /\ Answering(t)
  BY DEF VInv, AInv, IInv
<1>1. CASE \/ Start(t) \/ LeaveMethod(t) \/ Advance(t) \/ Terminate(t)
           \/ \E f \in AppFrames : Call(t, f)
  <2>1. pc'[t] = "program" /\ pc[t] = "program" /\ ignored'[t] = ignored[t]
    BY <1>0, <1>1
    DEF Start, LeaveMethod, Advance, Terminate, Call, InProgram, callVars
  <2>2. QED
    BY <1>0, <2>1, OutsideViews DEF Answering, Requested
<1>2. CASE Interrupt(t)
  <2>1. CASE InCall(t)
    BY <1>0, <1>2, <2>1, OutsideViews DEF Interrupt, LeaveCall, Forget, TypeOK
  <2>2. CASE ~ InCall(t)
    <3>1. pc'[t] = "program" /\ pc[t] = "program" /\ ignored'[t] = ignored[t]
      BY <1>0, <1>2, <2>2 DEF Interrupt, InCall, callVars, ThreadInv, Atomic
    <3>2. QED
      BY <1>0, <3>1, OutsideViews DEF Answering, Requested
  <2>3. QED
    BY <2>1, <2>2
<1>3. ASSUME NEW u \in Threads \cup {NotThread}, BacktraceLocations(t, u)
      PROVE  Viewing(t)'
  <2>1. /\ pc'[t] = "ensure" /\ saved'[t] = stack[t] /\ stack[t] # <<>>
        /\ stack'[t] = stack[t] \o
             <<BacktraceLocationsFrame, EnsureObjectIsThreadFrame>>
        /\ ignored'[t] = 0
    BY <1>0, <1>3
    DEF BacktraceLocations, InProgram, Goto, TypeOK, Answering, Requested
  <2>2. QED
    BY <2>1 DEF Viewing, LibraryTop
<1>4. CASE CallerLocations(t)
  <2>1. /\ pc'[t] = "wrapper" /\ saved'[t] = stack[t] /\ stack[t] # <<>>
        /\ stack'[t] = Append(stack[t], CallerLocationsFrame)
        /\ ignored'[t] = 0 /\ stack[t] \in Seq(Frame)
    BY <1>0, <1>4
    DEF CallerLocations, Push, InProgram, Goto, TypeOK, Answering, Requested
  <2>2. stack'[t] = stack[t] \o <<CallerLocationsFrame>>
    BY <2>1
  <2>3. QED
    BY <2>1, <2>2 DEF Viewing, LibraryTop
<1>5. QED
  BY <1>1, <1>2, <1>3, <1>4 DEF ProgramStep

LEMMA LibraryStepViews ==
  ASSUME VInv, NEW t \in Threads, LibraryStep(t)
  PROVE  Viewing(t)'
<1>0. /\ AInv /\ TypeOK /\ ThreadInv(t) /\ Answering(t) /\ Viewing(t)
      /\ saved[t] \in Seq(Frame) /\ frames[t] \in Seq(RawLocation)
  BY DEF VInv, AInv, IInv, TypeOK
<1>1. CASE EnsureObjectIsThread(t)
  <2>1. CASE target[t] = NotThread
    BY <1>0, <1>1, <2>1, OutsideViews
    DEF EnsureObjectIsThread, LeaveCall, Forget, TypeOK
  <2>2. CASE target[t] # NotThread
    <3>1. /\ pc[t] = "ensure" /\ pc'[t] = "alive" /\ UNCHANGED callVars
          /\ ignored[t] = 0 /\ stack'[t] = Front(stack[t])
      BY <1>0, <1>1, <2>2
      DEF EnsureObjectIsThread, Pop, Goto, TypeOK, Answering, Requested
    <3>2. /\ stack[t] = saved[t] \o
               <<BacktraceLocationsFrame, EnsureObjectIsThreadFrame>>
          /\ saved[t] # <<>>
      BY <1>0, <3>1 DEF Viewing, InCall, LibraryTop
    <3>3. /\ BacktraceLocationsFrame \in Frame /\ EnsureObjectIsThreadFrame \in Frame
          /\ <<BacktraceLocationsFrame>> \in Seq(Frame)
          /\ <<BacktraceLocationsFrame, EnsureObjectIsThreadFrame>>
               = Append(<<BacktraceLocationsFrame>>, EnsureObjectIsThreadFrame)
      BY CollectorAssumption DEF LibraryFrames
    <3>4. stack'[t] = saved[t] \o <<BacktraceLocationsFrame>>
      <4>1. Front(saved[t] \o Append(<<BacktraceLocationsFrame>>,
                                      EnsureObjectIsThreadFrame))
              = saved[t] \o <<BacktraceLocationsFrame>>
        BY <1>0, <3>3, FrontOfAppend
      <4>2. QED
        BY <3>1, <3>2, <3>3, <4>1
    <3>5. ignored'[t] = 0 /\ saved'[t] = saved[t]
      BY <3>1 DEF callVars
    <3>6. LibraryTop(t)' = <<BacktraceLocationsFrame>>
      BY <3>1, <3>5 DEF LibraryTop, Entered
    <3>7. InCall(t)' =>
            stack'[t] = saved'[t] \o LibraryTop(t)' /\ saved'[t] # <<>>
      BY <3>2, <3>4, <3>5, <3>6
    <3>8. ignored'[t] # 3 /\ pc'[t] \notin {"convert", "initialize", "return"}
      BY <3>1, <3>5
    <3>9. QED
      BY <3>7, <3>8, Zenon DEF Viewing
  <2>3. QED
    BY <2>1, <2>2
<1>2. CASE PrimitiveCallerLocations(t)
  <2>1. /\ pc[t] = "wrapper" /\ pc'[t] = "alive" /\ saved'[t] = saved[t]
        /\ ignored'[t] = 3 /\ target'[t] = NULL
        /\ stack'[t] = Append(stack[t], PrimitiveCallerLocationsFrame)
    BY <1>0, <1>2
    DEF PrimitiveCallerLocations, Push, Goto, TypeOK, ThreadInv, HasTarget
  <2>2. stack[t] = saved[t] \o <<CallerLocationsFrame>> /\ saved[t] # <<>>
    BY <1>0, <2>1 DEF Viewing, InCall, LibraryTop
  <2>3. stack'[t] = saved[t] \o
          <<CallerLocationsFrame, PrimitiveCallerLocationsFrame>>
    <3>1. /\ CallerLocationsFrame \in Frame /\ PrimitiveCallerLocationsFrame \in Frame
      BY CollectorAssumption DEF LibraryFrames
    <3>2. QED
      BY <1>0, <2>1, <2>2, <3>1
  <2>4. LibraryTop(t)' = <<CallerLocationsFrame, PrimitiveCallerLocationsFrame>>
    BY <2>1 DEF LibraryTop, Entered
  <2>5. stack'[t] = saved'[t] \o LibraryTop(t)' /\ saved'[t] # <<>>
    BY <2>1, <2>2, <2>3, <2>4
  <2>6. ignored'[t] = 3 => target'[t] \in {t, NULL}
    BY <2>1
  <2>7. pc'[t] \notin {"convert", "initialize", "return"}
    BY <2>1
  <2>8. QED
    BY <2>5, <2>6, <2>7, Zenon DEF Viewing
<1>3. CASE CheckAlive(t)
  <2>1. /\ pc[t] = "alive" /\ saved'[t] = saved[t] /\ ignored'[t] = ignored[t]
        /\ target'[t] = IF target[t] = NULL THEN t ELSE target[t]
        /\ locs'[t] = NULL
        /\ \/ pc'[t] = "count" /\ stack'[t] = stack[t]
           \/ pc'[t] = "return" /\ stack'[t] = Front(stack[t])
    BY <1>0, <1>3 DEF CheckAlive, Pop, Goto, TypeOK, Answering
  <2>2. stack[t] = saved[t] \o Entered(t) /\ saved[t] # <<>>
    BY <1>0, <2>1 DEF Viewing, InCall, LibraryTop
  <2>3. Entered(t)' = Entered(t)
    BY <2>1 DEF Entered
  <2>4. ignored[t] = 3 => target'[t] = t
    BY <1>0, <2>1 DEF Viewing
  <2>5. CASE pc'[t] = "count"
    BY <2>1, <2>2, <2>3, <2>4, <2>5 DEF Viewing, LibraryTop
  <2>6. CASE pc'[t] = "return" /\ stack'[t] = Front(stack[t])
    <3>1. stack'[t] = saved[t] \o Front(Entered(t))
      BY <1>0, <2>2, <2>6, EnteredFrames
    <3>2. QED
      BY <2>1, <2>2, <2>3, <2>4, <2>6, <3>1 DEF Viewing, LibraryTop
  <2>7. QED
    BY <2>1, <2>5, <2>6
<1>4. CASE CountFrames(t) \/ CaptureFrame(t)
  <2>1. /\ pc[t] \in {"count", "capture"} /\ pc'[t] \in {"capture", "crash"}
        /\ saved'[t] = saved[t] /\ stack'[t] = stack[t]
        /\ target'[t] = target[t] /\ ignored'[t] = ignored[t]
    BY <1>0, <1>4 DEF CountFrames, CaptureFrame, CaptureInto, Goto, TypeOK
  <2>2. QED
    BY <1>0, <2>1 DEF Viewing, InCall, LibraryTop, Entered
<1>5. CASE EndCapture(t)
  <2>1. /\ pc[t] = "capture" /\ pc'[t] = "convert"
        /\ saved'[t] = saved[t] /\ stack'[t] = stack[t]
        /\ target'[t] = target[t] /\ ignored'[t] = ignored[t]
        /\ frames'[t] = frames[t]
    BY <1>0, <1>5 DEF EndCapture, Goto, TypeOK
  <2>2. stack[t] = saved[t] \o Entered(t) /\ saved[t] # <<>>
    BY <1>0, <2>1 DEF Viewing, InCall, LibraryTop
  <2>3. ASSUME target[t] = t
        PROVE  IsBacktrace(Locate(frames[t]), saved[t] \o Entered(t), ignored[t])
    <3>1. target[t] = t /\ Alive(t) /\ t # NULL
      BY <1>0, <2>1, <2>3, CollectorAssumption DEF Viewing, ThreadInv, HasTarget
    <3>2. Takes(t)
      <4>1. Phase(t) = "asked" /\ Phase(t)' = "answered"
        BY <2>1 DEF Phase, Requested
      <4>2. OwnEffect(t)
        BY <1>0, <1>5, LibraryStepEffect DEF LibraryStep
      <4>3. QED
        BY <4>1, <4>2 DEF OwnEffect, Untouched, Asks, Ends
    <3>3. Subject(t) = t /\ Answer(t)' = Locate(frames[t])
      BY <2>1, <3>1 DEF Subject, Answer, Requested
    <3>4. IsBacktrace(Locate(frames[t]), stack[t], ignored[t])
      BY <2>3, <3>1, <3>2, <3>3 DEF Takes
    <3>5. QED
      BY <2>2, <3>4
  <2>4. Entered(t)' = Entered(t)
    BY <2>1 DEF Entered
  <2>5. ignored[t] = 3 => target[t] = t
    BY <1>0, <2>1, CollectorAssumption DEF Viewing, ThreadInv, HasTarget
  <2>6. QED
    BY <2>1, <2>2, <2>3, <2>4, <2>5 DEF Viewing, LibraryTop
<1>6. CASE ConvertFrame(t)
  <2>1. /\ pc[t] = "convert" /\ pc'[t] = "initialize" /\ saved'[t] = saved[t]
        /\ stack'[t] = Append(stack[t], InitializeFrame)
        /\ target'[t] = target[t] /\ ignored'[t] = ignored[t]
        /\ frames'[t] = frames[t]
    BY <1>0, <1>6 DEF ConvertFrame, Push, Goto, TypeOK
  <2>2. stack[t] = saved[t] \o Entered(t) /\ saved[t] # <<>>
    BY <1>0, <2>1 DEF Viewing, InCall, LibraryTop
  <2>3. stack'[t] = saved[t] \o Append(Entered(t), InitializeFrame)
    BY <1>0, <2>1, <2>2, EnteredFrames
  <2>4. Entered(t)' = Entered(t)
    BY <2>1 DEF Entered
  <2>5. QED
    BY <1>0, <2>1, <2>2, <2>3, <2>4 DEF Viewing, LibraryTop
<1>7. CASE StoreLocation(t)
  <2>1. /\ pc[t] = "initialize" /\ pc'[t] = "convert" /\ saved'[t] = saved[t]
        /\ stack'[t] = Front(stack[t])
        /\ target'[t] = target[t] /\ ignored'[t] = ignored[t]
        /\ frames'[t] = frames[t]
    BY <1>0, <1>7 DEF StoreLocation, Pop, Goto, TypeOK
  <2>2. /\ stack[t] = saved[t] \o Append(Entered(t), InitializeFrame)
        /\ saved[t] # <<>>
    BY <1>0, <2>1 DEF Viewing, InCall, LibraryTop
  <2>3. stack'[t] = saved[t] \o Entered(t)
    BY <1>0, <2>1, <2>2, EnteredFrames
  <2>4. Entered(t)' = Entered(t)
    BY <2>1 DEF Entered
  <2>5. QED
    BY <1>0, <2>1, <2>2, <2>3, <2>4 DEF Viewing, LibraryTop
<1>8. CASE EndConvert(t)
  <2>1. /\ pc[t] = "convert" /\ pc'[t] = "return" /\ index[t] = 0
        /\ UNCHANGED callVars /\ stack'[t] = Front(stack[t])
    BY <1>0, <1>8 DEF EndConvert, Pop, Goto, TypeOK
  <2>2. stack[t] = saved[t] \o Entered(t) /\ saved[t] # <<>>
    BY <1>0, <2>1 DEF Viewing, InCall, LibraryTop
  <2>3. stack'[t] = saved[t] \o Front(Entered(t))
    BY <1>0, <2>1, <2>2, EnteredFrames
  <2>4. Entered(t)' = Entered(t)
    BY <2>1 DEF Entered, callVars
  <2>5. locs[t] = Locate(frames[t]) /\ Locate(frames[t]) \in Seq(Location)
    BY <1>0, <2>1, AllLocated, LocateType DEF ThreadInv
  <2>6. QED
    BY <1>0, <2>1, <2>2, <2>3, <2>4, <2>5 DEF Viewing, LibraryTop, callVars
<1>9. CASE Return(t)
  BY <1>0, <1>9, OutsideViews DEF Return, LeaveCall, Forget, TypeOK
<1>10. QED
  BY <1>1, <1>2, <1>3, <1>4, <1>5, <1>6, <1>7, <1>8, <1>9 DEF LibraryStep

(* On the way back, only the entry point of backtrace_locations has left   *)
(* the stack already.                                                      *)
LEMMA OwnStackIsLegacy ==
  ASSUME TypeOK, NEW t \in Threads, Viewing(t), pc[t] = "return"
  PROVE  stack[t] = saved[t] <=> ignored[t] # 3
<1>1. stack[t] = saved[t] \o Front(Entered(t)) /\ saved[t] \in Seq(Frame)
  BY DEF Viewing, InCall, LibraryTop, TypeOK
<1>2. CASE ignored[t] # 3
  <2>1. Front(Entered(t)) = <<>>
    BY <1>2 DEF Entered, Front
  <2>2. QED
    BY <1>1, <1>2, <2>1
<1>3. CASE ignored[t] = 3
  <2>0. /\ CallerLocationsFrame \in Frame /\ PrimitiveCallerLocationsFrame \in Frame
        /\ <<CallerLocationsFrame>> \in Seq(Frame)
        /\ Entered(t) = Append(<<CallerLocationsFrame>>, PrimitiveCallerLocationsFrame)
    BY <1>3, CollectorAssumption DEF Entered, LibraryFrames
  <2> DEFINE x == <<CallerLocationsFrame>>
  <2>3. x \in Seq(Frame) /\ Len(x) = 1
        /\ Entered(t) = Append(x, PrimitiveCallerLocationsFrame)
    BY <2>0
  <2> HIDE DEF x
  <2>1. Front(Entered(t)) = x
    BY <2>0, <2>3, FrontOfAppend
  <2>2. Len(stack[t]) = Len(saved[t]) + 1 /\ Len(saved[t]) \in Nat
    <3>1. \A u, v \in Seq(Frame) : Len(u \o v) = Len(u) + Len(v) /\ Len(u) \in Nat
      OBVIOUS
    <3>2. stack[t] = saved[t] \o x
      BY <1>1, <2>1, Zenon
    <3>3. QED
      BY <1>1, <2>3, <3>1, <3>2
  <2>4. QED
    BY <1>3, <2>2
<1>4. QED
  BY <1>2, <1>3

-----------------------------------------------------------------------------
(* Theorems *)

LEMMA InitViews == Init => VInv
<1>1. Init => \A t \in Threads : Viewing(t)
  BY DEF Init, Viewing, InCall
<1>2. QED
  BY <1>1, InitImplements DEF VInv

(* The frames of the library on a stack are known at every step of a call, *)
(* for no other thread can touch them.                                     *)
THEOREM ViewInvariance == Spec => []VInv
<1>1. VInv /\ IInv' /\ [Next]_vars => VInv'
  <2> SUFFICES ASSUME VInv, IInv', [Next]_vars PROVE VInv'
    OBVIOUS
  <2>0. AInv /\ TypeOK
    BY DEF VInv, AInv, IInv
  <2>1. ASSUME NEW t \in Threads, LibraryStep(t) \/ ProgramStep(t)
        PROVE  VInv'
    <3>1. AInv'
      BY <2>0, <2>1, StepImplements
    <3>2. \A u \in Threads : Viewing(u)'
      BY <2>0, <2>1, LibraryStepViews, ProgramStepViews, OthersView DEF VInv
    <3>3. QED
      BY <3>1, <3>2 DEF VInv
  <2>2. CASE \/ UNCHANGED vars
             \/ \E t \in Threads : Switch(t)
    <3>1. UNCHANGED <<status, stack, pc, callVars>>
      BY <2>2 DEF vars, Switch
    <3>2. AInv'
      BY <2>0, <3>1, StutterImplements
    <3>3. \A u \in Threads : Viewing(u)'
      BY <3>1 DEF VInv, Viewing, InCall, LibraryTop, Entered, callVars
    <3>4. QED
      BY <3>2, <3>3 DEF VInv
  <2>3. QED
    BY <2>1, <2>2 DEF Next
<1>2. QED
  BY <1>1, InitViews, Invariance, PTL DEF Spec

(* When caller_locations returns an array, it is the backtrace of the      *)
(* stack it was called from, without its caller's own frame.               *)
THEOREM CallersView == Spec => []CallerLocationsIsCallersView
<1>1. VInv => CallerLocationsIsCallersView
  <2> SUFFICES ASSUME VInv, NEW t \in Threads,
                      pc[t] = "return", stack[t] # saved[t], locs[t] # NULL
               PROVE  IsBacktrace(locs[t], saved[t], 1)
    BY DEF CallerLocationsIsCallersView
  <2>1. Viewing(t) /\ saved[t] \in Seq(Frame) /\ saved[t] # <<>>
    BY DEF VInv, AInv, IInv, TypeOK, Viewing, InCall
  <2>2. ignored[t] = 3
    BY <2>1, OwnStackIsLegacy DEF VInv, AInv, IInv
  <2>3. /\ CallerLocationsFrame \in Frame /\ PrimitiveCallerLocationsFrame \in Frame
        /\ Entered(t) = <<CallerLocationsFrame, PrimitiveCallerLocationsFrame>>
    BY <2>2, CollectorAssumption DEF LibraryFrames, Entered
  <2>4. IsBacktrace(locs[t], saved[t] \o Entered(t), 3)
    BY <2>1, <2>2 DEF Viewing
  <2>5. IsBacktrace(locs[t],
          saved[t] \o <<CallerLocationsFrame, PrimitiveCallerLocationsFrame>>, 1 + 2)
    BY <2>3, <2>4
  <2>6. QED
    BY <2>1, <2>3, <2>5, BacktraceShifts
<1>2. QED
  BY <1>1, ViewInvariance, PTL

-----------------------------------------------------------------------------
(* caller_locations for older Rubies, which slices the answer               *)

(* Without its first entry, a backtrace is that of the frames below.       *)
LEMMA BacktraceWithoutFirst ==
  ASSUME NEW S, NEW value \in Seq(S), NEW s, NEW k \in Nat, FrameCount(s) \in Nat,
         IsBacktrace(value, s, k), Shown(s, k, FrameCount(s)) # {}
  PROVE  /\ value # <<>>
         /\ IsBacktrace(Tail(value), s, Min(Shown(s, k, FrameCount(s))) + 1)
<1> DEFINE n == FrameCount(s)
           A == Shown(s, k, n)
           m == Min(A)
           B == Shown(s, m + 1, n)
<1>0. A \in SUBSET Nat
  BY DEF Shown
<1>1. A \in SUBSET Nat /\ IsFiniteSet(A) /\ A # {}
  BY <1>0, ShownFinite
<1>2. m \in A /\ m \in Nat /\ \A j \in A : m <= j
  BY <1>1, MinOfNaturals
<1> HIDE DEF m
<1>3. B = A \ {m}
  BY <1>2 DEF Shown
<1>4. /\ Cardinality(A) \in Nat \ {0} /\ Cardinality(B) = Cardinality(A) - 1
      /\ Len(value) = Cardinality(A)
  <2>1. Cardinality(B) = Cardinality(A) - 1 /\ Cardinality(A) \in Nat
    BY <1>1, <1>2, <1>3, FS_RemoveElement, FS_CardinalityType
  <2>2. Cardinality(A) # 0
    BY <1>1, FS_EmptySet
  <2>3. QED
    BY <2>1, <2>2 DEF IsBacktrace
<1>5. ASSUME NEW j \in B
      PROVE  /\ Rank(s, m + 1, n, j) \in 1 .. Cardinality(B)
             /\ Rank(s, k, n, j) = Rank(s, m + 1, n, j) + 1
  <2> DEFINE U == {i \in A : i <= j}
             V == {i \in B : i <= j}
  <2>1. IsFiniteSet(U) /\ m \in U /\ V = U \ {m}
    <3>1. IsFiniteSet(U)
      BY <1>1, FS_Subset
    <3>2. QED
      BY <1>2, <1>3, <3>1
  <2> HIDE DEF U, V
  <2>2. Cardinality(V) = Cardinality(U) - 1
    BY <2>1, FS_RemoveElement
  <2>5. Cardinality(U) \in Nat
    BY <2>1, FS_CardinalityType
  <2>3. Rank(s, m + 1, n, j) \in 1 .. Cardinality(B)
    BY <1>2, RankType
  <2>6. Rank(s, k, n, j) = Cardinality(U) /\ Rank(s, m + 1, n, j) = Cardinality(V)
    BY DEF Rank, U, V
  <2>4. QED
    BY <2>2, <2>3, <2>5, <2>6
<1>6. /\ value # <<>> /\ Len(Tail(value)) = Cardinality(B)
      /\ \A r \in 1 .. Cardinality(B) : Tail(value)[r] = value[r + 1]
  BY <1>4
<1>7. ASSUME NEW j \in B
      PROVE  Tail(value)[Rank(s, m + 1, n, j)] = LocationAt(s, j)
  <2>1. value[Rank(s, k, n, j)] = LocationAt(s, j)
    BY <1>3 DEF IsBacktrace
  <2>2. QED
    BY <1>5, <1>6, <2>1
<1>8. IsBacktrace(Tail(value), s, m + 1)
  BY <1>6, <1>7 DEF IsBacktrace
<1>9. QED
  BY <1>6, <1>8 DEF m

(* Slice takes three of them off. *)
LEMMA SliceIsTails ==
  ASSUME NEW S, NEW v \in Seq(S)
  PROVE  /\ Len(v) >= 3 =>
              /\ Slice(v) = Tail(Tail(Tail(v))) /\ Slice(v) \in Seq(S)
         /\ Len(v) < 3 => Slice(v) = NULL
<1>1. ASSUME Len(v) >= 3
      PROVE  Slice(v) = Tail(Tail(Tail(v))) /\ Slice(v) \in Seq(S)
  <2> DEFINE a == Tail(v)
             b == Tail(a)
             c == Tail(b)
             w == SubSeq(v, 4, Len(v))
  <2>1. a \in Seq(S) /\ Len(a) = Len(v) - 1 /\ \A i \in 1 .. Len(v) - 1 : a[i] = v[i + 1]
    BY <1>1
  <2>2. b \in Seq(S) /\ Len(b) = Len(v) - 2 /\ \A i \in 1 .. Len(v) - 2 : b[i] = v[i + 2]
    <3> HIDE DEF a
    <3>1. \A i \in 1 .. Len(a) - 1 : b[i] = a[i + 1]
      BY <1>1, <2>1
    <3>2. QED
      BY <1>1, <2>1, <3>1
  <2>3. c \in Seq(S) /\ Len(c) = Len(v) - 3 /\ \A i \in 1 .. Len(v) - 3 : c[i] = v[i + 3]
    <3> HIDE DEF b
    <3>1. \A i \in 1 .. Len(b) - 1 : c[i] = b[i + 1]
      BY <1>1, <2>2
    <3>2. QED
      BY <1>1, <2>2, <3>1
  <2>4. w \in Seq(S) /\ Len(w) = Len(v) - 3 /\ \A i \in 1 .. Len(v) - 3 : w[i] = v[i + 3]
    <3>1. w = [i \in 1 .. Len(v) - 3 |-> v[i + 3]]
      BY <1>1
    <3>2. \A i \in 1 .. Len(v) - 3 : v[i + 3] \in S
      BY <1>1
    <3>3. Len(v) - 3 \in Nat
      BY <1>1
    <3> HIDE DEF w
    <3>4. w \in Seq(S)
      BY <3>1, <3>2, <3>3
    <3>5. QED
      BY <3>1, <3>3
  <2> HIDE DEF c, w
  <2>5. w = c
    BY <2>3, <2>4
  <2>6. Slice(v) = w
    BY <1>1 DEF Slice, w
  <2>7. QED
    BY <2>4, <2>5, <2>6 DEF c
<1>2. QED
  BY <1>1 DEF Slice

(* A Ruby frame above the bottom has a next instruction. *)
Started(s) == \A n \in 2 .. Len(s) : s[n].ruby => s[n].pc # NULL

HasStarted(t) ==
  /\ pc[t] = "program" => Started(stack[t])
  /\ InCall(t) => Started(saved[t])

LInv == VInv /\ \A t \in Threads : HasStarted(t)

LEMMA ProgramStepStarts ==
  ASSUME TypeOK, NEW t \in Threads, HasStarted(t), ProgramStep(t)
  PROVE  HasStarted(t)'
<1> DEFINE s == stack[t]
           z == stack'[t]
<1>0. s \in Seq(Frame) /\ Len(s) \in Nat
  BY DEF TypeOK
<1>1. ASSUME pc[t] = "program", pc'[t] = "program", Started(z) PROVE HasStarted(t)'
  BY <1>1 DEF HasStarted, InCall, Started
<1>2. CASE Start(t)
  <2>1. z = Append(s, BottomFrame) /\ s = <<>> /\ pc[t] = "program" /\ pc'[t] = "program"
    BY <1>2 DEF Start, Push, TypeOK
  <2>2. Len(z) = 1
    BY <2>1
  <2>3. QED
    BY <1>1, <2>1, <2>2 DEF Started
<1>3. ASSUME NEW f \in AppFrames, Call(t, f) PROVE HasStarted(t)'
  <2>1. z = Append(s, f) /\ pc[t] = "program" /\ pc'[t] = "program"
    BY <1>3 DEF Call, Push, TypeOK, InProgram
  <2>2. Started(s)
    BY <2>1 DEF HasStarted
  <2> DEFINE w == Append(s, f)
  <2>3. Len(w) = Len(s) + 1 /\ w[Len(s) + 1] = f /\ \A n \in 1 .. Len(s) : w[n] = s[n]
    BY <1>0
  <2> HIDE DEF w, s
  <2>4. Started(w)
    BY <1>0, <2>2, <2>3, LegacyAssumption DEF Started
  <2>5. QED
    BY <1>1, <2>1, <2>4 DEF w
<1>4. CASE LeaveMethod(t)
  <2>1. z = Front(s) /\ pc[t] = "program" /\ pc'[t] = "program" /\ Len(s) > 1
    BY <1>4 DEF LeaveMethod, Pop, TypeOK, InProgram
  <2>2. Started(s)
    BY <2>1 DEF HasStarted
  <2> HIDE DEF s
  <2>3. Len(Front(s)) = Len(s) - 1 /\ \A n \in 1 .. Len(s) - 1 : Front(s)[n] = s[n]
    BY <1>0, <2>1 DEF Front
  <2>4. Started(Front(s))
    BY <1>0, <2>2, <2>3 DEF Started
  <2>5. QED
    BY <1>1, <2>1, <2>4
<1>5. CASE Advance(t)
  <2> DEFINE l == Len(s)
  <2>1. /\ pc[t] = "program" /\ pc'[t] = "program" /\ s # <<>>
        /\ z = [s EXCEPT ![l].pc = @ + 1] /\ s[l].pc \in Nat
    <3>1. Last(s) \in Frame /\ Last(s) = s[l]
      BY <1>0, <1>5, LastType DEF Advance, InProgram
    <3>2. QED
      BY <1>5, <3>1 DEF Advance, TypeOK, InProgram, Frame
  <2>2. Started(s)
    BY <2>1 DEF HasStarted
  <2> HIDE DEF s, z
  <2>3. Len(z) = Len(s) /\ \A n \in 1 .. Len(s) : n # l => z[n] = s[n]
    BY <1>0, <2>1
  <2>4. l \in 1 .. Len(s) /\ s[l] \in Frame
    BY <1>0, <2>1
  <2>5. z[l].pc = s[l].pc + 1
    BY <1>0, <2>1, <2>4 DEF Frame
  <2>6. z[l].pc # NULL
    BY <2>1, <2>5, VMAssumption
  <2>7. Started(z)
    BY <1>0, <2>2, <2>3, <2>6 DEF Started
  <2>8. QED
    BY <1>1, <2>1, <2>7
<1>6. CASE Terminate(t)
  <2>1. z = <<>> /\ pc[t] = "program" /\ pc'[t] = "program"
    BY <1>6 DEF Terminate, TypeOK, InProgram
  <2>2. QED
    BY <1>1, <2>1 DEF Started
<1>7. CASE Interrupt(t)
  BY <1>7 DEF Interrupt, LeaveCall, Forget, TypeOK, HasStarted, InCall, Started, callVars
<1>8. ASSUME NEW u \in Threads \cup {NotThread}, BacktraceLocations(t, u)
      PROVE  HasStarted(t)'
  BY <1>8 DEF BacktraceLocations, InProgram, Goto, TypeOK, HasStarted, Started
<1>9. CASE CallerLocations(t)
  BY <1>9 DEF CallerLocations, InProgram, Goto, TypeOK, HasStarted, Started
<1>10. QED
  BY <1>2, <1>3, <1>4, <1>5, <1>6, <1>7, <1>8, <1>9 DEF ProgramStep

LEMMA LibraryStepStarts ==
  ASSUME TypeOK, NEW t \in Threads, HasStarted(t), LibraryStep(t)
  PROVE  HasStarted(t)'
<1>1. ASSUME LeaveCall(t), InCall(t) PROVE HasStarted(t)'
  BY <1>1 DEF LeaveCall, Forget, TypeOK, HasStarted, InCall, Started
<1>2. ASSUME InCall(t), pc'[t] # "program", saved'[t] = saved[t] PROVE HasStarted(t)'
  BY <1>2 DEF HasStarted, Started
<1>3. CASE EnsureObjectIsThread(t)
  BY <1>1, <1>2, <1>3 DEF EnsureObjectIsThread, InCall, Goto, TypeOK, callVars
<1>4. CASE PrimitiveCallerLocations(t) \/ CheckAlive(t) \/ CountFrames(t)
  BY <1>2, <1>4 DEF PrimitiveCallerLocations, CheckAlive, CountFrames, InCall, Goto, TypeOK
<1>5. CASE CaptureFrame(t)
  BY <1>2, <1>5 DEF CaptureFrame, CaptureInto, InCall, Goto, TypeOK
<1>6. CASE EndCapture(t) \/ ConvertFrame(t) \/ StoreLocation(t) \/ EndConvert(t)
  BY <1>2, <1>6 DEF EndCapture, ConvertFrame, StoreLocation, EndConvert, InCall, Goto,
     TypeOK, callVars
<1>7. CASE Return(t)
  BY <1>1, <1>7 DEF Return, InCall
<1>8. QED
  BY <1>3, <1>4, <1>5, <1>6, <1>7 DEF LibraryStep

LEMMA LegacyInvariance == Spec => []LInv
<1>1. Init => \A t \in Threads : HasStarted(t)
  BY DEF Init, HasStarted, InCall, Started
<1>2. /\ VInv /\ VInv' /\ [Next]_vars /\ \A t \in Threads : HasStarted(t)
      => (\A t \in Threads : HasStarted(t))'
  <2> SUFFICES ASSUME VInv, [Next]_vars, \A t \in Threads : HasStarted(t)
               PROVE  \A u \in Threads : HasStarted(u)'
    OBVIOUS
  <2>0. TypeOK
    BY DEF VInv, AInv, IInv
  <2>1. ASSUME NEW u \in Threads, stack'[u] = stack[u], saved'[u] = saved[u], pc'[u] = pc[u]
        PROVE  HasStarted(u)'
    BY <2>1 DEF HasStarted, InCall, Started
  <2>2. ASSUME NEW t \in Threads, LibraryStep(t) \/ ProgramStep(t), NEW u \in Threads
        PROVE  HasStarted(u)'
    <3>1. CASE u = t
      BY <2>0, <2>2, <3>1, LibraryStepStarts, ProgramStepStarts
    <3>2. CASE u # t
      BY <2>0, <2>1, <2>2, <3>2, StepIsLocal, OtherStacks DEF CallUnchanged
    <3>3. QED
      BY <3>1, <3>2
  <2>3. CASE UNCHANGED vars \/ \E t \in Threads : Switch(t)
    BY <2>1, <2>3 DEF vars, Switch, callVars
  <2>4. QED
    BY <2>2, <2>3 DEF Next
<1>3. QED
  BY <1>1, <1>2, ViewInvariance, PTL DEF Spec, LInv

(* The caller's stack, caller_locations' own frame on it, and the entry    *)
(* point of backtrace_locations: the first two entries are the latter two. *)
LEMMA SliceSkips ==
  ASSUME NEW s \in Seq(Frame), Len(s) > 1, Last(s).ruby, Started(s),
         NEW value \in Seq(Location), IsBacktrace(value, s \o <<BacktraceLocationsFrame>>, 0)
  PROVE  LET shown == Shown(Front(s), 0, FrameCount(Front(s)))
         IN  IF shown = {} THEN Slice(value) = NULL
             ELSE Slice(value) # NULL /\ IsBacktrace(Slice(value), Front(s), Min(shown) + 1)
<1> DEFINE c == Front(s)
           a == Last(s)
           b == BacktraceLocationsFrame
           z == c \o <<a, b>>
           n == FrameCount(z)
           shown == Shown(c, 0, FrameCount(c))
<1>1. /\ c \in Seq(Frame) /\ Len(c) = Len(s) - 1 /\ a \in Frame /\ b \in Frame
      /\ a = s[Len(s)] /\ s = Append(c, a)
  BY LastType, CollectorAssumption DEF Front, LibraryFrames
<1>2. s \o <<b>> = z
  <2>1. Append(c, a) \o <<b>> = c \o <<a, b>>
    BY <1>1
  <2>2. QED
    BY <1>1, <2>1
<1>3. IsValid(a) /\ IsValid(b)
  <2>1. a.pc # NULL
    BY <1>1 DEF Started
  <2>2. QED
    BY <2>1, LegacyAssumption DEF IsValid
<1>4. /\ Len(z) = Len(c) + 2 /\ z[Len(c) + 2] = b /\ z[Len(c) + 1] = a
      /\ Len(c) \in Nat /\ c # <<>>
  BY <1>1
<1> HIDE DEF a, b, c, z
<1>5. /\ n = Len(c) + 1 /\ FrameAt(z, 0) = b /\ FrameAt(z, 1) = a /\ n \in Nat /\ n > 1
  <2>1. Len(c) > 0
    BY <1>1, <1>4
  <2>2. ~ (Len(z) < 2)
    BY <1>4
  <2>3. n = Len(z) - 1
    BY <2>2 DEF FrameCount
  <2>4. FrameAt(z, 0) = z[Len(z)] /\ FrameAt(z, 1) = z[Len(z) - 1]
    BY <1>4 DEF FrameAt
  <2>5. QED
    BY <1>4, <2>1, <2>3, <2>4
<1>6. value # <<>> /\ IsBacktrace(Tail(value), z, 1)
  <2>1. IsBacktrace(value, z, 0)
    BY <1>2 DEF b
  <2>2. /\ 0 \in Shown(z, 0, n) /\ Shown(z, 0, n) \in SUBSET Nat
        /\ \A j \in Shown(z, 0, n) : 0 <= j
    BY <1>3, <1>5 DEF Shown
  <2>3. Min(Shown(z, 0, n)) = 0
    BY <2>2, MinIsUnique
  <2>4. QED
    BY <1>5, <2>1, <2>2, <2>3, BacktraceWithoutFirst
<1> DEFINE v == Tail(value)
           w == Tail(v)
<1>7. v \in Seq(Location) /\ Len(v) = Len(value) - 1 /\ Len(value) \in Nat
  BY <1>6
<1> HIDE DEF v
<1>8. v # <<>> /\ IsBacktrace(w, z, 2)
  <2>2. /\ 1 \in Shown(z, 1, n) /\ Shown(z, 1, n) \in SUBSET Nat
        /\ \A j \in Shown(z, 1, n) : 1 <= j
    BY <1>3, <1>5 DEF Shown
  <2>3. Min(Shown(z, 1, n)) = 1
    BY <2>2, MinIsUnique
  <2>4. IsBacktrace(Tail(v), z, Min(Shown(z, 1, n)) + 1) /\ v # <<>>
    BY <1>5, <1>6, <1>7, <2>2, BacktraceWithoutFirst DEF v
  <2>5. QED
    BY <2>3, <2>4
<1>9. w \in Seq(Location) /\ Len(w) = Len(value) - 2
  BY <1>7, <1>8
<1> HIDE DEF w
<1>10. IsBacktrace(w, c, 0)
  <2>1. IsBacktrace(w, c \o <<a, b>>, 0 + 2)
    BY <1>8 DEF z
  <2>2. QED
    BY <1>1, <1>4, <2>1, BacktraceShifts
<1>11. Len(w) = Cardinality(shown)
  BY <1>10 DEF IsBacktrace
<1>12. CASE shown = {}
  <2>1. Len(w) = 0
    BY <1>11, <1>12, FS_EmptySet
  <2>2. Slice(value) = NULL
    BY <1>7, <1>9, <2>1, SliceIsTails
  <2>3. QED
    BY <1>12, <2>2 DEF c
<1>13. CASE shown # {}
  <2>1. FrameCount(c) \in Nat
    BY <1>4 DEF FrameCount
  <2>2. w # <<>> /\ IsBacktrace(Tail(w), c, Min(shown) + 1)
    BY <1>9, <1>10, <1>13, <2>1, BacktraceWithoutFirst
  <2>3. Len(value) >= 3
    BY <1>7, <1>9, <2>2
  <2>4. Slice(value) = Tail(w) /\ Slice(value) \in Seq(Location)
    BY <2>3, SliceIsTails DEF v, w
  <2>5. Slice(value) # NULL
    BY <2>4, CollectorAssumption, Zenon
  <2>6. QED
    BY <1>13, <2>2, <2>4, <2>5 DEF c
<1>14. QED
  BY <1>12, <1>13

(* On Ruby before 2.5 the slice takes the two frames of the library and    *)
(* the first that backtraces show of the caller's stack.                   *)
THEOREM LegacyCallersView == Spec => []LegacySkipsToShownCaller
<1>1. LInv => LegacySkipsToShownCaller
  <2> SUFFICES ASSUME LInv, NEW t \in Threads, Sliced(t)
               PROVE  LET caller == Front(saved[t])
                          shown  == Shown(caller, 0, FrameCount(caller))
                          value  == Slice(locs[t])
                      IN  IF shown = {} THEN value = NULL
                          ELSE value # NULL /\ IsBacktrace(value, caller, Min(shown) + 1)
    BY DEF LegacySkipsToShownCaller
  <2>1. /\ TypeOK /\ Viewing(t) /\ HasStarted(t) /\ saved[t] \in Seq(Frame)
        /\ pc[t] = "return" /\ target[t] = t /\ stack[t] = saved[t] /\ locs[t] # NULL
        /\ Last(saved[t]).ruby /\ Len(saved[t]) > 1
    BY DEF LInv, VInv, AInv, IInv, TypeOK, Sliced
  <2>2. ignored[t] = 0
    BY <2>1, OwnStackIsLegacy DEF TypeOK
  <2>3. Entered(t) = <<BacktraceLocationsFrame>>
    BY <2>2 DEF Entered
  <2>4. locs[t] \in Seq(Location) /\ IsBacktrace(locs[t], saved[t] \o Entered(t), 0)
    BY <2>1, <2>2 DEF Viewing
  <2>5. Started(saved[t])
    BY <2>1 DEF HasStarted, InCall
  <2>6. QED
    BY <2>1, <2>3, <2>4, <2>5, SliceSkips
<1>2. QED
  BY <1>1, LegacyInvariance, PTL
=============================================================================
