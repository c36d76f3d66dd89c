--------------------------- MODULE CollectorProofs ---------------------------
(***************************************************************************)
(* The safety of Collector for any threads, frames and depth: its type     *)
(* invariant, that capture_frame's assertion never fails, and that the     *)
(* frames being captured are those of the subject's present stack.         *)
(***************************************************************************)
EXTENDS Collector, TLAPS, FiniteSetTheorems

(* Only the thread that holds the GVL is inside the C code. *)
Atomic(t) == pc[t] # "crash" /\ (AtSafepoint(t) \/ gvl = t)

(* target stays NULL until an argument is known, is a thread once          *)
(* ensure_object_is_thread passed, and from the check on one that lives.   *)
HasTarget(t) ==
  /\ pc[t] \in {"program", "wrapper"} => target[t] = NULL
  /\ pc[t] = "alive" => target[t] # NotThread
  /\ pc[t] \in {"count", "capture"} =>
       target[t] \in Threads /\ Alive(target[t])

(* The loop that captures frames: the count is still right, and what it    *)
(* kept so far is right.                                                   *)
Captured(t) ==
  IsCapture(frames[t], stack[target[t]], ignored[t],
            IF index[t] <= count[t] THEN index[t] ELSE count[t])

Capturing(t) ==
  pc[t] = "capture" =>
    /\ count[t] = FrameCount(stack[target[t]])
    /\ ignored[t] <= index[t]
    /\ Captured(t)

(* The loop that makes locations: its index and the Ruby frame it saw last *)
(* are places in the frames, and the array has one place for each.         *)
Converting(t) ==
  /\ pc[t] \in {"convert", "initialize"} =>
       /\ index[t] <= Len(frames[t])
       /\ \/ prev[t] = 0
          \/ prev[t] \in 1 .. Len(frames[t]) /\ frames[t][prev[t]].ruby
       /\ locs[t] \in Seq(Location \cup {NULL}) /\ Len(locs[t]) = Len(frames[t])
  /\ pc[t] = "initialize" => index[t] # 0

ThreadInv(t) == Atomic(t) /\ HasTarget(t) /\ Capturing(t) /\ Converting(t)

IInv == TypeOK /\ \A t \in Threads : ThreadInv(t)

-----------------------------------------------------------------------------
(* The operators. *)

LEMMA FrontType ==
  ASSUME NEW S, NEW s \in Seq(S)
  PROVE  Front(s) \in Seq(S)
BY DEF Front

LEMMA LastType ==
  ASSUME NEW S, NEW s \in Seq(S), s # <<>>
  PROVE  Last(s) \in S /\ Len(s) \in 1 .. Len(s) /\ Last(s) = s[Len(s)]
BY DEF Last

(* What is captured of a frame that belongs in a backtrace has a line. *)
LEMMA CaptureType ==
  ASSUME NEW f \in Frame, IsValid(f)
  PROVE  Capture(f) \in RawLocation
<1>1. Capture(f).self \in Objects
  BY VMAssumption DEF Capture, Frame
<1>2. KeepsSelf(f.self) \in BOOLEAN
  BY DEF KeepsSelf
<1>3. f.ruby => /\ f.iseq # NULL /\ f.pc # NULL
                /\ LineTable[f.iseq] # <<>> /\ f.pc <= Len(LineTable[f.iseq])
  BY DEF Frame, IsValid
<1>4. /\ f.ruby \in BOOLEAN /\ f.iseq \in Iseqs \cup {NULL}
      /\ f.pc \in Nat \cup {NULL} /\ f.cme \in Cmes \cup {NULL}
  BY DEF Frame
<1>5. QED
  BY <1>1, <1>2, <1>3, <1>4 DEF Capture, RawLocation

LEMMA LineNumberType ==
  ASSUME NEW raw \in RawLocation, raw.ruby
  PROVE  LineNumber(raw) \in Nat
<1>1. /\ raw.pc \in Nat /\ raw.pc # NULL
      /\ LineTable[raw.iseq] \in Seq(Nat) /\ LineTable[raw.iseq] # <<>>
      /\ raw.pc <= Len(LineTable[raw.iseq])
  BY VMAssumption DEF RawLocation
<1>2. QED
  BY <1>1 DEF LineNumber

LEMMA ToLocationType ==
  ASSUME NEW raws \in Seq(RawLocation), NEW n \in 1 .. Len(raws),
         NEW p \in Nat, p = 0 \/ (p \in 1 .. Len(raws) /\ raws[p].ruby)
  PROVE  ToLocation(raws, n, p) \in Location
<1>1. raws[n] \in RawLocation
  OBVIOUS
<1>2. CASE p = 0
  BY <1>1, <1>2 DEF ToLocation, Location
<1>3. CASE p # 0
  <2>1. raws[p] \in RawLocation /\ raws[p].ruby
    BY <1>3
  <2>2. LineNumber(raws[p]) \in Nat /\ raws[p].iseq \in Iseqs \cup {NULL}
    BY <2>1, LineNumberType DEF RawLocation
  <2>3. QED
    BY <1>1, <1>3, <2>2 DEF ToLocation, Location
<1>4. QED
  BY <1>2, <1>3

-----------------------------------------------------------------------------
(* Types *)

LEMMA InitInv == Init => IInv
<1> SUFFICES ASSUME Init PROVE IInv
  OBVIOUS
<1>1. TypeOK
  BY CollectorAssumption
  DEF Init, TypeOK, Statuses, Safepoints, LibraryFrames
<1>2. ASSUME NEW t \in Threads PROVE ThreadInv(t)
  BY DEF Init, ThreadInv, Atomic, AtSafepoint, Safepoints, HasTarget,
         Capturing, Converting
<1>3. QED
  BY <1>1, <1>2 DEF IInv

(* A call that is left restores a stack and clears its locals. *)
LEMMA LeaveCallType ==
  ASSUME TypeOK, NEW t \in Threads, LeaveCall(t),
         gvl' \in Threads, status' \in [Threads -> Statuses]
  PROVE  TypeOK'
<1>1. stack' \in [Threads -> Seq(Frame)]
  BY DEF TypeOK, LeaveCall
<1>2. pc' \in [Threads -> Safepoints \cup {"alive", "count", "capture",
                                           "convert", "crash"}]
  BY DEF TypeOK, LeaveCall, Safepoints
<1>3. saved' \in [Threads -> Seq(Frame)] /\ frames' \in [Threads -> Seq(RawLocation)]
  BY DEF TypeOK, LeaveCall, Forget
<1>4. /\ target' \in [Threads -> Threads \cup {NotThread, NULL}]
      /\ ignored' \in [Threads -> {0, 3}]
  BY DEF TypeOK, LeaveCall, Forget
<1>5. /\ count' \in [Threads -> Nat] /\ index' \in [Threads -> Nat]
      /\ prev' \in [Threads -> Nat]
  BY DEF TypeOK, LeaveCall, Forget
<1>6. locs' \in [Threads -> Seq(Location \cup {NULL}) \cup {NULL}]
  BY DEF TypeOK, LeaveCall, Forget
<1>7. QED
  BY <1>1, <1>2, <1>3, <1>4, <1>5, <1>6 DEF TypeOK

LEMMA ProgramTypeOK ==
  ASSUME TypeOK, NEW t \in Threads, ProgramStep(t) \/ Switch(t)
  PROVE  TypeOK'
<1> USE DEF callVars
<1>1. CASE Start(t)
  <2>1. stack' \in [Threads -> Seq(Frame)]
    BY <1>1, CollectorAssumption DEF Start, Push, TypeOK
  <2>2. QED
    BY <1>1, <2>1 DEF Start, TypeOK
<1>2. CASE LeaveMethod(t)
  <2>1. Front(stack[t]) \in Seq(Frame)
    BY FrontType DEF TypeOK
  <2>2. stack' \in [Threads -> Seq(Frame)]
    BY <1>2, <2>1 DEF LeaveMethod, Pop, TypeOK
  <2>3. QED
    BY <1>2, <2>2 DEF LeaveMethod, TypeOK
<1>3. CASE Advance(t)
  <2> DEFINE n == Len(stack[t])
             f == stack[t][n]
             g == [f EXCEPT !.pc = @ + 1]
  <2>1. /\ stack[t] \in Seq(Frame) /\ n \in 1 .. Len(stack[t]) /\ f \in Frame
        /\ f.ruby /\ f.pc # NULL /\ f.pc < Len(LineTable[f.iseq])
        /\ stack' = [stack EXCEPT ![t] = [@ EXCEPT ![n] = g]]
    BY <1>3, LastType DEF Advance, InProgram, TypeOK, Last
  <2>2. g \in Frame
    <3>1. f.iseq \in Iseqs /\ f.pc \in Nat /\ LineTable[f.iseq] \in Seq(Nat)
      BY <2>1, VMAssumption DEF Frame
    <3>2. f.pc + 1 \in Nat /\ f.pc + 1 <= Len(LineTable[f.iseq])
      BY <2>1, <3>1
    <3>3. g = [ruby |-> f.ruby, iseq |-> f.iseq, pc |-> f.pc + 1,
               cme |-> f.cme, self |-> f.self]
      <4>1. f \in [ruby : BOOLEAN, iseq : Iseqs \cup {NULL}, pc : Nat \cup {NULL},
                   cme : Cmes \cup {NULL}, self : Objects]
        BY <2>1 DEF Frame
      <4>2. QED
        BY <4>1
    <3>4. QED
      BY <2>1, <3>1, <3>2, <3>3 DEF Frame
  <2>3. [stack[t] EXCEPT ![n] = g] \in Seq(Frame)
    BY <2>1, <2>2
  <2>4. stack' \in [Threads -> Seq(Frame)]
    BY <2>1, <2>3 DEF TypeOK
  <2>5. QED
    BY <1>3, <2>4 DEF Advance, TypeOK
<1>4. CASE Terminate(t)
  <2>1. stack' \in [Threads -> Seq(Frame)]
    BY <1>4 DEF Terminate, TypeOK
  <2>2. gvl' \in Threads /\ status' \in [Threads -> Statuses]
    BY <1>4 DEF Terminate, TypeOK, Statuses
  <2>3. QED
    BY <1>4, <2>1, <2>2 DEF Terminate, TypeOK
<1>5. CASE Interrupt(t)
  <2>1. gvl' \in Threads /\ status' \in [Threads -> Statuses]
    BY <1>5 DEF Interrupt, TypeOK, Statuses
  <2>2. CASE InCall(t)
    BY <1>5, <2>1, <2>2, LeaveCallType DEF Interrupt
  <2>3. CASE ~ InCall(t)
    BY <1>5, <2>1, <2>3 DEF Interrupt, TypeOK
  <2>4. QED
    BY <2>2, <2>3
<1>6. ASSUME NEW f \in AppFrames, Call(t, f) PROVE TypeOK'
  <2>1. stack' \in [Threads -> Seq(Frame)]
    BY <1>6, CollectorAssumption DEF Call, Push, TypeOK
  <2>2. QED
    BY <1>6, <2>1 DEF Call, TypeOK
<1>7. ASSUME NEW u \in Threads \cup {NotThread}, BacktraceLocations(t, u)
      PROVE  TypeOK'
  <2>1. stack' \in [Threads -> Seq(Frame)] /\ saved' \in [Threads -> Seq(Frame)]
    <3>1. BacktraceLocationsFrame \in Frame /\ EnsureObjectIsThreadFrame \in Frame
      BY CollectorAssumption DEF LibraryFrames
    <3>2. stack[t] \o <<BacktraceLocationsFrame, EnsureObjectIsThreadFrame>>
            \in Seq(Frame)
      BY <3>1 DEF TypeOK
    <3>3. QED
      BY <1>7, <3>2 DEF BacktraceLocations, TypeOK
  <2>2. pc' \in [Threads -> Safepoints \cup {"alive", "count", "capture",
                                             "convert", "crash"}]
    BY <1>7 DEF BacktraceLocations, Goto, TypeOK, Safepoints
  <2>3. target' \in [Threads -> Threads \cup {NotThread, NULL}]
    BY <1>7 DEF BacktraceLocations, TypeOK
  <2>4. QED
    BY <1>7, <2>1, <2>2, <2>3 DEF BacktraceLocations, TypeOK
<1>8. CASE CallerLocations(t)
  <2>1. stack' \in [Threads -> Seq(Frame)] /\ saved' \in [Threads -> Seq(Frame)]
    BY <1>8, CollectorAssumption DEF CallerLocations, Push, LibraryFrames, TypeOK
  <2>2. pc' \in [Threads -> Safepoints \cup {"alive", "count", "capture",
                                             "convert", "crash"}]
    BY <1>8 DEF CallerLocations, Goto, TypeOK, Safepoints
  <2>3. QED
    BY <1>8, <2>1, <2>2 DEF CallerLocations, TypeOK
<1>9. CASE Switch(t)
  BY <1>9 DEF Switch, TypeOK
<1>10. QED
  BY <1>1, <1>2, <1>3, <1>4, <1>5, <1>6, <1>7, <1>8, <1>9 DEF ProgramStep

LEMMA LibraryTypeOK ==
  ASSUME IInv, NEW t \in Threads, LibraryStep(t)
  PROVE  TypeOK'
<1> USE DEF callVars
<1> DEFINE Pcs == Safepoints \cup {"alive", "count", "capture", "convert", "crash"}
           Stacks == [Threads -> Seq(Frame)]
<1>0. /\ TypeOK /\ ThreadInv(t)
      /\ LibraryFrames \subseteq Frame
      /\ Front(stack[t]) \in Seq(Frame)
      /\ \A step \in Pcs : Goto(t, step) => pc' \in [Threads -> Pcs]
  <2>1. TypeOK /\ ThreadInv(t)
    BY DEF IInv
  <2>2. \A step \in Pcs : Goto(t, step) => pc' \in [Threads -> Pcs]
    BY <2>1 DEF Goto, TypeOK
  <2>3. QED
    BY <2>1, <2>2, FrontType, CollectorAssumption DEF TypeOK
<1>0a. Pop(t) => stack' \in Stacks
  BY <1>0 DEF Pop, TypeOK
<1>0b. ASSUME NEW f \in LibraryFrames, Push(t, f) PROVE stack' \in Stacks
  <2>1. Append(stack[t], f) \in Seq(Frame)
    BY <1>0 DEF TypeOK
  <2>2. QED
    BY <1>0, <1>0b, <2>1 DEF Push, TypeOK
<1>1. CASE EnsureObjectIsThread(t)
  <2>1. CASE target[t] = NotThread
    BY <1>0, <1>1, <2>1, LeaveCallType DEF EnsureObjectIsThread, TypeOK
  <2>2. CASE target[t] # NotThread
    <3>1. pc' \in [Threads -> Pcs] /\ stack' \in Stacks
      BY <1>0, <1>0a, <1>1, <2>2 DEF EnsureObjectIsThread
    <3>2. QED
      BY <1>0, <1>1, <2>2, <3>1 DEF EnsureObjectIsThread, TypeOK
  <2>3. QED
    BY <2>1, <2>2
<1>2. CASE PrimitiveCallerLocations(t)
  <2>1. pc' \in [Threads -> Pcs] /\ stack' \in Stacks
    BY <1>0, <1>0b, <1>2 DEF PrimitiveCallerLocations, LibraryFrames
  <2>2. ignored' \in [Threads -> {0, 3}]
    BY <1>0, <1>2 DEF PrimitiveCallerLocations, TypeOK
  <2>3. QED
    BY <1>0, <1>2, <2>1, <2>2 DEF PrimitiveCallerLocations, TypeOK
<1>3. CASE CheckAlive(t)
  <2>1. pc' \in [Threads -> Pcs] /\ stack' \in Stacks
    BY <1>0, <1>0a, <1>3 DEF CheckAlive, Safepoints, TypeOK
  <2>2. target' \in [Threads -> Threads \cup {NotThread, NULL}]
    BY <1>0, <1>3 DEF CheckAlive, TypeOK
  <2>3. QED
    BY <1>0, <1>3, <2>1, <2>2 DEF CheckAlive, TypeOK
<1>4. CASE CountFrames(t)
  <2>1. FrameCountForThread(target[t]) \in Nat
    BY <1>0, <1>4
    DEF CountFrames, FrameCountForThread, FrameCount, TypeOK, ThreadInv, HasTarget
  <2>2. count' \in [Threads -> Nat] /\ index' \in [Threads -> Nat]
    <3>1. ignored[t] \in {0, 3}
      BY <1>0 DEF TypeOK
    <3>2. QED
      BY <1>0, <1>4, <2>1, <3>1 DEF CountFrames, TypeOK
  <2>3. frames' \in [Threads -> Seq(RawLocation)] /\ pc' \in [Threads -> Pcs]
    BY <1>0, <1>4 DEF CountFrames, TypeOK
  <2>4. QED
    BY <1>0, <1>4, <2>2, <2>3 DEF CountFrames, TypeOK
<1>5. CASE CaptureFrame(t)
  <2> DEFINE s == stack[target[t]]
             f == FrameAt(s, index[t])
  <2>1. target[t] \in Threads /\ s \in Seq(Frame) /\ index[t] \in Nat
    BY <1>0, <1>5 DEF CaptureFrame, TypeOK, ThreadInv, HasTarget
  <2>2. pc' \in [Threads -> Pcs] /\ index' \in [Threads -> Nat]
    <3>1. \/ Goto(t, "crash") /\ UNCHANGED index
          \/ UNCHANGED pc /\ index' = [index EXCEPT ![t] = @ + 1]
      BY <1>5 DEF CaptureFrame, CaptureInto
    <3>2. index' \in [Threads -> Nat]
      <4>1. index \in [Threads -> Nat]
        BY <1>0 DEF TypeOK
      <4>2. index' = index \/ index' = [index EXCEPT ![t] = index[t] + 1]
        BY <3>1
      <4>3. QED
        BY <2>1, <4>1, <4>2
    <3>3. pc' \in [Threads -> Pcs]
      BY <1>0, <3>1 DEF TypeOK
    <3>4. QED
      BY <3>2, <3>3
  <2>3. frames' \in [Threads -> Seq(RawLocation)]
    <3>1. CASE InRange(s, index[t]) /\ Alive(target[t]) /\ IsValid(f)
      <4>1. f \in Frame
        BY <2>1, <3>1 DEF InRange, FrameAt
      <4>2. Capture(f) \in RawLocation
        BY <3>1, <4>1, CaptureType
      <4>3. frames' = [frames EXCEPT ![t] = Append(@, Capture(f))]
        BY <1>5, <3>1 DEF CaptureFrame, CaptureInto
      <4>4. QED
        BY <1>0, <4>2, <4>3 DEF TypeOK
    <3>2. CASE ~ (InRange(s, index[t]) /\ Alive(target[t]) /\ IsValid(f))
      <4>1. UNCHANGED frames
        BY <1>5, <3>2 DEF CaptureFrame, CaptureInto
      <4>2. QED
        BY <1>0, <4>1 DEF TypeOK
    <3>3. QED
      BY <3>1, <3>2
  <2>4. QED
    BY <1>0, <1>5, <2>2, <2>3 DEF CaptureFrame, TypeOK
<1>6. CASE EndCapture(t)
  <2>1. [n \in 1 .. Len(frames[t]) |-> NULL] \in Seq(Location \cup {NULL})
    BY <1>0 DEF TypeOK
  <2>2. locs' \in [Threads -> Seq(Location \cup {NULL}) \cup {NULL}]
    BY <1>0, <1>6, <2>1 DEF EndCapture, TypeOK
  <2>3. index' \in [Threads -> Nat] /\ prev' \in [Threads -> Nat]
    BY <1>0, <1>6 DEF EndCapture, TypeOK
  <2>4. pc' \in [Threads -> Pcs]
    BY <1>0, <1>6 DEF EndCapture
  <2>5. QED
    BY <1>0, <1>6, <2>2, <2>3, <2>4 DEF EndCapture, TypeOK
<1>7. CASE ConvertFrame(t)
  <2>1. pc' \in [Threads -> Pcs] /\ stack' \in Stacks
    BY <1>0, <1>0b, <1>7 DEF ConvertFrame, LibraryFrames, Safepoints
  <2>2. prev' \in [Threads -> Nat]
    BY <1>0, <1>7 DEF ConvertFrame, TypeOK
  <2>3. QED
    BY <1>0, <1>7, <2>1, <2>2 DEF ConvertFrame, TypeOK
<1>8. CASE StoreLocation(t)
  <2> DEFINE loc == ToLocation(frames[t], index[t], prev[t])
  <2>1. /\ frames[t] \in Seq(RawLocation) /\ index[t] \in 1 .. Len(frames[t])
        /\ prev[t] \in Nat
        /\ \/ prev[t] = 0
           \/ prev[t] \in 1 .. Len(frames[t]) /\ frames[t][prev[t]].ruby
        /\ locs[t] \in Seq(Location \cup {NULL}) /\ Len(locs[t]) = Len(frames[t])
    BY <1>0, <1>8 DEF StoreLocation, TypeOK, ThreadInv, Converting
  <2>2. loc \in Location
    BY <2>1, ToLocationType
  <2>3. [locs[t] EXCEPT ![index[t]] = loc] \in Seq(Location \cup {NULL})
    BY <2>1, <2>2
  <2>4. locs' = [locs EXCEPT ![t] = [locs[t] EXCEPT ![index[t]] = loc]]
    BY <1>0, <1>8 DEF StoreLocation, TypeOK
  <2>5. locs' \in [Threads -> Seq(Location \cup {NULL}) \cup {NULL}]
    BY <1>0, <2>3, <2>4 DEF TypeOK
  <2>6. index' \in [Threads -> Nat]
    BY <1>0, <1>8, <2>1 DEF StoreLocation, TypeOK
  <2>7. pc' \in [Threads -> Pcs] /\ stack' \in Stacks
    BY <1>0, <1>0a, <1>8 DEF StoreLocation
  <2>8. QED
    BY <1>0, <1>8, <2>5, <2>6, <2>7 DEF StoreLocation, TypeOK
<1>9. CASE EndConvert(t)
  <2>1. pc' \in [Threads -> Pcs] /\ stack' \in Stacks
    BY <1>0, <1>0a, <1>9 DEF EndConvert, Safepoints
  <2>2. QED
    BY <1>0, <1>9, <2>1 DEF EndConvert, TypeOK
<1>10. CASE Return(t)
  BY <1>0, <1>10, LeaveCallType DEF Return, TypeOK
<1>11. QED
  BY <1>1, <1>2, <1>3, <1>4, <1>5, <1>6, <1>7, <1>8, <1>9, <1>10
  DEF LibraryStep

-----------------------------------------------------------------------------
(* Capturing one more frame *)

LEMMA ShownFinite ==
  ASSUME NEW s, NEW k \in Nat, NEW n \in Nat
  PROVE  /\ IsFiniteSet(Shown(s, k, n)) /\ Cardinality(Shown(s, k, n)) \in Nat
         /\ \A j : Rank(s, k, n, j) \in 0 .. Cardinality(Shown(s, k, n))
         /\ \A j \in Shown(s, k, n) : Rank(s, k, n, j) # 0
<1>1. IsFiniteSet(k .. (n - 1))
  BY FS_Interval
<1>2. IsFiniteSet(Shown(s, k, n)) /\ Cardinality(Shown(s, k, n)) \in Nat
  BY <1>1, FS_Subset, FS_CardinalityType DEF Shown
<1>3. ASSUME NEW j
      PROVE  /\ Rank(s, k, n, j) \in 0 .. Cardinality(Shown(s, k, n))
             /\ j \in Shown(s, k, n) => Rank(s, k, n, j) # 0
  <2> DEFINE upto == {m \in Shown(s, k, n) : m <= j}
  <2>1. /\ IsFiniteSet(upto) /\ Cardinality(upto) \in Nat
        /\ Cardinality(upto) <= Cardinality(Shown(s, k, n))
    BY <1>2, FS_Subset, FS_CardinalityType
  <2>2. j \in Shown(s, k, n) => j \in upto
    BY DEF Shown
  <2>3. upto # {} => Cardinality(upto) # 0
    BY <2>1, FS_EmptySet
  <2>4. QED
    BY <1>2, <2>1, <2>2, <2>3 DEF Rank
<1>4. QED
  BY <1>2, <1>3

LEMMA NothingCaptured ==
  ASSUME NEW s, NEW k \in Nat, NEW n \in Nat, n <= k
  PROVE  IsCapture(<<>>, s, k, n)
<1>1. Shown(s, k, n) = {}
  BY DEF Shown
<1>2. QED
  BY <1>1, FS_EmptySet DEF IsCapture

LEMMA OneMoreCaptured ==
  ASSUME NEW S, NEW raws \in Seq(S), NEW s, NEW k \in Nat, NEW n \in Nat, k <= n,
         IsCapture(raws, s, k, n),
         NEW raw, raw = Capture(FrameAt(s, n)), raw \in S
  PROVE  IsValid(FrameAt(s, n)) => IsCapture(Append(raws, raw), s, k, n + 1)
<1> DEFINE old == Shown(s, k, n)
           new == Shown(s, k, n + 1)
<1> SUFFICES ASSUME IsValid(FrameAt(s, n)) PROVE IsCapture(Append(raws, raw), s, k, n + 1)
  OBVIOUS
<1>1. new = old \cup {n} /\ n \notin old
  BY DEF Shown
<1>2. Cardinality(new) = Cardinality(old) + 1
  BY <1>1, ShownFinite, FS_AddElement
<1>3. Len(Append(raws, raw)) = Cardinality(new)
  BY <1>2 DEF IsCapture
<1>4. ASSUME NEW j \in old
      PROVE  Append(raws, raw)[Rank(s, k, n + 1, j)] = Capture(FrameAt(s, j))
  <2>1. j \in Nat /\ j < n
    BY DEF Shown
  <2>2. {m \in new : m <= j} = {m \in old : m <= j}
    BY <1>1, <2>1
  <2>3. Rank(s, k, n + 1, j) = Rank(s, k, n, j)
    BY <2>2 DEF Rank
  <2>4. Rank(s, k, n, j) \in 1 .. Len(raws)
    BY ShownFinite DEF IsCapture
  <2>5. QED
    BY <2>3, <2>4 DEF IsCapture
<1>5. Append(raws, raw)[Rank(s, k, n + 1, n)] = Capture(FrameAt(s, n))
  <2>1. {m \in new : m <= n} = new
    BY DEF Shown
  <2>2. Rank(s, k, n + 1, n) = Len(raws) + 1
    BY <1>2, <2>1 DEF Rank, IsCapture
  <2>3. QED
    BY <2>2
<1>6. QED
  BY <1>1, <1>3, <1>4, <1>5 DEF IsCapture

LEMMA NoneMoreCaptured ==
  ASSUME NEW raws, NEW s, NEW k \in Nat, NEW n \in Nat,
         IsCapture(raws, s, k, n), ~ IsValid(FrameAt(s, n))
  PROVE  IsCapture(raws, s, k, n + 1)
<1>1. Shown(s, k, n + 1) = Shown(s, k, n)
  BY DEF Shown
<1>2. QED
  BY <1>1 DEF IsCapture, Rank

-----------------------------------------------------------------------------
(* Each step *)

(* A step of the thread that holds the GVL leaves every other thread where *)
(* it is in its call.                                                      *)
CallUnchanged(u) ==
  /\ pc'[u] = pc[u] /\ target'[u] = target[u] /\ ignored'[u] = ignored[u]
  /\ count'[u] = count[u] /\ index'[u] = index[u] /\ frames'[u] = frames[u]
  /\ prev'[u] = prev[u] /\ locs'[u] = locs[u]

LEMMA StepIsLocal ==
  ASSUME TypeOK, NEW t \in Threads, LibraryStep(t) \/ ProgramStep(t),
         NEW u \in Threads, u # t
  PROVE  gvl = t /\ CallUnchanged(u)
<1> USE DEF callVars, CallUnchanged, TypeOK, Goto, LeaveCall, Forget, Running,
            InProgram
<1>1. CASE \/ Start(t) \/ LeaveMethod(t) \/ Advance(t) \/ Terminate(t)
           \/ \E f \in AppFrames : Call(t, f)
  BY <1>1 DEF Start, LeaveMethod, Advance, Terminate, Call
<1>2. CASE Interrupt(t)
  BY <1>2 DEF Interrupt
<1>3. CASE \/ CallerLocations(t)
           \/ \E v \in Threads \cup {NotThread} : BacktraceLocations(t, v)
  BY <1>3 DEF BacktraceLocations, CallerLocations
<1>4. CASE EnsureObjectIsThread(t) \/ PrimitiveCallerLocations(t)
  BY <1>4 DEF EnsureObjectIsThread, PrimitiveCallerLocations
<1>5. CASE CheckAlive(t) \/ CountFrames(t)
  BY <1>5 DEF CheckAlive, CountFrames
<1>6. CASE CaptureFrame(t)
  BY <1>6 DEF CaptureFrame, CaptureInto
<1>7. CASE EndCapture(t) \/ ConvertFrame(t)
  BY <1>7 DEF EndCapture, ConvertFrame
<1>8. CASE StoreLocation(t) \/ EndConvert(t) \/ Return(t)
  BY <1>8 DEF StoreLocation, EndConvert, Return
<1>9. QED
  BY <1>1, <1>2, <1>3, <1>4, <1>5, <1>6, <1>7, <1>8 DEF LibraryStep, ProgramStep

LEMMA OtherThreads ==
  ASSUME IInv, NEW t \in Threads, LibraryStep(t) \/ ProgramStep(t),
         NEW u \in Threads, u # t
  PROVE  ThreadInv(u)'
<1>1. ThreadInv(u) /\ gvl = t /\ CallUnchanged(u)
  BY StepIsLocal DEF IInv
<1>2. AtSafepoint(u) /\ pc[u] # "crash"
  BY <1>1 DEF ThreadInv, Atomic
<1>3. Atomic(u)'
  BY <1>1, <1>2 DEF CallUnchanged, Atomic, AtSafepoint
<1>4. HasTarget(u)' /\ Capturing(u)'
  BY <1>1, <1>2
  DEF CallUnchanged, ThreadInv, HasTarget, Capturing, AtSafepoint, Safepoints
<1>5. Converting(u)'
  BY <1>1 DEF CallUnchanged, ThreadInv, Converting
<1>6. QED
  BY <1>3, <1>4, <1>5 DEF ThreadInv

(* Outside collect_backtrace_locations only the program counter and the    *)
(* target matter.                                                          *)
LEMMA Outside ==
  ASSUME NEW t, pc'[t] \in Safepoints \ {"initialize"},
         pc'[t] \in {"program", "wrapper"} => target'[t] = NULL
  PROVE  ThreadInv(t)'
BY DEF ThreadInv, Atomic, AtSafepoint, Safepoints, HasTarget, Capturing, Converting

LEMMA ProgramStepOwn ==
  ASSUME IInv, NEW t \in Threads, ProgramStep(t)
  PROVE  ThreadInv(t)'
<1>0. TypeOK /\ ThreadInv(t)
  BY DEF IInv
<1>1. CASE \/ Start(t) \/ LeaveMethod(t) \/ Advance(t) \/ Terminate(t)
           \/ \E f \in AppFrames : Call(t, f)
  <2>1. pc'[t] = "program" /\ pc[t] = "program" /\ target'[t] = target[t]
    BY <1>0, <1>1
    DEF Start, LeaveMethod, Advance, Terminate, Call, InProgram, callVars
  <2>2. target'[t] = NULL
    BY <1>0, <2>1 DEF ThreadInv, HasTarget
  <2>3. QED
    BY <2>1, <2>2, Outside DEF Safepoints
<1>2. CASE Interrupt(t)
  <2>1. CASE InCall(t)
    BY <1>0, <1>2, <2>1, Outside
    DEF Interrupt, LeaveCall, Forget, TypeOK, Safepoints
  <2>2. CASE ~ InCall(t)
    <3>1. pc'[t] = "program" /\ pc[t] = "program" /\ target'[t] = target[t]
      BY <1>0, <1>2, <2>2 DEF Interrupt, InCall, callVars, ThreadInv, Atomic
    <3>2. target'[t] = NULL
      BY <1>0, <3>1 DEF ThreadInv, HasTarget
    <3>3. QED
      BY <3>1, <3>2, Outside DEF Safepoints
  <2>3. QED
    BY <2>1, <2>2
<1>3. ASSUME NEW u \in Threads \cup {NotThread}, BacktraceLocations(t, u)
      PROVE  ThreadInv(t)'
  BY <1>0, <1>3, Outside DEF BacktraceLocations, Goto, TypeOK, Safepoints
<1>4. CASE CallerLocations(t)
  BY <1>0, <1>4, Outside
  DEF CallerLocations, Goto, InProgram, TypeOK, Safepoints, ThreadInv, HasTarget
<1>5. QED
  BY <1>1, <1>2, <1>3, <1>4 DEF ProgramStep

LEMMA LibraryStepOwn ==
  ASSUME IInv, NEW t \in Threads, LibraryStep(t)
  PROVE  ThreadInv(t)'
<1>0. TypeOK /\ ThreadInv(t)
  BY DEF IInv
<1>1. CASE EnsureObjectIsThread(t)
  <2>1. CASE target[t] = NotThread
    BY <1>0, <1>1, <2>1, Outside
    DEF EnsureObjectIsThread, LeaveCall, Forget, TypeOK, Safepoints
  <2>2. CASE target[t] # NotThread
    <3>1. pc'[t] = "alive" /\ target'[t] # NotThread /\ gvl' = t
      BY <1>0, <1>1, <2>2 DEF EnsureObjectIsThread, Goto, callVars, Running, TypeOK
    <3>2. QED
      BY <3>1 DEF ThreadInv, Atomic, HasTarget, Capturing, Converting
  <2>3. QED
    BY <2>1, <2>2
<1>2. CASE PrimitiveCallerLocations(t)
  <2>1. pc'[t] = "alive" /\ target'[t] = NULL /\ gvl' = t
    BY <1>0, <1>2
    DEF PrimitiveCallerLocations, Goto, Running, TypeOK, ThreadInv, HasTarget
  <2>2. QED
    BY <2>1, CollectorAssumption
    DEF ThreadInv, Atomic, HasTarget, Capturing, Converting
<1>3. CASE CheckAlive(t)
  <2> DEFINE thread == IF target[t] = NULL THEN t ELSE target[t]
  <2>1. thread \in Threads /\ target'[t] = thread
    BY <1>0, <1>3 DEF CheckAlive, TypeOK, ThreadInv, HasTarget
  <2>2. CASE Alive(thread)
    <3>1. pc'[t] = "count" /\ gvl' = t /\ status' = status
      BY <1>0, <1>3, <2>2 DEF CheckAlive, Goto, Running, TypeOK
    <3>2. QED
      BY <2>1, <2>2, <3>1
      DEF ThreadInv, Atomic, HasTarget, Capturing, Converting, Alive
  <2>3. CASE ~ Alive(thread)
    BY <1>0, <1>3, <2>3, Outside DEF CheckAlive, Goto, TypeOK, Safepoints
  <2>4. QED
    BY <2>2, <2>3
<1>4. CASE CountFrames(t)
  <2> DEFINE s == stack[target[t]]
  <2>1. /\ target[t] \in Threads /\ Alive(target[t])
        /\ s \in Seq(Frame) /\ ignored[t] \in Nat
    <3>1. ignored[t] \in {0, 3}
      BY <1>0 DEF TypeOK
    <3>2. QED
      BY <1>0, <1>4, <3>1 DEF CountFrames, TypeOK, ThreadInv, HasTarget
  <2>2. /\ pc'[t] = "capture" /\ gvl' = t /\ UNCHANGED <<status, stack>>
        /\ target'[t] = target[t] /\ ignored'[t] = ignored[t]
        /\ count'[t] = FrameCount(s) /\ index'[t] = ignored[t]
        /\ frames'[t] = <<>>
    BY <1>0, <1>4, <2>1
    DEF CountFrames, FrameCountForThread, Goto, Running, TypeOK
  <2>3. FrameCount(s) \in Nat
    BY <2>1 DEF FrameCount
  <2>4. Captured(t)'
    BY <2>1, <2>2, <2>3, NothingCaptured DEF Captured
  <2>5. QED
    BY <2>1, <2>2, <2>4
    DEF ThreadInv, Atomic, HasTarget, Capturing, Converting, Alive
<1>5. CASE CaptureFrame(t)
  <2> DEFINE s == stack[target[t]]
             n == index[t]
             f == FrameAt(s, n)
  <2>1. /\ pc[t] = "capture" /\ gvl' = t /\ UNCHANGED <<status, stack>>
        /\ target[t] \in Threads /\ Alive(target[t]) /\ s \in Seq(Frame)
        /\ target' = target /\ ignored' = ignored /\ count' = count
    BY <1>0, <1>5
    DEF CaptureFrame, Running, TypeOK, ThreadInv, HasTarget
  <2>2. /\ n \in Nat /\ count[t] \in Nat /\ n < count[t]
        /\ count[t] = FrameCount(s) /\ ignored[t] <= n
        /\ IsCapture(frames[t], s, ignored[t], n)
    BY <1>0, <1>5, <2>1
    DEF CaptureFrame, TypeOK, ThreadInv, Capturing, Captured
  <2>3. InRange(s, n)
    BY <2>1, <2>2 DEF FrameCount, InRange
  <2>4. ignored[t] \in Nat /\ frames[t] \in Seq(RawLocation)
    <3>1. ignored[t] \in {0, 3}
      BY <1>0 DEF TypeOK
    <3>2. QED
      BY <1>0, <3>1 DEF TypeOK
  <2>5. pc'[t] = "capture" /\ index'[t] = n + 1
    BY <1>0, <1>5, <2>1, <2>3 DEF CaptureFrame, CaptureInto, TypeOK
  <2>6. IsCapture(frames'[t], s, ignored[t], n + 1)
    <3>1. CASE IsValid(f)
      <4>1. f \in Frame
        BY <2>1, <2>2, <2>3 DEF InRange, FrameAt
      <4>2. Capture(f) \in RawLocation
        BY <3>1, <4>1, CaptureType
      <4>3. frames'[t] = Append(frames[t], Capture(f))
        BY <1>0, <1>5, <2>1, <2>3, <3>1 DEF CaptureFrame, CaptureInto, TypeOK
      <4>4. QED
        BY <2>2, <2>4, <3>1, <4>2, <4>3, OneMoreCaptured
    <3>2. CASE ~ IsValid(f)
      <4>1. frames' = frames
        BY <1>5, <2>3, <3>2 DEF CaptureFrame, CaptureInto
      <4>2. QED
        BY <2>2, <2>4, <3>2, <4>1, NoneMoreCaptured
    <3>3. QED
      BY <3>1, <3>2
  <2>7. Captured(t)'
    BY <2>1, <2>2, <2>5, <2>6 DEF Captured
  <2>8. QED
    BY <2>1, <2>2, <2>4, <2>5, <2>7
    DEF ThreadInv, Atomic, HasTarget, Capturing, Converting, Alive
<1>6. CASE EndCapture(t)
  <2>1. /\ pc'[t] = "convert" /\ gvl' = t /\ frames'[t] = frames[t]
        /\ frames[t] \in Seq(RawLocation)
        /\ index'[t] = Len(frames[t]) /\ prev'[t] = 0
        /\ locs'[t] = [n \in 1 .. Len(frames[t]) |-> NULL]
    BY <1>0, <1>6 DEF EndCapture, Goto, Running, TypeOK
  <2>2. locs'[t] \in Seq(Location \cup {NULL}) /\ Len(locs'[t]) = Len(frames[t])
    BY <2>1
  <2>3. QED
    BY <2>1, <2>2 DEF ThreadInv, Atomic, HasTarget, Capturing, Converting
<1>7. CASE ConvertFrame(t)
  <2>1. /\ pc'[t] = "initialize" /\ frames'[t] = frames[t]
        /\ frames[t] \in Seq(RawLocation)
        /\ index'[t] = index[t] /\ index[t] \in 1 .. Len(frames[t])
        /\ locs'[t] = locs[t]
        /\ locs[t] \in Seq(Location \cup {NULL}) /\ Len(locs[t]) = Len(frames[t])
    BY <1>0, <1>7 DEF ConvertFrame, Goto, TypeOK, ThreadInv, Converting
  <2>2. \/ prev'[t] = 0
        \/ prev'[t] \in 1 .. Len(frames[t]) /\ frames[t][prev'[t]].ruby
    BY <1>0, <1>7, <2>1 DEF ConvertFrame, TypeOK, ThreadInv, Converting
  <2>3. QED
    BY <2>1, <2>2
    DEF ThreadInv, Atomic, AtSafepoint, Safepoints, HasTarget, Capturing, Converting
<1>8. CASE StoreLocation(t)
  <2>1. /\ pc'[t] = "convert" /\ gvl' = t /\ frames'[t] = frames[t]
        /\ frames[t] \in Seq(RawLocation)
        /\ index'[t] = index[t] - 1 /\ index[t] \in 1 .. Len(frames[t])
        /\ prev'[t] = prev[t]
    BY <1>0, <1>8
    DEF StoreLocation, Goto, Running, TypeOK, ThreadInv, Converting
  <2>2. \/ prev[t] = 0
        \/ prev[t] \in 1 .. Len(frames[t]) /\ frames[t][prev[t]].ruby
    BY <1>0, <1>8 DEF StoreLocation, ThreadInv, Converting
  <2>3. locs[t] \in Seq(Location \cup {NULL}) /\ Len(locs[t]) = Len(frames[t])
    BY <1>0, <1>8 DEF StoreLocation, ThreadInv, Converting
  <2>4. locs'[t] \in Seq(Location \cup {NULL}) /\ Len(locs'[t]) = Len(frames[t])
    <3> DEFINE loc == ToLocation(frames[t], index[t], prev[t])
    <3>1. prev[t] \in Nat
      BY <1>0 DEF TypeOK
    <3>2. loc \in Location
      BY <2>1, <2>2, <3>1, ToLocationType
    <3>3. locs'[t] = [locs[t] EXCEPT ![index[t]] = loc]
      BY <1>0, <1>8 DEF StoreLocation, TypeOK
    <3>4. QED
      BY <2>1, <2>3, <3>2, <3>3
  <2>5. QED
    BY <2>1, <2>2, <2>4 DEF ThreadInv, Atomic, HasTarget, Capturing, Converting
<1>9. CASE EndConvert(t)
  BY <1>0, <1>9, Outside DEF EndConvert, Goto, TypeOK, Safepoints
<1>10. CASE Return(t)
  BY <1>0, <1>10, Outside DEF Return, LeaveCall, Forget, TypeOK, Safepoints
<1>11. QED
  BY <1>1, <1>2, <1>3, <1>4, <1>5, <1>6, <1>7, <1>8, <1>9, <1>10
  DEF LibraryStep

(* The GVL leaves a thread only at a safepoint. *)
LEMMA SwitchStep ==
  ASSUME IInv, NEW t \in Threads, Switch(t), NEW u \in Threads
  PROVE  ThreadInv(u)'
<1>1. /\ ThreadInv(u) /\ UNCHANGED <<status, stack, pc, callVars>>
      /\ u = gvl => AtSafepoint(u)
  BY DEF IInv, Switch
<1>2. Atomic(u)'
  BY <1>1 DEF ThreadInv, Atomic, AtSafepoint
<1>3. QED
  BY <1>1, <1>2
  DEF ThreadInv, HasTarget, Capturing, Captured, Converting, Alive, callVars

-----------------------------------------------------------------------------
(* Theorems *)

(* IInv holds of every reachable state, for any constants. *)
THEOREM Invariance == Spec => []IInv
<1>1. IInv /\ [Next]_vars => IInv'
  <2> SUFFICES ASSUME IInv, [Next]_vars PROVE IInv'
    OBVIOUS
  <2>1. ASSUME NEW t \in Threads, LibraryStep(t) PROVE IInv'
    <3>1. TypeOK'
      BY <2>1, LibraryTypeOK
    <3>2. ASSUME NEW u \in Threads PROVE ThreadInv(u)'
      BY <2>1, OtherThreads, LibraryStepOwn
    <3>3. QED
      BY <3>1, <3>2 DEF IInv
  <2>2. ASSUME NEW t \in Threads, ProgramStep(t) PROVE IInv'
    <3>1. TypeOK'
      BY <2>2, ProgramTypeOK DEF IInv
    <3>2. ASSUME NEW u \in Threads PROVE ThreadInv(u)'
      BY <2>2, OtherThreads, ProgramStepOwn
    <3>3. QED
      BY <3>1, <3>2 DEF IInv
  <2>3. ASSUME NEW t \in Threads, Switch(t) PROVE IInv'
    BY <2>3, ProgramTypeOK, SwitchStep DEF IInv
  <2>4. CASE UNCHANGED vars
    BY <2>4 DEF vars, callVars, IInv, TypeOK, ThreadInv, Atomic, AtSafepoint,
                HasTarget, Alive, Capturing, Captured, Converting
  <2>5. QED
    BY <2>1, <2>2, <2>3, <2>4 DEF Next
<1>2. QED
  BY InitInv, <1>1, PTL DEF Spec

(* Every variable always has a value the code can give it. *)
THEOREM TypeCorrect == Spec => []TypeOK
<1>1. IInv => TypeOK
  BY DEF IInv
<1>2. QED
  BY <1>1, Invariance, PTL

(* capture_frame is never called with an index that is out of range, for   *)
(* the frame count is still right when the loop uses it.                   *)
THEOREM Safe == Spec => []NeverCrashes
<1>1. IInv => NeverCrashes
  BY DEF IInv, ThreadInv, Atomic, NeverCrashes
<1>2. QED
  BY <1>1, Invariance, PTL

(* What the loop captured is what belongs in a backtrace of the stack the  *)
(* subject has at that moment.                                             *)
THEOREM Faithful == Spec => []CapturesPresentStack
<1>1. IInv => CapturesPresentStack
  BY DEF IInv, ThreadInv, Capturing, Captured, CapturesPresentStack
<1>2. QED
  BY <1>1, Invariance, PTL
=============================================================================
