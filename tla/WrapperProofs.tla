---------------------------- MODULE WrapperProofs ----------------------------
(***************************************************************************)
(* Every call of the collector uses its frame wrapper as FrameWrapper      *)
(* says, for any threads and stacks: the wrapper always has room for the   *)
(* next captured frame, and between the count of the frames and the end of *)
(* the loop that captures them no other thread runs and no exception or    *)
(* crash ends the call.                                                    *)
(***************************************************************************)
EXTENDS CollectorProofs

(* No more frames are shown than there are. *)
LEMMA ShownFits ==
  ASSUME NEW s, NEW k \in Nat, NEW n \in Nat
  PROVE  Cardinality(Shown(s, k, n)) <= n
<1>1. /\ IsFiniteSet(k .. (n - 1)) /\ Cardinality(k .. (n - 1)) <= n
      /\ Cardinality(k .. (n - 1)) \in Nat
  <2>1. k \in Int /\ n - 1 \in Int
    OBVIOUS
  <2>2. /\ IsFiniteSet(k .. (n - 1))
        /\ Cardinality(k .. (n - 1)) =
             IF k > n - 1 THEN 0 ELSE (n - 1) - k + 1
    BY <2>1, FS_Interval
  <2>3. QED
    BY <2>2
<1>2. Shown(s, k, n) \subseteq k .. (n - 1)
  BY DEF Shown
<1>3. Cardinality(Shown(s, k, n)) <= Cardinality(k .. (n - 1))
  BY <1>1, <1>2, FS_Subset
<1>4. Cardinality(Shown(s, k, n)) \in Nat
  BY ShownFinite
<1>5. QED
  BY <1>1, <1>3, <1>4

-----------------------------------------------------------------------------
(* What a step of a thread does to its own wrapper. *)
SameWrapper(t) ==
  Stage(t)' = Stage(t) /\ Room(t)' = Room(t) /\ Held(t)' = Held(t)

Makes(t) ==
  /\ Stage(t) = "idle" /\ Stage(t)' = "capture"
  /\ Room(t)' \in Nat /\ Held(t)' = 0

Fills(t) ==
  /\ Stage(t) = "capture" /\ Stage(t)' = "capture" /\ Room(t)' = Room(t)
  /\ Held(t) < Room(t) /\ Held(t)' = Held(t) + 1

Stops(t) ==
  /\ Stage(t) = "capture" /\ Stage(t)' = "read"
  /\ Room(t)' = Room(t) /\ Held(t)' = Held(t)

Drops(t) ==
  /\ Stage(t) = "read" /\ Stage(t)' = "idle"
  /\ Room(t)' = 0 /\ Held(t)' = 0

OwnUse(t) == SameWrapper(t) \/ Makes(t) \/ Fills(t) \/ Stops(t) \/ Drops(t)

LEMMA StaysIdle ==
  ASSUME NEW t, ~ Filled(t), ~ Filled(t)'
  PROVE  SameWrapper(t)
BY DEF SameWrapper, Stage, Room, Held, Filled

LEMMA LeaveCallUse ==
  ASSUME TypeOK, NEW t \in Threads, AtSafepoint(t), LeaveCall(t)
  PROVE  OwnUse(t)
<1>1. ~ Filled(t)'
  BY DEF LeaveCall, Filled, TypeOK
<1>2. CASE Filled(t)
  <2>1. Drops(t)
    BY <1>1, <1>2 DEF Drops, Stage, Room, Held, Filled, AtSafepoint, Safepoints
  <2>2. QED
    BY <2>1 DEF OwnUse
<1>3. CASE ~ Filled(t)
  BY <1>1, <1>3, StaysIdle DEF OwnUse
<1>4. QED
  BY <1>2, <1>3

LEMMA ProgramStepUse ==
  ASSUME IInv, NEW t \in Threads, ProgramStep(t)
  PROVE  OwnUse(t)
<1>0. TypeOK /\ ThreadInv(t)
  BY DEF IInv
<1>1. CASE Interrupt(t) /\ InCall(t)
  BY <1>0, <1>1, LeaveCallUse DEF Interrupt
<1>2. CASE ~ (Interrupt(t) /\ InCall(t))
  <2>1. ~ Filled(t) /\ ~ Filled(t)'
    <3>1. CASE Interrupt(t)
      BY <1>0, <1>2, <3>1 DEF Interrupt, InCall, callVars, Filled
    <3>2. CASE \/ Start(t) \/ LeaveMethod(t) \/ Advance(t) \/ Terminate(t)
               \/ \E f \in AppFrames : Call(t, f)
      BY <3>2 DEF Start, LeaveMethod, Advance, Terminate, Call, InProgram, Filled
    <3>3. CASE \/ CallerLocations(t)
               \/ \E u \in Threads \cup {NotThread} : BacktraceLocations(t, u)
      BY <1>0, <3>3
      DEF BacktraceLocations, CallerLocations, InProgram, Goto, TypeOK, Filled
    <3>4. QED
      BY <3>1, <3>2, <3>3 DEF ProgramStep
  <2>2. QED
    BY <2>1, StaysIdle DEF OwnUse
<1>3. QED
  BY <1>1, <1>2

LEMMA LibraryStepUse ==
  ASSUME IInv, IInv', NEW t \in Threads, LibraryStep(t)
  PROVE  OwnUse(t)
<1>0. TypeOK /\ ThreadInv(t) /\ TypeOK' /\ ThreadInv(t)'
  BY DEF IInv
<1>1. CASE EnsureObjectIsThread(t) \/ PrimitiveCallerLocations(t) \/ CheckAlive(t)
  <2>1. ~ Filled(t) /\ ~ Filled(t)'
    BY <1>0, <1>1
    DEF EnsureObjectIsThread, PrimitiveCallerLocations, CheckAlive, LeaveCall,
        Goto, TypeOK, Filled
  <2>2. QED
    BY <2>1, StaysIdle DEF OwnUse
<1>2. CASE CountFrames(t)
  <2>1. pc[t] = "count" /\ pc'[t] = "capture" /\ frames'[t] = <<>>
    BY <1>0, <1>2 DEF CountFrames, Goto, TypeOK
  <2>2. count'[t] \in Nat
    BY <1>0 DEF TypeOK
  <2>3. QED
    BY <2>1, <2>2 DEF OwnUse, Makes, Stage, Room, Held, Filled
<1>3. CASE CaptureFrame(t)
  <2> DEFINE s == stack[target[t]]
             f == FrameAt(s, index[t])
  <2>1. /\ pc[t] = "capture" /\ count'[t] = count[t] /\ index[t] < count[t]
        /\ index[t] \in Nat /\ count[t] \in Nat /\ frames[t] \in Seq(RawLocation)
    BY <1>0, <1>3 DEF CaptureFrame, TypeOK
  <2>2. pc'[t] = "capture"
    BY <1>0, <1>3, <2>1
    DEF CaptureFrame, CaptureInto, Goto, TypeOK, ThreadInv, Atomic
  <2>3. IsCapture(frames[t], s, ignored[t], index[t])
    <3>1. (IF index[t] <= count[t] THEN index[t] ELSE count[t]) = index[t]
      BY <2>1
    <3>2. QED
      BY <1>0, <2>1, <3>1 DEF ThreadInv, Capturing, Captured
  <2>4. Len(frames[t]) < count[t]
    <3>1. ignored[t] \in Nat
      <4>1. ignored[t] \in {0, 3}
        BY <1>0 DEF TypeOK
      <4>2. QED
        BY <4>1
    <3>2. Len(frames[t]) <= index[t]
      BY <2>1, <2>3, <3>1, ShownFits DEF IsCapture
    <3>3. QED
      BY <2>1, <3>2
  <2>5. \/ frames'[t] = frames[t]
        \/ Len(frames'[t]) = Len(frames[t]) + 1
    <3>1. \/ frames' = frames
          \/ frames' = [frames EXCEPT ![t] = Append(@, Capture(f))]
      BY <1>3 DEF CaptureFrame, CaptureInto
    <3>2. frames \in [Threads -> Seq(RawLocation)]
      BY <1>0 DEF TypeOK
    <3>3. \A raw : Len(Append(frames[t], raw)) = Len(frames[t]) + 1
      BY <2>1
    <3>4. QED
      BY <3>1, <3>2, <3>3
  <2>6. CASE frames'[t] = frames[t]
    <3>1. SameWrapper(t)
      BY <2>1, <2>2, <2>6 DEF SameWrapper, Stage, Room, Held, Filled
    <3>2. QED
      BY <3>1 DEF OwnUse
  <2>7. CASE Len(frames'[t]) = Len(frames[t]) + 1
    <3>1. Fills(t)
      BY <2>1, <2>2, <2>4, <2>7 DEF Fills, Stage, Room, Held, Filled
    <3>2. QED
      BY <3>1 DEF OwnUse
  <2>8. QED
    BY <2>5, <2>6, <2>7
<1>4. CASE EndCapture(t)
  <2>1. /\ pc[t] = "capture" /\ pc'[t] = "convert"
        /\ count'[t] = count[t] /\ frames'[t] = frames[t]
    BY <1>0, <1>4 DEF EndCapture, Goto, TypeOK
  <2>2. QED
    BY <2>1 DEF OwnUse, Stops, Stage, Room, Held, Filled
<1>5. CASE ConvertFrame(t) \/ StoreLocation(t)
  <2>1. /\ pc[t] \in {"convert", "initialize"}
        /\ pc'[t] \in {"convert", "initialize"}
        /\ count'[t] = count[t] /\ frames'[t] = frames[t]
    BY <1>0, <1>5 DEF ConvertFrame, StoreLocation, Goto, TypeOK
  <2>2. QED
    BY <2>1 DEF OwnUse, SameWrapper, Stage, Room, Held, Filled
<1>6. CASE EndConvert(t)
  <2>1. pc[t] = "convert" /\ pc'[t] = "return"
    BY <1>0, <1>6 DEF EndConvert, Goto, TypeOK
  <2>2. QED
    BY <2>1 DEF OwnUse, Drops, Stage, Room, Held, Filled
<1>7. CASE Return(t)
  BY <1>0, <1>7, LeaveCallUse DEF Return, AtSafepoint, Safepoints
<1>8. QED
  BY <1>1, <1>2, <1>3, <1>4, <1>5, <1>6, <1>7 DEF LibraryStep

-----------------------------------------------------------------------------
(* The steps of FrameWrapper *)

LEMMA UseImplements ==
  ASSUME NEW t \in Threads, gvl = t, UNCHANGED gvl, OwnUse(t),
         \A u \in Threads \ {t} : SameWrapper(u)
  PROVE  [Wrapper!Next]_(Wrapper!vars)
<1>1. CASE SameWrapper(t)
  BY <1>1 DEF SameWrapper, Wrapper!vars
<1>2. CASE Makes(t)
  <2>1. Wrapper!Make(t)
    BY <1>2 DEF Makes, SameWrapper, Wrapper!Make
  <2>2. QED
    BY <2>1 DEF Wrapper!Next
<1>3. CASE Fills(t)
  <2>1. Wrapper!Fill(t)
    BY <1>3 DEF Fills, SameWrapper, Wrapper!Fill
  <2>2. QED
    BY <2>1 DEF Wrapper!Next
<1>4. CASE Stops(t)
  <2>1. Wrapper!Stop(t)
    BY <1>4 DEF Stops, SameWrapper, Wrapper!Stop
  <2>2. QED
    BY <2>1 DEF Wrapper!Next
<1>5. CASE Drops(t)
  <2>1. Wrapper!End(t)
    BY <1>5 DEF Drops, SameWrapper, Wrapper!End
  <2>2. QED
    BY <2>1 DEF Wrapper!Next
<1>6. QED
  BY <1>1, <1>2, <1>3, <1>4, <1>5 DEF OwnUse

LEMMA InitUse == Init => Wrapper!Init
BY CollectorAssumption DEF Init, Stage, Room, Held, Filled, Wrapper!Init

(* The thread that makes a step has the GVL and keeps it, unless it ends.  *)
LEMMA StepKeepsGvl ==
  ASSUME NEW t \in Threads, LibraryStep(t) \/ ProgramStep(t), ~ Terminate(t)
  PROVE  gvl = t /\ UNCHANGED gvl
<1> USE DEF Running, InProgram
<1>1. CASE \/ Start(t) \/ LeaveMethod(t) \/ Advance(t) \/ Interrupt(t)
           \/ \E f \in AppFrames : Call(t, f)
  BY <1>1 DEF Start, LeaveMethod, Advance, Interrupt, Call
<1>2. CASE \/ CallerLocations(t)
           \/ \E u \in Threads \cup {NotThread} : BacktraceLocations(t, u)
  BY <1>2 DEF BacktraceLocations, CallerLocations
<1>3. CASE LibraryStep(t)
  BY <1>3
  DEF LibraryStep, EnsureObjectIsThread, PrimitiveCallerLocations, CheckAlive,
      CountFrames, CaptureFrame, CaptureInto, EndCapture, ConvertFrame,
      StoreLocation, EndConvert, Return
<1>4. QED
  BY <1>1, <1>2, <1>3 DEF ProgramStep

(* Where the GVL goes to another thread, its holder captures nothing. *)
LEMMA HandOverYields ==
  ASSUME IInv, NEW t \in Threads, Switch(t) \/ Terminate(t)
  PROVE  Wrapper!Yield
<1>1. UNCHANGED <<pc, callVars>> /\ gvl' \in Threads
  BY DEF Switch, Terminate
<1>2. gvl \in Threads /\ pc[gvl] # "capture"
  BY DEF IInv, TypeOK, Switch, Terminate, InProgram, Running, AtSafepoint,
         Safepoints
<1>3. Stage(gvl) # "capture"
  BY <1>2 DEF Stage, Filled
<1>4. QED
  BY <1>1, <1>2, <1>3 DEF Wrapper!Yield, callVars, Stage, Room, Held, Filled

(* A call makes its wrapper with room for every frame it will capture,     *)
(* fills it while no other thread runs and no exception or crash leaves    *)
(* the loop, and drops it once the locations are made or an exception      *)
(* leaves the call.                                                        *)
THEOREM WrapperRefinement == Spec => ImplementsWrapper
<1>1. IInv /\ IInv' /\ [Next]_vars => [Wrapper!Next]_(Wrapper!vars)
  <2> SUFFICES ASSUME IInv, IInv', [Next]_vars
               PROVE  [Wrapper!Next]_(Wrapper!vars)
    OBVIOUS
  <2>1. ASSUME NEW t \in Threads, LibraryStep(t) \/ ProgramStep(t),
               ~ Terminate(t)
        PROVE  [Wrapper!Next]_(Wrapper!vars)
    <3>1. OwnUse(t)
      BY <2>1, LibraryStepUse, ProgramStepUse
    <3>2. \A u \in Threads \ {t} : SameWrapper(u)
      BY <2>1, StepIsLocal
      DEF IInv, CallUnchanged, SameWrapper, Stage, Room, Held, Filled
    <3>3. gvl = t /\ UNCHANGED gvl
      BY <2>1, StepKeepsGvl
    <3>4. QED
      BY <3>1, <3>2, <3>3, UseImplements
  <2>2. CASE \E t \in Threads : Switch(t) \/ Terminate(t)
    BY <2>2, HandOverYields DEF Wrapper!Next
  <2>3. CASE UNCHANGED vars
    BY <2>3 DEF vars, callVars, Wrapper!vars, Stage, Room, Held, Filled
  <2>4. QED
    BY <2>1, <2>2, <2>3 DEF Next
<1>2. QED
  BY <1>1, InitUse, Invariance, PTL DEF Spec, ImplementsWrapper, Wrapper!Spec
=============================================================================
