------------------------------ MODULE Collector ------------------------------
(***************************************************************************)
(* Ruby threads under the global VM lock (GVL) that run a program and call *)
(* Backtracie.backtrace_locations(thread) and Backtracie.caller_locations: *)
(* the whole path of a call, from the Ruby entry point to the array it     *)
(* returns, one action per step of the code, interleaved with the other    *)
(* threads wherever MRI lets another thread run.                           *)
(***************************************************************************)
EXTENDS VMStack, SequencesExt

CONSTANTS
  Threads,
  Main,        \* the main thread, which outlives the others
  NotThread,   \* an argument that is no Thread
  AppFrames,   \* the frames a program pushes
  BottomFrame, \* the dummy frame every stack starts with
  CallerLocationsFrame,          \* Backtracie.caller_locations (Ruby)
  PrimitiveCallerLocationsFrame, \* Primitive.caller_locations (C)
  BacktraceLocationsFrame,       \* Backtracie.backtrace_locations (C)
  EnsureObjectIsThreadFrame,     \* Backtracie.ensure_object_is_thread (Ruby)
  InitializeFrame,               \* Backtracie::Location#initialize (Ruby)
  MaxDepth     \* bound: how deep each thread's program nests, bottom included

LibraryFrames == {CallerLocationsFrame, PrimitiveCallerLocationsFrame,
                  BacktraceLocationsFrame, EnsureObjectIsThreadFrame,
                  InitializeFrame}

ASSUME CollectorAssumption ==
  /\ Main \in Threads
  /\ NULL \notin Threads
  /\ NotThread \notin Threads
  /\ NotThread # NULL
  /\ {BottomFrame} \cup AppFrames \cup LibraryFrames \subseteq Frame
  /\ MaxDepth \in [Threads -> Nat]
  /\ NULL \notin Seq(Location)  \* nil is no array

VARIABLES
  gvl,     \* the thread that holds the GVL
  status,  \* each thread: alive, to_kill, killed
  stack,   \* each thread's control frames, oldest first
  pc,      \* where each thread is: in the program, or in which step of a call
  saved,   \* the stack an exception unwinds to
  target,  \* collect_backtrace_locations' thread
  ignored, \* ... ignored_stack_top_frames
  count,   \* ... raw_frame_count, the capacity of raw_frames
  index,   \* ... i of the running loop
  frames,  \* ... raw_frames[0 .. *raw_frames_len - 1]
  prev,    \* ... prev_ruby_loc: 0 for NULL, or its position in frames
  locs     \* ... rb_locations, or the nil returned in its place

callVars == <<saved, target, ignored, count, index, frames, prev, locs>>
vars == <<gvl, status, stack, pc, callVars>>

Statuses == {"alive", "to_kill", "killed"}

-----------------------------------------------------------------------------
(* Mutant: the loop that captures frames lets other threads run. *)
Safepoints_InLoop ==
  {"program", "wrapper", "ensure", "initialize", "return", "capture"}

(* MRI runs another thread, or delivers an exception, only where the       *)
(* running one executes Ruby code: in the program, in the two Ruby methods *)
(* of the library that a call goes through, in Location#initialize, and on *)
(* the way back.                                                           *)
Safepoints == {"program", "wrapper", "ensure", "initialize", "return"}

AtSafepoint(t) == pc[t] \in Safepoints

InCall(t) == pc[t] \notin {"program", "crash"}

Running(t) == gvl = t /\ status[t] # "killed"

InProgram(t) == Running(t) /\ pc[t] = "program" /\ stack[t] # <<>>

(* backtracie_is_thread_alive *)
Alive(t) == status[t] \notin {"to_kill", "killed"}

(* backtracie_frame_count_for_thread *)
FrameCountForThread(t) == IF Alive(t) THEN FrameCount(stack[t]) ELSE 0

Push(t, f) == stack' = [stack EXCEPT ![t] = Append(@, f)]

Pop(t) == stack' = [stack EXCEPT ![t] = Front(@)]

(* The call is over: its C locals are gone. *)
Forget(t) ==
  /\ saved' = [saved EXCEPT ![t] = <<>>]
  /\ target' = [target EXCEPT ![t] = NULL]
  /\ ignored' = [ignored EXCEPT ![t] = 0]
  /\ count' = [count EXCEPT ![t] = 0]
  /\ index' = [index EXCEPT ![t] = 0]
  /\ frames' = [frames EXCEPT ![t] = <<>>]
  /\ prev' = [prev EXCEPT ![t] = 0]
  /\ locs' = [locs EXCEPT ![t] = NULL]

(* Leave the call, by a return or an exception, for the frame it was made in. *)
LeaveCall(t) ==
  /\ pc' = [pc EXCEPT ![t] = "program"]
  /\ stack' = [stack EXCEPT ![t] = saved[t]]
  /\ Forget(t)

Goto(t, step) == pc' = [pc EXCEPT ![t] = step]

Init ==
  /\ gvl = Main
  /\ status = [t \in Threads |-> "alive"]
  /\ stack = [t \in Threads |-> IF t = Main THEN <<BottomFrame>> ELSE <<>>]
  /\ pc = [t \in Threads |-> "program"]
  /\ saved = [t \in Threads |-> <<>>]
  /\ target = [t \in Threads |-> NULL]
  /\ ignored = [t \in Threads |-> 0]
  /\ count = [t \in Threads |-> 0]
  /\ index = [t \in Threads |-> 0]
  /\ frames = [t \in Threads |-> <<>>]
  /\ prev = [t \in Threads |-> 0]
  /\ locs = [t \in Threads |-> NULL]

-----------------------------------------------------------------------------
(* The program and the VM. *)

(* A new thread gets its first frame when it first runs. *)
Start(t) ==
  /\ Running(t) /\ pc[t] = "program" /\ stack[t] = <<>>
  /\ Push(t, BottomFrame)
  /\ UNCHANGED <<gvl, status, pc, callVars>>

(* A Ruby frame calls only after it started to execute. *)
Call(t, f) ==
  /\ InProgram(t) /\ Len(stack[t]) < MaxDepth[t]
  /\ Last(stack[t]).ruby => Last(stack[t]).pc # 0
  /\ Push(t, f)
  /\ UNCHANGED <<gvl, status, pc, callVars>>

LeaveMethod(t) ==
  /\ InProgram(t) /\ Len(stack[t]) > 1
  /\ Pop(t)
  /\ UNCHANGED <<gvl, status, pc, callVars>>

(* The newest frame executes its next instruction. *)
Advance(t) ==
  /\ InProgram(t)
  /\ LET f == Last(stack[t])
     IN  /\ f.ruby /\ f.pc # NULL /\ f.pc < Len(LineTable[f.iseq])
         /\ stack' = [stack EXCEPT ![t][Len(stack[t])].pc = @ + 1]
  /\ UNCHANGED <<gvl, status, pc, callVars>>

Terminate(t) ==
  /\ InProgram(t) /\ t # Main /\ Len(stack[t]) = 1
  /\ status' = [status EXCEPT ![t] = "killed"]
  /\ stack' = [stack EXCEPT ![t] = <<>>]
  /\ \E u \in Threads \ {t} : status[u] # "killed" /\ gvl' = u
  /\ UNCHANGED <<pc, callVars>>

(* Thread#kill or Thread#raise takes effect: the kill is recorded in the   *)
(* thread before its ensure clauses run, and either one ends the call.     *)
Interrupt(t) ==
  /\ Running(t) /\ stack[t] # <<>> /\ AtSafepoint(t)
  /\ \/ t # Main /\ status' = [status EXCEPT ![t] = "to_kill"]
     \/ UNCHANGED status
  /\ IF InCall(t) THEN LeaveCall(t) ELSE UNCHANGED <<stack, pc, callVars>>
  /\ UNCHANGED gvl

Switch(t) ==
  /\ \E u \in Threads \ {t} : gvl = u /\ AtSafepoint(u)
  /\ status[t] # "killed"
  /\ gvl' = t
  /\ UNCHANGED <<status, stack, pc, callVars>>

-----------------------------------------------------------------------------
(* The entry points. *)

(* Backtracie.backtrace_locations(u), up to its call of                    *)
(* ensure_object_is_thread.                                                *)
BacktraceLocations(t, u) ==
  /\ InProgram(t)
  /\ stack' = [stack EXCEPT
       ![t] = @ \o <<BacktraceLocationsFrame, EnsureObjectIsThreadFrame>>]
  /\ saved' = [saved EXCEPT ![t] = stack[t]]
  /\ target' = [target EXCEPT ![t] = u]
  /\ Goto(t, "ensure")
  /\ UNCHANGED <<gvl, status, ignored, count, index, frames, prev, locs>>

(* ensure_object_is_thread raises ArgumentError or returns. *)
EnsureObjectIsThread(t) ==
  /\ Running(t) /\ pc[t] = "ensure"
  /\ IF target[t] = NotThread
     THEN LeaveCall(t)
     ELSE Pop(t) /\ Goto(t, "alive") /\ UNCHANGED callVars
  /\ UNCHANGED <<gvl, status>>

CallerLocations(t) ==
  /\ InProgram(t)
  /\ Push(t, CallerLocationsFrame)
  /\ saved' = [saved EXCEPT ![t] = stack[t]]
  /\ Goto(t, "wrapper")
  /\ UNCHANGED <<gvl, status, target, ignored, count, index, frames, prev, locs>>

(* Mutant: the frame of this C function is not counted. *)
PrimitiveCallerLocations_Two(t) ==
  /\ Running(t) /\ pc[t] = "wrapper"
  /\ Push(t, PrimitiveCallerLocationsFrame)
  /\ ignored' = [ignored EXCEPT ![t] = 2]
  /\ Goto(t, "alive")
  /\ UNCHANGED <<gvl, status, saved, target, count, index, frames, prev, locs>>

(* The newest frames left out: this C function's, the wrapper's, and that  *)
(* of the wrapper's caller.                                                *)
PrimitiveCallerLocations(t) ==
  /\ Running(t) /\ pc[t] = "wrapper"
  /\ Push(t, PrimitiveCallerLocationsFrame)
  /\ ignored' = [ignored EXCEPT ![t] = 3]
  /\ Goto(t, "alive")
  /\ UNCHANGED <<gvl, status, saved, target, count, index, frames, prev, locs>>

-----------------------------------------------------------------------------
(* collect_backtrace_locations *)

(* Mutant: a dead thread is taken for one without frames. *)
CheckAlive_Unchecked(t) ==
  /\ Running(t) /\ pc[t] = "alive"
  /\ target' = [target EXCEPT ![t] = IF target[t] = NULL THEN t ELSE target[t]]
  /\ Goto(t, "count")
  /\ UNCHANGED <<gvl, status, stack, saved, ignored, count, index, frames, prev,
                 locs>>

CheckAlive(t) ==
  /\ Running(t) /\ pc[t] = "alive"
  /\ LET thread == IF target[t] = NULL THEN t ELSE target[t]
     IN  /\ target' = [target EXCEPT ![t] = thread]
         /\ IF Alive(thread)
            THEN Goto(t, "count") /\ UNCHANGED stack
            ELSE Goto(t, "return") /\ Pop(t)
  /\ UNCHANGED <<gvl, status, saved, ignored, count, index, frames, prev, locs>>

(* Count the frames and make room for them. *)
CountFrames(t) ==
  /\ Running(t) /\ pc[t] = "count"
  /\ count' = [count EXCEPT ![t] = FrameCountForThread(target[t])]
  /\ index' = [index EXCEPT ![t] = ignored[t]]
  /\ frames' = [frames EXCEPT ![t] = <<>>]
  /\ Goto(t, "capture")
  /\ UNCHANGED <<gvl, status, stack, saved, target, ignored, prev, locs>>

(* Mutant: the result of capture_frame is ignored. *)
CaptureInto_CountsInvalid(t, s) ==
  /\ InRange(s, index[t])
  /\ index' = [index EXCEPT ![t] = @ + 1]
  /\ frames' = [frames EXCEPT ![t] = Append(@, Capture(FrameAt(s, index[t])))]
  /\ UNCHANGED pc

(* backtracie_capture_frame_for_thread on frame index[t] of s: refused for *)
(* a dead thread, an assertion failure out of range, and otherwise the     *)
(* frame is kept if it belongs in a backtrace.                             *)
CaptureInto(t, s) ==
  LET f == FrameAt(s, index[t])
  IN  IF Alive(target[t]) /\ ~ InRange(s, index[t])
      THEN Goto(t, "crash") /\ UNCHANGED <<index, frames>>
      ELSE /\ index' = [index EXCEPT ![t] = @ + 1]
           /\ frames' = IF Alive(target[t]) /\ IsValid(f)
                        THEN [frames EXCEPT ![t] = Append(@, Capture(f))]
                        ELSE frames
           /\ UNCHANGED pc

CaptureFrame(t) ==
  /\ Running(t) /\ pc[t] = "capture" /\ index[t] < count[t]
  /\ CaptureInto(t, stack[target[t]])
  /\ UNCHANGED <<gvl, status, stack, saved, target, ignored, count, prev, locs>>

(* The loop ends; the array of locations is made. *)
EndCapture(t) ==
  /\ Running(t) /\ pc[t] = "capture" /\ index[t] >= count[t]
  /\ locs' = [locs EXCEPT ![t] = [n \in 1 .. Len(frames[t]) |-> NULL]]
  /\ index' = [index EXCEPT ![t] = Len(frames[t])]
  /\ prev' = [prev EXCEPT ![t] = 0]
  /\ Goto(t, "convert")
  /\ UNCHANGED <<gvl, status, stack, saved, target, ignored, count, frames>>

(* Mutant: every C frame is located at the oldest Ruby frame. *)
ConvertFrame_KeepsFirst(t) ==
  /\ Running(t) /\ pc[t] = "convert" /\ index[t] > 0
  /\ prev' = IF frames[t][index[t]].ruby /\ prev[t] = 0
             THEN [prev EXCEPT ![t] = index[t]] ELSE prev
  /\ Push(t, InitializeFrame)
  /\ Goto(t, "initialize")
  /\ UNCHANGED <<gvl, status, saved, target, ignored, count, index, frames, locs>>

(* The second loop, oldest frame first, calls Location.new ... *)
ConvertFrame(t) ==
  /\ Running(t) /\ pc[t] = "convert" /\ index[t] > 0
  /\ prev' = IF frames[t][index[t]].ruby
             THEN [prev EXCEPT ![t] = index[t]] ELSE prev
  /\ Push(t, InitializeFrame)
  /\ Goto(t, "initialize")
  /\ UNCHANGED <<gvl, status, saved, target, ignored, count, index, frames, locs>>

(* Mutant: the loop counter stays. *)
StoreLocation_SameIndex(t) ==
  /\ Running(t) /\ pc[t] = "initialize"
  /\ locs' = [locs EXCEPT
       ![t][index[t]] = ToLocation(frames[t], index[t], prev[t])]
  /\ Pop(t)
  /\ Goto(t, "convert")
  /\ UNCHANGED <<gvl, status, saved, target, ignored, count, index, frames, prev>>

(* ... and stores the new location. *)
StoreLocation(t) ==
  /\ Running(t) /\ pc[t] = "initialize"
  /\ locs' = [locs EXCEPT
       ![t][index[t]] = ToLocation(frames[t], index[t], prev[t])]
  /\ index' = [index EXCEPT ![t] = @ - 1]
  /\ Pop(t)
  /\ Goto(t, "convert")
  /\ UNCHANGED <<gvl, status, saved, target, ignored, count, frames, prev>>

EndConvert(t) ==
  /\ Running(t) /\ pc[t] = "convert" /\ index[t] = 0
  /\ Pop(t)
  /\ Goto(t, "return")
  /\ UNCHANGED <<gvl, status, callVars>>

(* The value reaches the caller. *)
Return(t) ==
  /\ Running(t) /\ pc[t] = "return"
  /\ LeaveCall(t)
  /\ UNCHANGED <<gvl, status>>

-----------------------------------------------------------------------------
LibraryStep(t) ==
  \/ EnsureObjectIsThread(t) \/ PrimitiveCallerLocations(t)
  \/ CheckAlive(t) \/ CountFrames(t) \/ CaptureFrame(t) \/ EndCapture(t)
  \/ ConvertFrame(t) \/ StoreLocation(t) \/ EndConvert(t) \/ Return(t)

ProgramStep(t) ==
  \/ Start(t) \/ LeaveMethod(t) \/ Advance(t) \/ Terminate(t) \/ Interrupt(t)
  \/ \E f \in AppFrames : Call(t, f)
  \/ \E u \in Threads \cup {NotThread} : BacktraceLocations(t, u)
  \/ CallerLocations(t)

Next == \E t \in Threads : LibraryStep(t) \/ ProgramStep(t) \/ Switch(t)

Spec == Init /\ [][Next]_vars

(* The GVL is handed round: a thread waiting for it gets it, and once it   *)
(* has it runs long enough to make a step.                                 *)
Fairness == \A t \in Threads : SF_vars(Switch(t)) /\ SF_vars(LibraryStep(t))

FairSpec == Spec /\ Fairness

-----------------------------------------------------------------------------
(* Properties *)

(* Every variable has a value the code can give it. *)
TypeOK ==
  /\ gvl \in Threads
  /\ status \in [Threads -> Statuses]
  /\ stack \in [Threads -> Seq(Frame)]
  /\ pc \in [Threads -> Safepoints \cup {"alive", "count", "capture",
                                         "convert", "crash"}]
  /\ saved \in [Threads -> Seq(Frame)]
  /\ target \in [Threads -> Threads \cup {NotThread, NULL}]
  /\ ignored \in [Threads -> {0, 3}]
  /\ count \in [Threads -> Nat]
  /\ index \in [Threads -> Nat]
  /\ frames \in [Threads -> Seq(RawLocation)]
  /\ prev \in [Threads -> Nat]
  /\ locs \in [Threads -> Seq(Location \cup {NULL}) \cup {NULL}]

(* The assertion of capture_frame ("called capture_frame with an invalid   *)
(* index") never fails, whatever the captured thread did before, although  *)
(* the count was taken some calls earlier.                                 *)
NeverCrashes == \A t \in Threads : pc[t] # "crash"

(* While frames are being captured they are those of the subject's stack   *)
(* as it is now: nothing moved under the loop.  In particular they fit in  *)
(* the wrapper, which has room for count[t] of them.                       *)
CapturesPresentStack ==
  \A t \in Threads : pc[t] = "capture" =>
    IsCapture(frames[t], stack[target[t]], ignored[t],
              IF index[t] <= count[t] THEN index[t] ELSE count[t])

(* caller_locations answers with the stack below its caller, as            *)
(* Kernel#caller_locations does: no frame of the library, none of the      *)
(* caller, and none other missing.                                         *)
CallerLocationsIsCallersView ==
  \A t \in Threads :
    pc[t] = "return" /\ stack[t] # saved[t] /\ locs[t] # NULL =>
      IsBacktrace(locs[t], saved[t], 1)

(* A call ends: it returns or an exception leaves it. *)
EveryCallEnds == \A t \in Threads : InCall(t) ~> ~ InCall(t)

(* The collector implements Backtrace: one answer per request, taken from  *)
(* the subject's stack at one instant.                                     *)
Requested(t) == pc[t] \notin {"program", "wrapper", "ensure"}

Phase(t) ==
  IF ~ Requested(t) THEN "none"
  ELSE IF pc[t] \in {"convert", "initialize", "return"} THEN "answered"
  ELSE "asked"

Subject(t) ==
  IF ~ Requested(t) THEN NULL
  ELSE IF target[t] = NULL THEN t ELSE target[t]

Answer(t) ==
  IF pc[t] \in {"convert", "initialize"} THEN Locate(frames[t])
  ELSE IF pc[t] = "return" THEN locs[t] ELSE NULL

Abstract == INSTANCE Backtrace WITH
  phase   <- [t \in Threads |-> Phase(t)],
  subject <- [t \in Threads |-> Subject(t)],
  skipped <- ignored,
  answer  <- [t \in Threads |-> Answer(t)]

ImplementsBacktrace == Abstract!Spec

(* Each call fills its wrapper as FrameWrapper says: what it captures fits *)
(* the room made for it, and from the making of the wrapper to the end of  *)
(* the first loop the thread keeps the GVL and nothing but that loop's     *)
(* end, no exception and no crash, takes it out.                           *)
Filled(t) == pc[t] \in {"capture", "convert", "initialize"}

Stage(t) == IF pc[t] = "capture" THEN "capture"
            ELSE IF Filled(t) THEN "read" ELSE "idle"

Room(t) == IF Filled(t) THEN count[t] ELSE 0

Held(t) == IF Filled(t) THEN Len(frames[t]) ELSE 0

Wrapper == INSTANCE FrameWrapper WITH
  Callers <- Threads,
  holder  <- gvl,
  stage   <- [t \in Threads |-> Stage(t)],
  capa    <- [t \in Threads |-> Room(t)],
  len     <- [t \in Threads |-> Held(t)]

ImplementsWrapper == Wrapper!Spec
=============================================================================
