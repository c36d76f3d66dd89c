----------------------------- MODULE MainObject -----------------------------
(***************************************************************************)
(* The library's reference to the main object,                             *)
(* backtracie_main_object_instance: taken when the extension is loaded,    *)
(* compared with the receiver of every captured frame, and never           *)
(* registered with the garbage collector, which may move that object as it *)
(* may any other that only the VM refers to.                               *)
(***************************************************************************)
EXTENDS FrameHeap

CONSTANTS Main, FrozenCore   \* the members of SpecialObjects

VARIABLES
  mainRef,   \* backtracie_main_object_instance
  keptFrame  \* the frame of the client's location, or NULL

mainVars == <<vars, mainRef, keptFrame>>

(* object_has_special_bt_handling; FrozenCore is pinned by the VM. *)
HasSpecialHandling(obj) == at[obj] = mainRef \/ obj = FrozenCore

(* backtracie_capture_frame_for_thread, with that comparison. *)
CaptureNow(f) ==
  LET real == HasSpecialHandling(f.self) \/ f.self \in Modules
  IN  [Capture(f) EXCEPT !.self = IF real THEN f.self ELSE ClassOf[f.self],
                         !.realSelf = real]

(* Init_backtracie_native_extension *)
MainInit == Init /\ mainRef = at[Main] /\ keptFrame = NULL

KeepFrame(f) ==
  /\ step = "idle" /\ owner = "none" /\ kept = NULL /\ OnStack(f)
  /\ keptOf' = RawMembers(CaptureNow(f)) /\ kept' = Stored(keptOf')
  /\ how' \in {"pinned", "movable"}
  /\ keptFrame' = f
  /\ UNCHANGED <<heapVars, step, wrapperVars, mainRef>>

MainNext ==
  \/ CollectGarbage /\ UNCHANGED <<mainRef, keptFrame>>
  \/ DropLocation /\ keptFrame' = NULL /\ UNCHANGED mainRef
  \/ \E f \in CapturedFrames : KeepFrame(f)

MainSpec == MainInit /\ [][MainNext]_mainVars

(* public/backtracie.h:53-58: a location has the actual self of its frame  *)
(* if that is the main object, and of no other object that is not special. *)
MainIsRecognised ==
  keptFrame # NULL => keptOf["self"] = Capture(keptFrame).self
=============================================================================
