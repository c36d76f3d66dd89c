----------------------- MODULE LegacyCallerLocations -----------------------
(***************************************************************************)
(* Backtracie.caller_locations on Ruby < 2.5: a Ruby method that asks      *)
(* Collector's backtrace_locations for the backtrace of the thread it runs *)
(* on and slices the first three entries off.  What kind of Ruby method it *)
(* is does not show in the answer, so any Ruby frame of the program that   *)
(* asks about its own thread stands for it.                                *)
(***************************************************************************)
EXTENDS Collector

(* Backtracie.backtrace_locations is a C function, which backtraces show,  *)
(* and a Ruby method has a next instruction from the start.                *)
ASSUME LegacyAssumption ==
  /\ IsValid(BacktraceLocationsFrame)
  /\ \A f \in AppFrames : f.ruby => f.pc # NULL

(* Mutant: one of the library's own entries is left in. *)
Slice_Two(array) ==
  IF Len(array) < 2 THEN NULL ELSE SubSeq(array, 3, Len(array))

(* array[3..-1]: nil when the array is shorter than that. *)
Slice(array) ==
  IF Len(array) < 3 THEN NULL ELSE SubSeq(array, 4, Len(array))

(* backtrace_locations(Thread.current) returns an array to caller_locations *)
Sliced(t) ==
  /\ pc[t] = "return" /\ target[t] = t /\ stack[t] = saved[t] /\ locs[t] # NULL
  /\ Last(saved[t]).ruby /\ Len(saved[t]) > 1

-----------------------------------------------------------------------------
(* Properties *)

(* The slice counts entries of the array, where lib/backtracie.rb:34-35    *)
(* speaks of frames.  The answer is the stack of the caller below its      *)
(* newest frame that backtraces show: that is its own frame, as in newer   *)
(* Rubies, unless it runs in one that no backtrace shows, and then one     *)
(* more is missing; nil if they show none.                                 *)
LegacySkipsToShownCaller ==
  \A t \in Threads : Sliced(t) =>
    LET caller == Front(saved[t])
        shown  == Shown(caller, 0, FrameCount(caller))
        value  == Slice(locs[t])
    IN  IF shown = {} THEN value = NULL
        ELSE value # NULL /\ IsBacktrace(value, caller, Min(shown) + 1)
=============================================================================
