----------------------------- MODULE MCDeepStack -----------------------------
(***************************************************************************)
(* One thread and deeper stacks, of longer methods and with blocks written *)
(* in C (an "ifunc" has code but no pc, and no backtrace shows it, though  *)
(* its method entry is a C function): every arrangement of these frames.   *)
(***************************************************************************)
EXTENDS MCCollector, LegacyCallerLocations

DeepThreads == {main}
DeepMaxDepth == [t \in DeepThreads |-> 6]
IFrame == [ruby |-> FALSE, iseq |-> "ifunc", pc |-> NULL,
           cme |-> "c_method", self |-> "FrozenCore"]

DeepAppFrames == {RubyFrame, CFrame, IFrame}
DeepLineTable == [MCLineTable EXCEPT !["method"] = <<5, 7>>]
=============================================================================
