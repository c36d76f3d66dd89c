---------------------------- MODULE MCMainObject ----------------------------
(***************************************************************************)
(* For TLC: the main program's frame, on main, and a method's on an object *)
(***************************************************************************)
EXTENDS MainObject

MCLineTable == [i \in {"iseq"} |-> <<1>>]
MCClassOf == [o \in {"main", "FrozenCore", "object", "Foo"} |-> "Foo"]
MCDefinedClass == [c \in {"method"} |-> "Foo"]
NoBaseLabel == [i \in {"iseq"} |-> NULL]
MCReferences ==
  [main |-> {"Foo"}, FrozenCore |-> {"Foo"}, object |-> {"Foo"}, Foo |-> {"Foo"},
   method |-> {"Foo", "iseq"}, iseq |-> {}]

MCHome ==
  [main |-> 1, FrozenCore |-> 2, object |-> 3, Foo |-> 4, method |-> 5, iseq |-> 6]

RubyFrame(c, o) == [ruby |-> TRUE, iseq |-> "iseq", pc |-> 1, cme |-> c, self |-> o]
MCCapturedFrames == {RubyFrame(NULL, "main"), RubyFrame("method", "object")}
=============================================================================
