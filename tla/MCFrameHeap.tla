----------------------------- MODULE MCFrameHeap -----------------------------
(***************************************************************************)
(* For TLC: frames of a method of an object of class Foo, of that method   *)
(* on an object with a singleton class, of a block called on the first     *)
(* object outside of any method, and of Foo's body.                        *)
(***************************************************************************)
EXTENDS FrameHeap

MCLineTable == [i \in {"iseq"} |-> <<1>>]

(* Foo stands for its own class as well. *)
MCClassOf ==
  [o \in {"object", "extended", "Foo", "extended_S"} |->
     IF o = "extended" THEN "extended_S" ELSE "Foo"]
MCDefinedClass == [c \in {"method"} |-> "Foo"]

MCBaseLabel == [i \in {"iseq"} |-> "label"]

MCReferences ==
  [object |-> {"Foo"}, extended |-> {"extended_S"},
   extended_S |-> {"Foo", "extended"}, Foo |-> {"Foo"},
   method |-> {"Foo", "iseq"}, iseq |-> {"label"}, label |-> {}]

MCDroppable ==
  {{"iseq"}, {"label"}, {"method"}, {"object"}, {"extended", "extended_S"}}

MCHome ==
  [object |-> 7, extended |-> 2, extended_S |-> 3, Foo |-> 4,
   method |-> 5, iseq |-> 6, label |-> 1]

RubyFrame(c, o) == [ruby |-> TRUE, iseq |-> "iseq", pc |-> 1, cme |-> c, self |-> o]

MethodFrame == RubyFrame("method", "object")
SingletonFrame == RubyFrame("method", "extended")
BlockFrame == RubyFrame(NULL, "object")
BodyFrame == RubyFrame(NULL, "Foo")

MCCapturedFrames == {MethodFrame, SingletonFrame, BlockFrame, BodyFrame}
=============================================================================
