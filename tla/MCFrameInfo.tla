----------------------------- MODULE MCFrameInfo -----------------------------
(***************************************************************************)
(* For TLC: a class Foo that includes a named and an anonymous module, an  *)
(* anonymous subclass of an anonymous subclass of it, singleton classes of *)
(* a class, of modules, of a singleton class and of an object, a           *)
(* refinement of Foo made in the module Mixin, an object and a module that *)
(* are extended with a module, an anonymous module without a singleton     *)
(* class (as after Module.new without a def self.method), and an instance  *)
(* of a subclass of Module.                                                *)
(***************************************************************************)
EXTENDS FrameInfo

MCModules == {"BasicObject", "Object", "Module", "Class", "Foo", "AnonFoo",
  "AnonAnon", "Mixin", "AnonMixin", "Refinement", "InFoo_Mixin",
  "InFoo_AnonMixin", "InFoo_Refinement", "InObject_Mixin", "InAnonMixin_S",
  "Refinement_S", "Foo_S", "Foo_S_S", "AnonFoo_S",
  "AnonMixin_S", "object_S", "Bare", "SubModule", "SubMixin", "SubMixin_S"}
MCIClasses == {"InFoo_Mixin", "InFoo_AnonMixin", "InFoo_Refinement",
               "InObject_Mixin", "InAnonMixin_S"}
MCPlainModules == {"Mixin", "AnonMixin", "Refinement", "Bare", "SubMixin"}
MCSingletons == {"Foo_S", "Foo_S_S", "AnonFoo_S", "AnonMixin_S", "object_S",
                 "SubMixin_S", "Refinement_S"}
MCFirstNames == {"BasicObject", "Object", "Module", "Class", "Foo", "Mixin",
                 "SubModule", "SubMixin"}
MCConstantName == [k \in MCModules |-> k]

MCObjects == MCModules \cup {"main", "FrozenCore", "object", "object2", "anon"}

(* Super, ClassOf, ... given by pairs, with a default. *)
Table(domain, pairs, default) ==
  [k \in domain |-> IF \E p \in pairs : p[1] = k
                    THEN (CHOOSE p \in pairs : p[1] = k)[2] ELSE default]

MCSuper == Table(MCModules,
  {<<"BasicObject", NULL>>, <<"Object", "BasicObject">>, <<"Class", "Module">>,
   <<"Foo", "InFoo_Refinement">>, <<"InFoo_Refinement", "InFoo_Mixin">>,
   <<"InFoo_Mixin", "InFoo_AnonMixin">>, <<"AnonFoo", "Foo">>,
   <<"AnonAnon", "AnonFoo">>, <<"Foo_S", "Class">>, <<"Foo_S_S", "Class">>,
   <<"AnonFoo_S", "Foo_S">>, <<"AnonMixin_S", "InAnonMixin_S">>,
   <<"InAnonMixin_S", "Module">>, <<"object_S", "InObject_Mixin">>,
   <<"InObject_Mixin", "AnonFoo">>, <<"Refinement_S", "Module">>,
   <<"Mixin", NULL>>, <<"AnonMixin", NULL>>, <<"Bare", NULL>>, <<"Refinement", NULL>>,
   <<"SubModule", "Module">>, <<"SubMixin_S", "SubModule">>, <<"SubMixin", NULL>>},
  "Object")

MCClassOf == Table(MCObjects,
  {<<"Foo", "Foo_S">>, <<"Foo_S", "Foo_S_S">>, <<"AnonFoo", "AnonFoo_S">>,
   <<"Mixin", "Module">>, <<"Bare", "Module">>, <<"AnonMixin", "AnonMixin_S">>, <<"Refinement", "Refinement_S">>,
   <<"InObject_Mixin", "Mixin">>, <<"InAnonMixin_S", "AnonMixin">>,
   <<"InFoo_Mixin", "Mixin">>, <<"InFoo_AnonMixin", "AnonMixin">>,
   <<"InFoo_Refinement", "Refinement">>,
   <<"main", "Object">>, <<"FrozenCore", "Object">>, <<"object", "AnonAnon">>,
   <<"object2", "object_S">>, <<"anon", "Foo">>, <<"SubMixin", "SubMixin_S">>},
  "Class")

MCAttached == Table(MCModules,
  {<<"Foo_S", "Foo">>, <<"Foo_S_S", "Foo_S">>, <<"AnonFoo_S", "AnonFoo">>,
   <<"AnonMixin_S", "AnonMixin">>, <<"object_S", "object2">>,
   <<"SubMixin_S", "SubMixin">>, <<"Refinement_S", "Refinement">>}, NULL)

MCRefinedClass == Table(MCModules, {<<"Refinement", "Foo">>}, NULL)
MCDefinedAt == Table(MCModules, {<<"Refinement", "Mixin">>}, NULL)

MCIseqs == {"method", "block", "eval", "class_body", "main_script"}
MCIseqType == [i \in MCIseqs |->
  CASE i \in {"block", "eval"} -> i [] i = "class_body" -> "class"
    [] i = "main_script" -> "main" [] OTHER -> "method"]
MCLineTable == [i \in MCIseqs |-> <<3>>]
MCLabels == [i \in MCIseqs |-> "label of " \o i]
MCPaths == [i \in MCIseqs |-> "path of " \o i]
MCRealPaths == [i \in MCIseqs |-> IF i = "eval" THEN NULL ELSE "real path of " \o i]

(* Method entries, named for the class or inclusion that defines them. *)
MCCmes == {"Foo", "AnonFoo", "AnonAnon", "InFoo_AnonMixin", "InFoo_Refinement",
           "Foo_S", "Foo_S_S", "AnonMixin_S", "object_S", "SubMixin_S", "c:Object", "c:Foo_S",
           "c:Class"}
MCCFuncs == {"c:Object", "c:Foo_S", "c:Class"}
MCDefinedClass == [c \in MCCmes |->
  CASE c = "c:Object" -> "Object" [] c = "c:Foo_S" -> "Foo_S"
    [] c = "c:Class" -> "Class" [] OTHER -> c]
MCCalledId == [c \in MCCmes |-> "method of " \o c]

RubyFrame(i, c, o) == [ruby |-> TRUE, iseq |-> i, pc |-> 1, cme |-> c, self |-> o]
CFrame(c, o) == [ruby |-> FALSE, iseq |-> NULL, pc |-> NULL, cme |-> c, self |-> o]

MCCapturedFrames ==
  {RubyFrame("method", c, "object") :
     c \in {"Foo", "AnonFoo", "AnonAnon", "InFoo_AnonMixin", "InFoo_Refinement"}}
  \cup {RubyFrame("block", "AnonFoo", "object"), RubyFrame("eval", "Foo", "anon"),
        RubyFrame("method", "object_S", "object2"),
        RubyFrame("method", "Foo_S", "Foo"), RubyFrame("method", "Foo_S", "AnonFoo"),
        RubyFrame("method", "Foo_S_S", "Foo_S"),
        RubyFrame("method", "AnonMixin_S", "AnonMixin"),
        RubyFrame("method", "SubMixin_S", "SubMixin"),
        RubyFrame("class_body", NULL, "AnonFoo"), RubyFrame("class_body", NULL, "Mixin"),
        RubyFrame("class_body", NULL, "object_S"),
        RubyFrame("class_body", NULL, "SubMixin_S"),
        RubyFrame("class_body", NULL, "Bare"),
        RubyFrame("main_script", NULL, "main"), RubyFrame("block", NULL, "main"),
        RubyFrame("block", NULL, "object"), RubyFrame("block", NULL, "Foo"),
        RubyFrame("block", NULL, "object2"),
        CFrame("c:Object", "object"), CFrame("c:Object", "FrozenCore"),
        CFrame("c:Foo_S", "Foo"), CFrame("c:Class", "AnonAnon"),
        \* frames that are no part of a backtrace: the dummy at the bottom, and
        \* a Ruby frame that the VM has not started
        CFrame(NULL, "main"),
        [RubyFrame("main_script", NULL, "main") EXCEPT !.pc = NULL]}

(* Without the other frame whose name is known to deviate. *)
BareCapturedFrames == {f \in MCCapturedFrames : f.self # "SubMixin_S"}
=============================================================================
