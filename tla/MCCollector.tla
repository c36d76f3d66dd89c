----------------------------- MODULE MCCollector -----------------------------
(***************************************************************************)
(* A small program for TLC: two threads that call a Ruby method of an      *)
(* object and, through the library, C functions of a module.               *)
(***************************************************************************)
EXTENDS Collector

CONSTANTS main, worker   \* the threads

MCThreads == {main, worker}
MCMaxDepth ==
  [t \in MCThreads |-> IF t = main THEN 2 ELSE 3]

MCIseqs == {"method", "ifunc", "backtracie"}
MCLineTable == [i \in MCIseqs |->
                  CASE i = "method" -> <<5>>
                    [] i = "ifunc" -> <<>>
                    [] i = "backtracie" -> <<40, 41>>]
MCCmes == {"ruby_method", "c_method", "lib_method", "lib_c_method"}
MCCFuncs == {"c_method", "lib_c_method"}
MCObjects == {"object", "Class", "Module", "FrozenCore"}
MCModules == {"Class", "Module"}
MCClassOf == [o \in MCObjects |-> "Class"]

RubyFrame == [ruby |-> TRUE, iseq |-> "method", pc |-> 0,
              cme |-> "ruby_method", self |-> "object"]
CFrame == [ruby |-> FALSE, iseq |-> NULL, pc |-> NULL,
           cme |-> "c_method", self |-> "Module"]
MCAppFrames == {RubyFrame}
MCBottomFrame == [ruby |-> FALSE, iseq |-> NULL, pc |-> NULL,
                  cme |-> NULL, self |-> "object"]

LibraryRuby == [ruby |-> TRUE, iseq |-> "backtracie", pc |-> 1,
                cme |-> "lib_method", self |-> "Module"]
LibraryC == [ruby |-> FALSE, iseq |-> NULL, pc |-> NULL,
             cme |-> "lib_c_method", self |-> "Module"]
=============================================================================
