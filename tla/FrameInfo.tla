------------------------------ MODULE FrameInfo ------------------------------
(***************************************************************************)
(* What backtracie tells of one captured frame: its qualified name, label, *)
(* file name and its stand-in for the rb_profile_frames API, from the raw  *)
(* location or from the "minimal" one computed from it.                    *)
(*                                                                         *)
(* A client captures a frame, keeps the location while the program goes on *)
(* (and may give a constant's name to an anonymous class), and asks about  *)
(* it later.  A qualified name is put together by functions that call each *)
(* other: todo is what they still have to do, out what they have appended. *)
(* Answers are sequences of the pieces appended.                           *)
(***************************************************************************)
EXTENDS VMStack, SequencesExt, Functions

CONSTANTS
  MainObject, FrozenCore,    \* the two special objects
  Class, Module,             \* rb_cClass, rb_cModule
  IClasses,                  \* of the Modules, those that are T_ICLASS,
  PlainModules,              \* those that are T_MODULE (the rest is T_CLASS),
  Singletons,                \* those with FL_SINGLETON
  Refinements,               \* and those with RMODULE_IS_REFINEMENT
  Super,                     \* RCLASS_SUPER, NULL above the root
  Attached,                  \* for a singleton class, __attached__
  RefinedClass, DefinedAt,   \* for a refinement
  IClassSharesName,          \* does rb_mod_name of an iclass give its module's?
  ConstantName,              \* the constant a class or module has, or may get
  FirstNames,                \* what has its name from the start
  IseqType, BlockOrEval,     \* iseq->body->type, and two of its values
  BaseLabel, Label,          \* iseq->body->location
  Path, RealPath,            \* ... RealPath is NULL for code from a string
  CalledId, OriginalId, DefinedClass,  \* of a callable method entry
  CapturedFrames             \* the frames the client captures

(* The words of a qualified name that no class or method lends it. *)
Words ==
  {"Object$<main>#", "RubyVM::FrozenCore#", "$singleton", "$anonymous",
   "$refinement@", "#", ".", "{block}", "{class exec}", "{module exec}"}

ASSUME FrameInfoAssumption ==
  /\ {MainObject, FrozenCore} = SpecialObjects
  /\ {Class, Module} \subseteq Modules
  /\ IClasses \cup PlainModules \cup Singletons \subseteq Modules
  /\ Refinements \subseteq PlainModules
  /\ Singletons \cap (IClasses \cup PlainModules) = {}
  /\ IClasses \cap PlainModules = {}
  /\ CapturedFrames \subseteq Frame
  /\ FirstNames \subseteq Modules \ (IClasses \cup Singletons)
  /\ IClassSharesName \in BOOLEAN
  /\ NULL \notin Words /\ NULL \notin RawLocation
  /\ DOMAIN CalledId = Cmes /\ DOMAIN BaseLabel = Iseqs /\ DOMAIN IseqType = Iseqs
  /\ DOMAIN ConstantName = Modules /\ NULL \notin Range(ConstantName)
  /\ \A i \in Iseqs : BaseLabel[i] # NULL /\ Label[i] # NULL /\ Path[i] # NULL
  /\ \A c \in Cmes : /\ DefinedClass[c] \in Modules
                     /\ CalledId[c] # NULL /\ OriginalId[c] # NULL
  /\ \A k \in Refinements : RefinedClass[k] \in Modules /\ DefinedAt[k] \in Modules
  /\ \A f \in CapturedFrames : (f.ruby \/ f.iseq = NULL) /\ f.self \notin IClasses
  /\ NULL \notin BlockOrEval

VARIABLES
  names,    \* the name each class and module has, or NULL
  raw,      \* the raw_location kept by the client, or NULL
  min,      \* the minimal_location_t kept by the client, or NULL
  query,    \* what the client has asked: idle, a question, or how that ended
            \* the program (abort, path_abort)
  todo,     \* the calls that the qualified name still waits for
  out       \* the answer, as far as it has been appended

vars == <<names, raw, min, query, todo, out>>

-----------------------------------------------------------------------------
(* MRI's view of classes. *)

IsClass(k) == k \in Modules \ (IClasses \cup PlainModules)

(* rb_mod_name *)
ModName(k) ==
  IF k \in IClasses
  THEN IF IClassSharesName THEN names[ClassOf[k]] ELSE NULL
  ELSE names[k]

(* rb_class_real: up to a class that is neither singleton nor iclass. *)
ClassReal[k \in Modules] ==
  IF k \in Singletons \cup IClasses THEN ClassReal[Super[k]] ELSE k

(* rb_class_superclass: the next class up, which iclasses are not. *)
ClassSuperclass[k \in Modules] ==
  LET s == Super[k]
  IN  IF s \in IClasses THEN ClassSuperclass[s] ELSE s

(* A class or module, and what is above it. *)
Ancestors[k \in Modules] ==
  {k} \cup IF Super[k] = NULL THEN {} ELSE Ancestors[Super[k]]

(* What MRI guarantees of its classes: only a root, which has a name, has  *)
(* no superclass; what an iclass stands for is a module, and the class of  *)
(* anything else is a class, of a module one below Module; and the         *)
(* singleton classes of classes are those that are above all a Class.      *)
ASSUME HierarchyAssumption ==
  /\ \A k \in Modules : IsClass(k) =>
       \/ /\ ClassSuperclass[k] \in Modules /\ IsClass(ClassSuperclass[k])
          /\ Ancestors[ClassSuperclass[k]] \subseteq Ancestors[k]
          /\ Ancestors[k] \ Ancestors[ClassSuperclass[k]] \subseteq {k} \cup IClasses
       \/ ClassSuperclass[k] = NULL /\ k \in FirstNames
  /\ \A k \in Modules : k \in Ancestors[k] /\ Ancestors[k] \subseteq Modules
  /\ \A j, k \in Modules : j \in Ancestors[k] /\ k \in Ancestors[j] => j = k
  /\ \A k \in IClasses : ClassOf[k] \in PlainModules
  /\ \A o \in Objects \ IClasses : IsClass(ClassOf[o]) /\ ClassOf[o] \notin SpecialObjects
  /\ \A k \in PlainModules : ClassSuperclass[ClassOf[k]] # NULL
  /\ \A k \in Singletons :
       /\ ClassReal[k] \in Modules
       /\ (ClassReal[k] = Class) = (Attached[k] \in Modules /\ IsClass(Attached[k]))
       /\ ClassReal[k] = Module => Attached[k] \in PlainModules
       /\ Attached[k] \notin IClasses

-----------------------------------------------------------------------------
(* One captured frame. *)

IsBlockOrEval(type) == type \in BlockOrEval

(* minimal_location_t *)
MinimalLocation ==
  [qualifier : {"self", "cme_class", "self_class"}, of : Objects,
   contents : {"cme_id", "base_label"},
   method : Range(CalledId) \cup Range(BaseLabel) \cup {NULL},
   type : Range(IseqType) \cup {NULL}, line : Nat]

ASSUME MinimalLocationAssumption == NULL \notin MinimalLocation

(* raw_location_to_minimal_location.  The filename member is not among the *)
(* fields it assigns.                                                      *)
ToMinimal(loc) ==
  [qualifier |-> IF loc.realSelf THEN "self"
                 ELSE IF loc.cme # NULL THEN "cme_class" ELSE "self_class",
   of        |-> IF loc.realSelf \/ loc.cme = NULL
                 THEN loc.self ELSE DefinedClass[loc.cme],
   contents  |-> IF loc.cme # NULL THEN "cme_id" ELSE "base_label",
   method    |-> IF loc.cme # NULL THEN CalledId[loc.cme]
                 ELSE IF loc.iseq # NULL THEN BaseLabel[loc.iseq] ELSE NULL,
   type      |-> IF loc.iseq # NULL THEN IseqType[loc.iseq] ELSE NULL,
   line      |-> IF loc.iseq # NULL THEN LineNumber(loc) ELSE 0]

(* Mutant: a label only from an iseq. *)
LabelOf_IseqOnly(loc, base) ==
  IF loc.iseq = NULL THEN NULL
  ELSE IF base THEN BaseLabel[loc.iseq] ELSE Label[loc.iseq]

(* frame_label: NULL if the frame has none. *)
LabelOf(loc, base) ==
  IF loc.ruby
  THEN IF loc.iseq = NULL THEN NULL
       ELSE IF base THEN BaseLabel[loc.iseq] ELSE Label[loc.iseq]
  ELSE IF loc.cme = NULL THEN NULL ELSE OriginalId[loc.cme]

(* frame_filename and iseq_path *)
FilenameOf(loc, absolute) ==
  IF loc.iseq = NULL THEN NULL
  ELSE IF absolute THEN RealPath[loc.iseq] ELSE Path[loc.iseq]

(* backtracie_frame_for_rb_profile: its local cme is never set from loc.   *)
(* Of the types of method entries that are not ISEQ, only CFUNC is here.   *)
ProfileFrame(loc) ==
  LET iseq == loc.iseq
      cme  == NULL
  IN  IF iseq # NULL /\ IseqType[iseq] = "eval" THEN iseq
      ELSE IF cme # NULL /\ cme \in CFuncs THEN loc.cme
      ELSE iseq

-----------------------------------------------------------------------------
(* The qualified name.  A call is a record [call, of]. *)

Do(call, of) == <<[call |-> call, of |-> of]>>
Put(piece) == Do("append", piece)

(* mod_to_s *)
ModToS(k) ==
  IF k \in Singletons THEN Do("singleton", k) \o Put("$singleton")
  ELSE IF ModName(k) # NULL THEN Put(ModName(k))
  ELSE IF k \in IClasses THEN Do("mod", ClassOf[k])
  ELSE Do("anon", k) \o Put("$anonymous")

(* Mutant: a singleton class always goes by a class. *)
SingletonToS_Class(k) == Do("mod", ClassReal[k])

(* mod_to_s_singleton *)
SingletonToS(k) ==
  Do("mod", IF ClassReal[k] \in {Module, Class}
            THEN Attached[k] ELSE ClassReal[k])

(* mod_to_s_anon: its first loop, up to a T_CLASS, ... *)
AnonToS(k) == IF IsClass(k) THEN Do("super", k) ELSE Do("anon", ClassOf[k])

(* Mutant: the second loop does not move on. *)
SuperToS_Stays(k) ==
  LET s == ClassSuperclass[k]
  IN  IF s = NULL THEN Do("abort", k)
      ELSE IF ModName(s) # NULL THEN Put(ModName(s)) ELSE Do("super", k)

(* ... and a pass of its second one, which asserts that there is a superclass. *)
SuperToS(k) ==
  LET s == ClassSuperclass[k]
  IN  IF s = NULL THEN Do("abort", k)
      ELSE IF ModName(s) # NULL THEN Put(ModName(s)) ELSE Do("super", s)

(* mod_to_s_refinement *)
RefinementToS(k) ==
  Do("mod", RefinedClass[k]) \o Put("$refinement@") \o Do("mod", DefinedAt[k])

(* minimal_location_method_qualifier *)
Qualifier(m) ==
  IF m.qualifier = "self" /\ m.of = MainObject THEN Put("Object$<main>#")
  ELSE IF m.qualifier = "self" /\ m.of = FrozenCore
  THEN Put("RubyVM::FrozenCore#")
  ELSE IF m.qualifier = "cme_class" /\ ClassOf[m.of] \in Refinements
  THEN Do("refinement", ClassOf[m.of]) \o Put("#")
  ELSE IF m.qualifier = "self" /\ m.of \in Modules
  THEN Do("mod", m.of) \o Put(".")
  ELSE Do("mod", IF m.qualifier = "self" THEN ClassOf[m.of] ELSE m.of) \o Put("#")

(* minimal_location_method_name *)
MethodName(m) ==
  LET block == IF IsBlockOrEval(m.type) THEN Put("{block}") ELSE <<>>
      body  == IF m.qualifier # "self" THEN <<>>
               ELSE IF IsClass(m.of) THEN Put("{class exec}")
               ELSE IF m.of \in PlainModules THEN Put("{module exec}") ELSE <<>>
  IN  IF m.contents = "cme_id" THEN Put(m.method) \o block
      ELSE IF body \o block # <<>> THEN body \o block
      ELSE Put(m.method)

(* The minimal location that is being named. *)
Asked == IF query = "name" THEN ToMinimal(raw) ELSE min

Expand(c) ==
  CASE c.call = "mod"        -> ModToS(c.of)
    [] c.call = "singleton"  -> SingletonToS(c.of)
    [] c.call = "anon"       -> AnonToS(c.of)
    [] c.call = "super"      -> SuperToS(c.of)
    [] c.call = "refinement" -> RefinementToS(c.of)
    [] c.call = "qualifier"  -> Qualifier(Asked)
    [] c.call = "name"       -> MethodName(Asked)

-----------------------------------------------------------------------------
Init ==
  /\ names = [k \in Modules |-> IF k \in FirstNames THEN ConstantName[k] ELSE NULL]
  /\ raw = NULL /\ min = NULL
  /\ query = "idle" /\ todo = <<>> /\ out = <<>>

(* The program assigns an anonymous class or module to a constant. *)
AssignConstant(k) ==
  /\ query = "idle" /\ names[k] = NULL
  /\ names' = [names EXCEPT ![k] = ConstantName[k]]
  /\ UNCHANGED <<raw, min, query, todo, out>>

(* Mutant: a frame is used without asking whether it is valid. *)
CaptureFrame_Unchecked(f) ==
  /\ query = "idle" /\ raw = NULL
  /\ raw' = Capture(f)
  /\ min' = ToMinimal(Capture(f))
  /\ UNCHANGED <<names, query, todo, out>>

(* backtracie_capture_frame_for_thread, of a frame that it finds valid, and *)
(* backtracie_capture_minimal_frame_for_thread of the same one.             *)
CaptureFrame(f) ==
  /\ query = "idle" /\ raw = NULL
  /\ IsValid(f)
  /\ raw' = Capture(f)
  /\ min' = ToMinimal(Capture(f))
  /\ UNCHANGED <<names, query, todo, out>>

(* backtracie_frame_name_rbstr and _cstr, ... *)
AskName ==
  /\ query = "idle" /\ raw # NULL
  /\ query' = "name"
  /\ todo' = Do("qualifier", NULL) \o Do("name", NULL)
  /\ UNCHANGED <<names, raw, min, out>>

(* ... backtracie_minimal_frame_name_cstr *)
AskMinimalName ==
  /\ query = "idle" /\ min # NULL
  /\ query' = "minimal_name"
  /\ todo' = Do("qualifier", NULL) \o Do("name", NULL)
  /\ UNCHANGED <<names, raw, min, out>>

(* strbuilder_append_value asserts that it is given a String. *)
Append1(c) ==
  IF c.of = NULL
  THEN query' = "abort" /\ UNCHANGED <<todo, out>>
  ELSE out' = Append(out, c.of) /\ todo' = Tail(todo) /\ UNCHANGED query

NameStep ==
  /\ query \in {"name", "minimal_name"} /\ todo # <<>>
  /\ LET c == Head(todo)
     IN  CASE c.call = "append" -> Append1(c)
           [] c.call = "abort"  -> query' = "abort" /\ UNCHANGED <<todo, out>>
           [] OTHER -> todo' = Expand(c) \o Tail(todo) /\ UNCHANGED <<query, out>>
  /\ UNCHANGED <<names, raw, min>>

(* The other questions are answered at once; NULL is nil. *)
AskLabel(base) ==
  /\ query = "idle" /\ raw # NULL
  /\ query' = IF base THEN "base_label" ELSE "label"
  /\ out' = <<LabelOf(raw, base)>>
  /\ UNCHANGED <<names, raw, min, todo>>

AskFilename(absolute) ==
  /\ query = "idle" /\ raw # NULL
  /\ query' = IF absolute THEN "absolute_path" ELSE "path"
  /\ out' = <<FilenameOf(raw, absolute)>>
  /\ UNCHANGED <<names, raw, min, todo>>

AskProfileFrame ==
  /\ query = "idle" /\ raw # NULL
  /\ query' = "profile"
  /\ out' = <<ProfileFrame(raw)>>
  /\ UNCHANGED <<names, raw, min, todo>>

(* backtracie_minimal_frame_filename_cstr reads the member that nothing    *)
(* assigned: it may look like nil or be some string, and anything else     *)
(* fails the assertion of strbuilder_append_value.                         *)
AskMinimalFilename ==
  /\ query = "idle" /\ min # NULL
  /\ \/ query' = "minimal_path" /\ \E p \in Range(RealPath) \cup {NULL} : out' = <<p>>
     \/ query' = "path_abort" /\ UNCHANGED out
  /\ UNCHANGED <<names, raw, min, todo>>

(* The client has its answer, and keeps the location or drops it. *)
Answered ==
  /\ query \notin {"idle", "abort", "path_abort"} /\ todo = <<>>
  /\ query' = "idle" /\ out' = <<>>
  /\ \/ UNCHANGED <<raw, min>>
     \/ raw' = NULL /\ min' = NULL
  /\ UNCHANGED <<names, todo>>

Next ==
  \/ \E k \in Modules \ (IClasses \cup Singletons) : AssignConstant(k)
  \/ \E f \in CapturedFrames : CaptureFrame(f)
  \/ AskName \/ AskMinimalName \/ NameStep
  \/ \E b \in BOOLEAN : AskLabel(b) \/ AskFilename(b)
  \/ AskMinimalFilename \/ AskProfileFrame \/ Answered

Spec == Init /\ [][Next]_vars

FairSpec == Spec /\ WF_vars(NameStep) /\ WF_vars(Answered)

-----------------------------------------------------------------------------
(* What the documentation says of a name, in terms of the classes alone.   *)

(* The nearest name at or above class k (backtracie_frames.c:539-540). *)
FirstNamed(k) ==
  LET named == {j \in Ancestors[k] : names[j] # NULL}
  IN  names[CHOOSE j \in named : named \subseteq Ancestors[j]]

(* A singleton class goes by the class or module it belongs to, or by the  *)
(* class of the object it belongs to (backtracie_frames.c:572-581), and    *)
(* the inclusion of a module by the module.                                *)
GoesBy(k) ==
  IF k \in IClasses THEN ClassOf[k]
  ELSE IF Attached[k] \in Modules THEN Attached[k]
  ELSE ClassReal[k]

(* What it goes by in the end, the number of singleton classes on the way, *)
(* and all that is on the way.                                             *)
Root[k \in Modules] ==
  IF k \in Singletons \cup IClasses THEN Root[GoesBy(k)] ELSE k

Depth[k \in Modules] ==
  IF k \in Singletons THEN Depth[GoesBy(k)] + 1
  ELSE IF k \in IClasses THEN Depth[GoesBy(k)] ELSE 0

OnTheWay[k \in Modules] ==
  {k} \cup IF k \in Singletons \cup IClasses THEN OnTheWay[GoesBy(k)] ELSE {}

(* It does end: nothing goes by itself in the long run. *)
ASSUME GoesByAssumption ==
  \A k \in Modules :
    /\ Root[k] = IF k \in Singletons \cup IClasses THEN Root[GoesBy(k)] ELSE k
    /\ Depth[k] = IF k \in Singletons THEN Depth[GoesBy(k)] + 1
                  ELSE IF k \in IClasses THEN Depth[GoesBy(k)] ELSE 0
    /\ OnTheWay[k] = {k} \cup IF k \in Singletons \cup IClasses
                              THEN OnTheWay[GoesBy(k)] ELSE {}
    /\ Root[k] \in Modules \ (Singletons \cup IClasses) /\ Depth[k] \in Nat

(* What is anonymous has the first name above it, or above its class if it *)
(* is a module (539-552).                                                  *)
Description(k) ==
  LET r == Root[k]
  IN  (IF names[r] # NULL THEN <<names[r]>>
       ELSE <<FirstNamed(IF IsClass(r) THEN r ELSE ClassOf[r]), "$anonymous">>)
        \o [n \in 1 .. Depth[k] |-> "$singleton"]

(* The class of an instance method, or of the self of other code. *)
Owner(loc) == IF loc.cme # NULL THEN DefinedClass[loc.cme] ELSE loc.self

IsRefined(k) == k \in IClasses /\ ClassOf[k] \in Refinements

DescribedQualifier(loc) ==
  LET owner == Owner(loc)
  IN  IF loc.self = MainObject THEN <<"Object$<main>#">>
      ELSE IF loc.self = FrozenCore THEN <<"RubyVM::FrozenCore#">>
      ELSE IF loc.realSelf THEN Append(Description(loc.self), ".")
      ELSE IF IsRefined(owner)
      THEN Description(RefinedClass[ClassOf[owner]]) \o <<"$refinement@">>
             \o Append(Description(DefinedAt[ClassOf[owner]]), "#")
      ELSE Append(Description(owner), "#")

DescribedMethod(loc) ==
  LET block == loc.iseq # NULL /\ IseqType[loc.iseq] \in BlockOrEval
      body  == loc.cme = NULL /\ loc.self \in Modules /\ loc.realSelf
  IN  (IF loc.cme # NULL THEN <<CalledId[loc.cme]>>
       ELSE IF body /\ IsClass(loc.self) THEN <<"{class exec}">>
       ELSE IF body THEN <<"{module exec}">>
       ELSE IF block THEN <<>> ELSE <<BaseLabel[loc.iseq]>>)
        \o (IF block THEN <<"{block}">> ELSE <<>>)

DocumentedName == DescribedQualifier(raw) \o DescribedMethod(raw)

-----------------------------------------------------------------------------
(* Where the code is known to give another name.                           *)

(* The singleton class of an instance of a subclass of Module goes by that *)
(* subclass (backtracie_frames.c:582) and not by the module it belongs to. *)
LosesModule(k) ==
  k \in Singletons /\ Attached[k] \in PlainModules /\ ClassReal[k] # Module

(* An anonymous module whose class has a name is given the name above that *)
(* class (563) and not the name of the class.                              *)
SkipsClass(r) ==
  ~ IsClass(r) /\ names[r] = NULL /\ names[ClassOf[r]] # NULL

KnownToDeviate(k) ==
  SkipsClass(Root[k]) \/ \E j \in OnTheWay[k] : LosesModule(j)

(* The classes and modules that a location is named by. *)
NamedBy(loc) ==
  LET owner == Owner(loc)
  IN  IF loc.self \in SpecialObjects THEN {}
      ELSE IF loc.realSelf THEN {loc.self}
      ELSE IF IsRefined(owner)
      THEN {RefinedClass[ClassOf[owner]], DefinedAt[ClassOf[owner]]}
      ELSE {owner}

-----------------------------------------------------------------------------
(* Properties *)

TypeOK ==
  /\ names \in [Modules -> Range(ConstantName) \cup {NULL}]
  /\ raw \in RawLocation \cup {NULL} /\ min \in MinimalLocation \cup {NULL}
  /\ (raw = NULL) = (min = NULL)
  /\ query \in {"idle", "name", "minimal_name", "label", "base_label", "path",
               "absolute_path", "profile", "minimal_path", "path_abort", "abort"}
  /\ \A n \in DOMAIN todo : DOMAIN todo[n] = {"call", "of"}

NameGiven == query \in {"name", "minimal_name"} /\ todo = <<>>

(* The qualified name of a kept location is the documented one, for the    *)
(* names its classes have when it is asked, and the minimal location gives *)
(* the same name as the raw one.  This leaves out the locations that are   *)
(* named by a class or module for which the code is known to give another  *)
(* name than its comments (backtracie_frames.c:572-577, 539-552); these    *)
(* are captured too, and answered with that other name.                    *)
NameIsDescription ==
  NameGiven /\ (\A k \in NamedBy(raw) : ~ KnownToDeviate(k)) => out = DocumentedName

(* No captured frame sends the naming functions into an assertion: the     *)
(* walk up from an anonymous class always meets a name, and a frame that   *)
(* was found valid always has something to append.                         *)
NamingNeverAborts == query # "abort"

(* Naming ends, whatever the classes look like. *)
EveryNameEnds == query \in {"name", "minimal_name"} ~> query = "idle"

(* Every captured frame has a label, and exactly the Ruby ones have a path *)
(* (public/backtracie.h:126-127).                                          *)
LabelsAndPaths ==
  /\ query \in {"label", "base_label"} => out # <<NULL>>
  /\ query = "path" => (out = <<NULL>>) = ~ raw.ruby

(* What the documentation says and the code does not do. *)

(* backtracie_frames.c:539-552: an anonymous module goes by the first name *)
(* among its class and what is above it.  The name of every location is    *)
(* the documented one, with nothing left out.                              *)
NameIsDocumented == NameGiven => out = DocumentedName

(* public/backtracie.h:262-264: the minimal location's file name is always *)
(* the absolute one.                                                       *)
MinimalFilenameIsAbsolute ==
  /\ query # "path_abort"
  /\ query = "minimal_path" => out = <<FilenameOf(raw, TRUE)>>

(* backtracie_frames.c:460-461: only the iseq of a Ruby method stands for  *)
(* itself; what has another kind of method entry is given by that entry.   *)
CFuncsHaveProfileFrames ==
  query = "profile" /\ ~ raw.ruby => out = <<raw.cme>>
=============================================================================
