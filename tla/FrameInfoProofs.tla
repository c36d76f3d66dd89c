--------------------------- MODULE FrameInfoProofs ---------------------------
(***************************************************************************)
(* Proofs about FrameInfo, for every hierarchy of classes, every set of    *)
(* frames and every order in which names are given and asked for.          *)
(***************************************************************************)
EXTENDS FrameInfo, TLAPS

HasSuperclass(k) == k \in Modules /\ IsClass(k) /\ ClassSuperclass[k] # NULL

Piece == (Words \cup Range(ConstantName) \cup Range(CalledId) \cup Range(BaseLabel)) \ {NULL}

(* What each function that is still to be called relies on. *)
CanRun(call, of) ==
  \/ call = "append" /\ of \in Piece
  \/ call = "mod" /\ of \in Modules
  \/ call = "singleton" /\ of \in Singletons
  \/ call = "anon" /\ (of \in PlainModules \/ HasSuperclass(of))
  \/ call = "super" /\ HasSuperclass(of)
  \/ call = "refinement" /\ of \in Refinements
  \/ call \in {"qualifier", "name"} /\ of = NULL

CallName == {"append", "mod", "singleton", "anon", "super", "refinement", "qualifier", "name"}

Call == {c \in [call : CallName, of : Piece \cup Modules \cup {NULL}] : CanRun(c.call, c.of)}

(* The name that a class has from the start is never taken from it. *)
NamesStay == \A k \in FirstNames : names[k] # NULL

(* What is kept of a frame that was found valid. *)
Valid(loc) ==
  /\ loc \in RawLocation
  /\ IF loc.realSelf
     THEN KeepsSelf(loc.self) /\ loc.self \notin IClasses
     ELSE IsClass(loc.self) /\ loc.self \notin SpecialObjects
  /\ loc.ruby \/ (loc.cme # NULL /\ loc.iseq = NULL)

KeptIsValid == raw # NULL => Valid(raw) /\ min = ToMinimal(raw)

CallsCanRun ==
  /\ todo \in Seq(Call)
  /\ query \in {"name", "minimal_name"} => raw # NULL

PathsAsked == query \in {"label", "base_label", "path"} => raw # NULL

IInv ==
  /\ TypeOK /\ NamesStay /\ KeptIsValid /\ CallsCanRun /\ PathsAsked
  /\ NamingNeverAborts /\ LabelsAndPaths

-----------------------------------------------------------------------------
(* Calls *)

LEMMA PieceIsNotNull == NULL \notin Piece /\ Words \subseteq Piece
BY FrameInfoAssumption DEF Piece

LEMMA RangeHas ==
  ASSUME NEW f, NEW x \in DOMAIN f
  PROVE  f[x] \in Range(f)
BY DEF Range

LEMMA DoIsReady ==
  ASSUME NEW call \in CallName, NEW of \in Piece \cup Modules \cup {NULL},
         CanRun(call, of)
  PROVE  Do(call, of) \in Seq(Call)
<1>1. [call |-> call, of |-> of] \in Call
  BY DEF Call
<1>2. QED
  BY <1>1 DEF Do

(* What each function needs to be called. *)
LEMMA CallsReady ==
  /\ \A p \in Piece : Put(p) \in Seq(Call)
  /\ \A k \in Modules : Do("mod", k) \in Seq(Call)
  /\ \A k \in Singletons : Do("singleton", k) \in Seq(Call)
  /\ \A k \in PlainModules : Do("anon", k) \in Seq(Call)
  /\ \A k : HasSuperclass(k) => Do("anon", k) \in Seq(Call) /\ Do("super", k) \in Seq(Call)
  /\ \A k \in Refinements : Do("refinement", k) \in Seq(Call)
  /\ Do("qualifier", NULL) \o Do("name", NULL) \in Seq(Call)
<1>0. Singletons \cup PlainModules \cup Refinements \subseteq Modules
  BY FrameInfoAssumption
<1>1. \A p \in Piece : Put(p) \in Seq(Call)
  BY DoIsReady DEF CanRun, CallName, Put
<1>2. \A k \in Modules : Do("mod", k) \in Seq(Call)
  BY DoIsReady DEF CanRun, CallName
<1>3. \A k \in Singletons : Do("singleton", k) \in Seq(Call)
  BY <1>0, DoIsReady DEF CanRun, CallName
<1>4. \A k \in PlainModules : Do("anon", k) \in Seq(Call)
  BY <1>0, DoIsReady DEF CanRun, CallName
<1>5. \A k : HasSuperclass(k) => Do("anon", k) \in Seq(Call) /\ Do("super", k) \in Seq(Call)
  <2> SUFFICES ASSUME NEW k, HasSuperclass(k)
               PROVE  Do("anon", k) \in Seq(Call) /\ Do("super", k) \in Seq(Call)
    OBVIOUS
  <2>1. k \in Modules
    BY DEF HasSuperclass
  <2>2. QED
    BY <2>1, DoIsReady DEF CanRun, CallName
<1>6. \A k \in Refinements : Do("refinement", k) \in Seq(Call)
  BY <1>0, DoIsReady DEF CanRun, CallName
<1>7. Do("qualifier", NULL) \in Seq(Call) /\ Do("name", NULL) \in Seq(Call)
  BY DoIsReady DEF CanRun, CallName
<1>8. QED
  BY <1>1, <1>2, <1>3, <1>4, <1>5, <1>6, <1>7

-----------------------------------------------------------------------------
(* Types *)

LEMMA CaptureIsValid ==
  ASSUME NEW f \in CapturedFrames, IsValid(f)
  PROVE  Valid(Capture(f))
<1> DEFINE loc == Capture(f)
<1>1. f \in Frame /\ (f.ruby \/ f.iseq = NULL) /\ f.self \in Objects \ IClasses
  BY FrameInfoAssumption DEF Frame
<1>2. /\ loc.self \in Objects
      /\ IF loc.realSelf
         THEN KeepsSelf(loc.self) /\ loc.self \notin IClasses
         ELSE IsClass(loc.self) /\ loc.self \notin SpecialObjects
  <2>1. CASE KeepsSelf(f.self)
    BY <1>1, <2>1 DEF Capture
  <2>2. CASE ~ KeepsSelf(f.self)
    BY <1>1, <2>2, VMAssumption, HierarchyAssumption DEF Capture
  <2>3. QED
    BY <2>1, <2>2
<1>3. loc \in RawLocation
  BY <1>1, <1>2 DEF Capture, Frame, RawLocation, IsValid, KeepsSelf
<1>4. loc.ruby \/ (loc.cme # NULL /\ loc.iseq = NULL)
  BY <1>1 DEF Capture, IsValid
<1>5. QED
  BY <1>2, <1>3, <1>4 DEF Valid

LEMMA ToMinimalType ==
  ASSUME NEW loc, Valid(loc)
  PROVE  ToMinimal(loc) \in MinimalLocation
<1>0. loc \in RawLocation /\ (loc.ruby \/ loc.iseq = NULL)
  BY DEF Valid
<1>1. /\ loc.iseq \in Iseqs \cup {NULL} /\ loc.cme \in Cmes \cup {NULL}
      /\ loc.self \in Objects
  BY <1>0 DEF RawLocation
<1>2. loc.iseq # NULL => LineNumber(loc) \in Nat
  <2> SUFFICES ASSUME loc.iseq # NULL PROVE LineNumber(loc) \in Nat
    OBVIOUS
  <2>1. /\ loc.pc \in Nat /\ LineTable[loc.iseq] \in Seq(Nat)
        /\ LineTable[loc.iseq] # <<>> /\ loc.pc <= Len(LineTable[loc.iseq])
    BY <1>0, <1>1, VMAssumption DEF RawLocation
  <2> DEFINE t == LineTable[loc.iseq]
             position == IF loc.pc > 0 THEN loc.pc - 1 ELSE loc.pc
  <2>2. position + 1 \in 1 .. Len(t)
    <3>1. Len(t) \in Nat /\ Len(t) # 0
      BY <2>1
    <3> HIDE DEF t
    <3>2. QED
      BY <2>1, <3>1 DEF t
  <2>3. t[position + 1] \in Nat
    BY <2>1, <2>2
  <2>4. QED
    BY <2>3 DEF LineNumber
<1>3. /\ loc.cme # NULL => DefinedClass[loc.cme] \in Objects
      /\ loc.cme # NULL => CalledId[loc.cme] \in Range(CalledId)
      /\ loc.iseq # NULL => BaseLabel[loc.iseq] \in Range(BaseLabel)
      /\ loc.iseq # NULL => IseqType[loc.iseq] \in Range(IseqType)
  BY <1>1, VMAssumption, FrameInfoAssumption, RangeHas
<1>4. QED
  BY <1>1, <1>2, <1>3 DEF ToMinimal, MinimalLocation

(* A name that is found is one that can be appended. *)
LEMMA ModNameType ==
  ASSUME TypeOK, NEW k \in Modules
  PROVE  ModName(k) \in Piece \cup {NULL}
<1>1. ClassOf[k] \in Modules
  BY VMAssumption
<1>2. QED
  BY <1>1 DEF TypeOK, ModName, Piece

-----------------------------------------------------------------------------
(* The functions call each other with what they can run on. *)

LEMMA SuperStays ==
  ASSUME NamesStay, NEW k \in Modules, IsClass(k), k \notin FirstNames \/ names[k] = NULL
  PROVE  HasSuperclass(k)
BY HierarchyAssumption, VMAssumption DEF NamesStay, HasSuperclass

LEMMA ModToSReady ==
  ASSUME TypeOK, NamesStay, NEW k \in Modules
  PROVE  ModToS(k) \in Seq(Call)
<1>1. ModName(k) \in Piece \cup {NULL}
  BY ModNameType
<1>2. CASE k \in Singletons
  <2>1. Do("singleton", k) \in Seq(Call)
    BY <1>2, CallsReady
  <2>2. Put("$singleton") \in Seq(Call)
    BY CallsReady, PieceIsNotNull DEF Words
  <2>3. QED
    BY <1>2, <2>1, <2>2 DEF ModToS
<1>3. CASE k \notin Singletons /\ ModName(k) # NULL
  BY <1>1, <1>3, CallsReady DEF ModToS
<1>4. CASE k \notin Singletons /\ ModName(k) = NULL /\ k \in IClasses
  BY <1>4, CallsReady, VMAssumption DEF ModToS
<1>5. CASE k \notin Singletons /\ ModName(k) = NULL /\ k \notin IClasses
  <2>1. k \in PlainModules \/ HasSuperclass(k)
    BY <1>5, SuperStays DEF ModName, IsClass
  <2>2. Do("anon", k) \in Seq(Call)
    BY <2>1, CallsReady
  <2>3. Put("$anonymous") \in Seq(Call)
    BY CallsReady, PieceIsNotNull DEF Words
  <2>4. QED
    BY <1>5, <2>2, <2>3 DEF ModToS
<1>6. QED
  BY <1>2, <1>3, <1>4, <1>5

LEMMA SingletonToSReady ==
  ASSUME NEW k \in Singletons
  PROVE  SingletonToS(k) \in Seq(Call)
<1>1. /\ ClassReal[k] \in Modules
      /\ ClassReal[k] = Class => Attached[k] \in Modules
      /\ ClassReal[k] = Module => Attached[k] \in PlainModules
  BY HierarchyAssumption
<1>2. PlainModules \subseteq Modules
  BY FrameInfoAssumption
<1>3. QED
  BY <1>1, <1>2, CallsReady DEF SingletonToS

LEMMA AnonToSReady ==
  ASSUME NEW k, k \in PlainModules \/ HasSuperclass(k)
  PROVE  AnonToS(k) \in Seq(Call)
<1>1. CASE IsClass(k)
  BY <1>1, CallsReady DEF AnonToS, IsClass
<1>2. CASE ~ IsClass(k)
  <2>1. k \in PlainModules
    BY <1>2 DEF HasSuperclass
  <2>2. HasSuperclass(ClassOf[k])
    BY <2>1, HierarchyAssumption, FrameInfoAssumption, VMAssumption DEF HasSuperclass
  <2>3. QED
    BY <1>2, <2>2, CallsReady DEF AnonToS
<1>3. QED
  BY <1>1, <1>2

LEMMA SuperToSReady ==
  ASSUME TypeOK, NamesStay, NEW k, HasSuperclass(k)
  PROVE  SuperToS(k) \in Seq(Call)
<1> DEFINE s == ClassSuperclass[k]
<1>1. s \in Modules /\ IsClass(s) /\ s # NULL
  BY HierarchyAssumption DEF HasSuperclass
<1> HIDE DEF s
<1>2. ModName(s) = names[s] /\ ModName(s) \in Piece \cup {NULL}
  BY <1>1, ModNameType DEF ModName, IsClass
<1>3. CASE ModName(s) # NULL
  BY <1>1, <1>2, <1>3, CallsReady DEF SuperToS, s
<1>4. CASE ModName(s) = NULL
  <2>1. HasSuperclass(s)
    BY <1>1, <1>2, <1>4, SuperStays
  <2>2. QED
    BY <1>1, <1>4, <2>1, CallsReady DEF SuperToS, s
<1>5. QED
  BY <1>3, <1>4

LEMMA RefinementToSReady ==
  ASSUME NEW k \in Refinements
  PROVE  RefinementToS(k) \in Seq(Call)
<1>1. RefinedClass[k] \in Modules /\ DefinedAt[k] \in Modules
  BY FrameInfoAssumption
<1>2. "$refinement@" \in Piece
  BY PieceIsNotNull DEF Words
<1>3. QED
  BY <1>1, <1>2, CallsReady DEF RefinementToS

(* What a location that was kept gives the two halves of its name. *)
LEMMA AskedIsMinimal ==
  ASSUME KeptIsValid, raw # NULL
  PROVE  Asked = ToMinimal(raw)
BY DEF KeptIsValid, Asked

LEMMA QualifierReady ==
  ASSUME NEW loc, Valid(loc)
  PROVE  Qualifier(ToMinimal(loc)) \in Seq(Call)
<1> DEFINE m == ToMinimal(loc)
<1>1. /\ m.of \in Objects
      /\ m.qualifier # "self" => m.of \in Modules
  <2>1. /\ loc.cme \in Cmes \cup {NULL} /\ loc.self \in Objects
        /\ loc.realSelf \/ loc.self \in Modules
    BY DEF Valid, RawLocation, IsClass
  <2>2. loc.cme # NULL => DefinedClass[loc.cme] \in Modules
    BY <2>1, FrameInfoAssumption
  <2>3. QED
    BY <2>1, <2>2, VMAssumption DEF ToMinimal
<1> HIDE DEF m
<1>2. ClassOf[m.of] \in Modules
  BY <1>1, VMAssumption
<1>3. \A p \in Words : Put(p) \in Seq(Call)
  BY CallsReady, PieceIsNotNull
<1>4. /\ Put("Object$<main>#") \in Seq(Call) /\ Put("RubyVM::FrozenCore#") \in Seq(Call)
      /\ Put("#") \in Seq(Call) /\ Put(".") \in Seq(Call)
  BY <1>3 DEF Words
<1>5. \A r \in Refinements : Do("refinement", r) \o Put("#") \in Seq(Call)
  BY <1>4, CallsReady
<1>6. \A k \in Modules : /\ Do("mod", k) \o Put("#") \in Seq(Call)
                        /\ Do("mod", k) \o Put(".") \in Seq(Call)
  BY <1>4, CallsReady
<1>7. Qualifier(m) \in Seq(Call)
  BY <1>1, <1>2, <1>4, <1>5, <1>6 DEF Qualifier
<1>8. QED
  BY <1>7 DEF m

LEMMA MethodNameReady ==
  ASSUME NEW loc, Valid(loc)
  PROVE  MethodName(ToMinimal(loc)) \in Seq(Call)
<1> DEFINE m == ToMinimal(loc)
           block == IF IsBlockOrEval(m.type) THEN Put("{block}") ELSE <<>>
           body  == IF m.qualifier # "self" THEN <<>>
                    ELSE IF IsClass(m.of) THEN Put("{class exec}")
                    ELSE IF m.of \in PlainModules THEN Put("{module exec}") ELSE <<>>
<1>1. m.method \in Piece
  <2>1. /\ loc.cme \in Cmes \cup {NULL} /\ loc.iseq \in Iseqs \cup {NULL}
        /\ loc.cme = NULL => loc.iseq # NULL
    BY DEF Valid, RawLocation
  <2>2. /\ loc.cme # NULL => CalledId[loc.cme] \in Piece
        /\ loc.iseq # NULL => BaseLabel[loc.iseq] \in Piece
    BY <2>1, FrameInfoAssumption, RangeHas DEF Piece
  <2>3. QED
    BY <2>1, <2>2 DEF ToMinimal
<1>2. Put(m.method) \in Seq(Call)
  BY <1>1, CallsReady
<1>3. block \in Seq(Call) /\ body \in Seq(Call)
  <2>1. \A p \in Words : Put(p) \in Seq(Call)
    BY CallsReady, PieceIsNotNull
  <2>2. /\ Put("{block}") \in Seq(Call) /\ Put("{class exec}") \in Seq(Call)
        /\ Put("{module exec}") \in Seq(Call)
    BY <2>1 DEF Words
  <2>3. <<>> \in Seq(Call)
    OBVIOUS
  <2>4. QED
    BY <2>2, <2>3
<1>4. MethodName(m) = IF m.contents = "cme_id" THEN Put(m.method) \o block
                      ELSE IF body \o block # <<>> THEN body \o block
                      ELSE Put(m.method)
  BY DEF MethodName
<1> HIDE DEF m, block, body
<1>5. MethodName(m) \in Seq(Call)
  BY <1>2, <1>3, <1>4
<1>6. QED
  BY <1>5 DEF m

(* What a function appends and calls in turn is what can be run. *)
LEMMA ExpandReady ==
  ASSUME TypeOK, NamesStay, KeptIsValid, raw # NULL, NEW c \in Call, c.call # "append"
  PROVE  Expand(c) \in Seq(Call)
<1>1. CanRun(c.call, c.of)
  BY DEF Call
<1>2. CASE c.call = "mod"
  <2>1. Expand(c) = ModToS(c.of)
    BY <1>2, Zenon DEF Expand
  <2>2. QED
    BY <1>1, <1>2, <2>1, ModToSReady DEF CanRun
<1>3. CASE c.call = "singleton"
  <2>1. Expand(c) = SingletonToS(c.of)
    BY <1>3, Zenon DEF Expand
  <2>2. QED
    BY <1>1, <1>3, <2>1, SingletonToSReady DEF CanRun
<1>4. CASE c.call = "anon"
  <2>1. Expand(c) = AnonToS(c.of)
    BY <1>4, Zenon DEF Expand
  <2>2. QED
    BY <1>1, <1>4, <2>1, AnonToSReady DEF CanRun
<1>5. CASE c.call = "super"
  <2>1. Expand(c) = SuperToS(c.of)
    BY <1>5, Zenon DEF Expand
  <2>2. QED
    BY <1>1, <1>5, <2>1, SuperToSReady DEF CanRun
<1>6. CASE c.call = "refinement"
  <2>1. Expand(c) = RefinementToS(c.of)
    BY <1>6, Zenon DEF Expand
  <2>2. QED
    BY <1>1, <1>6, <2>1, RefinementToSReady DEF CanRun
<1>7. raw \in RawLocation
  BY DEF TypeOK
<1>8. CASE c.call = "qualifier"
  <2>1. Expand(c) = Qualifier(ToMinimal(raw))
    BY <1>8, AskedIsMinimal, Zenon DEF Expand
  <2>2. QED
    BY <1>7, <2>1, QualifierReady DEF KeptIsValid
<1>9. CASE c.call = "name"
  <2>1. Expand(c) = MethodName(ToMinimal(raw))
    BY <1>9, AskedIsMinimal, Zenon DEF Expand
  <2>2. QED
    BY <1>7, <2>1, MethodNameReady DEF KeptIsValid
<1>10. QED
  BY <1>1, <1>2, <1>3, <1>4, <1>5, <1>6, <1>8, <1>9 DEF CanRun

-----------------------------------------------------------------------------
(* Steps *)

LEMMA CallFields ==
  ASSUME NEW s \in Seq(Call)
  PROVE  \A n \in DOMAIN s : DOMAIN s[n] = {"call", "of"}
<1> SUFFICES ASSUME NEW n \in DOMAIN s PROVE DOMAIN s[n] = {"call", "of"}
  OBVIOUS
<1>1. s[n] \in Call
  OBVIOUS
<1>2. QED
  BY <1>1 DEF Call

(* What a step of the naming functions does. *)
LEMMA NameStepIs ==
  ASSUME IInv, NameStep
  PROVE  /\ query \in {"name", "minimal_name"} /\ raw # NULL
         /\ todo # <<>> /\ Head(todo) \in Call /\ Tail(todo) \in Seq(Call)
         /\ UNCHANGED <<names, raw, min, query>>
         /\ \/ /\ Head(todo).call = "append"
               /\ out' = Append(out, Head(todo).of) /\ todo' = Tail(todo)
            \/ /\ Head(todo).call # "append" /\ out' = out
               /\ todo' = Expand(Head(todo)) \o Tail(todo)
<1>1. /\ query \in {"name", "minimal_name"} /\ todo # <<>>
      /\ UNCHANGED <<names, raw, min>> /\ todo \in Seq(Call) /\ raw # NULL
  BY DEF NameStep, IInv, CallsCanRun
<1>2. Head(todo) \in Call /\ Tail(todo) \in Seq(Call)
  BY <1>1
<1>3. PICK c \in Call : c = Head(todo)
  BY <1>2
<1>4. CanRun(c.call, c.of)
  BY DEF Call
<1>5. CASE c.call = "append"
  <2>1. Append1(c)
    BY <1>3, <1>5, Zenon DEF NameStep
  <2>2. c.of # NULL
    BY <1>4, <1>5, PieceIsNotNull DEF CanRun
  <2>3. QED
    BY <1>1, <1>2, <1>3, <1>5, <2>1, <2>2 DEF Append1
<1>6. CASE c.call # "append"
  <2>1. c.call # "abort"
    BY DEF Call, CallName
  <2>2. todo' = Expand(c) \o Tail(todo) /\ UNCHANGED <<query, out>>
    BY <1>3, <1>6, <2>1, Zenon DEF NameStep
  <2>3. QED
    BY <1>1, <1>2, <1>3, <1>6, <2>2
<1>7. QED
  BY <1>5, <1>6

LEMMA NameStepInv ==
  ASSUME IInv, NameStep
  PROVE  IInv'
<1>1. /\ query \in {"name", "minimal_name"} /\ raw # NULL
      /\ UNCHANGED <<names, raw, min, query>>
  BY NameStepIs
<1>2. todo' \in Seq(Call)
  <2>1. CASE Head(todo).call = "append"
    BY <2>1, NameStepIs
  <2>2. CASE Head(todo).call # "append"
    <3>1. Expand(Head(todo)) \in Seq(Call) /\ Tail(todo) \in Seq(Call)
      BY <2>2, NameStepIs, ExpandReady DEF IInv
    <3>2. todo' = Expand(Head(todo)) \o Tail(todo)
      BY <2>2, NameStepIs
    <3>3. QED
      BY <3>1, <3>2
  <2>3. QED
    BY <2>1, <2>2
<1>3. TypeOK'
  <2>1. \A n \in DOMAIN todo' : DOMAIN todo'[n] = {"call", "of"}
    BY <1>2, CallFields
  <2>2. QED
    BY <1>1, <2>1 DEF IInv, TypeOK
<1>4. NamesStay' /\ KeptIsValid' /\ PathsAsked'
  BY <1>1 DEF IInv, NamesStay, KeptIsValid, PathsAsked
<1>5. CallsCanRun'
  BY <1>1, <1>2 DEF CallsCanRun
<1>6. NamingNeverAborts' /\ LabelsAndPaths'
  BY <1>1 DEF NamingNeverAborts, LabelsAndPaths
<1>7. QED
  BY <1>3, <1>4, <1>5, <1>6 DEF IInv

LEMMA AssignConstantInv ==
  ASSUME IInv, NEW k \in Modules, AssignConstant(k)
  PROVE  IInv'
<1>1. /\ query = "idle" /\ names[k] = NULL
      /\ names' = [names EXCEPT ![k] = ConstantName[k]]
      /\ UNCHANGED <<raw, min, query, todo, out>>
  BY DEF AssignConstant
<1>2. ConstantName[k] \in Range(ConstantName) /\ ConstantName[k] # NULL
  BY FrameInfoAssumption, RangeHas
<1>3. TypeOK'
  BY <1>1, <1>2 DEF IInv, TypeOK
<1>4. NamesStay'
  BY <1>1, <1>2, FrameInfoAssumption DEF IInv, TypeOK, NamesStay
<1>5. KeptIsValid' /\ CallsCanRun' /\ PathsAsked' /\ NamingNeverAborts' /\ LabelsAndPaths'
  BY <1>1 DEF IInv, KeptIsValid, CallsCanRun, PathsAsked, NamingNeverAborts, LabelsAndPaths
<1>6. QED
  BY <1>3, <1>4, <1>5 DEF IInv

LEMMA CaptureFrameInv ==
  ASSUME IInv, NEW f \in CapturedFrames, CaptureFrame(f)
  PROVE  IInv'
<1>1. /\ query = "idle" /\ raw = NULL /\ IsValid(f)
      /\ raw' = Capture(f) /\ min' = ToMinimal(Capture(f))
      /\ UNCHANGED <<names, query, todo, out>>
  BY DEF CaptureFrame
<1> DEFINE loc == Capture(f)
<1>2. Valid(loc) /\ loc \in RawLocation
  BY <1>1, CaptureIsValid DEF Valid
<1> HIDE DEF loc
<1>3. ToMinimal(loc) \in MinimalLocation
  BY <1>2, ToMinimalType
<1>4. raw' # NULL /\ min' # NULL /\ raw' = loc /\ min' = ToMinimal(loc)
  BY <1>1, <1>2, <1>3, FrameInfoAssumption, MinimalLocationAssumption DEF loc
<1>5. TypeOK'
  BY <1>1, <1>2, <1>3, <1>4 DEF IInv, TypeOK
<1>6. KeptIsValid'
  BY <1>2, <1>4 DEF KeptIsValid
<1>7. /\ NamesStay' /\ CallsCanRun' /\ PathsAsked'
      /\ NamingNeverAborts' /\ LabelsAndPaths'
  BY <1>1 DEF IInv, NamesStay, CallsCanRun, PathsAsked, NamingNeverAborts, LabelsAndPaths
<1>8. QED
  BY <1>5, <1>6, <1>7 DEF IInv

LEMMA AskNameInv ==
  ASSUME IInv, AskName \/ AskMinimalName
  PROVE  IInv'
<1>1. /\ raw # NULL /\ query' \in {"name", "minimal_name"}
      /\ todo' = Do("qualifier", NULL) \o Do("name", NULL)
      /\ UNCHANGED <<names, raw, min, out>>
  BY DEF AskName, AskMinimalName, IInv, TypeOK
<1>2. todo' \in Seq(Call)
  BY <1>1, CallsReady
<1>3. TypeOK'
  <2>1. \A n \in DOMAIN todo' : DOMAIN todo'[n] = {"call", "of"}
    BY <1>2, CallFields
  <2>2. QED
    BY <1>1, <2>1 DEF IInv, TypeOK
<1>4. NamesStay' /\ KeptIsValid' /\ PathsAsked'
  BY <1>1 DEF IInv, NamesStay, KeptIsValid, PathsAsked
<1>5. CallsCanRun' /\ NamingNeverAborts' /\ LabelsAndPaths'
  BY <1>1, <1>2 DEF CallsCanRun, NamingNeverAborts, LabelsAndPaths
<1>6. QED
  BY <1>3, <1>4, <1>5 DEF IInv

(* The other questions leave everything but the answer as it was. *)
LEMMA OtherAnswers ==
  ASSUME IInv, UNCHANGED <<names, raw, min, todo>>,
         query' \in {"label", "base_label", "path", "absolute_path", "profile",
                    "minimal_path", "path_abort"},
         raw # NULL, LabelsAndPaths'
  PROVE  IInv'
BY DEF IInv, TypeOK, NamesStay, KeptIsValid, CallsCanRun, PathsAsked, NamingNeverAborts

LEMMA LabelIsThere ==
  ASSUME IInv, raw # NULL, NEW base \in BOOLEAN
  PROVE  LabelOf(raw, base) # NULL
<1>1. /\ raw \in RawLocation /\ (raw.ruby \/ raw.cme # NULL)
  BY DEF IInv, TypeOK, KeptIsValid, Valid
<1>2. /\ raw.ruby => raw.iseq \in Iseqs /\ raw.iseq # NULL
      /\ raw.cme # NULL => raw.cme \in Cmes
  BY <1>1 DEF RawLocation
<1>3. QED
  BY <1>1, <1>2, FrameInfoAssumption DEF LabelOf

LEMMA PathIsOfRubyCode ==
  ASSUME IInv, raw # NULL
  PROVE  (FilenameOf(raw, FALSE) = NULL) = ~ raw.ruby
<1>1. raw \in RawLocation /\ (raw.ruby \/ raw.iseq = NULL)
  BY DEF IInv, TypeOK, KeptIsValid, Valid
<1>2. raw.ruby \in BOOLEAN /\ (raw.ruby => raw.iseq \in Iseqs /\ raw.iseq # NULL)
  BY <1>1 DEF RawLocation
<1>3. QED
  BY <1>1, <1>2, FrameInfoAssumption DEF FilenameOf

LEMMA NextInv ==
  ASSUME IInv, [Next]_vars
  PROVE  IInv'
<1>1. ASSUME NEW base \in BOOLEAN, AskLabel(base) PROVE IInv'
  <2>1. /\ raw # NULL /\ query' \in {"label", "base_label"}
        /\ out' = <<LabelOf(raw, base)>> /\ UNCHANGED <<names, raw, min, todo>>
    BY <1>1 DEF AskLabel
  <2>2. LabelOf(raw, base) # NULL
    BY <2>1, LabelIsThere
  <2>3. LabelsAndPaths'
    BY <2>1, <2>2 DEF LabelsAndPaths
  <2>4. QED
    BY <2>1, <2>3, OtherAnswers
<1>2. ASSUME NEW absolute \in BOOLEAN, AskFilename(absolute) PROVE IInv'
  <2>1. /\ raw # NULL /\ query' \in {"path", "absolute_path"}
        /\ query' = "path" => ~ absolute
        /\ out' = <<FilenameOf(raw, absolute)>> /\ UNCHANGED <<names, raw, min, todo>>
    BY <1>2 DEF AskFilename
  <2>2. absolute = FALSE => (out' = <<NULL>>) = ~ raw.ruby
    BY <2>1, PathIsOfRubyCode
  <2>3. LabelsAndPaths'
    BY <2>1, <2>2 DEF LabelsAndPaths
  <2>4. QED
    BY <2>1, <2>3, OtherAnswers
<1>3. CASE AskMinimalFilename \/ AskProfileFrame
  <2>1. /\ raw # NULL /\ query' \in {"minimal_path", "path_abort", "profile"}
        /\ UNCHANGED <<names, raw, min, todo>>
    BY <1>3 DEF AskMinimalFilename, AskProfileFrame, IInv, TypeOK
  <2>2. LabelsAndPaths'
    BY <2>1 DEF LabelsAndPaths
  <2>3. QED
    BY <2>1, <2>2, OtherAnswers
<1>4. CASE Answered
  BY <1>4 DEF Answered, IInv, TypeOK, NamesStay, KeptIsValid, CallsCanRun, PathsAsked,
              NamingNeverAborts, LabelsAndPaths
<1>5. CASE UNCHANGED vars
  BY <1>5 DEF vars, IInv, TypeOK, NamesStay, KeptIsValid, CallsCanRun, PathsAsked,
              NamingNeverAborts, LabelsAndPaths
<1>6. QED
  BY <1>1, <1>2, <1>3, <1>4, <1>5, AssignConstantInv, CaptureFrameInv, AskNameInv,
     NameStepInv DEF Next

LEMMA InitInv == Init => IInv
<1> SUFFICES ASSUME Init PROVE IInv
  OBVIOUS
<1>1. /\ names = [k \in Modules |-> IF k \in FirstNames THEN ConstantName[k] ELSE NULL]
      /\ raw = NULL /\ min = NULL /\ query = "idle" /\ todo = <<>> /\ out = <<>>
  BY DEF Init
<1>2. \A k \in Modules : ConstantName[k] \in Range(ConstantName) /\ ConstantName[k] # NULL
  BY FrameInfoAssumption, RangeHas
<1>3. FirstNames \subseteq Modules
  BY FrameInfoAssumption
<1>4. TypeOK
  BY <1>1, <1>2 DEF TypeOK
<1>5. NamesStay
  BY <1>1, <1>2, <1>3 DEF NamesStay
<1>6. KeptIsValid /\ CallsCanRun /\ PathsAsked /\ NamingNeverAborts /\ LabelsAndPaths
  BY <1>1 DEF KeptIsValid, CallsCanRun, PathsAsked, NamingNeverAborts, LabelsAndPaths
<1>7. QED
  BY <1>4, <1>5, <1>6 DEF IInv

-----------------------------------------------------------------------------
(* What each call contributes to the documented name. *)

Meaning(c) ==
  IF c.call = "append" THEN <<c.of>>
  ELSE IF c.call = "mod" THEN Description(c.of)
  ELSE IF c.call = "singleton" THEN Description(GoesBy(c.of))
  ELSE IF c.call = "anon"
  THEN <<FirstNamed(IF IsClass(c.of) THEN c.of ELSE ClassOf[c.of])>>
  ELSE IF c.call = "super" THEN <<FirstNamed(ClassSuperclass[c.of])>>
  ELSE IF c.call = "refinement"
  THEN Description(RefinedClass[c.of]) \o <<"$refinement@">>
         \o Description(DefinedAt[c.of])
  ELSE IF c.call = "qualifier" THEN DescribedQualifier(raw)
  ELSE DescribedMethod(raw)

(* What a name is made of; FirstNamed is one only of what has a name above. *)
Text == Piece \cup {NULL} \cup {FirstNamed(k) : k \in Modules}

(* The documented name has the text v from place a on ... *)
Has(v, a) ==
  /\ a + Len(v) <= Len(DocumentedName)
  /\ \A i \in 1 .. Len(v) : DocumentedName[a + i] = v[i]

(* What is named as documented, and so are the classes a call is about: *)
(* one that looks for the first name above has no name itself.             *)
AsDocumented(k) == ~ KnownToDeviate(k)

Faithful(c) ==
  /\ c.call \in {"mod", "singleton"} => AsDocumented(c.of)
  /\ c.call = "anon" => names[c.of] = NULL /\ ~ SkipsClass(c.of)
  /\ c.call = "refinement" =>
       AsDocumented(RefinedClass[c.of]) /\ AsDocumented(DefinedAt[c.of])
  /\ c.call = "qualifier" => \A k \in NamedBy(raw) : AsDocumented(k)

(* ... that of a call ... *)
Contributes(c, a) == Has(Meaning(c), a) /\ Faithful(c)

(* ... and of the calls of s, one after the other, up to b. *)
Spells(s, a, b) ==
  \E cut \in [0 .. Len(s) -> Nat] :
    /\ cut[0] = a /\ cut[Len(s)] = b
    /\ \A n \in 1 .. Len(s) :
         /\ cut[n] = cut[n - 1] + Len(Meaning(s[n]))
         /\ Contributes(s[n], cut[n - 1])

Renders(s, v) == \A a \in Nat : Has(v, a) => Spells(s, a, a + Len(v))

LEMMA RendersOne ==
  ASSUME NEW c \in Call, Meaning(c) \in Seq(Text),
         Faithful(c)
  PROVE  Renders(<<c>>, Meaning(c))
<1> SUFFICES ASSUME NEW a \in Nat, Has(Meaning(c), a)
             PROVE  Spells(<<c>>, a, a + Len(Meaning(c)))
  BY DEF Renders
<1> DEFINE l == Len(Meaning(c))
           cut == [i \in 0 .. 1 |-> IF i = 0 THEN a ELSE a + l]
<1>1. l \in Nat /\ Len(<<c>>) = 1 /\ <<c>>[1] = c
  OBVIOUS
<1>2. cut \in [0 .. Len(<<c>>) -> Nat]
  BY <1>1
<1>3. cut[0] = a /\ cut[1] = a + l
  OBVIOUS
<1> HIDE DEF cut
<1>4. \A n \in 1 .. Len(<<c>>) :
        /\ cut[n] = cut[n - 1] + Len(Meaning(<<c>>[n]))
        /\ Contributes(<<c>>[n], cut[n - 1])
  BY <1>1, <1>3 DEF Contributes
<1>5. QED
  BY <1>1, <1>2, <1>3, <1>4 DEF Spells

LEMMA SpellsConcat ==
  ASSUME NEW s \in Seq(Call), NEW t \in Seq(Call), NEW a \in Nat, NEW b \in Nat,
         NEW e \in Nat, Spells(s, a, b), Spells(t, b, e)
  PROVE  Spells(s \o t, a, e)
<1>1. PICK f \in [0 .. Len(s) -> Nat] :
        /\ f[0] = a /\ f[Len(s)] = b
        /\ \A n \in 1 .. Len(s) :
             f[n] = f[n - 1] + Len(Meaning(s[n])) /\ Contributes(s[n], f[n - 1])
  BY DEF Spells
<1>2. PICK g \in [0 .. Len(t) -> Nat] :
        /\ g[0] = b /\ g[Len(t)] = e
        /\ \A n \in 1 .. Len(t) :
             g[n] = g[n - 1] + Len(Meaning(t[n])) /\ Contributes(t[n], g[n - 1])
  BY DEF Spells
<1> DEFINE st == s \o t
           cut == [i \in 0 .. Len(st) |-> IF i <= Len(s) THEN f[i] ELSE g[i - Len(s)]]
<1>3. /\ Len(s) \in Nat /\ Len(t) \in Nat /\ Len(st) = Len(s) + Len(t)
      /\ \A n \in 1 .. Len(s) : st[n] = s[n]
      /\ \A n \in 1 .. Len(t) : st[Len(s) + n] = t[n]
  OBVIOUS
<1> HIDE DEF st
<1>4. cut \in [0 .. Len(st) -> Nat]
  BY <1>3
<1>5. /\ \A i \in 0 .. Len(s) : cut[i] = f[i]
      /\ \A i \in 0 .. Len(t) : cut[Len(s) + i] = g[i]
  BY <1>1, <1>2, <1>3
<1> HIDE DEF cut
<1>6. cut[0] = a /\ cut[Len(st)] = e
  BY <1>1, <1>2, <1>3, <1>5
<1>7. ASSUME NEW n \in 1 .. Len(st)
      PROVE  /\ cut[n] = cut[n - 1] + Len(Meaning(st[n]))
             /\ Contributes(st[n], cut[n - 1])
  <2>1. CASE n <= Len(s)
    <3>1. n \in 1 .. Len(s) /\ n - 1 \in 0 .. Len(s)
      BY <1>3, <2>1
    <3>2. st[n] = s[n] /\ cut[n] = f[n] /\ cut[n - 1] = f[n - 1]
      BY <1>3, <1>5, <3>1
    <3>3. QED
      BY <1>1, <3>1, <3>2
  <2>2. CASE n > Len(s)
    <3> DEFINE m == n - Len(s)
    <3>1. m \in 1 .. Len(t) /\ n = Len(s) + m
      BY <1>3, <2>2
    <3> HIDE DEF m
    <3>2. n - 1 = Len(s) + (m - 1) /\ m - 1 \in 0 .. Len(t)
      BY <1>3, <3>1
    <3>3. st[n] = t[m] /\ cut[n] = g[m] /\ cut[n - 1] = g[m - 1]
      BY <1>3, <1>5, <3>1, <3>2
    <3>4. QED
      BY <1>2, <3>1, <3>3
  <2>3. QED
    BY <1>3, <2>1, <2>2
<1>8. Spells(st, a, e)
  BY <1>4, <1>6, <1>7 DEF Spells
<1>9. QED
  BY <1>8 DEF st

LEMMA HasConcat ==
  ASSUME NEW u \in Seq(Text), NEW v \in Seq(Text), NEW a \in Nat, Has(u \o v, a)
  PROVE  Has(u, a) /\ Has(v, a + Len(u)) /\ Len(u \o v) = Len(u) + Len(v)
<1> DEFINE w == u \o v
           d == DocumentedName
<1>1. /\ Len(u) \in Nat /\ Len(v) \in Nat /\ Len(w) = Len(u) + Len(v)
      /\ \A n \in 1 .. Len(u) : w[n] = u[n]
      /\ \A n \in 1 .. Len(v) : w[Len(u) + n] = v[n]
  OBVIOUS
<1>2. a + Len(w) <= Len(d) /\ \A i \in 1 .. Len(w) : d[a + i] = w[i]
  BY DEF Has
<1> HIDE DEF w, d
<1>3. \A i \in 1 .. Len(u) : d[a + i] = u[i]
  BY <1>1, <1>2
<1>4. \A i \in 1 .. Len(v) : d[(a + Len(u)) + i] = v[i]
  <2> SUFFICES ASSUME NEW i \in 1 .. Len(v) PROVE d[(a + Len(u)) + i] = v[i]
    OBVIOUS
  <2>1. Len(u) + i \in 1 .. Len(w) /\ a + (Len(u) + i) = (a + Len(u)) + i
    BY <1>1
  <2>2. d[a + (Len(u) + i)] = w[Len(u) + i]
    BY <1>2, <2>1
  <2>3. QED
    BY <1>1, <2>1, <2>2
<1>5. QED
  BY <1>1, <1>2, <1>3, <1>4 DEF Has, w, d

LEMMA RendersConcat ==
  ASSUME NEW s \in Seq(Call), NEW t \in Seq(Call),
         NEW u \in Seq(Text), NEW v \in Seq(Text), Renders(s, u), Renders(t, v)
  PROVE  Renders(s \o t, u \o v)
<1> SUFFICES ASSUME NEW a \in Nat, Has(u \o v, a)
             PROVE  Spells(s \o t, a, a + Len(u \o v))
  BY DEF Renders
<1>1. Has(u, a) /\ Has(v, a + Len(u)) /\ Len(u \o v) = Len(u) + Len(v)
  BY HasConcat
<1>2. /\ a + Len(u) \in Nat /\ (a + Len(u)) + Len(v) \in Nat
      /\ a + Len(u \o v) = (a + Len(u)) + Len(v)
  BY <1>1
<1>3. Spells(s, a, a + Len(u)) /\ Spells(t, a + Len(u), (a + Len(u)) + Len(v))
  BY <1>1, <1>2 DEF Renders
<1>4. Spells(s \o t, a, (a + Len(u)) + Len(v))
  BY <1>2, <1>3, SpellsConcat
<1>5. QED
  BY <1>2, <1>4

(* The empty sequence of calls contributes nothing, ... *)
LEMMA RendersNothing == Renders(<<>>, <<>>)
<1> SUFFICES ASSUME NEW a \in Nat, Has(<<>>, a) PROVE Spells(<<>>, a, a + Len(<<>>))
  BY DEF Renders
<1> DEFINE cut == [i \in 0 .. 0 |-> a]
<1>1. cut \in [0 .. Len(<<>>) -> Nat] /\ cut[0] = a /\ a + Len(<<>>) = a /\ Len(<<>>) = 0
  OBVIOUS
<1>2. \A n \in 1 .. Len(<<>>) : /\ cut[n] = cut[n - 1] + Len(Meaning(<<>>[n]))
                               /\ Contributes(<<>>[n], cut[n - 1])
  OBVIOUS
<1> HIDE DEF cut
<1>3. QED
  BY <1>1, <1>2 DEF Spells

(* ... and the first call what it contributes, before the others. *)
LEMMA SpellsFirst ==
  ASSUME NEW s \in Seq(Call), s # <<>>, NEW a \in Nat, NEW e \in Nat, Spells(s, a, e),
         Meaning(Head(s)) \in Seq(Text)
  PROVE  /\ Contributes(Head(s), a)
         /\ Spells(Tail(s), a + Len(Meaning(Head(s))), e)
<1>1. PICK f \in [0 .. Len(s) -> Nat] :
        /\ f[0] = a /\ f[Len(s)] = e
        /\ \A n \in 1 .. Len(s) :
             f[n] = f[n - 1] + Len(Meaning(s[n])) /\ Contributes(s[n], f[n - 1])
  BY DEF Spells
<1> DEFINE t == Tail(s)
           cut == [i \in 0 .. Len(t) |-> f[i + 1]]
<1>2. /\ Len(s) \in Nat /\ Len(s) > 0 /\ Len(t) = Len(s) - 1 /\ s[1] = Head(s)
      /\ \A n \in 1 .. Len(t) : t[n] = s[n + 1]
  OBVIOUS
<1>3. /\ 1 \in 1 .. Len(s) /\ Contributes(s[1], f[0])
      /\ f[1] = f[0] + Len(Meaning(s[1]))
  <2>1. 1 \in 1 .. Len(s) /\ 1 - 1 = 0
    BY <1>2
  <2>2. QED
    BY <1>1, <2>1
<1> HIDE DEF t
<1>4. cut \in [0 .. Len(t) -> Nat]
  BY <1>2
<1>5. cut[0] = a + Len(Meaning(Head(s))) /\ cut[Len(t)] = e
  BY <1>1, <1>2, <1>3
<1>6. ASSUME NEW n \in 1 .. Len(t)
      PROVE  /\ cut[n] = cut[n - 1] + Len(Meaning(t[n]))
             /\ Contributes(t[n], cut[n - 1])
  <2>1. /\ n + 1 \in 1 .. Len(s) /\ (n + 1) - 1 = n /\ t[n] = s[n + 1]
        /\ cut[n] = f[n + 1] /\ cut[n - 1] = f[n]
    BY <1>2
  <2>2. f[n + 1] = f[(n + 1) - 1] + Len(Meaning(s[n + 1]))
        /\ Contributes(s[n + 1], f[(n + 1) - 1])
    BY <1>1, <2>1
  <2> HIDE DEF cut
  <2>3. QED
    BY <2>1, <2>2
<1> HIDE DEF cut
<1>7. Spells(t, a + Len(Meaning(Head(s))), e)
  BY <1>4, <1>5, <1>6 DEF Spells
<1>8. QED
  BY <1>1, <1>2, <1>3, <1>7 DEF t

-----------------------------------------------------------------------------
(* Names and descriptions of classes *)

(* What has no name of its own, ever. *)
InnerUnnamed == \A k \in IClasses \cup Singletons : names[k] = NULL

Suffix(n) == [i \in 1 .. n |-> "$singleton"]

LEMMA SuffixFacts ==
  /\ \A n \in Nat : Suffix(n) \in Seq(Text)
  /\ Suffix(0) = <<>>
  /\ \A n \in Nat : Suffix(n + 1) = Suffix(n) \o <<"$singleton">>
<1>1. "$singleton" \in Text
  BY PieceIsNotNull DEF Words, Text
<1>2. \A n \in Nat : Suffix(n) \in Seq(Text)
  BY <1>1 DEF Suffix
<1>3. Suffix(0) = <<>>
  BY DEF Suffix
<1>4. ASSUME NEW n \in Nat PROVE Suffix(n + 1) = Suffix(n) \o <<"$singleton">>
  BY DEF Suffix
<1>5. QED
  BY <1>2, <1>3, <1>4

(* The part of a description before the suffixes. *)
Stem(r) ==
  IF names[r] # NULL THEN <<names[r]>>
  ELSE <<FirstNamed(IF IsClass(r) THEN r ELSE ClassOf[r]), "$anonymous">>

LEMMA DescriptionIs ==
  ASSUME NEW k
  PROVE  Description(k) = Stem(Root[k]) \o Suffix(Depth[k])
BY DEF Description, Stem, Suffix

LEMMA StemType ==
  ASSUME TypeOK, NEW r \in Modules
  PROVE  Stem(r) \in Seq(Text)
<1>1. ClassOf[r] \in Modules
  BY VMAssumption
<1>2. /\ names[r] # NULL => names[r] \in Text
      /\ FirstNamed(r) \in Text /\ FirstNamed(ClassOf[r]) \in Text
      /\ "$anonymous" \in Text
  <2>1. names[r] \in Range(ConstantName) \cup {NULL}
    BY DEF TypeOK
  <2>2. names[r] # NULL => names[r] \in Text
    BY <2>1 DEF Text, Piece
  <2>3. FirstNamed(r) \in Text /\ FirstNamed(ClassOf[r]) \in Text
    BY <1>1 DEF Text
  <2>4. "$anonymous" \in Text
    BY PieceIsNotNull DEF Text, Words
  <2>5. QED
    BY <2>2, <2>3, <2>4
<1>3. QED
  BY <1>2 DEF Stem

LEMMA DescriptionType ==
  ASSUME TypeOK, NEW k \in Modules
  PROVE  Description(k) \in Seq(Text)
<1>1. Root[k] \in Modules /\ Depth[k] \in Nat
  BY GoesByAssumption
<1>2. Stem(Root[k]) \in Seq(Text) /\ Suffix(Depth[k]) \in Seq(Text)
  BY <1>1, StemType, SuffixFacts
<1>3. Stem(Root[k]) \o Suffix(Depth[k]) \in Seq(Text)
  BY <1>2
<1>4. QED
  BY <1>3, DescriptionIs, Zenon

LEMMA GoesByType ==
  ASSUME NEW k \in Singletons
  PROVE  /\ GoesBy(k) \in Modules
         /\ ~ LosesModule(k) =>
              GoesBy(k) = IF ClassReal[k] \in {Module, Class} THEN Attached[k] ELSE ClassReal[k]
<1>1. /\ ClassReal[k] \in Modules
      /\ (ClassReal[k] = Class) = (Attached[k] \in Modules /\ IsClass(Attached[k]))
      /\ ClassReal[k] = Module => Attached[k] \in PlainModules
      /\ Attached[k] \notin IClasses
  BY HierarchyAssumption
<1>2. PlainModules \subseteq Modules /\ k \notin IClasses
  BY FrameInfoAssumption
<1>3. GoesBy(k) = IF Attached[k] \in Modules THEN Attached[k] ELSE ClassReal[k]
  BY <1>2 DEF GoesBy
<1>4. ~ LosesModule(k) => (Attached[k] \in Modules <=> ClassReal[k] \in {Module, Class})
  BY <1>1, <1>2 DEF LosesModule, IsClass
<1>5. QED
  BY <1>1, <1>2, <1>3, <1>4

(* What is named as documented goes by something that is, too. *)
LEMMA AsDocumentedGoesOn ==
  ASSUME NEW k \in Singletons \cup IClasses, AsDocumented(k)
  PROVE  AsDocumented(GoesBy(k)) /\ ~ LosesModule(k)
<1>1. k \in Modules
  BY FrameInfoAssumption
<1>2. Root[k] = Root[GoesBy(k)] /\ OnTheWay[k] = {k} \cup OnTheWay[GoesBy(k)]
  BY <1>1, GoesByAssumption
<1>3. QED
  BY <1>2 DEF AsDocumented, KnownToDeviate

LEMMA DescriptionOfSingleton ==
  ASSUME TypeOK, NEW k \in Singletons
  PROVE  Description(k) = Description(GoesBy(k)) \o <<"$singleton">>
<1> DEFINE j == GoesBy(k)
<1>1. j \in Modules /\ k \in Modules
  BY GoesByType, FrameInfoAssumption
<1>2. Root[k] = Root[j] /\ Depth[k] = Depth[j] + 1 /\ Depth[j] \in Nat /\ Root[j] \in Modules
  BY <1>1, GoesByAssumption
<1> HIDE DEF j
<1>3. Suffix(Depth[k]) = Suffix(Depth[j]) \o <<"$singleton">>
  BY <1>2, SuffixFacts
<1>4. /\ Stem(Root[j]) \in Seq(Text) /\ Suffix(Depth[j]) \in Seq(Text)
      /\ <<"$singleton">> \in Seq(Text)
  <2>1. "$singleton" \in Text
    BY PieceIsNotNull DEF Text, Words
  <2>2. Stem(Root[j]) \in Seq(Text) /\ Suffix(Depth[j]) \in Seq(Text)
    BY <1>2, StemType, SuffixFacts
  <2>3. QED
    BY <2>1, <2>2
<1>5. Description(k) = Stem(Root[j]) \o (Suffix(Depth[j]) \o <<"$singleton">>)
  BY <1>2, <1>3, DescriptionIs
<1>6. @ = (Stem(Root[j]) \o Suffix(Depth[j])) \o <<"$singleton">>
  BY <1>4
<1>7. @ = Description(j) \o <<"$singleton">>
  BY DescriptionIs
<1>8. QED
  BY <1>5, <1>6, <1>7 DEF j

LEMMA DescriptionOfIClass ==
  ASSUME NEW k \in IClasses
  PROVE  Description(k) = Description(ClassOf[k])
<1>1. k \in Modules /\ k \notin Singletons /\ GoesBy(k) = ClassOf[k]
  BY FrameInfoAssumption DEF GoesBy
<1>2. Root[k] = Root[ClassOf[k]] /\ Depth[k] = Depth[ClassOf[k]]
  BY <1>1, GoesByAssumption
<1>3. QED
  BY <1>2 DEF Description

LEMMA DescriptionOfOther ==
  ASSUME TypeOK, NEW k \in Modules \ (Singletons \cup IClasses)
  PROVE  Description(k) = Stem(k)
<1>1. Root[k] = k /\ Depth[k] = 0
  BY GoesByAssumption
<1>2. Stem(k) \in Seq(Text)
  BY StemType
<1>3. Description(k) = Stem(k) \o <<>>
  BY <1>1, SuffixFacts, DescriptionIs
<1>4. QED
  BY <1>2, <1>3

(* The walk up: from a class with a name the first name is its own, ... *)
LEMMA FirstNamedHere ==
  ASSUME NEW k \in Modules, names[k] # NULL
  PROVE  FirstNamed(k) = names[k]
<1> DEFINE named == {j \in Ancestors[k] : names[j] # NULL}
<1>1. k \in named /\ named \subseteq Ancestors[k] /\ Ancestors[k] \subseteq Modules
  BY HierarchyAssumption
<1>2. \A j \in named : named \subseteq Ancestors[j] => j = k
  BY <1>1, HierarchyAssumption
<1>3. (CHOOSE j \in named : named \subseteq Ancestors[j]) = k
  <2> DEFINE P(j) == j \in named /\ named \subseteq Ancestors[j]
  <2>1. P(k) /\ \A j : P(j) => j = k
    BY <1>1, <1>2
  <2> HIDE DEF named
  <2>2. (CHOOSE j \in named : named \subseteq Ancestors[j]) \in named
        /\ named \subseteq Ancestors[CHOOSE j \in named : named \subseteq Ancestors[j]]
    BY <2>1
  <2>3. QED
    BY <1>2, <2>2
<1>4. QED
  BY <1>3 DEF FirstNamed

(* ... and from one without, that of its superclass: iclasses have none. *)
LEMMA FirstNamedAbove ==
  ASSUME InnerUnnamed, NEW k, HasSuperclass(k), names[k] = NULL
  PROVE  FirstNamed(k) = FirstNamed(ClassSuperclass[k])
<1> DEFINE s == ClassSuperclass[k]
<1>1. /\ Ancestors[s] \subseteq Ancestors[k]
      /\ Ancestors[k] \ Ancestors[s] \subseteq {k} \cup IClasses
  BY HierarchyAssumption DEF HasSuperclass
<1>2. \A j \in {k} \cup IClasses : names[j] = NULL
  BY DEF InnerUnnamed
<1> HIDE DEF s
<1>3. {j \in Ancestors[k] : names[j] # NULL} = {j \in Ancestors[s] : names[j] # NULL}
  BY <1>1, <1>2
<1>4. QED
  BY <1>3, Zenon DEF FirstNamed, s

-----------------------------------------------------------------------------
(* The functions append what is documented of a class. *)

LEMMA WordsAreText == Words \subseteq Text /\ Piece \subseteq Text
BY PieceIsNotNull DEF Text

(* A piece on its own, and a call on its own. *)
LEMMA RendersPut ==
  ASSUME NEW p \in Piece
  PROVE  Put(p) \in Seq(Call) /\ <<p>> \in Seq(Text) /\ Renders(Put(p), <<p>>)
<1> DEFINE c == [call |-> "append", of |-> p]
<1>1. c \in Call
  BY DEF Call, CanRun, CallName
<1>2. Meaning(c) = <<p>>
  BY DEF Meaning
<1>3. <<p>> \in Seq(Text)
  BY WordsAreText
<1>4. Put(p) = <<c>>
  BY DEF Put, Do
<1>0. Faithful(c)
  BY DEF Faithful
<1> HIDE DEF c
<1>5. Renders(<<c>>, Meaning(c))
  BY <1>0, <1>1, <1>2, <1>3, RendersOne
<1>6. QED
  BY <1>1, <1>2, <1>3, <1>4, <1>5

LEMMA RendersDo ==
  ASSUME NEW call \in CallName, NEW of \in Piece \cup Modules \cup {NULL},
         CanRun(call, of), Faithful([call |-> call, of |-> of]),
         NEW v \in Seq(Text), Meaning([call |-> call, of |-> of]) = v
  PROVE  Do(call, of) \in Seq(Call) /\ Renders(Do(call, of), v)
<1> DEFINE c == [call |-> call, of |-> of]
<1>1. c \in Call
  BY DEF Call
<1>2. Do(call, of) = <<c>>
  BY DEF Do
<1>3. Meaning(c) = v /\ Faithful(c)
  OBVIOUS
<1> HIDE DEF c
<1>4. Renders(<<c>>, Meaning(c))
  BY <1>1, <1>3, RendersOne
<1>5. QED
  BY <1>1, <1>2, <1>3, <1>4

LEMMA RendersMod ==
  ASSUME TypeOK, NEW k \in Modules, AsDocumented(k)
  PROVE  Do("mod", k) \in Seq(Call) /\ Renders(Do("mod", k), Description(k))
<1>1. Meaning([call |-> "mod", of |-> k]) = Description(k)
  BY DEF Meaning
<1>2. Description(k) \in Seq(Text)
  BY DescriptionType
<1>3. "mod" \in CallName /\ CanRun("mod", k)
  BY DEF CallName, CanRun
<1>4. Faithful([call |-> "mod", of |-> k])
  BY DEF Faithful
<1>5. QED
  BY <1>1, <1>2, <1>3, <1>4, RendersDo

LEMMA ModToSRenders ==
  ASSUME TypeOK, NamesStay, InnerUnnamed, NEW k \in Modules, AsDocumented(k)
  PROVE  Renders(ModToS(k), Description(k))
<1>1. CASE k \in Singletons
  <2>1. GoesBy(k) \in Modules /\ Description(GoesBy(k)) \in Seq(Text)
    BY <1>1, GoesByType, DescriptionType
  <2>2. Meaning([call |-> "singleton", of |-> k]) = Description(GoesBy(k))
    BY DEF Meaning
  <2>3. "singleton" \in CallName /\ CanRun("singleton", k)
    BY <1>1 DEF CallName, CanRun
  <2>8. Faithful([call |-> "singleton", of |-> k])
    BY DEF Faithful
  <2>4. Do("singleton", k) \in Seq(Call) /\ Renders(Do("singleton", k), Description(GoesBy(k)))
    BY <2>1, <2>2, <2>3, <2>8, RendersDo
  <2>5. "$singleton" \in Piece
    BY PieceIsNotNull DEF Words
  <2>6. Renders(Do("singleton", k) \o Put("$singleton"),
                Description(GoesBy(k)) \o <<"$singleton">>)
    BY <2>1, <2>4, <2>5, RendersPut, RendersConcat
  <2>7. QED
    BY <1>1, <2>6, DescriptionOfSingleton DEF ModToS
<1>2. CASE k \notin Singletons /\ k \in IClasses
  <2>1. /\ ClassOf[k] \in PlainModules /\ ClassOf[k] \in Modules \ (Singletons \cup IClasses)
    BY <1>2, HierarchyAssumption, FrameInfoAssumption
  <2>2. Description(k) = Description(ClassOf[k])
    BY <1>2, DescriptionOfIClass
  <2>3. CASE ModName(k) # NULL
    <3>1. ModName(k) = names[ClassOf[k]]
      BY <1>2, <2>3 DEF ModName
    <3>2. Description(ClassOf[k]) = <<ModName(k)>>
      BY <2>1, <2>3, <3>1, DescriptionOfOther DEF Stem
    <3>3. ModName(k) \in Piece
      BY <2>3, ModNameType
    <3>4. QED
      BY <1>2, <2>2, <2>3, <3>2, <3>3, RendersPut DEF ModToS
  <2>4. CASE ModName(k) = NULL
    <3>1. ModToS(k) = Do("mod", ClassOf[k])
      BY <1>2, <2>4 DEF ModToS
    <3>2. AsDocumented(ClassOf[k])
      BY <1>2, AsDocumentedGoesOn DEF GoesBy
    <3>3. QED
      BY <2>1, <2>2, <3>1, <3>2, RendersMod
  <2>5. QED
    BY <2>3, <2>4
<1>3. CASE k \notin Singletons /\ k \notin IClasses
  <2>1. ModName(k) = names[k] /\ Description(k) = Stem(k)
    BY <1>3, DescriptionOfOther DEF ModName
  <2>2. CASE names[k] # NULL
    <3>1. names[k] \in Piece
      BY <2>1, <2>2, ModNameType
    <3>2. QED
      BY <1>3, <2>1, <2>2, <3>1, RendersPut DEF ModToS, Stem
  <2>3. CASE names[k] = NULL
    <3> DEFINE f == FirstNamed(IF IsClass(k) THEN k ELSE ClassOf[k])
    <3>1. f \in Text /\ ClassOf[k] \in Modules
      BY VMAssumption DEF Text
    <3>2. Meaning([call |-> "anon", of |-> k]) = <<f>>
      BY DEF Meaning
    <3>3. "anon" \in CallName /\ CanRun("anon", k)
      <4>1. k \in PlainModules \/ HasSuperclass(k)
        BY <1>3, <2>3, SuperStays DEF IsClass
      <4>2. QED
        BY <4>1 DEF CallName, CanRun
    <3>4. "$anonymous" \in Piece
      BY PieceIsNotNull DEF Words
    <3>5. Description(k) = <<f>> \o <<"$anonymous">>
      BY <2>1, <2>3 DEF Stem
    <3> HIDE DEF f
    <3>6. <<f>> \in Seq(Text)
      BY <3>1
    <3>11. Faithful([call |-> "anon", of |-> k])
      <4>1. Root[k] = k
        BY <1>3, GoesByAssumption
      <4>2. QED
        BY <2>3, <4>1 DEF Faithful, AsDocumented, KnownToDeviate
    <3>7. Do("anon", k) \in Seq(Call) /\ Renders(Do("anon", k), <<f>>)
      BY <3>2, <3>3, <3>6, <3>11, RendersDo
    <3>8. Renders(Do("anon", k) \o Put("$anonymous"), <<f>> \o <<"$anonymous">>)
      BY <3>4, <3>6, <3>7, RendersPut, RendersConcat
    <3>9. ModToS(k) = Do("anon", k) \o Put("$anonymous")
      BY <1>3, <2>1, <2>3 DEF ModToS
    <3>10. QED
      BY <3>5, <3>8, <3>9
  <2>4. QED
    BY <2>2, <2>3
<1>4. QED
  BY <1>1, <1>2, <1>3

LEMMA SingletonToSRenders ==
  ASSUME TypeOK, NEW k \in Singletons, AsDocumented(k)
  PROVE  Renders(SingletonToS(k), Description(GoesBy(k)))
<1>1. AsDocumented(GoesBy(k)) /\ ~ LosesModule(k)
  BY AsDocumentedGoesOn
<1>2. GoesBy(k) \in Modules /\ SingletonToS(k) = Do("mod", GoesBy(k))
  BY <1>1, GoesByType DEF SingletonToS
<1>3. QED
  BY <1>1, <1>2, RendersMod

(* The walks of mod_to_s_anon, from what has no name. *)
LEMMA RendersSuper ==
  ASSUME NEW k, HasSuperclass(k)
  PROVE  /\ Do("super", k) \in Seq(Call)
         /\ Renders(Do("super", k), <<FirstNamed(ClassSuperclass[k])>>)
<1>1. k \in Modules /\ ClassSuperclass[k] \in Modules
  BY HierarchyAssumption DEF HasSuperclass
<1>2. <<FirstNamed(ClassSuperclass[k])>> \in Seq(Text)
  BY <1>1 DEF Text
<1>3. Meaning([call |-> "super", of |-> k]) = <<FirstNamed(ClassSuperclass[k])>>
  BY DEF Meaning
<1>4. "super" \in CallName /\ CanRun("super", k)
  BY DEF CallName, CanRun
<1>5. Faithful([call |-> "super", of |-> k])
  BY DEF Faithful
<1>6. QED
  BY <1>1, <1>2, <1>3, <1>4, <1>5, RendersDo

LEMMA AnonToSRenders ==
  ASSUME InnerUnnamed, NEW k \in Modules,
         k \in PlainModules \/ HasSuperclass(k), names[k] = NULL, ~ SkipsClass(k)
  PROVE  Renders(AnonToS(k), <<FirstNamed(IF IsClass(k) THEN k ELSE ClassOf[k])>>)
<1>1. CASE IsClass(k)
  <2>1. HasSuperclass(k)
    BY <1>1 DEF IsClass
  <2>2. FirstNamed(k) = FirstNamed(ClassSuperclass[k])
    BY <2>1, FirstNamedAbove
  <2>3. QED
    BY <1>1, <2>1, <2>2, RendersSuper DEF AnonToS
<1>2. CASE ~ IsClass(k)
  <2> DEFINE c == ClassOf[k]
  <2>1. k \in PlainModules
    BY <1>2 DEF HasSuperclass
  <2>2. HasSuperclass(c) /\ c \in Modules /\ IsClass(c)
    BY <2>1, HierarchyAssumption, FrameInfoAssumption, VMAssumption DEF HasSuperclass
  <2>3. AnonToS(k) = Do("anon", c)
    BY <1>2 DEF AnonToS
  <2>8. names[c] = NULL
    BY <1>2 DEF SkipsClass
  <2>9. Faithful([call |-> "anon", of |-> c])
    BY <2>2, <2>8 DEF Faithful, SkipsClass
  <2> HIDE DEF c
  <2>4. Meaning([call |-> "anon", of |-> c]) = <<FirstNamed(c)>>
    BY <2>2 DEF Meaning
  <2>5. "anon" \in CallName /\ CanRun("anon", c) /\ <<FirstNamed(c)>> \in Seq(Text)
    <3>1. FirstNamed(c) \in Text
      BY <2>2 DEF Text
    <3>2. QED
      BY <2>2, <3>1 DEF CallName, CanRun
  <2>6. Renders(Do("anon", c), <<FirstNamed(c)>>)
    BY <2>2, <2>4, <2>5, <2>9, RendersDo
  <2>7. QED
    BY <1>2, <2>3, <2>6 DEF c
<1>3. QED
  BY <1>1, <1>2

LEMMA SuperToSRenders ==
  ASSUME TypeOK, NamesStay, InnerUnnamed, NEW k, HasSuperclass(k)
  PROVE  Renders(SuperToS(k), <<FirstNamed(ClassSuperclass[k])>>)
<1> DEFINE s == ClassSuperclass[k]
<1>1. s \in Modules /\ IsClass(s) /\ s # NULL
  BY HierarchyAssumption DEF HasSuperclass
<1>2. SuperToS(k) = IF ModName(s) # NULL THEN Put(ModName(s)) ELSE Do("super", s)
  BY <1>1 DEF SuperToS
<1> HIDE DEF s
<1>3. ModName(s) = names[s] /\ ModName(s) \in Piece \cup {NULL}
  BY <1>1, ModNameType DEF ModName, IsClass
<1>4. CASE names[s] # NULL
  <2>1. FirstNamed(s) = names[s]
    BY <1>1, <1>4, FirstNamedHere
  <2>2. Renders(Put(names[s]), <<names[s]>>)
    BY <1>3, <1>4, RendersPut
  <2>3. QED
    BY <1>2, <1>3, <1>4, <2>1, <2>2 DEF s
<1>5. CASE names[s] = NULL
  <2>1. HasSuperclass(s)
    BY <1>1, <1>5, SuperStays
  <2>2. FirstNamed(s) = FirstNamed(ClassSuperclass[s])
    BY <1>5, <2>1, FirstNamedAbove
  <2>3. Renders(Do("super", s), <<FirstNamed(s)>>)
    BY <2>1, <2>2, RendersSuper
  <2>4. QED
    BY <1>2, <1>3, <1>5, <2>3 DEF s
<1>6. QED
  BY <1>4, <1>5

LEMMA RefinementType ==
  ASSUME TypeOK, NEW k \in Refinements
  PROVE  Description(RefinedClass[k]) \o <<"$refinement@">>
           \o Description(DefinedAt[k]) \in Seq(Text)
<1>1. RefinedClass[k] \in Modules /\ DefinedAt[k] \in Modules
  BY FrameInfoAssumption
<1>2. Description(RefinedClass[k]) \in Seq(Text) /\ Description(DefinedAt[k]) \in Seq(Text)
  BY <1>1, DescriptionType
<1>3. "$refinement@" \in Text
  BY PieceIsNotNull DEF Text, Words
<1>4. QED
  BY <1>2, <1>3

LEMMA RefinementToSRenders ==
  ASSUME TypeOK, NEW k \in Refinements,
         AsDocumented(RefinedClass[k]), AsDocumented(DefinedAt[k])
  PROVE  LET v == Description(RefinedClass[k]) \o <<"$refinement@">>
                    \o Description(DefinedAt[k])
         IN  v \in Seq(Text) /\ Renders(RefinementToS(k), v)
<1> DEFINE d == Description(RefinedClass[k])
           e == Description(DefinedAt[k])
           w == <<"$refinement@">>
<1>1. RefinedClass[k] \in Modules /\ DefinedAt[k] \in Modules
  BY FrameInfoAssumption
<1>2. /\ d \in Seq(Text) /\ e \in Seq(Text)
      /\ Do("mod", RefinedClass[k]) \in Seq(Call) /\ Renders(Do("mod", RefinedClass[k]), d)
      /\ Do("mod", DefinedAt[k]) \in Seq(Call) /\ Renders(Do("mod", DefinedAt[k]), e)
  BY <1>1, DescriptionType, RendersMod
<1>3. "$refinement@" \in Piece
  BY PieceIsNotNull DEF Words
<1>4. /\ Put("$refinement@") \in Seq(Call) /\ w \in Seq(Text)
      /\ Renders(Put("$refinement@"), w)
  BY <1>3, RendersPut
<1>5. RefinementToS(k) = (Do("mod", RefinedClass[k]) \o Put("$refinement@"))
                           \o Do("mod", DefinedAt[k])
  BY DEF RefinementToS
<1> HIDE DEF d, e, w
<1>6. Renders(Do("mod", RefinedClass[k]) \o Put("$refinement@"), d \o w)
  BY <1>2, <1>4, RendersConcat
<1>7. /\ Do("mod", RefinedClass[k]) \o Put("$refinement@") \in Seq(Call)
      /\ d \o w \in Seq(Text)
  BY <1>2, <1>4
<1>8. Renders(RefinementToS(k), (d \o w) \o e)
  BY <1>2, <1>5, <1>6, <1>7, RendersConcat
<1>9. (d \o w) \o e \in Seq(Text)
  BY <1>2, <1>7
<1>10. QED
  BY <1>8, <1>9 DEF d, e, w

-----------------------------------------------------------------------------
(* The two halves of a name. *)

LEMMA AppendIsConcat ==
  ASSUME NEW S, NEW s \in Seq(S), NEW e \in S
  PROVE  Append(s, e) = s \o <<e>> /\ Append(s, e) \in Seq(S)
OBVIOUS

(* A class or module and the word that follows it. *)
LEMMA RendersQualified ==
  ASSUME TypeOK, NEW k \in Modules, NEW word \in Words, AsDocumented(k)
  PROVE  /\ Append(Description(k), word) \in Seq(Text)
         /\ Renders(Do("mod", k) \o Put(word), Append(Description(k), word))
<1>1. word \in Piece /\ word \in Text
  BY PieceIsNotNull, WordsAreText
<1>2. Description(k) \in Seq(Text)
  BY DescriptionType
<1>3. Append(Description(k), word) = Description(k) \o <<word>>
      /\ Append(Description(k), word) \in Seq(Text)
  BY <1>1, <1>2, AppendIsConcat
<1>4. Renders(Do("mod", k) \o Put(word), Description(k) \o <<word>>)
  BY <1>1, <1>2, RendersMod, RendersPut, RendersConcat
<1>5. QED
  BY <1>3, <1>4

LEMMA QualifierType ==
  ASSUME TypeOK, NEW loc, Valid(loc)
  PROVE  DescribedQualifier(loc) \in Seq(Text)
<1> DEFINE owner == Owner(loc)
<1>1. /\ "Object$<main>#" \in Text /\ "RubyVM::FrozenCore#" \in Text
      /\ "." \in Text /\ "#" \in Text /\ "$refinement@" \in Text
  BY WordsAreText DEF Words
<1>2. /\ loc.cme \in Cmes \cup {NULL} /\ loc.self \in Objects
      /\ loc.realSelf => KeepsSelf(loc.self)
      /\ ~ loc.realSelf => IsClass(loc.self) /\ loc.self \notin SpecialObjects
      /\ SpecialObjects = {MainObject, FrozenCore}
  BY FrameInfoAssumption DEF Valid, RawLocation
<1>3. ASSUME NEW k \in Modules, NEW word \in Text
      PROVE  Append(Description(k), word) \in Seq(Text)
  BY DescriptionType
<1>4. CASE loc.self \in SpecialObjects
  BY <1>1, <1>2, <1>4 DEF DescribedQualifier
<1>5. CASE loc.realSelf /\ loc.self \notin SpecialObjects
  <2>1. loc.self \in Modules
    BY <1>2, <1>5 DEF KeepsSelf
  <2>2. QED
    BY <1>1, <1>2, <1>3, <1>5, <2>1 DEF DescribedQualifier
<1>6. CASE ~ loc.realSelf
  <2>1. owner \in Modules
    BY <1>2, <1>6, FrameInfoAssumption DEF Owner, IsClass
  <2>2. CASE IsRefined(owner)
    <3> DEFINE r == ClassOf[owner]
    <3>1. RefinedClass[r] \in Modules /\ DefinedAt[r] \in Modules
      BY <2>2, FrameInfoAssumption DEF IsRefined
    <3>2. Description(RefinedClass[r]) \in Seq(Text)
      BY <3>1, DescriptionType
    <3>3. Append(Description(DefinedAt[r]), "#") \in Seq(Text)
      BY <1>1, <1>3, <3>1
    <3>4. DescribedQualifier(loc) =
            Description(RefinedClass[r]) \o <<"$refinement@">>
              \o Append(Description(DefinedAt[r]), "#")
      BY <1>2, <1>6, <2>2 DEF DescribedQualifier
    <3> HIDE DEF r
    <3>5. QED
      BY <1>1, <3>2, <3>3, <3>4
  <2>3. CASE ~ IsRefined(owner)
    <3>1. DescribedQualifier(loc) = Append(Description(owner), "#")
      BY <1>2, <1>6, <2>3 DEF DescribedQualifier
    <3>2. QED
      BY <1>1, <1>3, <2>1, <3>1
  <2>4. QED
    BY <2>2, <2>3
<1>7. QED
  BY <1>2, <1>4, <1>5, <1>6

LEMMA QualifierRenders ==
  ASSUME TypeOK, NEW loc, Valid(loc), \A k \in NamedBy(loc) : AsDocumented(k)
  PROVE  /\ DescribedQualifier(loc) \in Seq(Text)
         /\ Renders(Qualifier(ToMinimal(loc)), DescribedQualifier(loc))
<1> DEFINE m == ToMinimal(loc)
           owner == IF loc.cme # NULL THEN DefinedClass[loc.cme] ELSE loc.self
<1>0. "Object$<main>#" \in Words /\ "RubyVM::FrozenCore#" \in Words
      /\ "." \in Words /\ "#" \in Words
  BY DEF Words
<1>1. /\ loc.cme \in Cmes \cup {NULL} /\ loc.self \in Objects /\ loc.realSelf \in BOOLEAN
      /\ loc.realSelf => KeepsSelf(loc.self) /\ loc.self \notin IClasses
      /\ ~ loc.realSelf => IsClass(loc.self) /\ loc.self \notin SpecialObjects
  BY DEF Valid, RawLocation
<1>2. /\ m.qualifier = IF loc.realSelf THEN "self"
                      ELSE IF loc.cme # NULL THEN "cme_class" ELSE "self_class"
      /\ m.of = IF loc.realSelf \/ loc.cme = NULL THEN loc.self ELSE DefinedClass[loc.cme]
  BY DEF ToMinimal
<1>3. SpecialObjects = {MainObject, FrozenCore}
  BY FrameInfoAssumption
<1> HIDE DEF m
<1>4. ASSUME NEW p \in Words, Qualifier(m) = Put(p), DescribedQualifier(loc) = <<p>>
      PROVE  /\ DescribedQualifier(loc) \in Seq(Text)
             /\ Renders(Qualifier(m), DescribedQualifier(loc))
  BY <1>4, PieceIsNotNull, RendersPut
<1>5. CASE loc.realSelf /\ loc.self = MainObject
  <2>1. Qualifier(m) = Put("Object$<main>#") /\ DescribedQualifier(loc) = <<"Object$<main>#">>
    BY <1>2, <1>5 DEF Qualifier, DescribedQualifier
  <2>2. QED
    BY <1>0, <1>4, <2>1 DEF m
<1>6. CASE loc.realSelf /\ loc.self = FrozenCore /\ loc.self # MainObject
  <2>1. /\ Qualifier(m) = Put("RubyVM::FrozenCore#")
        /\ DescribedQualifier(loc) = <<"RubyVM::FrozenCore#">>
    BY <1>2, <1>6 DEF Qualifier, DescribedQualifier
  <2>2. QED
    BY <1>0, <1>4, <2>1 DEF m
<1>7. CASE loc.realSelf /\ loc.self \notin SpecialObjects
  <2>1. loc.self \in Modules
    BY <1>1, <1>7 DEF KeepsSelf
  <2>3. AsDocumented(loc.self)
    BY <1>7 DEF NamedBy
  <2>2. /\ Qualifier(m) = Do("mod", loc.self) \o Put(".")
        /\ DescribedQualifier(loc) = Append(Description(loc.self), ".")
    BY <1>2, <1>3, <1>7, <2>1 DEF Qualifier, DescribedQualifier
  <2>4. QED
    BY <1>0, <2>1, <2>2, <2>3, RendersQualified DEF m
<1>8. CASE ~ loc.realSelf /\ loc.cme # NULL /\ ClassOf[owner] \in Refinements
  <2> DEFINE r == ClassOf[owner]
             v == Description(RefinedClass[r]) \o <<"$refinement@">>
                    \o Description(DefinedAt[r])
  <2>1. owner \in Modules /\ owner \in Objects
    BY <1>1, <1>8, FrameInfoAssumption, VMAssumption
  <2>2. owner \in IClasses
    BY <1>8, <2>1, HierarchyAssumption, FrameInfoAssumption DEF IsClass
  <2>3. RefinedClass[r] \in Modules /\ DefinedAt[r] \in Modules
    BY <1>8, FrameInfoAssumption
  <2>4. Qualifier(m) = Do("refinement", r) \o Put("#")
    BY <1>2, <1>8 DEF Qualifier
  <2>5. DescribedQualifier(loc) =
          Description(RefinedClass[r]) \o <<"$refinement@">>
            \o Append(Description(DefinedAt[r]), "#")
    BY <1>1, <1>3, <1>8, <2>2 DEF DescribedQualifier, Owner, IsRefined
  <2>13. AsDocumented(RefinedClass[r]) /\ AsDocumented(DefinedAt[r])
    BY <1>1, <1>8, <2>2 DEF NamedBy, Owner, IsRefined
  <2>6. v \in Seq(Text) /\ <<"#">> \in Seq(Text)
    BY <1>0, <1>8, RefinementType, WordsAreText
  <2>7. DescribedQualifier(loc) = v \o <<"#">>
    <3> DEFINE d == Description(RefinedClass[r])
               e == Description(DefinedAt[r])
    <3>1. d \in Seq(Text) /\ e \in Seq(Text) /\ <<"$refinement@">> \in Seq(Text)
      <4>1. "$refinement@" \in Text
        BY WordsAreText DEF Words
      <4>2. d \in Seq(Text) /\ e \in Seq(Text)
        BY <2>3, DescriptionType
      <4>3. QED
        BY <4>1, <4>2
    <3>2. "#" \in Text
      BY <1>0, WordsAreText
    <3> HIDE DEF d, e
    <3>3. Append(e, "#") = e \o <<"#">>
      BY <3>1, <3>2, AppendIsConcat
    <3>4. d \o <<"$refinement@">> \in Seq(Text)
      BY <3>1
    <3>5. (d \o <<"$refinement@">>) \o (e \o <<"#">>)
            = ((d \o <<"$refinement@">>) \o e) \o <<"#">>
      BY <2>6, <3>1, <3>4
    <3>6. QED
      BY <2>5, <3>3, <3>5 DEF d, e
  <2>8. Do("refinement", r) \in Seq(Call) /\ Renders(Do("refinement", r), v)
    <3>1. Meaning([call |-> "refinement", of |-> r]) = v
      BY DEF Meaning
    <3>2. "refinement" \in CallName /\ CanRun("refinement", r) /\ r \in Modules
      BY <1>8, FrameInfoAssumption DEF CallName, CanRun
    <3>3. Faithful([call |-> "refinement", of |-> r])
      BY <2>13 DEF Faithful
    <3> HIDE DEF v, r
    <3>4. QED
      BY <2>6, <3>1, <3>2, <3>3, RendersDo
  <2>9. "#" \in Piece
    BY <1>0, PieceIsNotNull
  <2> HIDE DEF v, r
  <2>10. Renders(Do("refinement", r) \o Put("#"), v \o <<"#">>)
    BY <2>6, <2>8, <2>9, RendersPut, RendersConcat
  <2>11. v \o <<"#">> \in Seq(Text)
    BY <2>6
  <2>12. QED
    BY <2>4, <2>7, <2>10, <2>11 DEF m
<1>9. CASE ~ loc.realSelf /\ (loc.cme = NULL \/ ClassOf[owner] \notin Refinements)
  <2>1. owner \in Modules /\ m.of = owner
    BY <1>1, <1>2, <1>9, FrameInfoAssumption DEF IsClass
  <2>2. Qualifier(m) = Do("mod", owner) \o Put("#")
    BY <1>2, <1>9, <2>1 DEF Qualifier
  <2>3. ~ (owner \in IClasses /\ ClassOf[owner] \in Refinements)
    BY <1>1, <1>9 DEF IsClass
  <2>4. DescribedQualifier(loc) = Append(Description(owner), "#")
    BY <1>1, <1>3, <1>9, <2>3 DEF DescribedQualifier, Owner, IsRefined
  <2>5. AsDocumented(owner)
    BY <1>1, <1>9, <2>3 DEF NamedBy, Owner, IsRefined
  <2>6. QED
    BY <1>0, <2>1, <2>2, <2>4, <2>5, RendersQualified DEF m
<1>10. QED
  BY <1>1, <1>3, <1>5, <1>6, <1>7, <1>8, <1>9

LEMMA MethodNameRenders ==
  ASSUME TypeOK, NEW loc, Valid(loc)
  PROVE  /\ DescribedMethod(loc) \in Seq(Text)
         /\ Renders(MethodName(ToMinimal(loc)), DescribedMethod(loc))
<1> DEFINE m == ToMinimal(loc)
           isBlock == loc.iseq # NULL /\ IseqType[loc.iseq] \in BlockOrEval
           block == IF IsBlockOrEval(m.type) THEN Put("{block}") ELSE <<>>
           body  == IF m.qualifier # "self" THEN <<>>
                    ELSE IF IsClass(m.of) THEN Put("{class exec}")
                    ELSE IF m.of \in PlainModules THEN Put("{module exec}") ELSE <<>>
           blockText == IF isBlock THEN <<"{block}">> ELSE <<>>
<1>1. /\ loc.cme \in Cmes \cup {NULL} /\ loc.iseq \in Iseqs \cup {NULL}
      /\ loc.self \in Objects /\ loc.realSelf \in BOOLEAN
      /\ loc.realSelf => loc.self \notin IClasses
      /\ loc.cme = NULL => loc.iseq # NULL
  BY DEF Valid, RawLocation
<1>2. /\ m.qualifier = "self" <=> loc.realSelf
      /\ loc.realSelf => m.of = loc.self
      /\ m.contents = "cme_id" <=> loc.cme # NULL
      /\ m.method = IF loc.cme # NULL THEN CalledId[loc.cme]
                   ELSE IF loc.iseq # NULL THEN BaseLabel[loc.iseq] ELSE NULL
      /\ m.type = IF loc.iseq # NULL THEN IseqType[loc.iseq] ELSE NULL
  BY DEF ToMinimal
<1>3. IsBlockOrEval(m.type) <=> isBlock
  BY <1>2, FrameInfoAssumption DEF IsBlockOrEval
<1>4. /\ loc.cme # NULL => CalledId[loc.cme] \in Piece
      /\ loc.iseq # NULL => BaseLabel[loc.iseq] \in Piece
  BY <1>1, FrameInfoAssumption, RangeHas DEF Piece
<1>5. "{block}" \in Piece /\ "{class exec}" \in Piece /\ "{module exec}" \in Piece
  BY PieceIsNotNull DEF Words
<1>6. MethodName(m) = IF m.contents = "cme_id" THEN Put(m.method) \o block
                      ELSE IF body \o block # <<>> THEN body \o block
                      ELSE Put(m.method)
  BY DEF MethodName
<1>7. /\ isBlock => block = Put("{block}") /\ blockText = <<"{block}">>
      /\ ~ isBlock => block = <<>> /\ blockText = <<>>
  BY <1>3, Zenon
<1> HIDE DEF m, isBlock, block, blockText
<1>14. /\ Put("{block}") \in Seq(Call) /\ <<"{block}">> \in Seq(Text)
       /\ Renders(Put("{block}"), <<"{block}">>)
       /\ Put("{block}") # <<>>
  BY <1>5, RendersPut DEF Put, Do
<1>15. block \in Seq(Call) /\ blockText \in Seq(Text) /\ Renders(block, blockText)
  <2>1. CASE isBlock
    BY <1>7, <1>14, <2>1, Zenon
  <2>2. CASE ~ isBlock
    <3>1. <<>> \in Seq(Call) /\ <<>> \in Seq(Text)
      OBVIOUS
    <3>2. QED
      BY <1>7, <2>2, <3>1, RendersNothing, Zenon
  <2>3. QED
    BY <2>1, <2>2
<1>8. CASE loc.cme # NULL
  <2>1. DescribedMethod(loc) = <<CalledId[loc.cme]>> \o blockText
    BY <1>8 DEF DescribedMethod, blockText, isBlock
  <2>2. MethodName(m) = Put(CalledId[loc.cme]) \o block
    BY <1>2, <1>6, <1>8
  <2>3. /\ Put(CalledId[loc.cme]) \in Seq(Call) /\ <<CalledId[loc.cme]>> \in Seq(Text)
        /\ Renders(Put(CalledId[loc.cme]), <<CalledId[loc.cme]>>)
    BY <1>4, <1>8, RendersPut
  <2>4. /\ <<CalledId[loc.cme]>> \o blockText \in Seq(Text)
        /\ Renders(Put(CalledId[loc.cme]) \o block, <<CalledId[loc.cme]>> \o blockText)
    <3>1. <<CalledId[loc.cme]>> \o blockText \in Seq(Text)
      BY <1>15, <2>3
    <3>2. QED
      BY <1>15, <2>3, <3>1, RendersConcat
  <2>5. DescribedMethod(loc) \in Seq(Text) /\ Renders(MethodName(m), DescribedMethod(loc))
    BY <2>1, <2>2, <2>4, Zenon
  <2>6. QED
    BY <2>5 DEF m
<1>9. ASSUME loc.cme = NULL, NEW p \in Piece, body = Put(p),
             DescribedMethod(loc) = <<p>> \o blockText
      PROVE  /\ DescribedMethod(loc) \in Seq(Text)
             /\ Renders(MethodName(m), DescribedMethod(loc))
  <2> HIDE DEF body
  <2>1. /\ Put(p) \in Seq(Call) /\ <<p>> \in Seq(Text) /\ Renders(Put(p), <<p>>)
        /\ Len(Put(p)) = 1
    BY RendersPut DEF Put, Do
  <2>2. Put(p) \o block # <<>>
    <3> DEFINE q == Put(p)
    <3>0. q \in Seq(Call) /\ Len(q) = 1
      BY <2>1
    <3> HIDE DEF q
    <3>1. \A u, v \in Seq(Call) : Len(u) = 1 => u \o v # <<>>
      OBVIOUS
    <3>2. q \o block # <<>>
      BY <1>15, <3>0, <3>1, Zenon
    <3>3. QED
      BY <3>2 DEF q
  <2>3. MethodName(m) = Put(p) \o block
    BY <1>2, <1>6, <1>9, <2>2
  <2>4. <<p>> \o blockText \in Seq(Text)
    BY <1>15, <2>1
  <2>5. Renders(Put(p) \o block, <<p>> \o blockText)
    BY <1>15, <2>1, RendersConcat
  <2>6. QED
    BY <1>9, <2>3, <2>4, <2>5, Zenon
<1>10. CASE loc.cme = NULL /\ loc.realSelf /\ IsClass(loc.self)
  <2>1. body = Put("{class exec}")
    BY <1>2, <1>10
  <2>2. DescribedMethod(loc) = <<"{class exec}">> \o blockText
    BY <1>10 DEF DescribedMethod, blockText, isBlock, IsClass
  <2>3. QED
    BY <1>5, <1>9, <1>10, <2>1, <2>2 DEF m
<1>11. CASE loc.cme = NULL /\ loc.realSelf /\ loc.self \in Modules /\ ~ IsClass(loc.self)
  <2>1. loc.self \in PlainModules
    BY <1>1, <1>11 DEF IsClass
  <2>2. body = Put("{module exec}")
    BY <1>2, <1>11, <2>1
  <2>3. DescribedMethod(loc) = <<"{module exec}">> \o blockText
    BY <1>11 DEF DescribedMethod, blockText, isBlock
  <2>4. QED
    BY <1>5, <1>9, <1>11, <2>2, <2>3 DEF m
<1>12. CASE loc.cme = NULL /\ ~ (loc.realSelf /\ loc.self \in Modules)
  <2>1. body = <<>>
    BY <1>1, <1>2, <1>12, FrameInfoAssumption DEF IsClass
  <2> HIDE DEF body
  <2>2. DescribedMethod(loc) = (IF isBlock THEN <<>> ELSE <<BaseLabel[loc.iseq]>>) \o blockText
    BY <1>12 DEF DescribedMethod, blockText, isBlock
  <2>3. CASE isBlock
    <3>1. <<>> \o block = block /\ <<>> \o blockText = blockText
      BY <1>15
    <3>2. MethodName(m) = block
      BY <1>2, <1>6, <1>7, <1>12, <1>14, <2>1, <2>3, <3>1
    <3>3. DescribedMethod(loc) = blockText
      BY <2>2, <2>3, <3>1
    <3>4. DescribedMethod(loc) \in Seq(Text) /\ Renders(MethodName(m), DescribedMethod(loc))
      BY <1>15, <3>2, <3>3, Zenon
    <3>5. QED
      BY <3>4 DEF m
  <2>4. CASE ~ isBlock
    <3>0. <<>> \o <<>> = <<>>
      OBVIOUS
    <3>1. <<>> \o block = <<>>
      BY <1>7, <2>4, <3>0, Zenon
    <3>2. MethodName(m) = Put(BaseLabel[loc.iseq])
      BY <1>1, <1>2, <1>6, <1>12, <2>1, <3>1
    <3>3. /\ <<BaseLabel[loc.iseq]>> \in Seq(Text)
          /\ Renders(Put(BaseLabel[loc.iseq]), <<BaseLabel[loc.iseq]>>)
      BY <1>1, <1>4, <1>12, RendersPut
    <3>4. DescribedMethod(loc) = <<BaseLabel[loc.iseq]>>
      <4> DEFINE q == <<BaseLabel[loc.iseq]>>
      <4>1. q \in Seq(Text)
        BY <3>3
      <4>2. DescribedMethod(loc) = q \o <<>>
        BY <1>7, <2>2, <2>4
      <4> HIDE DEF q
      <4>3. q \o <<>> = q
        BY <4>1
      <4>4. QED
        BY <4>2, <4>3 DEF q
    <3>5. DescribedMethod(loc) \in Seq(Text) /\ Renders(MethodName(m), DescribedMethod(loc))
      BY <3>2, <3>3, <3>4, Zenon
    <3>6. QED
      BY <3>5 DEF m
  <2>5. QED
    BY <2>3, <2>4
<1>13. QED
  BY <1>8, <1>10, <1>11, <1>12 DEF m

-----------------------------------------------------------------------------
(* The name that is being put together *)

Naming == query \in {"name", "minimal_name"}

AtRest == /\ ~ Naming => todo = <<>>
          /\ query = "idle" => out = <<>>

AllAsDocumented == \A k \in NamedBy(raw) : AsDocumented(k)

(* The answer is the beginning of the documented name, and the calls that  *)
(* are still to be made contribute the rest of it.                         *)
OnTrack ==
  Naming /\ AllAsDocumented =>
    /\ out \in Seq(Text) /\ Has(out, 0)
    /\ Spells(todo, Len(out), Len(DocumentedName))

(* With IInv, inductive. *)
NameInv == InnerUnnamed /\ AtRest /\ OnTrack

LEMMA MeaningType ==
  ASSUME TypeOK, KeptIsValid, raw # NULL, NEW c \in Call
  PROVE  Meaning(c) \in Seq(Text)
<1>1. CanRun(c.call, c.of) /\ c.call \in CallName
  BY DEF Call
<1>2. CASE c.call = "append"
  BY <1>1, <1>2, WordsAreText DEF Meaning, CanRun
<1>3. CASE c.call = "mod"
  BY <1>1, <1>3, DescriptionType DEF Meaning, CanRun
<1>4. CASE c.call = "singleton"
  BY <1>1, <1>4, GoesByType, DescriptionType DEF Meaning, CanRun
<1>5. CASE c.call = "anon"
  <2> DEFINE k == IF IsClass(c.of) THEN c.of ELSE ClassOf[c.of]
  <2>1. c.of \in Modules /\ (c.of \in PlainModules \/ IsClass(c.of))
    BY <1>1, <1>5, FrameInfoAssumption DEF CanRun, HasSuperclass
  <2>2. c.of \in PlainModules => IsClass(ClassOf[c.of])
    BY <2>1, FrameInfoAssumption, HierarchyAssumption, VMAssumption
  <2>3. k \in Modules
    BY <2>1, <2>2 DEF IsClass
  <2>4. Meaning(c) = <<FirstNamed(k)>>
    BY <1>5 DEF Meaning
  <2> HIDE DEF k
  <2>5. QED
    BY <2>3, <2>4 DEF Text
<1>6. CASE c.call = "super"
  <2>1. ClassSuperclass[c.of] \in Modules
    BY <1>1, <1>6, HierarchyAssumption DEF CanRun, HasSuperclass
  <2>2. Meaning(c) = <<FirstNamed(ClassSuperclass[c.of])>>
    BY <1>6 DEF Meaning
  <2>3. QED
    BY <2>1, <2>2 DEF Text
<1>7. CASE c.call = "refinement"
  <2>1. c.of \in Refinements
    BY <1>1, <1>7 DEF CanRun
  <2>2. QED
    BY <1>7, <2>1, RefinementType DEF Meaning
<1>8. CASE c.call = "qualifier"
  BY <1>8, QualifierType DEF Meaning, KeptIsValid
<1>9. CASE c.call = "name"
  BY <1>9, MethodNameRenders DEF Meaning, KeptIsValid
<1>10. QED
  BY <1>1, <1>2, <1>3, <1>4, <1>5, <1>6, <1>7, <1>8, <1>9 DEF CallName

(* A call that makes others contributes what they do. *)
LEMMA ExpandRenders ==
  ASSUME TypeOK, NamesStay, KeptIsValid, InnerUnnamed, raw # NULL,
         NEW c \in Call, c.call # "append", Faithful(c)
  PROVE  Renders(Expand(c), Meaning(c))
<1>1. CanRun(c.call, c.of) /\ c.call \in CallName
  BY DEF Call
<1>2. CASE c.call = "mod"
  <2>1. Expand(c) = ModToS(c.of) /\ Meaning(c) = Description(c.of)
    BY <1>2, Zenon DEF Expand, Meaning
  <2>2. QED
    BY <1>1, <1>2, <2>1, ModToSRenders DEF CanRun, Faithful
<1>3. CASE c.call = "singleton"
  <2>1. Expand(c) = SingletonToS(c.of) /\ Meaning(c) = Description(GoesBy(c.of))
    BY <1>3, Zenon DEF Expand, Meaning
  <2>2. QED
    BY <1>1, <1>3, <2>1, SingletonToSRenders DEF CanRun, Faithful
<1>4. CASE c.call = "anon"
  <2>1. /\ Expand(c) = AnonToS(c.of)
        /\ Meaning(c) = <<FirstNamed(IF IsClass(c.of) THEN c.of ELSE ClassOf[c.of])>>
    BY <1>4, Zenon DEF Expand, Meaning
  <2>2. c.of \in Modules /\ (c.of \in PlainModules \/ HasSuperclass(c.of))
    BY <1>1, <1>4, FrameInfoAssumption DEF CanRun, HasSuperclass
  <2>3. QED
    BY <1>4, <2>1, <2>2, AnonToSRenders DEF Faithful
<1>5. CASE c.call = "super"
  <2>1. /\ Expand(c) = SuperToS(c.of)
        /\ Meaning(c) = <<FirstNamed(ClassSuperclass[c.of])>>
    BY <1>5, Zenon DEF Expand, Meaning
  <2>2. QED
    BY <1>1, <1>5, <2>1, SuperToSRenders DEF CanRun
<1>6. CASE c.call = "refinement"
  <2>1. /\ Expand(c) = RefinementToS(c.of)
        /\ Meaning(c) = Description(RefinedClass[c.of]) \o <<"$refinement@">>
                          \o Description(DefinedAt[c.of])
    BY <1>6, Zenon DEF Expand, Meaning
  <2>2. QED
    BY <1>1, <1>6, <2>1, RefinementToSRenders DEF CanRun, Faithful
<1>7. CASE c.call = "qualifier"
  <2>1. Expand(c) = Qualifier(Asked) /\ Meaning(c) = DescribedQualifier(raw)
    BY <1>7, Zenon DEF Expand, Meaning
  <2>2. QED
    BY <1>7, <2>1, AskedIsMinimal, QualifierRenders DEF KeptIsValid, Faithful
<1>8. CASE c.call = "name"
  <2>1. Expand(c) = MethodName(Asked) /\ Meaning(c) = DescribedMethod(raw)
    BY <1>8, Zenon DEF Expand, Meaning
  <2>2. QED
    BY <2>1, AskedIsMinimal, MethodNameRenders DEF KeptIsValid
<1>9. QED
  BY <1>1, <1>2, <1>3, <1>4, <1>5, <1>6, <1>7, <1>8 DEF CallName

(* Nothing that is left to call contributes nothing. *)
LEMMA SpellsNothing ==
  ASSUME NEW a, NEW b, Spells(<<>>, a, b)
  PROVE  a = b
BY DEF Spells

(* What is documented depends on nothing but names and the location. *)
LEMMA DocumentedStays ==
  ASSUME UNCHANGED <<names, raw>>
  PROVE  /\ DocumentedName' = DocumentedName
         /\ \A c : Meaning(c)' = Meaning(c)
         /\ \A c : Faithful(c)' <=> Faithful(c)
         /\ AllAsDocumented' <=> AllAsDocumented
<1>1. names' = names /\ raw' = raw
  OBVIOUS
<1>2. \A k : FirstNamed(k)' = FirstNamed(k)
  BY <1>1 DEF FirstNamed
<1>3. \A k : Description(k)' = Description(k)
  BY <1>1, <1>2, Zenon DEF Description
<1>4. DescribedQualifier(raw)' = DescribedQualifier(raw)
  BY <1>1, <1>3, Zenon DEF DescribedQualifier
<1>5. DescribedMethod(raw)' = DescribedMethod(raw)
  BY <1>1, Zenon DEF DescribedMethod
<1>6. DocumentedName' = DocumentedName
  BY <1>4, <1>5, Zenon DEF DocumentedName
<1>7. \A c : Meaning(c)' = Meaning(c)
  BY <1>2, <1>3, <1>4, <1>5, Zenon DEF Meaning
<1>8. \A k : AsDocumented(k)' <=> AsDocumented(k)
  BY <1>1 DEF AsDocumented, KnownToDeviate, SkipsClass
<1>9. AllAsDocumented' <=> AllAsDocumented
  BY <1>1, <1>8 DEF AllAsDocumented
<1>10. \A c : Faithful(c)' <=> Faithful(c)
  BY <1>1, <1>8, <1>9 DEF Faithful, SkipsClass, AllAsDocumented
<1>11. QED
  BY <1>6, <1>7, <1>9, <1>10

LEMMA TrackStays ==
  ASSUME UNCHANGED <<names, raw>>, NEW v, v = out', NEW s, s = todo',
         AllAsDocumented => v \in Seq(Text) /\ Has(v, 0) /\ Spells(s, Len(v), Len(DocumentedName))
  PROVE  OnTrack'
<1>1. /\ DocumentedName' = DocumentedName /\ \A c : Meaning(c)' = Meaning(c)
      /\ (\A c : Faithful(c)' <=> Faithful(c)) /\ (AllAsDocumented' <=> AllAsDocumented)
  BY DocumentedStays
<1>2. \A k : FirstNamed(k)' = FirstNamed(k)
  BY DEF FirstNamed
<1>3. Text' = Text
  BY <1>2, Zenon DEF Text
<1>4. \A u, a : Has(u, a)' <=> Has(u, a)
  BY <1>1 DEF Has
<1>5. \A c, a : Contributes(c, a)' <=> Contributes(c, a)
  BY <1>1 DEF Contributes, Has
<1>6. \A u, a, b : Spells(u, a, b)' <=> Spells(u, a, b)
  BY <1>1, <1>5 DEF Spells
<1>7. QED
  BY <1>1, <1>3, <1>4, <1>6 DEF OnTrack

LEMMA InnerUnnamedInv ==
  ASSUME IInv, InnerUnnamed, [Next]_vars
  PROVE  InnerUnnamed'
<1>1. ASSUME NEW k \in Modules \ (IClasses \cup Singletons), AssignConstant(k)
      PROVE  InnerUnnamed'
  <2>1. names' = [names EXCEPT ![k] = ConstantName[k]]
    BY <1>1 DEF AssignConstant
  <2>2. \A j \in IClasses \cup Singletons : j # k /\ j \in Modules
    BY FrameInfoAssumption
  <2>3. QED
    BY <2>1, <2>2 DEF IInv, TypeOK, InnerUnnamed
<1>2. ASSUME UNCHANGED names PROVE InnerUnnamed'
  BY <1>2 DEF InnerUnnamed
<1>3. CASE UNCHANGED vars
  BY <1>2, <1>3 DEF vars
<1>4. CASE Next
  BY <1>1, <1>2, <1>4 DEF Next, CaptureFrame, AskName, AskMinimalName, NameStep, AskLabel,
     AskFilename, AskMinimalFilename, AskProfileFrame, Answered
<1>5. QED
  BY <1>3, <1>4

LEMMA AtRestInv ==
  ASSUME IInv, AtRest, [Next]_vars
  PROVE  AtRest'
<1>1. CASE NameStep
  BY <1>1, NameStepIs DEF AtRest, Naming
<1>2. CASE AskName \/ AskMinimalName
  BY <1>2 DEF AskName, AskMinimalName, AtRest, Naming
<1>3. CASE Answered
  BY <1>3 DEF Answered, AtRest, Naming
<1>4. CASE UNCHANGED vars
  BY <1>4 DEF vars, AtRest, Naming
<1>5. ASSUME NEW k, AssignConstant(k) PROVE AtRest'
  BY <1>5 DEF AssignConstant, AtRest, Naming
<1>6. ASSUME NEW f, CaptureFrame(f) PROVE AtRest'
  BY <1>6 DEF CaptureFrame, AtRest, Naming
<1>7. ASSUME NEW b, AskLabel(b) \/ AskFilename(b) PROVE AtRest'
  BY <1>7 DEF AskLabel, AskFilename, AtRest, Naming
<1>8. CASE AskMinimalFilename \/ AskProfileFrame
  BY <1>8 DEF AskMinimalFilename, AskProfileFrame, AtRest, Naming
<1>9. QED
  BY <1>1, <1>2, <1>3, <1>4, <1>5, <1>6, <1>7, <1>8 DEF Next

(* At first the qualifier and the method name are what is left. *)
LEMMA AskNameOnTrack ==
  ASSUME IInv, NameInv, AskName \/ AskMinimalName, AllAsDocumented
  PROVE  OnTrack'
<1>1. /\ raw # NULL /\ Valid(raw) /\ UNCHANGED <<names, raw>> /\ query = "idle"
      /\ todo' = Do("qualifier", NULL) \o Do("name", NULL) /\ out' = <<>>
  BY DEF AskName, AskMinimalName, IInv, TypeOK, KeptIsValid, NameInv, AtRest
<1> DEFINE q == Do("qualifier", NULL)
           n == Do("name", NULL)
           s == q \o n
           u == DescribedQualifier(raw)
           v == DescribedMethod(raw)
<1>2. u \in Seq(Text) /\ v \in Seq(Text)
  BY <1>1, QualifierType, MethodNameRenders DEF IInv
<1>3. q \in Seq(Call) /\ Renders(q, u)
  <2>1. Meaning([call |-> "qualifier", of |-> NULL]) = u
    BY DEF Meaning
  <2>2. "qualifier" \in CallName /\ CanRun("qualifier", NULL)
    BY DEF CallName, CanRun
  <2>3. Faithful([call |-> "qualifier", of |-> NULL])
    BY DEF Faithful, AllAsDocumented
  <2>4. QED
    BY <1>2, <2>1, <2>2, <2>3, RendersDo
<1>4. n \in Seq(Call) /\ Renders(n, v)
  <2>1. Meaning([call |-> "name", of |-> NULL]) = v
    BY DEF Meaning
  <2>2. "name" \in CallName /\ CanRun("name", NULL)
    BY DEF CallName, CanRun
  <2>3. Faithful([call |-> "name", of |-> NULL])
    BY DEF Faithful
  <2>4. QED
    BY <1>2, <2>1, <2>2, <2>3, RendersDo
<1> HIDE DEF q, n, u, v
<1>5. Renders(s, u \o v) /\ u \o v \in Seq(Text)
  BY <1>2, <1>3, <1>4, RendersConcat
<1>6. DocumentedName = u \o v
  BY DEF DocumentedName, u, v
<1>7. Len(DocumentedName) \in Nat /\ Has(DocumentedName, 0)
  BY <1>5, <1>6 DEF Has
<1>8. Spells(s, 0, 0 + Len(DocumentedName))
  BY <1>5, <1>6, <1>7 DEF Renders
<1>9. Has(<<>>, 0) /\ <<>> \in Seq(Text) /\ Len(<<>>) = 0 /\ 0 + Len(DocumentedName) = Len(DocumentedName)
  BY <1>7 DEF Has
<1>10. todo' = s
  BY <1>1 DEF s, q, n
<1> HIDE DEF s
<1>11. QED
  BY <1>1, <1>8, <1>9, <1>10, TrackStays

LEMMA NameStepOnTrack ==
  ASSUME IInv, NameInv, NameStep, AllAsDocumented
  PROVE  OnTrack'
<1>1. /\ Naming /\ raw # NULL /\ UNCHANGED <<names, raw>>
      /\ todo # <<>> /\ todo \in Seq(Call) /\ Head(todo) \in Call /\ Tail(todo) \in Seq(Call)
  BY NameStepIs DEF Naming, IInv, CallsCanRun
<1>2. /\ out \in Seq(Text) /\ Has(out, 0)
      /\ Spells(todo, Len(out), Len(DocumentedName))
      /\ Len(out) \in Nat
  BY <1>1 DEF NameInv, OnTrack
<1>3. Len(DocumentedName) \in Nat
  BY <1>1, QualifierType, MethodNameRenders DEF IInv, KeptIsValid, DocumentedName
<1> DEFINE c == Head(todo)
           t == Tail(todo)
           d == Len(DocumentedName)
<1>4. c \in Call /\ t \in Seq(Call) /\ Meaning(c) \in Seq(Text)
  BY <1>1, MeaningType DEF IInv
<1>5. Contributes(c, Len(out)) /\ Spells(t, Len(out) + Len(Meaning(c)), d)
  BY <1>1, <1>2, <1>3, <1>4, SpellsFirst
<1>6. CASE c.call = "append"
  <2>1. out' = Append(out, c.of) /\ todo' = t
    BY <1>6, NameStepIs
  <2>2. Meaning(c) = <<c.of>> /\ Len(Meaning(c)) = 1 /\ c.of \in Text
    <3>1. c.of \in Piece
      BY <1>4, <1>6 DEF Call, CanRun
    <3>2. QED
      BY <1>6, <3>1, WordsAreText DEF Meaning
  <2>3. /\ Len(out) + 1 <= d /\ DocumentedName[Len(out) + 1] = c.of
    <3> DEFINE p == c.of
    <3>1. Has(<<p>>, Len(out))
      BY <1>5, <2>2 DEF Contributes
    <3> HIDE DEF p
    <3>2. Len(<<p>>) = 1 /\ 1 \in 1 .. Len(<<p>>) /\ <<p>>[1] = p
      OBVIOUS
    <3>3. Len(out) + 1 <= d /\ DocumentedName[Len(out) + 1] = p
      BY <3>1, <3>2 DEF Has
    <3>4. QED
      BY <3>3 DEF p
  <2> DEFINE w == Append(out, c.of)
  <2>4. /\ w \in Seq(Text) /\ Len(w) = Len(out) + 1
        /\ \A i \in 1 .. Len(out) : w[i] = out[i]
        /\ w[Len(out) + 1] = c.of
    BY <1>2, <2>2
  <2> HIDE DEF w, c, t
  <2>5. \A i \in 1 .. Len(out) : DocumentedName[0 + i] = out[i]
    BY <1>2 DEF Has
  <2>6. Has(w, 0)
    BY <1>2, <1>3, <2>3, <2>4, <2>5 DEF Has
  <2>7. Spells(t, Len(w), d)
    BY <1>5, <2>2, <2>4
  <2>8. QED
    BY <1>1, <2>1, <2>4, <2>6, <2>7, TrackStays DEF w
<1>7. CASE c.call # "append"
  <2>1. out' = out /\ todo' = Expand(c) \o t
    BY <1>7, NameStepIs
  <2>2. Expand(c) \in Seq(Call)
    BY <1>1, <1>4, <1>7, ExpandReady DEF IInv
  <2>3. Renders(Expand(c), Meaning(c))
    BY <1>1, <1>4, <1>5, <1>7, ExpandRenders DEF IInv, NameInv, Contributes
  <2>4. Has(Meaning(c), Len(out))
    BY <1>5 DEF Contributes
  <2>5. Spells(Expand(c), Len(out), Len(out) + Len(Meaning(c)))
    BY <1>2, <2>3, <2>4 DEF Renders
  <2>6. Len(out) + Len(Meaning(c)) \in Nat
    BY <1>2, <1>4
  <2> HIDE DEF c, t
  <2>7. Spells(Expand(c) \o t, Len(out), d)
    BY <1>2, <1>3, <1>4, <1>5, <2>2, <2>5, <2>6, SpellsConcat
  <2>8. QED
    BY <1>1, <1>2, <2>1, <2>7, TrackStays
<1>8. QED
  BY <1>6, <1>7

LEMMA NameInvStep ==
  ASSUME IInv, NameInv, [Next]_vars
  PROVE  NameInv'
<1>1. InnerUnnamed' /\ AtRest'
  BY InnerUnnamedInv, AtRestInv DEF NameInv
<1>2. OnTrack'
  <2>1. ASSUME ~ Naming' PROVE OnTrack'
    BY <2>1 DEF OnTrack
  <2>2. CASE UNCHANGED vars
    <3>1. CASE ~ Naming
      BY <2>1, <2>2, <3>1 DEF vars, Naming
    <3>2. CASE Naming
      BY <2>2, <3>2, TrackStays DEF vars, NameInv, OnTrack
    <3>3. QED
      BY <3>1, <3>2
  <2>3. ASSUME NEW k, AssignConstant(k) PROVE ~ Naming'
    BY <2>3 DEF AssignConstant, Naming
  <2>4. ASSUME NEW f, CaptureFrame(f) PROVE ~ Naming'
    BY <2>4 DEF CaptureFrame, Naming
  <2>5. ASSUME NEW b, AskLabel(b) \/ AskFilename(b) PROVE ~ Naming'
    BY <2>5 DEF AskLabel, AskFilename, Naming
  <2>6. ASSUME AskMinimalFilename \/ AskProfileFrame \/ Answered PROVE ~ Naming'
    BY <2>6 DEF AskMinimalFilename, AskProfileFrame, Answered, Naming
  <2>7. CASE AskName \/ AskMinimalName \/ NameStep
    <3>1. CASE AllAsDocumented
      BY <2>7, <3>1, AskNameOnTrack, NameStepOnTrack
    <3>2. CASE ~ AllAsDocumented
      <4>1. UNCHANGED <<names, raw>>
        BY <2>7, NameStepIs DEF AskName, AskMinimalName
      <4>2. ~ AllAsDocumented'
        BY <3>2, <4>1, DocumentedStays
      <4>3. QED
        BY <4>2 DEF OnTrack
    <3>3. QED
      BY <3>1, <3>2
  <2>8. QED
    BY <2>1, <2>2, <2>3, <2>4, <2>5, <2>6, <2>7 DEF Next
<1>3. QED
  BY <1>1, <1>2 DEF NameInv

LEMMA NameInvInit == Init => NameInv
<1> SUFFICES ASSUME Init PROVE NameInv
  OBVIOUS
<1>1. /\ names = [k \in Modules |-> IF k \in FirstNames THEN ConstantName[k] ELSE NULL]
      /\ query = "idle" /\ todo = <<>> /\ out = <<>>
  BY DEF Init
<1>2. InnerUnnamed
  BY <1>1, FrameInfoAssumption DEF InnerUnnamed
<1>3. QED
  BY <1>1, <1>2 DEF NameInv, AtRest, OnTrack, Naming

(* When nothing is left to call, the answer is the whole name. *)
LEMMA NameIsWhole ==
  ASSUME IInv, NameInv
  PROVE  NameIsDescription
<1> SUFFICES ASSUME Naming, todo = <<>>, AllAsDocumented PROVE out = DocumentedName
  BY DEF NameIsDescription, NameGiven, Naming, AllAsDocumented, AsDocumented
<1>1. out \in Seq(Text) /\ Has(out, 0) /\ Spells(<<>>, Len(out), Len(DocumentedName))
  BY DEF NameInv, OnTrack
<1>2. Len(out) = Len(DocumentedName)
  BY <1>1, SpellsNothing
<1>3. DocumentedName \in Seq(Text)
  <2>1. raw # NULL /\ Valid(raw) /\ TypeOK
    BY DEF IInv, CallsCanRun, KeptIsValid, Naming
  <2>2. DescribedQualifier(raw) \in Seq(Text) /\ DescribedMethod(raw) \in Seq(Text)
    BY <2>1, QualifierType, MethodNameRenders
  <2>3. QED
    BY <2>2 DEF DocumentedName
<1>4. \A i \in 1 .. Len(out) : DocumentedName[i] = out[i]
  BY <1>1 DEF Has
<1>5. QED
  BY <1>1, <1>2, <1>3, <1>4

-----------------------------------------------------------------------------
(* Theorems *)

(* What is kept is of a valid frame, every call of a naming function finds *)
(* what it relies on, and nothing aborts.                                  *)
THEOREM Invariance == Spec => []IInv
<1>1. Init => IInv
  BY InitInv
<1>2. IInv /\ [Next]_vars => IInv'
  BY NextInv
<1>3. QED
  BY <1>1, <1>2, PTL DEF Spec

(* Every variable keeps its type: what is kept of a frame is a location,   *)
(* and its minimal location is kept with it.                               *)
THEOREM TypeCorrect == Spec => []TypeOK
<1>1. IInv => TypeOK
  BY DEF IInv
<1>2. QED
  BY <1>1, Invariance, PTL

(* The assertions of mod_to_s_anon and strbuilder_append_value hold for    *)
(* every frame that was found valid, in any hierarchy that MRI can build   *)
(* and whatever names are given in the meantime.                           *)
THEOREM NamingIsSafe == Spec => []NamingNeverAborts
<1>1. IInv => NamingNeverAborts
  BY DEF IInv
<1>2. QED
  BY <1>1, Invariance, PTL

(* A captured frame has a label, and a path just when it is a Ruby frame.  *)
THEOREM LabelsAndPathsAreThere == Spec => []LabelsAndPaths
<1>1. IInv => LabelsAndPaths
  BY DEF IInv
<1>2. QED
  BY <1>1, Invariance, PTL

(* The qualified name of every kept location, raw or minimal, is the one   *)
(* that the comments of mod_to_s_anon and mod_to_s_singleton document,     *)
(* whatever classes and modules there are besides, except for a location   *)
(* that is itself named by one of those two kinds: an anonymous module     *)
(* whose class has a name, or the singleton class of an instance of a      *)
(* subclass of Module.                                                     *)
THEOREM NamesAreDocumented == Spec => []NameIsDescription
<1>1. Init => IInv /\ NameInv
  BY InitInv, NameInvInit
<1>2. (IInv /\ NameInv) /\ [Next]_vars => (IInv /\ NameInv)'
  BY NextInv, NameInvStep
<1>3. IInv /\ NameInv => NameIsDescription
  BY NameIsWhole
<1>4. QED
  BY <1>1, <1>2, <1>3, PTL DEF Spec
=============================================================================
