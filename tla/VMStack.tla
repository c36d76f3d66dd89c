------------------------------- MODULE VMStack -------------------------------
(***************************************************************************)
(* The control-frame stacks of MRI threads as backtracie reads them, the   *)
(* pure functions it applies to one frame, and the reference definition of *)
(* a backtrace that the collector is checked against.                      *)
(*                                                                         *)
(* A stack is a sequence of frames, oldest first: position 1 is the dummy  *)
(* frame at the bottom, the last position is ec->cfp.  The empty sequence  *)
(* is ec->cfp = NULL, a thread that has not run yet.  Frame indices, as in *)
(* the C API, count from 0 at the newest frame.                            *)
(***************************************************************************)
EXTENDS Naturals, Sequences, FiniteSets, FiniteSetsExt

CONSTANTS
  NULL,            \* the C null pointer, and Ruby's nil
  Iseqs,           \* compiled Ruby code (rb_iseq_t)
  LineTable,       \* for each iseq, the source line of each instruction
  Cmes,            \* callable method entries
  CFuncs,          \* those whose definition is VM_METHOD_TYPE_CFUNC
  Objects,         \* possible receivers
  Modules,         \* receivers that are a T_CLASS, T_MODULE or T_ICLASS
  SpecialObjects,  \* the main object and RubyVM::FrozenCore
  ClassOf          \* rb_class_of

ASSUME VMAssumption ==
  /\ NULL \notin Iseqs \cup Cmes \cup Objects
  /\ NULL \notin Nat
  /\ LineTable \in [Iseqs -> Seq(Nat)]
  /\ CFuncs \subseteq Cmes
  /\ Modules \subseteq Objects
  /\ SpecialObjects \subseteq Objects
  /\ ClassOf \in [Objects -> Modules]

(* rb_control_frame_t: what VM_FRAME_RUBYFRAME_P says of it, its code, the *)
(* next instruction, its method entry and its receiver.  A Ruby frame has  *)
(* code, and its pc stays within it.                                       *)
Frame ==
  {f \in [ruby : BOOLEAN, iseq : Iseqs \cup {NULL}, pc : Nat \cup {NULL},
           cme : Cmes \cup {NULL}, self : Objects] :
     f.ruby => /\ f.iseq # NULL
               /\ f.pc # NULL => LineTable[f.iseq] # <<>>
                                 /\ f.pc <= Len(LineTable[f.iseq])}

(* raw_location: what is kept of a frame. *)
RawLocation ==
  {r \in [ruby : BOOLEAN, iseq : Iseqs \cup {NULL}, pc : Nat \cup {NULL},
           cme : Cmes \cup {NULL}, self : Objects, realSelf : BOOLEAN] :
     r.ruby => /\ r.iseq # NULL /\ r.pc # NULL
               /\ LineTable[r.iseq] # <<>> /\ r.pc <= Len(LineTable[r.iseq])}

(* Backtracie::Location: the frame it is about, the code whose path it     *)
(* shows (NULL for "(in native code)"), the line, path_is_synthetic.       *)
Location == [of : RawLocation, file : Iseqs \cup {NULL}, line : Nat,
             synthetic : BOOLEAN]

-----------------------------------------------------------------------------
(* One frame. *)

(* backtracie_frame_count_for_execution_context: every frame but the       *)
(* bottom one, none for a thread that has not run.                         *)
FrameCount(s) == IF Len(s) < 2 THEN 0 ELSE Len(s) - 1

(* ec->cfp + k *)
FrameAt(s, k) == s[Len(s) - k]

(* The index check of capture_frame_for_execution_context; the code lets a *)
(* NULL cfp through it and then dereferences it, so that is out of range.  *)
InRange(s, k) == k + 1 < Len(s)

(* Does the frame belong in a backtrace? *)
IsValid(f) ==
  /\ ~ (f.iseq # NULL /\ f.pc = NULL)
  /\ f.ruby \/ (f.cme # NULL /\ f.cme \in CFuncs)

KeepsSelf(obj) == obj \in SpecialObjects \/ obj \in Modules

(* Mutant: the receiver is kept, whatever it is. *)
Capture_Receiver(f) ==
  [ruby |-> f.ruby, iseq |-> f.iseq, pc |-> f.pc, cme |-> f.cme,
   self |-> f.self, realSelf |-> TRUE]

(* The fields capture_frame_for_execution_context fills in. *)
Capture(f) ==
  [ruby |-> f.ruby, iseq |-> f.iseq, pc |-> f.pc, cme |-> f.cme,
   self |-> IF KeepsSelf(f.self) THEN f.self ELSE ClassOf[f.self],
   realSelf |-> KeepsSelf(f.self)]

(* calc_lineno: the pc is already past the instruction being executed. *)
LineNumber(raw) ==
  IF raw.pc = NULL THEN 0
  ELSE LET position == IF raw.pc > 0 THEN raw.pc - 1 ELSE raw.pc
       IN  LineTable[raw.iseq][position + 1]

(* Mutant: no line, instead of line 0, where there is no Ruby frame. *)
ToLocation_NilLine(raws, n, p) ==
  IF p # 0
  THEN [of |-> raws[n], file |-> raws[p].iseq, line |-> LineNumber(raws[p]),
        synthetic |-> n # p]
  ELSE [of |-> raws[n], file |-> NULL, line |-> NULL, synthetic |-> TRUE]

(* frame_to_location, for the captured frame n and the Ruby frame p that   *)
(* lends it a path (0: there is none).                                     *)
ToLocation(raws, n, p) ==
  IF p # 0
  THEN [of |-> raws[n], file |-> raws[p].iseq, line |-> LineNumber(raws[p]),
        synthetic |-> n # p]
  ELSE [of |-> raws[n], file |-> NULL, line |-> 0, synthetic |-> TRUE]

-----------------------------------------------------------------------------
(* What a backtrace is, said of the stack alone.                           *)

(* The indices in k .. n-1 of the frames that belong in a backtrace. *)
Shown(s, k, n) == {j \in k .. (n - 1) : IsValid(FrameAt(s, j))}

(* The place of index j among them, newest first. *)
Rank(s, k, n, j) == Cardinality({m \in Shown(s, k, n) : m <= j})

(* raws holds those frames and no other, newest first. *)
IsCapture(raws, s, k, n) ==
  /\ Len(raws) = Cardinality(Shown(s, k, n))
  /\ \A j \in Shown(s, k, n) : raws[Rank(s, k, n, j)] = Capture(FrameAt(s, j))

(* The nearest Ruby frame at or below index j, and the location of j. *)
RubyAtOrBelow(s, j) ==
  {m \in Shown(s, j, FrameCount(s)) : FrameAt(s, m).ruby}

LocationAt(s, j) ==
  LET below == RubyAtOrBelow(s, j)
      near  == Min(below)
      raw   == Capture(FrameAt(s, near))
  IN  IF below = {}
      THEN [of |-> Capture(FrameAt(s, j)), file |-> NULL, line |-> 0,
            synthetic |-> TRUE]
      ELSE [of |-> Capture(FrameAt(s, j)), file |-> raw.iseq,
            line |-> LineNumber(raw), synthetic |-> near # j]

(* value is the backtrace of stack s without its k newest frames. *)
IsBacktrace(value, s, k) ==
  LET n == FrameCount(s)
  IN  /\ Len(value) = Cardinality(Shown(s, k, n))
      /\ \A j \in Shown(s, k, n) : value[Rank(s, k, n, j)] = LocationAt(s, j)

-----------------------------------------------------------------------------
(* The nearest Ruby frame at or after place n of the captured ones, 0 if   *)
(* there is none.                                                          *)
RubyFrom(raws, n) == {m \in n .. Len(raws) : raws[m].ruby}

NearestRuby(raws, n) ==
  IF RubyFrom(raws, n) = {} THEN 0 ELSE Min(RubyFrom(raws, n))

(* The locations that the captured frames stand for. *)
Locate(raws) ==
  [n \in 1 .. Len(raws) |-> ToLocation(raws, n, NearestRuby(raws, n))]
=============================================================================
