------------------------------ MODULE FrameHeap ------------------------------
(***************************************************************************)
(* Captured frames and Ruby's garbage collector: the wrapper that owns the *)
(* frames of a call, and a location that a C client keeps for itself.      *)
(*                                                                         *)
(* A captured frame refers to objects by their addresses.  The collector   *)
(* frees what nothing marks and moves what nothing pins; it runs inside    *)
(* any allocation, so between any two steps here except those of the loop  *)
(* that captures frames, which allocates nothing.                          *)
(***************************************************************************)
EXTENDS VMStack, Functions

CONSTANTS
  Addresses,       \* places in the heap
  Home,            \* where each object is at first
  Spare,           \* bound: those that a compaction moves objects to
  Labels,          \* Ruby strings
  BaseLabel,       \* iseq->body->location.base_label
  DefinedClass,    \* of a callable method entry
  References,      \* what each object refers to for as long as it lives
  Droppable,       \* sets of objects that the program may let go of at once
  CapturedFrames,  \* the frames on its stacks
  Capacities,      \* bound: how many frames a wrapper is made for
  Forms            \* what C clients keep of a frame: raw, minimal locations

HeapObjects == Iseqs \cup Cmes \cup Objects \cup Labels

(* The VALUEs of a raw_location. *)
Members == {"iseq", "cme", "self"}

(* The objects are of four kinds, each has a place in the heap, and a      *)
(* pointer to an array of locations is not the null pointer.  An object    *)
(* refers to its class, code to its label and a method entry to its class; *)
(* what else there is (the object that a singleton class is of, the code   *)
(* of a method entry, superclasses, variables) is for References to say.   *)
ASSUME FrameHeapAssumption ==
  /\ NULL \notin Addresses /\ NULL \notin Labels
  /\ Spare \subseteq Addresses
  /\ Iseqs \cap Cmes = {} /\ Objects \cap Labels = {}
  /\ (Iseqs \cup Cmes) \cap (Objects \cup Labels) = {}
  /\ Home \in [HeapObjects -> Addresses] /\ IsInjective(Home)
  /\ NULL \notin Seq([Members -> Addresses \cup {NULL}])
  /\ Droppable \subseteq SUBSET HeapObjects
  /\ References \in [HeapObjects -> SUBSET HeapObjects]
  /\ \A o \in Objects : ClassOf[o] \in References[o]
  /\ \A i \in Iseqs : BaseLabel[i] # NULL => BaseLabel[i] \in References[i]
  /\ \A c \in Cmes : DefinedClass[c] \in References[c]
  /\ BaseLabel \in [Iseqs -> Labels \cup {NULL}]
  /\ DefinedClass \in [Cmes -> Modules]
  /\ CapturedFrames \subseteq {f \in Frame : IsValid(f)}
  /\ Capacities \subseteq Nat
  /\ Forms \subseteq {"raw", "minimal"}

VARIABLES
  at,      \* the address of each object, NULL once it is freed
  used,    \* the objects that the program still uses
  methods, \* the method entries that are in the method table of their class
  step,    \* where the call of the library is
  owner,   \* who holds the wrapper: the call, a C client, nobody; or there is none
  capa,    \* frame_wrapper_t: capa,
  array,   \* ... frames (NULL, or capa locations),
  len,     \* ... and len
  origin,  \* what its first len locations were captured from
  kept,    \* the VALUEs of the client's location, or NULL
  how,     \* ... pinned (on the C stack, or marked), or marked movable and compacted
  keptOf   \* ... the objects they were taken from

wrapperVars == <<owner, capa, array, len, origin>>
clientVars == <<kept, how, keptOf>>
heapVars == <<at, used, methods>>
vars == <<heapVars, step, wrapperVars, clientVars>>

Zeroed == [m \in Members |-> NULL]

(* The objects that a raw_location refers to ... *)
RawMembers(raw) == [m \in Members |-> raw[m]]

(* Mutant: the label is read from the iseq when it is asked for. *)
MinimalMembers_Iseq(raw) ==
  [base_label |-> IF raw.cme # NULL THEN NULL ELSE raw.iseq,
   of |-> IF raw.realSelf \/ raw.cme = NULL THEN raw.self ELSE DefinedClass[raw.cme]]

(* ... and those that the minimal_location_t made from it does: the name   *)
(* of a method entry is an ID and no object.  Its file name, which no      *)
(* function assigns, is left out (see FrameInfo).                          *)
MinimalMembers(raw) ==
  [base_label |-> IF raw.cme # NULL \/ raw.iseq = NULL
                  THEN NULL ELSE BaseLabel[raw.iseq],
   of |-> IF raw.realSelf \/ raw.cme = NULL THEN raw.self ELSE DefinedClass[raw.cme]]

(* References, by the addresses that their objects have. *)
Stored(refs) ==
  [m \in DOMAIN refs |-> IF refs[m] = NULL THEN NULL ELSE at[refs[m]]]

(* The object that lives at an address. *)
ObjectsAt(as) == {o \in HeapObjects : at[o] \in as \ {NULL}}

OnStack(f) == {f.iseq, f.cme, f.self} \ {NULL} \subseteq used

-----------------------------------------------------------------------------
(* Marking and compaction. *)

(* Mutant: the method entry is not marked. *)
FrameMark_NoMethodEntry(loc) ==
  ObjectsAt({loc[m] : m \in DOMAIN loc \ {"cme"}})

(* backtracie_frame_mark, backtracie_frame_mark_movable: what they mark.   *)
(* A client marks the VALUEs of a minimal location itself.                 *)
FrameMark(loc) == ObjectsAt(Range(loc))

(* Mutant: the receiver's reference is not updated. *)
FrameCompact_NoSelf(loc, moved) ==
  [m \in DOMAIN loc |->
     IF loc[m] = NULL \/ m = "self" THEN loc[m] ELSE moved[loc[m]]]

(* backtracie_frame_compact; moved is rb_gc_location. *)
FrameCompact(loc, moved) ==
  [m \in DOMAIN loc |-> IF loc[m] = NULL THEN NULL ELSE moved[loc[m]]]

WrapperMark == UNION {FrameMark(array[n]) : n \in 1 .. len}

WrapperCompact(moved) ==
  IF array = NULL THEN NULL
  ELSE [n \in DOMAIN array |->
          IF n <= len THEN FrameCompact(array[n], moved) ELSE array[n]]

(* Mutant: dfree leaves the array. *)
WrapperFree_Nothing ==
  owner' = "none" /\ capa' = 0 /\ len' = 0 /\ origin' = <<>> /\ UNCHANGED array

(* It frees the array.  The frame_wrapper_t itself is not freed in the     *)
(* code; here it is reset, so that it can stand for the next one.          *)
WrapperFree ==
  owner' = "none" /\ capa' = 0 /\ array' = NULL /\ len' = 0 /\ origin' = <<>>

(* Mutant: the compiler drops the wrapper, of which the call uses only the *)
(* array any more.                                                         *)
WrapperIsHeld_Unguarded == owner = "client" \/ (owner = "call" /\ step = "made")

(* RB_GC_GUARD keeps the wrapper on the C stack to the end of the call. *)
WrapperIsHeld == owner \in {"call", "client"}

Pinned == IF kept # NULL /\ how = "pinned" THEN FrameMark(kept) ELSE {}

(* What an object refers to: a class, to the methods in its table too. *)
Refers(o, table) == References[o] \cup {c \in table : DefinedClass[c] = o}

IsClosed(os, table) == \A o \in os : Refers(o, table) \subseteq os

(* Where one object leads to another: every set that has the one, and with *)
(* each object all that this refers to, has the other too.                 *)
Paths ==
  {path \in [table : SUBSET Cmes, from : HeapObjects, to : HeapObjects] :
     \A os \in SUBSET HeapObjects :
       path.from \in os /\ IsClosed(os, path.table) => path.to \in os}

(* What some objects lead to, these themselves included. *)
Reach(os) ==
  {p \in HeapObjects :
     \E o \in os : [table |-> methods, from |-> o, to |-> p] \in Paths}

(* What the locations refer to that are marked. *)
Located == (IF WrapperIsHeld THEN WrapperMark ELSE {})
           \cup (IF kept # NULL THEN FrameMark(kept) ELSE {})

Marked == Reach(used \cup Located)

(* Where a collection leaves the objects: what is not live is freed, and   *)
(* at most one object (a bound; a later collection moves the next) goes to *)
(* an address that is free by then.                                        *)
Swept(live) == [o \in HeapObjects |-> IF o \in live THEN at[o] ELSE NULL]

Placements(live) ==
  {Swept(live)} \cup {[Swept(live) EXCEPT ![o] = a] :
                        o \in live \ Pinned, a \in Spare \ {at[o] : o \in live}}

(* A collection, with or without compaction. *)
CollectGarbage ==
  /\ step # "capture"
  /\ UNCHANGED <<used, methods, step, how, keptOf>>
  /\ \E live \in {Marked} : at' \in Placements(live)
  /\ LET moved == [a \in Addresses |->
                     IF ObjectsAt({a}) = {} THEN a
                     ELSE at'[CHOOSE o \in ObjectsAt({a}) : TRUE]]
     IN  /\ IF owner # "none" /\ ~ WrapperIsHeld
            THEN WrapperFree
            ELSE /\ array' = WrapperCompact(moved)
                 /\ UNCHANGED <<owner, capa, len, origin>>
         /\ kept' = IF kept # NULL /\ how = "movable"
                    THEN FrameCompact(kept, moved) ELSE kept

-----------------------------------------------------------------------------
Init ==
  /\ at = Home
  /\ used = HeapObjects /\ methods = Cmes
  /\ step = "idle" /\ owner = "none"
  /\ capa = 0 /\ array = NULL /\ len = 0 /\ origin = <<>>
  /\ kept = NULL /\ how = "pinned" /\ keptOf = NULL

(* The program's last use of some objects, which nothing that it goes on   *)
(* using refers to.                                                        *)
Drop(os) ==
  /\ step \in {"idle", "read"}
  /\ os \subseteq used /\ IsClosed(used \ os, methods)
  /\ used' = used \ os
  /\ UNCHANGED <<at, methods, step, wrapperVars, clientVars>>

(* A method is redefined, undefined or removed. *)
RemoveMethod(c) ==
  /\ step \in {"idle", "read"}
  /\ c \in methods /\ DefinedClass[c] \in used
  /\ methods' = methods \ {c}
  /\ UNCHANGED <<at, used, step, wrapperVars, clientVars>>

(* Mutant: the wrapper is as long as it can be from the start. *)
NewWrapper_Full(n) ==
  /\ step = "idle" /\ owner = "none" /\ kept = NULL
  /\ step' = "made" /\ owner' = "call"
  /\ capa' = n /\ len' = n
  /\ UNCHANGED <<heapVars, array, origin, clientVars>>

(* backtracie_frame_wrapper_new, up to its call of xcalloc ...  (A bound:   *)
(* there is no wrapper while a client keeps a location of its own.)        *)
NewWrapper(n) ==
  /\ step = "idle" /\ owner = "none" /\ kept = NULL
  /\ step' = "made" /\ owner' = "call"
  /\ capa' = n /\ len' = 0
  /\ UNCHANGED <<heapVars, array, origin, clientVars>>

(* ... which may collect garbage, and may raise. *)
AllocateFrames ==
  /\ step = "made"
  /\ step' = "capture"
  /\ array' = [n \in 1 .. capa |-> Zeroed]
  /\ UNCHANGED <<heapVars, owner, capa, len, origin, clientVars>>

(* Mutant: one pass too many. *)
CaptureFrame_Unbounded(f) ==
  /\ step = "capture" /\ OnStack(f)
  /\ array' = [array EXCEPT ![len + 1] = Stored(RawMembers(Capture(f)))]
  /\ len' = len + 1
  /\ origin' = Append(origin, RawMembers(Capture(f)))
  /\ UNCHANGED <<heapVars, step, owner, capa, clientVars>>

(* A frame is written behind the last one, which makes it count. *)
CaptureFrame(f) ==
  /\ step = "capture" /\ len < capa /\ OnStack(f)
  /\ array' = [array EXCEPT ![len + 1] = Stored(RawMembers(Capture(f)))]
  /\ len' = len + 1
  /\ origin' = Append(origin, RawMembers(Capture(f)))
  /\ UNCHANGED <<heapVars, step, owner, capa, clientVars>>

EndCapture ==
  /\ step = "capture"
  /\ step' = "read"
  /\ UNCHANGED <<heapVars, wrapperVars, clientVars>>

(* The call returns or an exception leaves it: nobody holds the wrapper,   *)
(* unless it was made for a C client, which marks it from then on.         *)
EndCall ==
  /\ step \in {"made", "read"}
  /\ step' = "idle"
  /\ owner' \in (IF step = "read" THEN {"nobody", "client"} ELSE {"nobody"})
  /\ UNCHANGED <<heapVars, capa, array, len, origin, clientVars>>

DropWrapper ==
  /\ owner = "client"
  /\ owner' = "nobody"
  /\ UNCHANGED <<heapVars, step, capa, array, len, origin, clientVars>>

(* A C client captures a frame into memory of its own, in either form. *)
KeepLocation(f) ==
  /\ step = "idle" /\ owner = "none" /\ kept = NULL /\ OnStack(f)
  /\ \/ "raw" \in Forms /\ keptOf' = RawMembers(Capture(f))
     \/ "minimal" \in Forms /\ keptOf' = MinimalMembers(Capture(f))
  /\ kept' = Stored(keptOf')
  /\ how' \in {"pinned", "movable"}
  /\ UNCHANGED <<heapVars, step, wrapperVars>>

DropLocation ==
  /\ step = "idle" /\ kept # NULL
  /\ kept' = NULL /\ keptOf' = NULL /\ how' = "pinned"
  /\ UNCHANGED <<heapVars, step, wrapperVars>>

CallStep ==
  \/ AllocateFrames \/ EndCapture \/ EndCall
  \/ \E f \in CapturedFrames : CaptureFrame(f)

Next ==
  \/ CollectGarbage \/ CallStep \/ DropWrapper \/ DropLocation
  \/ \E os \in Droppable : Drop(os)
  \/ \E c \in Cmes : RemoveMethod(c)
  \/ \E n \in Capacities : NewWrapper(n)
  \/ \E f \in CapturedFrames : KeepLocation(f)

Spec == Init /\ [][Next]_vars

(* Calls go on, and garbage does not lie there for ever. *)
FairSpec ==
  Spec /\ WF_vars(CallStep) /\ WF_vars(owner = "nobody" /\ CollectGarbage)

-----------------------------------------------------------------------------
(* Properties *)

TypeOK ==
  /\ at \in [HeapObjects -> Addresses \cup {NULL}]
  /\ used \subseteq HeapObjects
  /\ methods \subseteq Cmes
  /\ step \in {"idle", "made", "capture", "read"}
  /\ owner \in {"none", "call", "client", "nobody"}
  /\ capa \in Capacities \cup {0}
  /\ array = NULL \/ array \in [1 .. capa -> [Members -> Addresses \cup {NULL}]]
  /\ len \in 0 .. (IF array = NULL THEN 0 ELSE capa)
  /\ kept = NULL \/ kept \in [DOMAIN keptOf -> Addresses \cup {NULL}]

(* The frames of a wrapper that someone holds are those it was filled      *)
(* with, wherever their objects were moved since, and none was freed.      *)
WrapperIsIntact ==
  owner \in {"call", "client"} =>
    \A n \in 1 .. len : array[n] = Stored(origin[n])
                        /\ \A m \in Members : origin[n][m] # NULL => array[n][m] # NULL

(* The array is not freed under a call that uses it. *)
NoUseAfterFree == step \in {"capture", "read"} => array # NULL

(* A location that a C client keeps and marks, pinned or movable, still    *)
(* refers to what it was captured from (public/backtracie.h:151-160), and  *)
(* so does a minimal one (213-233), also when the code of the frame is     *)
(* gone.                                                                   *)
KeptIsIntact ==
  kept # NULL =>
    /\ kept = Stored(keptOf)
    /\ \A m \in DOMAIN keptOf : keptOf[m] # NULL => kept[m] # NULL

(* However a call ends, its frames are freed in the end, unless its wrapper *)
(* was made for a client.                                                  *)
FramesAreFreed ==
  owner \in {"call", "nobody"}
    ~> (owner = "client" \/ (owner = "none" /\ array = NULL))

(* What the program no longer uses of some objects, if no object of any    *)
(* other sort leads there.                                                 *)
Abandoned(os) == os \ (used \cup Reach(HeapObjects \ os))

(* Wherever a call is and whatever a client keeps, a receiver that the     *)
(* program dropped is garbage: locations do not hold on to "random objects *)
(* that would otherwise be GC'd" (public/backtracie.h:59-65).  This is so  *)
(* of receivers that no class and no code leads to.  One with a singleton  *)
(* class is held, against that comment: what rb_class_of gives for it      *)
(* (backtracie_frames.c:338) is this class, which refers to the object.    *)
Receivers == Objects \ (Modules \cup SpecialObjects)

NoReceiverIsHeld == Abandoned(Receivers) \cap Marked = {}

(* A minimal location does not hold on to the code and the method entry of *)
(* its frame, which is what it is for (public/backtracie.h:179-184): while *)
(* it is all that is kept, those that the program dropped are garbage.     *)
(* This is so of code that no class leads to (of a block, of a class body, *)
(* of a method that was removed): the location has the class of its        *)
(* method, and with it the methods that this class still has.              *)
OnlyMinimalKept == ~ WrapperIsHeld /\ kept # NULL /\ "base_label" \in DOMAIN kept

MinimalHoldsNoCode ==
  OnlyMinimalKept => Abandoned(Iseqs \cup Cmes) \cap Marked = {}

(* The wrapper of a call goes through the steps that FrameWrapper says.    *)
Filled == step \in {"capture", "read"}

Wrapper == INSTANCE FrameWrapper WITH
  Callers <- {"call"},
  holder <- "call",
  stage <- [c \in {"call"} |-> IF Filled THEN step ELSE "idle"],
  capa  <- [c \in {"call"} |-> IF Filled THEN capa ELSE 0],
  len   <- [c \in {"call"} |-> IF Filled THEN len ELSE 0]

ImplementsWrapper == Wrapper!Spec
=============================================================================
