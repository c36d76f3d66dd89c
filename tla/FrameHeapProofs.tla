--------------------------- MODULE FrameHeapProofs ---------------------------
(***************************************************************************)
(* Proofs about FrameHeap, for any heap, any frames and any number of      *)
(* wrappers' locations: its types, that what a held wrapper or a client's  *)
(* location refers to survives every collection and compaction, that no    *)
(* array is used after it was freed, and that the wrapper is used as       *)
(* FrameWrapper says.                                                      *)
(***************************************************************************)
EXTENDS FrameHeap, TLAPS

(* What locations may be made of. *)
NoReceiver == Modules \cup SpecialObjects

RawRefs ==
  {r \in [Members -> HeapObjects \cup {NULL}] :
     /\ r["iseq"] \in Iseqs \cup {NULL} /\ r["cme"] \in Cmes \cup {NULL}
     /\ r["self"] \in NoReceiver}

MinimalRefs ==
  {r \in [{"base_label", "of"} -> HeapObjects \cup {NULL}] :
     r["base_label"] \in Labels \cup {NULL} /\ r["of"] \in NoReceiver}

Live(refs) == \A m \in DOMAIN refs : refs[m] # NULL => at[refs[m]] # NULL

(* No two objects share an address. *)
Distinct ==
  \A o, p \in HeapObjects : at[o] # NULL /\ at[o] = at[p] => o = p

(* What the program uses is there, with everything it refers to ...        *)
UsedIsLive == (\A o \in used : at[o] # NULL) /\ IsClosed(used, methods)

(* ... and so is what any object refers to that is there. *)
NoneDangles ==
  \A o \in HeapObjects : at[o] # NULL => \A p \in Refers(o, methods) : at[p] # NULL

HeapInv == Distinct /\ UsedIsLive /\ NoneDangles

(* A wrapper without an array is empty, and nobody reads it. *)
Stages ==
  /\ (owner = "call") = (step # "idle")
  /\ step = "made" \/ owner = "none" => array = NULL
  /\ origin \in Seq(RawRefs) /\ Len(origin) = len

Kinds ==
  /\ how \in {"pinned", "movable"}
  /\ kept # NULL => keptOf \in RawRefs \cup MinimalRefs

IInv ==
  /\ TypeOK /\ HeapInv /\ Stages /\ Kinds
  /\ WrapperIsIntact /\ NoUseAfterFree /\ KeptIsIntact

-----------------------------------------------------------------------------
(* Objects and what they refer to. *)

LEMMA RefersByKind ==
  /\ \A o \in Objects : ClassOf[o] \in Modules /\ ClassOf[o] \in References[o]
  /\ \A o \in Iseqs : /\ BaseLabel[o] \in Labels \cup {NULL}
                      /\ BaseLabel[o] # NULL => BaseLabel[o] \in References[o]
  /\ \A o \in Cmes : DefinedClass[o] \in Modules /\ DefinedClass[o] \in References[o]
  /\ Modules \subseteq Objects
  /\ \A o \in HeapObjects : o # NULL
BY VMAssumption, FrameHeapAssumption DEF HeapObjects

LEMMA RefersType ==
  ASSUME NEW table \in SUBSET Cmes, NEW o \in HeapObjects
  PROVE  Refers(o, table) \subseteq HeapObjects
BY FrameHeapAssumption DEF Refers, HeapObjects

(* There is a path to what is in every set that the references do not leave. *)
LEMMA PathTo ==
  ASSUME NEW o \in HeapObjects, NEW p, methods \in SUBSET Cmes
  PROVE  [table |-> methods, from |-> o, to |-> p] \in Paths <=>
           /\ p \in HeapObjects
           /\ \A os \in SUBSET HeapObjects :
                o \in os /\ IsClosed(os, methods) => p \in os
BY DEF Paths

(* What some objects lead to is the least such set that they are in. *)
LEMMA ReachIsLeast ==
  ASSUME methods \in SUBSET Cmes, NEW os \in SUBSET HeapObjects
  PROVE  /\ Reach(os) \subseteq HeapObjects
         /\ os \subseteq Reach(os)
         /\ IsClosed(Reach(os), methods)
         /\ \A all \in SUBSET HeapObjects :
              os \subseteq all /\ IsClosed(all, methods) => Reach(os) \subseteq all
<1> DEFINE Within(o, p) == \A all \in SUBSET HeapObjects :
                             o \in all /\ IsClosed(all, methods) => p \in all
<1>1. Reach(os) = {p \in HeapObjects : \E o \in os : Within(o, p)}
  BY PathTo DEF Reach
<1>2. os \subseteq Reach(os)
  BY <1>1
<1>3. IsClosed(Reach(os), methods)
  <2>1. SUFFICES ASSUME NEW p \in Reach(os), NEW q \in Refers(p, methods)
                 PROVE  q \in Reach(os)
    BY DEF IsClosed
  <2>2. PICK o \in os : Within(o, p)
    BY <1>1
  <2>3. Within(o, q)
    BY <2>1, <2>2 DEF IsClosed
  <2>4. q \in HeapObjects
    BY <1>1, <2>1, RefersType
  <2>5. QED
    BY <1>1, <2>3, <2>4
<1>4. ASSUME NEW all \in SUBSET HeapObjects, os \subseteq all, IsClosed(all, methods)
      PROVE  Reach(os) \subseteq all
  BY <1>1, <1>4
<1>5. QED
  BY <1>1, <1>2, <1>3, <1>4

(* The collector knows an object by its address. *)
LEMMA OneObjectAt ==
  ASSUME Distinct, NEW o \in HeapObjects, at[o] # NULL
  PROVE  ObjectsAt({at[o]}) = {o}
BY DEF Distinct, ObjectsAt

(* A frame on the stack is made of objects that are in use.                *)
LEMMA CapturedIsLive ==
  ASSUME TypeOK, UsedIsLive, NEW f \in CapturedFrames, OnStack(f)
  PROVE  /\ RawMembers(Capture(f)) \in RawRefs
         /\ Live(RawMembers(Capture(f)))
         /\ MinimalMembers(Capture(f)) \in MinimalRefs
         /\ Live(MinimalMembers(Capture(f)))
<1> DEFINE raw == Capture(f)
<1>1. /\ f.iseq \in Iseqs \cup {NULL} /\ f.cme \in Cmes \cup {NULL}
      /\ f.self \in Objects
  BY FrameHeapAssumption DEF Frame
<1>2. /\ NULL \notin Objects /\ used \subseteq HeapObjects
      /\ \A o \in used : at[o] # NULL /\ References[o] \subseteq used
  BY VMAssumption DEF TypeOK, UsedIsLive, IsClosed, Refers
<1>3. /\ f.self \in used
      /\ f.iseq # NULL => f.iseq \in used
      /\ f.cme # NULL => f.cme \in used
  BY <1>1, <1>2 DEF OnStack
<1>4. raw.iseq = f.iseq /\ raw.cme = f.cme
  BY DEF Capture
<1>5. raw.self \in Objects /\ raw.self \in used /\ raw.self \in NoReceiver
  BY <1>1, <1>2, <1>3, RefersByKind DEF Capture, KeepsSelf, NoReceiver
<1>6. RawMembers(raw) = [m \in Members |-> raw[m]]
  BY DEF RawMembers
<1>7. /\ raw["iseq"] = raw.iseq /\ raw["cme"] = raw.cme /\ raw["self"] = raw.self
  OBVIOUS
<1>8. \A m \in Members : raw[m] # NULL => raw[m] \in used
  BY <1>3, <1>4, <1>5, <1>7 DEF Members
<1>9. RawMembers(raw) \in RawRefs /\ Live(RawMembers(raw))
  <2>1. RawMembers(raw) \in [Members -> HeapObjects \cup {NULL}]
    BY <1>2, <1>6, <1>8
  <2>2. /\ RawMembers(raw)["iseq"] = f.iseq /\ RawMembers(raw)["cme"] = f.cme
        /\ RawMembers(raw)["self"] = raw.self
    BY <1>4, <1>6, <1>7 DEF Members
  <2>3. Live(RawMembers(raw))
    BY <1>2, <1>6, <1>8 DEF Live
  <2>4. QED
    BY <1>1, <1>5, <2>1, <2>2, <2>3 DEF RawRefs
<1> DEFINE label == IF raw.cme # NULL \/ raw.iseq = NULL
                    THEN NULL ELSE BaseLabel[raw.iseq]
           of == IF raw.realSelf \/ raw.cme = NULL
                 THEN raw.self ELSE DefinedClass[raw.cme]
<1>10. label \in Labels \cup {NULL} /\ (label # NULL => label \in used)
  BY <1>1, <1>2, <1>3, <1>4, RefersByKind
<1>11. of \in Objects /\ of \in used /\ of \in NoReceiver
  BY <1>1, <1>2, <1>3, <1>4, <1>5, RefersByKind DEF NoReceiver
<1>12. MinimalMembers(raw) = [base_label |-> label, of |-> of]
  BY DEF MinimalMembers
<1> HIDE DEF label, of, raw
<1>13. [base_label |-> label, of |-> of] \in MinimalRefs
  BY <1>10, <1>11 DEF MinimalRefs, HeapObjects
<1>14. Live([base_label |-> label, of |-> of])
  BY <1>2, <1>10, <1>11 DEF Live
<1>15. QED
  BY <1>9, <1>12, <1>13, <1>14 DEF raw

-----------------------------------------------------------------------------
(* A collection. *)

(* rb_gc_location, as CollectGarbage has it. *)
Moved ==
  [a \in Addresses |->
     IF ObjectsAt({a}) = {} THEN a
     ELSE at'[CHOOSE o \in ObjectsAt({a}) : TRUE]]

LEMMA LocatedIsThere ==
  /\ Located \subseteq HeapObjects
  /\ \A o \in Located : at[o] # NULL
BY DEF Located, WrapperMark, FrameMark, ObjectsAt

(* What is marked: what is used or located, and what this leads to. *)
LEMMA MarkedIsLeast ==
  ASSUME TypeOK
  PROVE  /\ Marked \subseteq HeapObjects /\ used \subseteq Marked
         /\ Located \subseteq Marked /\ IsClosed(Marked, methods)
         /\ \A all \in SUBSET HeapObjects :
              used \cup Located \subseteq all /\ IsClosed(all, methods)
                => Marked \subseteq all
<1>1. methods \in SUBSET Cmes /\ used \cup Located \in SUBSET HeapObjects
  BY LocatedIsThere DEF TypeOK
<1>2. QED
  BY <1>1, ReachIsLeast DEF Marked

(* Nothing is marked that is gone. *)
LEMMA MarkedIsThere ==
  ASSUME TypeOK, UsedIsLive, NoneDangles
  PROVE  \A o \in Marked : at[o] # NULL
<1> DEFINE live == {o \in HeapObjects : at[o] # NULL}
<1>1. methods \in SUBSET Cmes /\ used \subseteq HeapObjects
  BY DEF TypeOK
<1>2. IsClosed(live, methods)
  BY <1>1, RefersType DEF NoneDangles, IsClosed
<1>3. used \cup Located \subseteq live
  BY <1>1, LocatedIsThere DEF UsedIsLive
<1>4. QED
  BY <1>2, <1>3, MarkedIsLeast

(* Where the objects are after it. *)
LEMMA AfterCollection ==
  ASSUME TypeOK, Distinct, at' \in Placements(Marked)
  PROVE  /\ at' \in [HeapObjects -> Addresses \cup {NULL}]
         /\ Distinct'
         /\ \A o \in HeapObjects \cap Marked : at[o] # NULL => at'[o] # NULL
         /\ \A o \in HeapObjects \cap Pinned : o \in Marked => at'[o] = at[o]
         /\ \A o \in HeapObjects \ Marked : at'[o] # NULL => FALSE
<1> DEFINE swept == [o \in HeapObjects |-> IF o \in Marked THEN at[o] ELSE NULL]
           free == Spare \ {at[o] : o \in Marked}
<1>1. swept \in [HeapObjects -> Addresses \cup {NULL}]
  BY DEF TypeOK
<1>2. \A o, p \in HeapObjects : swept[o] # NULL /\ swept[o] = swept[p] => o = p
  BY DEF Distinct
<1>3. NULL \notin Addresses /\ Spare \subseteq Addresses
  BY FrameHeapAssumption
<1>4. CASE at' = swept
  BY <1>1, <1>2, <1>4 DEF Distinct
<1>5. ASSUME NEW o \in Marked \ Pinned, NEW a \in free,
             at' = [swept EXCEPT ![o] = a]
      PROVE  /\ at' \in [HeapObjects -> Addresses \cup {NULL}]
             /\ Distinct'
             /\ \A p \in HeapObjects \cap Marked : at[p] # NULL => at'[p] # NULL
             /\ \A p \in HeapObjects \cap Pinned : p \in Marked => at'[p] = at[p]
             /\ \A p \in HeapObjects \ Marked : at'[p] # NULL => FALSE
  <2>1. \A p \in HeapObjects : at'[p] = IF p = o THEN a ELSE swept[p]
    BY <1>5
  <2>2. at' \in [HeapObjects -> Addresses \cup {NULL}]
    BY <1>1, <1>3, <1>5
  <2>3. \A p \in HeapObjects : swept[p] # a
    BY <1>3, <1>5
  <2>4. \A p, q \in HeapObjects : at'[p] # NULL /\ at'[p] = at'[q] => p = q
    BY <1>2, <2>1, <2>3
  <2>5. QED
    BY <1>3, <1>5, <2>1, <2>2, <2>4 DEF Distinct
<1>6. at' = swept
      \/ \E o \in Marked \ Pinned, a \in free :
           at' = [swept EXCEPT ![o] = a]
  BY DEF Placements, Swept
<1>7. QED
  BY <1>4, <1>5, <1>6

(* What is marked and updated refers to the same objects as before. *)
LEMMA CompactFollows ==
  ASSUME TypeOK, Distinct, at' \in Placements(Marked),
         NEW refs, Live(refs),
         \A m \in DOMAIN refs : refs[m] \in HeapObjects \cup {NULL},
         \A m \in DOMAIN refs : refs[m] # NULL => refs[m] \in Marked
  PROVE  /\ FrameCompact(Stored(refs), Moved) =
              [m \in DOMAIN refs |-> IF refs[m] = NULL THEN NULL ELSE at'[refs[m]]]
         /\ \A m \in DOMAIN refs : refs[m] # NULL => at'[refs[m]] # NULL
<1>1. \A o \in HeapObjects \cap Marked : at[o] # NULL => at'[o] # NULL
  BY AfterCollection
<1>2. at \in [HeapObjects -> Addresses \cup {NULL}]
  BY DEF TypeOK
<1>3. ASSUME NEW o \in HeapObjects, at[o] # NULL
      PROVE  at[o] \in Addresses /\ Moved[at[o]] = at'[o]
  <2>1. ObjectsAt({at[o]}) = {o}
    BY <1>3, OneObjectAt
  <2>2. at[o] \in Addresses
    BY <1>2, <1>3
  <2>3. QED
    BY <2>1, <2>2 DEF Moved
<1>4. Stored(refs) =
        [m \in DOMAIN refs |-> IF refs[m] = NULL THEN NULL ELSE at[refs[m]]]
  BY DEF Stored
<1>5. \A m \in DOMAIN refs :
        (IF Stored(refs)[m] = NULL THEN NULL ELSE Moved[Stored(refs)[m]]) =
        (IF refs[m] = NULL THEN NULL ELSE at'[refs[m]])
  BY <1>3, <1>4 DEF Live
<1>6. QED
  BY <1>1, <1>4, <1>5 DEF FrameCompact, Live

LEMMA MovedType ==
  ASSUME TypeOK, at' \in [HeapObjects -> Addresses \cup {NULL}]
  PROVE  Moved \in [Addresses -> Addresses \cup {NULL}]
<1>1. ASSUME NEW a \in Addresses, ObjectsAt({a}) # {}
      PROVE  at'[CHOOSE o \in ObjectsAt({a}) : TRUE] \in Addresses \cup {NULL}
  <2>1. (CHOOSE o \in ObjectsAt({a}) : TRUE) \in ObjectsAt({a})
    BY <1>1
  <2>2. (CHOOSE o \in ObjectsAt({a}) : TRUE) \in HeapObjects
    BY <2>1 DEF ObjectsAt
  <2>3. QED
    BY <2>2
<1>2. QED
  BY <1>1 DEF Moved

LEMMA CompactType ==
  ASSUME NEW loc, NEW names, loc \in [names -> Addresses \cup {NULL}],
         Moved \in [Addresses -> Addresses \cup {NULL}]
  PROVE  FrameCompact(loc, Moved) \in [names -> Addresses \cup {NULL}]
BY DEF FrameCompact

(* Marking a location marks what it was made from. *)
LEMMA MarkFinds ==
  ASSUME NEW refs, Live(refs),
         \A m \in DOMAIN refs : refs[m] \in HeapObjects \cup {NULL}
  PROVE  \A m \in DOMAIN refs : refs[m] # NULL => refs[m] \in FrameMark(Stored(refs))
<1>1. DOMAIN Stored(refs) = DOMAIN refs
      /\ \A m \in DOMAIN refs : refs[m] # NULL => Stored(refs)[m] = at[refs[m]]
  BY DEF Stored
<1>2. \A m \in DOMAIN refs : Stored(refs)[m] \in Range(Stored(refs))
  BY <1>1 DEF Range
<1>3. QED
  BY <1>1, <1>2 DEF FrameMark, ObjectsAt, Live

(* There are no more locations than the array has room for.                *)
LEMMA LengthFits ==
  ASSUME TypeOK
  PROVE  /\ capa \in Nat /\ len \in Nat
         /\ \A n \in 1 .. len : array # NULL /\ n \in 1 .. capa /\ n <= len
         /\ array # NULL => DOMAIN array = 1 .. capa
<1>1. capa \in Nat
  BY FrameHeapAssumption DEF TypeOK
<1>2. /\ array = NULL \/ array \in [1 .. capa -> [Members -> Addresses \cup {NULL}]]
      /\ len \in 0 .. (IF array = NULL THEN 0 ELSE capa)
  BY DEF TypeOK
<1>3. CASE array = NULL
  BY <1>1, <1>2, <1>3
<1>4. CASE array # NULL
  BY <1>1, <1>2, <1>4
<1>5. QED
  BY <1>3, <1>4

LEMMA WrapperAfterCollection ==
  ASSUME IInv, CollectGarbage, WrapperIsHeld
  PROVE  WrapperIsIntact'
<1>1. SUFFICES ASSUME NEW n \in 1 .. len
               PROVE  /\ array'[n] = Stored(origin[n])'
                      /\ \A m \in Members :
                           origin[n][m] # NULL => array'[n][m] # NULL
  BY DEF CollectGarbage, WrapperIsIntact, WrapperIsHeld
<1> DEFINE refs == origin[n]
<1>2. /\ at' \in Placements(Marked) /\ array' = WrapperCompact(Moved)
      /\ UNCHANGED <<owner, capa, len, origin>>
  BY DEF CollectGarbage, WrapperIsHeld, Moved
<1>3. /\ refs \in RawRefs /\ DOMAIN refs = Members
      /\ \A m \in DOMAIN refs : refs[m] \in HeapObjects \cup {NULL}
  BY DEF IInv, Stages, RawRefs
<1>4. array[n] = Stored(refs) /\ Live(refs)
  BY <1>3 DEF IInv, WrapperIsIntact, WrapperIsHeld, Stored, Live
<1>5. \A m \in DOMAIN refs : refs[m] # NULL => refs[m] \in Marked
  <2>1. FrameMark(array[n]) \subseteq Marked
    BY MarkedIsLeast DEF IInv, Located, WrapperMark
  <2>2. QED
    BY <1>3, <1>4, <2>1, MarkFinds
<1>6. /\ FrameCompact(array[n], Moved) =
           [m \in DOMAIN refs |-> IF refs[m] = NULL THEN NULL ELSE at'[refs[m]]]
      /\ \A m \in DOMAIN refs : refs[m] # NULL => at'[refs[m]] # NULL
  BY <1>2, <1>3, <1>4, <1>5, CompactFollows DEF IInv, HeapInv
<1>7. array'[n] = FrameCompact(array[n], Moved)
  <2>1. array # NULL /\ n \in DOMAIN array
    BY LengthFits DEF IInv
  <2>2. array' = [k \in DOMAIN array |->
                    IF k <= len THEN FrameCompact(array[k], Moved) ELSE array[k]]
    BY <1>2, <2>1 DEF WrapperCompact
  <2>3. n <= len
    BY LengthFits DEF IInv
  <2>4. QED
    BY <2>1, <2>2, <2>3
<1>8. QED
  BY <1>2, <1>3, <1>6, <1>7 DEF Stored

LEMMA KeptAfterCollection ==
  ASSUME IInv, CollectGarbage, kept # NULL
  PROVE  /\ kept' = Stored(keptOf)'
         /\ \A m \in DOMAIN keptOf : keptOf[m] # NULL => at'[keptOf[m]] # NULL
<1>1. at' \in Placements(Marked) /\ UNCHANGED keptOf
  BY DEF CollectGarbage
<1>2. \A m \in DOMAIN keptOf : keptOf[m] \in HeapObjects \cup {NULL}
  BY DEF IInv, Kinds, RawRefs, MinimalRefs
<1>3. kept = Stored(keptOf) /\ Live(keptOf)
  BY DEF IInv, KeptIsIntact, Stored, Live
<1>4. \A m \in DOMAIN keptOf : keptOf[m] # NULL => keptOf[m] \in FrameMark(kept)
  BY <1>2, <1>3, MarkFinds
<1>5. \A m \in DOMAIN keptOf : keptOf[m] # NULL => keptOf[m] \in Marked
  BY <1>4, MarkedIsLeast DEF IInv, Located
<1>6. /\ FrameCompact(kept, Moved) =
           [m \in DOMAIN keptOf |-> IF keptOf[m] = NULL THEN NULL ELSE at'[keptOf[m]]]
      /\ \A m \in DOMAIN keptOf : keptOf[m] # NULL => at'[keptOf[m]] # NULL
  BY <1>1, <1>2, <1>3, <1>5, CompactFollows DEF IInv, HeapInv
<1>7. CASE how = "movable"
  <2>1. kept' = FrameCompact(kept, Moved)
    BY <1>7 DEF CollectGarbage, Moved
  <2>2. QED
    BY <1>1, <1>6, <2>1 DEF Stored
<1>8. CASE how = "pinned"
  <2>1. kept' = kept
    BY <1>8 DEF CollectGarbage
  <2>2. \A m \in DOMAIN keptOf : keptOf[m] # NULL => keptOf[m] \in Pinned
    BY <1>4, <1>8 DEF Pinned
  <2>3. \A m \in DOMAIN keptOf : keptOf[m] # NULL => at'[keptOf[m]] = at[keptOf[m]]
    BY <1>1, <1>2, <1>5, <2>2, AfterCollection DEF IInv, HeapInv
  <2>4. QED
    BY <1>1, <1>3, <1>6, <2>1, <2>3 DEF Stored
<1>9. QED
  BY <1>7, <1>8 DEF IInv, Kinds

LEMMA CollectGarbageKeepsInv ==
  ASSUME IInv, CollectGarbage
  PROVE  IInv'
<1>0. /\ TypeOK /\ Distinct /\ UsedIsLive /\ NoneDangles /\ Stages /\ Kinds
      /\ at' \in Placements(Marked) /\ step # "capture"
      /\ UNCHANGED <<used, methods, step, how, keptOf>>
  BY DEF IInv, HeapInv, CollectGarbage
<1>1. at' \in [HeapObjects -> Addresses \cup {NULL}] /\ Distinct'
  BY <1>0, AfterCollection
<1>2. Moved \in [Addresses -> Addresses \cup {NULL}]
  BY <1>0, <1>1, MovedType
<1>3. HeapInv'
  <2>1. /\ Marked \subseteq HeapObjects /\ used \subseteq Marked
        /\ IsClosed(Marked, methods)
    BY <1>0, MarkedIsLeast
  <2>2. \A o \in Marked : at'[o] # NULL
    BY <1>0, <2>1, MarkedIsThere, AfterCollection
  <2>3. UsedIsLive'
    BY <1>0, <2>1, <2>2 DEF UsedIsLive, IsClosed, Refers
  <2>4. \A o \in HeapObjects : at'[o] # NULL => o \in Marked
    BY <1>0, AfterCollection
  <2>5. NoneDangles'
    BY <1>0, <2>1, <2>2, <2>4 DEF NoneDangles, IsClosed, Refers
  <2>6. QED
    BY <1>1, <2>3, <2>5 DEF HeapInv
<1>4. /\ kept = NULL => kept' = NULL
      /\ kept # NULL => /\ kept' \in [DOMAIN keptOf -> Addresses \cup {NULL}]
                        /\ kept' = Stored(keptOf)'
                        /\ \A m \in DOMAIN keptOf :
                             keptOf[m] # NULL => at'[keptOf[m]] # NULL
  <2>1. CASE kept = NULL
    BY <2>1 DEF CollectGarbage
  <2>2. CASE kept # NULL
    <3>1. kept' = FrameCompact(kept, Moved) \/ kept' = kept
      BY <2>2 DEF CollectGarbage, Moved
    <3>2. kept \in [DOMAIN keptOf -> Addresses \cup {NULL}]
      BY <1>0, <2>2 DEF TypeOK
    <3>3. kept' \in [DOMAIN keptOf -> Addresses \cup {NULL}]
      BY <1>2, <3>1, <3>2, CompactType
    <3>4. QED
      BY <2>2, <3>3, KeptAfterCollection
  <2>3. QED
    BY <2>1, <2>2
<1>5. Kinds' /\ KeptIsIntact'
  <2>1. kept' # NULL => kept # NULL
    BY <1>4
  <2>2. Kinds'
    BY <1>0, <2>1 DEF Kinds, RawRefs, MinimalRefs
  <2>3. DOMAIN keptOf = DOMAIN keptOf'
    BY <1>0
  <2>4. KeptIsIntact'
    BY <1>0, <1>4, <2>1 DEF KeptIsIntact, Stored
  <2>5. QED
    BY <2>2, <2>4
<1>6. CASE owner # "none" /\ ~ WrapperIsHeld
  <2>1. owner = "nobody" /\ step = "idle"
    BY <1>0, <1>6 DEF TypeOK, WrapperIsHeld, Stages
  <2>2. owner' = "none" /\ capa' = 0 /\ array' = NULL /\ len' = 0 /\ origin' = <<>>
    BY <1>6 DEF CollectGarbage, WrapperFree
  <2>3. TypeOK'
    BY <1>0, <1>1, <1>4, <2>2 DEF TypeOK
  <2>4. Stages'
    BY <1>0, <2>1, <2>2 DEF Stages
  <2>5. WrapperIsIntact' /\ NoUseAfterFree'
    BY <1>0, <2>1, <2>2 DEF WrapperIsIntact, NoUseAfterFree
  <2>6. QED
    BY <1>1, <1>3, <1>5, <2>3, <2>4, <2>5 DEF IInv
<1>7. CASE ~ (owner # "none" /\ ~ WrapperIsHeld)
  <2>1. array' = WrapperCompact(Moved) /\ UNCHANGED <<owner, capa, len, origin>>
    BY <1>7 DEF CollectGarbage, Moved
  <2>2. array = NULL => array' = NULL
    BY <2>1 DEF WrapperCompact
  <2>3. ASSUME array # NULL
        PROVE  /\ array' \in [1 .. capa -> [Members -> Addresses \cup {NULL}]]
               /\ array' # NULL
    <3>1. /\ array \in [1 .. capa -> [Members -> Addresses \cup {NULL}]]
          /\ capa \in Nat
      BY <1>0, <2>3, LengthFits DEF TypeOK
    <3>2. array' = [n \in 1 .. capa |->
                      IF n <= len THEN FrameCompact(array[n], Moved) ELSE array[n]]
      BY <2>1, <2>3, <3>1 DEF WrapperCompact
    <3>3. \A n \in 1 .. capa :
            FrameCompact(array[n], Moved) \in [Members -> Addresses \cup {NULL}]
      BY <1>2, <3>1, CompactType
    <3>4. array' \in [1 .. capa -> [Members -> Addresses \cup {NULL}]]
      BY <3>1, <3>2, <3>3
    <3>5. array' \in Seq([Members -> Addresses \cup {NULL}])
      BY <3>1, <3>4
    <3>6. QED
      BY <3>4, <3>5, FrameHeapAssumption
  <2>4. TypeOK'
    BY <1>0, <1>1, <1>4, <2>1, <2>2, <2>3 DEF TypeOK
  <2>5. Stages' /\ NoUseAfterFree'
    BY <1>0, <2>1, <2>2, <2>3 DEF IInv, Stages, NoUseAfterFree, RawRefs
  <2>6. WrapperIsIntact'
    <3>1. CASE WrapperIsHeld
      BY <3>1, WrapperAfterCollection
    <3>2. CASE ~ WrapperIsHeld
      BY <2>1, <3>2 DEF WrapperIsIntact, WrapperIsHeld
    <3>3. QED
      BY <3>1, <3>2
  <2>7. QED
    BY <1>1, <1>3, <1>5, <2>4, <2>5, <2>6 DEF IInv
<1>8. QED
  BY <1>6, <1>7

-----------------------------------------------------------------------------
(* The other steps. *)

LEMMA InitInv == Init => IInv
<1> SUFFICES ASSUME Init PROVE IInv
  OBVIOUS
<1>1. at \in [HeapObjects -> Addresses] /\ IsInjective(at)
  BY FrameHeapAssumption DEF Init
<1>2. NULL \notin Addresses
  BY FrameHeapAssumption
<1>3. Distinct
  BY <1>1 DEF Distinct, IsInjective
<1>4. UsedIsLive /\ NoneDangles
  <2>1. \A o \in HeapObjects : Refers(o, methods) \subseteq HeapObjects
    BY RefersType DEF Init
  <2>2. \A o \in HeapObjects : at[o] # NULL
    BY <1>1, <1>2
  <2>3. QED
    BY <2>1, <2>2 DEF Init, UsedIsLive, NoneDangles, IsClosed
<1>5. TypeOK
  BY <1>1 DEF Init, TypeOK
<1>6. Stages /\ Kinds
  BY DEF Init, Stages, Kinds
<1>7. WrapperIsIntact /\ NoUseAfterFree /\ KeptIsIntact
  BY DEF Init, WrapperIsIntact, NoUseAfterFree, KeptIsIntact
<1>8. QED
  BY <1>3, <1>4, <1>5, <1>6, <1>7 DEF IInv, HeapInv

(* A location that nothing touches stays as good as it was. *)
LEMMA KeptStays ==
  ASSUME IInv, UNCHANGED <<at, clientVars>>
  PROVE  Kinds' /\ KeptIsIntact'
BY DEF IInv, Kinds, KeptIsIntact, Stored, clientVars, MinimalRefs, RawRefs

(* ... and so does a wrapper. *)
LEMMA WrapperStays ==
  ASSUME IInv, UNCHANGED <<at, array, len, origin>>,
         owner' \in {"call", "client"} => owner \in {"call", "client"}
  PROVE  WrapperIsIntact'
BY DEF IInv, WrapperIsIntact, Stored

LEMMA DropKeepsInv ==
  ASSUME IInv, NEW os \in Droppable, Drop(os)
  PROVE  IInv'
<1>1. /\ used' = used \ os /\ IsClosed(used \ os, methods)
      /\ UNCHANGED <<at, methods, step, owner, capa, array, len, origin, clientVars>>
  BY DEF Drop, wrapperVars
<1>2. HeapInv'
  BY <1>1 DEF IInv, HeapInv, Distinct, UsedIsLive, NoneDangles, IsClosed, Refers
<1>3. TypeOK' /\ Stages' /\ NoUseAfterFree'
  BY <1>1 DEF IInv, TypeOK, Stages, NoUseAfterFree, clientVars
<1>4. QED
  BY <1>1, <1>2, <1>3, KeptStays, WrapperStays DEF IInv

LEMMA RemoveMethodKeepsInv ==
  ASSUME IInv, NEW c \in Cmes, RemoveMethod(c)
  PROVE  IInv'
<1>1. /\ methods' = methods \ {c}
      /\ UNCHANGED <<at, used, step, owner, capa, array, len, origin, clientVars>>
  BY DEF RemoveMethod, wrapperVars
<1>2. \A o : Refers(o, methods') \subseteq Refers(o, methods)
  BY <1>1 DEF Refers
<1>3. HeapInv'
  <2>1. UsedIsLive'
    BY <1>1, <1>2 DEF IInv, HeapInv, UsedIsLive, IsClosed
  <2>2. NoneDangles' /\ Distinct'
    BY <1>1, <1>2 DEF IInv, HeapInv, NoneDangles, Distinct
  <2>3. QED
    BY <2>1, <2>2 DEF HeapInv
<1>4. TypeOK' /\ Stages' /\ NoUseAfterFree'
  BY <1>1 DEF IInv, TypeOK, Stages, NoUseAfterFree, clientVars
<1>5. QED
  BY <1>1, <1>3, <1>4, KeptStays, WrapperStays DEF IInv

LEMMA NewWrapperKeepsInv ==
  ASSUME IInv, NEW n \in Capacities, NewWrapper(n)
  PROVE  IInv'
<1>1. /\ owner = "none" /\ step' = "made" /\ owner' = "call" /\ capa' = n /\ len' = 0
      /\ UNCHANGED <<at, used, methods, array, origin, clientVars>>
  BY DEF NewWrapper, heapVars
<1>2. array = NULL /\ array' = NULL
  BY <1>1 DEF IInv, Stages
<1>3. len = 0
  BY <1>2, LengthFits DEF IInv, TypeOK
<1>4. TypeOK'
  BY <1>1, <1>2 DEF IInv, TypeOK, clientVars
<1>5. HeapInv' /\ Stages' /\ NoUseAfterFree'
  BY <1>1, <1>2, <1>3 DEF IInv, HeapInv, Distinct, UsedIsLive, NoneDangles, Stages, NoUseAfterFree
<1>6. WrapperIsIntact'
  BY <1>1 DEF WrapperIsIntact
<1>7. QED
  BY <1>1, <1>4, <1>5, <1>6, KeptStays DEF IInv

LEMMA AllocateFramesKeepsInv ==
  ASSUME IInv, AllocateFrames
  PROVE  IInv'
<1>1. /\ step = "made" /\ step' = "capture" /\ array' = [n \in 1 .. capa |-> Zeroed]
      /\ UNCHANGED <<at, used, methods, owner, capa, len, origin, clientVars>>
  BY DEF AllocateFrames, heapVars
<1>2. array = NULL /\ len = 0 /\ capa \in Nat
  BY <1>1, LengthFits DEF IInv, Stages, TypeOK
<1>3. Zeroed \in [Members -> Addresses \cup {NULL}]
  BY DEF Zeroed
<1>4. /\ array' \in [1 .. capa -> [Members -> Addresses \cup {NULL}]]
      /\ array' \in Seq([Members -> Addresses \cup {NULL}])
  BY <1>1, <1>2, <1>3
<1>5. array' # NULL
  BY <1>4, FrameHeapAssumption
<1>6. TypeOK'
  BY <1>1, <1>2, <1>4, <1>5 DEF IInv, TypeOK, clientVars
<1>7. HeapInv' /\ Stages' /\ NoUseAfterFree'
  BY <1>1, <1>5 DEF IInv, HeapInv, Distinct, UsedIsLive, NoneDangles, Stages, NoUseAfterFree
<1>8. WrapperIsIntact'
  BY <1>1, <1>2 DEF WrapperIsIntact
<1>9. QED
  BY <1>1, <1>6, <1>7, <1>8, KeptStays DEF IInv

LEMMA CaptureFrameKeepsInv ==
  ASSUME IInv, NEW f \in CapturedFrames, CaptureFrame(f)
  PROVE  IInv'
<1> DEFINE refs == RawMembers(Capture(f))
<1>1. /\ step = "capture" /\ len < capa /\ OnStack(f)
      /\ array' = [array EXCEPT ![len + 1] = Stored(refs)]
      /\ len' = len + 1 /\ origin' = Append(origin, refs)
      /\ UNCHANGED <<at, used, methods, step, owner, capa, clientVars>>
  BY DEF CaptureFrame, heapVars
<1>2. /\ capa \in Nat /\ len \in Nat /\ array # NULL
      /\ array \in [1 .. capa -> [Members -> Addresses \cup {NULL}]]
      /\ origin \in Seq(RawRefs) /\ Len(origin) = len
  BY <1>1, LengthFits DEF IInv, TypeOK, NoUseAfterFree, Stages
<1>3. refs \in RawRefs /\ Live(refs)
  BY <1>1, CapturedIsLive DEF IInv, HeapInv
<1> HIDE DEF refs
<1>4. Stored(refs) \in [Members -> Addresses \cup {NULL}]
  BY <1>3 DEF Stored, RawRefs, IInv, TypeOK
<1>5. /\ array' \in [1 .. capa -> [Members -> Addresses \cup {NULL}]]
      /\ array' \in Seq([Members -> Addresses \cup {NULL}])
  BY <1>1, <1>2, <1>4
<1>6. array' # NULL
  BY <1>5, FrameHeapAssumption
<1>7. TypeOK'
  <2>1. len' \in 0 .. capa
    BY <1>1, <1>2
  <2>2. QED
    BY <1>1, <1>5, <1>6, <2>1 DEF IInv, TypeOK, clientVars
<1>8. HeapInv' /\ NoUseAfterFree'
  BY <1>1, <1>6 DEF IInv, HeapInv, Distinct, UsedIsLive, NoneDangles, NoUseAfterFree
<1>9. Stages'
  BY <1>1, <1>2, <1>3 DEF IInv, Stages
<1>10. WrapperIsIntact'
  <2>1. SUFFICES ASSUME NEW n \in 1 .. len'
                 PROVE  /\ array'[n] = Stored(origin'[n])
                        /\ \A m \in Members :
                             origin'[n][m] # NULL => array'[n][m] # NULL
    BY <1>1 DEF WrapperIsIntact, Stored
  <2>2. CASE n = len'
    <3>1. array'[n] = Stored(refs) /\ origin'[n] = refs
      BY <1>1, <1>2, <1>3, <2>2
    <3>2. QED
      BY <1>3, <3>1 DEF Stored, Live, RawRefs
  <2>3. CASE n # len'
    <3>1. n \in 1 .. len /\ array'[n] = array[n] /\ origin'[n] = origin[n]
      BY <1>1, <1>2, <1>3, <2>3
    <3>2. owner = "call"
      BY <1>1 DEF IInv, Stages
    <3>3. QED
      BY <3>1, <3>2 DEF IInv, WrapperIsIntact
  <2>4. QED
    BY <2>2, <2>3
<1>11. QED
  BY <1>1, <1>7, <1>8, <1>9, <1>10, KeptStays DEF IInv

LEMMA LeaveKeepsInv ==
  ASSUME IInv, EndCapture \/ EndCall \/ DropWrapper
  PROVE  IInv'
<1>1. /\ UNCHANGED <<at, used, methods, capa, array, len, origin, clientVars>>
      /\ owner' \in {"call", "client", "nobody"}
      /\ owner' \in {"call", "client"} => owner \in {"call", "client"}
      /\ step' \in {"read", "idle"} /\ (owner' = "call") = (step' # "idle")
      /\ step' = "read" => step = "capture"
  <2>1. CASE EndCapture
    BY <2>1 DEF EndCapture, IInv, Stages, heapVars, wrapperVars
  <2>2. CASE EndCall
    BY <2>2 DEF EndCall, IInv, Stages, heapVars
  <2>3. CASE DropWrapper
    BY <2>3 DEF DropWrapper, IInv, Stages, TypeOK, heapVars
  <2>4. QED
    BY <2>1, <2>2, <2>3
<1>2. TypeOK'
  BY <1>1 DEF IInv, TypeOK, clientVars
<1>3. HeapInv' /\ Stages' /\ NoUseAfterFree'
  BY <1>1 DEF IInv, HeapInv, Distinct, UsedIsLive, NoneDangles, Stages, NoUseAfterFree
<1>4. QED
  BY <1>1, <1>2, <1>3, KeptStays, WrapperStays DEF IInv

LEMMA KeepLocationKeepsInv ==
  ASSUME IInv, NEW f \in CapturedFrames, KeepLocation(f)
  PROVE  IInv'
<1>1. /\ OnStack(f) /\ kept' = Stored(keptOf') /\ how' \in {"pinned", "movable"}
      /\ \/ keptOf' = RawMembers(Capture(f))
         \/ keptOf' = MinimalMembers(Capture(f))
      /\ UNCHANGED <<at, used, methods, step, owner, capa, array, len, origin>>
  BY DEF KeepLocation, heapVars, wrapperVars
<1>2. keptOf' \in RawRefs \cup MinimalRefs /\ Live(keptOf')
  BY <1>1, CapturedIsLive DEF IInv, HeapInv
<1>3. \A m \in DOMAIN keptOf' : keptOf'[m] \in HeapObjects \cup {NULL}
  BY <1>2 DEF RawRefs, MinimalRefs
<1>4. kept' \in [DOMAIN keptOf' -> Addresses \cup {NULL}]
  BY <1>1, <1>3 DEF IInv, TypeOK, Stored
<1>5. KeptIsIntact' /\ Kinds'
  BY <1>1, <1>2 DEF KeptIsIntact, Kinds, Stored, Live, RawRefs, MinimalRefs
<1>6. TypeOK'
  BY <1>1, <1>4 DEF IInv, TypeOK
<1>7. HeapInv' /\ Stages' /\ NoUseAfterFree'
  BY <1>1 DEF IInv, HeapInv, Distinct, UsedIsLive, NoneDangles, Stages, NoUseAfterFree
<1>8. QED
  BY <1>1, <1>5, <1>6, <1>7, WrapperStays DEF IInv

LEMMA DropLocationKeepsInv ==
  ASSUME IInv, DropLocation
  PROVE  IInv'
<1>1. /\ kept' = NULL /\ how' = "pinned"
      /\ UNCHANGED <<at, used, methods, step, owner, capa, array, len, origin>>
  BY DEF DropLocation, heapVars, wrapperVars
<1>2. TypeOK' /\ Kinds' /\ KeptIsIntact'
  BY <1>1 DEF IInv, TypeOK, Kinds, KeptIsIntact
<1>3. HeapInv' /\ Stages' /\ NoUseAfterFree'
  BY <1>1 DEF IInv, HeapInv, Distinct, UsedIsLive, NoneDangles, Stages, NoUseAfterFree
<1>4. QED
  BY <1>1, <1>2, <1>3, WrapperStays DEF IInv

-----------------------------------------------------------------------------
(* The theorems *)

LEMMA NextKeepsInv == IInv /\ [Next]_vars => IInv'
<1> SUFFICES ASSUME IInv, [Next]_vars PROVE IInv'
  OBVIOUS
<1>1. CASE CollectGarbage
  BY <1>1, CollectGarbageKeepsInv
<1>2. CASE CallStep
  BY <1>2, AllocateFramesKeepsInv, CaptureFrameKeepsInv, LeaveKeepsInv DEF CallStep
<1>3. CASE DropWrapper
  BY <1>3, LeaveKeepsInv
<1>4. CASE DropLocation
  BY <1>4, DropLocationKeepsInv
<1>5. ASSUME NEW os \in Droppable, Drop(os) PROVE IInv'
  BY <1>5, DropKeepsInv
<1>6. ASSUME NEW c \in Cmes, RemoveMethod(c) PROVE IInv'
  BY <1>6, RemoveMethodKeepsInv
<1>7. ASSUME NEW n \in Capacities, NewWrapper(n) PROVE IInv'
  BY <1>7, NewWrapperKeepsInv
<1>8. ASSUME NEW f \in CapturedFrames, KeepLocation(f) PROVE IInv'
  BY <1>8, KeepLocationKeepsInv
<1>9. CASE UNCHANGED vars
  <2>1. /\ UNCHANGED <<at, used, methods, step, owner, capa, array, len, origin>>
        /\ UNCHANGED clientVars
    BY <1>9 DEF vars, heapVars, wrapperVars
  <2>2. TypeOK'
    BY <2>1 DEF IInv, TypeOK, clientVars
  <2>3. HeapInv' /\ Stages' /\ NoUseAfterFree'
    BY <2>1 DEF IInv, HeapInv, Distinct, UsedIsLive, NoneDangles, Stages, NoUseAfterFree
  <2>4. QED
    BY <2>1, <2>2, <2>3, KeptStays, WrapperStays DEF IInv
<1>10. QED
  BY <1>1, <1>2, <1>3, <1>4, <1>5, <1>6, <1>7, <1>8, <1>9
  DEF Next

(* The inductive invariant. *)
THEOREM Invariance == Spec => []IInv
BY InitInv, NextKeepsInv, PTL DEF Spec

THEOREM TypeCorrect == Spec => []TypeOK
BY Invariance, PTL DEF IInv

(* The frames of a wrapper that someone holds refer to what they were      *)
(* captured from, through every collection and compaction.                 *)
THEOREM HeldFramesAreIntact == Spec => []WrapperIsIntact
BY Invariance, PTL DEF IInv

(* No call reads an array that a collection freed. *)
THEOREM ArrayOutlivesCall == Spec => []NoUseAfterFree
BY Invariance, PTL DEF IInv

(* A client's location, raw or minimal, pinned or movable, refers to what  *)
(* it was captured from.                                                   *)
THEOREM KeptLocationsAreIntact == Spec => []KeptIsIntact
BY Invariance, PTL DEF IInv

-----------------------------------------------------------------------------
(* What the locations do not keep. *)

(* Marking a location marks nothing but what it was made from. *)
LEMMA MarkFindsNoMore ==
  ASSUME Distinct, NEW refs,
         \A m \in DOMAIN refs : refs[m] \in HeapObjects \cup {NULL},
         NEW o \in FrameMark(Stored(refs))
  PROVE  \E m \in DOMAIN refs : refs[m] = o
<1>1. o \in HeapObjects /\ at[o] # NULL /\ at[o] \in Range(Stored(refs))
  BY DEF FrameMark, ObjectsAt
<1>2. PICK m \in DOMAIN Stored(refs) : at[o] = Stored(refs)[m]
  BY <1>1 DEF Range
<1>3. m \in DOMAIN refs /\ refs[m] # NULL /\ at[refs[m]] = at[o]
  BY <1>1, <1>2 DEF Stored
<1>4. QED
  BY <1>1, <1>3 DEF Distinct

(* What a location refers to directly is no receiver, and in a minimal one *)
(* neither code nor a method entry.                                        *)
LEMMA LocatedOnly ==
  ASSUME IInv, NEW o \in Located
  PROVE  \/ o \in Labels \cup NoReceiver
         \/ WrapperIsHeld /\ o \in Iseqs \cup Cmes
         \/ kept # NULL /\ keptOf \in RawRefs /\ o \in Iseqs \cup Cmes
<1> DEFINE held == IF WrapperIsHeld THEN WrapperMark ELSE {}
           own == IF kept # NULL THEN FrameMark(kept) ELSE {}
<1>1. ASSUME NEW p \in held
      PROVE  WrapperIsHeld /\ p \in Iseqs \cup Cmes \cup NoReceiver
  <2>1. WrapperIsHeld /\ p \in WrapperMark
    BY <1>1
  <2>2. PICK n \in 1 .. len : p \in FrameMark(array[n])
    BY <2>1 DEF WrapperMark
  <2>3. /\ origin[n] \in RawRefs /\ DOMAIN origin[n] = Members
        /\ \A m \in Members : origin[n][m] \in HeapObjects \cup {NULL}
    BY DEF IInv, Stages, RawRefs
  <2>4. array[n] = Stored(origin[n])
    BY <2>1 DEF IInv, WrapperIsIntact, WrapperIsHeld
  <2>5. PICK m \in Members : origin[n][m] = p
    BY <2>2, <2>3, <2>4, MarkFindsNoMore DEF IInv, HeapInv
  <2>6. p # NULL
    BY <2>2, RefersByKind DEF FrameMark, ObjectsAt
  <2>7. QED
    BY <2>1, <2>3, <2>5, <2>6 DEF RawRefs, Members
<1>2. ASSUME NEW p \in own
      PROVE  /\ kept # NULL
             /\ \/ p \in Labels \cup NoReceiver
                \/ keptOf \in RawRefs /\ p \in Iseqs \cup Cmes
  <2>1. kept # NULL /\ p \in FrameMark(kept)
    BY <1>2
  <2>2. /\ kept = Stored(keptOf) /\ keptOf \in RawRefs \cup MinimalRefs
        /\ \A m \in DOMAIN keptOf : keptOf[m] \in HeapObjects \cup {NULL}
    BY <2>1 DEF IInv, KeptIsIntact, Kinds, RawRefs, MinimalRefs
  <2>3. PICK m \in DOMAIN keptOf : keptOf[m] = p
    BY <2>1, <2>2, MarkFindsNoMore DEF IInv, HeapInv
  <2>4. p # NULL
    BY <2>1, RefersByKind DEF FrameMark, ObjectsAt
  <2>5. CASE keptOf \in RawRefs
    BY <2>1, <2>3, <2>4, <2>5 DEF RawRefs, Members
  <2>6. CASE keptOf \in MinimalRefs
    BY <2>1, <2>3, <2>4, <2>6 DEF MinimalRefs
  <2>7. QED
    BY <2>2, <2>5, <2>6
<1>3. QED
  BY <1>1, <1>2 DEF Located

(* If no location refers to objects of some sort directly, those that the  *)
(* program abandoned are not marked.                                       *)
LEMMA AbandonedAreGarbage ==
  ASSUME IInv, NEW os \in SUBSET HeapObjects, Located \cap os = {}
  PROVE  Abandoned(os) \cap Marked = {}
<1> DEFINE others == Reach(HeapObjects \ os)
<1>1. /\ methods \in SUBSET Cmes /\ used \subseteq HeapObjects
      /\ IsClosed(used, methods)
  BY DEF IInv, TypeOK, HeapInv, UsedIsLive
<1>2. /\ others \subseteq HeapObjects /\ HeapObjects \ os \subseteq others
      /\ IsClosed(others, methods)
  BY <1>1, ReachIsLeast
<1> HIDE DEF others
<1>3. IsClosed(used \cup others, methods)
  BY <1>1, <1>2 DEF IsClosed
<1>4. used \cup Located \subseteq used \cup others
  BY <1>2, LocatedIsThere
<1>5. Marked \subseteq used \cup others
  BY <1>1, <1>2, <1>3, <1>4, MarkedIsLeast DEF IInv
<1>6. QED
  BY <1>5 DEF Abandoned, others

(* Whatever wrappers and locations there are, the receivers that the       *)
(* program abandoned are garbage.                                          *)
THEOREM ReceiversAreFreed == Spec => []NoReceiverIsHeld
<1>1. IInv => NoReceiverIsHeld
  <2>1. SUFFICES ASSUME IInv PROVE Abandoned(Receivers) \cap Marked = {}
    BY DEF NoReceiverIsHeld
  <2>2. /\ Receivers \subseteq HeapObjects
        /\ \A o \in Receivers : o \notin NoReceiver \cup Labels \cup Iseqs \cup Cmes
    BY FrameHeapAssumption DEF Receivers, NoReceiver, HeapObjects
  <2>3. Located \cap Receivers = {}
    BY <2>1, <2>2, LocatedOnly
  <2>4. QED
    BY <2>1, <2>2, <2>3, AbandonedAreGarbage
<1>2. QED
  BY <1>1, Invariance, PTL

(* While a minimal location is all that is kept, the code and the method   *)
(* entries that the program abandoned are garbage.                         *)
THEOREM MinimalKeepsNoCode == Spec => []MinimalHoldsNoCode
<1>1. IInv => MinimalHoldsNoCode
  <2>1. SUFFICES ASSUME IInv, OnlyMinimalKept
                 PROVE  Abandoned(Iseqs \cup Cmes) \cap Marked = {}
    BY DEF MinimalHoldsNoCode
  <2>2. /\ Iseqs \cup Cmes \subseteq HeapObjects
        /\ \A o \in Iseqs \cup Cmes : o \notin Labels \cup NoReceiver
    BY FrameHeapAssumption, VMAssumption DEF NoReceiver, HeapObjects
  <2>3. ~ WrapperIsHeld /\ keptOf \notin RawRefs
    <3>1. /\ ~ WrapperIsHeld /\ kept # NULL /\ "base_label" \in DOMAIN kept
      BY <2>1 DEF OnlyMinimalKept
    <3>2. "base_label" \in DOMAIN keptOf
      BY <2>1, <3>1 DEF IInv, KeptIsIntact, Stored
    <3>3. "base_label" \notin Members
      BY DEF Members
    <3>4. QED
      BY <3>1, <3>2, <3>3 DEF RawRefs
  <2>4. Located \cap (Iseqs \cup Cmes) = {}
    BY <2>1, <2>2, <2>3, LocatedOnly
  <2>5. QED
    BY <2>1, <2>2, <2>4, AbandonedAreGarbage
<1>2. QED
  BY <1>1, Invariance, PTL

(* Every collection frees what is not marked, and nothing else.            *)
THEOREM CollectionsFreeGarbage ==
  Spec => [][CollectGarbage => \A o \in HeapObjects :
                                 at'[o] # NULL <=> o \in Marked]_vars
<1>1. ASSUME IInv, CollectGarbage
      PROVE  \A o \in HeapObjects : at'[o] # NULL <=> o \in Marked
  <2>1. at' \in Placements(Marked)
    BY <1>1 DEF CollectGarbage
  <2>2. Marked \subseteq HeapObjects /\ \A o \in Marked : at[o] # NULL
    BY <1>1, MarkedIsLeast, MarkedIsThere DEF IInv, HeapInv
  <2>3. QED
    BY <1>1, <2>1, <2>2, AfterCollection DEF IInv, HeapInv
<1>2. IInv => [CollectGarbage => \A o \in HeapObjects :
                                   at'[o] # NULL <=> o \in Marked]_vars
  BY <1>1
<1>3. QED
  BY <1>2, Invariance, PTL

-----------------------------------------------------------------------------
(* The steps of FrameWrapper *)

Idle(s) == s \notin {"capture", "read"}

LEMMA InitUse == Init => Wrapper!Init
BY DEF Init, Filled, Wrapper!Init

(* Outside the steps that fill and read it, nothing is seen of a wrapper.  *)
LEMMA IdleStep ==
  ASSUME Idle(step), Idle(step')
  PROVE  UNCHANGED Wrapper!vars
BY DEF Idle, Filled, Wrapper!vars

LEMMA SameStep ==
  ASSUME UNCHANGED <<step, capa, len>>
  PROVE  UNCHANGED Wrapper!vars
BY DEF Filled, Wrapper!vars

LEMMA CallStepUse ==
  ASSUME IInv, CallStep
  PROVE  [Wrapper!Next]_(Wrapper!vars)
<1>1. CASE AllocateFrames
  <2>1. step = "made" /\ step' = "capture" /\ UNCHANGED <<capa, len>>
    BY <1>1 DEF AllocateFrames
  <2>2. len = 0 /\ capa \in Nat
    BY <2>1, LengthFits DEF IInv, Stages, TypeOK
  <2>3. Wrapper!Make("call")
    BY <2>1, <2>2 DEF Filled, Wrapper!Make
  <2>4. QED
    BY <2>3 DEF Wrapper!Next
<1>2. ASSUME NEW f \in CapturedFrames, CaptureFrame(f)
      PROVE  Wrapper!Fill("call")
  BY <1>2 DEF CaptureFrame, Filled, Wrapper!Fill
<1>3. CASE EndCapture
  <2>1. Wrapper!Stop("call")
    BY <1>3 DEF EndCapture, wrapperVars, Filled, Wrapper!Stop
  <2>2. QED
    BY <2>1 DEF Wrapper!Next
<1>4. CASE EndCall /\ step = "read"
  <2>1. Wrapper!End("call")
    BY <1>4 DEF EndCall, Filled, Wrapper!End
  <2>2. QED
    BY <2>1 DEF Wrapper!Next
<1>5. CASE EndCall /\ step # "read"
  BY <1>5, IdleStep DEF EndCall, Idle
<1>6. QED
  BY <1>1, <1>2, <1>3, <1>4, <1>5 DEF CallStep, Wrapper!Next

LEMMA CollectGarbageUse ==
  ASSUME IInv, CollectGarbage
  PROVE  UNCHANGED Wrapper!vars
<1>1. UNCHANGED step
  BY DEF CollectGarbage
<1>2. CASE Idle(step)
  BY <1>1, <1>2, IdleStep
<1>3. CASE ~ Idle(step)
  <2>1. WrapperIsHeld
    BY <1>3 DEF IInv, Stages, Idle, WrapperIsHeld
  <2>2. UNCHANGED <<capa, len>>
    BY <2>1 DEF CollectGarbage
  <2>3. QED
    BY <1>1, <2>2, SameStep
<1>4. QED
  BY <1>2, <1>3

(* Whatever the collector does between its steps, a call uses its wrapper  *)
(* as FrameWrapper says: as many frames as were captured, in an array that *)
(* has room for them, until the call ends.                                 *)
THEOREM WrapperRefinement == Spec => ImplementsWrapper
<1>1. IInv /\ [Next]_vars => [Wrapper!Next]_(Wrapper!vars)
  <2> SUFFICES ASSUME IInv, [Next]_vars PROVE [Wrapper!Next]_(Wrapper!vars)
    OBVIOUS
  <2>1. CASE CollectGarbage
    BY <2>1, CollectGarbageUse
  <2>2. CASE CallStep
    BY <2>2, CallStepUse
  <2>3. CASE \E n \in Capacities : NewWrapper(n)
    BY <2>3, IdleStep DEF NewWrapper, Idle
  <2>4. CASE \/ DropWrapper \/ DropLocation \/ UNCHANGED vars
             \/ \E os \in Droppable : Drop(os)
             \/ \E c \in Cmes : RemoveMethod(c)
             \/ \E f \in CapturedFrames : KeepLocation(f)
    BY <2>4, SameStep
    DEF DropWrapper, DropLocation, Drop, RemoveMethod, KeepLocation, vars,
        wrapperVars
  <2>5. QED
    BY <2>1, <2>2, <2>3, <2>4 DEF Next
<1>2. QED
  BY <1>1, InitUse, Invariance, PTL DEF Spec, ImplementsWrapper, Wrapper!Spec
=============================================================================
