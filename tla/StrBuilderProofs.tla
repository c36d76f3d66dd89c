--------------------------- MODULE StrBuilderProofs --------------------------
(***************************************************************************)
(* Proofs about StrBuilder, for buffers and texts of any size: its types,  *)
(* what a fixed buffer holds, and what a growable one returns.             *)
(***************************************************************************)
EXTENDS StrBuilder, WellFoundedInduction, NaturalsInduction, TLAPS

(* What is running, and how far the text goes. *)
Shape ==
  /\ doing \in client \cup {"nothing"}
  /\ phase \in {"closed", "taken"} => doing = "nothing"
  /\ phase = "taken" => growable
  /\ doing = "nothing" => len = 0 /\ ~ again
  /\ ~ growable => ~ again /\ size < SizeModulus
  /\ nuls \subseteq 1 .. (want + len)
  /\ want + len <= MaxText

(* A fixed buffer, between any two passes. *)
Beginning == IF want < size THEN want ELSE size - 1

FixedInv ==
  ~ growable /\ phase = "open" =>
    /\ attempted = want
    /\ cur = IF want < size THEN want ELSE size
    /\ size > 0 => Holds(Beginning)

(* A growable one that only takes Ruby strings. *)
LabelInv ==
  growable /\ phase = "open" /\ client = {"append_value"} =>
    cur = want /\ Holds(want)

(* One that takes C strings as well: a retry finds t characters that the   *)
(* pass before it has left behind the write pointer.                       *)
LeftOver(t) ==
  /\ mem[cur + t] = NUL
  /\ \A a \in 0 .. (cur + t - 1) : mem[a] # NUL
  /\ t > 0 => doing = "append" /\ len > 0

TextInv ==
  growable /\ phase = "open" /\ "appendf" \notin client /\ nuls = {} =>
    /\ attempted = cur /\ cur < size
    /\ want > 0 => cur > 0 /\ mem[cur - 1] = want
    /\ \E t \in 0 .. (size - cur - 1) : LeftOver(t)

IInv ==
  /\ TypeOK /\ Shape
  /\ FixedInv
  /\ LabelInv /\ LabelsAreWhole
  /\ TextInv /\ GrowableEndsWithText

-----------------------------------------------------------------------------
(* The helpers *)

(* Min of the community modules is a CHOOSE; on naturals it finds one. *)
LEMMA MinOfNaturals ==
  ASSUME NEW S \in SUBSET Nat, S # {}
  PROVE  Min(S) \in S /\ \A y \in S : Min(S) <= y
<1>1. PICK x \in S : \A y \in S : <<y, x>> \notin OpToRel(<, Nat)
  BY WFMin, NatLessThanWellFounded, Zenon
<1>2. \A y \in S : x <= y
  <2> SUFFICES ASSUME NEW y \in S PROVE x <= y
    OBVIOUS
  <2>1. x \in Nat /\ y \in Nat
    OBVIOUS
  <2>2. ~ (y < x)
    BY <1>1, <2>1, Zenon DEF OpToRel
  <2>3. QED
    BY <2>1, <2>2
<1>3. QED
  BY <1>2, Zenon DEF Min

LEMMA MinIsUnique ==
  ASSUME NEW S \in SUBSET Nat, NEW x \in S, \A y \in S : x <= y
  PROVE  Min(S) = x
<1>1. Min(S) \in S /\ Min(S) <= x
  BY MinOfNaturals
<1>2. x <= Min(S) /\ x \in Nat /\ Min(S) \in Nat
  BY <1>1
<1>3. QED
  BY <1>1, <1>2

LEMMA StrLenFacts ==
  ASSUME TypeOK, NEW from \in 0 .. size
  PROVE  /\ StrLen(from) \in 0 .. (size - from)
         /\ StrLen(from) = size - from \/ mem[from + StrLen(from)] = NUL
         /\ \A k \in 0 .. (size - from) :
              k < StrLen(from) => mem[from + k] # NUL
<1> DEFINE ends == {k \in 0 .. (size - from) : k = size - from \/ mem[from + k] = NUL}
<1>1. size \in Nat
  BY DEF TypeOK
<1>2. size - from \in ends /\ ends \in SUBSET Nat
  BY <1>1
<1>3. Min(ends) \in ends /\ \A y \in ends : Min(ends) <= y
  BY <1>2, MinOfNaturals
<1>4. StrLen(from) = Min(ends)
  BY DEF StrLen
<1>5. \A k \in 0 .. (size - from) : k < Min(ends) => k \notin ends
  BY <1>1, <1>3
<1>6. QED
  BY <1>1, <1>3, <1>4, <1>5

(* Where the string that starts at an offset ends, is its length.          *)
LEMMA StrLenIs ==
  ASSUME TypeOK, NEW from \in 0 .. size, NEW n \in 0 .. (size - from),
         n = size - from \/ mem[from + n] = NUL,
         \A k \in 0 .. (n - 1) : mem[from + k] # NUL
  PROVE  StrLen(from) = n
<1> DEFINE ends == {k \in 0 .. (size - from) : k = size - from \/ mem[from + k] = NUL}
<1>1. size \in Nat
  BY DEF TypeOK
<1>2. ends \in SUBSET Nat /\ n \in ends
  BY <1>1
<1>3. \A k \in ends : n <= k
  <2>1. ASSUME NEW k \in ends, k < n PROVE FALSE
    <3>1. mem[from + k] # NUL /\ k # size - from
      BY <1>1, <2>1
    <3>2. QED
      BY <2>1, <3>1
  <2>2. QED
    BY <1>1, <2>1
<1>4. QED
  BY <1>2, <1>3, MinIsUnique DEF StrLen

(* The buffer with a piece in it. *)
LEMMA PutFacts ==
  ASSUME TypeOK, NEW here \in Nat, NEW k \in Nat, here + k < size
  PROVE  /\ Put(here, k) \in [0 .. size - 1 -> Int]
         /\ \A a \in 0 .. size - 1 :
              /\ a < here => Put(here, k)[a] = mem[a]
              /\ a >= here /\ a < here + k /\ ~ (doing = "appendf" /\ again) =>
                   Put(here, k)[a] = Char(want + (a - here) + 1)
         /\ Put(here, k)[here + k] = NUL
<1>1. /\ size \in Nat /\ want \in Nat
      /\ mem \in [0 .. size - 1 -> Int]
  BY DEF TypeOK
<1>2. GARBAGE \in Int /\ NUL \in Int
  BY DEF GARBAGE, NUL
<1>3. \A i \in Int : Char(i) \in Int
  BY <1>2 DEF Char
<1>4. \A a \in 0 .. size - 1 : mem[a] \in Int /\ Char(want + (a - here) + 1) \in Int
  BY <1>1, <1>3
<1>5. Put(here, k) \in [0 .. size - 1 -> Int]
  BY <1>2, <1>4 DEF Put
<1>6. here + k \in 0 .. size - 1
  BY <1>1
<1>7. QED
  BY <1>1, <1>5, <1>6 DEF Put

-----------------------------------------------------------------------------
(* Types, and what is running *)

LEMMA GrowBasics ==
  ASSUME TypeOK, Shape, growable, doing # "nothing",
         NEW m \in [0 .. size - 1 -> Int], Grow(m)
  PROVE  TypeOK' /\ Shape'
<1>1. /\ size' = size * 2 /\ again' = TRUE
      /\ mem' = [a \in 0 .. size * 2 - 1 |-> IF a < size THEN m[a] ELSE JUNK]
      /\ UNCHANGED <<phase, client, growable, cur, attempted, want, nuls, doing, len,
                     result>>
  BY DEF Grow
<1>2. size \in Nat /\ size * 2 \in Nat /\ size <= size * 2
  BY DEF TypeOK
<1>3. mem' \in [0 .. size' - 1 -> Int]
  BY <1>1, <1>2 DEF JUNK
<1>4. cur' \in 0 .. size'
  BY <1>1, <1>2 DEF TypeOK
<1>5. TypeOK'
  BY <1>1, <1>2, <1>3, <1>4 DEF TypeOK
<1>6. Shape'
  BY <1>1 DEF Shape
<1>7. QED
  BY <1>5, <1>6

LEMMA DoneBasics ==
  ASSUME TypeOK, Shape, phase = "open", NEW n \in Nat, Done(n),
         mem' \in [0 .. size - 1 -> Int], cur' \in 0 .. size
  PROVE  TypeOK' /\ Shape'
<1>1. /\ attempted' = attempted + n /\ want' = want + len
      /\ doing' = "nothing" /\ len' = 0 /\ again' = FALSE
      /\ UNCHANGED <<phase, client, growable, size, nuls, result>>
  BY DEF Done
<1>2. /\ MaxPiece \in Nat /\ len \in Nat /\ want \in Nat /\ attempted \in Nat
      /\ want + len + 0 = want + len
  BY StrBuilderAssumption DEF TypeOK
<1>3. TypeOK'
  <2>1. /\ attempted' \in Nat /\ want' \in Nat /\ len' \in 0 .. MaxPiece
        /\ mem' \in [0 .. size' - 1 -> Int] /\ cur' \in 0 .. size'
    BY <1>1, <1>2
  <2>2. /\ phase' = phase /\ client' = client /\ growable' = growable
        /\ size' = size /\ nuls' = nuls /\ result' = result
        /\ doing' = "nothing" /\ again' = FALSE
    BY <1>1
  <2>3. QED
    BY <2>1, <2>2 DEF TypeOK
<1>4. Shape'
  BY <1>1, <1>2 DEF Shape
<1>5. QED
  BY <1>3, <1>4

LEMMA SettleBasics ==
  ASSUME TypeOK, Shape, phase = "open", doing # "nothing",
         NEW m \in [0 .. size - 1 -> Int], NEW n \in Nat, Settle(m, n)
  PROVE  TypeOK' /\ Shape'
<1>1. size \in Nat /\ cur \in Nat /\ cur <= size
  BY DEF TypeOK
<1>2. CASE n >= Room /\ growable /\ Grow(m)
  BY <1>2, GrowBasics
<1>3. CASE n >= Room /\ mem' = m /\ cur' = size /\ Done(n)
  BY <1>1, <1>3, DoneBasics
<1>4. CASE ~ (n >= Room) /\ mem' = m /\ cur' = cur + n /\ Done(n)
  <2>1. cur' \in 0 .. size
    BY <1>1, <1>4 DEF Room
  <2>2. QED
    BY <1>4, <2>1, DoneBasics
<1>5. QED
  BY <1>2, <1>3, <1>4 DEF Settle

(* What the string at the write pointer leaves of the room. *)
LEMMA RoomFacts ==
  ASSUME TypeOK
  PROVE  /\ size \in Nat /\ cur \in Nat /\ Room \in Nat /\ Room = size - cur
         /\ len \in Nat /\ want \in Nat /\ attempted \in Nat
         /\ StrLen(cur) \in 0 .. Room
         /\ mem \in [0 .. size - 1 -> Int]
<1>1. StrLen(cur) \in 0 .. (size - cur)
  BY StrLenFacts DEF TypeOK
<1>2. MaxPiece \in Nat
  BY StrBuilderAssumption
<1>3. QED
  BY <1>1, <1>2 DEF TypeOK, Room

(* Arithmetic of size_t *)
LEMMA WrapFacts ==
  /\ \A n \in Int : n % SizeModulus \in Nat
  /\ \A n \in Nat : n < SizeModulus => n % SizeModulus = n
  /\ (0 - 1) % SizeModulus = SizeModulus - 1
BY StrBuilderAssumption

LEMMA PassBasics ==
  ASSUME TypeOK, Shape, Pass
  PROVE  TypeOK' /\ Shape'
<1>0. USE RoomFacts
<1>1. CASE AppendPass
  <2> DEFINE there == StrLen(cur)
             fits == IF len < Room - there THEN len ELSE Room - there - 1
  <2>1. phase = "open" /\ doing = "append"
    BY <1>1 DEF AppendPass
  <2>2. CASE there = Room
    <3>1. Settle(mem, Room + len)
      BY <1>1, <2>2 DEF AppendPass
    <3>2. QED
      BY <2>1, <3>1, SettleBasics
  <2>3. CASE there # Room
    <3>1. Settle(Put(cur + there, fits), there + len)
      BY <1>1, <2>3 DEF AppendPass
    <3>2. fits \in Nat /\ cur + there \in Nat /\ (cur + there) + fits < size
      <4>1. there \in Nat /\ there < Room
        BY <2>3
      <4> HIDE DEF there
      <4>2. QED
        BY <4>1
    <3> HIDE DEF there, fits
    <3>3. Put(cur + there, fits) \in [0 .. size - 1 -> Int]
      BY <3>2, PutFacts
    <3>4. there + len \in Nat
      BY DEF there
    <3>5. QED
      BY <2>1, <3>1, <3>3, <3>4, SettleBasics
  <2>4. QED
    BY <2>2, <2>3
<1>2. CASE AppendfPass
  <2>1. phase = "open" /\ doing = "appendf"
    BY <1>2 DEF AppendfPass
  <2>2. PICK n \in IF again THEN 0 .. MaxPiece ELSE {len} :
               IF Room = 0
               THEN Settle(mem, n)
               ELSE Settle(Put(cur, IF n < Room THEN n ELSE Room - 1), n)
    BY <1>2 DEF AppendfPass
  <2>3. n \in Nat
    BY <2>2, StrBuilderAssumption
  <2>4. CASE Room = 0
    BY <2>1, <2>2, <2>3, <2>4, SettleBasics
  <2>5. CASE Room # 0
    <3> DEFINE k == IF n < Room THEN n ELSE Room - 1
    <3>1. k \in Nat /\ cur + k < size
      BY <2>3, <2>5
    <3> HIDE DEF k
    <3>2. Put(cur, k) \in [0 .. size - 1 -> Int]
      BY <3>1, PutFacts
    <3>3. Settle(Put(cur, k), n)
      BY <2>2, <2>5 DEF k
    <3>4. QED
      BY <2>1, <2>3, <3>2, <3>3, SettleBasics
  <2>6. QED
    BY <2>4, <2>5
<1>3. CASE AppendValuePass
  <2> DEFINE cut == len + 1 > Room
             copied == IF cut THEN (Room - 1) % SizeModulus ELSE len
  <2>1. phase = "open" /\ doing = "append_value"
    BY <1>3 DEF AppendValuePass
  <2>2. CASE cut /\ growable /\ Grow(mem)
    BY <2>1, <2>2, GrowBasics
  <2>3. CASE /\ phase' = "overrun"
             /\ UNCHANGED <<client, growable, size, mem, cur, attempted, want,
                            nuls, doing, len, again, result>>
    BY <2>1, <2>3 DEF TypeOK, Shape
  <2>4. CASE /\ ~ (cut /\ growable) /\ cur + copied < size /\ mem' = Put(cur, copied)
             /\ cur' = (IF cut THEN size ELSE cur + len) /\ Done(len)
    <3>1. copied \in Nat
      <4>1. Room - 1 \in Int /\ len \in Nat
        OBVIOUS
      <4>2. (Room - 1) % SizeModulus \in Nat
        BY <4>1, WrapFacts
      <4>3. QED
        BY <4>1, <4>2
    <3> HIDE DEF copied
    <3>2. mem' \in [0 .. size - 1 -> Int]
      BY <2>4, <3>1, PutFacts
    <3>3. cur' \in 0 .. size
      BY <2>4
    <3>4. QED
      BY <2>1, <2>4, <3>2, <3>3, DoneBasics
  <2>5. QED
    BY <1>3, <2>2, <2>3, <2>4 DEF AppendValuePass
<1>4. QED
  BY <1>1, <1>2, <1>3 DEF Pass

LEMMA OpenBasics ==
  ASSUME TypeOK, Shape, NEW c \in Clients, NEW g \in BOOLEAN, NEW n \in Nat,
         ~ g => n < SizeModulus, Open(c, g, n)
  PROVE  TypeOK' /\ Shape'
<1>1. /\ phase' = "open" /\ client' = c /\ growable' = g /\ size' = n
      /\ mem' = [a \in 0 .. n - 1 |-> IF a = 0 THEN NUL ELSE JUNK]
      /\ cur' = 0 /\ attempted' = 0 /\ want' = 0 /\ nuls' = {} /\ result' = <<>>
      /\ doing = "nothing" /\ UNCHANGED <<doing, len, again>>
  BY DEF Open, Shape
<1>2. mem' \in [0 .. size' - 1 -> Int]
  BY <1>1 DEF NUL, JUNK
<1>3. TypeOK'
  <2>1. /\ phase' \in {"closed", "open", "taken", "overrun"}
        /\ client' \in Clients \cup {{}} /\ growable' \in BOOLEAN
        /\ size' \in Nat /\ cur' \in 0 .. size'
        /\ attempted' \in Nat /\ want' \in Nat
        /\ nuls' \subseteq 1 .. MaxText /\ result' \in Seq(Int)
    BY <1>1
  <2>2. /\ doing' \in {"append", "append_value", "appendf", "nothing"}
        /\ len' \in 0 .. MaxPiece /\ again' \in BOOLEAN
    BY <1>1 DEF TypeOK
  <2>3. QED
    BY <1>2, <2>1, <2>2 DEF TypeOK
<1>4. len = 0 /\ ~ again /\ MaxText \in Nat /\ 0 < SizeModulus
  BY <1>1, StrBuilderAssumption DEF Shape
<1>5. Shape'
  BY <1>1, <1>4 DEF Shape
<1>6. QED
  BY <1>3, <1>5

LEMMA BeginBasics ==
  ASSUME TypeOK, Shape, NEW kind \in client, NEW n \in 0 .. MaxPiece, Begin(kind, n)
  PROVE  TypeOK' /\ Shape'
<1>1. /\ phase = "open" /\ doing = "nothing" /\ want + n <= MaxText
      /\ doing' = kind /\ len' = n
      /\ UNCHANGED <<phase, client, growable, size, mem, cur, attempted, want, again,
                     result>>
  BY DEF Begin
<1>2. PICK own \in SUBSET ((want + 1) .. (want + n)) : nuls' = nuls \cup own
  BY DEF Begin
<1>3. /\ len = 0 /\ ~ again /\ want \in Nat /\ n \in Nat /\ MaxText \in Nat
      /\ nuls \subseteq 1 .. (want + len)
  BY <1>1, StrBuilderAssumption DEF Shape, TypeOK
<1>4. nuls' \subseteq 1 .. (want + n) /\ nuls' \subseteq 1 .. MaxText
  BY <1>1, <1>2, <1>3
<1>5. kind \in {"append", "append_value", "appendf"}
  BY StrBuilderAssumption DEF TypeOK
<1>6. TypeOK'
  BY <1>1, <1>4, <1>5 DEF TypeOK
<1>7. Shape'
  <2>1. /\ doing' \in client' \cup {"nothing"} /\ phase' = "open" /\ doing' # "nothing"
        /\ ~ again' /\ nuls' \subseteq 1 .. (want' + len') /\ want' + len' <= MaxText
        /\ (~ growable' => size' < SizeModulus)
    BY <1>1, <1>3, <1>4, <1>5 DEF Shape
  <2>2. QED
    BY <2>1 DEF Shape
<1>8. QED
  BY <1>6, <1>7

LEMMA ToValueBasics ==
  ASSUME TypeOK, Shape, ToValue
  PROVE  TypeOK' /\ Shape'
<1>1. /\ phase = "open" /\ doing = "nothing" /\ growable /\ phase' = "taken"
      /\ result' = [k \in 1 .. StrLen(0) |-> mem[k - 1]]
      /\ UNCHANGED <<client, growable, size, mem, cur, attempted, want, nuls, doing,
                     len, again>>
  BY DEF ToValue
<1>2. /\ size \in Nat /\ StrLen(0) \in 0 .. size
      /\ mem \in [0 .. size - 1 -> Int]
  <2>1. size \in Nat /\ 0 \in 0 .. size
    BY DEF TypeOK
  <2>2. StrLen(0) \in 0 .. (size - 0)
    BY <2>1, StrLenFacts
  <2>3. QED
    BY <2>1, <2>2 DEF TypeOK
<1>3. \A k \in 1 .. StrLen(0) : mem[k - 1] \in Int
  BY <1>2
<1>4. result' \in Seq(Int)
  BY <1>1, <1>2, <1>3
<1>5. QED
  BY <1>1, <1>4 DEF TypeOK, Shape

LEMMA CloseBasics ==
  ASSUME TypeOK, Shape, Close
  PROVE  TypeOK' /\ Shape'
<1>1. /\ doing = "nothing" /\ phase' = "closed" /\ client' = {} /\ growable' = FALSE
      /\ size' = 0 /\ mem' = [a \in 0 .. -1 |-> JUNK] /\ cur' = 0
      /\ attempted' = 0 /\ want' = 0 /\ nuls' = {} /\ result' = <<>>
      /\ UNCHANGED <<doing, len, again>>
  BY DEF Close
<1>2. mem' \in [0 .. size' - 1 -> Int]
  BY <1>1 DEF JUNK
<1>3. TypeOK'
  <2>1. /\ phase' \in {"closed", "open", "taken", "overrun"}
        /\ size' \in Nat /\ cur' \in 0 .. size'
        /\ attempted' \in Nat /\ want' \in Nat
        /\ nuls' \subseteq 1 .. MaxText /\ result' \in Seq(Int)
    BY <1>1
  <2>2. /\ doing' \in {"append", "append_value", "appendf", "nothing"}
        /\ len' \in 0 .. MaxPiece /\ again' \in BOOLEAN
    BY <1>1 DEF TypeOK
  <2>3. client' \in Clients \cup {{}} /\ growable' \in BOOLEAN
    BY <1>1, Zenon
  <2>4. QED
    BY <1>2, <2>1, <2>2, <2>3 DEF TypeOK
<1>4. len = 0 /\ ~ again /\ MaxText \in Nat /\ 0 < SizeModulus
  BY <1>1, StrBuilderAssumption DEF Shape
<1>5. QED
  BY <1>1, <1>3, <1>4 DEF Shape

LEMMA NextBasics ==
  ASSUME TypeOK, Shape, [Next]_vars
  PROVE  TypeOK' /\ Shape'
<1>1. ASSUME NEW c \in Clients, NEW n \in FixedSizes, Open(c, FALSE, n)
      PROVE  TypeOK' /\ Shape'
  BY <1>1, OpenBasics, StrBuilderAssumption
<1>2. ASSUME NEW c \in Clients, NEW n \in GrowableSizes, Open(c, TRUE, n)
      PROVE  TypeOK' /\ Shape'
  BY <1>2, OpenBasics, StrBuilderAssumption
<1>3. ASSUME NEW kind \in client, NEW n \in 0 .. MaxPiece, Begin(kind, n)
      PROVE  TypeOK' /\ Shape'
  BY <1>3, BeginBasics
<1>4. CASE UNCHANGED vars
  BY <1>4 DEF vars, TypeOK, Shape
<1>5. QED
  BY <1>1, <1>2, <1>3, <1>4, PassBasics, ToValueBasics, CloseBasics DEF Next

-----------------------------------------------------------------------------
(* A buffer of fixed size *)

(* What a pass does to it: nothing if it is full, or else a piece is       *)
(* written, or as much of it as fits.                                      *)
FixedWrite ==
  /\ Done(len)
  /\ \/ cur = size /\ mem' = mem /\ cur' = size
     \/ /\ cur < size
        /\ mem' = Put(cur, IF len < Room THEN len ELSE Room - 1)
        /\ cur' = IF len < Room THEN cur + len ELSE size

LEMMA FixedSettles ==
  ASSUME TypeOK, ~ growable
  PROVE  /\ cur = size /\ Settle(mem, len) => FixedWrite
         /\ cur < size /\ Settle(Put(cur, IF len < Room THEN len ELSE Room - 1), len)
              => FixedWrite
BY RoomFacts DEF Settle, FixedWrite

LEMMA FixedPass ==
  ASSUME TypeOK, Shape, FixedInv, ~ growable, Pass, phase' = "open"
  PROVE  FixedWrite
<1>1. /\ size \in Nat /\ cur \in Nat /\ cur <= size /\ Room = size - cur
      /\ len \in Nat /\ ~ again /\ phase = "open"
  BY RoomFacts DEF Shape, Pass, AppendPass, AppendfPass, AppendValuePass
<1>2. cur < size => mem[cur] = NUL
  BY <1>1 DEF FixedInv, Holds, Beginning
<1>3. CASE AppendPass
  <2>1. CASE cur = size
    <3>1. StrLen(cur) = Room
      BY <1>1, <2>1, RoomFacts
    <3>2. Settle(mem, len)
      BY <1>1, <1>3, <2>1, <3>1 DEF AppendPass
    <3>3. QED
      BY <2>1, <3>2, FixedSettles
  <2>2. CASE cur < size
    <3>1. cur \in 0 .. size /\ 0 \in 0 .. (size - cur)
          /\ mem[cur + 0] = NUL /\ \A k \in 0 .. (0 - 1) : mem[cur + k] # NUL
      BY <1>1, <1>2, <2>2
    <3>2. StrLen(cur) = 0
      BY <3>1, StrLenIs
    <3>3. /\ StrLen(cur) # Room /\ cur + StrLen(cur) = cur
          /\ StrLen(cur) + len = len /\ Room - StrLen(cur) = Room
      BY <1>1, <2>2, <3>2
    <3>4. Settle(Put(cur, IF len < Room THEN len ELSE Room - 1), len)
      BY <1>3, <3>3 DEF AppendPass
    <3>5. QED
      BY <2>2, <3>4, FixedSettles
  <2>3. QED
    BY <1>1, <2>1, <2>2
<1>4. CASE AppendfPass
  <2>1. IF Room = 0
        THEN Settle(mem, len)
        ELSE Settle(Put(cur, IF len < Room THEN len ELSE Room - 1), len)
    BY <1>1, <1>4 DEF AppendfPass
  <2>2. QED
    BY <1>1, <2>1, FixedSettles
<1>5. CASE AppendValuePass
  <2> DEFINE cut == len + 1 > Room
             copied == IF cut THEN (Room - 1) % SizeModulus ELSE len
  <2>1. /\ cur + copied < size /\ mem' = Put(cur, copied)
        /\ cur' = (IF cut THEN size ELSE cur + len) /\ Done(len)
    BY <1>1, <1>5 DEF AppendValuePass
  <2>2. cut = ~ (len < Room)
    BY <1>1
  <2>3. CASE ~ cut
    BY <1>1, <2>1, <2>2, <2>3 DEF FixedWrite
  <2>4. CASE cut /\ Room = 0
    <3>1. (Room - 1) % SizeModulus \in Nat
      BY <2>4, WrapFacts
    <3>2. QED
      BY <1>1, <2>1, <2>4, <3>1
  <2>5. CASE cut /\ Room # 0
    <3>1. Room - 1 \in Nat /\ Room - 1 < SizeModulus
      BY <1>1, <2>5, StrBuilderAssumption DEF Shape
    <3>2. (Room - 1) % SizeModulus = Room - 1
      BY <3>1, WrapFacts
    <3>3. QED
      BY <1>1, <2>1, <2>2, <2>5, <3>2 DEF FixedWrite
  <2>6. QED
    BY <2>3, <2>4, <2>5
<1>6. QED
  BY <1>3, <1>4, <1>5 DEF Pass

(* A piece written at the end of the text continues it. *)
LEMMA PutExtends ==
  ASSUME TypeOK, Holds(want), NEW k \in Nat, want + k < size,
         ~ (doing = "appendf" /\ again)
  PROVE  /\ \A a \in 0 .. (want + k) - 1 : Put(want, k)[a] = Char(a + 1)
         /\ Put(want, k)[want + k] = NUL
<1>1. want \in Nat /\ size \in Nat
  BY DEF TypeOK
<1>2. /\ \A a \in 0 .. size - 1 :
           /\ a < want => Put(want, k)[a] = mem[a]
           /\ a >= want /\ a < want + k => Put(want, k)[a] = Char(want + (a - want) + 1)
      /\ Put(want, k)[want + k] = NUL
  BY <1>1, PutFacts
<1>3. ASSUME NEW a \in 0 .. (want + k) - 1 PROVE Put(want, k)[a] = Char(a + 1)
  <2>1. a \in 0 .. size - 1 /\ want + (a - want) + 1 = a + 1
    BY <1>1
  <2>2. CASE a < want
    BY <1>1, <1>2, <2>1, <2>2 DEF Holds
  <2>3. CASE a >= want
    BY <1>1, <1>2, <2>1, <2>3
  <2>4. QED
    BY <1>1, <2>1, <2>2, <2>3
<1>4. QED
  BY <1>2, <1>3

(* A write extends the beginning of the text that the buffer holds. *)
LEMMA FixedGrows ==
  ASSUME TypeOK, Shape, FixedInv, ~ growable, phase = "open", FixedWrite
  PROVE  FixedInv'
<1>1. /\ size \in Nat /\ cur \in Nat /\ cur <= size /\ Room = size - cur
      /\ len \in Nat /\ want \in Nat /\ ~ again
  BY RoomFacts DEF Shape
<1>2. /\ attempted = want
      /\ cur = IF want < size THEN want ELSE size
      /\ size > 0 => Holds(Beginning)
  BY DEF FixedInv
<1>3. /\ attempted' = attempted + len /\ want' = want + len
      /\ size' = size /\ nuls' = nuls
  BY DEF FixedWrite, Done
<1>4. \A i : Char(i)' = Char(i)
  BY <1>3 DEF Char
<1>5. CASE cur = size /\ mem' = mem /\ cur' = size
  <2>1. want >= size
    BY <1>1, <1>2, <1>5
  <2>2. Beginning' = Beginning /\ Beginning = size - 1 /\ want' >= size
    BY <1>1, <1>3, <2>1 DEF Beginning
  <2>3. size > 0 => Holds(Beginning)'
    BY <1>2, <1>3, <1>4, <1>5, <2>2 DEF Holds
  <2>4. QED
    BY <1>1, <1>2, <1>3, <1>5, <2>2, <2>3 DEF FixedInv
<1>6. CASE /\ cur < size
           /\ mem' = Put(cur, IF len < Room THEN len ELSE Room - 1)
           /\ cur' = IF len < Room THEN cur + len ELSE size
  <2> DEFINE k == IF len < Room THEN len ELSE Room - 1
  <2>1. cur = want /\ Beginning = want /\ Holds(want)
    BY <1>1, <1>2, <1>6 DEF Beginning
  <2>2. k \in Nat /\ cur + k < size
    BY <1>1, <1>6
  <2>3. Beginning' = want + k
    BY <1>1, <1>3, <1>6, <2>1 DEF Beginning
  <2>4. cur' = IF want' < size THEN want' ELSE size
    BY <1>1, <1>3, <1>6, <2>1
  <2>5. mem' = Put(cur, k)
    BY <1>6
  <2> HIDE DEF k
  <2>6. /\ \A a \in 0 .. (want + k) - 1 : mem'[a] = Char(a + 1)
        /\ mem'[want + k] = NUL
    BY <1>1, <2>1, <2>2, <2>5, PutExtends
  <2>7. Holds(Beginning)'
    BY <1>1, <1>3, <1>4, <2>1, <2>2, <2>3, <2>6 DEF Holds
  <2>8. QED
    BY <1>2, <1>3, <2>4, <2>7 DEF FixedInv
<1>7. QED
  BY <1>5, <1>6 DEF FixedWrite

LEMMA FixedNext ==
  ASSUME TypeOK, Shape, FixedInv, [Next]_vars
  PROVE  FixedInv'
<1>1. ASSUME NEW c \in Clients, NEW g \in BOOLEAN, NEW n \in Nat, Open(c, g, n)
      PROVE  FixedInv'
  <2>1. /\ size' = n /\ cur' = 0 /\ attempted' = 0 /\ want' = 0
        /\ mem' = [a \in 0 .. n - 1 |-> IF a = 0 THEN NUL ELSE JUNK]
    BY <1>1 DEF Open
  <2>2. n > 0 => Holds(0)'
    BY <2>1 DEF Holds
  <2>3. n > 0 => Beginning' = 0
    BY <2>1 DEF Beginning
  <2>4. size' > 0 => Holds(Beginning)'
    BY <2>1, <2>2, <2>3 DEF Holds
  <2>5. QED
    BY <2>1, <2>4 DEF FixedInv
<1>2. ASSUME NEW kind \in client, NEW n \in 0 .. MaxPiece, Begin(kind, n)
      PROVE  FixedInv'
  <2>1. UNCHANGED <<phase, growable, size, mem, cur, attempted, want>>
    BY <1>2 DEF Begin
  <2>2. PICK own \in SUBSET ((want + 1) .. (want + n)) : nuls' = nuls \cup own
    BY <1>2 DEF Begin
  <2>3. want \in Nat /\ size \in Nat /\ Beginning' = Beginning
    BY <2>1 DEF TypeOK, Beginning
  <2>4. \A i \in Int : i <= want => Char(i)' = Char(i)
    BY <2>2, <2>3 DEF Char
  <2>5. size > 0 => Beginning \in Nat /\ Beginning <= want
    BY <2>3 DEF Beginning
  <2>6. size > 0 /\ Holds(Beginning) => Holds(Beginning)'
    BY <2>1, <2>3, <2>4, <2>5 DEF Holds
  <2>7. QED
    BY <2>1, <2>6 DEF FixedInv
<1>3. CASE Pass
  <2>1. CASE ~ growable' /\ phase' = "open"
    <3>1. growable' = growable
      BY <1>3 DEF Pass, AppendPass, AppendfPass, AppendValuePass, Settle, Grow, Done
    <3>2. phase = "open"
      BY <1>3 DEF Pass, AppendPass, AppendfPass, AppendValuePass
    <3>3. QED
      BY <1>3, <2>1, <3>1, <3>2, FixedPass, FixedGrows
  <2>2. CASE ~ (~ growable' /\ phase' = "open")
    BY <2>2 DEF FixedInv
  <2>3. QED
    BY <2>1, <2>2
<1>4. CASE ToValue \/ Close
  BY <1>4 DEF ToValue, Close, FixedInv
<1>5. CASE UNCHANGED vars
  BY <1>5 DEF vars, FixedInv, Holds, Beginning, Char
<1>6. QED
  BY <1>1, <1>2, <1>3, <1>4, <1>5, StrBuilderAssumption DEF Next

-----------------------------------------------------------------------------
(* A growable buffer of Ruby strings *)

(* The pass makes room, or writes the whole piece. *)
LEMMA LabelPass ==
  ASSUME TypeOK, Shape, LabelInv, growable, client = {"append_value"},
         Pass, phase' = "open"
  PROVE  LabelInv'
<1>1. /\ size \in Nat /\ cur \in Nat /\ cur <= size /\ Room = size - cur
      /\ len \in Nat /\ want \in Nat
      /\ mem \in [0 .. size - 1 -> Int]
  BY RoomFacts
<1>2. AppendValuePass /\ phase = "open" /\ doing = "append_value"
  BY DEF Shape, Pass, AppendPass, AppendfPass, AppendValuePass
<1>3. cur = want /\ Holds(want)
  BY <1>2 DEF LabelInv
<1>4. CASE Grow(mem)
  <2>1. /\ size' = size * 2 /\ UNCHANGED <<cur, want, nuls>>
        /\ mem' = [a \in 0 .. size * 2 - 1 |-> IF a < size THEN mem[a] ELSE JUNK]
    BY <1>4 DEF Grow
  <2>2. \A a \in 0 .. size - 1 : mem'[a] = mem[a]
    BY <1>1, <2>1
  <2>3. Holds(want)'
    BY <1>1, <1>3, <2>1, <2>2 DEF Holds, Char
  <2>4. QED
    BY <1>3, <2>1, <2>3 DEF LabelInv
<1>5. CASE mem' = Put(cur, len) /\ len < Room /\ cur' = cur + len /\ Done(len)
  <2>1. want' = want + len /\ size' = size /\ nuls' = nuls
    BY <1>5 DEF Done
  <2>2. /\ \A a \in 0 .. (want + len) - 1 : mem'[a] = Char(a + 1)
        /\ mem'[want + len] = NUL
    BY <1>1, <1>2, <1>3, <1>5, PutExtends
  <2>3. Holds(want)'
    BY <1>1, <1>3, <1>5, <2>1, <2>2 DEF Holds, Char
  <2>4. QED
    BY <1>3, <1>5, <2>1, <2>3 DEF LabelInv
<1>6. QED
  BY <1>1, <1>2, <1>4, <1>5 DEF AppendValuePass

(* What is returned: the text up to its first NUL. *)
LEMMA LabelTaken ==
  ASSUME TypeOK, Shape, LabelInv, client = {"append_value"}, ToValue
  PROVE  LabelsAreWhole'
<1> DEFINE n == IF nuls = {} THEN want ELSE Min(nuls) - 1
<1>1. /\ result' = [k \in 1 .. StrLen(0) |-> mem[k - 1]]
      /\ UNCHANGED <<want, nuls>>
      /\ Holds(want) /\ nuls \subseteq 1 .. want /\ want \in Nat /\ size \in Nat
  BY DEF ToValue, LabelInv, Shape, TypeOK
<1>2. nuls # {} => Min(nuls) \in nuls /\ \A y \in nuls : Min(nuls) <= y
  BY <1>1, MinOfNaturals
<1>3. /\ n \in 0 .. want /\ mem[n] = NUL
      /\ \A k \in 1 .. n : k \notin nuls
  <2>1. CASE nuls = {}
    BY <1>1, <2>1 DEF Holds
  <2>2. CASE nuls # {}
    <3>0. Min(nuls) \in 1 .. want
      BY <1>1, <1>2, <2>2, Zenon
    <3>1. Min(nuls) \in 1 .. want /\ n = Min(nuls) - 1 /\ n + 1 = Min(nuls)
      BY <2>2, <3>0
    <3>2. mem[n] = Char(n + 1)
      BY <1>1, <3>1 DEF Holds
    <3>3. mem[n] = NUL
      BY <1>2, <2>2, <3>1, <3>2 DEF Char
    <3>4. \A k \in 1 .. n : k \notin nuls
      BY <1>1, <1>2, <2>2, <3>1
    <3>5. QED
      BY <1>1, <3>1, <3>3, <3>4
  <2>3. QED
    BY <2>1, <2>2
<1> HIDE DEF n
<1>4. \A k \in 1 .. n : mem[k - 1] = k
  BY <1>1, <1>3 DEF Holds, Char
<1>5. StrLen(0) = n
  <2>1. /\ 0 \in 0 .. size /\ n \in 0 .. (size - 0) /\ mem[0 + n] = NUL
        /\ \A k \in 0 .. (n - 1) : mem[0 + k] # NUL
    BY <1>1, <1>3, <1>4 DEF Holds, NUL
  <2>2. QED
    BY <2>1, StrLenIs
<1>6. result' = [k \in 1 .. n |-> k]
  BY <1>1, <1>3, <1>4, <1>5
<1>7. QED
  BY <1>1, <1>6 DEF LabelsAreWhole, n

LEMMA LabelNext ==
  ASSUME TypeOK, Shape, LabelInv, LabelsAreWhole, [Next]_vars
  PROVE  LabelInv' /\ LabelsAreWhole'
<1>1. ASSUME NEW c \in Clients, NEW n \in GrowableSizes, Open(c, TRUE, n)
      PROVE  LabelInv' /\ LabelsAreWhole'
  <2>1. /\ phase' = "open" /\ size' = n /\ cur' = 0 /\ want' = 0
        /\ mem' = [a \in 0 .. n - 1 |-> IF a = 0 THEN NUL ELSE JUNK]
    BY <1>1 DEF Open
  <2>2. Holds(want)'
    BY <1>1, <2>1, StrBuilderAssumption DEF Holds
  <2>3. QED
    BY <2>1, <2>2 DEF LabelInv, LabelsAreWhole
<1>2. ASSUME NEW c \in Clients, NEW n \in FixedSizes, Open(c, FALSE, n)
      PROVE  LabelInv' /\ LabelsAreWhole'
  BY <1>2 DEF Open, LabelInv, LabelsAreWhole
<1>3. ASSUME NEW kind \in client, NEW n \in 0 .. MaxPiece, Begin(kind, n)
      PROVE  LabelInv' /\ LabelsAreWhole'
  <2>1. phase = "open" /\ UNCHANGED <<phase, client, growable, size, mem, cur, want>>
    BY <1>3 DEF Begin
  <2>2. PICK own \in SUBSET ((want + 1) .. (want + n)) : nuls' = nuls \cup own
    BY <1>3 DEF Begin
  <2>3. want \in Nat
    BY DEF TypeOK
  <2>4. \A i \in Int : i <= want => Char(i)' = Char(i)
    BY <2>2, <2>3 DEF Char
  <2>5. Holds(want) => Holds(want)'
    BY <2>1, <2>3, <2>4 DEF Holds
  <2>6. QED
    BY <2>1, <2>5 DEF LabelInv, LabelsAreWhole
<1>4. CASE Pass
  <2>1. /\ client' = client /\ growable' = growable /\ phase' # "taken"
    BY <1>4 DEF Pass, AppendPass, AppendfPass, AppendValuePass, Settle, Grow, Done
  <2>2. QED
    BY <1>4, <2>1, LabelPass DEF LabelInv, LabelsAreWhole
<1>5. CASE ToValue
  <2>1. phase' = "taken" /\ client' = client
    BY <1>5 DEF ToValue
  <2>2. QED
    BY <1>5, <2>1, LabelTaken DEF LabelInv, LabelsAreWhole
<1>6. CASE Close
  BY <1>6 DEF Close, LabelInv, LabelsAreWhole
<1>7. CASE UNCHANGED vars
  <2>1. UNCHANGED <<phase, client, growable, size, mem, cur, want, nuls, result>>
    BY <1>7 DEF vars
  <2>2. LabelInv'
    BY <2>1 DEF LabelInv, Holds, Char
  <2>3. LabelsAreWhole'
    BY <2>1, Zenon DEF LabelsAreWhole
  <2>4. QED
    BY <2>2, <2>3
<1>8. QED
  BY <1>1, <1>2, <1>3, <1>4, <1>5, <1>6, <1>7 DEF Next

-----------------------------------------------------------------------------
(* A growable buffer that takes C strings too *)

(* A piece without NULs, written at the end of a string, lengthens it. *)
LEMMA PutLengthens ==
  ASSUME TypeOK, nuls = {}, doing # "appendf",
         NEW here \in Nat, NEW k \in Nat, here + k < size,
         \A a \in 0 .. (here - 1) : mem[a] # NUL
  PROVE  /\ \A a \in 0 .. (here - 1) : Put(here, k)[a] = mem[a]
         /\ \A a \in 0 .. (here + k - 1) : Put(here, k)[a] # NUL
         /\ k > 0 => Put(here, k)[here + k - 1] = want + k
         /\ Put(here, k)[here + k] = NUL
<1>1. want \in Nat /\ size \in Nat
  BY DEF TypeOK
<1>2. /\ \A a \in 0 .. size - 1 :
           /\ a < here => Put(here, k)[a] = mem[a]
           /\ a >= here /\ a < here + k => Put(here, k)[a] = Char(want + (a - here) + 1)
      /\ Put(here, k)[here + k] = NUL
  BY PutFacts
<1>3. \A i : Char(i) = i
  BY DEF Char
<1>4. ASSUME NEW a \in 0 .. (here + k - 1) PROVE Put(here, k)[a] # NUL
  <2>1. a \in 0 .. size - 1
    BY <1>1
  <2>2. CASE a < here
    BY <1>2, <2>1, <2>2
  <2>3. CASE a >= here
    <3>1. Put(here, k)[a] = want + (a - here) + 1
      BY <1>2, <1>3, <2>1, <2>3
    <3>2. want + (a - here) + 1 > 0
      BY <1>1, <2>3
    <3>3. QED
      BY <3>1, <3>2 DEF NUL
  <2>4. QED
    BY <2>2, <2>3
<1>5. k > 0 => Put(here, k)[here + k - 1] = want + k
  <2> SUFFICES ASSUME k > 0 PROVE Put(here, k)[here + k - 1] = want + k
    OBVIOUS
  <2>1. /\ here + k - 1 \in 0 .. size - 1 /\ here + k - 1 >= here
        /\ here + k - 1 < here + k
        /\ want + ((here + k - 1) - here) + 1 = want + k
    BY <1>1
  <2>2. Put(here, k)[here + k - 1] = Char(want + ((here + k - 1) - here) + 1)
    BY <1>2, <2>1
  <2>3. QED
    BY <1>3, <2>1, <2>2
<1>6. \A a \in 0 .. (here - 1) : Put(here, k)[a] = mem[a]
  BY <1>1, <1>2
<1>7. QED
  BY <1>2, <1>4, <1>5, <1>6

(* The string that ends at the write pointer once the append returns. *)
LEMMA TextWritten ==
  ASSUME TypeOK, TextInv, phase = "open", growable, "appendf" \notin client,
         nuls = {}, doing # "appendf", NEW t \in Nat, LeftOver(t),
         cur + t + len < size, mem' = Put(cur + t, len), cur' = cur + t + len,
         Done(t + len)
  PROVE  TextInv'
<1>1. /\ size \in Nat /\ cur \in Nat /\ len \in Nat /\ want \in Nat
      /\ attempted = cur
      /\ want > 0 => cur > 0 /\ mem[cur - 1] = want
  BY RoomFacts DEF TextInv
<1>2. /\ attempted' = attempted + (t + len) /\ want' = want + len
      /\ doing' = "nothing" /\ size' = size
  BY DEF Done
<1> DEFINE here == cur + t
<1>3. /\ here \in Nat /\ here + len < size /\ cur' = here + len
      /\ mem' = Put(here, len)
      /\ \A a \in 0 .. (here - 1) : mem[a] # NUL
      /\ t > 0 => len > 0
  BY <1>1 DEF LeftOver
<1> HIDE DEF here
<1>4. /\ \A a \in 0 .. (here - 1) : mem'[a] = mem[a]
      /\ \A a \in 0 .. (here + len - 1) : mem'[a] # NUL
      /\ len > 0 => mem'[here + len - 1] = want + len
      /\ mem'[here + len] = NUL
  BY <1>1, <1>3, PutLengthens
<1>5. want' > 0 => cur' > 0 /\ mem'[cur' - 1] = want'
  <2>1. CASE len > 0
    BY <1>1, <1>2, <1>3, <1>4, <2>1
  <2>2. CASE len = 0
    <3>1. t = 0 /\ here = cur /\ cur' = cur /\ want' = want
      BY <1>1, <1>2, <1>3, <2>2 DEF here
    <3>2. cur > 0 => cur - 1 \in 0 .. (here - 1)
      BY <1>1, <3>1
    <3>3. QED
      BY <1>1, <1>4, <3>1, <3>2
  <2>3. QED
    BY <1>1, <2>1, <2>2
<1>6. LeftOver(0)'
  BY <1>1, <1>3, <1>4 DEF LeftOver
<1>7. 0 \in 0 .. (size' - cur' - 1) /\ attempted' = cur' /\ cur' < size'
  BY <1>1, <1>2, <1>3 DEF here
<1>8. \E u \in 0 .. (size' - cur' - 1) : LeftOver(u)'
  BY <1>6, <1>7
<1>9. QED
  BY <1>5, <1>7, <1>8 DEF TextInv, LeftOver

(* The string, and what the pass left behind the write pointer, once the   *)
(* buffer has grown.                                                       *)
LEMMA TextMovesOver ==
  ASSUME TypeOK, attempted = cur, cur < size,
         NEW m \in [0 .. size - 1 -> Int], NEW t \in 0 .. (size - cur - 1),
         m[cur + t] = NUL, \A a \in 0 .. (cur + t - 1) : m[a] # NUL,
         t > 0 => doing = "append" /\ len > 0,
         want > 0 => cur > 0 /\ m[cur - 1] = want,
         Grow(m)
  PROVE  TextInv'
<1>1. size \in Nat /\ cur \in Nat
  BY RoomFacts
<1>2. /\ size' = size * 2 /\ UNCHANGED <<cur, attempted, want, doing, len>>
      /\ mem' = [a \in 0 .. size * 2 - 1 |-> IF a < size THEN m[a] ELSE JUNK]
  BY DEF Grow
<1>3. \A a \in 0 .. size - 1 : mem'[a] = m[a]
  BY <1>1, <1>2
<1>4. /\ cur + t \in 0 .. size - 1
      /\ \A a \in 0 .. (cur + t - 1) : a \in 0 .. size - 1
      /\ cur > 0 => cur - 1 \in 0 .. size - 1
  BY <1>1
<1>5. LeftOver(t)'
  <2>1. mem'[cur' + t] = NUL /\ \A a \in 0 .. (cur' + t - 1) : mem'[a] # NUL
    BY <1>2, <1>3, <1>4
  <2>2. QED
    BY <1>2, <2>1 DEF LeftOver
<1>6. t \in 0 .. (size' - cur' - 1) /\ attempted' = cur' /\ cur' < size'
  BY <1>1, <1>2
<1>7. want' > 0 => cur' > 0 /\ mem'[cur' - 1] = want'
  BY <1>2, <1>3, <1>4
<1>8. QED
  BY <1>5, <1>6, <1>7 DEF TextInv, LeftOver

LEMMA TextPass ==
  ASSUME TypeOK, Shape, TextInv, growable, "appendf" \notin client, nuls = {},
         Pass, phase' = "open"
  PROVE  TextInv'
<1>1. /\ size \in Nat /\ cur \in Nat /\ Room = size - cur
      /\ len \in Nat /\ want \in Nat /\ mem \in [0 .. size - 1 -> Int]
  BY RoomFacts
<1>2. phase = "open"
  BY DEF Pass, AppendPass, AppendfPass, AppendValuePass
<1>3. /\ attempted = cur /\ cur < size
      /\ want > 0 => cur > 0 /\ mem[cur - 1] = want
  BY <1>2 DEF TextInv
<1>4. PICK t \in 0 .. (size - cur - 1) : LeftOver(t)
  BY <1>2 DEF TextInv
<1>5. /\ mem[cur + t] = NUL
      /\ t > 0 => doing = "append" /\ len > 0
      /\ \A a \in 0 .. (cur + t - 1) : mem[a] # NUL
  BY <1>4 DEF LeftOver
<1>6. CASE AppendPass
  <2> DEFINE here == cur + t
             fits == IF len < Room - t THEN len ELSE Room - t - 1
             m    == Put(here, fits)
  <2>1. StrLen(cur) = t /\ t # Room
    <3>1. /\ cur \in 0 .. size /\ t \in 0 .. (size - cur)
          /\ \A k \in 0 .. (t - 1) : mem[cur + k] # NUL
      BY <1>1, <1>3, <1>5
    <3>2. StrLen(cur) = t
      BY <1>5, <3>1, StrLenIs
    <3>3. QED
      BY <1>1, <3>2
  <2>2. Settle(m, t + len) /\ doing = "append"
    BY <1>6, <2>1 DEF AppendPass
  <2>3. fits \in Nat /\ here \in Nat /\ here + fits < size
    BY <1>1
  <2>4. CASE t + len >= Room /\ Grow(m)
    <3>1. fits = Room - t - 1 /\ len > 0 /\ here + fits = cur + (t + fits)
          /\ t + fits \in 0 .. (size - cur - 1) /\ here + fits = size - 1
          /\ cur + (t + fits) - 1 = here + fits - 1
      BY <1>1, <2>4
    <3> HIDE DEF fits, here
    <3>2. \A a \in 0 .. (here - 1) : mem[a] # NUL
      BY <1>1, <1>5 DEF here
    <3>3. /\ m \in [0 .. size - 1 -> Int]
          /\ \A a \in 0 .. (here - 1) : m[a] = mem[a]
          /\ \A a \in 0 .. (here + fits - 1) : m[a] # NUL
          /\ m[here + fits] = NUL
      BY <2>2, <2>3, <3>2, PutFacts, PutLengthens
    <3> HIDE DEF m
    <3>4. want > 0 => cur > 0 /\ m[cur - 1] = want
      BY <1>1, <1>3, <3>3 DEF here
    <3>5. /\ m[cur + (t + fits)] = NUL
          /\ \A a \in 0 .. (cur + (t + fits) - 1) : m[a] # NUL
      BY <3>1, <3>3, Zenon
    <3>6. QED
      BY <1>3, <2>2, <2>4, <3>1, <3>3, <3>4, <3>5, TextMovesOver
  <2>5. CASE t + len < Room /\ mem' = m /\ cur' = cur + (t + len) /\ Done(t + len)
    <3>1. fits = len /\ t \in Nat /\ cur' = cur + t + len /\ cur + t + len < size
      BY <1>1, <2>5
    <3>2. mem' = Put(cur + t, len)
      BY <2>5, <3>1
    <3>3. doing # "appendf"
      BY <2>2
    <3>4. QED
      BY <1>2, <1>4, <2>5, <3>1, <3>2, <3>3, TextWritten
  <2>6. QED
    <3>1. t + len \in Nat /\ Room \in Int
      BY <1>1
    <3>2. QED
      BY <2>2, <2>4, <2>5, <3>1 DEF Settle
<1>7. CASE AppendValuePass
  <2>1. doing = "append_value" /\ t = 0
    BY <1>5, <1>7 DEF AppendValuePass
  <2>2. CASE Grow(mem)
    BY <1>3, <1>1, <1>5, <2>2, TextMovesOver
  <2>3. CASE mem' = Put(cur, len) /\ len < Room /\ cur' = cur + len /\ Done(len)
    <3>1. /\ cur + t = cur /\ cur + t + len < size /\ cur' = cur + t + len
          /\ t + len = len /\ t \in Nat
      BY <1>1, <2>1, <2>3
    <3>2. doing # "appendf"
      BY <2>1
    <3>3. QED
      BY <1>2, <1>4, <2>3, <3>1, <3>2, TextWritten
  <2>4. QED
    BY <1>1, <1>2, <1>7, <2>2, <2>3 DEF AppendValuePass
<1>8. ~ AppendfPass
  BY DEF AppendfPass, Shape
<1>9. QED
  BY <1>6, <1>7, <1>8 DEF Pass

(* The whole string, and nothing else, is what is returned of it. *)
LEMMA TextTaken ==
  ASSUME TypeOK, Shape, TextInv, "appendf" \notin client, nuls = {}, ToValue
  PROVE  GrowableEndsWithText'
<1>1. /\ phase = "open" /\ growable /\ doing = "nothing"
      /\ result' = [k \in 1 .. StrLen(0) |-> mem[k - 1]]
      /\ UNCHANGED <<attempted, want>>
  BY DEF ToValue
<1>2. /\ size \in Nat /\ cur \in Nat /\ cur < size /\ attempted = cur
      /\ want > 0 => cur > 0 /\ mem[cur - 1] = want
  BY <1>1, RoomFacts DEF TextInv
<1>3. PICK t \in 0 .. (size - cur - 1) : LeftOver(t)
  BY <1>1 DEF TextInv
<1>4. t = 0
  BY <1>1, <1>3 DEF LeftOver
<1>5. StrLen(0) = cur
  <2>1. /\ 0 \in 0 .. size /\ cur \in 0 .. (size - 0) /\ mem[0 + cur] = NUL
        /\ \A k \in 0 .. (cur - 1) : mem[0 + k] # NUL
    BY <1>2, <1>3, <1>4 DEF LeftOver
  <2>2. QED
    BY <2>1, StrLenIs
<1>6. Len(result') = attempted'
  BY <1>1, <1>2, <1>5
<1>7. want' > 0 => Len(result') > 0 /\ result'[Len(result')] = want'
  BY <1>1, <1>2, <1>5, <1>6
<1>8. QED
  BY <1>6, <1>7 DEF GrowableEndsWithText

LEMMA TextNext ==
  ASSUME TypeOK, Shape, TextInv, GrowableEndsWithText, [Next]_vars
  PROVE  TextInv' /\ GrowableEndsWithText'
<1>1. ASSUME NEW c \in Clients, NEW n \in GrowableSizes, Open(c, TRUE, n)
      PROVE  TextInv' /\ GrowableEndsWithText'
  <2>1. /\ phase' = "open" /\ size' = n /\ cur' = 0 /\ want' = 0 /\ attempted' = 0
        /\ mem' = [a \in 0 .. n - 1 |-> IF a = 0 THEN NUL ELSE JUNK]
        /\ n \in Nat /\ n > 0
    BY <1>1, StrBuilderAssumption DEF Open
  <2>2. LeftOver(0)'
    BY <2>1 DEF LeftOver
  <2>3. \E t \in 0 .. (size' - cur' - 1) : LeftOver(t)'
    BY <2>1, <2>2
  <2>4. TextInv'
    BY <2>1, <2>3 DEF TextInv, LeftOver
  <2>5. QED
    BY <2>1, <2>4 DEF GrowableEndsWithText
<1>2. ASSUME NEW c \in Clients, NEW n \in FixedSizes, Open(c, FALSE, n)
      PROVE  TextInv' /\ GrowableEndsWithText'
  BY <1>2 DEF Open, TextInv, GrowableEndsWithText
<1>3. ASSUME NEW kind \in client, NEW n \in 0 .. MaxPiece, Begin(kind, n)
      PROVE  TextInv' /\ GrowableEndsWithText'
  <2>1. /\ phase = "open" /\ doing = "nothing"
        /\ UNCHANGED <<phase, client, growable, size, mem, cur, attempted, want>>
        /\ nuls' = {} => nuls = {}
    BY <1>3 DEF Begin
  <2>2. GrowableEndsWithText'
    BY <2>1 DEF GrowableEndsWithText
  <2>3. CASE growable /\ "appendf" \notin client /\ nuls = {}
    <3>1. PICK t \in 0 .. (size - cur - 1) : LeftOver(t)
      BY <2>1, <2>3 DEF TextInv
    <3>2. t = 0
      BY <2>1, <3>1 DEF LeftOver
    <3>3. LeftOver(0)'
      BY <2>1, <3>1, <3>2 DEF LeftOver
    <3>4. \E u \in 0 .. (size' - cur' - 1) : LeftOver(u)'
      BY <2>1, <3>1, <3>2, <3>3
    <3>5. /\ attempted = cur /\ cur < size
          /\ want > 0 => cur > 0 /\ mem[cur - 1] = want
      BY <2>1, <2>3 DEF TextInv
    <3>6. TextInv'
      BY <2>1, <3>4, <3>5 DEF TextInv, LeftOver
    <3>7. QED
      BY <2>2, <3>6
  <2>4. CASE ~ (growable /\ "appendf" \notin client /\ nuls = {})
    <3>1. TextInv'
      BY <2>1, <2>4 DEF TextInv
    <3>2. QED
      BY <2>2, <3>1
  <2>5. QED
    BY <2>3, <2>4
<1>4. CASE Pass
  <2>1. /\ client' = client /\ growable' = growable /\ nuls' = nuls
        /\ phase' # "taken"
    BY <1>4 DEF Pass, AppendPass, AppendfPass, AppendValuePass, Settle, Grow, Done
  <2>2. CASE growable /\ "appendf" \notin client /\ nuls = {} /\ phase' = "open"
    BY <1>4, <2>1, <2>2, TextPass DEF GrowableEndsWithText
  <2>3. CASE ~ (growable /\ "appendf" \notin client /\ nuls = {} /\ phase' = "open")
    BY <2>1, <2>3 DEF TextInv, GrowableEndsWithText
  <2>4. QED
    BY <2>2, <2>3
<1>5. CASE ToValue
  <2>1. phase' = "taken" /\ client' = client /\ nuls' = nuls
    BY <1>5 DEF ToValue
  <2>2. TextInv'
    BY <2>1 DEF TextInv
  <2>3. GrowableEndsWithText'
    BY <1>5, <2>1, TextTaken DEF GrowableEndsWithText
  <2>4. QED
    BY <2>2, <2>3
<1>6. CASE Close
  BY <1>6 DEF Close, TextInv, GrowableEndsWithText
<1>7. CASE UNCHANGED vars
  <2>1. UNCHANGED <<phase, client, growable, size, mem, cur, attempted, want, nuls,
                    doing, len, result>>
    BY <1>7 DEF vars
  <2>2. GrowableEndsWithText'
    BY <2>1, Zenon DEF GrowableEndsWithText
  <2>3. TextInv'
    BY <2>1, Zenon DEF TextInv, LeftOver
  <2>4. QED
    BY <2>2, <2>3
<1>8. QED
  BY <1>1, <1>2, <1>3, <1>4, <1>5, <1>6, <1>7 DEF Next

-----------------------------------------------------------------------------
(* The theorems *)

LEMMA InitIInv == Init => IInv
<1> SUFFICES ASSUME Init PROVE IInv
  OBVIOUS
<1>1. /\ phase = "closed" /\ client = {} /\ growable = FALSE /\ size = 0
      /\ mem = [a \in 0 .. -1 |-> JUNK] /\ cur = 0 /\ attempted = 0
      /\ want = 0 /\ nuls = {} /\ doing = "nothing" /\ len = 0 /\ again = FALSE
      /\ result = <<>>
  BY DEF Init
<1>2. MaxText \in Nat /\ MaxPiece \in Nat /\ 0 < SizeModulus
  BY StrBuilderAssumption
<1>3. TypeOK
  <2>1. client \in Clients \cup {{}} /\ growable \in BOOLEAN /\ again \in BOOLEAN
    BY <1>1, Zenon
  <2>2. mem \in [0 .. size - 1 -> Int]
    BY <1>1 DEF JUNK
  <2>3. /\ size \in Nat /\ cur \in 0 .. size /\ attempted \in Nat /\ want \in Nat
        /\ nuls \subseteq 1 .. MaxText /\ len \in 0 .. MaxPiece /\ result \in Seq(Int)
    BY <1>1, <1>2
  <2>4. QED
    BY <1>1, <2>1, <2>2, <2>3 DEF TypeOK
<1>4. Shape
  BY <1>1, <1>2 DEF Shape
<1>5. FixedInv /\ LabelInv /\ LabelsAreWhole /\ TextInv /\ GrowableEndsWithText
  BY <1>1 DEF FixedInv, LabelInv, LabelsAreWhole, TextInv, GrowableEndsWithText
<1>6. QED
  BY <1>3, <1>4, <1>5 DEF IInv

(* The inductive invariant holds in every state the builder can be in. *)
THEOREM Invariance == Spec => []IInv
<1>1. Init => IInv
  BY InitIInv
<1>2. IInv /\ [Next]_vars => IInv'
  BY NextBasics, FixedNext, LabelNext, TextNext DEF IInv
<1>3. QED
  BY <1>1, <1>2, PTL DEF Spec

(* The write pointer never leaves the buffer and everything has its type. *)
THEOREM TypeCorrect == Spec => []TypeOK
<1>1. IInv => TypeOK
  BY DEF IInv
<1>2. QED
  BY <1>1, Invariance, PTL

(* Between two appends a buffer of fixed size, of any size, holds the text *)
(* or the longest beginning of it that leaves room for the NUL, and what   *)
(* is counted is the whole text: the semantics of snprintf, kept by        *)
(* strlcat, vsnprintf and the memcpy of strbuilder_append_value alike.     *)
THEOREM FixedIsSnprintf == Spec => []FixedHoldsBeginning
<1>1. IInv => FixedHoldsBeginning
  BY DEF IInv, FixedInv, FixedHoldsBeginning, Beginning
<1>2. QED
  BY <1>1, Invariance, PTL

(* A label or a file name comes back whole, up to its first NUL, however   *)
(* often the buffer it was put together in had to grow.                    *)
THEOREM LabelsComeBackWhole == Spec => []LabelsAreWhole
<1>1. IInv => LabelsAreWhole
  BY DEF IInv
<1>2. QED
  BY <1>1, Invariance, PTL

(* What strbuilder_append puts into a growable buffer is never cut off at  *)
(* the end: the count is the string's, and its last character the text's.  *)
THEOREM GrowableIsNotCut == Spec => []GrowableEndsWithText
<1>1. IInv => GrowableEndsWithText
  BY DEF IInv
<1>2. QED
  BY <1>1, Invariance, PTL
=============================================================================
