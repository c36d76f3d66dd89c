----------------------------- MODULE StrBuilder -----------------------------
(***************************************************************************)
(* strbuilder.c: the string builder every name, label and file name goes   *)
(* through, over a caller's buffer of fixed size or a growable one of its  *)
(* own.  One step of this module is one pass of a function's retry loop.   *)
(*                                                                         *)
(* Characters are identified by their place in the text that was asked     *)
(* for: the first character ever appended is 1, the next one 2, and so on. *)
(* A correct buffer therefore holds 1, 2, 3, ..., NUL.  A Ruby string, and *)
(* so a method's name, may have NULs of its own in it.                     *)
(***************************************************************************)
EXTENDS Integers, Sequences, FiniteSets, FiniteSetsExt

CONSTANTS
  FixedSizes,   \* the buffer sizes callers pass in
  GrowableSizes,\* the initial sizes of the builders that grow
  Clients,      \* for each kind of client, the append functions it uses
  SizeModulus,  \* size_t wraps at this number
  MaxNuls,      \* bound: how many NULs there are in the text
  MaxPiece,     \* bound: the longest piece appended
  MaxText       \* bound: the longest text asked for

NUL == 0        \* the terminator
JUNK == -1      \* memory nobody wrote
GARBAGE == -2   \* what vsnprintf prints from arguments already consumed

ASSUME StrBuilderAssumption ==
  /\ FixedSizes \subseteq Nat
  /\ GrowableSizes \subseteq Nat \ {0}
  /\ Clients \subseteq SUBSET {"append", "append_value", "appendf"}
  /\ MaxNuls \in Nat /\ MaxPiece \in Nat /\ MaxText \in Nat
  /\ SizeModulus \in Nat \ {0}
  /\ \A s \in FixedSizes : s < SizeModulus

VARIABLES
  phase,      \* closed, open, taken, or overrun once a write left the buffer
  client,     \* who has it open: the append functions it uses
  growable,   \* strbuilder_init_growable or strbuilder_init
  size,       \* original_bufsize
  mem,        \* original_buf[0 .. size - 1]
  cur,        \* curr_ptr - original_buf
  attempted,  \* attempted_size
  want,       \* the length of the text asked for so far
  nuls,       \* ... and where it has NULs of its own
  doing,      \* the append function that is running
  len,        \* ... the length of its piece
  again,      \* ... whether it has been through its retry label
  result      \* what strbuilder_to_value returned

vars == <<phase, client, growable, size, mem, cur, attempted, want, nuls, doing,
          len, again, result>>

-----------------------------------------------------------------------------
(* max_writesize *)
Room == size - cur

(* strlen of the C string at offset from, cut at the end of the buffer. *)
StrLen(from) ==
  LET ends == {k \in 0 .. (size - from) : k = size - from \/ mem[from + k] = NUL}
  IN  Min(ends)

(* The character at place k of the text. *)
Char(k) == IF k \in nuls THEN NUL ELSE k

(* The buffer once k characters of the piece, and a NUL, are written at at. *)
Put(at, k) ==
  [a \in 0 .. size - 1 |->
     IF a >= at /\ a < at + k
     THEN IF doing = "appendf" /\ again THEN GARBAGE ELSE Char(want + (a - at) + 1)
     ELSE IF a = at + k THEN NUL ELSE mem[a]]

(* Mutants: malloc in place of realloc, and the size left as it was. *)
Grow_Malloc(m) ==
  /\ size' = size * 2
  /\ mem' = [a \in 0 .. size * 2 - 1 |-> JUNK]
  /\ again' = TRUE
  /\ UNCHANGED <<phase, client, growable, cur, attempted, want, nuls, doing, len,
                 result>>

Grow_SameSize(m) ==
  /\ mem' = m
  /\ again' = TRUE
  /\ UNCHANGED <<phase, client, growable, size, cur, attempted, want, nuls, doing,
                 len, result>>

(* strbuilder_grow, given the contents m: twice the room, same offset. *)
Grow(m) ==
  /\ size' = size * 2
  /\ mem' = [a \in 0 .. size * 2 - 1 |-> IF a < size THEN m[a] ELSE JUNK]
  /\ again' = TRUE
  /\ UNCHANGED <<phase, client, growable, cur, attempted, want, nuls, doing, len,
                 result>>

(* The append returns, having counted n characters. *)
Done(n) ==
  /\ attempted' = attempted + n
  /\ want' = want + len
  /\ doing' = "nothing" /\ len' = 0 /\ again' = FALSE
  /\ UNCHANGED <<phase, client, growable, size, nuls, result>>

(* Mutants: curr_ptr moves past the end, and a growable buffer is cut. *)
Settle_PastEnd(m, n) ==
  IF n >= Room /\ growable
  THEN Grow(m)
  ELSE mem' = m /\ cur' = cur + n /\ Done(n)

Settle_NoRetry(m, n) ==
  mem' = m /\ cur' = (IF n >= Room THEN size ELSE cur + n) /\ Done(n)

(* The end of strbuilder_append and strbuilder_appendf: m is the buffer    *)
(* after the C library's call and n the length it reported.                *)
Settle(m, n) ==
  IF n >= Room
  THEN \/ growable /\ Grow(m)
       \/ ~ growable /\ mem' = m /\ cur' = size /\ Done(n)
  ELSE mem' = m /\ cur' = cur + n /\ Done(n)

Init ==
  /\ phase = "closed" /\ client = {} /\ growable = FALSE /\ size = 0
  /\ mem = [a \in 0 .. -1 |-> JUNK] /\ cur = 0 /\ attempted = 0
  /\ want = 0 /\ nuls = {} /\ doing = "nothing" /\ len = 0 /\ again = FALSE /\ result = <<>>

-----------------------------------------------------------------------------
(* strbuilder_init and strbuilder_init_growable *)
Open(c, g, n) ==
  /\ phase = "closed"
  /\ phase' = "open" /\ client' = c /\ growable' = g
  /\ size' = n
  /\ mem' = [a \in 0 .. n - 1 |-> IF a = 0 THEN NUL ELSE JUNK]
  /\ cur' = 0 /\ attempted' = 0 /\ want' = 0 /\ nuls' = {} /\ result' = <<>>
  /\ UNCHANGED <<doing, len, again>>

(* The client appends a piece of n characters.  Only Ruby strings, which   *)
(* carry their length, can have NULs among them.                           *)
Begin(kind, n) ==
  /\ phase = "open" /\ doing = "nothing"
  /\ want + n <= MaxText
  /\ doing' = kind /\ len' = n
  /\ \E own \in SUBSET ((want + 1) .. (want + n)) :
       /\ kind # "append_value" => own = {}
       /\ Cardinality(nuls \cup own) <= MaxNuls
       /\ nuls' = nuls \cup own
  /\ UNCHANGED <<phase, client, growable, size, mem, cur, attempted, want, again,
                 result>>

(* Mutant: no room left for the NUL, as with strncat. *)
AppendPass_NoTerminator ==
  /\ phase = "open" /\ doing = "append"
  /\ LET fits == IF len < Room THEN len ELSE Room
     IN  Settle(Put(cur, fits), len)

(* strbuilder_append: strlcat writes after the string that is already at   *)
(* curr_ptr, and its result counts that string too.                        *)
AppendPass ==
  /\ phase = "open" /\ doing = "append"
  /\ LET there == StrLen(cur)
         fits  == IF len < Room - there THEN len ELSE Room - there - 1
     IN  IF there = Room
         THEN Settle(mem, Room + len)
         ELSE Settle(Put(cur + there, fits), there + len)

(* strbuilder_appendf: a second pass formats from the same va_list, whose  *)
(* arguments are gone: any length and any characters may come of it.       *)
AppendfPass ==
  /\ phase = "open" /\ doing = "appendf"
  /\ \E n \in IF again THEN 0 .. MaxPiece ELSE {len} :
       IF Room = 0
       THEN Settle(mem, n)
       ELSE Settle(Put(cur, IF n < Room THEN n ELSE Room - 1), n)

(* strbuilder_append_value: memcpy of what fits, in size_t arithmetic. *)
AppendValuePass ==
  /\ phase = "open" /\ doing = "append_value"
  /\ LET cut    == len + 1 > Room
         copied == IF cut THEN (Room - 1) % SizeModulus ELSE len
     IN  \/ /\ cut /\ growable
            /\ Grow(mem)
         \/ /\ ~ (cut /\ growable)
            /\ cur + copied >= size
            /\ phase' = "overrun"
            /\ UNCHANGED <<client, growable, size, mem, cur, attempted, want,
                           nuls, doing, len, again, result>>
         \/ /\ ~ (cut /\ growable)
            /\ cur + copied < size
            /\ mem' = Put(cur, copied)
            /\ cur' = IF cut THEN size ELSE cur + len
            /\ Done(len)

(* The caller takes the text: strbuilder_to_value reads a growable buffer  *)
(* up to its first NUL.                                                    *)
ToValue ==
  /\ phase = "open" /\ doing = "nothing" /\ growable
  /\ phase' = "taken"
  /\ result' = [k \in 1 .. StrLen(0) |-> mem[k - 1]]
  /\ UNCHANGED <<client, growable, size, mem, cur, attempted, want, nuls, doing,
                 len, again>>

(* strbuilder_free_growable, or the return to the owner of a fixed buffer. *)
Close ==
  /\ phase = IF growable THEN "taken" ELSE "open"
  /\ doing = "nothing"
  /\ phase' = "closed" /\ client' = {} /\ growable' = FALSE
  /\ size' = 0 /\ mem' = [a \in 0 .. -1 |-> JUNK] /\ cur' = 0
  /\ attempted' = 0 /\ want' = 0 /\ nuls' = {} /\ result' = <<>>
  /\ UNCHANGED <<doing, len, again>>

Pass == AppendPass \/ AppendfPass \/ AppendValuePass

Next ==
  \/ \E c \in Clients :
       \/ \E n \in FixedSizes : Open(c, FALSE, n)
       \/ \E n \in GrowableSizes : Open(c, TRUE, n)
  \/ \E kind \in client, n \in 0 .. MaxPiece : Begin(kind, n)
  \/ Pass \/ ToValue \/ Close

Spec == Init /\ [][Next]_vars

(* The thread that appends runs on. *)
FairSpec == Spec /\ WF_vars(Pass)

-----------------------------------------------------------------------------
(* Properties *)

TypeOK ==
  /\ phase \in {"closed", "open", "taken", "overrun"}
  /\ client \in Clients \cup {{}} /\ growable \in BOOLEAN
  /\ size \in Nat
  /\ mem \in [0 .. size - 1 -> Int]
  /\ cur \in 0 .. size
  /\ attempted \in Nat /\ want \in Nat
  /\ nuls \subseteq 1 .. MaxText
  /\ doing \in {"append", "append_value", "appendf", "nothing"}
  /\ len \in 0 .. MaxPiece
  /\ again \in BOOLEAN
  /\ result \in Seq(Int)

(* The buffer starts with k characters of the text and a NUL. *)
Holds(k) ==
  /\ k < size
  /\ \A a \in 0 .. k - 1 : mem[a] = Char(a + 1)
  /\ mem[k] = NUL

(* A fixed buffer has the semantics of snprintf and strlcat between any    *)
(* two appends: it holds the text, or the longest beginning of it that     *)
(* leaves room for the NUL, and the length counted is that of the text.    *)
FixedHoldsBeginning ==
  ~ growable /\ phase = "open" /\ doing = "nothing" =>
    /\ attempted = want
    /\ size > 0 => Holds(IF want < size THEN want ELSE size - 1)

(* What a growable builder returns is the whole text and nothing else. *)
IsWholeText == result = [k \in 1 .. want |-> Char(k)]

(* ... and what it returns of labels and file names, which are made of     *)
(* Ruby strings only: their text up to its first NUL, at which rb_str_new2 *)
(* stops, so the whole text if there is none in it.                        *)
LabelsAreWhole ==
  phase = "taken" /\ client = {"append_value"} =>
    result = [k \in 1 .. (IF nuls = {} THEN want ELSE Min(nuls) - 1) |-> k]

(* Whatever was appended, a growable builder is never truncated: what it   *)
(* counts is the string it holds, and that string ends with the last piece *)
(* (unless strbuilder_appendf formatted twice, or a piece has NULs in it). *)
GrowableEndsWithText ==
  phase = "taken" /\ "appendf" \notin client /\ nuls = {} =>
    /\ Len(result) = attempted
    /\ want > 0 => Len(result) > 0 /\ result[Len(result)] = want

(* The retry loops end, unless the program already crashed in one. *)
EveryAppendEnds ==
  doing # "nothing" ~> (doing = "nothing" \/ phase = "overrun")

(* What public/backtracie.h says, and the code does not do. *)

(* backtracie.h:109-113: at most buflen chars are written to *buf, with    *)
(* the semantics of snprintf or strlcat.                                   *)
NeverOverruns == phase # "overrun"

(* backtracie.h:117-118: like backtracie_frame_name_cstr, without any      *)
(* truncation, so a growable builder returns the whole of a method's name. *)
NamesAreWhole == phase = "taken" /\ "appendf" \notin client => IsWholeText
=============================================================================
