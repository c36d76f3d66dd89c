-------------------------- MODULE MethodEntryProofs --------------------------
(***************************************************************************)
(* Proofs about MethodEntry: its types, and that the walk finds the method *)
(* that a frame runs, for any number of environments and any nesting.      *)
(***************************************************************************)
EXTENDS MethodEntry, SequenceTheorems, TLAPS

(* The sequences and their lengths. *)
Shape ==
  /\ envs \in Seq(Env)
  /\ method \in Seq(Methods \cup {NULL}) /\ Len(method) = Len(envs)
  /\ home \in Seq(Nat) /\ Len(home) = Len(envs)
  /\ stack \in Seq(Nat)
  /\ \A i \in 1 .. Len(stack) : stack[i] \in 1 .. Len(envs)

(* What the slot of an environment tells about the method it runs: a local *)
(* one knows it; one that is not knows it, or the one around it does.      *)
Tells(env, m, outer) ==
  IF env.prev = 0
  THEN CheckMethodEntry(env.slot, TRUE) = m
  ELSE /\ env.slot \in Plain
       /\ IF CheckMethodEntry(env.slot, FALSE) # NULL
          THEN CheckMethodEntry(env.slot, FALSE) = m
          ELSE m = method[outer]

Environments ==
  \A e \in 1 .. Len(envs) :
    /\ envs[e].prev < e
    /\ home[e] \in 1 .. Len(envs) /\ envs[home[e]].prev = 0
    /\ Tells(envs[e], method[e], envs[e].prev)

(* The walk never leaves the environments that run the method sought. *)
Walking ==
  /\ looking \in 0 .. Len(stack)
  /\ ep \in 0 .. Len(envs)
  /\ entry \in Methods \cup {NULL}
  /\ ep # 0 => looking # 0 /\ method[ep] = method[stack[looking]]
  /\ looking # 0 /\ ep = 0 => entry = method[stack[looking]]

Inv == Shape /\ Environments /\ Walking

-----------------------------------------------------------------------------
(* Facts about slots. *)

(* An svar over a slot is a slot, and gives the method that the slot gave. *)
LEMMA PlainSlots ==
  ASSUME NEW slot \in Plain, NEW canBeSvar \in BOOLEAN
  PROVE  /\ slot \in Slot
         /\ Svar(slot) \in Slot
         /\ CheckMethodEntry(slot, canBeSvar) \in Methods \cup {NULL}
         /\ CheckMethodEntry(Svar(slot), TRUE) = CheckMethodEntry(slot, canBeSvar)
<1>1. slot \in Slot /\ Svar(slot) \in Slot
  BY DEF Slot
<1>2. /\ slot.type \in {"false", "cref", "ment"}
      /\ slot.type = "ment" => slot.of \in Methods
  BY DEF Plain, False, Cref, Ment
<1>3. Svar(slot).type = "svar" /\ Svar(slot).of = slot
  BY DEF Svar
<1> QED
  BY <1>1, <1>2, <1>3 DEF CheckMethodEntry

(* What is found in each kind of slot that a new frame gets. *)
LEMMA KnownSlots ==
  /\ False \in Plain /\ Cref \in Plain
  /\ CheckMethodEntry(False, TRUE) = NULL /\ CheckMethodEntry(False, FALSE) = NULL
  /\ CheckMethodEntry(Cref, TRUE) = NULL /\ CheckMethodEntry(Cref, FALSE) = NULL
  /\ \A m \in Methods :
       /\ Ment(m) \in Plain
       /\ CheckMethodEntry(Ment(m), TRUE) = m
       /\ CheckMethodEntry(Ment(m), FALSE) = m
BY DEF Plain, False, Cref, Ment, CheckMethodEntry

-----------------------------------------------------------------------------
(* A new frame keeps the invariant when its slot tells its method. *)

LEMMA PushKeepsInv ==
  ASSUME Inv,
         NEW slot \in Plain, NEW prev \in 0 .. Len(envs),
         NEW m \in Methods \cup {NULL},
         Push(slot, prev, m),
         Tells([slot |-> slot, prev |-> prev], m, prev)
  PROVE  Inv'
<1> DEFINE new == Len(envs) + 1
           env == [slot |-> slot, prev |-> prev]
<1>0. Len(envs) \in Nat
  BY DEF Inv, Shape
<1>1. env \in Env /\ env.prev = prev /\ env.slot = slot
  <2>1. slot \in Slot /\ prev \in Nat
    BY <1>0 DEF Slot
  <2> QED BY <2>1 DEF Env
<1>2. /\ envs' = Append(envs, env) /\ method' = Append(method, m)
      /\ stack' = Append(stack, new)
      /\ home' = Append(home, IF prev = 0 THEN new ELSE home[prev])
      /\ looking' = 0 /\ ep' = 0 /\ entry' = NULL
  BY DEF Push, ProgramRuns
<1>3. (IF prev = 0 THEN new ELSE home[prev]) \in Nat
  BY DEF Inv, Shape
<1>4. Shape'
  <2>1. /\ envs' \in Seq(Env) /\ Len(envs') = new
        /\ method' \in Seq(Methods \cup {NULL}) /\ Len(method') = new
        /\ home' \in Seq(Nat) /\ Len(home') = new
    BY <1>1, <1>2, <1>3 DEF Inv, Shape
  <2>2. stack' \in Seq(Nat) /\ Len(stack') = Len(stack) + 1
    BY <1>0, <1>2 DEF Inv, Shape
  <2>3. ASSUME NEW i \in 1 .. Len(stack') PROVE stack'[i] \in 1 .. Len(envs')
    BY <1>0, <1>2, <2>1, <2>2 DEF Inv, Shape
  <2> QED BY <2>1, <2>2, <2>3 DEF Shape
<1>5. /\ Len(envs') = new /\ envs'[new] = env /\ method'[new] = m
      /\ home'[new] = IF prev = 0 THEN new ELSE home[prev]
      /\ \A e \in 1 .. Len(envs) :
           envs'[e] = envs[e] /\ method'[e] = method[e] /\ home'[e] = home[e]
  BY <1>1, <1>2, <1>3 DEF Inv, Shape
<1>6. ASSUME NEW e \in 1 .. Len(envs')
      PROVE  /\ envs'[e].prev < e
             /\ home'[e] \in 1 .. Len(envs') /\ envs'[home'[e]].prev = 0
             /\ Tells(envs[e], method[e], envs[e].prev)'
  <2>0. \A i \in 1 .. Len(envs) : envs[i].prev \in Nat
    <3>1. \A i \in 1 .. Len(envs) : envs[i] \in Env
      BY DEF Inv, Shape
    <3> QED BY <3>1 DEF Env
  <2>1. CASE e = new
    <3>1. /\ envs'[e].prev < e
          /\ home'[e] \in 1 .. Len(envs') /\ envs'[home'[e]].prev = 0
      BY <1>1, <1>5, <2>0, <1>0, <2>1 DEF Inv, Environments
    <3>2. prev # 0 => method'[prev] = method[prev]
      BY <1>5, <2>0, <1>0
    <3>3. Tells(envs[e], method[e], envs[e].prev)'
      BY <1>1, <1>5, <2>1, <3>2 DEF Tells
    <3> QED BY <3>1, <3>3
  <2>2. CASE e # new
    <3>1. e \in 1 .. Len(envs)
      BY <1>5, <2>0, <1>0, <2>2
    <3>2. /\ envs'[e].prev < e
          /\ home'[e] \in 1 .. Len(envs') /\ envs'[home'[e]].prev = 0
      BY <1>5, <2>0, <1>0, <3>1 DEF Inv, Environments
    <3>3. envs[e].prev # 0 => method'[envs[e].prev] = method[envs[e].prev]
      BY <1>5, <2>0, <1>0, <3>1 DEF Inv, Environments
    <3>4. Tells(envs[e], method[e], envs[e].prev)
      BY <3>1 DEF Inv, Environments
    <3>5. Tells(envs[e], method[e], envs[e].prev)'
      BY <1>5, <3>1, <3>3, <3>4 DEF Tells
    <3> QED BY <3>2, <3>5
  <2> QED BY <2>1, <2>2
<1>7. Environments'
  BY <1>6 DEF Environments
<1>8. Walking'
  BY <1>2, <1>4 DEF Walking, Shape
<1> QED BY <1>4, <1>7, <1>8 DEF Inv

-----------------------------------------------------------------------------
(* The inductive invariant. *)

(* Before the first frame there is nothing to find. *)
LEMMA InitInv == Init => Inv
BY DEF Init, Inv, Shape, Environments, Walking, Env

(* An svar put around the slot of a method still tells the method. *)
LEMMA UseSvarKeepsInv == Inv /\ UseSvar => Inv'
<1> SUFFICES ASSUME Inv, UseSvar PROVE Inv'
  OBVIOUS
<1> DEFINE local == home[stack[Len(stack)]]
           slot == envs[local].slot
<1>1. /\ slot \in Plain
      /\ envs' = [envs EXCEPT ![local] = [slot |-> Svar(slot), prev |-> 0]]
      /\ stack' = stack /\ method' = method /\ home' = home
      /\ looking' = 0 /\ ep' = 0 /\ entry' = NULL
  BY DEF UseSvar, ProgramRuns
<1>2. local \in 1 .. Len(envs) /\ envs[local].prev = 0
  <2>1. stack[Len(stack)] \in 1 .. Len(envs)
    <3>1. stack \in Seq(Nat) /\ stack # <<>>
      BY DEF UseSvar, Inv, Shape
    <3>2. Len(stack) \in 1 .. Len(stack)
      BY <3>1
    <3> QED BY <3>2 DEF Inv, Shape
  <2> QED BY <2>1 DEF Inv, Environments
<1>3. /\ Len(envs') = Len(envs)
      /\ \A e \in 1 .. Len(envs) :
           /\ envs'[e].prev = envs[e].prev
           /\ envs'[e].slot = IF e = local THEN Svar(slot) ELSE envs[e].slot
           /\ envs'[e] \in Env
      /\ envs' \in Seq(Env)
  <2> DEFINE env == [slot |-> Svar(slot), prev |-> 0]
  <2>1. Svar(slot) \in Slot
    BY <1>1 DEF Slot
  <2>2. env \in Env /\ env.slot = Svar(slot) /\ env.prev = 0
    BY <2>1 DEF Env
  <2>3. envs' = [envs EXCEPT ![local] = env] /\ envs \in Seq(Env)
    BY <1>1 DEF Inv, Shape
  <2> HIDE DEF env
  <2> QED BY <1>2, <2>2, <2>3
<1>4. Shape'
  BY <1>1, <1>3 DEF Inv, Shape
<1>5. CheckMethodEntry(Svar(slot), TRUE) = CheckMethodEntry(slot, TRUE)
  BY <1>1, PlainSlots
<1>6. Environments'
  <2> SUFFICES ASSUME NEW e \in 1 .. Len(envs)
               PROVE  /\ envs'[e].prev < e
                      /\ home[e] \in 1 .. Len(envs) /\ envs'[home[e]].prev = 0
                      /\ Tells(envs[e], method[e], envs[e].prev)'
    BY <1>1, <1>3 DEF Environments
  <2>1. /\ envs[e].prev < e
        /\ home[e] \in 1 .. Len(envs) /\ envs[home[e]].prev = 0
        /\ Tells(envs[e], method[e], envs[e].prev)
    BY DEF Inv, Environments
  <2>2. Tells(envs[e], method[e], envs[e].prev)'
    BY <1>1, <1>2, <1>3, <1>5, <2>1 DEF Tells
  <2> QED BY <1>3, <2>1, <2>2
<1>7. Walking'
  BY <1>1, <1>4 DEF Walking, Shape
<1> QED BY <1>4, <1>6, <1>7 DEF Inv

(* A pass goes to an environment of the same method, or finds the method. *)
LEMMA WalkKeepsInv == Inv /\ (WalkPass \/ WalkEnd) => Inv'
<1> SUFFICES ASSUME Inv, WalkPass \/ WalkEnd PROVE Inv'
  OBVIOUS
<1>0. Len(envs) \in Nat /\ Len(stack) \in Nat
  BY DEF Inv, Shape
<1>1. /\ envs' = envs /\ stack' = stack /\ method' = method /\ home' = home
      /\ looking' = looking
  BY DEF WalkPass, WalkEnd, Found, program, lookup
<1>2. Shape' /\ Environments'
  BY <1>1 DEF Inv, Shape, Environments, Tells
<1>3. /\ ep \in 1 .. Len(envs) /\ looking \in 1 .. Len(stack)
      /\ method[ep] = method[stack[looking]]
      /\ method[ep] \in Methods \cup {NULL}
  <2>1. ep # 0
    BY DEF WalkPass, WalkEnd
  <2>2. /\ ep \in 0 .. Len(envs) /\ looking \in 0 .. Len(stack) /\ looking # 0
        /\ method[ep] = method[stack[looking]]
    BY <2>1 DEF Inv, Walking
  <2> QED BY <1>0, <2>1, <2>2 DEF Inv, Shape
<1>4. Tells(envs[ep], method[ep], envs[ep].prev) /\ envs[ep].prev < ep
      /\ envs[ep].prev \in Nat
  <2>1. envs[ep] \in Env
    BY <1>3 DEF Inv, Shape
  <2> QED BY <1>3, <2>1 DEF Inv, Environments, Env
<1> QED
  <2>1. Walking'
    <3>1. CASE WalkPass
      <4> DEFINE me == CheckMethodEntry(envs[ep].slot, FALSE)
      <4>1. CASE me # NULL
        <5>1. ep' = 0 /\ entry' = me /\ me = method[ep]
          BY <3>1, <4>1, <1>4 DEF WalkPass, Found, IsLocal, Tells
        <5>2. ep' = 0 /\ entry' = method[ep]
          BY <5>1
        <5> QED BY <1>0, <1>1, <1>3, <5>2 DEF Walking, Inv
      <4>2. CASE me = NULL
        <5>1. /\ ep' = envs[ep].prev /\ entry' = entry /\ ep' # 0
              /\ method[ep] = method[envs[ep].prev]
          BY <3>1, <4>2, <1>4 DEF WalkPass, IsLocal, Tells
        <5> QED BY <1>0, <1>1, <1>3, <1>4, <5>1 DEF Walking, Inv
      <4> QED BY <4>1, <4>2
    <3>2. CASE WalkEnd
      <4>1. ep' = 0 /\ entry' = method[ep]
        BY <3>2, <1>4 DEF WalkEnd, Found, IsLocal, Tells
      <4> QED BY <1>0, <1>1, <1>3, <4>1 DEF Walking, Inv
    <3> QED BY <3>1, <3>2
  <2> QED BY <1>2, <2>1 DEF Inv
(* Every step of the program and of a walk keeps the invariant. *)
LEMMA StepKeepsInv == Inv /\ [Next]_vars => Inv'
<1> SUFFICES ASSUME Inv, [Next]_vars PROVE Inv'
  OBVIOUS
<1>0. /\ Len(envs) \in Nat /\ Len(stack) \in Nat
      /\ \A e \in 1 .. Len(envs) : method[e] \in Methods \cup {NULL}
  BY DEF Inv, Shape
<1>1. ASSUME NEW m \in Methods, CallMethod(m) PROVE Inv'
  <2>1. Tells([slot |-> Ment(m), prev |-> 0], m, 0)
    BY KnownSlots DEF Tells
  <2>2. Ment(m) \in Plain
    BY KnownSlots
  <2>3. 0 \in 0 .. Len(envs)
    BY <1>0
  <2>4. Push(Ment(m), 0, m)
    BY <1>1 DEF CallMethod
  <2> QED BY <2>1, <2>2, <2>3, <2>4, PushKeepsInv
<1>2. ASSUME NEW slot \in {False, Cref}, RunBody(slot) PROVE Inv'
  <2>1. slot \in Plain /\ Tells([slot |-> slot, prev |-> 0], NULL, 0)
    BY KnownSlots DEF Tells
  <2> QED BY <1>0, <1>2, <2>1, PushKeepsInv DEF RunBody
<1>3. ASSUME NEW e \in DOMAIN envs, CallBlock(e) PROVE Inv'
  <2>1. e \in 1 .. Len(envs) /\ e # 0 /\ e \in 0 .. Len(envs)
    BY <1>0 DEF Inv, Shape
  <2>2. ASSUME NEW slot \in {False, Cref}, Push(slot, e, method[e]) PROVE Inv'
    <3>1. slot \in Plain /\ Tells([slot |-> slot, prev |-> e], method[e], e)
      BY <2>1, KnownSlots DEF Tells
    <3> QED BY <1>0, <2>1, <2>2, <3>1, PushKeepsInv
  <2>3. ASSUME NEW m \in Methods, Push(Ment(m), e, m) PROVE Inv'
    <3>1. Ment(m) \in Plain /\ Tells([slot |-> Ment(m), prev |-> e], m, e)
      BY <2>1, KnownSlots, MethodEntryAssumption DEF Tells
    <3> QED BY <2>1, <2>3, <3>1, PushKeepsInv
  <2> QED BY <1>3, <2>2, <2>3 DEF CallBlock
<1>4. CASE Leave
  <2>0. /\ stack \in Seq(Nat) /\ Len(stack) \in Nat \ {0}
        /\ stack' = SubSeq(stack, 1, Len(stack) - 1)
    BY <1>4 DEF Leave, Inv, Shape
  <2>1. /\ stack' \in Seq(Nat) /\ Len(stack') = Len(stack) - 1
        /\ \A i \in 1 .. Len(stack') : stack'[i] = stack[i] /\ i \in 1 .. Len(stack)
    <3>1. Len(stack) - 1 \in Nat /\ Len(stack) - 1 <= Len(stack)
      BY <2>0
    <3>2. \A i \in 1 .. Len(stack) - 1 : i \in 1 .. Len(stack) /\ stack[i] \in Nat
      BY <2>0
    <3> DEFINE n == Len(stack) - 1
    <3>3. /\ SubSeq(stack, 1, n) \in Seq(Nat)
          /\ Len(SubSeq(stack, 1, n)) = IF 1 <= n THEN n - 1 + 1 ELSE 0
          /\ \A i \in 1 .. n - 1 + 1 : SubSeq(stack, 1, n)[i] = stack[1 + i - 1]
      <4> HIDE DEF n
      <4>1. n \in Int /\ \A i \in 1 .. n : stack[i] \in Nat
        BY <3>1, <3>2 DEF n
      <4> QED BY <4>1, SubSeqProperties
    <3>4. \A i \in 1 .. n : stack'[i] = stack[i]
      BY <2>0, <3>3
    <3>5. stack' \in Seq(Nat)
      BY <2>0, <3>3
    <3>6. Len(stack') = n
      <4>1. n \in Nat /\ stack' = SubSeq(stack, 1, n)
        BY <2>0
      <4> HIDE DEF n
      <4> QED BY <3>3, <4>1
    <3> QED BY <3>2, <3>4, <3>5, <3>6
  <2>2. UNCHANGED <<envs, method, home>> /\ looking' = 0 /\ ep' = 0 /\ entry' = NULL
    BY <1>4 DEF Leave, ProgramRuns
  <2>3. Shape' /\ Environments'
    BY <2>1, <2>2 DEF Inv, Shape, Environments, Tells
  <2>4. Walking'
    BY <1>0, <2>1, <2>2 DEF Walking
  <2> QED BY <2>3, <2>4 DEF Inv
<1>5. CASE Collect
  BY <1>5 DEF Collect, ProgramRuns, Inv, Shape, Environments, Walking, Env
<1>6. ASSUME NEW n \in DOMAIN stack, Look(n) PROVE Inv'
  <2>1. /\ UNCHANGED <<envs, stack, method, home>>
        /\ looking' = n /\ ep' = stack[n] /\ entry' = NULL
    BY <1>6 DEF Look, program
  <2>2. n \in 1 .. Len(stack) /\ stack[n] \in 1 .. Len(envs)
    BY DEF Inv, Shape
  <2>3. Shape' /\ Environments'
    BY <2>1 DEF Inv, Shape, Environments, Tells
  <2>4. Walking'
    BY <1>0, <2>1, <2>2 DEF Walking
  <2> QED BY <2>3, <2>4 DEF Inv
<1>7. CASE UNCHANGED vars
  BY <1>7 DEF vars, program, lookup, Inv, Shape, Environments, Walking, Tells
<1> QED
  BY <1>1, <1>2, <1>3, <1>4, <1>5, <1>6, <1>7, UseSvarKeepsInv, WalkKeepsInv DEF Next

(* In every reachable state each slot tells its method, and a walk stays   *)
(* among the environments that run the one it looks for.                   *)
THEOREM Invariance == Spec => []Inv
<1>1. Init => Inv
  BY InitInv
<1>2. Inv /\ [Next]_vars => Inv'
  BY StepKeepsInv
<1> QED BY <1>1, <1>2, PTL DEF Spec

-----------------------------------------------------------------------------
(* Every variable keeps its type, however many environments there are. *)
THEOREM TypeCorrect == Spec => []TypeOK
<1>1. Inv => TypeOK
  <2> SUFFICES ASSUME Inv PROVE TypeOK
    OBVIOUS
  <2>1. /\ DOMAIN envs = 1 .. Len(envs) /\ DOMAIN stack = 1 .. Len(stack)
        /\ Len(envs) \in Nat /\ Len(stack) \in Nat
    BY DEF Inv, Shape
  <2>2. stack \in Seq(DOMAIN envs)
    <3>1. stack = [i \in 1 .. Len(stack) |-> stack[i]]
      BY DEF Inv, Shape
    <3>2. \A i \in 1 .. Len(stack) : stack[i] \in DOMAIN envs
      BY <2>1 DEF Inv, Shape
    <3> QED BY <2>1, <3>1, <3>2
  <2>3. method \in [DOMAIN envs -> Methods \cup {NULL}]
    BY <2>1 DEF Inv, Shape
  <2>4. home \in [DOMAIN envs -> DOMAIN envs]
    BY <2>1 DEF Inv, Shape, Environments
  <2>5. /\ looking \in DOMAIN stack \cup {0} /\ ep \in DOMAIN envs \cup {0}
        /\ entry \in Methods \cup {NULL}
    BY <2>1 DEF Inv, Walking
  <2> QED BY <2>2, <2>3, <2>4, <2>5 DEF TypeOK, Inv, Shape
<1> QED BY <1>1, Invariance, PTL

(* The method found for a frame is the one it runs, for any nesting of     *)
(* blocks and any number of environments.                                  *)
THEOREM FindsTheMethod == Spec => []EntryIsMethod
<1>1. Inv => EntryIsMethod
  BY DEF Inv, Walking, EntryIsMethod
<1> QED BY <1>1, Invariance, PTL
=============================================================================
