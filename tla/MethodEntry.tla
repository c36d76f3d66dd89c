----------------------------- MODULE MethodEntry -----------------------------
(***************************************************************************)
(* Which method a control frame runs, as backtracie finds it out where the *)
(* VM does not export the function for that (before Ruby 2.6):             *)
(* copied_vm_frame_method_entry follows the environments that enclose a    *)
(* block until one of them knows its method.                               *)
(*                                                                         *)
(* Every environment has a slot (ep[VM_ENV_DATA_INDEX_ME_CREF]) that holds *)
(* false, a method entry, a cref, or, once the method has used $~ or $_, a *)
(* svar that in turn holds what was there before.                          *)
(***************************************************************************)
EXTENDS Naturals, Sequences

CONSTANTS
  NULL,     \* the C null pointer
  Methods,  \* callable method entries
  MaxEnvs   \* bound: how many environments are made

ASSUME MethodEntryAssumption == NULL \notin Methods /\ MaxEnvs \in Nat

False == [type |-> "false", of |-> NULL]
Cref == [type |-> "cref", of |-> NULL]
Ment(m) == [type |-> "ment", of |-> m]
Svar(object) == [type |-> "svar", of |-> object]

Plain == {False, Cref} \cup {Ment(m) : m \in Methods}
Slot == Plain \cup {Svar(object) : object \in Plain}

VARIABLES
  envs,     \* the environments made so far: the slot of each, and the one
            \* that encloses it, 0 if it is local to a method (VM_ENV_LOCAL_P)
  stack,    \* the environment of each control frame, oldest first
  method,   \* history: what each environment is an activation of, or NULL,
  home,     \* ... and the local one around it
  looking,  \* the frame whose entry was last looked up, 0 if the program ran on
  ep,       \* ... the environment the loop has come to, 0 once it has ended
  entry     \* ... and what was found

program == <<envs, stack, method, home>>
lookup == <<looking, ep, entry>>
vars == <<program, lookup>>

IsLocal(e) == envs[e].prev = 0

-----------------------------------------------------------------------------
(* Mutants: an svar hides the method, and what an svar holds is taken for  *)
(* a method entry, whatever it is.                                         *)
CheckMethodEntry_NoSvar(obj, canBeSvar) ==
  IF obj.type = "ment" THEN obj.of ELSE NULL

CheckMethodEntry_AnyInSvar(obj, canBeSvar) ==
  IF obj.type = "ment" \/ (obj.type = "svar" /\ canBeSvar)
  THEN obj.of
  ELSE NULL

(* copied_check_method_entry *)
CheckMethodEntry(obj, canBeSvar) ==
  IF obj.type = "ment" THEN obj.of
  ELSE IF obj.type = "svar" /\ canBeSvar /\ obj.of.type = "ment"
  THEN obj.of.of
  ELSE NULL

Init ==
  /\ envs = <<>> /\ stack = <<>> /\ method = <<>> /\ home = <<>>
  /\ looking = 0 /\ ep = 0 /\ entry = NULL

-----------------------------------------------------------------------------
(* The program.  It makes no step during a lookup. *)

ProgramRuns == ep = 0 /\ looking' = 0 /\ ep' = 0 /\ entry' = NULL

(* A new frame, with an environment of its own. *)
Push(slot, prev, m) ==
  /\ ProgramRuns /\ Len(envs) < MaxEnvs
  /\ envs' = Append(envs, [slot |-> slot, prev |-> prev])
  /\ stack' = Append(stack, Len(envs) + 1)
  /\ method' = Append(method, m)
  /\ home' = Append(home, IF prev = 0 THEN Len(envs) + 1 ELSE home[prev])

CallMethod(m) == Push(Ment(m), 0, m)

(* A file, or the body of a class. *)
RunBody(slot) == slot \in {False, Cref} /\ Push(slot, 0, NULL)

(* A block, whose environment is enclosed by the one it was made in even   *)
(* after that was left: a plain one, one run by class_eval or eval, or the *)
(* body of a method made by define_method.                                 *)
CallBlock(e) ==
  \/ \E slot \in {False, Cref} : Push(slot, e, method[e])
  \/ \E m \in Methods : Push(Ment(m), e, m)

(* The newest frame assigns $~: the method around it gets an svar. *)
UseSvar ==
  /\ ProgramRuns /\ stack # <<>>
  /\ LET local == home[stack[Len(stack)]]
     IN  /\ envs[local].slot \in Plain
         /\ envs' = [envs EXCEPT ![local] = [slot |-> Svar(@.slot), prev |-> 0]]
  /\ UNCHANGED <<stack, method, home>>

Leave ==
  /\ ProgramRuns /\ stack # <<>>
  /\ stack' = SubSeq(stack, 1, Len(stack) - 1)
  /\ UNCHANGED <<envs, method, home>>

(* Environments that no proc keeps are collected. *)
Collect ==
  /\ ProgramRuns /\ stack = <<>>
  /\ envs' = <<>> /\ method' = <<>> /\ home' = <<>>
  /\ UNCHANGED stack

-----------------------------------------------------------------------------
(* copied_vm_frame_method_entry *)

Look(n) ==
  /\ ep = 0
  /\ looking' = n /\ ep' = stack[n] /\ entry' = NULL
  /\ UNCHANGED program

Found(m) == ep' = 0 /\ entry' = m /\ UNCHANGED looking

(* Mutants: an environment that is not local is passed over without a      *)
(* look at its slot, and the loop does not move on.                        *)
WalkPass_NoCheck ==
  /\ ep # 0 /\ ~ IsLocal(ep)
  /\ ep' = envs[ep].prev
  /\ UNCHANGED <<program, looking, entry>>

WalkPass_Stays ==
  /\ ep # 0 /\ ~ IsLocal(ep)
  /\ LET me == CheckMethodEntry(envs[ep].slot, FALSE)
     IN  IF me # NULL THEN Found(me) ELSE UNCHANGED lookup
  /\ UNCHANGED program

(* A pass of the loop through the environments that are not local ... *)
WalkPass ==
  /\ ep # 0 /\ ~ IsLocal(ep)
  /\ LET me == CheckMethodEntry(envs[ep].slot, FALSE)
     IN  IF me # NULL
         THEN Found(me)
         ELSE ep' = envs[ep].prev /\ UNCHANGED <<looking, entry>>
  /\ UNCHANGED program

(* ... and what follows it. *)
WalkEnd ==
  /\ ep # 0 /\ IsLocal(ep)
  /\ Found(CheckMethodEntry(envs[ep].slot, TRUE))
  /\ UNCHANGED program

Next ==
  \/ \E m \in Methods : CallMethod(m)
  \/ \E slot \in {False, Cref} : RunBody(slot)
  \/ \E e \in DOMAIN envs : CallBlock(e)
  \/ UseSvar \/ Leave \/ Collect
  \/ \E n \in DOMAIN stack : Look(n)
  \/ WalkPass \/ WalkEnd

Spec == Init /\ [][Next]_vars

(* The loop is straight-line code. *)
FairSpec == Spec /\ WF_vars(WalkPass \/ WalkEnd)

-----------------------------------------------------------------------------
(* Properties *)

Env == [slot : Slot, prev : Nat]

TypeOK ==
  /\ envs \in Seq(Env)
  /\ stack \in Seq(DOMAIN envs)
  /\ method \in [DOMAIN envs -> Methods \cup {NULL}]
  /\ home \in [DOMAIN envs -> DOMAIN envs]
  /\ looking \in DOMAIN stack \cup {0}
  /\ ep \in DOMAIN envs \cup {0}
  /\ entry \in Methods \cup {NULL}

(* A frame is found to run the method that was called for it, or whose     *)
(* block it is, however deep the blocks nest, whatever crefs lie between   *)
(* and whether or not $~ was used; a body that is no method has none.      *)
EntryIsMethod ==
  looking # 0 /\ ep = 0 => entry = method[stack[looking]]

(* The loop ends: environments enclose each other in no circle. *)
EveryWalkEnds == ep # 0 ~> ep = 0
=============================================================================
