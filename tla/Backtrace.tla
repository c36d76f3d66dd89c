------------------------------ MODULE Backtrace ------------------------------
(***************************************************************************)
(* What backtracie promises of a backtrace, whoever asks for it and        *)
(* whatever the threads of the program do meanwhile: a request ends with   *)
(* one answer, the backtrace the subject's stack had at one instant        *)
(* between the question and the answer, or nil if the subject was dying or *)
(* dead at that instant.                                                   *)
(***************************************************************************)
EXTENDS VMStack

CONSTANTS Threads

VARIABLES
  stack,    \* every thread's control frames
  status,   \* every thread's life
  phase,    \* of each thread's request: none, asked or answered
  subject,  \* the thread it asked about
  skipped,  \* the newest frames it leaves out
  answer    \* the backtrace, or NULL for nil

vars == <<stack, status, phase, subject, skipped, answer>>

Alive(t) == status[t] \notin {"to_kill", "killed"}

Init ==
  /\ stack \in [Threads -> Seq(Frame)]
  /\ status \in [Threads -> {"alive", "to_kill", "killed"}]
  /\ phase = [t \in Threads |-> "none"]
  /\ subject = [t \in Threads |-> NULL]
  /\ skipped = [t \in Threads |-> 0]
  /\ answer = [t \in Threads |-> NULL]

(* The program may do anything to its threads while no answer is taken. *)
ProgramRuns ==
  /\ stack' \in [Threads -> Seq(Frame)]
  /\ status' \in [Threads -> {"alive", "to_kill", "killed"}]

Program == ProgramRuns /\ UNCHANGED <<phase, subject, skipped, answer>>

Ask(t) ==
  /\ phase[t] = "none"
  /\ phase' = [phase EXCEPT ![t] = "asked"]
  /\ \E u \in Threads : subject' = [subject EXCEPT ![t] = u]
  /\ \E k \in {0, 3} : skipped' = [skipped EXCEPT ![t] = k]
  /\ UNCHANGED answer
  /\ ProgramRuns

(* The instant of the answer.  Looking at a thread leaves it alone: only  *)
(* the frames of the thread that asks may change in the same step.         *)
Take(t) ==
  /\ phase[t] = "asked"
  /\ phase' = [phase EXCEPT ![t] = "answered"]
  /\ \A u \in Threads \ {t} : answer'[u] = answer[u]
  /\ IF Alive(subject[t])
     THEN /\ answer'[t] # NULL
          /\ IsBacktrace(answer'[t], stack[subject[t]], skipped[t])
     ELSE answer'[t] = NULL
  /\ stack' \in [Threads -> Seq(Frame)]
  /\ \A u \in Threads \ {t} : stack'[u] = stack[u]
  /\ UNCHANGED <<status, subject, skipped>>

(* The request ends, its answer delivered or dropped by an exception. *)
End(t) ==
  /\ phase[t] = "answered"
  /\ phase' = [phase EXCEPT ![t] = "none"]
  /\ subject' = [subject EXCEPT ![t] = NULL]
  /\ skipped' = [skipped EXCEPT ![t] = 0]
  /\ answer' = [answer EXCEPT ![t] = NULL]
  /\ ProgramRuns

Next == Program \/ \E t \in Threads : Ask(t) \/ Take(t) \/ End(t)

Spec == Init /\ [][Next]_vars
=============================================================================
