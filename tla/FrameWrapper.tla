---------------------------- MODULE FrameWrapper ----------------------------
(***************************************************************************)
(* How calls of the library use a frame wrapper, said once for the two     *)
(* modules that look at it from different sides: Collector, where threads  *)
(* and exceptions come between the steps of a call, and FrameHeap, where   *)
(* the garbage collector does.  FrameHeap lets nothing happen inside the   *)
(* loop that captures frames; that this is so is for Collector to show.    *)
(***************************************************************************)
EXTENDS Naturals

CONSTANT Callers  \* who may be in a call

VARIABLES
  holder, \* the caller that runs: the one with the GVL
  stage,  \* of each caller: idle, capture (the loop that fills it) or read
  capa,   \* how many frames its wrapper has room for
  len     \* how many are there

vars == <<holder, stage, capa, len>>

Init ==
  /\ holder \in Callers
  /\ stage = [c \in Callers |-> "idle"]
  /\ capa = [c \in Callers |-> 0]
  /\ len = [c \in Callers |-> 0]

(* The wrapper is made, empty, with room for the frames counted. *)
Make(c) ==
  /\ c = holder /\ stage[c] = "idle"
  /\ stage' = [stage EXCEPT ![c] = "capture"]
  /\ capa'[c] \in Nat /\ capa' = [capa EXCEPT ![c] = capa'[c]]
  /\ len' = [len EXCEPT ![c] = 0]
  /\ UNCHANGED holder

(* A captured frame is added; there is always room for it. *)
Fill(c) ==
  /\ c = holder /\ stage[c] = "capture" /\ len[c] < capa[c]
  /\ len' = [len EXCEPT ![c] = @ + 1]
  /\ UNCHANGED <<holder, stage, capa>>

(* The loop ends by itself and in no other way: no exception leaves it. *)
Stop(c) ==
  /\ c = holder /\ stage[c] = "capture"
  /\ stage' = [stage EXCEPT ![c] = "read"]
  /\ UNCHANGED <<holder, capa, len>>

(* The call returns, or an exception leaves it. *)
End(c) ==
  /\ c = holder /\ stage[c] = "read"
  /\ stage' = [stage EXCEPT ![c] = "idle"]
  /\ capa' = [capa EXCEPT ![c] = 0]
  /\ len' = [len EXCEPT ![c] = 0]
  /\ UNCHANGED holder

(* Another caller runs, but never in the middle of a loop. *)
Yield ==
  /\ stage[holder] # "capture"
  /\ holder' \in Callers
  /\ UNCHANGED <<stage, capa, len>>

Next == Yield \/ \E c \in Callers : Make(c) \/ Fill(c) \/ Stop(c) \/ End(c)

Spec == Init /\ [][Next]_vars
=============================================================================
