---------------------------- MODULE SlotService ----------------------------
(***************************************************************************)
(* What transcribe_range promises to its callers, without saying how: at   *)
(* most Parallel calls occupy the engine, a call occupies it at most once, *)
(* a caller that stays gets its own run's answer or a busy answer if it    *)
(* never ran, and only a run whose caller has left may be stopped early.   *)
(* A caller that leaves gives up the answer, not the engine's place: the   *)
(* place is free when the run has really ended.                            *)
(***************************************************************************)
EXTENDS Integers, FiniteSets

CONSTANTS Calls, Parallel

VARIABLES
  caller,   \* where each call stands with whoever made it
  engine    \* where it stands with the engine

vars == <<caller, engine>>

Init ==
  /\ caller = [c \in Calls |-> "absent"]
  /\ engine = [c \in Calls |-> "out"]

Inside == {c \in Calls : engine[c] = "in"}

(* A call begins, at once inside the engine when there is room. *)
Ask(c) ==
  /\ caller[c] = "absent"
  /\ caller' = [caller EXCEPT ![c] = "waiting"]
  /\ \/ engine' = engine
     \/ /\ Cardinality(Inside) < Parallel
        /\ engine' = [engine EXCEPT ![c] = "in"]

Enter(c) ==
  /\ caller[c] = "waiting" /\ engine[c] = "out"
  /\ Cardinality(Inside) < Parallel
  /\ engine' = [engine EXCEPT ![c] = "in"]
  /\ UNCHANGED caller

(* The run ends; "stopped" is an end only an abandoned run may come to. *)
Finish(c, end) ==
  /\ engine[c] = "in"
  /\ end = "stopped" => caller[c] = "left"
  /\ engine' = [engine EXCEPT ![c] = end]
  /\ UNCHANGED caller

Answer(c) ==
  /\ caller[c] = "waiting"
  /\ engine[c] \in {"ok", "error"}
  /\ caller' = [caller EXCEPT ![c] = engine[c]]
  /\ UNCHANGED engine

TurnAway(c) ==
  /\ caller[c] = "waiting" /\ engine[c] = "out"
  /\ caller' = [caller EXCEPT ![c] = "busy"]
  /\ UNCHANGED engine

Leave(c) ==
  /\ caller[c] = "waiting"
  /\ caller' = [caller EXCEPT ![c] = "left"]
  /\ UNCHANGED engine

Forget(c) ==
  /\ caller[c] \notin {"absent", "waiting"} /\ engine[c] # "in"
  /\ caller' = [caller EXCEPT ![c] = "absent"]
  /\ engine' = [engine EXCEPT ![c] = "out"]

Next == \E c \in Calls :
  \/ Ask(c) \/ Enter(c) \/ Answer(c) \/ TurnAway(c) \/ Leave(c) \/ Forget(c)
  \/ \E end \in {"ok", "error", "stopped"} : Finish(c, end)

Spec == Init /\ [][Next]_vars
=============================================================================
