---------------------------- MODULE PlanContract ----------------------------
(***************************************************************************)
(* What executing a plan promises, whatever schedules it: the worker of a  *)
(* task is called at most once, and only when the workers of all its       *)
(* upstream tasks have succeeded; nothing is called once the run is over.  *)
(***************************************************************************)
EXTENDS Naturals

CONSTANT N          \* number of tasks

VARIABLES up,       \* up[t]: upstream tasks of t
          outcome,  \* outcome[t]: "waiting", "working", "good" or "bad"
          open      \* whether the run goes on

ContractInit == outcome = [t \in 1..N |-> "waiting"] /\ open = TRUE

Begin(t) ==
  /\ open /\ outcome[t] = "waiting"
  /\ \A u \in up[t] : u \in 1..N /\ outcome[u] = "good"
  /\ outcome' = [outcome EXCEPT ![t] = "working"]
  /\ UNCHANGED <<up, open>>

End(t) ==
  /\ open /\ outcome[t] = "working"
  /\ \E r \in {"good", "bad"} : outcome' = [outcome EXCEPT ![t] = r]
  /\ UNCHANGED <<up, open>>

Close == open /\ open' = FALSE /\ UNCHANGED <<up, outcome>>

ContractNext == (\E t \in 1..N : Begin(t) \/ End(t)) \/ Close

ContractSpec == ContractInit /\ [][ContractNext]_<<up, outcome, open>>
=============================================================================
