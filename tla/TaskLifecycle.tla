--------------------------- MODULE TaskLifecycle ---------------------------
(***************************************************************************)
(* What the CTS promises about a task's history, without documents,        *)
(* versions, readers or transactions: each task has a log of statuses that *)
(* only ever grows, by one legal transition or by a recovery to a          *)
(* non-terminal status the log already holds.                              *)
(***************************************************************************)
EXTENDS TaskStateMachine

CONSTANT Task

VARIABLE log

Current(l) == IF l = << >> THEN "PENDING" ELSE l[Len(l)]

Advance(t) ==
  \E s \in LegalNextStates(Current(log[t])) :
     log' = [log EXCEPT ![t] = Append(@, s)]

Recover(t) ==
  \E i \in DOMAIN log[t] :
     /\ log[t][i] \notin Terminal
     /\ log' = [log EXCEPT ![t] = Append(@, log[t][i])]

LifecycleInit == log = [t \in Task |-> << >>]

LifecycleNext == \E t \in Task : Advance(t) \/ Recover(t)

LifecycleSpec == LifecycleInit /\ [][LifecycleNext]_log
=============================================================================
