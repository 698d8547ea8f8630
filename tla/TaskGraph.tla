------------------------------ MODULE TaskGraph ------------------------------
(***************************************************************************)
(* DagScheduler.topological_order (orchestration/dag_scheduler.py).  Tasks *)
(* are numbered in the order of the list given to it; up[t] is the set of  *)
(* upstream ids of task t, which may name tasks that are not in the list.  *)
(***************************************************************************)
EXTENDS Naturals, Sequences, FiniteSets

(* A list comprehension over the n tasks: those chosen, in their order.    *)
InOrder(n, chosen) ==
  LET upto[i \in 0..n] == IF i = 0 THEN << >>
                          ELSE IF chosen[i] THEN Append(upto[i - 1], i)
                          ELSE upto[i - 1]
  IN upto[n]

(* The state of the loop: the queue, the in-degrees, the result.           *)
KahnStart(n, up) ==
  LET degree == [t \in 1..n |-> Cardinality(up[t])]
  IN [ready   |-> InOrder(n, [t \in 1..n |-> degree[t] = 0]),
      degree  |-> degree,
      ordered |-> << >>]

(* The in-degrees when `current` is done.                                  *)
Lowered(n, up, degree, current) ==
  [t \in 1..n |-> IF current \in up[t] THEN degree[t] - 1 ELSE degree[t]]

(* Mutant: a task is released by the first of its upstream tasks.          *)
KahnStepEager(n, up, k) ==
  IF k.ready = << >> THEN k
  ELSE LET current == Head(k.ready)
           fresh == [t \in 1..n |-> current \in up[t] /\ k.degree[t] = Cardinality(up[t])]
       IN [ready   |-> Tail(k.ready) \o InOrder(n, fresh),
           degree  |-> Lowered(n, up, k.degree, current),
           ordered |-> Append(k.ordered, current)]

(* One round: the head of the queue is done, and releases the tasks that   *)
(* waited for it alone.                                                    *)
KahnStep(n, up, k) ==
  IF k.ready = << >> THEN k
  ELSE LET current == Head(k.ready)
           degree == Lowered(n, up, k.degree, current)
           freed == [t \in 1..n |-> current \in up[t] /\ degree[t] = 0]
       IN [ready |-> Tail(k.ready) \o InOrder(n, freed), degree |-> degree,
           ordered |-> Append(k.ordered, current)]

(* Every round takes one task from the queue, so n rounds exhaust it.      *)
TopologicalOrder(n, up) ==
  LET round[i \in 0..n] == IF i = 0 THEN KahnStart(n, up) ELSE KahnStep(n, up, round[i - 1])
  IN round[n].ordered

(* CyclicDependencyError                                                   *)
IsCyclic(n, up) == Len(TopologicalOrder(n, up)) # n

-----------------------------------------------------------------------------
(* What the result means, without the algorithm.                           *)

(* seq lists every task once, after all of its upstream tasks.             *)
UpstreamFirst(n, up, seq) ==
  /\ {seq[i] : i \in DOMAIN seq} = 1..n /\ Len(seq) = n
  /\ \A i \in 1..n : up[seq[i]] \subseteq {seq[j] : j \in 1..(i - 1)}

(* Some tasks wait only for one another, or for tasks that do not exist.   *)
Stuck(n, up) ==
  \/ \E t \in 1..n : ~(up[t] \subseteq 1..n)
  \/ \E S \in SUBSET (1..n) : S # {} /\ \A t \in S : up[t] \cap S # {}
=============================================================================
