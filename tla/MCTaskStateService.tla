------------------------- MODULE MCTaskStateService -------------------------
(* Clients are interchangeable wherever no liveness is checked.            *)
EXTENDS TaskStateService, TLC

Symmetry == Permutations(Client)

LedgerUsed ==
  \/ spent > 0
  \/ \E t \in Task : store[t].reserved + store[t].committed > 0
  \/ \E c \in Client : \/ holding[c] > 0
                       \/ pc[c] = "save" /\ work[c].next.reserved > 0

(* Bound: budgets are reserved, committed, released and overwritten in the *)
(* first versions of a task without locks and failures; later versions are *)
(* explored with an empty ledger.                                          *)
LedgerEarly ==
  LedgerUsed => \A t \in Task : /\ store[t].version <= 1
                                /\ store[t].locks = {} /\ store[t].governed
                                /\ failures[t] = 0
=============================================================================
