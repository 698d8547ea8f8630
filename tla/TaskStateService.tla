-------------------------- MODULE TaskStateService --------------------------
(***************************************************************************)
(* TaskStateService (services/task_state.py) over TaskStateRepository      *)
(* (persistence/repositories/task_state.py): clients, each a coroutine of  *)
(* some API handler or background task, operate on the stored documents.   *)
(*                                                                         *)
(* Every operation reads the document, computes a new one, and writes it   *)
(* back later.  The await points between the two are the steps below; any  *)
(* other client may run there.  There are two ways to write:               *)
(*   compare_and_swap_state  SELECT, compare version, UPDATE (the UPDATE   *)
(*                           is not conditional on the version);           *)
(*   save_state              UPDATE of the whole document, unconditional.  *)
(*                                                                         *)
(* Serializable says what the database makes of the first: FALSE is READ   *)
(* COMMITTED, the PostgreSQL default that database.py leaves in force;     *)
(* TRUE is a database that fails an UPDATE of a row changed since the      *)
(* transaction's SELECT (SQLite "locked", or PostgreSQL SERIALIZABLE).     *)
(***************************************************************************)
EXTENDS TaskStateMachine, FiniteSets, FiniteSetsExt

CONSTANTS Task,
          Client,
          Ops,                \* operations the clients of this instance call
          Targets,            \* statuses the callers of transition and resume ask for
          Serializable,       \* see above
          MaxAttempts,        \* max_attempts of compare_and_swap_state
          MaxServiceRetries,  \* max_retries of TaskStateService
          Amounts,            \* amounts a client may reserve
          Cap                 \* budget_cap given to reserve_budget

CONSTANTS MaxVersion,         \* bound: no operation starts past this version
          MaxSpent,           \* bound: nothing is reserved past this amount spent
          MaxFailures,        \* bound: calls of handle_task_failure per task
          MaxRestarts         \* bound: restarts of the service process

SwapOps == {"transition", "hold", "resume", "failure", "recover"}
SaveOps == {"advance", "retry", "lock", "governance", "reserve", "settle"}

ASSUME OpsAssumption == /\ Ops \subseteq SwapOps \cup SaveOps
                        /\ Targets \subseteq Status
                        /\ Serializable \in BOOLEAN
                        /\ Serializable => Ops \subseteq SwapOps
ASSUME ClientsAssumption == IsFiniteSet(Client)
ASSUME BoundsAssumption == /\ MaxAttempts \in Nat \ {0}
                           /\ MaxServiceRetries \in Nat
                           /\ Amounts \subseteq Nat
                           /\ Cap \in Nat
                           /\ MaxVersion \in Nat
                           /\ MaxSpent \in Nat
                           /\ MaxFailures \in Nat
                           /\ MaxRestarts \in Nat

VARIABLES store,      \* store[t]: the row of task t
          failures,   \* failures[t]: _retry_counts, in the memory of the process
          restarts,   \* how often the process was restarted
          pc,         \* pc[c]: where client c is
          work,       \* work[c]: the call client c is in the middle of
          holding,    \* holding[c]: amount c was granted and has not settled
          spent       \* amounts committed so far, by anyone

vars == <<store, failures, restarts, pc, work, holding, spent>>
budget == <<holding, spent>>

(* `expected` is the version of the document the call read, `next` the     *)
(* document it will write, `attempt` the round of the CAS loop, `count`    *)
(* the failure count the call drew; with a blind save the client is `owed` *)
(* what it was granted and has not settled, and has `paid` what it commits.*)
Work == [task : Task, expected : Nat, next : Document, attempt : Nat,
         count : Nat, owed : Nat, paid : Nat]

Idle == [task |-> "none"]

Call(t, d) == [task |-> t, expected |-> store[t].version, next |-> d,
               attempt |-> 1, count |-> 0, owed |-> 0, paid |-> 0]

Init ==
  /\ store \in [Task -> {NewDocument(ls, g) : ls \in SUBSET Lock, g \in BOOLEAN}]
  /\ failures = [t \in Task |-> 0]
  /\ restarts = 0
  /\ pc = [c \in Client |-> "idle"]
  /\ work = [c \in Client |-> Idle]
  /\ holding = [c \in Client |-> 0]
  /\ spent = 0

-----------------------------------------------------------------------------
(* Outcome sets: the documents an operation may compute from document d.   *)
(* An empty set is an operation that raises before it writes.              *)
Transitions(d, via, targets) ==
  {Transition(d, s, via) : s \in {x \in targets : CanTransition(d, x)}}

Resumptions(d) ==
  IF d.status = "HELD" THEN Transitions(d, "transition", Targets) ELSE {}

Recoveries(d) ==
  {Restore(d, i) : i \in {j \in DOMAIN d.checkpoints : CanRestore(d, j)}}

SwapOutcomes(op, d) ==
  CASE op = "transition" -> Transitions(d, "transition", Targets)
    [] op = "hold"       -> Transitions(d, "transition", {"HELD"})
    [] op = "resume"     -> Resumptions(d)
    [] op = "recover"    -> Recoveries(d)
    [] OTHER             -> {}

(* "advance" is a caller that applies the state machine itself and saves   *)
(* the result, as IntelligenceEngine.delegate_task does.                   *)
SaveOutcomes(op, d) ==
  CASE op = "advance"    -> Transitions(d, "transition", Targets)
    [] op = "retry"      -> IF CanRetry(d) THEN {Retry(d)} ELSE {}
    [] op = "lock"       -> {AcquireLock(d, l) : l \in Lock} \cup {ReleaseLock(d, l) : l \in Lock}
    [] op = "governance" -> {SetGovernance(d, g) : g \in BOOLEAN}
    [] OTHER             -> {}

(* Mutant: one hold too many.                                              *)
FailureTargetLate(count) == IF count <= MaxServiceRetries + 1 THEN "HELD" ELSE "FAILED"

(* handle_task_failure holds the task until the count drawn exceeds the    *)
(* limit, and fails it from then on.                                       *)
FailureTarget(count) == IF count <= MaxServiceRetries THEN "HELD" ELSE "FAILED"

-----------------------------------------------------------------------------
(* get_state, and the computation up to the first write of a CAS.          *)
ReadForSwap(c, t) ==
  /\ pc[c] = "idle"
  /\ store[t].version < MaxVersion
  /\ \E op \in Ops \cap SwapOps : \E d \in SwapOutcomes(op, store[t]) :
        work' = [work EXCEPT ![c] = Call(t, d)]
  /\ pc' = [pc EXCEPT ![c] = "select"]
  /\ UNCHANGED <<store, failures, restarts, budget>>

(* The same, up to a blind save.                                           *)
ReadForSave(c, t) ==
  /\ pc[c] = "idle"
  /\ store[t].version < MaxVersion
  /\ \E op \in Ops \cap SaveOps : \E d \in SaveOutcomes(op, store[t]) :
        work' = [work EXCEPT ![c] = [Call(t, d) EXCEPT !.owed = holding[c]]]
  /\ pc' = [pc EXCEPT ![c] = "save"]
  /\ UNCHANGED <<store, failures, restarts, budget>>

(* handle_task_failure counts in memory before its first await ...         *)
CountFailure(c, t) ==
  /\ pc[c] = "idle"
  /\ "failure" \in Ops
  /\ failures[t] < MaxFailures
  /\ store[t].version < MaxVersion
  /\ failures' = [failures EXCEPT ![t] = @ + 1]
  /\ work' = [work EXCEPT ![c] = [Call(t, store[t]) EXCEPT !.count = failures'[t]]]
  /\ pc' = [pc EXCEPT ![c] = "counted"]
  /\ UNCHANGED <<store, restarts, budget>>

(* ... then reads the task and either moves it or raises; the count stays. *)
ReadAfterFailure(c) ==
  /\ pc[c] = "counted"
  /\ LET t == work[c].task
         s == FailureTarget(work[c].count)
     IN IF CanTransition(store[t], s)
        THEN /\ work' = [work EXCEPT ![c] = Call(t, Transition(store[t], s, "failure"))]
             /\ pc' = [pc EXCEPT ![c] = "select"]
        ELSE /\ work' = [work EXCEPT ![c] = Idle]
             /\ pc' = [pc EXCEPT ![c] = "idle"]
  /\ UNCHANGED <<store, failures, restarts, budget>>

-----------------------------------------------------------------------------
(* reserve_budget: grants the amount if the document read leaves room.     *)
ReserveBudget(c, t) ==
  /\ pc[c] = "idle" /\ holding[c] = 0
  /\ "reserve" \in Ops /\ spent < MaxSpent
  /\ \E a \in Amounts :
        /\ CanReserve(store[t], a, Cap)
        /\ work' = [work EXCEPT ![c] = [Call(t, Reserve(store[t], a)) EXCEPT !.owed = a]]
  /\ pc' = [pc EXCEPT ![c] = "save"]
  /\ UNCHANGED <<store, failures, restarts, budget>>

(* commit_budget, after the granted amount was spent.                      *)
CommitBudget(c, t) ==
  /\ pc[c] = "idle" /\ holding[c] > 0
  /\ "settle" \in Ops
  /\ work' = [work EXCEPT ![c] =
                [Call(t, Commit(store[t], holding[c])) EXCEPT !.paid = holding[c]]]
  /\ pc' = [pc EXCEPT ![c] = "save"]
  /\ UNCHANGED <<store, failures, restarts, budget>>

(* release_budget, after the execution failed.                             *)
ReleaseBudget(c, t) ==
  /\ pc[c] = "idle" /\ holding[c] > 0
  /\ "settle" \in Ops
  /\ work' = [work EXCEPT ![c] = Call(t, Release(store[t], holding[c]))]
  /\ pc' = [pc EXCEPT ![c] = "save"]
  /\ UNCHANGED <<store, failures, restarts, budget>>

-----------------------------------------------------------------------------
Return(c) ==
  /\ pc' = [pc EXCEPT ![c] = "idle"]
  /\ work' = [work EXCEPT ![c] = Idle]

(* save: the whole row is replaced by the document computed earlier.       *)
Save(c) ==
  /\ pc[c] = "save"
  /\ store' = [store EXCEPT ![work[c].task] = work[c].next]
  /\ holding' = [holding EXCEPT ![c] = work[c].owed]
  /\ spent' = spent + work[c].paid
  /\ Return(c)
  /\ UNCHANGED <<failures, restarts>>

(* The SELECT of the CAS found the version the caller had read.            *)
SelectMatches(c) ==
  /\ pc[c] = "select"
  /\ store[work[c].task].version = work[c].expected
  /\ pc' = [pc EXCEPT ![c] = "update"]
  /\ UNCHANGED <<store, failures, restarts, work, budget>>

(* It found another one: False, and the caller raises a conflict.          *)
SelectConflicts(c) ==
  /\ pc[c] = "select"
  /\ store[work[c].task].version # work[c].expected
  /\ Return(c)
  /\ UNCHANGED <<store, failures, restarts, budget>>

(* Mutant: the database does not object either.                            *)
UpdateUnguarded(c) ==
  /\ pc[c] = "update"
  /\ store' = [store EXCEPT ![work[c].task] = work[c].next]
  /\ Return(c)
  /\ UNCHANGED <<failures, restarts, budget>>

(* The UPDATE and the commit.  Only the database can object to a row that  *)
(* changed since the SELECT; the statement does not.                       *)
Update(c) ==
  /\ pc[c] = "update"
  /\ Serializable => store[work[c].task].version = work[c].expected
  /\ store' = [store EXCEPT ![work[c].task] = work[c].next]
  /\ Return(c)
  /\ UNCHANGED <<failures, restarts, budget>>

(* Mutant: the attempts are not counted.                                   *)
RetryTransactionForever(c) ==
  /\ pc[c] \in {"select", "update"}
  /\ work[c].attempt < MaxAttempts
  /\ pc' = [pc EXCEPT ![c] = "select"]
  /\ UNCHANGED <<store, failures, restarts, work, budget>>

(* A deadlock, serialization or lock error rolls back and starts the       *)
(* transaction again, until the last attempt.                              *)
RetryTransaction(c) ==
  /\ pc[c] \in {"select", "update"}
  /\ work[c].attempt < MaxAttempts
  /\ work' = [work EXCEPT ![c].attempt = @ + 1]
  /\ pc' = [pc EXCEPT ![c] = "select"]
  /\ UNCHANGED <<store, failures, restarts, budget>>

(* Any other error, or the last attempt: the exception reaches the caller. *)
WriteError(c) ==
  /\ pc[c] \in {"select", "update", "save"}
  /\ Return(c)
  /\ UNCHANGED <<store, failures, restarts, budget>>

(* The process dies and comes back: calls in progress and the failure      *)
(* counts are gone, the rows stay.                                         *)
Restart ==
  /\ restarts < MaxRestarts
  /\ restarts' = restarts + 1
  /\ failures' = [t \in Task |-> 0]
  /\ pc' = [c \in Client |-> "idle"]
  /\ work' = [c \in Client |-> Idle]
  /\ holding' = [c \in Client |-> 0]
  /\ UNCHANGED <<store, spent>>

(* What client c does next in the call it is in the middle of.             *)
Continue(c) ==
  \/ ReadAfterFailure(c)
  \/ Save(c)
  \/ SelectMatches(c)
  \/ SelectConflicts(c)
  \/ Update(c)
  \/ RetryTransaction(c)
  \/ WriteError(c)

Next ==
  \/ \E c \in Client, t \in Task :
        \/ ReadForSwap(c, t)
        \/ ReadForSave(c, t)
        \/ CountFailure(c, t)
        \/ ReserveBudget(c, t)
        \/ CommitBudget(c, t)
        \/ ReleaseBudget(c, t)
  \/ \E c \in Client : Continue(c)
  \/ Restart

Spec == Init /\ [][Next]_vars


(* The event loop runs every coroutine that can run, and the database      *)
(* answers or fails every statement; nobody is obliged to call anything.   *)
FairSpec == Spec /\ \A c \in Client : WF_vars(Continue(c))

-----------------------------------------------------------------------------
TypeOK ==
  /\ store \in [Task -> Document]
  /\ failures \in [Task -> Nat]
  /\ restarts \in Nat
  /\ pc \in [Client -> {"idle", "counted", "select", "update", "save"}]
  /\ work \in [Client -> Work \cup {Idle}]
  /\ \A c \in Client : pc[c] # "idle" => work[c] \in Work
  /\ holding \in [Client -> Nat]
  /\ spent \in Nat

(* Whatever the interleaving of reads, blind saves, swaps and restarts,    *)
(* and even when an update is lost, each stored document is explained by   *)
(* its own audit trail: one checkpoint per version, every one a legal      *)
(* transition, retry or recovery from the checkpoints before it.           *)
AuditTrailLegal == \A t \in Task : TrailLegal(store[t])

(* A task that is not held carries no hold reason, and a failure reason    *)
(* is present exactly while the task is failed: no overwrite mixes the     *)
(* status of one document with the reasons of another.                     *)
ReasonsMatchStatus == \A t \in Task : ReasonsMatch(store[t])

(* retry_count is the number of retries in the audit trail and never       *)
(* passes max_retries, also when recovery takes a failed task elsewhere.   *)
RetriesCounted ==
  \A t \in Task :
     /\ store[t].retries <= MaxRetries
     /\ store[t].retries =
          Cardinality({i \in DOMAIN store[t].checkpoints :
                          store[t].checkpoints[i].via = "retry"})

(* handle_task_failure puts a task on hold at most max_retries times in    *)
(* the lifetime of one service process; its count is lost in a restart, so *)
(* the bound grows with every restart, and no race between two failures of *)
(* the same task exceeds it.                                               *)
AttemptsBounded ==
  \A t \in Task :
     Cardinality({i \in DOMAIN store[t].checkpoints :
                     store[t].checkpoints[i] = [status |-> "HELD", via |-> "failure"]})
       <= MaxServiceRetries * (restarts + 1)

(* A checkpoint, once stored, is never lost or changed by a later write:   *)
(* what compare_and_swap_state is for.                                     *)
HistoryAppendOnly ==
  [][\A t \in Task :
        LET old == store[t].checkpoints
            new == store'[t].checkpoints
        IN Len(old) <= Len(new) /\ \A i \in DOMAIN old : new[i] = old[i]]_vars

(* Seen as logs of statuses, the rows behave as TaskLifecycle promises.    *)
StatusLog(d) == [i \in DOMAIN d.checkpoints |-> d.checkpoints[i].status]

Lifecycle == INSTANCE TaskLifecycle WITH log <- [t \in Task |-> StatusLog(store[t])]

ImplementsLifecycle == Lifecycle!LifecycleSpec

(* Every call returns or raises: the swap loop is bounded and no client    *)
(* waits for another.                                                      *)
CallsReturn == \A c \in Client : pc[c] # "idle" ~> pc[c] = "idle"

(* The ledger of a task never shows as committed what was not spent, even  *)
(* when commits, releases and transitions overwrite one another.           *)
CommittedBacked == \A t \in Task : store[t].committed <= spent
=============================================================================
