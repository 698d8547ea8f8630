------------------------- MODULE DirectiveExecution -------------------------
(***************************************************************************)
(* From a plan to its workers: execute_directive (api/routes/directives.py)*)
(* saves one task per plan step and enqueues a background run;             *)
(* IntelligenceEngine.execute_dag orders the tasks and delegates them one  *)
(* after the other (delegate_task, assemble_task_grant), saving each       *)
(* status it passes.  The run works on the documents it was started with   *)
(* and never reads the store; operators hold and resume stored tasks       *)
(* meanwhile, through hold_task and resume_task (a read, then a swap on    *)
(* the version).  Errors end the request or the run; a restart loses it.   *)
(*                                                                         *)
(* Tasks are numbered in plan order.  up[t] are the steps that step t      *)
(* declares as dependencies; 0 stands for a step id that the plan lacks.   *)
(***************************************************************************)
EXTENDS TaskGraph

CONSTANTS N,           \* number of plan steps
          MaxOperated, \* bound: calls of hold_task and resume_task
          MaxFaults    \* bound: errors of the store, recorder or assembler

ASSUME PlanAssumption == N \in Nat \ {0} /\ MaxOperated \in Nat /\ MaxFaults \in Nat

INSTANCE TaskStateMachine WITH Lock <- {}, MaxRetries <- 0

VARIABLES up,        \* the dependencies of the plan
          phase,     \* of the request, then of the run
          created,   \* tasks 1..created are stored
          row,       \* row[t]: status and version of the stored document
          order,     \* ordered_ids
          at,        \* index of the task that execute_dag is at
          pc,        \* where the run is with that task
          outcome,   \* outcome[t]: what became of the worker of t
          operator,  \* the call an operator is in the middle of
          operated,  \* operator calls so far
          faults     \* errors so far

vars == <<up, phase, created, row, order, at, pc, outcome, operator, operated, faults>>
plan == <<up, created, order>>
others == <<operator, operated, faults>>

Task == 1..N
Row == [status : Status, version : Nat]
Absent == [status |-> "none"]
Quiet == [task |-> 0]

Phase == {"creating", "queued", "running", "refused", "cyclic",
          "finished", "aborted", "lost"}
Point == {"next", "blocking", "assembling", "granting", "starting", "started",
          "working", "completing", "holding", "failing", "noting"}

Init ==
  /\ up \in [Task -> SUBSET (0..N)]
  /\ phase = "creating" /\ created = 0
  /\ row = [t \in Task |-> Absent]
  /\ order = << >> /\ at = 1 /\ pc = "next"
  /\ outcome = [t \in Task |-> "waiting"]
  /\ operator = Quiet /\ operated = 0 /\ faults = 0

Now == order[at]

Store(t, status, version) ==
  row' = [row EXCEPT ![t] = [status |-> status, version |-> version]]

-----------------------------------------------------------------------------
(* Mutant: a save that fails goes unnoticed.                               *)
CreateTaskUnsaved ==
  /\ phase = "creating" /\ created < N
  /\ IF up[created + 1] \cap {0, created + 1} # {}
     THEN phase' = "refused" /\ UNCHANGED created
     ELSE created' = created + 1 /\ UNCHANGED phase
  /\ UNCHANGED <<up, row, order, at, pc, outcome, others>>

(* Pass 2 of execute_directive, one step of the plan.  A step that names   *)
(* itself or a missing step is refused; the tasks before it stay stored.   *)
CreateTask ==
  /\ phase = "creating" /\ created < N
  /\ LET t == created + 1
     IN IF up[t] \cap {0, t} # {}
        THEN phase' = "refused" /\ UNCHANGED <<row, created>>
        ELSE /\ Store(t, "PENDING", 0)
             /\ created' = t
             /\ UNCHANGED phase
  /\ UNCHANGED <<up, order, at, pc, outcome, others>>

Enqueue ==
  /\ phase = "creating" /\ created = N
  /\ phase' = "queued"
  /\ UNCHANGED <<plan, row, at, pc, outcome, others>>

(* execute_dag up to its loop.                                             *)
StartRun ==
  /\ phase = "queued"
  /\ IF IsCyclic(N, up)
     THEN phase' = "cyclic" /\ UNCHANGED order
     ELSE phase' = "running" /\ order' = TopologicalOrder(N, up)
  /\ UNCHANGED <<up, created, row, at, pc, outcome, others>>

-----------------------------------------------------------------------------
InRun(p) == phase = "running" /\ pc = p

(* Mutant: only a failed upstream task stops a task.                       *)
UpstreamCompletedLax(t) == \A u \in up[t] : outcome[u] # "waiting"

UpstreamCompleted(t) == \A u \in up[t] : outcome[u] = "good"

(* Mutant: waits for the upstream tasks.                                   *)
NextTaskWaiting ==
  /\ InRun("next")
  /\ IF at > N
     THEN phase' = "finished" /\ UNCHANGED pc
     ELSE /\ UpstreamCompleted(Now)
          /\ pc' = "assembling"
          /\ UNCHANGED phase
  /\ UNCHANGED <<plan, row, at, outcome, others>>

(* The head of the loop.                                                   *)
NextTask ==
  /\ InRun("next")
  /\ IF at > N
     THEN phase' = "finished" /\ UNCHANGED pc
     ELSE /\ pc' = IF UpstreamCompleted(Now) THEN "assembling" ELSE "blocking"
          /\ UNCHANGED phase
  /\ UNCHANGED <<plan, row, at, outcome, others>>

(* Mutant: holds the task and goes on with the next one.                   *)
BlockTaskSkipping ==
  /\ InRun("blocking")
  /\ Store(Now, "HELD", 1)
  /\ at' = at + 1 /\ pc' = "next"
  /\ UNCHANGED <<plan, phase, outcome, others>>

(* A task whose upstream is not completed is held, and the run raises.     *)
BlockTask ==
  /\ InRun("blocking")
  /\ Store(Now, "HELD", 1)
  /\ phase' = "aborted"
  /\ UNCHANGED <<plan, at, pc, outcome, others>>

(* assemble_task_grant looks at the document of the run, which is PENDING, *)
(* free of locks and has its upstream completed; then delegate_task saves  *)
(* GRANTED and IN_PROGRESS.                                                *)
Grant ==
  /\ InRun("assembling")
  /\ pc' = "granting"
  /\ UNCHANGED <<plan, phase, row, at, outcome, others>>

SaveGranted ==
  /\ InRun("granting")
  /\ Store(Now, "GRANTED", 1)
  /\ pc' = "starting"
  /\ UNCHANGED <<plan, phase, at, outcome, others>>

SaveInProgress ==
  /\ InRun("starting")
  /\ Store(Now, "IN_PROGRESS", 2)
  /\ pc' = "started"
  /\ UNCHANGED <<plan, phase, at, outcome, others>>

CallWorker ==
  /\ InRun("started")
  /\ outcome' = [outcome EXCEPT ![Now] = "working"]
  /\ pc' = "working"
  /\ UNCHANGED <<plan, phase, row, at, others>>

(* Evidence that passes, evidence that does not, or an exception.          *)
WorkerReturns ==
  /\ InRun("working")
  /\ \/ outcome' = [outcome EXCEPT ![Now] = "good"] /\ pc' = "completing"
     \/ /\ outcome' = [outcome EXCEPT ![Now] = "bad"]
        /\ \E p \in {"holding", "failing"} : pc' = p
  /\ UNCHANGED <<plan, phase, row, at, others>>

SaveResult ==
  /\ phase = "running" /\ pc \in {"completing", "holding"}
  /\ Store(Now, IF pc = "completing" THEN "COMPLETED" ELSE "HELD", 3)
  /\ pc' = "noting"
  /\ UNCHANGED <<plan, phase, at, outcome, others>>

(* Provenance is recorded, the result kept, and the loop goes on.          *)
Advance ==
  /\ InRun("noting")
  /\ at' = at + 1 /\ pc' = "next"
  /\ UNCHANGED <<plan, phase, row, outcome, others>>

SaveFailed ==
  /\ InRun("failing")
  /\ Store(Now, "FAILED", 3)
  /\ phase' = "aborted"
  /\ UNCHANGED <<plan, at, pc, outcome, others>>

-----------------------------------------------------------------------------
(* A save, the recorder or the assembly of the context raises.             *)
Fault ==
  /\ faults < MaxFaults
  /\ \/ phase = "creating" /\ phase' = "refused"
     \/ /\ phase = "running" /\ pc \notin {"next", "working"}
        /\ phase' = "aborted"
  /\ faults' = faults + 1
  /\ UNCHANGED <<plan, row, at, pc, outcome, operator, operated>>

(* The process dies: nothing takes the request or the run up again.        *)
Restart ==
  /\ phase \in {"creating", "queued", "running"}
  /\ phase' = "lost"
  /\ UNCHANGED <<plan, row, at, pc, outcome, others>>

(* hold_task, or resume_task to PENDING, reads the stored task ...         *)
OperatorReads(t) ==
  /\ operator = Quiet /\ operated < MaxOperated
  /\ row[t] # Absent
  /\ \E s \in {"HELD", "PENDING"} :
        /\ s \in LegalNextStates(row[t].status)
        /\ operator' = [task |-> t, expected |-> row[t].version, status |-> s]
  /\ operated' = operated + 1
  /\ UNCHANGED <<plan, phase, row, at, pc, outcome, faults>>

(* ... and swaps, if the version is still the one it read.                 *)
OperatorSwaps ==
  /\ operator # Quiet
  /\ IF row[operator.task].version = operator.expected
     THEN Store(operator.task, operator.status, operator.expected + 1)
     ELSE UNCHANGED row
  /\ operator' = Quiet
  /\ UNCHANGED <<plan, phase, at, pc, outcome, operated, faults>>

Request == CreateTask \/ Enqueue \/ StartRun

Delegate ==
  \/ Grant
  \/ SaveGranted
  \/ SaveInProgress
  \/ CallWorker
  \/ WorkerReturns
  \/ SaveResult
  \/ SaveFailed

Run == NextTask \/ BlockTask \/ Delegate \/ Advance

Next ==
  \/ Request
  \/ Run
  \/ Fault
  \/ Restart
  \/ \E t \in Task : OperatorReads(t)
  \/ OperatorSwaps

Spec == Init /\ [][Next]_vars

(* The server runs the request and its background task, and the workers    *)
(* return: their sandbox calls have a timeout.                             *)
FairSpec == Spec /\ WF_vars(Request) /\ WF_vars(Run)

-----------------------------------------------------------------------------
TypeOK ==
  /\ up \in [Task -> SUBSET (0..N)]
  /\ phase \in Phase
  /\ created \in 0..N
  /\ row \in [Task -> Row \cup {Absent}]
  /\ \A t \in Task : row[t] # Absent <=> t <= created
  /\ order = << >> \/ order \in [Task -> Task]
  /\ at \in 1..(N + 1)
  /\ pc \in Point
  /\ outcome \in [Task -> {"waiting", "working", "good", "bad"}]
  /\ operator \in {Quiet} \cup [task : 1..created, expected : Nat, status : Status]
  /\ operated \in Nat
  /\ faults \in Nat

(* A run follows an order that has every task of the plan once and behind  *)
(* its upstream tasks; a plan is reported as cyclic only if it really is.  *)
OrderSound ==
  /\ phase \in {"running", "finished", "aborted"} /\ order # << >> =>
        UpstreamFirst(N, up, order)
  /\ phase = "cyclic" => Stuck(N, up)

(* Workers are called as PlanContract promises, whatever operators do to   *)
(* the stored tasks meanwhile.                                             *)
Contract == INSTANCE PlanContract WITH
  open <- phase \in {"creating", "queued", "running"}

ImplementsContract == Contract!ContractSpec

(* A run that ends without an exception has called the worker of every     *)
(* task, and only tasks nobody waits for may have been found wanting.      *)
FinishedIsComplete ==
  phase = "finished" =>
    \A t \in Task : \/ outcome[t] = "good"
                    \/ outcome[t] = "bad" /\ \A u \in Task : t \notin up[u]

(* Unless a restart cuts it off, a request ends by itself: it is refused,  *)
(* its plan is cyclic, or its run finishes or aborts, and then none of its *)
(* workers is still at work.  (That it has ended is not stored anywhere: a *)
(* caller sees the rows of the tasks, and a lost run looks like a slow     *)
(* one.)                                                                   *)
RunsEnd ==
  phase \in {"creating", "queued", "running"} ~>
     \/ phase = "lost"
     \/ /\ phase \in {"refused", "cyclic", "finished", "aborted"}
        /\ \A t \in Task : outcome[t] # "working"
=============================================================================
