---------------------- MODULE DirectiveExecution_proofs ----------------------
(***************************************************************************)
(* That a run follows the order that TaskGraph_proofs shows to be right,   *)
(* and calls its workers as PlanContract promises, for plans of any length *)
(* and whatever operators, faults and restarts do meanwhile.               *)
(***************************************************************************)
EXTENDS DirectiveExecution, TaskGraph_proofs

\* A run has its order, and every task of the plan is stored.
Ordered == order # << >>

\* What the place of the run says of the task it is at.
AtPoint(t) ==
  /\ pc \in {"next", "blocking", "assembling", "granting", "starting", "started"}
         => outcome[t] = "waiting"
  /\ pc = "working" => outcome[t] = "working"
  /\ pc = "completing" => outcome[t] = "good"
  /\ pc \in {"holding", "failing"} => outcome[t] = "bad"
  /\ pc = "noting" => outcome[t] \in {"good", "bad"}
  /\ pc \in {"assembling", "granting", "starting", "started"} => UpstreamCompleted(t)

\* The tasks before the one the run is at are through, those after it wait.
Progress ==
  /\ \A i \in Task : /\ i < at => outcome[order[i]] \in {"good", "bad"}
                     /\ i > at => outcome[order[i]] = "waiting"
                     /\ i = at => AtPoint(order[i])
  /\ at > N => pc = "next"

IInv ==
  /\ TypeOK
  /\ \A t \in Task : t <= created => 0 \notin up[t]
  /\ phase = "queued" => created = N
  /\ phase \in {"creating", "queued", "refused", "cyclic"} => ~ Ordered
  /\ phase \in {"running", "finished", "aborted"} => Ordered
  /\ Ordered => /\ created = N /\ Progress
                /\ \A i, j \in Task : order[i] = order[j] => i = j
                /\ \A t \in Task : \E i \in Task : order[i] = t
  /\ ~ Ordered => /\ at = 1 /\ pc = "next"
                  /\ \A t \in Task : outcome[t] = "waiting"
  /\ \A t \in Task : outcome[t] # "waiting" => UpstreamCompleted(t)
  /\ phase = "finished" => at = N + 1

-----------------------------------------------------------------------------
LEMMA Sizes == N \in Nat /\ N > 0 /\ Task = 1..N
  BY PlanAssumption DEF Task

\* A document is not the absent one.
LEMMA Stored == Absent \notin Row /\ \A s \in Status, v \in Nat : [status |-> s, version |-> v] \in Row
  BY DEF Absent, Row, Status

Rows == /\ row \in [Task -> Row \cup {Absent}]
        /\ \A t \in Task : row[t] # Absent <=> t <= created

LEMMA StoreKeeps ==
  ASSUME TypeOK, created' = created, NEW t \in Task, t <= created,
         NEW s \in Status, NEW v \in Nat, Store(t, s, v)
  PROVE  Rows'
<1>1. row' = [row EXCEPT ![t] = [status |-> s, version |-> v]]
  BY DEF Store
<1>2. [status |-> s, version |-> v] \in Row /\ [status |-> s, version |-> v] # Absent
  BY Stored
<1> QED
  BY <1>1, <1>2 DEF TypeOK, Rows

\* While the run goes on every task is stored, and it is at a task of the plan.
LEMMA Running ==
  ASSUME IInv, phase = "running"
  PROVE  /\ created = N /\ order \in [Task -> Task] /\ Ordered /\ Progress
         /\ at <= N => Now \in Task /\ AtPoint(Now)
         /\ at \in 1..(N + 1) /\ (at <= N => at \in Task)
         /\ pc # "next" => at <= N
<1>1. Ordered /\ created = N /\ Progress /\ at \in 1..(N + 1)
  BY DEF IInv, TypeOK
<1>2. order \in [Task -> Task]
  BY <1>1 DEF IInv, TypeOK, Ordered
<1>3. at <= N => at \in Task
  BY <1>1, Sizes
<1>4. pc # "next" => at <= N
  BY <1>1, Sizes DEF Progress
<1> QED
  BY <1>1, <1>2, <1>3, <1>4 DEF Progress, Now

\* A step of the run with the task it is at, before or after its worker.
LEMMA PointStep ==
  ASSUME IInv, phase = "running", at <= N, phase' \in {"running", "aborted"},
         UNCHANGED <<up, created, order, at, outcome, operator, operated>>,
         pc' \in Point, faults' \in Nat, Rows', AtPoint(Now)'
  PROVE  IInv'
<1>1. TypeOK'
  BY DEF IInv, TypeOK, Rows, Phase
<1>2. Ordered /\ created = N /\ Progress /\ at \in 1..(N + 1)
  BY Running DEF IInv, TypeOK
<1>3. Progress'
  <2>1. ASSUME NEW i \in Task
        PROVE  /\ i < at => outcome[order[i]] \in {"good", "bad"}
               /\ i > at => outcome[order[i]] = "waiting"
               /\ i = at => AtPoint(order[i])'
    BY <1>2 DEF Progress, Now
  <2> QED
    BY <2>1, <1>2, Sizes DEF Progress, AtPoint, UpstreamCompleted
<1>4. \A t \in Task : outcome'[t] # "waiting" => UpstreamCompleted(t)'
  BY DEF IInv, UpstreamCompleted
<1> QED
  BY <1>1, <1>2, <1>3, <1>4 DEF IInv, Ordered

LEMMA SavesKeep ==
  ASSUME IInv, Grant \/ SaveGranted \/ SaveInProgress \/ SaveResult \/ SaveFailed \/ BlockTask
  PROVE  IInv'
<1>1. phase = "running" /\ pc # "next" /\ at <= N /\ created = N /\ Now \in Task /\ AtPoint(Now)
  BY Running DEF Grant, SaveGranted, SaveInProgress, SaveResult, SaveFailed, BlockTask, InRun
<1>2. /\ UNCHANGED <<up, created, order, at, outcome, operator, operated, faults>>
      /\ faults \in Nat
  BY DEF Grant, SaveGranted, SaveInProgress, SaveResult, SaveFailed, BlockTask, plan, others,
         IInv, TypeOK
<1>3. /\ phase' \in {"running", "aborted"} /\ pc' \in Point
      /\ \/ pc' = pc
         \/ pc = "assembling" /\ pc' = "granting"
         \/ pc = "granting" /\ pc' = "starting"
         \/ pc = "starting" /\ pc' = "started"
         \/ pc \in {"completing", "holding"} /\ pc' = "noting"
  BY <1>1 DEF Grant, SaveGranted, SaveInProgress, SaveResult, SaveFailed, BlockTask, InRun, Point,
              IInv, TypeOK
<1>4. Rows'
  <2>1. CASE UNCHANGED row
    BY <1>2, <2>1 DEF IInv, TypeOK, Rows
  <2>2. CASE \E s \in Status, v \in Nat : Store(Now, s, v)
    BY <1>1, <1>2, <2>2, Sizes, StoreKeeps DEF IInv
  <2> QED
    BY <2>1, <2>2 DEF Grant, SaveGranted, SaveInProgress, SaveResult, SaveFailed, BlockTask, Status
<1>5. AtPoint(Now)'
  BY <1>1, <1>2, <1>3 DEF AtPoint, Now, UpstreamCompleted
<1> QED
  BY <1>1, <1>2, <1>3, <1>4, <1>5, PointStep

LEMMA NextTaskKeeps == ASSUME IInv, NextTask PROVE IInv'
<1>1. /\ phase = "running" /\ pc = "next" /\ created = N /\ at \in 1..(N + 1) /\ Ordered
      /\ UNCHANGED <<up, created, order, row, at, outcome, operator, operated, faults>>
  BY Running DEF NextTask, InRun, plan, others, IInv, TypeOK
<1>2. Rows' /\ faults' \in Nat
  BY <1>1 DEF IInv, TypeOK, Rows
<1>3. CASE at <= N
  <2>1. phase' = "running" /\ pc' = IF UpstreamCompleted(Now) THEN "assembling" ELSE "blocking"
    BY <1>1, <1>3, Sizes DEF NextTask
  <2>2. AtPoint(Now)'
    BY <1>1, <1>3, <2>1, Running DEF AtPoint, Now, UpstreamCompleted
  <2>3. pc' \in Point
    BY <2>1 DEF Point
  <2> QED
    BY <1>1, <1>2, <1>3, <2>1, <2>2, <2>3, PointStep
<1>4. CASE at > N
  <2>1. phase' = "finished" /\ UNCHANGED pc /\ at = N + 1
    BY <1>1, <1>4, Sizes DEF NextTask
  <2>2. TypeOK'
    BY <1>1, <2>1 DEF IInv, TypeOK, Phase
  <2>3. Progress'
    BY <1>1, <2>1, Running DEF Progress, AtPoint, UpstreamCompleted
  <2> QED
    BY <1>1, <2>1, <2>2, <2>3 DEF IInv, Ordered, UpstreamCompleted
<1> QED
  BY <1>1, <1>3, <1>4, Sizes

\* The worker of the task the run is at is called, or comes back.
LEMMA WorkerKeeps == ASSUME IInv, CallWorker \/ WorkerReturns PROVE IInv'
<1>1. phase = "running" /\ pc # "next" /\ at <= N /\ created = N /\ Now \in Task /\ AtPoint(Now)
  BY Running DEF CallWorker, WorkerReturns, InRun
<1>2. Ordered /\ Progress /\ order \in [Task -> Task] /\ at \in Task
  BY <1>1, Running
<1>3. UNCHANGED <<up, phase, created, row, order, at, operator, operated, faults>>
  BY DEF CallWorker, WorkerReturns, plan, others
<1>4. PICK r \in {"working", "good", "bad"} :
        /\ outcome' = [outcome EXCEPT ![Now] = r]
        /\ \/ r = "working" /\ pc' = "working"
           \/ r = "good" /\ pc' = "completing"
           \/ r = "bad" /\ pc' \in {"holding", "failing"}
  BY DEF CallWorker, WorkerReturns
<1>5. TypeOK'
  BY <1>1, <1>3, <1>4 DEF IInv, TypeOK, Point
<1>6. UpstreamCompleted(Now) /\ Now \notin up[Now]
  <2>1. UpstreamCompleted(Now)
    BY <1>1 DEF AtPoint, IInv, CallWorker, WorkerReturns, InRun
  <2>2. outcome[Now] # "good"
    BY <1>1 DEF AtPoint, CallWorker, WorkerReturns, InRun
  <2> QED
    BY <2>1, <2>2 DEF UpstreamCompleted
\* Nobody waits for what changes: only a completed task is relied on.
<1>7. \A t \in Task : UpstreamCompleted(t) => UpstreamCompleted(t)'
  <2>1. outcome[Now] # "good"
    BY <1>1 DEF AtPoint, CallWorker, WorkerReturns, InRun
  <2>2. ASSUME NEW t \in Task, NEW u \in up[t], outcome[u] = "good" PROVE outcome'[u] = "good"
    <3>1. u # Now
      BY <2>1, <2>2
    <3>2. CASE u \in Task
      BY <1>4, <2>2, <3>1, <3>2 DEF IInv, TypeOK
    <3>3. CASE u \notin Task
      BY <1>1, <2>2, <3>3, Sizes DEF IInv, TypeOK
    <3> QED
      BY <3>2, <3>3
  <2> QED
    BY <1>3, <2>2 DEF UpstreamCompleted
<1>8. Progress'
  <2>1. \A i \in Task : i # at => outcome'[order[i]] = outcome[order[i]]
    BY <1>2, <1>4 DEF IInv, TypeOK, Now
  <2>2. outcome'[Now] = r
    BY <1>1, <1>4 DEF IInv, TypeOK
  <2>3. AtPoint(Now)'
    BY <1>3, <1>4, <2>2 DEF AtPoint, Now
  <2> QED
    BY <1>1, <1>2, <1>3, <2>1, <2>3, Sizes DEF Progress, Now
<1>9. \A t \in Task : outcome'[t] # "waiting" => UpstreamCompleted(t)'
  BY <1>4, <1>6, <1>7 DEF IInv, TypeOK
<1> QED
  BY <1>1, <1>2, <1>3, <1>5, <1>8, <1>9 DEF IInv, Ordered

LEMMA AdvanceKeeps == ASSUME IInv, Advance PROVE IInv'
<1>1. /\ phase = "running" /\ pc = "noting" /\ at \in Task /\ created = N /\ Now \in Task
      /\ AtPoint(Now) /\ Ordered /\ Progress /\ order \in [Task -> Task]
  BY Running DEF Advance, InRun
<1>2. /\ at' = at + 1 /\ pc' = "next"
      /\ UNCHANGED <<up, phase, created, row, order, outcome, operator, operated, faults>>
  BY DEF Advance, plan, others
<1>3. TypeOK'
  <2>1. at' \in 1..(N + 1) /\ pc' \in Point
    BY <1>1, <1>2, Sizes DEF Point
  <2> QED
    BY <1>2, <2>1 DEF IInv, TypeOK
<1>4. Progress'
  <2>1. ASSUME NEW i \in Task
        PROVE  /\ i < at + 1 => outcome[order[i]] \in {"good", "bad"}
               /\ i > at => outcome[order[i]] = "waiting"
    BY <1>1, Sizes DEF Progress, AtPoint, Now
  <2> QED
    BY <1>1, <1>2, <2>1, Sizes DEF Progress, AtPoint
<1>5. \A t \in Task : outcome'[t] # "waiting" => UpstreamCompleted(t)'
  BY <1>2 DEF IInv, UpstreamCompleted
<1> QED
  BY <1>1, <1>2, <1>3, <1>4, <1>5 DEF IInv, Ordered

-----------------------------------------------------------------------------
\* Steps that leave the order and the place of the run alone.
LEMMA OutsideStep ==
  ASSUME IInv, TypeOK', UNCHANGED <<up, order, at, pc, outcome>>,
         created' = created \/ (~ Ordered /\ phase = "creating"),
         \A t \in Task : t <= created' => 0 \notin up[t],
         \/ phase' = phase
         \/ phase' \in {"refused", "cyclic"} /\ ~ Ordered
         \/ phase' = "queued" /\ ~ Ordered /\ created' = N
         \/ phase' = "aborted" /\ Ordered
         \/ phase' = "lost"
  PROVE  IInv'
<1>1. \A t \in Task : UpstreamCompleted(t)' <=> UpstreamCompleted(t)
  BY DEF UpstreamCompleted
<1>2. Progress' <=> Progress
  BY <1>1 DEF Progress, AtPoint, UpstreamCompleted
<1> QED
  BY <1>1, <1>2 DEF IInv, Ordered

LEMMA CreateKeeps == ASSUME IInv, CreateTask \/ Enqueue PROVE IInv'
<1>1. phase = "creating" /\ ~ Ordered
  BY DEF CreateTask, Enqueue, IInv
<1>2. UNCHANGED <<up, order, at, pc, outcome, operator, operated, faults>>
  BY DEF CreateTask, Enqueue, plan, others
<1>3. CASE UNCHANGED <<row, created>>
  <2>1. phase' \in {"refused", "queued"} /\ (phase' = "queued" => created' = N)
    <3>1. CASE Enqueue
      BY <1>3, <3>1 DEF Enqueue
    <3>2. CASE CreateTask
      BY <1>3, <3>2, Sizes DEF CreateTask, IInv, TypeOK
    <3> QED
      BY <3>1, <3>2
  <2>2. TypeOK'
    BY <1>2, <1>3, <2>1 DEF IInv, TypeOK, Phase
  <2>3. \A t \in Task : t <= created' => 0 \notin up[t]
    BY <1>3 DEF IInv
  <2> QED
    BY <1>1, <1>2, <1>3, <2>1, <2>2, <2>3, OutsideStep
<1>4. CASE ~ UNCHANGED <<row, created>>
  <2>1. /\ created + 1 \in Task /\ created \in 0..N
        /\ up[created + 1] \cap {0, created + 1} = {}
        /\ Store(created + 1, "PENDING", 0) /\ created' = created + 1 /\ phase' = phase
    BY <1>4, Sizes DEF CreateTask, Enqueue, plan, IInv, TypeOK
  <2>2. row' = [row EXCEPT ![created + 1] = [status |-> "PENDING", version |-> 0]]
    BY <2>1 DEF Store
  <2>3. /\ [status |-> "PENDING", version |-> 0] \in Row
        /\ [status |-> "PENDING", version |-> 0] # Absent
    BY Stored DEF Status
  <2>4. Rows'
    BY <2>1, <2>2, <2>3, Sizes DEF IInv, TypeOK, Rows
  <2>5. operator' \in {Quiet} \cup [task : 1..created', expected : Nat, status : Status]
    BY <1>2, <2>1, Sizes DEF IInv, TypeOK
  <2>6. TypeOK'
    BY <1>2, <2>1, <2>4, <2>5, Sizes DEF IInv, TypeOK, Rows
  <2>7. \A t \in Task : t <= created' => 0 \notin up[t]
    BY <2>1, Sizes DEF IInv
  <2> QED
    BY <1>1, <1>2, <2>1, <2>6, <2>7, OutsideStep
<1> QED
  BY <1>3, <1>4

\* The order of a plan that is not refused, by OrderIsSound.
LEMMA PlansAreFinite == ASSUME TypeOK PROVE Finite(N, up)
<1>1. IsFiniteSet(0..N)
  <2>1. 0 \in Int /\ N \in Int
    BY Sizes
  <2> QED
    BY <2>1, FS_Interval
<1>2. ASSUME NEW t \in 1..N PROVE IsFiniteSet(up[t])
  <2>1. up[t] \subseteq 0..N
    BY DEF TypeOK, Task
  <2> QED
    BY <1>1, <2>1, FS_Subset
<1> QED
  BY <1>2 DEF Finite

LEMMA PlanOrder ==
  ASSUME TypeOK, ~ IsCyclic(N, up)
  PROVE  LET seq == TopologicalOrder(N, up)
         IN /\ seq \in [Task -> Task]
            /\ \A i, j \in Task : seq[i] = seq[j] => i = j
            /\ \A t \in Task : \E i \in Task : seq[i] = t
            /\ UpstreamFirst(N, up, seq)
<1> DEFINE seq == TopologicalOrder(N, up)
<1>1. seq \in [1..N -> 1..N] /\ Once(seq) /\ UpstreamFirst(N, up, seq)
  BY PlansAreFinite, OrderIsSound, Sizes
<1>2. {seq[i] : i \in 1..N} = 1..N /\ Len(seq) = N
  <2>1. DOMAIN seq = 1..N
    BY <1>1
  <2> QED
    BY <1>1, <2>1 DEF UpstreamFirst
<1> HIDE DEF seq
<1>3. /\ \A i, j \in Task : seq[i] = seq[j] => i = j
      /\ \A t \in Task : \E i \in Task : seq[i] = t
  BY <1>1, <1>2 DEF Once, Task
<1>4. seq \in [Task -> Task]
  BY <1>1 DEF Task
<1> QED
  BY <1>1, <1>3, <1>4 DEF seq

LEMMA StartKeeps == ASSUME IInv, StartRun PROVE IInv'
<1>1. /\ phase = "queued" /\ ~ Ordered /\ created = N
      /\ UNCHANGED <<up, created, row, at, pc, outcome, operator, operated, faults>>
  BY DEF StartRun, IInv, others
<1>2. CASE IsCyclic(N, up)
  <2>1. phase' = "cyclic" /\ order' = order
    BY <1>2 DEF StartRun
  <2>2. TypeOK' /\ (\A t \in Task : t <= created' => 0 \notin up[t])
    BY <1>1, <2>1 DEF IInv, TypeOK, Phase
  <2> QED
    BY <1>1, <2>1, <2>2, OutsideStep
<1>3. CASE ~ IsCyclic(N, up)
  <2>1. phase' = "running" /\ order' = TopologicalOrder(N, up)
    BY <1>3 DEF StartRun
  <2>3. /\ order' \in [Task -> Task]
        /\ \A i, j \in Task : order'[i] = order'[j] => i = j
        /\ \A t \in Task : \E i \in Task : order'[i] = t
    BY <1>3, <2>1, PlanOrder DEF IInv
  <2>4. order' # << >>
    <3>1. 1 \in DOMAIN order' /\ DOMAIN << >> = {}
      BY <2>3, Sizes
    <3> QED
      BY <3>1
  <2>5. TypeOK'
    BY <1>1, <2>1, <2>3 DEF IInv, TypeOK, Phase
  <2>6. at = 1 /\ pc = "next" /\ \A t \in Task : outcome[t] = "waiting"
    BY <1>1 DEF IInv
  <2>7. Progress'
    <3>1. /\ at' = 1 /\ pc' = "next" /\ N \in Nat /\ N > 0
          /\ \A i \in Task : outcome'[order'[i]] = "waiting"
      BY <1>1, <2>3, <2>6, Sizes
    <3>2. \A i \in Task : ~ (i < at') /\ (i = at' => AtPoint(order[i])')
      BY <1>1, <3>1, Sizes DEF AtPoint
    <3> QED
      BY <3>1, <3>2 DEF Progress
  <2> QED
    BY <1>1, <2>1, <2>3, <2>4, <2>5, <2>6, <2>7 DEF IInv, Ordered, UpstreamCompleted
<1> QED
  BY <1>2, <1>3

LEMMA EndingsKeep == ASSUME IInv, Fault \/ Restart PROVE IInv'
<1>1. /\ UNCHANGED <<up, created, row, order, at, pc, outcome, operator, operated>>
      /\ faults' \in Nat
  BY DEF Fault, Restart, plan, others, IInv, TypeOK
<1>2. \/ phase = "creating" /\ phase' = "refused"
      \/ phase = "running" /\ phase' = "aborted"
      \/ phase' = "lost"
  BY DEF Fault, Restart
<1>3. TypeOK'
  BY <1>1, <1>2 DEF IInv, TypeOK, Phase
<1>4. /\ phase = "creating" => ~ Ordered
      /\ phase = "running" => Ordered
      /\ \A t \in Task : t <= created' => 0 \notin up[t]
  BY <1>1 DEF IInv
<1> QED
  BY <1>1, <1>2, <1>3, <1>4, OutsideStep

LEMMA OperatorKeeps ==
  ASSUME IInv, OperatorSwaps \/ \E t \in Task : OperatorReads(t) PROVE IInv'
<1>1. UNCHANGED <<up, phase, created, order, at, pc, outcome, faults>>
  BY DEF OperatorSwaps, OperatorReads, plan
<1>2. TypeOK'
  <2>1. CASE OperatorSwaps
    <3>1. /\ operator.task \in Task /\ operator.task <= created
          /\ operator.status \in Status /\ operator.expected + 1 \in Nat
      <4>1. /\ operator \in [task : 1..created, expected : Nat, status : Status]
            /\ created \in 0..N
        BY <2>1 DEF OperatorSwaps, IInv, TypeOK
      <4> QED
        BY <4>1, Sizes
    <3>2. Rows'
      <4>1. CASE UNCHANGED row
        BY <1>1, <4>1 DEF IInv, TypeOK, Rows
      <4>2. CASE Store(operator.task, operator.status, operator.expected + 1)
        BY <1>1, <3>1, <4>2, StoreKeeps DEF IInv
      <4> QED
        BY <2>1, <4>1, <4>2 DEF OperatorSwaps
    <3> QED
      BY <1>1, <2>1, <3>2 DEF OperatorSwaps, IInv, TypeOK, Rows
  <2>2. ASSUME NEW t \in Task, OperatorReads(t) PROVE TypeOK'
    <3>1. row[t] \in Row /\ t \in 1..created
      BY <2>2, Sizes DEF OperatorReads, IInv, TypeOK
    <3>2. PICK s \in {"HELD", "PENDING"} :
            operator' = [task |-> t, expected |-> row[t].version, status |-> s]
      BY <2>2 DEF OperatorReads
    <3>3. operator' \in [task : 1..created', expected : Nat, status : Status]
      BY <1>1, <3>1, <3>2 DEF Row, Status
    <3>4. row' = row /\ operated' \in Nat
      BY <2>2 DEF OperatorReads, IInv, TypeOK
    <3> QED
      BY <1>1, <3>3, <3>4 DEF IInv, TypeOK
  <2> QED
    BY <2>1, <2>2
<1>3. \A t \in Task : t <= created' => 0 \notin up[t]
  BY <1>1 DEF IInv
<1> QED
  BY <1>1, <1>2, <1>3, OutsideStep

-----------------------------------------------------------------------------
LEMMA InitIInv == Init => IInv
<1> SUFFICES ASSUME Init PROVE IInv
  OBVIOUS
<1>1. TypeOK
  BY Sizes DEF Init, TypeOK, Phase, Point, Absent
<1> QED
  BY <1>1, Sizes DEF Init, IInv, Ordered

LEMMA StepIInv == ASSUME IInv, [Next]_vars PROVE IInv'
<1>1. CASE UNCHANGED vars
  BY <1>1, OutsideStep DEF vars, IInv, TypeOK
<1>2. CASE Next
  BY <1>2, CreateKeeps, StartKeeps, NextTaskKeeps, SavesKeep, WorkerKeeps, AdvanceKeeps,
     EndingsKeep, OperatorKeeps DEF Next, Request, Run, Delegate
<1> QED
  BY <1>1, <1>2

\* The invariant that the theorems below rest on.
THEOREM Inductive == Spec => []IInv
BY InitIInv, StepIInv, PTL DEF Spec

\* TypeOK, with the stored documents that the request has got to.
THEOREM TypeCorrect == Spec => []TypeOK
<1>1. IInv => TypeOK
  BY DEF IInv
<1> QED
  BY <1>1, Inductive, PTL

\* OrderSound: a run follows an order that has every task of the plan once and
\* behind its upstream tasks, and a plan is reported as cyclic only if it is.
LEMMA StepOrder == ASSUME IInv, OrderSound, [Next]_vars PROVE OrderSound'
<1>1. CASE StartRun
  <2>1. phase = "queued" /\ ~ Ordered /\ UNCHANGED up /\ TypeOK
    BY <1>1 DEF StartRun, IInv
  <2>2. CASE IsCyclic(N, up)
    <3>1. phase' = "cyclic" /\ Stuck(N, up)
      BY <1>1, <2>1, <2>2, PlansAreFinite, RefusalIsSound, Sizes DEF StartRun
    <3> QED
      BY <2>1, <3>1 DEF OrderSound
  <2>3. CASE ~ IsCyclic(N, up)
    <3>1. phase' = "running" /\ order' = TopologicalOrder(N, up)
      BY <1>1, <2>3 DEF StartRun
    <3>2. UpstreamFirst(N, up, order')
      BY <2>1, <2>3, <3>1, PlanOrder
    <3> QED
      BY <2>1, <3>1, <3>2 DEF OrderSound
  <2> QED
    BY <2>2, <2>3
<1>2. CASE /\ UNCHANGED <<up, order>>
           /\ phase' \in {"running", "finished", "aborted"} =>
                phase \in {"running", "finished", "aborted"}
           /\ phase' = "cyclic" => phase = "cyclic"
  BY <1>2 DEF OrderSound
<1>3. CASE CreateTask \/ Enqueue
  BY <1>2, <1>3 DEF CreateTask, Enqueue, plan
<1>4. CASE NextTask \/ BlockTask \/ Advance \/ Delegate
  BY <1>2, <1>4 DEF NextTask, BlockTask, Advance, Delegate, Grant, SaveGranted, SaveInProgress,
                    CallWorker, WorkerReturns, SaveResult, SaveFailed, InRun, plan
<1>5. CASE Fault \/ Restart \/ OperatorSwaps \/ \E t \in Task : OperatorReads(t)
  BY <1>2, <1>5 DEF Fault, Restart, OperatorSwaps, OperatorReads, plan
<1>6. CASE UNCHANGED vars
  BY <1>2, <1>6 DEF vars
<1> QED
  BY <1>1, <1>3, <1>4, <1>5, <1>6 DEF Next, Request, Run

THEOREM OrdersAreSound == Spec => []OrderSound
<1>1. Init => OrderSound
  BY DEF Init, OrderSound
<1> QED
  BY <1>1, StepOrder, Inductive, PTL DEF Spec

\* FinishedIsComplete: a run that ends without an exception has called the
\* worker of every task, and a task found wanting had nobody waiting for it.
THEOREM Completeness == Spec => []FinishedIsComplete
<1>1. ASSUME IInv PROVE FinishedIsComplete
  <2> SUFFICES ASSUME phase = "finished", NEW t \in Task
               PROVE  \/ outcome[t] = "good"
                      \/ outcome[t] = "bad" /\ \A u \in Task : t \notin up[u]
    BY DEF FinishedIsComplete
  <2>1. \A u \in Task : outcome[u] \in {"good", "bad"}
    <3>1. Progress /\ at = N + 1 /\ \A u \in Task : \E i \in Task : order[i] = u
      BY <1>1 DEF IInv
    <3>2. \A i \in Task : i < at
      BY <3>1, Sizes
    <3> QED
      BY <3>1, <3>2 DEF Progress
  <2>2. \A u \in Task : \A v \in up[u] : outcome[v] = "good"
    BY <1>1, <2>1 DEF IInv, UpstreamCompleted
  <2> QED
    BY <2>1, <2>2
<1> QED
  BY <1>1, Inductive, PTL

-----------------------------------------------------------------------------
\* A run that calls a worker makes a step of the contract; the end of the
\* request or of the run closes it, whatever brings it about.
LEMMA StepContract ==
  ASSUME IInv, [Next]_vars
  PROVE  [Contract!ContractNext]_(<<up, outcome, phase \in {"creating", "queued", "running"}>>)
<1> DEFINE Open == phase \in {"creating", "queued", "running"}
<1>1. CASE CallWorker
  <2>1. phase = "running" /\ pc = "started" /\ Now \in Task /\ AtPoint(Now)
    BY <1>1, Running DEF CallWorker, InRun
  <2>2. /\ outcome' = [outcome EXCEPT ![Now] = "working"]
        /\ phase' = phase /\ up' = up
    BY <1>1 DEF CallWorker, plan
  <2>3. outcome[Now] = "waiting" /\ \A u \in up[Now] : u \in Task /\ outcome[u] = "good"
    <3>1. 0 \notin up[Now] /\ up[Now] \subseteq 0..N
      BY <2>1, Running, Sizes DEF IInv, TypeOK
    <3> QED
      BY <2>1, <3>1, Sizes DEF AtPoint, UpstreamCompleted
  <2>4. Contract!Begin(Now)
    BY <2>1, <2>2, <2>3 DEF Contract!Begin, Task
  <2> QED
    BY <2>1, <2>4 DEF Contract!ContractNext, Task
<1>2. CASE WorkerReturns
  <2>1. phase = "running" /\ pc = "working" /\ Now \in Task /\ AtPoint(Now)
    BY <1>2, Running DEF WorkerReturns, InRun
  <2>2. /\ \E r \in {"good", "bad"} : outcome' = [outcome EXCEPT ![Now] = r]
        /\ phase' = phase /\ up' = up
    BY <1>2 DEF WorkerReturns, plan
  <2>3. Contract!End(Now)
    BY <2>1, <2>2 DEF Contract!End, AtPoint
  <2> QED
    BY <2>1, <2>3 DEF Contract!ContractNext, Task
<1>3. CASE UNCHANGED <<up, outcome>> /\ (Open' => Open)
  BY <1>3 DEF Contract!ContractNext, Contract!Close
<1>4. CASE Request
  BY <1>3, <1>4 DEF Request, CreateTask, Enqueue, StartRun, plan
<1>5. CASE NextTask \/ BlockTask \/ Advance \/ Grant \/ SaveGranted \/ SaveInProgress
           \/ SaveResult \/ SaveFailed
  BY <1>3, <1>5 DEF NextTask, BlockTask, Advance, Grant, SaveGranted, SaveInProgress,
                    SaveResult, SaveFailed, InRun, plan
<1>6. CASE Fault \/ Restart \/ OperatorSwaps \/ \E t \in Task : OperatorReads(t)
  BY <1>3, <1>6 DEF Fault, Restart, OperatorSwaps, OperatorReads, plan
<1>7. CASE UNCHANGED vars
  BY <1>3, <1>7 DEF vars
<1> QED
  BY <1>1, <1>2, <1>4, <1>5, <1>6, <1>7 DEF Next, Run, Delegate

\* ImplementsContract: whatever operators, errors and restarts do, a worker
\* is called at most once, after its upstream workers have succeeded, and
\* never when the run is over.
THEOREM Refinement == Spec => ImplementsContract
<1>1. Init => Contract!ContractInit
  BY DEF Init, Contract!ContractInit, Task
<1> QED
  BY <1>1, StepContract, Inductive, PTL DEF Spec, ImplementsContract, Contract!ContractSpec

=============================================================================
