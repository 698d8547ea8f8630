-------------------------- MODULE OutboundDispatch --------------------------
(***************************************************************************)
(* OutboundGateway.execute (mcp/outbound_gateway.py): approved, signed     *)
(* dispatches of one task are sent to an external provider by concurrent   *)
(* callers, under a budget, while operators hold, resume, approve and      *)
(* revoke, the database fails and the process restarts.  The gateway has a *)
(* TaskStateService and a ProvenanceRecorder wired.                        *)
(*                                                                         *)
(* One step per await of execute.  A save, a swap or a budget call of the  *)
(* gateway is one step here (TaskStateService.tla opens them up), a call   *)
(* of an operator is two: documents that are kept across awaits and then   *)
(* written back, ledger included, are the subject.                         *)
(*                                                                         *)
(* DISPATCH_INTENT, AMBIGUOUS_TIMEOUT and RECONCILIATION_REQUIRED are told *)
(* apart nowhere in the code: they are one record value, "open".           *)
(***************************************************************************)
EXTENDS Naturals, FiniteSets, Functions

CONSTANTS Dispatch,        \* idempotency keys of the dispatches of the task
          Caller,          \* coroutines that call execute
          Reconcilable,    \* dispatches whose adapter has a reconcile method
          Amount,          \* Amount[d]: spend requested by d
          Cap,             \* approved spend of the clearance
          MaxConcurrency,  \* permits of the semaphore
          ResumeTargets,   \* statuses operators resume the task to
          Limit            \* bound: how often each kind of event may happen

Kind == {"call", "hold", "resume", "approve", "revoke", "restart", "fault"}

ASSUME DispatchAssumption == /\ Reconcilable \subseteq Dispatch
                             /\ Amount \in [Dispatch -> Nat \ {0}]
                             /\ Cap \in Nat
                             /\ MaxConcurrency \in Nat \ {0}
                             /\ Limit \in [Kind -> Nat]

INSTANCE TaskStateMachine WITH Lock <- {}, MaxRetries <- 0

ASSUME ResumeAssumption == ResumeTargets \subseteq LegalNextStates("HELD") \ {"COMPLETED"}

VARIABLES row,       \* the row of the task
          approval,  \* approval[d]: the HITL decision, in memory
          ready,     \* _idempotency_records: dispatches found ready, in memory
          record,    \* record[d]: _execution_records, in memory
          effects,   \* effects[d]: how often the provider applied d
          pc,        \* pc[c]: the await caller c is at
          work,      \* work[c]: the call c is in the middle of
          operator,  \* the call of an operator that has read the task
          used       \* used[k]: events of kind k so far

vars == <<row, approval, ready, record, effects, pc, work, operator, used>>
memory == <<approval, ready, record>>

Row == [status : Status, version : Nat, reserved : Nat, committed : Nat]

(* Statuses execute calls non-executable.                                  *)
Blocked == {"HELD", "REJECTED", "FAILED"}

(* The awaits inside `async with self._concurrency_semaphore`.             *)
Inside == {"looking", "reconciling", "adopting", "adopted",
           "reserving", "claiming", "marking"}

(* The awaits after it, in the try block and its except.                   *)
Actuating == {"sending", "ok", "rejected", "timeout", "crashed", "saving",
              "completing", "committing", "recording", "releasing", "failing",
              "settling", "settled", "holding"}

Points == {"idle", "screening", "queued"} \cup Inside \cup Actuating

(* `snap` is the task_state the call has, `spend` its reserved_amount (0   *)
(* for None); `standing` is history: the approval stood when it was made.  *)
Idle == [dispatch |-> "none"]
Work == [dispatch : Dispatch, snap : Row, spend : Nat, standing : BOOLEAN]

Quiet == [status |-> "none"]
Operation == [read : Row, status : Status]

Init ==
  /\ row = [status |-> "APPROVED", version |-> 0, reserved |-> 0, committed |-> 0]
  /\ approval = [d \in Dispatch |-> "none"]
  /\ ready = {}
  /\ record = [d \in Dispatch |-> "none"]
  /\ effects = [d \in Dispatch |-> 0]
  /\ pc = [c \in Caller |-> "idle"]
  /\ work = [c \in Caller |-> Idle]
  /\ operator = Quiet
  /\ used = [k \in Kind |-> 0]

-----------------------------------------------------------------------------
Count(k) == used[k] < Limit[k] /\ used' = [used EXCEPT ![k] = @ + 1]

Goto(c, p) == pc' = [pc EXCEPT ![c] = p]

Return(c) == Goto(c, "idle") /\ work' = [work EXCEPT ![c] = Idle]

Snapshot(c, r) == work' = [work EXCEPT ![c].snap = r]

(* TaskStateService.transition(snapshot, s): the state machine allows it,  *)
(* and the swap finds the version of the snapshot in the row.  What is     *)
(* written is the snapshot, budget entries included.                       *)
Moved(r, s) == [r EXCEPT !.status = s, !.version = @ + 1]

CanMove(c, s) == /\ s \in LegalNextStates(work[c].snap.status)
                 /\ row.version = work[c].snap.version

-----------------------------------------------------------------------------
(* validate_readiness up to its first await.  A dispatch found ready       *)
(* before is not looked at again; one whose outcome is known is answered   *)
(* from the record, which changes nothing and is no step here.             *)
Call(c, d) ==
  /\ pc[c] = "idle"
  /\ Count("call")
  /\ work' = [work EXCEPT ![c] = [dispatch |-> d, snap |-> row, spend |-> 0,
                                 standing |-> (approval[d] = "approved")]]
  /\ \/ d \in ready /\ record[d] # "done" /\ Goto(c, "queued")
     \/ d \notin ready /\ approval[d] = "approved" /\ Goto(c, "screening")
  /\ UNCHANGED <<row, memory, effects, operator>>

(* Task state screening and the rate limiter.  A screening that fails to   *)
(* read the task lets the dispatch pass.                                   *)
Screen(c) ==
  /\ pc[c] = "screening"
  /\ \/ row.status \notin Blocked /\ UNCHANGED used
     \/ Count("fault")
  /\ ready' = ready \cup {work[c].dispatch}
  /\ Goto(c, "queued")
  /\ UNCHANGED <<row, approval, record, effects, work, operator>>

(* The task is held, rejected or failed, or the bucket is empty.           *)
Refuse(c) ==
  /\ pc[c] = "screening"
  /\ Return(c)
  /\ UNCHANGED <<row, memory, effects, used, operator>>

(* A permit is free; the record is checked again.                          *)
Enter(c) ==
  /\ pc[c] = "queued"
  /\ Cardinality({x \in Caller : pc[x] \in Inside}) < MaxConcurrency
  /\ IF record[work[c].dispatch] = "done"
     THEN Return(c)
     ELSE Goto(c, "looking") /\ UNCHANGED work
  /\ UNCHANGED <<row, memory, effects, used, operator>>

(* Mutant: only the row tells an interrupted dispatch.                     *)
LookAtRowOnly(c) ==
  /\ pc[c] = "looking"
  /\ Snapshot(c, row)
  /\ Goto(c, IF row.status = "DISPATCHED" /\ work[c].dispatch \in Reconcilable
             THEN "reconciling" ELSE "reserving")
  /\ UNCHANGED <<row, memory, effects, used, operator>>

(* task_state_pre, and is_unack.                                           *)
Look(c) ==
  /\ pc[c] = "looking"
  /\ Snapshot(c, row)
  /\ LET d == work[c].dispatch
         unacknowledged == record[d] = "open" \/ row.status = "DISPATCHED"
     IN Goto(c, IF unacknowledged /\ d \in Reconcilable THEN "reconciling"
                                                        ELSE "reserving")
  /\ UNCHANGED <<row, memory, effects, used, operator>>

(* The provider is asked; a lookup that fails counts as "not found".       *)
Reconcile(c) ==
  /\ pc[c] = "reconciling"
  /\ LET d == work[c].dispatch
     IN IF effects[d] > 0
        THEN record' = [record EXCEPT ![d] = "done"] /\ Goto(c, "adopting")
        ELSE UNCHANGED record /\ Goto(c, "reserving")
  /\ UNCHANGED <<row, approval, ready, effects, work, used, operator>>

(* save_state(task_state_pre), then its transition to COMPLETED.           *)
Adopt(c) ==
  /\ pc[c] = "adopting"
  /\ row' = work[c].snap
  /\ IF work[c].snap.status # "COMPLETED"
     THEN Goto(c, "adopted") /\ UNCHANGED work
     ELSE Return(c)
  /\ UNCHANGED <<memory, effects, used, operator>>

CompleteAdopted(c) ==
  /\ pc[c] = "adopted"
  /\ row' = IF CanMove(c, "COMPLETED") THEN Moved(work[c].snap, "COMPLETED") ELSE row
  /\ Return(c)
  /\ UNCHANGED <<memory, effects, used, operator>>

(* Mutant: waits for room in the budget, with the permit in hand.          *)
ReserveSpendWaiting(c) ==
  /\ pc[c] = "reserving"
  /\ CanReserve(row, Amount[work[c].dispatch], Cap)
  /\ row' = Reserve(row, Amount[work[c].dispatch])
  /\ work' = [work EXCEPT ![c].spend = Amount[work[c].dispatch]]
  /\ Goto(c, "claiming")
  /\ UNCHANGED <<memory, effects, used, operator>>

(* reserve_budget, refused above the cap.                                  *)
ReserveSpend(c) ==
  /\ pc[c] = "reserving"
  /\ LET a == Amount[work[c].dispatch]
     IN IF CanReserve(row, a, Cap)
        THEN /\ row' = Reserve(row, a)
             /\ work' = [work EXCEPT ![c].spend = a]
             /\ Goto(c, "claiming")
        ELSE UNCHANGED row /\ Return(c)
  /\ UNCHANGED <<memory, effects, used, operator>>

(* task_state is read and screened; the reservation is not given back when *)
(* it is refused.  Unless the task awaits its dispatch, the intent is      *)
(* recorded at once.                                                       *)
Claim(c) ==
  /\ pc[c] = "claiming"
  /\ CASE row.status \in Blocked ->
            Return(c) /\ UNCHANGED record
       [] row.status = "APPROVED" ->
            Snapshot(c, row) /\ Goto(c, "marking") /\ UNCHANGED record
       [] OTHER ->
            /\ Snapshot(c, row)
            /\ Goto(c, "sending")
            /\ record' = [record EXCEPT ![work[c].dispatch] = "open"]
  /\ UNCHANGED <<row, approval, ready, effects, used, operator>>

(* APPROVED to DISPATCHED; a conflict raises.                              *)
MarkDispatched(c) ==
  /\ pc[c] = "marking"
  /\ IF CanMove(c, "DISPATCHED")
     THEN /\ row' = Moved(work[c].snap, "DISPATCHED")
          /\ Snapshot(c, row')
          /\ record' = [record EXCEPT ![work[c].dispatch] = "open"]
          /\ Goto(c, "sending")
     ELSE Return(c) /\ UNCHANGED <<row, record>>
  /\ UNCHANGED <<approval, ready, effects, used, operator>>

-----------------------------------------------------------------------------
(* The adapter call.  The provider applies the dispatch and answers, or    *)
(* rejects it, or the answer is lost after or before it was applied, or    *)
(* the acknowledgement boundary crashes, which is recorded at once.  An    *)
(* answer that cannot be read is treated like a rejection.                 *)
Send(c) ==
  /\ pc[c] = "sending"
  /\ \/ /\ effects' = [effects EXCEPT ![work[c].dispatch] = @ + 1]
        /\ \/ /\ \E reply \in {"ok", "timeout"} : Goto(c, reply)
              /\ UNCHANGED <<record, used>>
           \/ /\ Goto(c, "crashed")
              /\ record' = [record EXCEPT ![work[c].dispatch] = "open"]
              /\ UNCHANGED used
           \/ /\ Goto(c, "rejected")
              /\ Count("fault")
              /\ UNCHANGED record
     \/ /\ \E reply \in {"rejected", "timeout"} : Goto(c, reply)
        /\ UNCHANGED <<effects, record, used>>
  /\ UNCHANGED <<row, approval, ready, work, operator>>

(* The result is recorded and saved with the task_state of before the call *)
(* (a blind save); a task in DISPATCHED is completed, the budget committed *)
(* and provenance recorded.                                                *)
Acknowledge(c) ==
  /\ pc[c] = "ok"
  /\ record' = [record EXCEPT ![work[c].dispatch] = "done"]
  /\ Goto(c, "saving")
  /\ UNCHANGED <<row, approval, ready, effects, work, used, operator>>

SaveResult(c) ==
  /\ pc[c] = "saving"
  /\ row' = work[c].snap
  /\ Goto(c, IF work[c].snap.status = "DISPATCHED" THEN "completing" ELSE "committing")
  /\ UNCHANGED <<memory, effects, work, used, operator>>

CompleteTask(c) ==
  /\ pc[c] = "completing"
  /\ IF CanMove(c, "COMPLETED")
     THEN row' = Moved(work[c].snap, "COMPLETED") /\ Goto(c, "committing")
     ELSE UNCHANGED row /\ Goto(c, "releasing")
  /\ UNCHANGED <<memory, effects, work, used, operator>>

CommitSpend(c) ==
  /\ pc[c] = "committing"
  /\ row' = Commit(row, work[c].spend)
  /\ Goto(c, "recording")
  /\ UNCHANGED <<memory, effects, work, used, operator>>

RecordOutcome(c) ==
  /\ pc[c] = "recording"
  /\ Return(c)
  /\ UNCHANGED <<row, memory, effects, used, operator>>

-----------------------------------------------------------------------------
(* Any other exception, of the adapter or of a step after it: the budget   *)
(* is released, then a task that was DISPATCHED is failed from the         *)
(* task_state of before the release.                                       *)
ReleaseSpend(c) ==
  /\ pc[c] \in {"rejected", "releasing"}
  /\ row' = Release(row, work[c].spend)
  /\ Goto(c, "failing")
  /\ UNCHANGED <<memory, effects, work, used, operator>>

FailTask(c) ==
  /\ pc[c] = "failing"
  /\ row' = IF work[c].snap.status = "DISPATCHED" /\ CanMove(c, "FAILED")
            THEN Moved(work[c].snap, "FAILED") ELSE row
  /\ Return(c)
  /\ UNCHANGED <<memory, effects, used, operator>>

(* Mutant: the answer of the lookup is not looked at.                      *)
AskAfterTimeoutTrusting(c) ==
  /\ pc[c] = "timeout"
  /\ LET d == work[c].dispatch
     IN IF d \in Reconcilable
        THEN record' = [record EXCEPT ![d] = "done"] /\ Goto(c, "settling")
        ELSE UNCHANGED record /\ Goto(c, "holding")
  /\ UNCHANGED <<row, approval, ready, effects, work, used, operator>>

(* A timeout: the provider is asked, if it can be.                         *)
AskAfterTimeout(c) ==
  /\ pc[c] = "timeout"
  /\ LET d == work[c].dispatch
     IN IF d \in Reconcilable /\ effects[d] > 0
        THEN record' = [record EXCEPT ![d] = "done"] /\ Goto(c, "settling")
        ELSE UNCHANGED record /\ Goto(c, "holding")
  /\ UNCHANGED <<row, approval, ready, effects, work, used, operator>>

(* It had applied the dispatch: the budget is committed, then the task     *)
(* completed from the task_state of before the commit.                     *)
SettleSpend(c) ==
  /\ pc[c] = "settling"
  /\ row' = Commit(row, work[c].spend)
  /\ Goto(c, "settled")
  /\ UNCHANGED <<memory, effects, work, used, operator>>

CompleteSettled(c) ==
  /\ pc[c] = "settled"
  /\ row' = IF CanMove(c, "COMPLETED") THEN Moved(work[c].snap, "COMPLETED") ELSE row
  /\ Return(c)
  /\ UNCHANGED <<memory, effects, used, operator>>

(* A timeout is recorded after the hold, a crash was before it.            *)
RecordOpen(c) ==
  record' = IF pc[c] = "holding"
            THEN [record EXCEPT ![work[c].dispatch] = "open"] ELSE record

(* Mutant: the task stays as it is.                                        *)
LeaveAmbiguous(c) ==
  /\ pc[c] \in {"holding", "crashed"}
  /\ RecordOpen(c)
  /\ Return(c)
  /\ UNCHANGED <<row, approval, ready, effects, used, operator>>

(* Mutant: the reservation is given back with the hold.                    *)
HoldAmbiguousReleasing(c) ==
  /\ pc[c] \in {"holding", "crashed"}
  /\ row' = IF CanMove(c, "HELD")
            THEN Moved(Release(work[c].snap, work[c].spend), "HELD") ELSE row
  /\ RecordOpen(c)
  /\ Return(c)
  /\ UNCHANGED <<approval, ready, effects, used, operator>>

(* Nobody knows: the task is held, the reservation and the record stay.    *)
HoldAmbiguous(c) ==
  /\ pc[c] \in {"holding", "crashed"}
  /\ row' = IF CanMove(c, "HELD") THEN Moved(work[c].snap, "HELD") ELSE row
  /\ RecordOpen(c)
  /\ Return(c)
  /\ UNCHANGED <<approval, ready, effects, used, operator>>

-----------------------------------------------------------------------------
(* Where an exception of the service, the provider lookup or the recorder  *)
(* may take a caller: out of execute, or on within it.  Behind the adapter *)
(* call, a timeout of the database passes for one of the provider.         *)
OnError(p) ==
  CASE p \in {"queued", "looking", "adopting", "adopted", "reserving", "claiming",
              "marking", "sending", "failing", "settling", "settled", "crashed"} -> {"idle"}
    [] p = "reconciling"                                  -> {"reserving"}
    [] p \in {"saving", "completing", "committing", "recording"}
                                                          -> {"releasing", "timeout"}
    [] p \in {"rejected", "releasing"}                    -> {"failing"}
    [] p = "timeout"                                      -> {"holding"}
    [] OTHER                                              -> {}

Fault(c) ==
  /\ Count("fault")
  /\ \E p \in OnError(pc[c]) :
        IF p = "idle" THEN Return(c) ELSE Goto(c, p) /\ UNCHANGED work
  /\ UNCHANGED <<row, memory, effects, operator>>

(* A ValueError or TypeError of reserve_budget is swallowed, and the call  *)
(* goes on without a reserved_amount; the reservation may be stored.       *)
FaultWhileReserving(c) ==
  /\ pc[c] = "reserving"
  /\ Count("fault")
  /\ \/ UNCHANGED row
     \/ /\ CanReserve(row, Amount[work[c].dispatch], Cap)
        /\ row' = Reserve(row, Amount[work[c].dispatch])
  /\ Goto(c, "claiming")
  /\ UNCHANGED <<memory, effects, work, operator>>

(* The transition to DISPATCHED is stored, and recording it raises.  (For  *)
(* the other writes this is the error at the await that comes next.)       *)
FaultAfterMarking(c) ==
  /\ pc[c] = "marking" /\ CanMove(c, "DISPATCHED")
  /\ Count("fault")
  /\ row' = Moved(work[c].snap, "DISPATCHED")
  /\ Return(c)
  /\ UNCHANGED <<memory, effects, operator>>

(* The transition to HELD fails, and the timeout is recorded anyway.       *)
FaultWhileHolding(c) ==
  /\ pc[c] = "holding"
  /\ Count("fault")
  /\ RecordOpen(c)
  /\ Return(c)
  /\ UNCHANGED <<row, approval, ready, effects, operator>>

-----------------------------------------------------------------------------
(* hold_task of an operator reads the task ...                             *)
Hold ==
  /\ operator = Quiet
  /\ "HELD" \in LegalNextStates(row.status)
  /\ Count("hold")
  /\ operator' = [read |-> row, status |-> "HELD"]
  /\ UNCHANGED <<row, memory, effects, pc, work>>

(* ... and so does resume_task ...                                         *)
Resume ==
  /\ operator = Quiet
  /\ row.status = "HELD"
  /\ Count("resume")
  /\ \E s \in ResumeTargets : operator' = [read |-> row, status |-> s]
  /\ UNCHANGED <<row, memory, effects, pc, work>>

(* ... and then swaps what was read, ledger included.                      *)
OperatorSwaps ==
  /\ operator # Quiet
  /\ row.version = operator.read.version
  /\ row' = Moved(operator.read, operator.status)
  /\ operator' = Quiet
  /\ UNCHANGED <<memory, effects, pc, work, used>>

(* The version is another one, or the store fails: the operator's call     *)
(* raises.                                                                 *)
OperatorFails ==
  /\ operator # Quiet
  /\ operator' = Quiet
  /\ UNCHANGED <<row, memory, effects, pc, work, used>>

(* The preview is submitted (its id is derived from the task, so again     *)
(* after a restart) and a reviewer approves it.                            *)
Approve(d) ==
  /\ approval[d] # "approved"
  /\ Count("approve")
  /\ approval' = [approval EXCEPT ![d] = "approved"]
  /\ UNCHANGED <<row, ready, record, effects, pc, work, operator>>

(* invalidate_approval.                                                    *)
Revoke(d) ==
  /\ approval[d] = "approved"
  /\ Count("revoke")
  /\ approval' = [approval EXCEPT ![d] = "revoked"]
  /\ UNCHANGED <<row, ready, record, effects, pc, work, operator>>

(* Mutant: what was found ready is remembered.                             *)
RestartRemembering ==
  /\ Count("restart")
  /\ approval' = [d \in Dispatch |-> "none"]
  /\ record' = [d \in Dispatch |-> "none"]
  /\ pc' = [c \in Caller |-> "idle"]
  /\ work' = [c \in Caller |-> Idle]
  /\ operator' = Quiet
  /\ UNCHANGED <<row, ready, effects>>

(* Decisions and records are in the memory of the process.                 *)
Restart ==
  /\ Count("restart")
  /\ approval' = [d \in Dispatch |-> "none"]
  /\ ready' = {}
  /\ record' = [d \in Dispatch |-> "none"]
  /\ pc' = [c \in Caller |-> "idle"]
  /\ work' = [c \in Caller |-> Idle]
  /\ operator' = Quiet
  /\ UNCHANGED <<row, effects>>

Validate(c) == Screen(c) \/ Refuse(c) \/ Enter(c)

Prepare(c) ==
  \/ Look(c)
  \/ Reconcile(c)
  \/ Adopt(c)
  \/ CompleteAdopted(c)
  \/ ReserveSpend(c)
  \/ Claim(c)
  \/ MarkDispatched(c)

Succeed(c) ==
  \/ Acknowledge(c)
  \/ SaveResult(c)
  \/ CompleteTask(c)
  \/ CommitSpend(c)
  \/ RecordOutcome(c)

Recover(c) ==
  \/ ReleaseSpend(c)
  \/ FailTask(c)
  \/ AskAfterTimeout(c)
  \/ SettleSpend(c)
  \/ CompleteSettled(c)
  \/ HoldAmbiguous(c)

Step(c) == Validate(c) \/ Prepare(c) \/ Send(c) \/ Succeed(c) \/ Recover(c)

Next ==
  \/ \E c \in Caller :
        \/ \E d \in Dispatch : Call(c, d)
        \/ Step(c)
        \/ Fault(c)
        \/ FaultWhileReserving(c)
        \/ FaultAfterMarking(c)
        \/ FaultWhileHolding(c)
  \/ Hold
  \/ Resume
  \/ OperatorSwaps
  \/ OperatorFails
  \/ \E d \in Dispatch : Approve(d) \/ Revoke(d)
  \/ Restart

Spec == Init /\ [][Next]_vars

(* The event loop runs a coroutine that can run, the semaphore is first    *)
(* come first served, and the adapters give up after a timeout.            *)
FairSpec == Spec /\ \A c \in Caller : WF_vars(Step(c))

-----------------------------------------------------------------------------
TypeOK ==
  /\ row \in Row
  /\ approval \in [Dispatch -> {"none", "approved", "revoked"}]
  /\ ready \in SUBSET Dispatch
  /\ record \in [Dispatch -> {"none", "open", "done"}]
  /\ effects \in [Dispatch -> Nat]
  /\ pc \in [Caller -> Points]
  /\ work \in [Caller -> Work \cup {Idle}]
  /\ \A c \in Caller : pc[c] # "idle" => work[c] \in Work
  /\ operator \in Operation \cup {Quiet}
  /\ used \in [Kind -> Nat]

(* The gateway reports a dispatch as done, and the task row says           *)
(* COMPLETED, only when the provider has applied something: no failed,     *)
(* refused, raced or restarted call leads to a false success.              *)
SuccessIsReal ==
  /\ \A d \in Dispatch : record[d] = "done" => effects[d] > 0
  /\ row.status = "COMPLETED" => \E d \in Dispatch : effects[d] > 0

(* A restart forgets every decision and every dispatch found ready: what   *)
(* is on its way to the provider was decided on by a reviewer since then.  *)
(* (Whether the decision still stands is another matter: RevokedIsNotSent.)*)
DecidedSinceRestart ==
  \A c \in Caller :
     pc[c] \in {"queued"} \cup Inside \cup Actuating =>
        approval[work[c].dispatch] # "none"

(* Strict gating: no call that was made after the approval of its dispatch *)
(* was revoked reaches the provider.                                       *)
RevokedIsNotSent == \A c \in Caller : pc[c] = "sending" => work[c].standing

(* Every call of execute ends: a caller that raises inside the semaphore   *)
(* gives its permit back, and none waits for another for ever.             *)
CallsEnd == \A c \in Caller : pc[c] # "idle" ~> pc[c] = "idle"

(* With an adapter that can be asked, a provider applies a dispatch once,  *)
(* however often it is retried.                                            *)
EffectOnce == \A d \in Reconcilable : effects[d] <= 1

(* With one that cannot, every repetition was let through by an operator   *)
(* who resumed the task: an unknown outcome puts it on hold.  Only a task  *)
(* that another dispatch has an effect on may escape: once COMPLETED, it   *)
(* can no longer be held, and is not refused either.                       *)
RepeatsWereResumed ==
  \A d \in Dispatch :
     (\A e \in Dispatch \ {d} : effects[e] = 0) => effects[d] <= 1 + used["resume"]

(* What the provider has applied is accounted for in the ledger of the     *)
(* task, as reserved or as committed, but for one reservation per resume:  *)
(* an operator who read the task before a reservation writes the ledger    *)
(* back without it.  (A hold that was read in time forgets any number.)    *)
SpendCovered ==
  used["hold"] = 0 =>
     \E most \in Range(Amount) :
        SumFunction([d \in Dispatch |-> effects[d] * Amount[d]])
          <= row.reserved + row.committed + most * used["resume"]

(* When every call has ended, a task that failed without any effect has    *)
(* nothing reserved.                                                       *)
FailureReleases ==
  /\ \A c \in Caller : pc[c] = "idle"
  /\ row.status = "FAILED"
  /\ \A d \in Dispatch : effects[d] = 0
  => row.reserved = 0
=============================================================================
