-------------------------- MODULE TaskStateMachine --------------------------
(***************************************************************************)
(* The Canonical Task State (CTS) document and the pure operations of      *)
(* TaskStateMachine (orchestration/task_state_machine.py), and the budget  *)
(* arithmetic of TaskStateService that rewrites the same document.         *)
(*                                                                         *)
(* A checkpoint keeps the status it records and the operation that wrote   *)
(* it (`via`); its id, note and timestamp are dropped.  A checkpoint is    *)
(* named by its position: restore_checkpoint looks an id up from the end,  *)
(* and every "recovery-<id>" duplicate carries the status of the one it    *)
(* copies, so id and position select the same status.                      *)
(***************************************************************************)
EXTENDS Naturals, Sequences

CONSTANTS Lock,         \* names of prerequisite locks
          MaxRetries    \* CanonicalTaskState.max_retries

ASSUME MaxRetriesAssumption == MaxRetries \in Nat

Status == {"PENDING", "GRANTED", "IN_PROGRESS", "AWAITING_APPROVAL", "APPROVED",
           "REJECTED", "DISPATCHED", "COMPLETED", "FAILED", "HELD"}

Terminal == {"COMPLETED", "FAILED"}

(* Statuses that transition refuses while a lock or governance is open.    *)
Gated == {"GRANTED", "IN_PROGRESS", "COMPLETED"}

LegalNextStates(s) ==
  CASE s = "PENDING"           -> {"GRANTED", "HELD", "FAILED"}
    [] s = "GRANTED"           -> {"IN_PROGRESS", "HELD", "FAILED"}
    [] s = "IN_PROGRESS"       -> {"AWAITING_APPROVAL", "HELD", "FAILED", "COMPLETED"}
    [] s = "AWAITING_APPROVAL" -> {"APPROVED", "REJECTED", "HELD"}
    [] s = "APPROVED"          -> {"DISPATCHED", "HELD"}
    [] s = "REJECTED"          -> {"IN_PROGRESS", "FAILED"}
    [] s = "DISPATCHED"        -> {"COMPLETED", "FAILED", "HELD"}
    [] s = "HELD"              -> Status \ {"HELD", "REJECTED"}
    [] OTHER                   -> {}

Via == {"transition", "failure", "retry", "lock", "governance", "recovery"}

Checkpoint == [status : Status, via : Via]

(* holdReason and failureReason say whether the field is set.  reserved    *)
(* and committed are the two budget entries of cts_state.                  *)
Document == [status : Status, version : Nat, checkpoints : Seq(Checkpoint),
             locks : SUBSET Lock, governed : BOOLEAN, retries : Nat,
             holdReason : BOOLEAN, failureReason : BOOLEAN,
             reserved : Nat, committed : Nat]

NewDocument(locks, governed) ==
  [status |-> "PENDING", version |-> 0, checkpoints |-> << >>,
   locks |-> locks, governed |-> governed, retries |-> 0,
   holdReason |-> FALSE, failureReason |-> FALSE,
   reserved |-> 0, committed |-> 0]

-----------------------------------------------------------------------------
(* What every operation of the state machine does: set the status, append  *)
(* its checkpoint, advance the version.                                    *)
Stamp(d, s, via) ==
  [d EXCEPT !.status = s,
            !.checkpoints = Append(@, [status |-> s, via |-> via]),
            !.version = @ + 1]

CanTransition(d, s) ==
  /\ s \in LegalNextStates(d.status)
  /\ s \in Gated => d.locks = {} /\ d.governed

Transition(d, s, via) ==
  [Stamp(d, s, via) EXCEPT !.holdReason = (s = "HELD"),
                           !.failureReason = (s = "FAILED") \/ @]

CanRetry(d) == d.status = "FAILED" /\ d.retries < MaxRetries

Retry(d) ==
  [Stamp(d, "PENDING", "retry") EXCEPT !.retries = @ + 1,
                                       !.failureReason = FALSE]

(* Taking a lock already taken, or giving back one that is not, returns    *)
(* the document unchanged.  Neither looks at the status.                   *)
AcquireLock(d, l) ==
  IF l \in d.locks THEN d
  ELSE [Stamp(d, d.status, "lock") EXCEPT !.locks = @ \cup {l}]

ReleaseLock(d, l) ==
  IF l \notin d.locks THEN d
  ELSE [Stamp(d, d.status, "lock") EXCEPT !.locks = @ \ {l}]

SetGovernance(d, approved) ==
  [Stamp(d, d.status, "governance") EXCEPT !.governed = approved]

(* Mutant: recovery to any checkpoint.                                     *)
CanRestoreAny(d, i) == i \in DOMAIN d.checkpoints

(* Recovery refuses a terminal checkpoint and nothing else: neither the    *)
(* current status nor the locks are consulted.                             *)
CanRestore(d, i) ==
  i \in DOMAIN d.checkpoints /\ d.checkpoints[i].status \notin Terminal

(* Mutant: the failure reason survives the recovery.                       *)
RestoreKeepingReason(d, i) ==
  [Stamp(d, d.checkpoints[i].status, "recovery") EXCEPT !.holdReason = FALSE]

(* Mutant: recovery starts the retries afresh.                             *)
RestoreForgettingRetries(d, i) ==
  [Stamp(d, d.checkpoints[i].status, "recovery")
     EXCEPT !.holdReason = FALSE, !.failureReason = FALSE, !.retries = 0]

(* Mutant: recovery rewinds the trail instead of extending it.             *)
RestoreRewinding(d, i) ==
  [d EXCEPT !.status = d.checkpoints[i].status,
            !.checkpoints = SubSeq(@, 1, i),
            !.version = @ + 1,
            !.holdReason = FALSE, !.failureReason = FALSE]

Restore(d, i) ==
  [Stamp(d, d.checkpoints[i].status, "recovery")
     EXCEPT !.holdReason = FALSE, !.failureReason = FALSE]

-----------------------------------------------------------------------------
(* Budget entries of the document: no checkpoint, no new version.          *)

(* reserve_budget grants what is left.                                     *)
CanReserve(d, amount, cap) == d.reserved + d.committed + amount <= cap

Reserve(d, amount) == [d EXCEPT !.reserved = @ + amount]

(* Mutant: no max(0, ...).                                                 *)
LessAmountUnclamped(reserved, amount) == reserved - amount

LessAmount(reserved, amount) == IF reserved > amount THEN reserved - amount ELSE 0

(* Mutant: everything reserved is committed, not the amount spent.         *)
CommitAllReserved(d, amount) ==
  [d EXCEPT !.reserved = LessAmount(@, amount), !.committed = @ + d.reserved]

Commit(d, amount) ==
  [d EXCEPT !.reserved = LessAmount(@, amount), !.committed = @ + amount]

Release(d, amount) == [d EXCEPT !.reserved = LessAmount(@, amount)]

-----------------------------------------------------------------------------
(* Reading an audit trail: the status before checkpoint i of trail cps.    *)
StatusBefore(cps, i) == IF i = 1 THEN "PENDING" ELSE cps[i - 1].status

(* What the checkpoint at i may record, given the trail before it.         *)
LegalEntry(cps, i) ==
  LET cp == cps[i]
      from == StatusBefore(cps, i)
  IN /\ cp.via \in {"transition", "failure"} => cp.status \in LegalNextStates(from)
     /\ cp.via = "failure" => cp.status \in {"HELD", "FAILED"}
     /\ cp.via = "retry" => from = "FAILED" /\ cp.status = "PENDING"
     /\ cp.via \in {"lock", "governance"} => cp.status = from
     /\ cp.via = "recovery" => /\ cp.status \notin Terminal
                               /\ \E j \in 1..(i - 1) : cps[j].status = cp.status

(* The trail explains the document: as many entries as versions, the last  *)
(* one records the status, and every entry follows from those before it.   *)
TrailLegal(d) ==
  /\ d.version = Len(d.checkpoints)
  /\ d.status = StatusBefore(d.checkpoints, d.version + 1)
  /\ \A i \in 1..d.version : LegalEntry(d.checkpoints, i)

(* hold_reason is set in HELD at most, failure_reason in FAILED exactly.   *)
ReasonsMatch(d) ==
  /\ d.holdReason => d.status = "HELD"
  /\ d.failureReason <=> d.status = "FAILED"
=============================================================================
