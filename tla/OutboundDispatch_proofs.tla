----------------------- MODULE OutboundDispatch_proofs -----------------------
(***************************************************************************)
(* Proofs about the outbound gateway, for every set of callers and         *)
(* dispatches, every budget and every number of faults and restarts.       *)
(***************************************************************************)
EXTENDS OutboundDispatch, TLAPS

(* Where a caller knows that the provider has applied its dispatch.        *)
Certain == {"ok", "saving", "completing", "adopting", "adopted", "settling", "settled"}

SomeEffect == \E d \in Dispatch : effects[d] > 0

(* What a caller under way relies on: its dispatch was decided on, the     *)
(* task_state it keeps claims no success that never was, and it is certain *)
(* of an effect only if there is one.                                      *)
CallerOK(c) ==
  /\ pc[c] # "idle" => approval[work[c].dispatch] # "none"
  /\ pc[c] # "idle" => (work[c].snap.status = "COMPLETED" => SomeEffect)
  /\ pc[c] \in Certain => effects[work[c].dispatch] > 0

(* No operator is about to write a success.                                *)
OperatorOK == operator # Quiet => operator \in Operation /\ operator.status # "COMPLETED"

IInv ==
  /\ TypeOK
  /\ SuccessIsReal
  /\ \A d \in ready : approval[d] # "none"
  /\ \A c \in Caller : CallerOK(c)
  /\ OperatorOK

-----------------------------------------------------------------------------
(* The steps of a row keep it a row, and only a move to COMPLETED makes it *)
(* COMPLETED.                                                              *)
LEMMA Budgets ==
  ASSUME NEW r \in Row, NEW a \in Nat
  PROVE  /\ Reserve(r, a) \in Row /\ Reserve(r, a).status = r.status
         /\ Commit(r, a) \in Row /\ Commit(r, a).status = r.status
         /\ Release(r, a) \in Row /\ Release(r, a).status = r.status
<1>1. /\ r.reserved + a \in Nat /\ r.committed + a \in Nat /\ r.committed \in Nat
      /\ LessAmount(r.reserved, a) \in Nat
  BY DEF Row, LessAmount
<1> DEFINE Kept(x) == x \in Row /\ x.status = r.status
<1>2. \A x, y \in Nat : Kept([r EXCEPT !.reserved = x, !.committed = y])
  BY DEF Row
<1>3. /\ Reserve(r, a) = [r EXCEPT !.reserved = r.reserved + a, !.committed = r.committed]
      /\ Commit(r, a) = [r EXCEPT !.reserved = LessAmount(r.reserved, a),
                                  !.committed = r.committed + a]
      /\ Release(r, a) = [r EXCEPT !.reserved = LessAmount(r.reserved, a),
                                   !.committed = r.committed]
  BY DEF Reserve, Commit, Release, Row
<1>4. Kept(Reserve(r, a)) /\ Kept(Commit(r, a)) /\ Kept(Release(r, a))
  <2>1. /\ Kept([r EXCEPT !.reserved = r.reserved + a, !.committed = r.committed])
        /\ Kept([r EXCEPT !.reserved = LessAmount(r.reserved, a),
                          !.committed = r.committed + a])
        /\ Kept([r EXCEPT !.reserved = LessAmount(r.reserved, a),
                          !.committed = r.committed])
    <3> HIDE DEF Kept
    <3> QED
      BY <1>1, <1>2, Zenon
  <2> HIDE DEF Kept
  <2> QED
    BY <2>1, <1>3, Zenon
<1> QED
  BY <1>4

LEMMA Moves ==
  ASSUME NEW r \in Row, NEW s \in Status
  PROVE  Moved(r, s) \in Row /\ Moved(r, s).status = s
<1>1. r.version \in Nat /\ r.version + 1 \in Nat
  BY DEF Row
<1>2. Moved(r, s) = [r EXCEPT !.status = s, !.version = r.version + 1]
  BY DEF Moved
<1>3. \A v \in Nat : /\ [r EXCEPT !.status = s, !.version = v] \in Row
                     /\ [r EXCEPT !.status = s, !.version = v].status = s
  BY DEF Row
<1> QED
  BY <1>1, <1>2, <1>3

LEMMA Resumed == ResumeTargets \subseteq Status \ {"COMPLETED"}
  BY ResumeAssumption DEF LegalNextStates, Status

LEMMA InitInv == Init => IInv
<1> SUFFICES ASSUME Init PROVE IInv
  OBVIOUS
<1>1. TypeOK
  BY DEF Init, TypeOK, Row, Status, Points, Kind
<1>2. SuccessIsReal
  BY DEF Init, SuccessIsReal
<1>3. (\A d \in ready : approval[d] # "none") /\ (\A c \in Caller : CallerOK(c)) /\ OperatorOK
  BY DEF Init, CallerOK, Certain, OperatorOK
<1> QED
  BY <1>1, <1>2, <1>3 DEF IInv

-----------------------------------------------------------------------------
(* One caller goes from its await to the next, or returns.                 *)

(* What a step may write besides the frame of its caller.                  *)
RowFine == row' \in Row /\ (row'.status = "COMPLETED" => SomeEffect)

RecordFine == /\ record' \in [Dispatch -> {"none", "open", "done"}]
              /\ \A d \in Dispatch : record'[d] = "done" => effects[d] > 0

(* The frame: the caller returns, or goes on to p with its task_state kept *)
(* or read anew or a new reserved_amount, and is certain only of what is   *)
(* so.                                                                     *)
FrameFine(c, p) ==
  /\ p \in Points
  /\ pc' = [pc EXCEPT ![c] = p]
  /\ \/ p = "idle" /\ work' = [work EXCEPT ![c] = Idle]
     \/ /\ p \in Certain => effects[work[c].dispatch] > 0
        /\ \/ UNCHANGED work
           \/ \E n \in Nat : work' = [work EXCEPT ![c].spend = n]
           \/ \E r \in Row : /\ r.status = "COMPLETED" => SomeEffect
                            /\ work' = [work EXCEPT ![c].snap = r]

LEMMA Returns == ASSUME NEW c, Return(c) PROVE FrameFine(c, "idle")
  BY DEF Return, Goto, FrameFine, Points, Certain

LEMMA Goes ==
  ASSUME NEW c, NEW p \in Points, Goto(c, p), UNCHANGED work,
         p \in Certain => effects[work[c].dispatch] > 0
  PROVE  FrameFine(c, p)
  BY DEF Goto, FrameFine

LEMMA GoesOn ==
  ASSUME NEW c, NEW p \in Points \ Certain, Goto(c, p),
         NEW r \in Row, Snapshot(c, r), r.status = "COMPLETED" => SomeEffect
  PROVE  FrameFine(c, p)
  BY DEF Goto, Snapshot, FrameFine

LEMMA Frame ==
  ASSUME IInv, NEW c \in Caller, pc[c] # "idle", NEW p, FrameFine(c, p),
         UNCHANGED <<approval, effects>>
  PROVE  /\ pc' \in [Caller -> Points]
         /\ work' \in [Caller -> Work \cup {Idle}]
         /\ \A x \in Caller : (pc[x] # "idle" => work[x] \in Work)' /\ CallerOK(x)'
<1>1. /\ pc \in [Caller -> Points] /\ work \in [Caller -> Work \cup {Idle}]
      /\ work[c] \in Work /\ CallerOK(c)
  BY DEF IInv, TypeOK
<1>2. /\ pc' \in [Caller -> Points] /\ pc'[c] = p
      /\ \A x \in Caller \ {c} : pc'[x] = pc[x]
  BY <1>1 DEF FrameFine
<1>3. SomeEffect' <=> SomeEffect
  BY DEF SomeEffect
<1>4. PICK w \in Work \cup {Idle} :
        /\ work' = [work EXCEPT ![c] = w]
        /\ p # "idle" => /\ w \in Work
                         /\ w.dispatch = work[c].dispatch
                         /\ w.snap.status = "COMPLETED" => SomeEffect
        /\ p \in Certain => effects[work[c].dispatch] > 0
  <2>1. CASE p = "idle" /\ work' = [work EXCEPT ![c] = Idle]
    BY <2>1 DEF Certain
  <2>2. CASE UNCHANGED work /\ (p \in Certain => effects[work[c].dispatch] > 0)
    <3>1. work' = [work EXCEPT ![c] = work[c]]
      BY <1>1, <2>2
    <3>2. work[c].snap.status = "COMPLETED" => SomeEffect
      BY <1>1 DEF CallerOK
    <3> QED
      BY <1>1, <2>2, <3>1, <3>2
  <2>3. ASSUME NEW r \in Row, r.status = "COMPLETED" => SomeEffect,
               work' = [work EXCEPT ![c].snap = r],
               p \in Certain => effects[work[c].dispatch] > 0
        PROVE  \E w \in Work \cup {Idle} :
                 /\ work' = [work EXCEPT ![c] = w]
                 /\ p # "idle" => /\ w \in Work
                                  /\ w.dispatch = work[c].dispatch
                                  /\ w.snap.status = "COMPLETED" => SomeEffect
                 /\ p \in Certain => effects[work[c].dispatch] > 0
    <3> DEFINE w == [work[c] EXCEPT !.snap = r]
    <3>1. w \in Work /\ w.dispatch = work[c].dispatch /\ w.snap = r
      BY <1>1 DEF Work
    <3>2. work' = [work EXCEPT ![c] = w]
      BY <1>1, <2>3
    <3> HIDE DEF w
    <3> QED
      BY <2>3, <3>1, <3>2
  <2>4. ASSUME NEW n \in Nat, work' = [work EXCEPT ![c].spend = n],
               p \in Certain => effects[work[c].dispatch] > 0
        PROVE  \E w \in Work \cup {Idle} :
                 /\ work' = [work EXCEPT ![c] = w]
                 /\ p # "idle" => /\ w \in Work
                                  /\ w.dispatch = work[c].dispatch
                                  /\ w.snap.status = "COMPLETED" => SomeEffect
                 /\ p \in Certain => effects[work[c].dispatch] > 0
    <3> DEFINE w == [work[c] EXCEPT !.spend = n]
    <3>1. w \in Work /\ w.dispatch = work[c].dispatch /\ w.snap = work[c].snap
      BY <1>1 DEF Work
    <3>2. work' = [work EXCEPT ![c] = w]
      BY <1>1, <2>4
    <3>3. work[c].snap.status = "COMPLETED" => SomeEffect
      BY <1>1 DEF CallerOK
    <3> HIDE DEF w
    <3> QED
      BY <2>4, <3>1, <3>2, <3>3
  <2> QED
    BY <2>1, <2>2, <2>3, <2>4 DEF FrameFine
<1>5. /\ work' \in [Caller -> Work \cup {Idle}] /\ work'[c] = w
      /\ \A x \in Caller \ {c} : work'[x] = work[x]
  BY <1>1, <1>4
<1>6. (pc[c] # "idle" => work[c] \in Work)' /\ CallerOK(c)'
  BY <1>1, <1>2, <1>3, <1>4, <1>5 DEF CallerOK, Certain
<1>7. ASSUME NEW x \in Caller, x # c
      PROVE  (pc[x] # "idle" => work[x] \in Work)' /\ CallerOK(x)'
  <2>1. (pc[x] # "idle" => work[x] \in Work) /\ CallerOK(x)
    BY DEF IInv, TypeOK
  <2> QED
    BY <1>2, <1>3, <1>5, <1>7, <2>1 DEF CallerOK
<1> QED
  BY <1>2, <1>5, <1>6, <1>7

LEMMA CallerStep ==
  ASSUME IInv, NEW c \in Caller, pc[c] # "idle", NEW p, FrameFine(c, p),
         RowFine, RecordFine, used' \in [Kind -> Nat],
         UNCHANGED <<approval, ready, effects, operator>>
  PROVE  IInv'
<1>1. /\ pc' \in [Caller -> Points]
      /\ work' \in [Caller -> Work \cup {Idle}]
      /\ \A x \in Caller : (pc[x] # "idle" => work[x] \in Work)' /\ CallerOK(x)'
  BY Frame
<1>2. TypeOK'
  BY <1>1 DEF IInv, TypeOK, RowFine, RecordFine
<1>3. SuccessIsReal'
  BY DEF SuccessIsReal, RowFine, RecordFine, SomeEffect
<1>4. (\A d \in ready : approval[d] # "none")' /\ OperatorOK'
  BY DEF IInv, OperatorOK
<1> QED
  BY <1>1, <1>2, <1>3, <1>4 DEF IInv

(* What is known of a caller under way.                                    *)
LEMMA Known ==
  ASSUME IInv, NEW c \in Caller, pc[c] # "idle"
  PROVE  /\ row \in Row /\ (row.status = "COMPLETED" => SomeEffect)
         /\ record \in [Dispatch -> {"none", "open", "done"}]
         /\ \A d \in Dispatch : record[d] = "done" => effects[d] > 0
         /\ used \in [Kind -> Nat]
         /\ work[c].dispatch \in Dispatch /\ Amount[work[c].dispatch] \in Nat
         /\ work[c].snap \in Row /\ work[c].spend \in Nat
         /\ work[c].snap.status = "COMPLETED" => SomeEffect
         /\ pc[c] \in Certain => effects[work[c].dispatch] > 0 /\ SomeEffect
<1>1. work[c] \in Work /\ CallerOK(c)
  BY DEF IInv, TypeOK
<1>2. work[c].dispatch \in Dispatch /\ work[c].snap \in Row /\ work[c].spend \in Nat
  BY <1>1 DEF Work
<1>3. Amount[work[c].dispatch] \in Nat
  BY <1>2, DispatchAssumption
<1> QED
  BY <1>1, <1>2, <1>3 DEF IInv, TypeOK, SuccessIsReal, SomeEffect, CallerOK

LEMMA Counted ==
  ASSUME IInv, NEW k \in Kind, Count(k)
  PROVE  used' \in [Kind -> Nat]
<1>1. used \in [Kind -> Nat] /\ used[k] + 1 \in Nat
  BY DEF IInv, TypeOK
<1> QED
  BY <1>1 DEF Count

LEMMA PrepareInv == ASSUME IInv, NEW c \in Caller, Prepare(c) PROVE IInv'
<1>1. pc[c] # "idle"
  BY DEF Prepare, Look, Reconcile, Adopt, CompleteAdopted, ReserveSpend, Claim, MarkDispatched
<1> USE <1>1
<1> DEFINE d == work[c].dispatch
<1>2. CASE Look(c)
  <2>1. PICK p \in {"reconciling", "reserving"} :
          pc' = [pc EXCEPT ![c] = p] /\ work' = [work EXCEPT ![c].snap = row]
    BY <1>2 DEF Look, Goto, Snapshot
  <2>2. FrameFine(c, p)
    BY <2>1, Known DEF FrameFine, Points, Inside, Certain
  <2>3. RowFine /\ RecordFine /\ used' \in [Kind -> Nat]
    BY <1>2, Known DEF Look, memory, RowFine, RecordFine
  <2> QED
    BY <1>2, <2>2, <2>3, CallerStep DEF Look, memory
<1>3. CASE Reconcile(c)
  <2>1. RecordFine /\ RowFine /\ used' \in [Kind -> Nat]
    BY <1>3, Known DEF Reconcile, RecordFine, RowFine
  <2>2. FrameFine(c, IF effects[d] > 0 THEN "adopting" ELSE "reserving")
    BY <1>3 DEF Reconcile, Goto, FrameFine, Points, Inside, Certain
  <2> QED
    BY <1>3, <2>1, <2>2, CallerStep DEF Reconcile
<1>4. CASE Adopt(c)
  <2>1. RowFine /\ RecordFine /\ used' \in [Kind -> Nat]
    BY <1>4, Known DEF Adopt, memory, RowFine, RecordFine
  <2>2. effects[d] > 0
    BY <1>4, Known DEF Adopt, Certain
  <2>3. FrameFine(c, IF work[c].snap.status # "COMPLETED" THEN "adopted" ELSE "idle")
    BY <1>4, <2>2 DEF Adopt, Goto, Return, FrameFine, Points, Inside, Certain
  <2> QED
    BY <1>4, <2>1, <2>3, CallerStep DEF Adopt, memory
<1>5. CASE CompleteAdopted(c)
  <2>1. SomeEffect
    BY <1>5, Known DEF CompleteAdopted, Certain
  <2>2. RowFine /\ RecordFine /\ used' \in [Kind -> Nat]
    BY <1>5, <2>1, Known, Moves DEF CompleteAdopted, memory, RowFine, RecordFine, Status
  <2>3. FrameFine(c, "idle")
    BY <1>5, Returns DEF CompleteAdopted
  <2> QED
    BY <1>5, <2>2, <2>3, CallerStep DEF CompleteAdopted, memory
<1>6. CASE ReserveSpend(c)
  <2>0. row' \in {row, Reserve(row, Amount[d])}
    BY <1>6 DEF ReserveSpend
  <2>1. RowFine
    <3> HIDE DEF d
    <3>1. row \in Row /\ (row.status = "COMPLETED" => SomeEffect) /\ Amount[d] \in Nat
      BY Known DEF d
    <3> QED
      BY <2>0, <3>1, Budgets DEF RowFine
  <2>2. RecordFine /\ used' \in [Kind -> Nat]
    BY <1>6, Known DEF ReserveSpend, memory, RecordFine
  <2>3. CASE CanReserve(row, Amount[d], Cap)
    <3>1. FrameFine(c, "claiming")
      BY <1>6, <2>3, Known DEF ReserveSpend, Goto, FrameFine, Points, Inside, Certain
    <3> QED
      BY <1>6, <2>1, <2>2, <3>1, CallerStep DEF ReserveSpend, memory
  <2>4. CASE ~ CanReserve(row, Amount[d], Cap)
    <3>1. FrameFine(c, "idle")
      BY <1>6, <2>4, Returns DEF ReserveSpend
    <3> QED
      BY <1>6, <2>1, <2>2, <3>1, CallerStep DEF ReserveSpend, memory
  <2> QED
    BY <2>3, <2>4
<1>7. CASE Claim(c)
  <2>1. RowFine /\ RecordFine /\ used' \in [Kind -> Nat]
    BY <1>7, Known DEF Claim, memory, RowFine, RecordFine
  <2>2. \E p : FrameFine(c, p)
    BY <1>7, Known, Returns, GoesOn DEF Claim, Points, Inside, Actuating, Certain
  <2> QED
    BY <1>7, <2>1, <2>2, CallerStep DEF Claim
<1>8. CASE MarkDispatched(c)
  <2>1. RowFine
    BY <1>8, Known, Moves DEF MarkDispatched, RowFine, Status
  <2>2. RecordFine /\ used' \in [Kind -> Nat]
    BY <1>8, Known DEF MarkDispatched, RecordFine
  <2>3. \E p : FrameFine(c, p)
    BY <1>8, <2>1, Returns, GoesOn DEF MarkDispatched, RowFine, Points, Actuating, Certain
  <2> QED
    BY <1>8, <2>1, <2>2, <2>3, CallerStep DEF MarkDispatched
<1> QED
  BY <1>2, <1>3, <1>4, <1>5, <1>6, <1>7, <1>8 DEF Prepare

LEMMA SucceedInv == ASSUME IInv, NEW c \in Caller, Succeed(c) PROVE IInv'
<1>1. pc[c] # "idle"
  BY DEF Succeed, Acknowledge, SaveResult, CompleteTask, CommitSpend, RecordOutcome
<1> USE <1>1
<1> DEFINE d == work[c].dispatch
<1>2. CASE Acknowledge(c)
  <2>1. RowFine /\ RecordFine /\ used' \in [Kind -> Nat]
    BY <1>2, Known DEF Acknowledge, RowFine, RecordFine, Certain
  <2>2. FrameFine(c, "saving")
    BY <1>2, Known, Goes DEF Acknowledge, Points, Actuating, Certain
  <2> QED
    BY <1>2, <2>1, <2>2, CallerStep DEF Acknowledge
<1>3. CASE SaveResult(c)
  <2>1. RowFine /\ RecordFine /\ used' \in [Kind -> Nat]
    BY <1>3, Known DEF SaveResult, memory, RowFine, RecordFine
  <2>2. effects[d] > 0
    BY <1>3, Known DEF SaveResult, Certain
  <2>3. \E p : FrameFine(c, p)
    BY <1>3, <2>2, Goes DEF SaveResult, Points, Actuating, Certain
  <2> QED
    BY <1>3, <2>1, <2>3, CallerStep DEF SaveResult, memory
<1>4. CASE CompleteTask(c)
  <2>1. SomeEffect
    BY <1>4, Known DEF CompleteTask, Certain
  <2>2. RowFine
    BY <1>4, <2>1, Known, Moves DEF CompleteTask, RowFine, Status
  <2>3. RecordFine /\ used' \in [Kind -> Nat]
    BY <1>4, Known DEF CompleteTask, memory, RecordFine
  <2>4. \E p : FrameFine(c, p)
    BY <1>4, Goes DEF CompleteTask, Points, Actuating, Certain
  <2> QED
    BY <1>4, <2>2, <2>3, <2>4, CallerStep DEF CompleteTask, memory
<1>5. CASE CommitSpend(c)
  <2>1. RowFine
    <3>1. /\ row \in Row /\ (row.status = "COMPLETED" => SomeEffect)
          /\ work[c].spend \in Nat /\ row' = Commit(row, work[c].spend)
      BY <1>5, Known DEF CommitSpend
    <3> QED
      BY <3>1, Budgets DEF RowFine
  <2>2. RecordFine /\ used' \in [Kind -> Nat]
    BY <1>5, Known DEF CommitSpend, memory, RecordFine
  <2>3. FrameFine(c, "recording")
    BY <1>5, Goes DEF CommitSpend, Points, Actuating, Certain
  <2> QED
    BY <1>5, <2>1, <2>2, <2>3, CallerStep DEF CommitSpend, memory
<1>6. CASE RecordOutcome(c)
  <2>1. RowFine /\ RecordFine /\ used' \in [Kind -> Nat]
    BY <1>6, Known DEF RecordOutcome, memory, RowFine, RecordFine
  <2> QED
    BY <1>6, <2>1, Returns, CallerStep DEF RecordOutcome, memory
<1> QED
  BY <1>2, <1>3, <1>4, <1>5, <1>6 DEF Succeed

LEMMA RecoverInv == ASSUME IInv, NEW c \in Caller, Recover(c) PROVE IInv'
<1>1. pc[c] # "idle"
  BY DEF Recover, ReleaseSpend, FailTask, AskAfterTimeout, SettleSpend,
         CompleteSettled, HoldAmbiguous
<1> USE <1>1
<1> DEFINE d == work[c].dispatch
<1>2. CASE ReleaseSpend(c)
  <2>1. RowFine
    <3>1. /\ row \in Row /\ (row.status = "COMPLETED" => SomeEffect)
          /\ work[c].spend \in Nat /\ row' = Release(row, work[c].spend)
      BY <1>2, Known DEF ReleaseSpend
    <3> QED
      BY <3>1, Budgets DEF RowFine
  <2>2. RecordFine /\ used' \in [Kind -> Nat]
    BY <1>2, Known DEF ReleaseSpend, memory, RecordFine
  <2>3. FrameFine(c, "failing")
    BY <1>2, Goes DEF ReleaseSpend, Points, Actuating, Certain
  <2> QED
    BY <1>2, <2>1, <2>2, <2>3, CallerStep DEF ReleaseSpend, memory
<1>3. CASE FailTask(c)
  <2>1. RowFine
    BY <1>3, Known, Moves DEF FailTask, RowFine, Status
  <2>2. RecordFine /\ used' \in [Kind -> Nat]
    BY <1>3, Known DEF FailTask, memory, RecordFine
  <2> QED
    BY <1>3, <2>1, <2>2, Returns, CallerStep DEF FailTask, memory
<1>4. CASE AskAfterTimeout(c)
  <2>1. RowFine /\ RecordFine /\ used' \in [Kind -> Nat]
    BY <1>4, Known DEF AskAfterTimeout, RowFine, RecordFine
  <2>2. \E p : FrameFine(c, p)
    BY <1>4, Goes DEF AskAfterTimeout, Points, Actuating, Certain
  <2> QED
    BY <1>4, <2>1, <2>2, CallerStep DEF AskAfterTimeout
<1>5. CASE SettleSpend(c)
  <2>1. RowFine
    <3>1. /\ row \in Row /\ (row.status = "COMPLETED" => SomeEffect)
          /\ work[c].spend \in Nat /\ row' = Commit(row, work[c].spend)
      BY <1>5, Known DEF SettleSpend
    <3> QED
      BY <3>1, Budgets DEF RowFine
  <2>2. RecordFine /\ used' \in [Kind -> Nat]
    BY <1>5, Known DEF SettleSpend, memory, RecordFine
  <2>3. FrameFine(c, "settled")
    BY <1>5, Known, Goes DEF SettleSpend, Points, Actuating, Certain
  <2> QED
    BY <1>5, <2>1, <2>2, <2>3, CallerStep DEF SettleSpend, memory
<1>6. CASE CompleteSettled(c)
  <2>1. SomeEffect
    BY <1>6, Known DEF CompleteSettled, Certain
  <2>2. RowFine
    BY <1>6, <2>1, Known, Moves DEF CompleteSettled, RowFine, Status
  <2>3. RecordFine /\ used' \in [Kind -> Nat]
    BY <1>6, Known DEF CompleteSettled, memory, RecordFine
  <2> QED
    BY <1>6, <2>2, <2>3, Returns, CallerStep DEF CompleteSettled, memory
<1>7. CASE HoldAmbiguous(c)
  <2>1. RowFine
    BY <1>7, Known, Moves DEF HoldAmbiguous, RowFine, Status
  <2>2. RecordFine /\ used' \in [Kind -> Nat]
    BY <1>7, Known DEF HoldAmbiguous, RecordOpen, RecordFine
  <2> QED
    BY <1>7, <2>1, <2>2, Returns, CallerStep DEF HoldAmbiguous
<1> QED
  BY <1>2, <1>3, <1>4, <1>5, <1>6, <1>7 DEF Recover

-----------------------------------------------------------------------------
(* The way in.  A call starts from a dispatch that is ready or approved.   *)
LEMMA CallInv ==
  ASSUME IInv, NEW c \in Caller, NEW d \in Dispatch, Call(c, d) PROVE IInv'
<1> DEFINE w == [dispatch |-> d, snap |-> row, spend |-> 0,
                 standing |-> (approval[d] = "approved")]
<1>1. PICK p \in {"queued", "screening"} :
        pc' = [pc EXCEPT ![c] = p] /\ work' = [work EXCEPT ![c] = w] /\ approval[d] # "none"
  BY DEF Call, Goto, IInv
<1>2. w \in Work /\ w.dispatch = d /\ w.snap = row
  BY DEF IInv, TypeOK, Work
<1> HIDE DEF w
<1>3. /\ pc' \in [Caller -> Points] /\ pc'[c] = p
      /\ work' \in [Caller -> Work \cup {Idle}] /\ work'[c] = w
      /\ \A x \in Caller \ {c} : pc'[x] = pc[x] /\ work'[x] = work[x]
  BY <1>1, <1>2 DEF IInv, TypeOK, Points
<1>4. used' \in [Kind -> Nat]
  BY Counted DEF Call, Kind
<1>5. /\ UNCHANGED <<row, approval, ready, record, effects, operator>>
      /\ SomeEffect' <=> SomeEffect
  BY DEF Call, memory, SomeEffect
<1>6. ASSUME NEW x \in Caller
      PROVE  (pc[x] # "idle" => work[x] \in Work)' /\ CallerOK(x)'
  <2>1. CASE x = c
    <3>1. row.status = "COMPLETED" => SomeEffect
      BY DEF IInv, SuccessIsReal, SomeEffect
    <3> QED
      BY <1>1, <1>2, <1>3, <1>5, <2>1, <3>1 DEF CallerOK, Certain
  <2>2. CASE x # c
    BY <1>3, <1>5, <2>2 DEF IInv, TypeOK, CallerOK
  <2> QED
    BY <2>1, <2>2
<1>7. TypeOK'
  BY <1>3, <1>4, <1>5, <1>6 DEF IInv, TypeOK
<1>8. SuccessIsReal' /\ (\A x \in ready : approval[x] # "none")' /\ OperatorOK'
  BY <1>5 DEF IInv, SuccessIsReal, OperatorOK
<1> QED
  BY <1>6, <1>7, <1>8 DEF IInv

LEMMA ValidateInv == ASSUME IInv, NEW c \in Caller, Validate(c) PROVE IInv'
<1>1. pc[c] # "idle"
  BY DEF Validate, Screen, Refuse, Enter
<1> USE <1>1
<1>2. CASE Screen(c)
  <2>1. used' \in [Kind -> Nat]
    BY <1>2, Known, Counted DEF Screen, Kind
  <2>2. FrameFine(c, "queued")
    BY <1>2, Goes DEF Screen, Points, Certain
  <2>3. /\ pc' \in [Caller -> Points]
        /\ work' \in [Caller -> Work \cup {Idle}]
        /\ \A x \in Caller : (pc[x] # "idle" => work[x] \in Work)' /\ CallerOK(x)'
    BY <1>2, <2>2, Frame DEF Screen
  <2>4. work[c].dispatch \in Dispatch /\ approval[work[c].dispatch] # "none"
    BY Known DEF IInv, CallerOK
  <2>5. TypeOK'
    BY <1>2, <2>1, <2>3, <2>4 DEF Screen, IInv, TypeOK
  <2>6. SuccessIsReal' /\ (\A d \in ready : approval[d] # "none")' /\ OperatorOK'
    BY <1>2, <2>4 DEF Screen, IInv, SuccessIsReal, OperatorOK
  <2> QED
    BY <2>3, <2>5, <2>6 DEF IInv
<1>3. CASE Refuse(c)
  <2>1. RowFine /\ RecordFine /\ used' \in [Kind -> Nat]
    BY <1>3, Known DEF Refuse, memory, RowFine, RecordFine
  <2> QED
    BY <1>3, <2>1, Returns, CallerStep DEF Refuse, memory
<1>4. CASE Enter(c)
  <2>1. RowFine /\ RecordFine /\ used' \in [Kind -> Nat]
    BY <1>4, Known DEF Enter, memory, RowFine, RecordFine
  <2>2. \E p : FrameFine(c, p)
    BY <1>4, Returns, Goes DEF Enter, Points, Inside, Certain
  <2> QED
    BY <1>4, <2>1, <2>2, CallerStep DEF Enter, memory
<1> QED
  BY <1>2, <1>3, <1>4 DEF Validate

(* The provider applies the dispatch or does not, and effects only grow.   *)
LEMMA SendInv == ASSUME IInv, NEW c \in Caller, Send(c) PROVE IInv'
<1> DEFINE d == work[c].dispatch
<1>1. pc[c] = "sending" /\ pc[c] # "idle" /\ d \in Dispatch
  BY Known DEF Send
<1>2. PICK reply \in {"ok", "rejected", "timeout", "crashed"} :
        /\ pc' = [pc EXCEPT ![c] = reply]
        /\ \/ effects' = [effects EXCEPT ![d] = @ + 1]
           \/ UNCHANGED effects /\ reply # "ok"
  BY DEF Send, Goto
<1> HIDE DEF d
<1>3. /\ UNCHANGED <<row, approval, ready, work, operator>>
      /\ used' \in [Kind -> Nat]
      /\ record' \in [Dispatch -> {"none", "open", "done"}]
      /\ \A e \in Dispatch : record'[e] = "done" => record[e] = "done"
  <2>1. used \in [Kind -> Nat] /\ record \in [Dispatch -> {"none", "open", "done"}]
    BY DEF IInv, TypeOK
  <2>2. used' \in [Kind -> Nat]
    BY <2>1, Counted DEF Send, Kind
  <2>3. record' = record \/ record' = [record EXCEPT ![d] = "open"]
    BY DEF Send, d
  <2> QED
    BY <2>1, <2>2, <2>3 DEF Send
<1>4. /\ effects' \in [Dispatch -> Nat]
      /\ \A e \in Dispatch : effects[e] > 0 => effects'[e] > 0
      /\ reply = "ok" => effects'[d] > 0
  BY <1>1, <1>2 DEF IInv, TypeOK
<1>5. SomeEffect => SomeEffect'
  BY <1>4 DEF SomeEffect
<1>6. /\ pc' \in [Caller -> Points] /\ pc'[c] = reply
      /\ \A x \in Caller \ {c} : pc'[x] = pc[x]
  BY <1>2 DEF IInv, TypeOK, Points, Actuating
<1>7. ASSUME NEW x \in Caller
      PROVE  (pc[x] # "idle" => work[x] \in Work)' /\ CallerOK(x)'
  <2>1. (pc[x] # "idle" => work[x] \in Work) /\ CallerOK(x)
    BY DEF IInv, TypeOK
  <2>2. CASE x = c
    BY <1>1, <1>2, <1>3, <1>4, <1>5, <1>6, <2>1, <2>2 DEF CallerOK, Certain, d
  <2>3. CASE x # c
    <3>1. pc'[x] = pc[x] /\ work'[x] = work[x]
      BY <1>3, <1>6, <2>3
    <3>2. pc[x] \in Certain => work[x].dispatch \in Dispatch
      BY <2>1 DEF Certain, Work
    <3> QED
      BY <1>3, <1>4, <1>5, <2>1, <3>1, <3>2 DEF CallerOK
  <2> QED
    BY <2>2, <2>3
<1>8. TypeOK'
  BY <1>3, <1>4, <1>6, <1>7 DEF IInv, TypeOK
<1>9. SuccessIsReal' /\ (\A e \in ready : approval[e] # "none")' /\ OperatorOK'
  BY <1>3, <1>4, <1>5 DEF IInv, SuccessIsReal, SomeEffect, OperatorOK
<1> QED
  BY <1>7, <1>8, <1>9 DEF IInv

AnyFault(c) ==
  Fault(c) \/ FaultWhileReserving(c) \/ FaultAfterMarking(c) \/ FaultWhileHolding(c)

LEMMA FaultInv ==
  ASSUME IInv, NEW c \in Caller, AnyFault(c)
  PROVE  IInv'
<1>1. pc[c] # "idle"
  BY DEF AnyFault, Fault, FaultWhileReserving, FaultAfterMarking, FaultWhileHolding, OnError
<1> USE <1>1
<1>2. used' \in [Kind -> Nat]
  BY Counted DEF AnyFault, Fault, FaultWhileReserving, FaultAfterMarking, FaultWhileHolding, Kind
<1>3. CASE Fault(c)
  <2>1. RowFine /\ RecordFine
    BY <1>3, Known DEF Fault, memory, RowFine, RecordFine
  <2>2. PICK p \in {"idle", "reserving", "releasing", "timeout", "failing", "holding"} :
          IF p = "idle" THEN Return(c) ELSE Goto(c, p) /\ UNCHANGED work
    BY <1>3 DEF Fault, OnError
  <2>3. \E q : FrameFine(c, q)
    BY <2>2, Returns, Goes DEF Points, Inside, Actuating, Certain
  <2> QED
    BY <1>2, <1>3, <2>1, <2>3, CallerStep DEF Fault, memory
<1>4. CASE FaultAfterMarking(c)
  <2>1. RowFine /\ RecordFine
    BY <1>4, Known, Moves DEF FaultAfterMarking, memory, RowFine, RecordFine, Status
  <2> QED
    BY <1>2, <1>4, <2>1, Returns, CallerStep DEF FaultAfterMarking, memory
<1>5. CASE FaultWhileHolding(c)
  <2>1. RowFine /\ RecordFine
    BY <1>5, Known DEF FaultWhileHolding, RecordOpen, RowFine, RecordFine
  <2> QED
    BY <1>2, <1>5, <2>1, Returns, CallerStep DEF FaultWhileHolding
<1>6. CASE FaultWhileReserving(c)
  <2> DEFINE d == work[c].dispatch
  <2>1. row' \in {row, Reserve(row, Amount[d])}
    BY <1>6 DEF FaultWhileReserving
  <2>2. RowFine
    <3> HIDE DEF d
    <3>1. row \in Row /\ (row.status = "COMPLETED" => SomeEffect) /\ Amount[d] \in Nat
      BY Known DEF d
    <3> QED
      BY <2>1, <3>1, Budgets DEF RowFine
  <2>3. RecordFine
    BY <1>6, Known DEF FaultWhileReserving, memory, RecordFine
  <2>4. FrameFine(c, "claiming")
    BY <1>6, Goes DEF FaultWhileReserving, Points, Inside, Certain
  <2> QED
    BY <1>2, <1>6, <2>2, <2>3, <2>4, CallerStep DEF FaultWhileReserving, memory
<1> QED
  BY <1>3, <1>4, <1>5, <1>6 DEF AnyFault

-----------------------------------------------------------------------------
(* Operators and reviewers: they leave every caller and effect alone, move *)
(* the row to no success, and an approval once given never becomes "none". *)
Operates == Hold \/ Resume \/ OperatorSwaps \/ OperatorFails

LEMMA OperatorRow ==
  ASSUME IInv, Operates PROVE RowFine /\ OperatorOK' /\ operator' \in Operation \cup {Quiet}
<1>1. row \in Row /\ (row.status = "COMPLETED" => SomeEffect)
  BY DEF IInv, TypeOK, SuccessIsReal, SomeEffect
<1>2. CASE Hold
  BY <1>1, <1>2 DEF Hold, RowFine, OperatorOK, Operation, Status
<1>3. CASE Resume
  <2>1. PICK s \in ResumeTargets : operator' = [read |-> row, status |-> s]
    BY <1>3 DEF Resume
  <2>2. operator' \in Operation /\ operator'.status # "COMPLETED"
    BY <1>1, <2>1, Resumed DEF Operation
  <2> QED
    BY <1>1, <1>3, <2>2 DEF Resume, RowFine, OperatorOK
<1>4. CASE OperatorSwaps
  <2>1. /\ operator.read \in Row /\ operator.status \in Status
        /\ operator.status # "COMPLETED"
    BY <1>4 DEF OperatorSwaps, IInv, OperatorOK, Operation
  <2>2. RowFine
    BY <1>4, <2>1, Moves DEF OperatorSwaps, RowFine
  <2> QED
    BY <1>4, <2>2 DEF OperatorSwaps, OperatorOK
<1>5. CASE OperatorFails
  BY <1>1, <1>5 DEF OperatorFails, RowFine, OperatorOK
<1> QED
  BY <1>2, <1>3, <1>4, <1>5 DEF Operates

LEMMA EnvironmentInv ==
  ASSUME IInv, Operates \/ \E d \in Dispatch : Approve(d) \/ Revoke(d)
  PROVE  IInv'
<1>1. /\ UNCHANGED <<ready, record, effects, pc, work>>
      /\ SomeEffect' <=> SomeEffect
  BY DEF Operates, Hold, Resume, OperatorSwaps, OperatorFails, Approve, Revoke, memory, SomeEffect
<1>2. RowFine /\ OperatorOK' /\ operator' \in Operation \cup {Quiet}
  <2>1. CASE Operates
    BY <2>1, OperatorRow
  <2>2. CASE \E d \in Dispatch : Approve(d) \/ Revoke(d)
    BY <2>2 DEF Approve, Revoke, IInv, TypeOK, SuccessIsReal, SomeEffect, RowFine, OperatorOK
  <2> QED
    BY <2>1, <2>2
<1>3. used' \in [Kind -> Nat]
  <2>1. used \in [Kind -> Nat]
    BY DEF IInv, TypeOK
  <2> QED
    BY <2>1, Counted DEF Operates, Hold, Resume, OperatorSwaps, OperatorFails, Approve, Revoke, Kind
<1>4. /\ approval' \in [Dispatch -> {"none", "approved", "revoked"}]
      /\ \A d \in Dispatch : approval[d] # "none" => approval'[d] # "none"
  BY DEF IInv, TypeOK, Operates, Hold, Resume, OperatorSwaps, OperatorFails, Approve, Revoke, memory
<1>5. \A c \in Caller : CallerOK(c)'
  <2> SUFFICES ASSUME NEW c \in Caller PROVE CallerOK(c)'
    OBVIOUS
  <2>1. CallerOK(c) /\ (pc[c] # "idle" => work[c].dispatch \in Dispatch)
    BY DEF IInv, TypeOK, Work
  <2> QED
    BY <1>1, <1>4, <2>1 DEF CallerOK
<1>6. TypeOK'
  BY <1>1, <1>2, <1>3, <1>4 DEF IInv, TypeOK, RowFine
<1>7. SuccessIsReal'
  BY <1>1, <1>2 DEF IInv, SuccessIsReal, RowFine, SomeEffect
<1>8. (\A d \in ready : approval[d] # "none")'
  BY <1>1, <1>4 DEF IInv, TypeOK
<1> QED
  BY <1>2, <1>5, <1>6, <1>7, <1>8 DEF IInv

LEMMA RestartInv == ASSUME IInv, Restart PROVE IInv'
<1>1. used' \in [Kind -> Nat]
  BY Counted DEF Restart, Kind
<1>2. TypeOK'
  BY <1>1 DEF IInv, TypeOK, Restart, Points
<1>3. SuccessIsReal'
  BY DEF IInv, SuccessIsReal, Restart
<1>4. /\ (\A d \in ready : approval[d] # "none")'
      /\ \A c \in Caller : CallerOK(c)'
      /\ OperatorOK'
  BY DEF Restart, CallerOK, Certain, OperatorOK
<1> QED
  BY <1>2, <1>3, <1>4 DEF IInv

LEMMA NextInv == IInv /\ [Next]_vars => IInv'
<1> SUFFICES ASSUME IInv, [Next]_vars PROVE IInv'
  OBVIOUS
<1>1. ASSUME NEW c \in Caller, NEW d \in Dispatch, Call(c, d) PROVE IInv'
  BY <1>1, CallInv
<1>2. ASSUME NEW c \in Caller, Step(c) PROVE IInv'
  BY <1>2, ValidateInv, PrepareInv, SendInv, SucceedInv, RecoverInv DEF Step
<1>3. ASSUME NEW c \in Caller, AnyFault(c) PROVE IInv'
  BY <1>3, FaultInv
<1>4. CASE Operates \/ \E d \in Dispatch : Approve(d) \/ Revoke(d)
  BY <1>4, EnvironmentInv
<1>5. CASE Restart
  BY <1>5, RestartInv
<1>6. CASE UNCHANGED vars
  BY <1>6 DEF vars, IInv, TypeOK, SuccessIsReal, CallerOK, OperatorOK, SomeEffect
<1> QED
  BY <1>1, <1>2, <1>3, <1>4, <1>5, <1>6 DEF Next, AnyFault, Operates

LEMMA Invariant == Spec => []IInv
<1>1. Init => IInv
  BY InitInv
<1>2. IInv /\ [Next]_vars => IInv'
  BY NextInv
<1> QED
  BY <1>1, <1>2, PTL DEF Spec

-----------------------------------------------------------------------------
(* Every reachable state is well typed: the ledger of the task never goes  *)
(* below zero, whatever the release, commit and retry paths of execute do. *)
THEOREM TypeCorrect == Spec => []TypeOK
<1>1. IInv => TypeOK
  BY DEF IInv
<1> QED
  BY <1>1, Invariant, PTL

(* A dispatch that the gateway remembers as done, and a task COMPLETED,    *)
(* has an effect at the provider.                                          *)
THEOREM NoFalseSuccess == Spec => []SuccessIsReal
<1>1. IInv => SuccessIsReal
  BY DEF IInv
<1> QED
  BY <1>1, Invariant, PTL

(* No caller of execute is past the readiness check with a dispatch that   *)
(* no reviewer has decided on in the life of this process.  (The decision  *)
(* may have been revoked since: RevokedIsNotSent is violated.)             *)
THEOREM DecisionsAreRecent == Spec => []DecidedSinceRestart
<1>1. IInv => DecidedSinceRestart
  BY DEF IInv, CallerOK, DecidedSinceRestart, Inside, Actuating
<1> QED
  BY <1>1, Invariant, PTL

-----------------------------------------------------------------------------
(***************************************************************************)
(* EffectOnce holds as long as no two calls are at the same dispatch, the  *)
(* process lives, and a provider that is asked answers.  Calls of other    *)
(* dispatches, operators, reviewers and all other errors may interfere.    *)
(***************************************************************************)
OneCallEach ==
  \A a, b \in Caller :
     pc[a] # "idle" /\ pc[b] # "idle" /\ work[a].dispatch = work[b].dispatch => a = b

NoRestart == used["restart"] = 0

LookupAnswers == \A c \in Caller : ~ (pc[c] = "reconciling" /\ Fault(c))

(* On the way from the lookup to the adapter call.                         *)
Departing == {"reserving", "claiming", "marking", "sending"}

(* What the record and the provider have, seen from where a caller is.     *)
Fresh(c) ==
  LET d == work[c].dispatch
  IN /\ pc[c] = "looking" => record[d] # "done"
     /\ pc[c] \in Departing /\ d \in Reconcilable => effects[d] = 0
     /\ pc[c] \in Actuating => record[d] # "none"

EInv ==
  /\ \A d \in Dispatch : effects[d] > 0 => record[d] # "none"
  /\ EffectOnce
  /\ \A c \in Caller : Fresh(c)

(* A caller goes on to p, and leaves r in the record of its dispatch and n *)
(* effects at the provider.                                                *)
LEMMA FreshStep ==
  ASSUME IInv, EInv, OneCallEach, NEW c \in Caller, pc[c] # "idle",
         NEW p, pc' = [pc EXCEPT ![c] = p],
         \/ work' = work
         \/ \E s : work' = [work EXCEPT ![c].snap = s]
         \/ \E m : work' = [work EXCEPT ![c].spend = m]
         \/ p = "idle" /\ work' = [work EXCEPT ![c] = Idle],
         NEW r, \/ record' = [record EXCEPT ![work[c].dispatch] = r]
                \/ record' = record /\ r = record[work[c].dispatch],
         NEW n \in Nat, \/ effects' = [effects EXCEPT ![work[c].dispatch] = n]
                        \/ effects' = effects /\ n = effects[work[c].dispatch],
         n > 0 => r # "none",
         work[c].dispatch \in Reconcilable => n <= 1,
         p = "looking" => r # "done",
         p \in Departing /\ work[c].dispatch \in Reconcilable => n = 0,
         p \in Actuating => r # "none"
  PROVE  EInv'
<1> DEFINE d == work[c].dispatch
<1>1. /\ d \in Dispatch /\ record \in [Dispatch -> {"none", "open", "done"}]
      /\ effects \in [Dispatch -> Nat] /\ pc \in [Caller -> Points]
      /\ work \in [Caller -> Work \cup {Idle}] /\ work[c] \in Work
  BY Known DEF IInv, TypeOK
<1>2. /\ record'[d] = r /\ effects'[d] = n /\ pc'[c] = p
      /\ \A e \in Dispatch \ {d} : record'[e] = record[e] /\ effects'[e] = effects[e]
      /\ \A x \in Caller \ {c} : pc'[x] = pc[x] /\ work'[x] = work[x]
  BY <1>1
<1>3. p = "idle" \/ work'[c].dispatch = d
  BY <1>1 DEF Work
<1> HIDE DEF d
<1>4. \A e \in Dispatch : effects'[e] > 0 => record'[e] # "none"
  BY <1>1, <1>2 DEF EInv
<1>5. EffectOnce'
  <2> SUFFICES ASSUME NEW e \in Reconcilable PROVE effects'[e] <= 1
    BY DEF EffectOnce
  <2>1. e \in Dispatch
    BY DispatchAssumption
  <2>2. effects[e] <= 1
    BY DEF EInv, EffectOnce
  <2> QED
    BY <1>2, <2>1, <2>2 DEF d
<1>6. Fresh(c)'
  BY <1>2, <1>3 DEF Fresh, Departing, Actuating, d
<1>7. ASSUME NEW x \in Caller, x # c PROVE Fresh(x)'
  <2>1. pc'[x] = pc[x] /\ work'[x] = work[x] /\ Fresh(x)
    BY <1>2, <1>7 DEF EInv
  <2>2. CASE pc[x] = "idle"
    BY <2>1, <2>2 DEF Fresh, Departing, Actuating
  <2>3. CASE pc[x] # "idle"
    <3>1. work[x].dispatch \in Dispatch /\ work[x].dispatch # d
      BY <1>7, <2>3, Known DEF OneCallEach, d
    <3>2. record'[work[x].dispatch] = record[work[x].dispatch]
          /\ effects'[work[x].dispatch] = effects[work[x].dispatch]
      BY <1>2, <3>1
    <3> QED
      BY <2>1, <3>2 DEF Fresh
  <2> QED
    BY <2>2, <2>3
<1> QED
  BY <1>4, <1>5, <1>6, <1>7 DEF EInv

(* A caller that leaves the record, or is behind the adapter call.         *)
LEMMA FreshOn ==
  ASSUME IInv, EInv, OneCallEach, NEW c \in Caller, pc[c] # "idle",
         NEW p, pc' = [pc EXCEPT ![c] = p],
         \/ work' = work
         \/ \E s : work' = [work EXCEPT ![c].snap = s]
         \/ \E m : work' = [work EXCEPT ![c].spend = m]
         \/ p = "idle" /\ work' = [work EXCEPT ![c] = Idle],
         NEW r, \/ record' = [record EXCEPT ![work[c].dispatch] = r]
                \/ record' = record /\ r = record[work[c].dispatch],
         UNCHANGED effects,
         r = record[work[c].dispatch] \/ r \in {"open", "done"},
         p = "looking" => r # "done",
         p \in Departing /\ work[c].dispatch \in Reconcilable => effects[work[c].dispatch] = 0,
         p \in Actuating => r # "none"
  PROVE  EInv'
<1> DEFINE d == work[c].dispatch
           n == effects[d]
<1>1. d \in Dispatch /\ n \in Nat
  BY Known DEF IInv, TypeOK
<1>2. (n > 0 => r # "none") /\ (d \in Reconcilable => n <= 1)
  BY <1>1 DEF EInv, EffectOnce
<1> QED
  BY <1>1, <1>2, FreshStep

LEMMA FreshPrepare ==
  ASSUME IInv, EInv, OneCallEach, NEW c \in Caller, Validate(c) \/ Prepare(c)
  PROVE  EInv'
<1> DEFINE d == work[c].dispatch
<1>1. pc[c] # "idle"
  BY DEF Validate, Screen, Refuse, Enter,
         Prepare, Look, Reconcile, Adopt, CompleteAdopted, ReserveSpend, Claim, MarkDispatched
<1>2. Fresh(c) /\ (effects[d] > 0 => record[d] # "none") /\ effects[d] \in Nat
      /\ d \in Dispatch /\ record[d] \in {"none", "open", "done"}
  BY <1>1, Known DEF EInv, IInv, TypeOK
<1>3. CASE Screen(c) \/ Refuse(c) \/ Enter(c)
  <2>1. /\ UNCHANGED <<record, effects>>
        /\ \/ Return(c)
           \/ Goto(c, "queued") /\ UNCHANGED work
           \/ Goto(c, "looking") /\ UNCHANGED work /\ record[d] # "done"
    BY <1>3 DEF Screen, Refuse, Enter, memory
  <2>2. PICK p \in {"idle", "queued", "looking"} :
          /\ pc' = [pc EXCEPT ![c] = p]
          /\ work' = work \/ (p = "idle" /\ work' = [work EXCEPT ![c] = Idle])
          /\ p = "looking" => record[d] # "done"
    BY <2>1 DEF Return, Goto
  <2>3. p \notin Departing /\ p \notin Actuating
    BY DEF Departing, Actuating
  <2> HIDE DEF d
  <2> QED
    BY <1>1, <2>1, <2>2, <2>3, FreshOn DEF d
<1>4. CASE Look(c) \/ Reconcile(c)
  <2>1. PICK p \in {"reconciling", "adopting", "reserving"}, r \in {record[d], "done"} :
          /\ pc' = [pc EXCEPT ![c] = p]
          /\ work' = work \/ work' = [work EXCEPT ![c].snap = row]
          /\ record' = [record EXCEPT ![d] = r] \/ (record' = record /\ r = record[d])
          /\ UNCHANGED effects
          /\ p = "reserving" /\ d \in Reconcilable => effects[d] = 0
    <3>1. CASE Look(c)
      <4>1. record[d] # "done"
        BY <1>2, <3>1 DEF Fresh, Look
      <4>2. record[d] = "none" => effects[d] = 0
        BY <1>2
      <4> QED
        BY <1>2, <3>1, <4>1, <4>2 DEF Look, Goto, Snapshot, memory
    <3>2. CASE Reconcile(c)
      BY <1>2, <3>2 DEF Reconcile, Goto
    <3> QED
      BY <1>4, <3>1, <3>2
  <2>2. p # "looking" /\ p \notin Actuating /\ (p \in Departing => p = "reserving")
    BY DEF Departing, Actuating
  <2> HIDE DEF d
  <2> QED
    BY <1>1, <2>1, <2>2, FreshOn DEF d
<1>5. CASE Adopt(c) \/ CompleteAdopted(c) \/ ReserveSpend(c)
  <2>1. PICK p \in {"idle", "adopted", "claiming"} :
          /\ pc' = [pc EXCEPT ![c] = p]
          /\ \/ work' = work
             \/ \E m : work' = [work EXCEPT ![c].spend = m]
             \/ p = "idle" /\ work' = [work EXCEPT ![c] = Idle]
          /\ UNCHANGED <<record, effects>>
          /\ p = "claiming" => pc[c] = "reserving"
    BY <1>5 DEF Adopt, CompleteAdopted, ReserveSpend, Return, Goto, memory
  <2>2. p # "looking" /\ p \notin Actuating /\ (p \in Departing => pc[c] \in Departing)
    BY <2>1 DEF Departing, Actuating
  <2>3. p \in Departing /\ d \in Reconcilable => effects[d] = 0
    BY <1>2, <2>2 DEF Fresh
  <2> HIDE DEF d
  <2> QED
    BY <1>1, <2>1, <2>2, <2>3, FreshOn DEF d
<1>6. CASE Claim(c) \/ MarkDispatched(c)
  <2>1. PICK p \in {"idle", "marking", "sending"}, r \in {record[d], "open"} :
          /\ pc' = [pc EXCEPT ![c] = p]
          /\ \/ \E s : work' = [work EXCEPT ![c].snap = s]
             \/ p = "idle" /\ work' = [work EXCEPT ![c] = Idle]
          /\ record' = [record EXCEPT ![d] = r] \/ (record' = record /\ r = record[d])
          /\ UNCHANGED effects
          /\ p = "sending" => r = "open"
    <3>1. CASE Claim(c)
      BY <3>1 DEF Claim, Return, Goto, Snapshot
    <3>2. CASE MarkDispatched(c)
      BY <3>2 DEF MarkDispatched, Return, Goto, Snapshot
    <3> QED
      BY <1>6, <3>1, <3>2
  <2>2. p # "looking" /\ (p \in Actuating => p = "sending") /\ pc[c] \in Departing
    BY <1>6 DEF Departing, Actuating, Claim, MarkDispatched
  <2>3. d \in Reconcilable => effects[d] = 0
    BY <1>2, <2>2 DEF Fresh
  <2> HIDE DEF d
  <2> QED
    BY <1>1, <2>1, <2>2, <2>3, FreshOn DEF d
<1> QED
  BY <1>3, <1>4, <1>5, <1>6 DEF Validate, Prepare

LEMMA FreshSend == ASSUME IInv, EInv, OneCallEach, NEW c \in Caller, Send(c) PROVE EInv'
<1> DEFINE d == work[c].dispatch
<1>1. pc[c] = "sending" /\ pc[c] # "idle" /\ Fresh(c) /\ d \in Dispatch /\ effects[d] \in Nat
  BY Known DEF Send, EInv, IInv, TypeOK
<1>2. record[d] # "none" /\ (d \in Reconcilable => effects[d] = 0)
  BY <1>1 DEF Fresh, Departing, Actuating
<1>3. PICK p \in {"ok", "rejected", "timeout", "crashed"}, r \in {record[d], "open"},
           n \in {effects[d], effects[d] + 1} :
        /\ pc' = [pc EXCEPT ![c] = p] /\ UNCHANGED work
        /\ record' = [record EXCEPT ![d] = r] \/ (record' = record /\ r = record[d])
        /\ effects' = [effects EXCEPT ![d] = n] \/ (effects' = effects /\ n = effects[d])
  BY DEF Send, Goto
<1>4. p # "looking" /\ p \notin Departing /\ r # "none" /\ n \in Nat
      /\ (d \in Reconcilable => n <= 1)
  BY <1>1, <1>2, <1>3 DEF Departing
<1> HIDE DEF d
<1> QED
  BY <1>1, <1>3, <1>4, FreshStep DEF d

(* Behind the adapter call, the record stays or gets "open" or "done".     *)
LEMMA FreshAfter ==
  ASSUME IInv, EInv, OneCallEach, NEW c \in Caller,
         pc[c] \in Actuating, UNCHANGED effects,
         NEW p \in (Actuating \ {"sending"}) \cup {"idle"}, pc' = [pc EXCEPT ![c] = p],
         work' = work \/ (p = "idle" /\ work' = [work EXCEPT ![c] = Idle]),
         \/ record' = record
         \/ \E r \in {"open", "done"} : record' = [record EXCEPT ![work[c].dispatch] = r]
  PROVE  EInv'
<1> DEFINE d == work[c].dispatch
<1>1. pc[c] # "idle" /\ record[d] # "none"
  BY DEF Actuating, EInv, Fresh
<1>2. p # "looking" /\ p \notin Departing
  BY DEF Actuating, Departing
<1>3. PICK r \in {record[d], "open", "done"} :
        record' = [record EXCEPT ![d] = r] \/ (record' = record /\ r = record[d])
  OBVIOUS
<1> HIDE DEF d
<1> QED
  BY <1>1, <1>2, <1>3, FreshOn DEF d

LEMMA FreshFinish ==
  ASSUME IInv, EInv, OneCallEach, NEW c \in Caller, Succeed(c) \/ Recover(c)
  PROVE  EInv'
<1>1. pc[c] \in Actuating /\ UNCHANGED effects
  BY DEF Actuating, Succeed, Acknowledge, SaveResult, CompleteTask, CommitSpend, RecordOutcome,
         Recover, ReleaseSpend, FailTask, AskAfterTimeout, SettleSpend, CompleteSettled,
         HoldAmbiguous, memory
<1>2. \E p \in (Actuating \ {"sending"}) \cup {"idle"} :
         /\ pc' = [pc EXCEPT ![c] = p]
         /\ work' = work \/ (p = "idle" /\ work' = [work EXCEPT ![c] = Idle])
  <2>1. CASE Succeed(c)
    BY <2>1 DEF Actuating, Succeed, Acknowledge, SaveResult, CompleteTask, CommitSpend,
                RecordOutcome, Goto, Return
  <2>2. CASE Recover(c)
    BY <2>2 DEF Actuating, Recover, ReleaseSpend, FailTask, AskAfterTimeout, SettleSpend,
                CompleteSettled, HoldAmbiguous, Goto, Return
  <2> QED
    BY <2>1, <2>2
<1>3. \/ record' = record
      \/ \E r \in {"open", "done"} : record' = [record EXCEPT ![work[c].dispatch] = r]
  BY DEF Succeed, Acknowledge, SaveResult, CompleteTask, CommitSpend, RecordOutcome,
         Recover, ReleaseSpend, FailTask, AskAfterTimeout, SettleSpend, CompleteSettled,
         HoldAmbiguous, RecordOpen, memory
<1> QED
  BY <1>1, <1>2, <1>3, FreshAfter

LEMMA FreshFault ==
  ASSUME IInv, EInv, OneCallEach, LookupAnswers, NEW c \in Caller, AnyFault(c)
  PROVE  EInv'
<1>1. pc[c] # "idle" /\ UNCHANGED effects
  BY DEF AnyFault, Fault, FaultWhileReserving, FaultAfterMarking, FaultWhileHolding, OnError,
         memory
<1>2. CASE Return(c) /\ UNCHANGED record
  <2>1. pc' = [pc EXCEPT ![c] = "idle"] /\ work' = [work EXCEPT ![c] = Idle]
    BY <1>2 DEF Return, Goto
  <2>2. "idle" # "looking" /\ "idle" \notin Departing /\ "idle" \notin Actuating
    BY DEF Departing, Actuating
  <2> QED
    BY <1>1, <1>2, <2>1, <2>2, FreshOn
<1>3. CASE Fault(c) /\ ~ Return(c)
  <2>1. PICK p \in OnError(pc[c]) \ {"idle"} : pc' = [pc EXCEPT ![c] = p] /\ UNCHANGED work
    BY <1>3 DEF Fault, Goto
  <2>2. pc[c] \in Actuating /\ p \in Actuating \ {"sending"}
    BY <1>3, <2>1 DEF OnError, Actuating, LookupAnswers
  <2>3. record' = record
    BY <1>3 DEF Fault, memory
  <2> QED
    BY <1>1, <2>1, <2>2, <2>3, FreshAfter
<1>4. CASE FaultWhileHolding(c)
  <2>1. /\ pc[c] \in Actuating /\ pc' = [pc EXCEPT ![c] = "idle"]
        /\ work' = [work EXCEPT ![c] = Idle]
        /\ record' = [record EXCEPT ![work[c].dispatch] = "open"]
    BY <1>4 DEF FaultWhileHolding, RecordOpen, Return, Goto, Actuating
  <2> QED
    BY <1>1, <2>1, FreshAfter
<1>5. CASE FaultWhileReserving(c)
  <2> DEFINE d == work[c].dispatch
  <2>1. /\ pc[c] \in Departing /\ pc' = [pc EXCEPT ![c] = "claiming"]
        /\ UNCHANGED <<work, record>> /\ Fresh(c)
    BY <1>5 DEF FaultWhileReserving, Goto, Departing, memory, EInv
  <2>2. d \in Reconcilable => effects[d] = 0
    BY <2>1 DEF Fresh
  <2>3. "claiming" # "looking" /\ "claiming" \notin Actuating
    BY DEF Actuating
  <2> HIDE DEF d
  <2> QED
    BY <1>1, <2>1, <2>2, <2>3, FreshOn DEF d
<1> QED
  BY <1>2, <1>3, <1>4, <1>5 DEF AnyFault, Fault, FaultAfterMarking, memory

LEMMA FreshNext ==
  ASSUME IInv, EInv, OneCallEach, NoRestart', [LookupAnswers]_vars, [Next]_vars PROVE EInv'
<1>1. CASE UNCHANGED <<record, effects>> /\ UNCHANGED <<pc, work>>
  BY <1>1 DEF EInv, EffectOnce, Fresh
<1>2. ASSUME NEW c \in Caller, NEW d \in Dispatch, Call(c, d) PROVE EInv'
  <2>1. pc[c] = "idle" /\ UNCHANGED <<record, effects>>
    BY <1>2 DEF Call, memory
  <2>2. /\ pc' \in [Caller -> Points] /\ pc'[c] \in {"queued", "screening"}
        /\ \A x \in Caller \ {c} : pc'[x] = pc[x] /\ work'[x] = work[x]
    BY <1>2 DEF Call, Goto, IInv, TypeOK, Points
  <2>3. ASSUME NEW x \in Caller PROVE Fresh(x)'
    BY <2>1, <2>2 DEF EInv, Fresh, Departing, Actuating
  <2> QED
    BY <2>1, <2>3 DEF EInv, EffectOnce
<1>3. ASSUME NEW c \in Caller, Step(c) PROVE EInv'
  BY <1>3, FreshPrepare, FreshSend, FreshFinish DEF Step
<1>4. ASSUME NEW c \in Caller, AnyFault(c) PROVE EInv'
  <2>1. used' # used
    <3>1. used["fault"] \in Nat
      BY DEF IInv, TypeOK, Kind
    <3>2. used' = [used EXCEPT !["fault"] = @ + 1]
      BY <1>4 DEF AnyFault, Fault, FaultWhileReserving, FaultAfterMarking, FaultWhileHolding,
                  Count
    <3> QED
      BY <3>1, <3>2 DEF IInv, TypeOK, Kind
  <2> QED
    BY <1>4, <2>1, FreshFault DEF vars
<1>5. CASE Operates \/ \E d \in Dispatch : Approve(d) \/ Revoke(d)
  BY <1>1, <1>5 DEF Operates, Hold, Resume, OperatorSwaps, OperatorFails, Approve, Revoke, memory
<1>6. ~ Restart
  BY DEF Restart, Count, NoRestart, IInv, TypeOK, Kind
<1> QED
  BY <1>1, <1>2, <1>3, <1>4, <1>5, <1>6 DEF Next, AnyFault, Operates, vars

(* EffectOnce: with an adapter that can be asked, the provider applies a   *)
(* dispatch once, however often it is retried, if its calls do not overlap *)
(* (outbound_race shows what happens when they do).                        *)
THEOREM OnceAtTheProvider ==
  Spec /\ []OneCallEach /\ []NoRestart /\ [][LookupAnswers]_vars => []EffectOnce
<1>1. Init => EInv
  <2> SUFFICES ASSUME Init PROVE EInv
    OBVIOUS
  <2>1. \A d \in Dispatch : effects[d] = 0
    BY DEF Init
  <2>2. EffectOnce /\ \A d \in Dispatch : ~ (effects[d] > 0)
    BY <2>1, DispatchAssumption DEF EffectOnce
  <2>3. \A c \in Caller : Fresh(c)
    BY DEF Init, Fresh, Departing, Actuating
  <2> QED
    BY <2>2, <2>3 DEF EInv
<1>2. EInv => EffectOnce
  BY DEF EInv
<1> QED
  BY <1>1, <1>2, FreshNext, Invariant, PTL DEF Spec

-----------------------------------------------------------------------------
(***************************************************************************)
(* RepeatsWereResumed holds as long as calls come one after the other and  *)
(* neither an error nor a restart interferes, whatever operators and       *)
(* reviewers do meanwhile.                                                 *)
(***************************************************************************)
OneCall == \A a, b \in Caller : pc[a] # "idle" /\ pc[b] # "idle" => a = b

Undisturbed == used["fault"] = 0 /\ used["restart"] = 0

(* Only d has ever been applied, if any.                                   *)
Only(d) == \A e \in Dispatch \ {d} : effects[e] = 0

SomeDone == \E d \in Dispatch : record[d] = "done"

(* Where the record of the dispatch is not "done", and where it is.        *)
Untold == {"looking", "reconciling", "reserving", "claiming", "marking",
           "sending", "ok", "timeout", "crashed", "holding"}
Told == {"adopting", "adopted", "saving", "completing", "committing",
         "recording", "settling", "settled"}

(* Where nobody knows what the provider has done.                          *)
Unknown == {"timeout", "crashed", "holding"}

Claimed == {"marking"} \cup Actuating

(* The task has not gone on behind the back of the caller unless its       *)
(* version tells; it was not held when the caller looked.                  *)
Abreast(c) ==
  LET s == work[c].snap
  IN /\ row.version >= s.version /\ s.status # "HELD"
     /\ row.version = s.version => row.status = s.status

(* An effect that nobody let through will put the task on hold.            *)
Departs(c) ==
  LET d == work[c].dispatch
  IN Only(d) => /\ effects[d] <= used["resume"]
                /\ effects[d] = used["resume"] => CanMove(c, "HELD") \/ row.status = "HELD"

CallerR(c) ==
  /\ pc[c] # "idle" => (work[c].snap.status = "COMPLETED" => SomeDone)
  /\ pc[c] \in Untold => record[work[c].dispatch] # "done"
  /\ pc[c] \in Told => record[work[c].dispatch] = "done"
  /\ pc[c] \in Claimed => Abreast(c)
  /\ pc[c] \in {"marking", "sending"} => Departs(c)

(* When an effect that nobody let through is there, the dispatch is done   *)
(* or the task is held, or the caller is about to see to it.               *)
Pending(c) == pc[c] = "ok" \/ (pc[c] \in Unknown /\ CanMove(c, "HELD"))

DispatchR(d) ==
  Only(d) =>
    /\ effects[d] <= 1 + used["resume"]
    /\ effects[d] = 1 + used["resume"] =>
         \/ record[d] = "done"
         \/ row.status = "HELD"
         \/ \E c \in Caller : work[c].dispatch = d /\ Pending(c)

(* An operator is about to take the task off its hold.                     *)
Resuming == /\ operator # Quiet /\ operator.status # "HELD"
            /\ row.version = operator.read.version

(* The repetition that the operator will let through has not been used.    *)
(* (Once something is done, blind saves may set the version back.)         *)
OperatorR ==
  operator # Quiet /\ ~ SomeDone =>
    /\ row.version >= operator.read.version
    /\ Resuming =>
         /\ row.status = "HELD"
         /\ \A d \in Dispatch : Only(d) => effects[d] <= used["resume"]
         /\ \A c \in Caller :
              pc[c] \in {"marking", "sending"} /\ Only(work[c].dispatch) =>
                 effects[work[c].dispatch] < used["resume"]

RInv ==
  /\ row.status = "COMPLETED" => SomeDone
  /\ \A c \in Caller : CallerR(c)
  /\ \A d \in Dispatch : DispatchR(d)
  /\ OperatorR

(* The operator waits, and nothing uses his repetition.                    *)
LEMMA OperatorStays ==
  ASSUME IInv, IInv', OperatorR, UNCHANGED <<operator, effects>>,
         used'["resume"] = used["resume"],
         SomeDone => SomeDone',
         \/ SomeDone'
         \/ row'.status = row.status /\ row'.version = row.version
         \/ row'.version > row.version,
         row.status = "HELD" =>
           \A x \in Caller : pc'[x] \in {"marking", "sending"} =>
              pc[x] \in {"marking", "sending"} /\ work'[x].dispatch = work[x].dispatch
  PROVE  OperatorR'
<1> SUFFICES ASSUME operator # Quiet, ~ SomeDone' PROVE OperatorR'
  BY DEF OperatorR
<1>1. /\ row.version \in Nat /\ row'.version \in Nat /\ operator.read.version \in Nat
      /\ row.version >= operator.read.version
  BY DEF IInv, TypeOK, OperatorOK, Operation, Row, OperatorR
<1>2. CASE row'.version > row.version
  BY <1>1, <1>2 DEF OperatorR, Resuming
<1>3. CASE row'.status = row.status /\ row'.version = row.version
  <2>1. Resuming' => Resuming
    BY <1>3 DEF Resuming
  <2>2. \A d : Only(d)' <=> Only(d)
    BY DEF Only
  <2> QED
    BY <1>1, <1>3, <2>1, <2>2 DEF OperatorR
<1> QED
  BY <1>2, <1>3

(* A caller goes on to p with task_state s, or returns, and leaves r in    *)
(* the record.                                                             *)
LEMMA ResumedStep ==
  ASSUME IInv, RInv, OneCall, NEW c \in Caller, pc[c] # "idle", UNCHANGED <<effects, used, operator>>,
         IInv', NEW p, pc' = [pc EXCEPT ![c] = p],
         \/ work' = work
         \/ \E s : work' = [work EXCEPT ![c].snap = s]
         \/ \E m : work' = [work EXCEPT ![c].spend = m]
         \/ p = "idle" /\ work' = [work EXCEPT ![c] = Idle],
         NEW r, \/ record' = [record EXCEPT ![work[c].dispatch] = r]
                \/ record' = record /\ r = record[work[c].dispatch],
         record[work[c].dispatch] = "done" => r = "done",
         row'.status = "COMPLETED" => SomeDone \/ r = "done",
         p # "idle" => (work'[c].snap.status = "COMPLETED" => SomeDone \/ r = "done"),
         p \in Untold => r # "done",
         p \in Told => r = "done",
         p \in Claimed => Abreast(c)',
         p \in {"marking", "sending"} => Departs(c)',
         row.status = "HELD" => row'.status = "HELD" \/ r = "done",
         \/ SomeDone \/ r = "done"
         \/ row'.status = row.status /\ row'.version = row.version
         \/ row'.version > row.version,
         p \in {"marking", "sending"} => row.status # "HELD",
         Pending(c) => Pending(c)' \/ row'.status = "HELD" \/ r = "done"
  PROVE  RInv'
<1> DEFINE d == work[c].dispatch
<1>1. /\ d \in Dispatch /\ record \in [Dispatch -> {"none", "open", "done"}]
      /\ effects \in [Dispatch -> Nat] /\ pc \in [Caller -> Points]
      /\ work \in [Caller -> Work \cup {Idle}] /\ work[c] \in Work
  BY Known DEF IInv, TypeOK
<1>2. /\ record'[d] = r /\ pc'[c] = p
      /\ \A e \in Dispatch \ {d} : record'[e] = record[e]
      /\ \A x \in Caller \ {c} : pc'[x] = pc[x] /\ work'[x] = work[x]
  BY <1>1
<1>3. p = "idle" \/ work'[c].dispatch = d
  BY <1>1 DEF Work
<1> HIDE DEF d
<1>4. \A x \in Caller \ {c} : pc[x] = "idle" /\ pc'[x] = "idle"
  BY <1>2 DEF OneCall
<1>5. SomeDone \/ r = "done" => SomeDone'
  BY <1>1, <1>2 DEF SomeDone, d
<1>6. "idle" \notin Untold /\ "idle" \notin Told /\ "idle" \notin Claimed
  BY DEF Untold, Told, Claimed, Actuating
<1>7. CallerR(c)'
  BY <1>2, <1>3, <1>5, <1>6 DEF CallerR
<1>8. \A x \in Caller \ {c} : CallerR(x)'
  BY <1>4, <1>6 DEF CallerR
<1>9. ASSUME NEW e \in Dispatch PROVE DispatchR(e)'
  <2> SUFFICES ASSUME Only(e)'
               PROVE  /\ effects[e] <= 1 + used["resume"]
                      /\ effects[e] = 1 + used["resume"] =>
                           \/ record'[e] = "done"
                           \/ row'.status = "HELD"
                           \/ \E x \in Caller : work'[x].dispatch = e /\ Pending(x)'
    BY DEF DispatchR
  <2>1. Only(e) /\ DispatchR(e)
    BY DEF Only, RInv
  <2>2. effects[e] <= 1 + used["resume"]
    BY <2>1 DEF DispatchR
  <2>3. r = "done" => effects[d] > 0
    <3>1. SuccessIsReal'
      BY DEF IInv
    <3> QED
      BY <1>1, <1>2, <3>1 DEF SuccessIsReal
  <2>4. r = "done" => e = d
    BY <1>1, <2>1, <2>3 DEF Only
  <2>5. ASSUME effects[e] = 1 + used["resume"]
        PROVE  \/ record'[e] = "done"
               \/ row'.status = "HELD"
               \/ \E x \in Caller : work'[x].dispatch = e /\ Pending(x)'
    <3>1. CASE record[e] = "done"
      BY <1>2, <3>1 DEF d
    <3>2. CASE row.status = "HELD"
      BY <1>2, <2>4, <3>2
    <3>3. CASE \E x \in Caller : work[x].dispatch = e /\ Pending(x)
      <4>1. e = d /\ Pending(c)
        <5>1. \A x \in Caller \ {c} : ~ Pending(x)
          BY <1>4 DEF Pending, Unknown
        <5> QED
          BY <3>3, <5>1 DEF d
      <4>2. Pending(c)' => p # "idle"
        BY <1>2 DEF Pending, Unknown
      <4> QED
        BY <1>2, <1>3, <4>1, <4>2
    <3> QED
      BY <2>1, <2>5, <3>1, <3>2, <3>3 DEF DispatchR
  <2> QED
    BY <2>2, <2>5
<1>10. OperatorR'
  <2>1. SomeDone => SomeDone'
    BY <1>5
  <2>2. row.status = "HELD" => \A x \in Caller : pc'[x] \notin {"marking", "sending"}
    BY <1>2, <1>4
  <2>3. OperatorR
    BY DEF RInv
  <2> QED
    BY <1>5, <2>1, <2>2, <2>3, OperatorStays
<1> QED
  BY <1>5, <1>7, <1>8, <1>9, <1>10 DEF RInv

(* What the steps of a row do to its status and version.                   *)
LEMMA RowSteps ==
  ASSUME NEW r \in Row, NEW a \in Nat, NEW s \in Status
  PROVE  /\ Reserve(r, a).status = r.status /\ Reserve(r, a).version = r.version
         /\ Commit(r, a).status = r.status /\ Commit(r, a).version = r.version
         /\ Release(r, a).status = r.status /\ Release(r, a).version = r.version
         /\ Moved(r, s).status = s /\ Moved(r, s).version = r.version + 1
         /\ r.version \in Nat
  BY DEF Reserve, Commit, Release, Moved, Row

(* The status of the task and its version stay.                            *)
LEMMA ResumedStill ==
  ASSUME IInv, RInv, OneCall, NEW c \in Caller, pc[c] # "idle", UNCHANGED <<effects, used, operator>>,
         IInv', NEW p, pc' = [pc EXCEPT ![c] = p],
         work' = work \/ (p = "idle" /\ work' = [work EXCEPT ![c] = Idle]),
         NEW r, \/ record' = [record EXCEPT ![work[c].dispatch] = r]
                \/ record' = record /\ r = record[work[c].dispatch],
         record[work[c].dispatch] = "done" => r = "done",
         row'.status = row.status, row'.version = row.version,
         p \in Untold => r # "done",
         p \in Told => r = "done",
         p \in Claimed => pc[c] \in Claimed,
         p \notin {"marking", "sending"},
         pc[c] = "ok" => r = "done",
         pc[c] \in Unknown => p \in Unknown \/ r = "done"
  PROVE  RInv'
<1>1. CallerR(c) /\ pc[c] \in Points
  BY DEF RInv, IInv, TypeOK
<1>2. pc'[c] = p
  BY DEF IInv, TypeOK
<1>3. row'.status = "COMPLETED" => SomeDone
  BY DEF RInv
<1>4. p # "idle" => work' = work
  OBVIOUS
<1>5. p # "idle" => (work'[c].snap.status = "COMPLETED" => SomeDone)
  BY <1>1, <1>4 DEF CallerR
<1>6. p \in Claimed => Abreast(c)'
  <2>1. p \in Claimed => p # "idle"
    BY DEF Claimed, Actuating
  <2> QED
    BY <1>1, <1>4, <2>1 DEF CallerR, Abreast
<1>7. Pending(c) => Pending(c)' \/ r = "done"
  <2>1. p \in Unknown => p # "idle"
    BY DEF Unknown
  <2>2. p \in Unknown => (CanMove(c, "HELD")' <=> CanMove(c, "HELD"))
    BY <1>4, <2>1 DEF CanMove
  <2> QED
    BY <1>2, <2>2 DEF Pending
<1> QED
  BY <1>2, <1>3, <1>4, <1>5, <1>6, <1>7, ResumedStep

(* The dispatch is done: the task may go where it likes.                   *)
LEMMA ResumedDone ==
  ASSUME IInv, RInv, OneCall, NEW c \in Caller, pc[c] # "idle", UNCHANGED <<effects, used, operator>>,
         IInv', NEW p, pc' = [pc EXCEPT ![c] = p],
         work' = work \/ (p = "idle" /\ work' = [work EXCEPT ![c] = Idle]),
         UNCHANGED record, record[work[c].dispatch] = "done",
         p \notin Untold,
         p \in Claimed => Abreast(c)'
  PROVE  RInv'
<1> DEFINE r == record[work[c].dispatch]
<1>1. r = "done" /\ p \notin {"marking", "sending"} /\ record' = record
  BY DEF Untold
<1> HIDE DEF r
<1> QED
  BY <1>1, ResumedStep DEF r

LEMMA ResumedValidate ==
  ASSUME IInv, IInv', RInv, OneCall, Undisturbed', NEW c \in Caller, Validate(c) PROVE RInv'
<1>1. pc[c] # "idle" /\ UNCHANGED <<row, record, effects, used, operator>>
  <2>1. ~ Count("fault")
    BY DEF Undisturbed, Count, IInv, TypeOK, Kind
  <2> QED
    BY <2>1 DEF Validate, Screen, Refuse, Enter, memory
<1>2. PICK p \in {"idle", "queued", "looking"} :
        /\ pc' = [pc EXCEPT ![c] = p]
        /\ work' = work \/ (p = "idle" /\ work' = [work EXCEPT ![c] = Idle])
        /\ p = "looking" => record[work[c].dispatch] # "done"
  BY DEF Validate, Screen, Refuse, Enter, Return, Goto
<1>3. /\ p \notin Told /\ p \notin Claimed /\ p \notin {"marking", "sending"}
      /\ p \in Untold => p = "looking"
      /\ pc[c] # "ok" /\ pc[c] \notin Unknown
  BY DEF Told, Untold, Claimed, Actuating, Unknown, Validate, Screen, Refuse, Enter
<1> DEFINE r == record[work[c].dispatch]
<1>4. p \in Untold => r # "done"
  BY <1>2, <1>3
<1>5. record' = record /\ r = record[work[c].dispatch]
  BY <1>1
<1> HIDE DEF r
<1> QED
  BY <1>1, <1>2, <1>3, <1>4, <1>5, ResumedStill

LEMMA ResumedPrepare ==
  ASSUME IInv, IInv', RInv, OneCall, NEW c \in Caller, Prepare(c) PROVE RInv'
<1> DEFINE d == work[c].dispatch
           s == work[c].snap
<1>1. pc[c] # "idle" /\ UNCHANGED <<effects, used, operator>>
  BY DEF Prepare, Look, Reconcile, Adopt, CompleteAdopted, ReserveSpend, Claim, MarkDispatched,
         memory
<1>2. /\ CallerR(c) /\ d \in Dispatch /\ s \in Row /\ row \in Row /\ Amount[d] \in Nat
      /\ record \in [Dispatch -> {"none", "open", "done"}] /\ effects \in [Dispatch -> Nat]
      /\ work \in [Caller -> Work \cup {Idle}] /\ work[c] \in Work
  BY <1>1, Known DEF RInv, IInv, TypeOK
<1>3. row.status = "COMPLETED" => SomeDone
  BY DEF RInv
<1>4. CASE Look(c)
  <2>1. PICK p \in {"reconciling", "reserving"} :
          pc' = [pc EXCEPT ![c] = p] /\ work' = [work EXCEPT ![c].snap = row]
    BY <1>4 DEF Look, Goto, Snapshot
  <2>2. /\ UNCHANGED <<row, record>> /\ record[d] # "done"
        /\ ~ Pending(c) /\ p \notin Told /\ p \notin Claimed /\ p \notin {"marking", "sending"}
    BY <1>2, <1>4 DEF Look, memory, CallerR, Untold, Pending, Unknown, Told, Claimed, Actuating
  <2>3. work'[c].snap = row
    BY <1>2, <2>1 DEF Work
  <2>4. PICK r : r = record[d]
    OBVIOUS
  <2> HIDE DEF d, s
  <2> QED
    BY <1>1, <1>3, <2>1, <2>2, <2>3, <2>4, ResumedStep DEF d
<1>5. CASE Reconcile(c)
  <2>1. PICK p \in {"adopting", "reserving"}, r \in {record[d], "done"} :
          /\ pc' = [pc EXCEPT ![c] = p] /\ UNCHANGED <<row, work>>
          /\ record' = [record EXCEPT ![d] = r] \/ (record' = record /\ r = record[d])
          /\ p = "adopting" => r = "done"
          /\ p = "reserving" => r = record[d]
    BY <1>5 DEF Reconcile, Goto
  <2>2. /\ record[d] # "done" /\ pc[c] # "ok" /\ pc[c] \notin Unknown
        /\ p \in Untold => p = "reserving"
        /\ p \in Told => p = "adopting"
        /\ p \notin Claimed /\ p \notin {"marking", "sending"}
    BY <1>2, <1>5 DEF Reconcile, CallerR, Untold, Unknown, Told, Claimed, Actuating
  <2> HIDE DEF d, s
  <2> QED
    BY <1>1, <2>1, <2>2, ResumedStill DEF d
<1>6. CASE Adopt(c) \/ CompleteAdopted(c)
  <2>1. PICK p \in {"adopted", "idle"} :
          /\ pc' = [pc EXCEPT ![c] = p] /\ UNCHANGED record
          /\ work' = work \/ (p = "idle" /\ work' = [work EXCEPT ![c] = Idle])
    BY <1>6 DEF Adopt, CompleteAdopted, Goto, Return, memory
  <2>2. record[d] = "done" /\ p \notin Untold /\ p \notin Claimed
    BY <1>2, <1>6 DEF Adopt, CompleteAdopted, CallerR, Untold, Told, Claimed, Actuating
  <2> QED
    BY <1>1, <2>1, <2>2, ResumedDone
<1>7. CASE ReserveSpend(c)
  <2>1. PICK p \in {"claiming", "idle"} :
          /\ pc' = [pc EXCEPT ![c] = p] /\ UNCHANGED record
          /\ \/ \E m : work' = [work EXCEPT ![c].spend = m]
             \/ p = "idle" /\ work' = [work EXCEPT ![c] = Idle]
    BY <1>7 DEF ReserveSpend, Goto, Return, memory
  <2>2. row'.status = row.status /\ row'.version = row.version
    <3>1. row' = row \/ row' = Reserve(row, Amount[d])
      BY <1>7 DEF ReserveSpend
    <3> QED
      BY <1>2, <3>1, RowSteps DEF Status
  <2>3. /\ record[d] # "done" /\ pc[c] # "ok" /\ pc[c] \notin Unknown
        /\ p \notin Told /\ p \notin Claimed /\ p \notin {"marking", "sending"}
    BY <1>2, <1>7 DEF ReserveSpend, CallerR, Untold, Unknown, Told, Claimed, Actuating
  <2>4. PICK r : r = record[d]
    OBVIOUS
  <2>5. p # "idle" => (work'[c].snap.status = "COMPLETED" => SomeDone)
    <3>1. p # "idle" => work'[c].snap = s
      BY <1>2, <2>1 DEF Work
    <3> QED
      BY <1>1, <1>2, <3>1 DEF CallerR
  <2>6. ~ Pending(c)
    BY <2>3 DEF Pending
  <2> HIDE DEF d, s
  <2> QED
    BY <1>1, <1>3, <2>1, <2>2, <2>3, <2>4, <2>5, <2>6, ResumedStep DEF d
<1>8. CASE Claim(c)
  <2>1. /\ pc[c] = "claiming" /\ record[d] # "done" /\ UNCHANGED row /\ ~ Pending(c)
    BY <1>2, <1>8 DEF Claim, CallerR, Untold, Pending, Unknown
  <2>2. CASE Return(c) /\ UNCHANGED record
    <3>1. PICK p : p = "idle" /\ pc' = [pc EXCEPT ![c] = p] /\ work' = [work EXCEPT ![c] = Idle]
      BY <2>2 DEF Return, Goto
    <3>2. p \notin Untold /\ p \notin Told /\ p \notin Claimed /\ p \notin {"marking", "sending"}
      BY <3>1 DEF Untold, Told, Claimed, Actuating
    <3>3. PICK r : r = record[d]
      OBVIOUS
    <3>4. pc[c] # "ok" /\ pc[c] \notin Unknown
      BY <2>1 DEF Unknown
    <3> HIDE DEF d, s
    <3> QED
      BY <1>1, <2>1, <2>2, <3>1, <3>2, <3>3, <3>4, ResumedStill DEF d
  <2>3. CASE ~ (Return(c) /\ UNCHANGED record)
    <3>1. PICK p \in {"marking", "sending"}, r \in {record[d], "open"} :
            /\ pc' = [pc EXCEPT ![c] = p] /\ work' = [work EXCEPT ![c].snap = row]
            /\ record' = [record EXCEPT ![d] = r] \/ (record' = record /\ r = record[d])
            /\ row.status \notin Blocked
      BY <1>8, <2>3 DEF Claim, Goto, Snapshot, Blocked
    <3>2. work'[c].snap = row /\ work'[c].dispatch = d
      BY <1>2, <3>1 DEF Work
    <3>3. Abreast(c)'
      <4>1. row.version \in Nat /\ row.status # "HELD"
        BY <1>2, <3>1 DEF Row, Blocked
      <4> QED
        BY <2>1, <3>2, <4>1 DEF Abreast
    <3>4. Departs(c)'
      <4> SUFFICES ASSUME Only(d)'
                   PROVE  /\ effects[d] <= used["resume"]
                          /\ CanMove(c, "HELD")'
        BY <1>1, <3>2 DEF Departs
      <4>1. Only(d) /\ DispatchR(d)
        BY <1>1, <1>2, <3>2 DEF Only, RInv
      <4>2. \A x \in Caller : ~ Pending(x)
        <5>1. \A x \in Caller : Pending(x) => pc[x] # "idle"
          BY DEF Pending, Unknown
        <5> QED
          BY <1>1, <2>1, <5>1 DEF OneCall
      <4>3. effects[d] # 1 + used["resume"]
        BY <2>1, <3>1, <4>1, <4>2 DEF DispatchR, Blocked
      <4>4. effects[d] <= used["resume"]
        <5>1. effects[d] \in Nat /\ used["resume"] \in Nat
          BY <1>2 DEF IInv, TypeOK, Kind
        <5> QED
          BY <4>1, <4>3, <5>1 DEF DispatchR
      <4>5. row.status # "COMPLETED"
        <5>1. ~ SomeDone
          <6> SUFFICES ASSUME NEW e \in Dispatch, record[e] = "done" PROVE FALSE
            BY DEF SomeDone
          <6>1. e # d /\ effects[e] > 0
            BY <2>1 DEF IInv, SuccessIsReal
          <6> QED
            BY <4>1, <6>1 DEF Only
        <5> QED
          BY <1>3, <5>1
      <4>6. "HELD" \in LegalNextStates(row.status)
        <5>1. row.status \in Status \ {"HELD", "REJECTED", "FAILED", "COMPLETED"}
          BY <1>2, <3>1, <4>5 DEF Row, Blocked
        <5> QED
          BY <5>1 DEF Status, LegalNextStates
      <4> QED
        BY <2>1, <3>2, <4>4, <4>6 DEF CanMove
    <3>5. p # "idle" /\ p \notin Told
      BY DEF Told
    <3>6. r # "done" /\ (record[d] = "done" => r = "done")
      BY <2>1, <3>1
    <3> HIDE DEF d, s
    <3> QED
      BY <1>1, <1>3, <2>1, <3>1, <3>2, <3>3, <3>4, <3>5, <3>6, ResumedStep DEF d, Blocked
  <2> QED
    BY <2>2, <2>3
<1>9. CASE MarkDispatched(c)
  <2>1. /\ pc[c] = "marking" /\ record[d] # "done" /\ ~ Pending(c) /\ Abreast(c) /\ Departs(c)
    BY <1>2, <1>9 DEF MarkDispatched, CallerR, Untold, Pending, Unknown, Claimed
  <2>2. CASE ~ CanMove(c, "DISPATCHED")
    <3>1. PICK p : /\ p = "idle" /\ pc' = [pc EXCEPT ![c] = p] /\ work' = [work EXCEPT ![c] = Idle]
                   /\ UNCHANGED <<row, record>>
      BY <1>9, <2>2 DEF MarkDispatched, Return, Goto
    <3>2. p \notin Untold /\ p \notin Told /\ p \notin Claimed /\ p \notin {"marking", "sending"}
      BY <3>1 DEF Untold, Told, Claimed, Actuating
    <3>3. PICK r : r = record[d]
      OBVIOUS
    <3>4. pc[c] # "ok" /\ pc[c] \notin Unknown
      BY <2>1 DEF Unknown
    <3> HIDE DEF d, s
    <3> QED
      BY <1>1, <2>1, <3>1, <3>2, <3>3, <3>4, ResumedStill DEF d
  <2>3. CASE CanMove(c, "DISPATCHED")
    <3>1. /\ pc' = [pc EXCEPT ![c] = "sending"] /\ work' = [work EXCEPT ![c].snap = row']
          /\ record' = [record EXCEPT ![d] = "open"] /\ row' = Moved(s, "DISPATCHED")
      BY <1>9, <2>3 DEF MarkDispatched, Goto, Snapshot
    <3>2. work'[c].snap = row' /\ work'[c].dispatch = d
      BY <1>2, <3>1 DEF Work
    <3>3. row'.status = "DISPATCHED" /\ row'.version \in Nat
      BY <1>2, <3>1, RowSteps DEF Status
    <3>4. row.status # "HELD"
      BY <2>1, <2>3 DEF CanMove, Abreast
    <3>5. Abreast(c)'
      BY <3>2, <3>3 DEF Abreast
    <3>6. Departs(c)'
      <4>1. CanMove(c, "HELD")'
        BY <3>2, <3>3 DEF CanMove, LegalNextStates
      <4>2. Only(d)' => effects[d] <= used["resume"]
        BY <1>1, <2>1, <3>2 DEF Departs, Only
      <4> QED
        BY <1>1, <3>2, <4>1, <4>2 DEF Departs
    <3>7. "sending" \notin Told
      BY DEF Told
    <3>8. row'.version > row.version
      <4>1. row'.version = s.version + 1 /\ s.version = row.version /\ row.version \in Nat
        BY <1>2, <2>3, <3>1, RowSteps DEF Status, CanMove
      <4> QED
        BY <4>1
    <3> HIDE DEF d, s
    <3> QED
      BY <1>1, <2>1, <3>1, <3>2, <3>3, <3>4, <3>5, <3>6, <3>7, <3>8, ResumedStep DEF d
  <2> QED
    BY <2>2, <2>3
<1> QED
  BY <1>4, <1>5, <1>6, <1>7, <1>8, <1>9 DEF Prepare

LEMMA ResumedSend ==
  ASSUME IInv, IInv', RInv, OneCall, Undisturbed', NEW c \in Caller, Send(c) PROVE RInv'
<1> DEFINE d == work[c].dispatch
           k == used["resume"]
<1>1. pc[c] = "sending" /\ pc[c] # "idle" /\ UNCHANGED <<row, work>>
  BY DEF Send
<1>2. /\ CallerR(c) /\ d \in Dispatch /\ effects \in [Dispatch -> Nat] /\ k \in Nat
      /\ record \in [Dispatch -> {"none", "open", "done"}] /\ pc \in [Caller -> Points]
  BY <1>1, Known DEF RInv, IInv, TypeOK, Kind
<1>3. record[d] # "done" /\ Departs(c) /\ Abreast(c)
  BY <1>1, <1>2 DEF CallerR, Untold, Claimed, Actuating
<1>4. ~ Count("fault")
  BY DEF Undisturbed, Count, IInv, TypeOK, Kind
<1>5. PICK p \in {"ok", "rejected", "timeout", "crashed"}, r \in {record[d], "open"},
           n \in {effects[d], effects[d] + 1} :
        /\ pc' = [pc EXCEPT ![c] = p] /\ UNCHANGED used
        /\ record' = [record EXCEPT ![d] = r] \/ (record' = record /\ r = record[d])
        /\ effects' = [effects EXCEPT ![d] = n] \/ (effects' = effects /\ n = effects[d])
        /\ n # effects[d] => p \in {"ok", "timeout", "crashed"}
  BY <1>4 DEF Send, Goto
<1> HIDE DEF d
<1>6. /\ record'[d] = r /\ r # "done" /\ effects'[d] = n /\ pc'[c] = p
      /\ \A x \in Dispatch \ {d} : record'[x] = record[x] /\ effects'[x] = effects[x]
      /\ \A x \in Caller \ {c} : pc'[x] = pc[x] /\ pc[x] = "idle"
      /\ work' = work /\ row' = row /\ used' = used
  BY <1>1, <1>2, <1>3, <1>5 DEF OneCall
<1>7. SomeDone => SomeDone'
  BY <1>3, <1>6 DEF SomeDone
<1>8. CallerR(c)'
  <2>1. p \notin Told /\ p \notin {"marking", "sending"}
    BY DEF Told
  <2>2. Abreast(c)'
    BY <1>3, <1>6 DEF Abreast
  <2> QED
    BY <1>1, <1>2, <1>6, <1>7, <2>1, <2>2 DEF CallerR, d
<1>9. \A x \in Caller \ {c} : CallerR(x)'
  BY <1>6 DEF CallerR, Untold, Told, Claimed, Actuating
<1>10. ASSUME NEW x \in Dispatch, x = d PROVE DispatchR(x)'
  <2> SUFFICES ASSUME Only(x)'
               PROVE  /\ n <= 1 + k
                      /\ n = 1 + k => row.status = "HELD" \/ Pending(c)'
    BY <1>6, <1>10 DEF DispatchR, d
  <2>1. Only(x)
    BY <1>6, <1>10 DEF Only
  <2>2. effects[d] \in Nat /\ effects[d] <= k
        /\ (effects[d] = k => CanMove(c, "HELD") \/ row.status = "HELD")
    BY <1>2, <1>3, <1>10, <2>1 DEF Departs, d
  <2>3. n <= 1 + k /\ (n = 1 + k => n # effects[d] /\ effects[d] = k)
    BY <1>2, <1>5, <2>2
  <2>4. CanMove(c, "HELD") => CanMove(c, "HELD")'
    BY <1>6 DEF CanMove
  <2> QED
    BY <1>5, <1>6, <2>2, <2>3, <2>4 DEF Pending, Unknown
<1>11. ASSUME NEW x \in Dispatch, x # d PROVE DispatchR(x)'
  <2> SUFFICES ASSUME Only(x)'
               PROVE  /\ effects[x] <= 1 + k
                      /\ effects[x] = 1 + k => record[x] = "done" \/ row.status = "HELD"
    BY <1>6, <1>11 DEF DispatchR
  <2>1. Only(x)
    <3>1. n = 0
      BY <1>2, <1>6, <1>11 DEF Only
    <3>2. effects[d] = 0
      BY <1>2, <3>1
    <3> QED
      BY <1>6, <3>2 DEF Only
  <2>2. \A y \in Caller : ~ Pending(y)
    BY <1>1, <1>6 DEF Pending, Unknown
  <2>3. DispatchR(x)
    BY DEF RInv
  <2> QED
    BY <2>1, <2>2, <2>3 DEF DispatchR
<1>12. row'.status = "COMPLETED" => SomeDone'
  BY <1>6, <1>7 DEF RInv
<1>13. ASSUME NEW x \in Caller PROVE CallerR(x)'
  BY <1>8, <1>9
<1>14. ASSUME NEW x \in Dispatch PROVE DispatchR(x)'
  BY <1>10, <1>11
<1>15. OperatorR'
  <2> SUFFICES ASSUME operator # Quiet, ~ SomeDone
               PROVE  /\ row.version >= operator.read.version
                      /\ Resuming =>
                           /\ row.status = "HELD"
                           /\ \A x \in Dispatch : Only(x)' => effects'[x] <= k
                           /\ \A x \in Caller : pc'[x] \notin {"marking", "sending"}
    <3>1. UNCHANGED operator
      BY DEF Send
    <3> QED
      BY <1>6, <1>7, <3>1 DEF OperatorR, Resuming
  <2>1. OperatorR
    BY DEF RInv
  <2>2. ASSUME Resuming, NEW x \in Dispatch, Only(x)' PROVE effects'[x] <= k
    <3>1. CASE x = d
      <4>1. Only(d)
        BY <1>6, <2>2, <3>1 DEF Only
      <4>2. effects[d] < k /\ effects[d] \in Nat
        BY <1>1, <1>2, <2>1, <2>2, <4>1 DEF OperatorR, d
      <4> QED
        BY <1>2, <1>5, <1>6, <3>1, <4>2
    <3>2. CASE x # d
      <4>1. n = 0 /\ effects[d] = 0
        BY <1>2, <1>6, <2>2, <3>2 DEF Only
      <4>2. Only(x)
        BY <1>6, <2>2, <4>1 DEF Only
      <4> QED
        BY <1>6, <2>1, <2>2, <3>2, <4>2 DEF OperatorR
    <3> QED
      BY <3>1, <3>2
  <2>3. \A x \in Caller : pc'[x] \notin {"marking", "sending"}
    BY <1>6
  <2> QED
    BY <2>1, <2>2, <2>3 DEF OperatorR
<1> QED
  BY <1>12, <1>13, <1>14, <1>15 DEF RInv

LEMMA ResumedSucceed ==
  ASSUME IInv, IInv', RInv, OneCall, NEW c \in Caller, Succeed(c) PROVE RInv'
<1> DEFINE d == work[c].dispatch
           s == work[c].snap
           a == work[c].spend
<1>1. pc[c] # "idle" /\ UNCHANGED <<effects, used, operator>>
  BY DEF Succeed, Acknowledge, SaveResult, CompleteTask, CommitSpend, RecordOutcome, memory
<1>2. /\ CallerR(c) /\ d \in Dispatch /\ s \in Row /\ row \in Row /\ a \in Nat
  BY <1>1, Known DEF RInv
<1>3. Abreast(c)
  BY <1>2 DEF CallerR, Claimed, Actuating, Succeed, Acknowledge, SaveResult, CompleteTask,
              CommitSpend, RecordOutcome
<1>4. CASE Acknowledge(c)
  <2>1. PICK p, r : /\ p = "saving" /\ r = "done" /\ pc[c] = "ok"
                    /\ pc' = [pc EXCEPT ![c] = p] /\ work' = work /\ row' = row
                    /\ record' = [record EXCEPT ![d] = r]
    BY <1>4 DEF Acknowledge, Goto
  <2>2. p \notin Untold /\ pc[c] \in Claimed /\ p \notin {"marking", "sending"}
    BY <2>1 DEF Untold, Claimed, Actuating
  <2> HIDE DEF d, s
  <2> QED
    BY <1>1, <2>1, <2>2, ResumedStill DEF d
<1>5. CASE ~ Acknowledge(c)
  <2>1. record[d] = "done" /\ UNCHANGED record
    BY <1>2, <1>5 DEF CallerR, Told, Succeed, SaveResult, CompleteTask, CommitSpend,
                      RecordOutcome, memory
  <2>2. PICK p \in {"completing", "committing", "releasing", "recording", "idle"} :
          /\ pc' = [pc EXCEPT ![c] = p]
          /\ work' = work \/ (p = "idle" /\ work' = [work EXCEPT ![c] = Idle])
    BY <1>5 DEF Succeed, SaveResult, CompleteTask, CommitSpend, RecordOutcome, Goto, Return
  <2>3. p \notin Untold /\ "idle" \notin Claimed
    BY DEF Untold, Claimed, Actuating
  <2>4. p \in Claimed => Abreast(c)'
    <3> SUFFICES ASSUME p # "idle" PROVE Abreast(c)'
      BY <2>3
    <3>1. work' = work /\ s.status # "HELD" /\ s.version \in Nat /\ row.version \in Nat
          /\ row.version >= s.version /\ (row.version = s.version => row.status = s.status)
      BY <1>2, <1>3, <2>2 DEF Abreast, Row
    <3>2. CASE row' = s
      BY <3>1, <3>2 DEF Abreast
    <3>3. CASE row'.version = s.version + 1
      BY <3>1, <3>3 DEF Abreast
    <3>4. CASE row'.version = row.version /\ row'.status = row.status
      BY <3>1, <3>4 DEF Abreast
    <3>5. \/ row' = s
          \/ row' = Moved(s, "COMPLETED") /\ CanMove(c, "COMPLETED")
          \/ row' = Commit(row, a)
          \/ row' = row
      BY <1>5 DEF Succeed, SaveResult, CompleteTask, CommitSpend, RecordOutcome
    <3>6. Moved(s, "COMPLETED").version = s.version + 1
      BY <1>2, RowSteps DEF Status
    <3>7. Commit(row, a).version = row.version /\ Commit(row, a).status = row.status
      BY <1>2, RowSteps DEF Status
    <3> HIDE DEF s, d
    <3> QED
      BY <3>2, <3>3, <3>4, <3>5, <3>6, <3>7
  <2> QED
    BY <1>1, <2>1, <2>2, <2>3, <2>4, ResumedDone
<1> QED
  BY <1>4, <1>5

LEMMA ResumedRecover ==
  ASSUME IInv, IInv', RInv, OneCall, NEW c \in Caller, Recover(c) PROVE RInv'
<1> DEFINE d == work[c].dispatch
           s == work[c].snap
           a == work[c].spend
<1>1. pc[c] # "idle" /\ UNCHANGED <<effects, used, operator>>
  BY DEF Recover, ReleaseSpend, FailTask, AskAfterTimeout, SettleSpend, CompleteSettled,
         HoldAmbiguous, memory
<1>2. /\ CallerR(c) /\ d \in Dispatch /\ s \in Row /\ row \in Row /\ a \in Nat
  BY <1>1, Known DEF RInv
<1>3. pc[c] \in Claimed /\ Abreast(c)
  BY <1>2 DEF CallerR, Claimed, Actuating, Recover, ReleaseSpend, FailTask, AskAfterTimeout,
              SettleSpend, CompleteSettled, HoldAmbiguous
<1>4. row.status = "COMPLETED" => SomeDone
  BY DEF RInv
<1>5. CASE ReleaseSpend(c) \/ SettleSpend(c) \/ AskAfterTimeout(c)
  <2>1. row'.status = row.status /\ row'.version = row.version
    <3>1. row' \in {row, Release(row, a), Commit(row, a)}
      BY <1>5 DEF ReleaseSpend, SettleSpend, AskAfterTimeout
    <3> QED
      BY <1>2, <3>1, RowSteps DEF Status
  <2>2. PICK p \in {"failing", "settled", "settling", "holding"}, r \in {record[d], "done"} :
          /\ pc' = [pc EXCEPT ![c] = p] /\ work' = work
          /\ record' = [record EXCEPT ![d] = r] \/ (record' = record /\ r = record[d])
          /\ p = "settling" => r = "done"
          /\ p = "settled" => pc[c] = "settling" /\ r = record[d]
          /\ p = "holding" => r = record[d]
          /\ p \in {"settling", "holding"} <=> pc[c] = "timeout"
    BY <1>5 DEF ReleaseSpend, SettleSpend, AskAfterTimeout, Goto, memory
  <2>3. /\ pc[c] = "timeout" => record[d] # "done"
        /\ pc[c] = "settling" => record[d] = "done"
    BY <1>2 DEF CallerR, Untold, Told
  <2>4. /\ p \in Untold => p = "holding"
        /\ p \in Told => p \in {"settling", "settled"}
        /\ pc[c] # "ok" /\ (pc[c] \in Unknown => pc[c] = "timeout")
        /\ p \notin {"marking", "sending"} /\ "holding" \in Unknown
    BY <1>5 DEF Untold, Told, Unknown, ReleaseSpend, SettleSpend, AskAfterTimeout
  <2> HIDE DEF d, s
  <2> QED
    BY <1>1, <1>3, <2>1, <2>2, <2>3, <2>4, ResumedStill DEF d
<1>6. CASE CompleteSettled(c)
  <2>1. PICK p : /\ p = "idle" /\ pc' = [pc EXCEPT ![c] = p]
                 /\ work' = [work EXCEPT ![c] = Idle] /\ UNCHANGED record
    BY <1>6 DEF CompleteSettled, Return, Goto, memory
  <2>2. p \notin Untold /\ p \notin Claimed /\ record[d] = "done"
    BY <1>2, <1>6, <2>1 DEF Untold, Claimed, Actuating, CallerR, Told, CompleteSettled
  <2> QED
    BY <1>1, <2>1, <2>2, ResumedDone
<1>7. CASE FailTask(c) \/ HoldAmbiguous(c)
  <2>1. PICK p, r : /\ p = "idle" /\ pc' = [pc EXCEPT ![c] = p]
                    /\ work' = [work EXCEPT ![c] = Idle]
                    /\ record' = [record EXCEPT ![d] = r] \/ (record' = record /\ r = record[d])
                    /\ record[d] = "done" => r = "done"
    <3>1. pc' = [pc EXCEPT ![c] = "idle"] /\ work' = [work EXCEPT ![c] = Idle]
      BY <1>7 DEF FailTask, HoldAmbiguous, Return, Goto
    <3>2. CASE record' = record
      BY <3>1, <3>2
    <3>3. CASE pc[c] = "holding" /\ record' = [record EXCEPT ![d] = "open"]
      <4>1. record[d] # "done"
        BY <1>2, <3>3 DEF CallerR, Untold
      <4> QED
        BY <3>1, <3>3, <4>1
    <3> QED
      BY <1>7, <3>2, <3>3 DEF FailTask, HoldAmbiguous, RecordOpen, memory
  <2>2. /\ p \notin Untold /\ p \notin Told /\ p \notin Claimed /\ p \notin {"marking", "sending"}
    BY <2>1 DEF Untold, Told, Claimed, Actuating
  <2>3. row.status = "HELD" => row'.status = "HELD"
    <3>1. CASE FailTask(c)
      <4>1. row.status = "HELD" => ~ CanMove(c, "FAILED")
        BY <1>3 DEF CanMove, Abreast
      <4> QED
        BY <3>1, <4>1 DEF FailTask
    <3>2. CASE HoldAmbiguous(c)
      BY <1>2, <3>2, RowSteps DEF HoldAmbiguous, Status
    <3> QED
      BY <1>7, <3>1, <3>2
  <2>4. Pending(c) => row'.status = "HELD"
    <3>1. CASE FailTask(c)
      BY <3>1 DEF FailTask, Pending, Unknown
    <3>2. CASE HoldAmbiguous(c)
      BY <1>2, <3>2, RowSteps DEF HoldAmbiguous, Status, Pending, Unknown
    <3> QED
      BY <1>7, <3>1, <3>2
  <2>6. row' = row \/ row'.version > row.version
    <3>1. row' = row \/ (row'.version = s.version + 1 /\ row.version = s.version)
      BY <1>2, <1>7, RowSteps DEF FailTask, HoldAmbiguous, CanMove, Status
    <3>2. row.version \in Nat
      BY <1>2 DEF Row
    <3> HIDE DEF s
    <3> QED
      BY <3>1, <3>2
  <2>5. row'.status = "COMPLETED" => SomeDone
    <3>1. row' = row \/ row'.status \in {"FAILED", "HELD"}
      BY <1>2, <1>7, RowSteps DEF FailTask, HoldAmbiguous, Status
    <3> QED
      BY <1>4, <3>1
  <2> HIDE DEF d, s
  <2> QED
    BY <1>1, <2>1, <2>2, <2>3, <2>4, <2>5, <2>6, ResumedStep DEF d
<1> QED
  BY <1>5, <1>6, <1>7 DEF Recover

LEMMA ResumedCall ==
  ASSUME IInv, IInv', RInv, NEW c \in Caller, NEW e \in Dispatch, Call(c, e) PROVE RInv'
<1>1. /\ pc[c] = "idle" /\ UNCHANGED <<row, record, effects, operator>>
      /\ used' = [used EXCEPT !["call"] = @ + 1]
      /\ \E p \in {"queued", "screening"} : pc' = [pc EXCEPT ![c] = p]
      /\ work' = [work EXCEPT ![c] = [dispatch |-> e, snap |-> row, spend |-> 0,
                                      standing |-> (approval[e] = "approved")]]
  BY DEF Call, Count, Goto, memory
<1>2. /\ used'["resume"] = used["resume"] /\ pc'[c] \in {"queued", "screening"}
      /\ work'[c].snap = row
      /\ \A x \in Caller \ {c} : pc'[x] = pc[x] /\ work'[x] = work[x]
  BY <1>1 DEF IInv, TypeOK, Kind
<1>3. (row.status = "COMPLETED" => SomeDone) /\ (SomeDone' <=> SomeDone)
  BY <1>1 DEF RInv, SomeDone
<1>4. CallerR(c)'
  BY <1>1, <1>2, <1>3 DEF CallerR, Untold, Told, Claimed, Actuating
<1>5. ASSUME NEW x \in Caller, x # c PROVE CallerR(x)' /\ (Pending(x)' <=> Pending(x))
  <2>1. pc'[x] = pc[x] /\ work'[x] = work[x] /\ CallerR(x)
    BY <1>2, <1>5 DEF RInv
  <2>2. Abreast(x)' <=> Abreast(x)
    BY <1>1, <2>1 DEF Abreast
  <2>3. CanMove(x, "HELD")' <=> CanMove(x, "HELD")
    BY <1>1, <2>1 DEF CanMove
  <2>4. Departs(x)' <=> Departs(x)
    BY <1>1, <1>2, <2>1, <2>3 DEF Departs, Only
  <2> QED
    BY <1>1, <1>3, <2>1, <2>2, <2>3, <2>4 DEF CallerR, Pending
<1>6. ~ Pending(c)
  BY <1>1 DEF Pending, Unknown
<1>7. ASSUME NEW d \in Dispatch PROVE DispatchR(d)'
  <2>1. DispatchR(d) /\ (Only(d)' <=> Only(d))
    BY <1>1 DEF RInv, Only
  <2>2. (\E x \in Caller : work[x].dispatch = d /\ Pending(x))
          => \E x \in Caller : work'[x].dispatch = d /\ Pending(x)'
    BY <1>2, <1>5, <1>6
  <2> QED
    BY <1>1, <1>2, <2>1, <2>2 DEF DispatchR
<1>8. OperatorR'
  <2>1. OperatorR
    BY DEF RInv
  <2> QED
    BY <1>1, <1>2, <1>3, <2>1, OperatorStays
<1> QED
  BY <1>1, <1>3, <1>4, <1>5, <1>7, <1>8 DEF RInv

LEMMA ResumedReads ==
  ASSUME IInv, RInv, Hold \/ Resume \/ OperatorFails PROVE RInv'
<1> DEFINE k == used["resume"]
<1>1. /\ UNCHANGED <<row, record, effects, pc, work>>
      /\ row \in Row /\ row.version \in Nat /\ used \in [Kind -> Nat] /\ k \in Nat
      /\ effects \in [Dispatch -> Nat]
  BY DEF Hold, Resume, OperatorFails, memory, IInv, TypeOK, Row, Kind
<1>2. k' = k \/ k' = k + 1
  BY <1>1 DEF Hold, Resume, OperatorFails, Count, Kind
<1>3. \/ operator' = Quiet
      \/ operator'.status = "HELD" /\ operator'.read = row
      \/ operator'.read = row /\ row.status = "HELD" /\ k' = k + 1
  BY <1>1 DEF Hold, Resume, OperatorFails, Count, Kind
<1> HIDE DEF k
<1>4. ASSUME NEW c \in Caller
      PROVE  /\ CallerR(c)'
             /\ pc[c] \in {"marking", "sending"} /\ Only(work[c].dispatch) =>
                  effects[work[c].dispatch] \in Nat /\ effects[work[c].dispatch] <= k
  <2>1. CallerR(c) /\ (pc[c] # "idle" => work[c].dispatch \in Dispatch)
    BY Known DEF RInv
  <2>2. pc[c] \in {"marking", "sending"} => Departs(c)' /\ Departs(c)
    BY <1>1, <1>2, <2>1 DEF CallerR, Departs, CanMove, Only, k
  <2> QED
    BY <1>1, <2>1, <2>2 DEF CallerR, Abreast, SomeDone, Departs, k
<1>5. ASSUME NEW d \in Dispatch
      PROVE  DispatchR(d)' /\ (Only(d) => effects[d] \in Nat /\ effects[d] <= 1 + k)
  <2>1. DispatchR(d) /\ effects[d] \in Nat
    BY <1>1 DEF RInv
  <2>2. Only(d) => effects[d] <= 1 + k
    BY <2>1 DEF DispatchR, k
  <2>3. DispatchR(d)'
    BY <1>1, <1>2, <2>1 DEF DispatchR, Only, Pending, CanMove, k
  <2> QED
    BY <2>1, <2>2, <2>3
<1>6. OperatorR'
  <2> SUFFICES ASSUME operator' # Quiet PROVE OperatorR'
    BY DEF OperatorR
  <2>1. operator'.read.version = row.version /\ row'.version >= row.version
    BY <1>1, <1>3
  <2>2. CASE operator'.status = "HELD"
    BY <1>1, <2>1, <2>2 DEF OperatorR, Resuming
  <2>3. CASE row.status = "HELD" /\ k' = k + 1
    <3>1. ASSUME NEW d \in Dispatch, Only(d)' PROVE effects'[d] <= k'
      BY <1>1, <1>5, <2>3, <3>1 DEF Only
    <3>2. ASSUME NEW c \in Caller, pc[c] \in {"marking", "sending"}, Only(work[c].dispatch)
          PROVE  effects[work[c].dispatch] < k'
      <4>1. effects[work[c].dispatch] \in Nat /\ effects[work[c].dispatch] <= k /\ k \in Nat
        BY <1>1, <1>4, <3>2
      <4> QED
        BY <2>3, <4>1
    <3> QED
      BY <1>1, <2>1, <2>3, <3>1, <3>2 DEF OperatorR, Only, k
  <2> QED
    BY <1>3, <2>2, <2>3
<1>7. (row'.status = "COMPLETED" => SomeDone')
  BY <1>1 DEF RInv, SomeDone
<1> QED
  BY <1>4, <1>5, <1>6, <1>7 DEF RInv

(* What was read is written.  If nothing is done yet, a resumption uses up *)
(* the repetition it was counted for.                                      *)
LEMMA ResumedSwaps == ASSUME IInv, RInv, OperatorSwaps PROVE RInv'
<1> DEFINE k == used["resume"]
           s == operator.status
<1>1. /\ UNCHANGED <<record, effects, pc, work, used>> /\ row' = Moved(operator.read, s)
      /\ operator' = Quiet /\ operator # Quiet /\ row.version = operator.read.version
  BY DEF OperatorSwaps, memory
<1>2. /\ operator.read \in Row /\ s \in Status \ {"COMPLETED"} /\ row.version \in Nat
      /\ effects \in [Dispatch -> Nat] /\ k \in Nat
  BY <1>1 DEF IInv, TypeOK, OperatorOK, Operation, Row, Kind
<1>3. row'.status = s /\ row'.version = row.version + 1
  BY <1>1, <1>2, RowSteps
<1>4. OperatorR
  BY DEF RInv
<1>5. s = "HELD" \/ Resuming
  BY <1>1 DEF Resuming
<1>6. ASSUME NEW d \in Dispatch, Only(d), SomeDone PROVE record[d] = "done"
  <2>1. PICK e \in Dispatch : record[e] = "done"
    BY <1>6 DEF SomeDone
  <2>2. effects[e] > 0
    BY <2>1 DEF IInv, SuccessIsReal
  <2> QED
    BY <1>6, <2>1, <2>2 DEF Only
<1> HIDE DEF k, s
<1>7. ASSUME NEW c \in Caller PROVE CallerR(c)'
  <2>1. CallerR(c) /\ (pc[c] \in Claimed => work[c].snap \in Row)
    BY Known DEF RInv, Claimed, Actuating
  <2>2. pc[c] \in Claimed => Abreast(c)'
    <3> SUFFICES ASSUME pc[c] \in Claimed PROVE Abreast(c)'
      OBVIOUS
    <3>1. Abreast(c) /\ work[c].snap.version \in Nat
      BY <2>1 DEF CallerR, Row
    <3> QED
      BY <1>1, <1>2, <1>3, <3>1 DEF Abreast
  <2>3. pc[c] \in {"marking", "sending"} => Departs(c)'
    <3> SUFFICES ASSUME pc[c] \in {"marking", "sending"}, Only(work[c].dispatch)
                 PROVE  /\ effects[work[c].dispatch] <= k
                        /\ effects[work[c].dispatch] = k => s = "HELD"
      BY <1>1, <1>3 DEF Departs, Only, k
    <3>1. work[c].dispatch \in Dispatch /\ effects[work[c].dispatch] <= k
      BY <2>1, Known DEF CallerR, Departs, k
    <3>2. ~ SomeDone
      BY <1>6, <2>1, <3>1 DEF CallerR, Untold
    <3>3. Resuming => effects[work[c].dispatch] < k
      BY <1>1, <1>4, <3>2 DEF OperatorR, k
    <3> QED
      BY <1>2, <1>5, <3>1, <3>3
  <2>4. SomeDone' <=> SomeDone
    BY <1>1 DEF SomeDone
  <2> QED
    BY <1>1, <2>1, <2>2, <2>3, <2>4 DEF CallerR
<1>8. ASSUME NEW d \in Dispatch PROVE DispatchR(d)'
  <2> SUFFICES ASSUME Only(d)
               PROVE  /\ effects[d] <= 1 + k
                      /\ effects[d] = 1 + k => record[d] = "done" \/ s = "HELD"
    BY <1>1, <1>3 DEF DispatchR, Only, k
  <2>1. effects[d] <= 1 + k /\ effects[d] \in Nat
    BY <1>2 DEF RInv, DispatchR, k
  <2>2. CASE SomeDone
    BY <1>6, <2>1, <2>2
  <2>3. CASE ~ SomeDone
    <3>1. Resuming => effects[d] <= k
      BY <1>1, <1>4, <2>3 DEF OperatorR, k
    <3> QED
      BY <1>2, <1>5, <2>1, <3>1
  <2> QED
    BY <2>2, <2>3
<1>9. OperatorR' /\ row'.status # "COMPLETED"
  BY <1>1, <1>2, <1>3 DEF OperatorR
<1> QED
  BY <1>7, <1>8, <1>9 DEF RInv

LEMMA ResumedNext ==
  ASSUME IInv, IInv', RInv, OneCall, Undisturbed', [Next]_vars PROVE RInv'
<1>1. CASE /\ UNCHANGED <<row, record, effects, pc, work, operator>>
           /\ used'["resume"] = used["resume"]
  BY <1>1 DEF RInv, CallerR, Abreast, Departs, CanMove, DispatchR, Only, Pending, SomeDone,
              OperatorR, Resuming
<1>2. ASSUME NEW c \in Caller, NEW d \in Dispatch, Call(c, d) PROVE RInv'
  BY <1>2, ResumedCall
<1>3. ASSUME NEW c \in Caller, Step(c) PROVE RInv'
  BY <1>3, ResumedValidate, ResumedPrepare, ResumedSend, ResumedSucceed, ResumedRecover DEF Step
<1>4. ~ Count("fault") /\ ~ Count("restart")
  BY DEF Undisturbed, Count, IInv, TypeOK, Kind
<1>5. ASSUME NEW c \in Caller
      PROVE  ~ AnyFault(c)
  BY <1>4 DEF AnyFault, Fault, FaultWhileReserving, FaultAfterMarking, FaultWhileHolding
<1>6. ASSUME NEW d \in Dispatch, Approve(d) \/ Revoke(d) PROVE RInv'
  <2>1. used'["resume"] = used["resume"]
    BY <1>6 DEF Approve, Revoke, Count, IInv, TypeOK, Kind
  <2> QED
    BY <1>1, <1>6, <2>1 DEF Approve, Revoke
<1>7. CASE UNCHANGED vars
  BY <1>1, <1>7 DEF vars
<1> QED
  BY <1>2, <1>3, <1>4, <1>5, <1>6, <1>7, ResumedReads, ResumedSwaps DEF Next, Restart, AnyFault

(* RepeatsWereResumed: every repetition was let through by an operator who *)
(* resumed the task, because an unknown outcome puts it on hold.           *)
THEOREM RepeatsAreResumed == Spec /\ [](OneCall /\ Undisturbed) => []RepeatsWereResumed
<1>1. Init => RInv
  <2> SUFFICES ASSUME Init PROVE RInv
    OBVIOUS
  <2>1. row.status # "COMPLETED" /\ used["resume"] = 0 /\ \A d \in Dispatch : effects[d] = 0
    BY DEF Init, Kind
  <2>2. \A c \in Caller : CallerR(c)
    BY DEF Init, CallerR, Untold, Told, Claimed, Actuating
  <2>3. \A d \in Dispatch : DispatchR(d)
    BY <2>1 DEF DispatchR
  <2>4. OperatorR
    BY DEF Init, OperatorR
  <2> QED
    BY <2>1, <2>2, <2>3, <2>4 DEF RInv
<1>2. RInv => RepeatsWereResumed
  BY DEF RInv, DispatchR, RepeatsWereResumed, Only
<1> QED
  BY <1>1, <1>2, ResumedNext, Invariant, PTL DEF Spec

=============================================================================
