----------------------- MODULE TaskStateService_proofs -----------------------
(***************************************************************************)
(* Proofs about the CTS service, for every set of tasks, clients and locks *)
(* and every value of the limits.                                          *)
(***************************************************************************)
EXTENDS TaskStateService, FiniteSetTheorems, TLAPS

(* A document the code may hold: well typed, explained by its audit trail, *)
(* with the reasons its status calls for.                                  *)
DocOK(d) == d \in Document /\ TrailLegal(d) /\ ReasonsMatch(d)

-----------------------------------------------------------------------------
(* Operations of the state machine on one document.                        *)

(* An entry of a trail is judged by the entries up to it only, so a legal  *)
(* trail stays legal when it grows.                                        *)
LEMMA EntryStable ==
  ASSUME NEW cps \in Seq(Checkpoint), NEW x \in Checkpoint,
         NEW i \in 1..Len(cps), LegalEntry(cps, i)
  PROVE  LegalEntry(Append(cps, x), i)
<1> DEFINE new == Append(cps, x)
<1>1. \A j \in 1..i : new[j] = cps[j]
  OBVIOUS
<1>2. new[i] = cps[i] /\ StatusBefore(new, i) = StatusBefore(cps, i)
  BY <1>1 DEF StatusBefore
<1>3. \A j \in 1..(i - 1) : new[j] = cps[j]
  BY <1>1
<1> QED
  BY <1>2, <1>3 DEF LegalEntry

(* Stamp keeps the document well typed and its trail legal, if the entry   *)
(* it adds is a legal one.                                                 *)
LEMMA StampOK ==
  ASSUME NEW d \in Document, TrailLegal(d), NEW s \in Status, NEW via \in Via,
         LegalEntry(Append(d.checkpoints, [status |-> s, via |-> via]), d.version + 1)
  PROVE  Stamp(d, s, via) \in Document /\ TrailLegal(Stamp(d, s, via))
<1> DEFINE x == [status |-> s, via |-> via]
           new == Append(d.checkpoints, x)
           e == Stamp(d, s, via)
<1>1. d.checkpoints \in Seq(Checkpoint) /\ x \in Checkpoint /\ d.version \in Nat
  BY DEF Document, Checkpoint
<1>2. e.checkpoints = new /\ e.version = d.version + 1 /\ e.status = s
  BY DEF Stamp, Document
<1>3. e \in Document
  <2>1. new \in Seq(Checkpoint)
    BY <1>1
  <2>2. e = [d EXCEPT !.status = s, !.checkpoints = new, !.version = d.version + 1]
    BY DEF Stamp
  <2>3. d.version + 1 \in Nat
    BY <1>1
  <2> HIDE DEF e, new
  <2> QED
    BY <2>1, <2>2, <2>3 DEF Document
<1>4. Len(new) = d.version + 1 /\ new[d.version + 1] = x
  BY <1>1 DEF TrailLegal
<1>5. \A i \in 1..d.version : LegalEntry(new, i)
  BY <1>1, EntryStable DEF TrailLegal
<1>6. \A i \in 1..(d.version + 1) : LegalEntry(new, i)
  BY <1>1, <1>5
<1>7. StatusBefore(new, d.version + 2) = s
  BY <1>1, <1>4 DEF StatusBefore
<1> QED
  BY <1>1, <1>2, <1>3, <1>4, <1>6, <1>7 DEF TrailLegal

(* What StatusBefore says of the entry about to be appended.               *)
LEMMA BeforeAppend ==
  ASSUME NEW d \in Document, TrailLegal(d), NEW x \in Checkpoint
  PROVE  /\ StatusBefore(Append(d.checkpoints, x), d.version + 1) = d.status
         /\ Append(d.checkpoints, x)[d.version + 1] = x
<1>1. d.checkpoints \in Seq(Checkpoint) /\ d.version \in Nat /\ d.version = Len(d.checkpoints)
  BY DEF Document, TrailLegal
<1>2. CASE d.version = 0
  <2>1. d.status = "PENDING" /\ Len(d.checkpoints) = 0
    BY <1>1, <1>2 DEF StatusBefore, TrailLegal
  <2>2. StatusBefore(Append(d.checkpoints, x), 1) = "PENDING"
    BY DEF StatusBefore
  <2> QED
    BY <1>1, <1>2, <2>1, <2>2
<1>3. CASE d.version > 0
  <2>1. Append(d.checkpoints, x)[d.version] = d.checkpoints[d.version]
    BY <1>1, <1>3
  <2> QED
    BY <1>1, <1>3, <2>1 DEF StatusBefore, TrailLegal
<1> QED
  BY <1>1, <1>2, <1>3

(* Every transition the table allows keeps a document in order.            *)
LEMMA TransitionOK ==
  ASSUME NEW d, DocOK(d), NEW s \in Status, CanTransition(d, s),
         NEW via \in {"transition", "failure"},
         via = "failure" => s \in {"HELD", "FAILED"}
  PROVE  DocOK(Transition(d, s, via))
<1> DEFINE x == [status |-> s, via |-> via]
           e == Stamp(d, s, via)
           f == Transition(d, s, via)
<1>1. d \in Document /\ x \in Checkpoint /\ via \in Via
  BY DEF DocOK, Checkpoint, Via
<1>2. LegalEntry(Append(d.checkpoints, x), d.version + 1)
  <2> DEFINE new == Append(d.checkpoints, x)
  <2>1. /\ StatusBefore(new, d.version + 1) = d.status
        /\ new[d.version + 1] = x
    BY <1>1, BeforeAppend DEF DocOK
  <2>2. LegalEntry(new, d.version + 1)
    <3> HIDE DEF new
    <3> QED
      BY <2>1 DEF LegalEntry, CanTransition
  <2> QED
    BY <2>2
<1>3. e \in Document /\ TrailLegal(e)
  BY <1>1, <1>2, StampOK DEF DocOK
<1>4. f \in Document /\ f.checkpoints = e.checkpoints
        /\ f.version = e.version /\ f.status = e.status
  BY <1>3 DEF Transition, Document
<1>5. TrailLegal(f)
  BY <1>3, <1>4 DEF TrailLegal
<1>6. d.status # "FAILED" /\ d.failureReason = FALSE
  BY <1>1 DEF CanTransition, LegalNextStates, DocOK, ReasonsMatch, Document
<1>7. /\ f.status = s /\ f.holdReason = (s = "HELD")
      /\ f.failureReason = ((s = "FAILED") \/ d.failureReason)
  BY <1>1 DEF Transition, Stamp, Document
<1>8. ReasonsMatch(f)
  BY <1>6, <1>7 DEF ReasonsMatch
<1> QED
  BY <1>4, <1>5, <1>8 DEF DocOK

LEMMA RetryOK ==
  ASSUME NEW d, DocOK(d), CanRetry(d)
  PROVE  DocOK(Retry(d))
<1> DEFINE x == [status |-> "PENDING", via |-> "retry"]
           e == Stamp(d, "PENDING", "retry")
           f == Retry(d)
<1>1. d \in Document /\ x \in Checkpoint /\ "PENDING" \in Status /\ "retry" \in Via
  BY DEF DocOK, Checkpoint, Via, Status
<1>2. LegalEntry(Append(d.checkpoints, x), d.version + 1)
  <2> DEFINE new == Append(d.checkpoints, x)
  <2>1. /\ StatusBefore(new, d.version + 1) = d.status
        /\ new[d.version + 1] = x
    BY <1>1, BeforeAppend DEF DocOK
  <2>2. LegalEntry(new, d.version + 1)
    <3> HIDE DEF new
    <3> QED
      BY <2>1 DEF LegalEntry, CanRetry
  <2> QED
    BY <2>2
<1>3. e \in Document /\ TrailLegal(e)
  BY <1>1, <1>2, StampOK DEF DocOK
<1>4. f \in Document /\ f.checkpoints = e.checkpoints
        /\ f.version = e.version /\ f.status = e.status
  <2>1. f = [e EXCEPT !.retries = e.retries + 1, !.failureReason = FALSE]
    BY DEF Retry
  <2>2. e.retries + 1 \in Nat
    BY <1>3 DEF Document
  <2> HIDE DEF e, f
  <2> QED
    BY <1>3, <2>1, <2>2 DEF Document
<1>5. TrailLegal(f)
  BY <1>3, <1>4 DEF TrailLegal
<1>6. f.status = "PENDING" /\ f.failureReason = FALSE /\ f.holdReason = d.holdReason
  BY <1>1 DEF Retry, Stamp, Document
<1>7. d.holdReason = FALSE
  BY <1>1 DEF CanRetry, DocOK, ReasonsMatch, Document
<1>8. ReasonsMatch(f)
  BY <1>6, <1>7 DEF ReasonsMatch
<1> QED
  BY <1>4, <1>5, <1>8 DEF DocOK

(* A checkpoint that leaves the status alone is always legal.              *)
LEMMA MarkOK ==
  ASSUME NEW d, DocOK(d), NEW via \in {"lock", "governance"}
  PROVE  DocOK(Stamp(d, d.status, via))
<1> DEFINE x == [status |-> d.status, via |-> via]
           e == Stamp(d, d.status, via)
           new == Append(d.checkpoints, x)
<1>1. d \in Document /\ x \in Checkpoint /\ d.status \in Status /\ via \in Via
  BY DEF DocOK, Document, Checkpoint, Via
<1>2. LegalEntry(new, d.version + 1)
  <2>1. /\ StatusBefore(new, d.version + 1) = d.status
        /\ new[d.version + 1] = x
    BY <1>1, BeforeAppend DEF DocOK
  <2> HIDE DEF new
  <2> QED
    BY <2>1 DEF LegalEntry
<1>3. e \in Document /\ TrailLegal(e)
  BY <1>1, <1>2, StampOK DEF DocOK
<1>4. /\ e.status = d.status /\ e.holdReason = d.holdReason
      /\ e.failureReason = d.failureReason
  BY <1>1 DEF Stamp, Document
<1> QED
  BY <1>3, <1>4 DEF DocOK, ReasonsMatch

(* Fields the trail and the reasons do not depend on.                      *)
LEMMA SameCore ==
  ASSUME NEW d, DocOK(d), NEW e \in Document,
         e.status = d.status, e.version = d.version,
         e.checkpoints = d.checkpoints, e.holdReason = d.holdReason,
         e.failureReason = d.failureReason
  PROVE  DocOK(e)
BY DEF DocOK, TrailLegal, ReasonsMatch

LEMMA LocksOK ==
  ASSUME NEW d, DocOK(d), NEW l \in Lock
  PROVE  DocOK(AcquireLock(d, l)) /\ DocOK(ReleaseLock(d, l))
<1> DEFINE e == Stamp(d, d.status, "lock")
<1>1. DocOK(e)
  BY MarkOK
<1>2. DocOK([e EXCEPT !.locks = e.locks \cup {l}])
  <2> HIDE DEF e
  <2>1. [e EXCEPT !.locks = e.locks \cup {l}] \in Document
    BY <1>1 DEF DocOK, Document
  <2> QED
    BY <1>1, <2>1, SameCore DEF DocOK, Document
<1>3. DocOK([e EXCEPT !.locks = e.locks \ {l}])
  <2> HIDE DEF e
  <2>1. [e EXCEPT !.locks = e.locks \ {l}] \in Document
    BY <1>1 DEF DocOK, Document
  <2> QED
    BY <1>1, <2>1, SameCore DEF DocOK, Document
<1> QED
  BY <1>2, <1>3 DEF AcquireLock, ReleaseLock

LEMMA GovernanceOK ==
  ASSUME NEW d, DocOK(d), NEW g \in BOOLEAN
  PROVE  DocOK(SetGovernance(d, g))
<1> DEFINE e == Stamp(d, d.status, "governance")
<1>1. DocOK(e)
  BY MarkOK
<1>2. DocOK([e EXCEPT !.governed = g])
  <2> HIDE DEF e
  <2>1. [e EXCEPT !.governed = g] \in Document
    BY <1>1 DEF DocOK, Document
  <2> QED
    BY <1>1, <2>1, SameCore DEF DocOK, Document
<1> QED
  BY <1>2 DEF SetGovernance

LEMMA RestoreOK ==
  ASSUME NEW d, DocOK(d), NEW i, CanRestore(d, i)
  PROVE  DocOK(Restore(d, i))
<1> DEFINE s == d.checkpoints[i].status
           x == [status |-> s, via |-> "recovery"]
           new == Append(d.checkpoints, x)
           e == Stamp(d, s, "recovery")
           f == Restore(d, i)
<1>1. /\ d \in Document /\ d.checkpoints \in Seq(Checkpoint)
      /\ d.version = Len(d.checkpoints) /\ d.version \in Nat
      /\ i \in 1..d.version /\ "recovery" \in Via
  BY DEF DocOK, Document, TrailLegal, CanRestore, Via
<1>2. s \in Status /\ s \notin Terminal /\ x \in Checkpoint
  <2>1. d.checkpoints[i] \in Checkpoint
    BY <1>1
  <2>2. s \in Status /\ s \notin Terminal
    BY <2>1 DEF Checkpoint, CanRestore
  <2> QED
    BY <1>1, <2>2 DEF Checkpoint
<1>3. LegalEntry(new, d.version + 1)
  <2>1. new[d.version + 1] = x
    BY <1>1, <1>2, BeforeAppend DEF DocOK
  <2>2. new[i].status = s /\ i \in 1..((d.version + 1) - 1)
    BY <1>1
  <2>3. x.status = s /\ x.via = "recovery"
    OBVIOUS
  <2> HIDE DEF new, x, s
  <2> QED
    BY <1>2, <2>1, <2>2, <2>3 DEF LegalEntry
<1>4. e \in Document /\ TrailLegal(e) /\ e.status = s
  <2>1. e \in Document /\ TrailLegal(e)
    BY <1>1, <1>2, <1>3, StampOK DEF DocOK
  <2> QED
    BY <1>1, <2>1 DEF Stamp, Document
<1>5. f = [e EXCEPT !.holdReason = FALSE, !.failureReason = FALSE]
  BY DEF Restore
<1> HIDE DEF e, f, s
<1>6. /\ f \in Document /\ f.status = e.status /\ f.version = e.version
      /\ f.checkpoints = e.checkpoints
      /\ f.holdReason = FALSE /\ f.failureReason = FALSE
  BY <1>4, <1>5 DEF Document
<1>7. DocOK(f)
  BY <1>2, <1>4, <1>6 DEF DocOK, TrailLegal, ReasonsMatch, Terminal
<1> QED
  BY <1>7 DEF f

(* The budget entries can be rewritten freely.                             *)
LEMMA BudgetOK ==
  ASSUME NEW d, DocOK(d), NEW a \in Nat
  PROVE  DocOK(Reserve(d, a)) /\ DocOK(Commit(d, a)) /\ DocOK(Release(d, a))
<1>1. d \in Document
  BY DEF DocOK
<1>2. /\ d.reserved + a \in Nat /\ d.committed + a \in Nat
      /\ LessAmount(d.reserved, a) \in Nat
  BY <1>1 DEF Document, LessAmount
<1>3. \A r, k \in Nat : DocOK([d EXCEPT !.reserved = r, !.committed = k])
  <2> SUFFICES ASSUME NEW r \in Nat, NEW k \in Nat
               PROVE  DocOK([d EXCEPT !.reserved = r, !.committed = k])
    OBVIOUS
  <2> DEFINE e == [d EXCEPT !.reserved = r, !.committed = k]
  <2>1. e \in Document /\ e.status = d.status /\ e.version = d.version
          /\ e.checkpoints = d.checkpoints /\ e.holdReason = d.holdReason
          /\ e.failureReason = d.failureReason
    BY <1>1 DEF Document
  <2> QED
    BY <2>1, SameCore
<1>4. /\ Reserve(d, a) = [d EXCEPT !.reserved = d.reserved + a, !.committed = d.committed]
      /\ Commit(d, a) = [d EXCEPT !.reserved = LessAmount(d.reserved, a),
                                  !.committed = d.committed + a]
      /\ Release(d, a) = [d EXCEPT !.reserved = LessAmount(d.reserved, a),
                                   !.committed = d.committed]
  BY <1>1 DEF Reserve, Commit, Release, Document
<1>5. d.committed \in Nat
  BY <1>1 DEF Document
<1> QED
  BY <1>2, <1>3, <1>4, <1>5

-----------------------------------------------------------------------------
(* What a client computes from a document that is in order is in order.    *)
LEMMA OutcomesOK ==
  ASSUME NEW d, DocOK(d), NEW op, NEW e \in SwapOutcomes(op, d) \cup SaveOutcomes(op, d)
  PROVE  DocOK(e)
<1>1. \A T \in SUBSET Status : \A f \in Transitions(d, "transition", T) : DocOK(f)
  BY TransitionOK DEF Transitions
<1>2. Targets \in SUBSET Status /\ {"HELD"} \in SUBSET Status
  BY OpsAssumption DEF Status
<1>3. \A f \in Resumptions(d) : DocOK(f)
  BY <1>1, <1>2 DEF Resumptions
<1>4. \A f \in Recoveries(d) : DocOK(f)
  BY RestoreOK DEF Recoveries
<1>5. ASSUME e \in SwapOutcomes(op, d) PROVE DocOK(e)
  BY <1>1, <1>2, <1>3, <1>4, <1>5 DEF SwapOutcomes
<1>6. ASSUME e \in SaveOutcomes(op, d) PROVE DocOK(e)
  BY <1>1, <1>2, <1>6, RetryOK, LocksOK, GovernanceOK DEF SaveOutcomes
<1> QED
  BY <1>5, <1>6

LEMMA NewDocumentOK ==
  ASSUME NEW ls \in SUBSET Lock, NEW g \in BOOLEAN
  PROVE  DocOK(NewDocument(ls, g))
<1> DEFINE d == NewDocument(ls, g)
<1>1. << >> \in Seq(Checkpoint) /\ Len(<< >>) = 0 /\ "PENDING" \in Status
  BY DEF Status
<1>2. d \in Document
  BY <1>1 DEF NewDocument, Document
<1>3. TrailLegal(d)
  BY <1>1 DEF NewDocument, TrailLegal, StatusBefore
<1>4. ReasonsMatch(d)
  BY DEF NewDocument, ReasonsMatch
<1> QED
  BY <1>2, <1>3, <1>4 DEF DocOK

-----------------------------------------------------------------------------
(* The inductive invariant.  A stored document is only ever replaced by    *)
(* one a client carries, so the documents in flight have to be in order as *)
(* well; nothing has to be known of how old they are, which is why these   *)
(* results survive lost updates.                                           *)
InFlightOK ==
  \A c \in Client : pc[c] # "idle" => work[c] \in Work /\ DocOK(work[c].next)

IInv == TypeOK /\ (\A t \in Task : DocOK(store[t])) /\ InFlightOK

(* Starting a call: the client carries a document in order, nothing else   *)
(* changes but its program counter (and the failure count).                *)
LEMMA StartCall ==
  ASSUME IInv, NEW c \in Client, NEW w \in Work, DocOK(w.next),
         NEW p \in {"counted", "select", "save"},
         work' = [work EXCEPT ![c] = w], pc' = [pc EXCEPT ![c] = p],
         failures' \in [Task -> Nat],
         UNCHANGED <<store, restarts, budget>>
  PROVE  IInv'
<1>1. TypeOK'
  BY DEF IInv, TypeOK, budget
<1>2. InFlightOK'
  BY DEF IInv, TypeOK, InFlightOK
<1> QED
  BY <1>1, <1>2 DEF IInv

(* Ending a call, with the row of its task possibly replaced by the        *)
(* document the client carries.                                            *)
LEMMA EndCall ==
  ASSUME IInv, NEW c \in Client, Return(c), pc[c] # "idle",
         \/ store' = store
         \/ store' = [store EXCEPT ![work[c].task] = work[c].next],
         holding' \in [Client -> Nat], spent' \in Nat,
         UNCHANGED <<failures, restarts>>
  PROVE  IInv'
<1>1. /\ work[c].task \in Task /\ DocOK(work[c].next)
  BY DEF IInv, InFlightOK, Work
<1>2. \A t \in Task : DocOK(store'[t]) /\ store' \in [Task -> Document]
  BY <1>1 DEF IInv, TypeOK, DocOK
<1>3. store' \in [Task -> Document]
  BY <1>1 DEF IInv, TypeOK, DocOK
<1>4. TypeOK'
  BY <1>3 DEF IInv, TypeOK, Return
<1>5. InFlightOK'
  BY DEF IInv, TypeOK, InFlightOK, Return
<1> QED
  BY <1>2, <1>4, <1>5 DEF IInv

(* What a call of a swap or of a blind save starts with.                   *)
ReadsFor(c, t, d, w, p) ==
  /\ pc[c] = "idle" /\ UNCHANGED <<store, failures, restarts, budget>>
  /\ p \in {"select", "save"} /\ pc' = [pc EXCEPT ![c] = p]
  /\ p = "save" => w.owed = holding[c]
  /\ work' = [work EXCEPT ![c] = w]
  /\ w.task = t /\ w.next = d /\ w.paid = 0
  /\ \E op : d \in SwapOutcomes(op, store[t]) \cup SaveOutcomes(op, store[t])

LEMMA ReadsAre ==
  ASSUME NEW c, NEW t, ReadForSwap(c, t) \/ ReadForSave(c, t)
  PROVE  \E d, w, p : ReadsFor(c, t, d, w, p)
<1>1. ASSUME ReadForSwap(c, t) PROVE \E d, w, p : ReadsFor(c, t, d, w, p)
  <2>1. PICK op, d : d \in SwapOutcomes(op, store[t]) /\ work' = [work EXCEPT ![c] = Call(t, d)]
    BY <1>1 DEF ReadForSwap
  <2> PICK w : w = Call(t, d)
    OBVIOUS
  <2>2. w.task = t /\ w.next = d /\ w.paid = 0
    BY DEF Call
  <2>3. ReadsFor(c, t, d, w, "select")
    BY <1>1, <2>1, <2>2 DEF ReadForSwap, ReadsFor
  <2> QED
    BY <2>3
<1>2. ASSUME ReadForSave(c, t) PROVE \E d, w, p : ReadsFor(c, t, d, w, p)
  <2>1. PICK op, d : /\ d \in SaveOutcomes(op, store[t])
                     /\ work' = [work EXCEPT ![c] = [Call(t, d) EXCEPT !.owed = holding[c]]]
    BY <1>2 DEF ReadForSave
  <2> PICK w : w = [Call(t, d) EXCEPT !.owed = holding[c]]
    OBVIOUS
  <2>2. w.task = t /\ w.next = d /\ w.paid = 0 /\ w.owed = holding[c]
    BY DEF Call
  <2>3. ReadsFor(c, t, d, w, "save")
    BY <1>2, <2>1, <2>2 DEF ReadForSave, ReadsFor
  <2> QED
    BY <2>3
<1> QED
  BY <1>1, <1>2

(* A call, as built by the actions that start one.                         *)
LEMMA CallOK ==
  ASSUME IInv, NEW t \in Task, NEW d, DocOK(d)
  PROVE  Call(t, d) \in Work /\ Call(t, d).next = d
<1>1. store[t].version \in Nat /\ d \in Document
  BY DEF IInv, TypeOK, DocOK, Document
<1> QED
  BY <1>1 DEF Call, Work

LEMMA InitInv == Init => IInv
<1> SUFFICES ASSUME Init PROVE IInv
  OBVIOUS
<1>1. \A t \in Task : DocOK(store[t])
  BY NewDocumentOK DEF Init
<1>2. TypeOK
  BY <1>1 DEF Init, TypeOK, DocOK
<1>3. InFlightOK
  BY DEF Init, InFlightOK
<1> QED
  BY <1>1, <1>2, <1>3 DEF IInv

LEMMA NextInv == IInv /\ [Next]_vars => IInv'
<1> SUFFICES ASSUME IInv, [Next]_vars PROVE IInv'
  OBVIOUS
<1> USE BoundsAssumption
<1>0. failures \in [Task -> Nat] /\ holding \in [Client -> Nat] /\ spent \in Nat
  BY DEF IInv, TypeOK
<1>1. ASSUME NEW c \in Client, NEW t \in Task, ReadForSwap(c, t) PROVE IInv'
  <2>1. PICK op \in Ops : \E d \in SwapOutcomes(op, store[t]) :
                             work' = [work EXCEPT ![c] = Call(t, d)]
    BY <1>1 DEF ReadForSwap
  <2>2. PICK d \in SwapOutcomes(op, store[t]) : work' = [work EXCEPT ![c] = Call(t, d)]
    BY <2>1
  <2>3. DocOK(d)
    BY <2>2, OutcomesOK DEF IInv
  <2>4. Call(t, d) \in Work /\ Call(t, d).next = d
    BY <2>3, CallOK
  <2> QED
    BY <1>0, <1>1, <2>2, <2>3, <2>4, StartCall DEF ReadForSwap
<1>2. ASSUME NEW c \in Client, NEW t \in Task, ReadForSave(c, t) PROVE IInv'
  <2>1. PICK op \in Ops : \E d \in SaveOutcomes(op, store[t]) :
                             work' = [work EXCEPT ![c] = [Call(t, d) EXCEPT !.owed = holding[c]]]
    BY <1>2 DEF ReadForSave
  <2>2. PICK d \in SaveOutcomes(op, store[t]) :
                work' = [work EXCEPT ![c] = [Call(t, d) EXCEPT !.owed = holding[c]]]
    BY <2>1
  <2>3. DocOK(d)
    BY <2>2, OutcomesOK DEF IInv
  <2> PICK w : w = [Call(t, d) EXCEPT !.owed = holding[c]]
    OBVIOUS
  <2>4. w \in Work /\ w.next = d
    <3>1. Call(t, d) \in Work /\ Call(t, d).next = d
      BY <2>3, CallOK
    <3>2. holding[c] \in Nat
      BY DEF IInv, TypeOK
    <3> QED
      BY <3>1, <3>2 DEF Work
  <2>5. /\ work' = [work EXCEPT ![c] = w] /\ pc' = [pc EXCEPT ![c] = "save"]
        /\ UNCHANGED <<store, failures, restarts, budget>>
    BY <1>2, <2>2 DEF ReadForSave
  <2>6. failures' \in [Task -> Nat]
    BY <2>5 DEF IInv, TypeOK
  <2> QED
    BY <2>3, <2>4, <2>5, <2>6, StartCall
<1>3. ASSUME NEW c \in Client, NEW t \in Task, CountFailure(c, t) PROVE IInv'
  <2>1. failures' \in [Task -> Nat] /\ failures'[t] \in Nat
    BY <1>3 DEF CountFailure, IInv, TypeOK
  <2>2. DocOK(store[t])
    BY DEF IInv
  <2> DEFINE w == [Call(t, store[t]) EXCEPT !.count = failures'[t]]
  <2>3. w \in Work /\ w.next = store[t]
    <3>1. Call(t, store[t]) \in Work /\ Call(t, store[t]).next = store[t]
      BY <2>1, <2>2, CallOK
    <3> QED
      BY <2>1, <2>2, <3>1 DEF Work
  <2>4. work' = [work EXCEPT ![c] = w] /\ pc' = [pc EXCEPT ![c] = "counted"]
          /\ UNCHANGED <<store, restarts, budget>>
    BY <1>3 DEF CountFailure
  <2> HIDE DEF w
  <2> QED
    BY <2>1, <2>2, <2>3, <2>4, StartCall
<1>4. ASSUME NEW c \in Client, NEW t \in Task, ReserveBudget(c, t) PROVE IInv'
  <2>1. PICK a \in Amounts :
          work' = [work EXCEPT ![c] = [Call(t, Reserve(store[t], a)) EXCEPT !.owed = a]]
    BY <1>4 DEF ReserveBudget
  <2>2. a \in Nat /\ DocOK(Reserve(store[t], a))
    BY BudgetOK DEF IInv
  <2> DEFINE w == [Call(t, Reserve(store[t], a)) EXCEPT !.owed = a]
  <2>3. w \in Work /\ w.next = Reserve(store[t], a)
    <3>1. Call(t, Reserve(store[t], a)) \in Work /\ Call(t, Reserve(store[t], a)).next = Reserve(store[t], a)
      BY <2>1, <2>2, CallOK
    <3> QED
      BY <2>1, <2>2, <3>1 DEF Work
  <2>4. work' = [work EXCEPT ![c] = w] /\ pc' = [pc EXCEPT ![c] = "save"]
          /\ UNCHANGED <<store, failures, restarts, budget>>
    BY <1>4, <2>1 DEF ReserveBudget
  <2> HIDE DEF w
  <2> QED
    BY <1>0, <2>2, <2>3, <2>4, StartCall
<1>5. ASSUME NEW c \in Client, NEW t \in Task, CommitBudget(c, t) PROVE IInv'
  <2>1. holding[c] \in Nat /\ DocOK(Commit(store[t], holding[c]))
    BY BudgetOK DEF IInv, TypeOK
  <2> DEFINE w == [Call(t, Commit(store[t], holding[c])) EXCEPT !.paid = holding[c]]
  <2>3. w \in Work /\ w.next = Commit(store[t], holding[c])
    <3>1. Call(t, Commit(store[t], holding[c])) \in Work /\ Call(t, Commit(store[t], holding[c])).next = Commit(store[t], holding[c])
      BY <2>1, CallOK
    <3> QED
      BY <2>1, <3>1 DEF Work
  <2>4. work' = [work EXCEPT ![c] = w] /\ pc' = [pc EXCEPT ![c] = "save"]
          /\ UNCHANGED <<store, failures, restarts, budget>>
    BY <1>5 DEF CommitBudget
  <2> HIDE DEF w
  <2> QED
    BY <1>0, <2>1, <2>3, <2>4, StartCall
<1>6. ASSUME NEW c \in Client, NEW t \in Task, ReleaseBudget(c, t) PROVE IInv'
  <2>1. DocOK(Release(store[t], holding[c]))
    BY BudgetOK DEF IInv, TypeOK
  <2> DEFINE w == Call(t, Release(store[t], holding[c]))
  <2>3. w \in Work /\ w.next = Release(store[t], holding[c])
    BY <2>1, CallOK
  <2>4. work' = [work EXCEPT ![c] = w] /\ pc' = [pc EXCEPT ![c] = "save"]
          /\ UNCHANGED <<store, failures, restarts, budget>>
    BY <1>6 DEF ReleaseBudget
  <2> HIDE DEF w
  <2> QED
    BY <1>0, <2>1, <2>3, <2>4, StartCall
<1>7. ASSUME NEW c \in Client, ReadAfterFailure(c) PROVE IInv'
  <2> DEFINE t == work[c].task
             s == FailureTarget(work[c].count)
             d == Transition(store[t], s, "failure")
  <2>1. t \in Task /\ DocOK(store[t]) /\ s \in {"HELD", "FAILED"} /\ s \in Status
    BY <1>7 DEF ReadAfterFailure, IInv, InFlightOK, Work, FailureTarget, Status
  <2>2. CASE CanTransition(store[t], s)
    <3>1. DocOK(d)
      BY <2>1, <2>2, TransitionOK
    <3>2. /\ work' = [work EXCEPT ![c] = Call(t, d)]
          /\ pc' = [pc EXCEPT ![c] = "select"]
          /\ UNCHANGED <<store, failures, restarts, budget>>
      BY <1>7, <2>2 DEF ReadAfterFailure
    <3>3. Call(t, d) \in Work /\ Call(t, d).next = d
      BY <2>1, <3>1, CallOK
    <3> HIDE DEF t, s, d
    <3> QED
      BY <1>0, <3>1, <3>2, <3>3, StartCall
  <2>3. CASE ~CanTransition(store[t], s)
    <3>1. Return(c) /\ pc[c] # "idle" /\ UNCHANGED <<store, failures, restarts, budget>>
      BY <1>7, <2>3 DEF ReadAfterFailure, Return
    <3> QED
      BY <1>0, <3>1, EndCall DEF budget
  <2> QED
    BY <2>2, <2>3
<1>8. ASSUME NEW c \in Client, Save(c) PROVE IInv'
  <2>1. work[c] \in Work /\ work[c].owed \in Nat /\ work[c].paid \in Nat
    BY <1>8 DEF Save, IInv, InFlightOK, Work
  <2>2. holding' \in [Client -> Nat] /\ spent' \in Nat
    BY <1>8, <2>1 DEF Save, IInv, TypeOK
  <2> QED
    BY <1>8, <2>2, EndCall DEF Save
<1>9. ASSUME NEW c \in Client, SelectMatches(c) PROVE IInv'
  <2>1. TypeOK' /\ InFlightOK'
    BY <1>9 DEF SelectMatches, IInv, TypeOK, InFlightOK, budget
  <2> QED
    BY <1>9, <2>1 DEF SelectMatches, IInv
<1>10. ASSUME NEW c \in Client, SelectConflicts(c) PROVE IInv'
  BY <1>0, <1>10, EndCall DEF SelectConflicts, budget
<1>11. ASSUME NEW c \in Client, Update(c) PROVE IInv'
  BY <1>0, <1>11, EndCall DEF Update, budget
<1>12. ASSUME NEW c \in Client, RetryTransaction(c) PROVE IInv'
  <2>1. work[c] \in Work /\ DocOK(work[c].next)
    BY <1>12 DEF RetryTransaction, IInv, InFlightOK
  <2>2. /\ [work[c] EXCEPT !.attempt = @ + 1] \in Work
        /\ [work[c] EXCEPT !.attempt = @ + 1].next = work[c].next
    <3>1. work[c].attempt + 1 \in Nat
      BY <2>1 DEF Work
    <3> QED
      BY <2>1, <3>1 DEF Work
  <2>3. work' = [work EXCEPT ![c] = [work[c] EXCEPT !.attempt = @ + 1]]
    BY <1>12 DEF RetryTransaction
  <2> QED
    BY <1>0, <1>12, <2>1, <2>2, <2>3, StartCall DEF RetryTransaction
<1>13. ASSUME NEW c \in Client, WriteError(c) PROVE IInv'
  BY <1>0, <1>13, EndCall DEF WriteError, budget
<1>14. ASSUME Restart PROVE IInv'
  <2>1. TypeOK' /\ InFlightOK'
    BY <1>14 DEF Restart, IInv, TypeOK, InFlightOK
  <2> QED
    BY <1>14, <2>1 DEF Restart, IInv
<1>15. CASE UNCHANGED vars
  BY <1>15 DEF vars, budget, IInv, TypeOK, InFlightOK
<1> QED
  BY <1>1, <1>2, <1>3, <1>4, <1>5, <1>6, <1>7, <1>8, <1>9, <1>10, <1>11,
     <1>12, <1>13, <1>14, <1>15 DEF Next, Continue

LEMMA Invariant == Spec => []IInv
BY InitInv, NextInv, PTL DEF Spec

(* The service keeps its types: in particular no budget entry becomes      *)
(* negative and every stored row is a well-formed document.                *)
THEOREM TypeCorrect == Spec => []TypeOK
<1>1. IInv => TypeOK
  BY DEF IInv
<1> QED
  BY <1>1, Invariant, PTL

(* Whatever overwrites whatever, a stored document is explained by its own *)
(* audit trail.                                                            *)
THEOREM AuditTrails == Spec => []AuditTrailLegal
<1>1. IInv => AuditTrailLegal
  BY DEF IInv, DocOK, AuditTrailLegal
<1> QED
  BY <1>1, Invariant, PTL

(* A hold or failure reason is never found on a document it does not       *)
(* belong to.                                                              *)
THEOREM Reasons == Spec => []ReasonsMatchStatus
<1>1. IInv => ReasonsMatchStatus
  BY DEF IInv, DocOK, ReasonsMatchStatus
<1> QED
  BY <1>1, Invariant, PTL

-----------------------------------------------------------------------------
(* The ledger.  A document in flight may be old, but it shows at most what *)
(* is spent by the time it is written.                                     *)
LedgerInFlight ==
  \A c \in Client :
     /\ pc[c] # "idle" => work[c].next.committed <= spent + work[c].paid
     /\ pc[c] \in {"counted", "select", "update"} => work[c].paid = 0

LInv == IInv /\ CommittedBacked /\ LedgerInFlight

(* Only the budget operations touch the two budget entries.                *)
SameLedger(e, d) == e.committed = d.committed /\ e.reserved = d.reserved

LEMMA OutcomesKeepLedger ==
  ASSUME NEW d \in Document, NEW op, NEW e \in SwapOutcomes(op, d) \cup SaveOutcomes(op, d)
  PROVE  SameLedger(e, d)
<1>1. \A s, via : SameLedger(Stamp(d, s, via), d)
  BY DEF Stamp, Document, SameLedger
<1>2. \A s, via : SameLedger(Transition(d, s, via), d)
  BY DEF Transition, Stamp, Document, SameLedger
<1>3. SameLedger(Retry(d), d)
  BY DEF Retry, Stamp, Document, SameLedger
<1>4. \A l : SameLedger(AcquireLock(d, l), d) /\ SameLedger(ReleaseLock(d, l), d)
  BY DEF AcquireLock, ReleaseLock, Stamp, Document, SameLedger
<1>5. \A g : SameLedger(SetGovernance(d, g), d)
  BY DEF SetGovernance, Stamp, Document, SameLedger
<1>6. \A i : SameLedger(Restore(d, i), d)
  BY DEF Restore, Stamp, Document, SameLedger
<1>7. ASSUME e \in SwapOutcomes(op, d) PROVE SameLedger(e, d)
  BY <1>2, <1>6, <1>7 DEF SwapOutcomes, Transitions, Resumptions, Recoveries
<1>8. ASSUME e \in SaveOutcomes(op, d) PROVE SameLedger(e, d)
  BY <1>2, <1>3, <1>4, <1>5, <1>8 DEF SaveOutcomes, Transitions
<1> QED
  BY <1>7, <1>8

(* A call that starts with an honest document keeps the ledger honest.     *)
LEMMA StartLedger ==
  ASSUME LInv, NEW c \in Client, NEW w, w.next.committed <= spent + w.paid,
         work' = [work EXCEPT ![c] = w], NEW p, pc' = [pc EXCEPT ![c] = p],
         p = "save" \/ w.paid = 0, UNCHANGED <<store, spent>>
  PROVE  CommittedBacked' /\ LedgerInFlight'
<1>1. CommittedBacked'
  BY DEF LInv, CommittedBacked
<1>2. LedgerInFlight'
  <2> SUFFICES ASSUME NEW k \in Client
               PROVE  /\ pc'[k] # "idle" => work'[k].next.committed <= spent + work'[k].paid
                      /\ pc'[k] \in {"counted", "select", "update"} => work'[k].paid = 0
    BY DEF LedgerInFlight
  <2>1. CASE k = c
    BY <2>1 DEF LInv, IInv, TypeOK
  <2>2. CASE k # c
    BY <2>2 DEF LInv, IInv, TypeOK, LedgerInFlight
  <2> QED
    BY <2>1, <2>2
<1> QED
  BY <1>1, <1>2

LEMMA EndLedger ==
  ASSUME LInv, IInv', NEW c \in Client, Return(c), pc[c] # "idle",
         \/ store' = store /\ spent' = spent
         \/ /\ store' = [store EXCEPT ![work[c].task] = work[c].next]
            /\ spent' = spent + work[c].paid
  PROVE  CommittedBacked' /\ LedgerInFlight'
<1>1. /\ work[c] \in Work /\ work[c].task \in Task /\ work[c].paid \in Nat
      /\ work[c].next.committed <= spent + work[c].paid /\ spent \in Nat /\ spent' \in Nat
  BY DEF LInv, IInv, TypeOK, InFlightOK, Work, LedgerInFlight
<1>2. spent <= spent'
  BY <1>1
<1>3. \A t \in Task : store[t].committed \in Nat /\ store'[t].committed \in Nat
  BY DEF LInv, IInv, DocOK, Document
<1>4. \A t \in Task : store'[t].committed <= spent'
  BY <1>1, <1>2, <1>3 DEF LInv, IInv, TypeOK, CommittedBacked
<1>5. ASSUME NEW k \in Client, pc'[k] # "idle" PROVE work'[k].next.committed <= spent' + work'[k].paid
  <2>1. pc'[k] = pc[k] /\ work'[k] = work[k] /\ work[k] \in Work
    BY <1>5 DEF Return, LInv, IInv, TypeOK, InFlightOK
  <2>2. work[k].next.committed <= spent + work[k].paid
    BY <1>5, <2>1 DEF LInv, LedgerInFlight
  <2>3. work[k].next.committed \in Nat /\ work[k].paid \in Nat
    BY <2>1 DEF Work, Document
  <2> QED
    BY <1>1, <1>2, <2>1, <2>2, <2>3
<1>6. ASSUME NEW k \in Client, pc'[k] \in {"counted", "select", "update"} PROVE work'[k].paid = 0
  BY <1>6 DEF Return, LInv, IInv, TypeOK, LedgerInFlight
<1> QED
  BY <1>4, <1>5, <1>6 DEF CommittedBacked, LedgerInFlight

(* What Call puts into the ledger.                                         *)
LEMMA CallLedger ==
  ASSUME NEW t, NEW d, NEW n
  PROVE  /\ Call(t, d).next = d /\ Call(t, d).paid = 0
         /\ [Call(t, d) EXCEPT !.count = n].next = d
         /\ [Call(t, d) EXCEPT !.count = n].paid = 0
         /\ [Call(t, d) EXCEPT !.owed = n].next = d
         /\ [Call(t, d) EXCEPT !.owed = n].paid = 0
         /\ [Call(t, d) EXCEPT !.paid = n].next = d
         /\ [Call(t, d) EXCEPT !.paid = n].paid = n
BY DEF Call

LEMMA NextLedger == LInv /\ [Next]_vars => LInv'
<1> SUFFICES ASSUME LInv, [Next]_vars PROVE CommittedBacked' /\ LedgerInFlight'
  BY NextInv DEF LInv
<1>0. IInv /\ IInv'
  BY NextInv DEF LInv
<1>a. \A t \in Task : /\ store[t] \in Document
                      /\ store[t].committed \in Nat /\ store[t].reserved \in Nat
                      /\ store[t].committed <= spent /\ spent \in Nat
  BY <1>0 DEF LInv, IInv, TypeOK, DocOK, Document, CommittedBacked
<1>1. ASSUME NEW c \in Client, NEW t \in Task, ReadForSwap(c, t) \/ ReadForSave(c, t)
      PROVE  CommittedBacked' /\ LedgerInFlight'
  <2>1. PICK d, w, p : ReadsFor(c, t, d, w, p)
    BY <1>1, ReadsAre
  <2>2. d.committed = store[t].committed
    BY <1>a, <2>1, OutcomesKeepLedger DEF ReadsFor, SameLedger
  <2>3. w.next.committed <= spent + w.paid /\ w.paid = 0
    BY <1>a, <2>1, <2>2 DEF ReadsFor
  <2> QED
    BY <2>1, <2>3, StartLedger DEF ReadsFor, budget
<1>2. ASSUME NEW c \in Client, NEW t \in Task, CountFailure(c, t)
      PROVE  CommittedBacked' /\ LedgerInFlight'
  <2> DEFINE w == [Call(t, store[t]) EXCEPT !.count = failures'[t]]
  <2>1. w.next.committed <= spent + w.paid /\ w.paid = 0
    BY <1>a, CallLedger
  <2>2. work' = [work EXCEPT ![c] = w] /\ pc' = [pc EXCEPT ![c] = "counted"]
          /\ UNCHANGED <<store, spent>>
    BY <1>2 DEF CountFailure, budget
  <2> HIDE DEF w
  <2> QED
    BY <2>1, <2>2, StartLedger
<1>3. ASSUME NEW c \in Client, NEW t \in Task, ReserveBudget(c, t)
      PROVE  CommittedBacked' /\ LedgerInFlight'
  <2>1. PICK a \in Amounts :
          work' = [work EXCEPT ![c] = [Call(t, Reserve(store[t], a)) EXCEPT !.owed = a]]
    BY <1>3 DEF ReserveBudget
  <2> DEFINE w == [Call(t, Reserve(store[t], a)) EXCEPT !.owed = a]
  <2>2. Reserve(store[t], a).committed = store[t].committed
    BY <1>a DEF Reserve, Document
  <2>3. w.next.committed <= spent + w.paid
    BY <1>a, <2>2, CallLedger
  <2>4. work' = [work EXCEPT ![c] = w] /\ pc' = [pc EXCEPT ![c] = "save"]
          /\ UNCHANGED <<store, spent>>
    BY <1>3, <2>1 DEF ReserveBudget, budget
  <2> HIDE DEF w
  <2> QED
    BY <2>3, <2>4, StartLedger
<1>4. ASSUME NEW c \in Client, NEW t \in Task, CommitBudget(c, t)
      PROVE  CommittedBacked' /\ LedgerInFlight'
  <2> DEFINE h == holding[c]
             w == [Call(t, Commit(store[t], h)) EXCEPT !.paid = h]
  <2>1. h \in Nat
    BY <1>0 DEF IInv, TypeOK
  <2>2. Commit(store[t], h).committed = store[t].committed + h
    BY <1>a DEF Commit, Document
  <2>3. w.next.committed <= spent + w.paid
    BY <1>a, <2>1, <2>2, CallLedger
  <2>4. work' = [work EXCEPT ![c] = w] /\ pc' = [pc EXCEPT ![c] = "save"]
          /\ UNCHANGED <<store, spent>>
    BY <1>4 DEF CommitBudget, budget
  <2> HIDE DEF w, h
  <2> QED
    BY <2>3, <2>4, StartLedger
<1>5. ASSUME NEW c \in Client, NEW t \in Task, ReleaseBudget(c, t)
      PROVE  CommittedBacked' /\ LedgerInFlight'
  <2> DEFINE w == Call(t, Release(store[t], holding[c]))
  <2>1. Release(store[t], holding[c]).committed = store[t].committed
    BY <1>a DEF Release, Document
  <2>2. w.next.committed <= spent + w.paid
    BY <1>a, <2>1, CallLedger
  <2>3. work' = [work EXCEPT ![c] = w] /\ pc' = [pc EXCEPT ![c] = "save"]
          /\ UNCHANGED <<store, spent>>
    BY <1>5 DEF ReleaseBudget, budget
  <2> HIDE DEF w
  <2> QED
    BY <2>2, <2>3, StartLedger
<1>6. ASSUME NEW c \in Client, ReadAfterFailure(c)
      PROVE  CommittedBacked' /\ LedgerInFlight'
  <2> DEFINE t == work[c].task
             s == FailureTarget(work[c].count)
             d == Transition(store[t], s, "failure")
             w == Call(t, d)
  <2>1. t \in Task
    BY <1>0, <1>6 DEF ReadAfterFailure, IInv, InFlightOK, Work
  <2>2. CASE CanTransition(store[t], s)
    <3>1. d.committed = store[t].committed
      BY <1>a, <2>1 DEF Transition, Stamp, Document
    <3>2. w.next.committed <= spent + w.paid /\ w.paid = 0
      BY <1>a, <2>1, <3>1, CallLedger
    <3>3. work' = [work EXCEPT ![c] = w] /\ pc' = [pc EXCEPT ![c] = "select"]
            /\ UNCHANGED <<store, spent>>
      BY <1>6, <2>2 DEF ReadAfterFailure, budget
    <3> HIDE DEF w
    <3> QED
      BY <3>2, <3>3, StartLedger
  <2>3. CASE ~CanTransition(store[t], s)
    <3>1. Return(c) /\ pc[c] # "idle" /\ UNCHANGED <<store, spent>>
      BY <1>6, <2>3 DEF ReadAfterFailure, Return, budget
    <3> QED
      BY <1>0, <3>1, EndLedger
  <2> QED
    BY <2>2, <2>3
<1>7. ASSUME NEW c \in Client, Save(c) PROVE CommittedBacked' /\ LedgerInFlight'
  BY <1>0, <1>7, EndLedger DEF Save
<1>8. ASSUME NEW c \in Client, SelectMatches(c) PROVE CommittedBacked' /\ LedgerInFlight'
  BY <1>8 DEF SelectMatches, LInv, IInv, TypeOK, CommittedBacked, LedgerInFlight, budget
<1>9. ASSUME NEW c \in Client, SelectConflicts(c) \/ WriteError(c)
      PROVE  CommittedBacked' /\ LedgerInFlight'
  BY <1>0, <1>9, EndLedger DEF SelectConflicts, WriteError, budget
<1>10. ASSUME NEW c \in Client, Update(c) PROVE CommittedBacked' /\ LedgerInFlight'
  <2>1. work[c].paid = 0
    BY <1>10 DEF Update, LInv, LedgerInFlight
  <2>2. spent' = spent + work[c].paid
    BY <1>10, <1>0, <2>1 DEF Update, budget, IInv, TypeOK
  <2> QED
    BY <1>0, <1>10, <2>2, EndLedger DEF Update
<1>11. ASSUME NEW c \in Client, RetryTransaction(c) PROVE CommittedBacked' /\ LedgerInFlight'
  <2> DEFINE w == [work[c] EXCEPT !.attempt = @ + 1]
  <2>1. work[c] \in Work
    BY <1>0, <1>11 DEF RetryTransaction, IInv, InFlightOK
  <2>2. w.next = work[c].next /\ w.paid = work[c].paid
    BY <2>1 DEF Work
  <2>3. w.next.committed <= spent + w.paid /\ w.paid = 0
    BY <1>11, <2>2 DEF RetryTransaction, LInv, LedgerInFlight
  <2>4. work' = [work EXCEPT ![c] = w] /\ pc' = [pc EXCEPT ![c] = "select"]
          /\ UNCHANGED <<store, spent>>
    BY <1>11 DEF RetryTransaction, budget
  <2> HIDE DEF w
  <2> QED
    BY <2>3, <2>4, StartLedger
<1>12. ASSUME Restart PROVE CommittedBacked' /\ LedgerInFlight'
  BY <1>12 DEF Restart, LInv, CommittedBacked, LedgerInFlight
<1>13. CASE UNCHANGED vars
  BY <1>13 DEF vars, budget, LInv, CommittedBacked, LedgerInFlight
<1> QED
  BY <1>1, <1>2, <1>3, <1>4, <1>5, <1>6, <1>7, <1>8, <1>9, <1>10, <1>11,
     <1>12, <1>13 DEF Next, Continue

LEMMA InitLedger == Init => LInv
<1> SUFFICES ASSUME Init PROVE CommittedBacked /\ LedgerInFlight
  BY InitInv DEF LInv
<1>1. \A t \in Task : store[t].committed = 0 /\ spent = 0
  BY DEF Init, NewDocument
<1> QED
  BY <1>1 DEF Init, CommittedBacked, LedgerInFlight

(* Lost commits can only understate what was spent, never overstate it.    *)
THEOREM LedgerHonest == Spec => []CommittedBacked
<1>1. LInv => CommittedBacked
  BY DEF LInv
<1> QED
  BY <1>1, InitLedger, NextLedger, PTL DEF Spec

-----------------------------------------------------------------------------
(* Counting in the trail: the checkpoints of document d that are in X.     *)
Marks(d, X) == Cardinality({i \in DOMAIN d.checkpoints : d.checkpoints[i] \in X})

RetryMark == [status |-> "PENDING", via |-> "retry"]
HoldMark == [status |-> "HELD", via |-> "failure"]
Retried == {x \in Checkpoint : x.via = "retry"}
Held == {HoldMark}

LEMMA MarksAppend ==
  ASSUME NEW d \in Document, NEW x \in Checkpoint, NEW e, e.checkpoints = Append(d.checkpoints, x),
         NEW X
  PROVE  Marks(d, X) \in Nat /\ Marks(e, X) = Marks(d, X) + (IF x \in X THEN 1 ELSE 0)
<1> DEFINE cps == d.checkpoints
           n == Len(cps) + 1
           old == {i \in DOMAIN cps : cps[i] \in X}
           new == {i \in DOMAIN e.checkpoints : e.checkpoints[i] \in X}
<1>1. /\ cps \in Seq(Checkpoint) /\ Len(cps) \in Nat /\ DOMAIN cps = 1 .. Len(cps)
      /\ DOMAIN e.checkpoints = 1 .. n /\ e.checkpoints[n] = x
      /\ \A i \in 1 .. Len(cps) : e.checkpoints[i] = cps[i]
  BY DEF Document
<1>2. IsFiniteSet(old) /\ n \notin old
  <2>1. IsFiniteSet(1 .. Len(cps)) /\ old \in SUBSET (1 .. Len(cps))
    BY <1>1, FS_Interval
  <2> QED
    BY <1>1, <2>1, FS_Subset
<1>3. new = IF x \in X THEN old \cup {n} ELSE old
  <2>1. 1 .. n = (1 .. Len(cps)) \cup {n} /\ n \notin 1 .. Len(cps)
    BY <1>1
  <2> HIDE DEF cps, n
  <2> QED
    BY <1>1, <2>1
<1>4. Cardinality(old) \in Nat /\ Cardinality(old \cup {n}) = Cardinality(old) + 1
  BY <1>2, FS_CardinalityType, FS_AddElement
<1>5. Marks(d, X) = Cardinality(old) /\ Marks(e, X) = Cardinality(new)
  BY DEF Marks
<1> HIDE DEF old, new
<1> QED
  BY <1>3, <1>4, <1>5

(* What the operations but handle_task_failure write into the trail: no    *)
(* hold of a failure, and a retry exactly where retry_count goes up.       *)
LEMMA OutcomeMarks ==
  ASSUME NEW d \in Document, NEW op, NEW e \in SwapOutcomes(op, d) \cup SaveOutcomes(op, d)
  PROVE  \/ e.checkpoints = d.checkpoints /\ e.retries = d.retries
         \/ \E s \in Status, via \in {"transition", "lock", "governance", "recovery"} :
               /\ e.checkpoints = Append(d.checkpoints, [status |-> s, via |-> via])
               /\ e.retries = d.retries
         \/ /\ e.checkpoints = Append(d.checkpoints, RetryMark)
            /\ d.retries < MaxRetries /\ e.retries = d.retries + 1
<1> DEFINE Wrote(f, via) ==
             \E s \in Status : /\ f.checkpoints = Append(d.checkpoints, [status |-> s, via |-> via])
                               /\ f.retries = d.retries
           Same(f) == f.checkpoints = d.checkpoints /\ f.retries = d.retries
<1>1. \A s, via : /\ Stamp(d, s, via).checkpoints = Append(d.checkpoints, [status |-> s, via |-> via])
                  /\ Stamp(d, s, via).retries = d.retries
                  /\ DOMAIN Stamp(d, s, via) = DOMAIN d
  BY DEF Stamp, Document
<1>2. \A s \in Status : Wrote(Transition(d, s, "transition"), "transition")
  BY <1>1 DEF Transition, Stamp, Document
<1>3. CanRetry(d) => /\ Retry(d).checkpoints = Append(d.checkpoints, RetryMark)
                     /\ d.retries < MaxRetries /\ Retry(d).retries = d.retries + 1
  BY DEF Retry, Stamp, Document, CanRetry, RetryMark
<1>4. d.status \in Status
  BY DEF Document
<1>5. \A l : /\ Same(AcquireLock(d, l)) \/ Wrote(AcquireLock(d, l), "lock")
             /\ Same(ReleaseLock(d, l)) \/ Wrote(ReleaseLock(d, l), "lock")
  BY <1>4 DEF AcquireLock, ReleaseLock, Stamp, Document
<1>6. \A g : Wrote(SetGovernance(d, g), "governance")
  BY <1>4 DEF SetGovernance, Stamp, Document
<1>7. ASSUME NEW i, CanRestore(d, i) PROVE Wrote(Restore(d, i), "recovery")
  <2> DEFINE s == d.checkpoints[i].status
  <2>1. s \in Status
    <3>1. d.checkpoints[i] \in Checkpoint
      BY <1>7 DEF CanRestore, Document
    <3> QED
      BY <3>1 DEF Checkpoint
  <2>2. /\ Restore(d, i).checkpoints = Append(d.checkpoints, [status |-> s, via |-> "recovery"])
        /\ Restore(d, i).retries = d.retries
    BY DEF Restore, Stamp, Document
  <2> QED
    BY <2>1, <2>2
<1>8. Targets \subseteq Status /\ "HELD" \in Status
  BY OpsAssumption DEF Status
<1> HIDE DEF Wrote, Same
<1>9. ASSUME e \in SwapOutcomes(op, d) PROVE Wrote(e, "transition") \/ Wrote(e, "recovery")
  BY <1>2, <1>7, <1>8, <1>9 DEF SwapOutcomes, Transitions, Resumptions, Recoveries
<1>10. ASSUME e \in SaveOutcomes(op, d)
       PROVE  \/ Wrote(e, "transition") \/ Wrote(e, "lock") \/ Wrote(e, "governance") \/ Same(e)
              \/ CanRetry(d) /\ e = Retry(d)
  BY <1>2, <1>5, <1>6, <1>8, <1>10 DEF SaveOutcomes, Transitions
<1> QED
  BY <1>3, <1>9, <1>10 DEF Wrote, Same

(* retry_count says what the trail says, and keeps its limit.              *)
Tallied(d) == d.retries <= MaxRetries /\ d.retries = Marks(d, Retried)

LEMMA OutcomesTallied ==
  ASSUME NEW d \in Document, Tallied(d), NEW op, NEW e \in SwapOutcomes(op, d) \cup SaveOutcomes(op, d)
  PROVE  Tallied(e) /\ Marks(e, Held) = Marks(d, Held)
<1>1. d.retries \in Nat /\ MaxRetries \in Nat
  BY MaxRetriesAssumption DEF Document
<1>2. CASE e.checkpoints = d.checkpoints /\ e.retries = d.retries
  BY <1>2 DEF Tallied, Marks
<1>3. ASSUME NEW s \in Status, NEW via \in {"transition", "lock", "governance", "recovery"},
             e.checkpoints = Append(d.checkpoints, [status |-> s, via |-> via]),
             e.retries = d.retries
      PROVE  Tallied(e) /\ Marks(e, Held) = Marks(d, Held)
  <2> DEFINE x == [status |-> s, via |-> via]
  <2>1. x \in Checkpoint /\ x \notin Retried /\ x \notin Held
    BY DEF Checkpoint, Via, Retried, Held, HoldMark
  <2> HIDE DEF x
  <2>2. \A X : Marks(d, X) \in Nat /\ Marks(e, X) = Marks(d, X) + (IF x \in X THEN 1 ELSE 0)
    BY <1>3, <2>1, MarksAppend DEF x
  <2>3. Marks(e, Retried) = Marks(d, Retried) /\ Marks(e, Held) = Marks(d, Held)
    BY <2>1, <2>2
  <2> QED
    BY <1>3, <2>3 DEF Tallied
<1>4. CASE /\ e.checkpoints = Append(d.checkpoints, RetryMark)
           /\ d.retries < MaxRetries /\ e.retries = d.retries + 1
  <2>1. RetryMark \in Checkpoint /\ RetryMark \in Retried /\ RetryMark \notin Held
    BY DEF Checkpoint, Status, Via, Retried, Held, HoldMark, RetryMark
  <2>2. \A X : Marks(d, X) \in Nat /\ Marks(e, X) = Marks(d, X) + (IF RetryMark \in X THEN 1 ELSE 0)
    BY <1>4, <2>1, MarksAppend
  <2>3. Marks(e, Retried) = Marks(d, Retried) + 1 /\ Marks(e, Held) = Marks(d, Held)
    BY <2>1, <2>2
  <2> QED
    BY <1>1, <1>4, <2>3 DEF Tallied
<1>5. CASE \E s \in Status, via \in {"transition", "lock", "governance", "recovery"} :
               /\ e.checkpoints = Append(d.checkpoints, [status |-> s, via |-> via])
               /\ e.retries = d.retries
  BY <1>3, <1>5
<1>6. \/ e.checkpoints = d.checkpoints /\ e.retries = d.retries
      \/ \E s \in Status, via \in {"transition", "lock", "governance", "recovery"} :
            /\ e.checkpoints = Append(d.checkpoints, [status |-> s, via |-> via])
            /\ e.retries = d.retries
      \/ /\ e.checkpoints = Append(d.checkpoints, RetryMark)
         /\ d.retries < MaxRetries /\ e.retries = d.retries + 1
  BY OutcomeMarks
<1> QED
  BY <1>2, <1>4, <1>5, <1>6

(* handle_task_failure adds a hold where the count it drew is in the limit.*)
LEMMA FailureMarks ==
  ASSUME NEW d \in Document, Tallied(d), NEW s \in {"HELD", "FAILED"},
         NEW e, e = Transition(d, s, "failure")
  PROVE  Tallied(e) /\ Marks(d, Held) \in Nat
         /\ Marks(e, Held) = Marks(d, Held) + (IF s = "HELD" THEN 1 ELSE 0)
<1> DEFINE x == [status |-> s, via |-> "failure"]
<1>1. e.checkpoints = Append(d.checkpoints, x) /\ e.retries = d.retries
  BY DEF Transition, Stamp, Document
<1>2. x \in Checkpoint /\ x \notin Retried /\ (x \in Held <=> s = "HELD")
  BY DEF Checkpoint, Status, Via, Retried, Held, HoldMark
<1> HIDE DEF x
<1>3. \A X : Marks(d, X) \in Nat /\ Marks(e, X) = Marks(d, X) + (IF x \in X THEN 1 ELSE 0)
  BY <1>1, <1>2, MarksAppend
<1>4. Marks(e, Retried) = Marks(d, Retried)
  BY <1>2, <1>3
<1> QED
  BY <1>1, <1>2, <1>3, <1>4 DEF Tallied

LEMMA BudgetMarks ==
  ASSUME NEW d \in Document, Tallied(d), NEW a,
         NEW e \in {Reserve(d, a), Commit(d, a), Release(d, a)}
  PROVE  Tallied(e) /\ Marks(e, Held) = Marks(d, Held)
<1>1. e.checkpoints = d.checkpoints /\ e.retries = d.retries
  BY DEF Reserve, Commit, Release, Document
<1> QED
  BY <1>1 DEF Tallied, Marks

LEMMA MarksNat == ASSUME NEW d \in Document, NEW X PROVE Marks(d, X) \in Nat
<1> DEFINE e == [checkpoints |-> Append(d.checkpoints, RetryMark)]
<1>1. RetryMark \in Checkpoint /\ e.checkpoints = Append(d.checkpoints, RetryMark)
  BY DEF RetryMark, Checkpoint, Status, Via
<1> HIDE DEF e
<1> QED
  BY <1>1, MarksAppend

-----------------------------------------------------------------------------
(* The steps but a restart: client c goes on to w and p, and the row of    *)
(* its call may have become the document it carried.                       *)
Step(c, w, p) ==
  /\ work' = [work EXCEPT ![c] = w] /\ pc' = [pc EXCEPT ![c] = p]
  /\ \/ store' = store
     \/ pc[c] \in {"save", "update"} /\ store' = [store EXCEPT ![work[c].task] = work[c].next]
  /\ restarts' = restarts

Computes(c, w, p) ==
  /\ pc[c] = "idle" /\ p \in {"select", "save"} /\ failures' = failures
  /\ w.task \in Task
  /\ Tallied(w.next) /\ Marks(w.next, Held) = Marks(store[w.task], Held)
GoesOn(c, w, p) ==
  /\ pc[c] \in {"select", "update"} /\ p \in {"select", "update"} /\ failures' = failures
  /\ w.task = work[c].task /\ w.next = work[c].next
Fails(c, w, p) ==
  /\ pc[c] = "counted" /\ p = "select" /\ failures' = failures
  /\ w.task = work[c].task
  /\ w.next = Transition(store[w.task], FailureTarget(work[c].count), "failure")
Counts(c, w, p) ==
  /\ pc[c] = "idle" /\ p = "counted"
  /\ \E t \in Task : /\ w.task = t /\ w.next = store[t] /\ w.count = failures[t] + 1
                     /\ failures' = [failures EXCEPT ![t] = @ + 1]
Shape(c, w, p) ==
  /\ Step(c, w, p)
  /\ \/ p = "idle" /\ failures' = failures
     \/ Computes(c, w, p) \/ GoesOn(c, w, p) \/ Fails(c, w, p) \/ Counts(c, w, p)

LEMMA CallFields ==
  ASSUME NEW t, NEW d, NEW n
  PROVE  /\ Call(t, d).task = t /\ Call(t, d).next = d
         /\ [Call(t, d) EXCEPT !.count = n].task = t /\ [Call(t, d) EXCEPT !.count = n].next = d
         /\ [Call(t, d) EXCEPT !.count = n].count = n
         /\ [Call(t, d) EXCEPT !.owed = n].task = t /\ [Call(t, d) EXCEPT !.owed = n].next = d
         /\ [Call(t, d) EXCEPT !.paid = n].task = t /\ [Call(t, d) EXCEPT !.paid = n].next = d
BY DEF Call

LEMMA Shapes ==
  ASSUME IInv, \A t \in Task : Tallied(store[t]), Next, ~ Restart
  PROVE  \E c \in Client : \E w, p : Shape(c, w, p)
<1>0. \A t \in Task : store[t] \in Document
  BY DEF IInv, TypeOK
<1>1. ASSUME NEW c \in Client, NEW t \in Task, ReadForSwap(c, t) \/ ReadForSave(c, t)
      PROVE  \E w, p : Shape(c, w, p)
  <2>1. PICK d, w, p : ReadsFor(c, t, d, w, p)
    BY <1>1, ReadsAre
  <2>2. PICK op : d \in SwapOutcomes(op, store[t]) \cup SaveOutcomes(op, store[t])
    BY <2>1 DEF ReadsFor
  <2>3. Tallied(d) /\ Marks(d, Held) = Marks(store[t], Held)
    BY <1>0, <2>2, OutcomesTallied
  <2>4. Step(c, w, p) /\ Computes(c, w, p)
    BY <2>1, <2>3 DEF Step, Computes, ReadsFor
  <2> QED
    BY <2>4 DEF Shape
<1>2. ASSUME NEW c \in Client, NEW t \in Task, CountFailure(c, t) PROVE \E w, p : Shape(c, w, p)
  <2> PICK w : w = [Call(t, store[t]) EXCEPT !.count = failures'[t]]
    OBVIOUS
  <2>1. w.task = t /\ w.next = store[t] /\ w.count = failures'[t]
    BY CallFields
  <2>2. failures'[t] = failures[t] + 1 /\ failures' = [failures EXCEPT ![t] = @ + 1]
    BY <1>2 DEF CountFailure, IInv, TypeOK
  <2>3. Step(c, w, "counted") /\ Counts(c, w, "counted")
    BY <1>2, <2>1, <2>2 DEF Step, Counts, CountFailure
  <2> QED
    BY <2>3 DEF Shape
<1>3. ASSUME NEW c \in Client, NEW t \in Task, NEW a, NEW d \in {Reserve(store[t], a), Commit(store[t], a), Release(store[t], a)},
             NEW w, w.task = t, w.next = d,
             work' = [work EXCEPT ![c] = w], pc' = [pc EXCEPT ![c] = "save"], pc[c] = "idle",
             UNCHANGED <<store, failures, restarts>>
      PROVE  \E v, p : Shape(c, v, p)
  <2>1. Tallied(d) /\ Marks(d, Held) = Marks(store[t], Held)
    BY <1>0, BudgetMarks
  <2>2. Step(c, w, "save") /\ Computes(c, w, "save")
    BY <1>3, <2>1 DEF Step, Computes
  <2> QED
    BY <2>2 DEF Shape
<1>4. ASSUME NEW c \in Client, NEW t \in Task, ReserveBudget(c, t) \/ CommitBudget(c, t) \/ ReleaseBudget(c, t)
      PROVE  \E w, p : Shape(c, w, p)
  <2>1. PICK a, w : /\ work' = [work EXCEPT ![c] = w] /\ w.task = t
                    /\ w.next \in {Reserve(store[t], a), Commit(store[t], a), Release(store[t], a)}
    <3>1. CASE ReserveBudget(c, t)
      <4>1. PICK a \in Amounts :
                   work' = [work EXCEPT ![c] = [Call(t, Reserve(store[t], a)) EXCEPT !.owed = a]]
        BY <3>1 DEF ReserveBudget
      <4> PICK w : w = [Call(t, Reserve(store[t], a)) EXCEPT !.owed = a]
        OBVIOUS
      <4>2. w.task = t /\ w.next = Reserve(store[t], a)
        BY CallFields
      <4> QED
        BY <4>1, <4>2
    <3>2. CASE CommitBudget(c, t)
      <4> PICK a : a = holding[c]
        OBVIOUS
      <4> PICK w : w = [Call(t, Commit(store[t], a)) EXCEPT !.paid = a]
        OBVIOUS
      <4>1. work' = [work EXCEPT ![c] = w]
        BY <3>2 DEF CommitBudget
      <4>2. w.task = t /\ w.next = Commit(store[t], a)
        BY CallFields
      <4> QED
        BY <4>1, <4>2
    <3>3. CASE ReleaseBudget(c, t)
      <4> PICK a : a = holding[c]
        OBVIOUS
      <4> PICK w : w = Call(t, Release(store[t], a))
        OBVIOUS
      <4>1. work' = [work EXCEPT ![c] = w]
        BY <3>3 DEF ReleaseBudget
      <4>2. w.task = t /\ w.next = Release(store[t], a)
        BY CallFields
      <4> QED
        BY <4>1, <4>2
    <3> QED
      BY <1>4, <3>1, <3>2, <3>3
  <2>2. /\ pc' = [pc EXCEPT ![c] = "save"] /\ pc[c] = "idle"
        /\ UNCHANGED <<store, failures, restarts>>
    BY <1>4 DEF ReserveBudget, CommitBudget, ReleaseBudget
  <2> QED
    BY <1>3, <2>1, <2>2
<1>5. ASSUME NEW c \in Client, Return(c), UNCHANGED <<failures, restarts>>,
             \/ store' = store
             \/ pc[c] \in {"save", "update"} /\ store' = [store EXCEPT ![work[c].task] = work[c].next]
      PROVE  \E w, p : Shape(c, w, p)
  <2>1. Step(c, Idle, "idle")
    BY <1>5 DEF Return, Step
  <2> QED
    BY <1>5, <2>1 DEF Shape
<1>6. ASSUME NEW c \in Client, ReadAfterFailure(c) PROVE \E w, p : Shape(c, w, p)
  <2> PICK t, s : t = work[c].task /\ s = FailureTarget(work[c].count)
    OBVIOUS
  <2>1. CASE CanTransition(store[t], s)
    <3> PICK w : w = Call(t, Transition(store[t], s, "failure"))
      OBVIOUS
    <3>1. w.task = t /\ w.next = Transition(store[t], s, "failure")
      BY CallFields
    <3>2. Step(c, w, "select") /\ Fails(c, w, "select")
      BY <1>6, <2>1, <3>1 DEF ReadAfterFailure, Step, Fails
    <3> QED
      BY <3>2 DEF Shape
  <2>2. CASE ~ CanTransition(store[t], s)
    BY <1>5, <1>6, <2>2 DEF ReadAfterFailure, Return
  <2> QED
    BY <2>1, <2>2
<1>7. ASSUME NEW c \in Client, SelectMatches(c) \/ RetryTransaction(c) PROVE \E w, p : Shape(c, w, p)
  <2>1. work[c] \in Work /\ work \in [Client -> Work \cup {Idle}]
    BY <1>7 DEF SelectMatches, RetryTransaction, IInv, InFlightOK, TypeOK
  <2>2. PICK w : /\ work' = [work EXCEPT ![c] = w]
                 /\ w.task = work[c].task /\ w.next = work[c].next
    <3>1. CASE SelectMatches(c)
      <4>1. work' = [work EXCEPT ![c] = work[c]]
        BY <2>1, <3>1 DEF SelectMatches
      <4> QED
        BY <4>1
    <3>2. CASE RetryTransaction(c)
      <4> PICK v : v = [work[c] EXCEPT !.attempt = @ + 1]
        OBVIOUS
      <4>1. work' = [work EXCEPT ![c] = v]
        BY <3>2 DEF RetryTransaction
      <4>2. v.task = work[c].task /\ v.next = work[c].next
        BY <2>1 DEF Work
      <4> QED
        BY <4>1, <4>2
    <3> QED
      BY <1>7, <3>1, <3>2
  <2>3. PICK p \in {"select", "update"} : pc' = [pc EXCEPT ![c] = p]
    BY <1>7 DEF SelectMatches, RetryTransaction
  <2>4. Step(c, w, p) /\ GoesOn(c, w, p)
    BY <1>7, <2>2, <2>3 DEF SelectMatches, RetryTransaction, Step, GoesOn
  <2> QED
    BY <2>4 DEF Shape
<1>8. ASSUME NEW c \in Client, Save(c) \/ SelectConflicts(c) \/ Update(c) \/ WriteError(c)
      PROVE  \E w, p : Shape(c, w, p)
  BY <1>5, <1>8 DEF Save, SelectConflicts, Update, WriteError
<1> QED
  BY <1>1, <1>2, <1>4, <1>6, <1>7, <1>8 DEF Next, Continue

-----------------------------------------------------------------------------
(* retry_count.  As with the trails, only what is in flight matters.       *)
TallyInv ==
  /\ \A t \in Task : Tallied(store[t])
  /\ \A c \in Client : pc[c] # "idle" => Tallied(work[c].next)

LEMMA NextTallied == IInv /\ TallyInv /\ [Next]_vars => TallyInv'
<1> SUFFICES ASSUME IInv, TallyInv, [Next]_vars PROVE TallyInv'
  OBVIOUS
<1>1. ASSUME NEW c \in Client, NEW w, NEW p, Shape(c, w, p) PROVE TallyInv'
  <2>1. p # "idle" => Tallied(w.next)
    <3>1. CASE Computes(c, w, p)
      BY <3>1 DEF Computes
    <3>2. CASE GoesOn(c, w, p)
      BY <3>2 DEF GoesOn, TallyInv
    <3>3. CASE Fails(c, w, p)
      <4> PICK s : s = FailureTarget(work[c].count)
        OBVIOUS
      <4>1. w.task \in Task /\ store[w.task] \in Document
        BY <3>3 DEF Fails, IInv, TypeOK, InFlightOK, Work
      <4>2. s \in {"HELD", "FAILED"} /\ w.next = Transition(store[w.task], s, "failure")
        BY <3>3 DEF FailureTarget, Fails
      <4>3. Tallied(store[w.task])
        BY <4>1 DEF TallyInv
      <4> QED
        BY <4>1, <4>2, <4>3, FailureMarks
    <3>4. CASE Counts(c, w, p)
      BY <3>4 DEF Counts, TallyInv
    <3> QED
      BY <1>1, <3>1, <3>2, <3>3, <3>4 DEF Shape
  <2>2. \A t \in Task : Tallied(store'[t])
    <3>1. \A t \in Task : store'[t] = store[t] \/ (pc[c] # "idle" /\ store'[t] = work[c].next)
      BY <1>1 DEF Shape, Step, IInv, TypeOK
    <3> QED
      BY <3>1 DEF TallyInv
  <2>3. \A k \in Client : pc'[k] # "idle" => Tallied(work'[k].next)
    BY <1>1, <2>1 DEF Shape, Step, IInv, TypeOK, TallyInv
  <2> QED
    BY <2>2, <2>3 DEF TallyInv
<1>2. CASE Restart
  BY <1>2 DEF Restart, TallyInv
<1>3. CASE UNCHANGED vars
  BY <1>3 DEF vars, TallyInv
<1> QED
  BY <1>1, <1>2, <1>3, Shapes DEF TallyInv

LEMMA InitTallied ==
  Init => /\ TallyInv
          /\ \A t \in Task : Marks(store[t], Held) = 0
<1> SUFFICES ASSUME Init PROVE TallyInv /\ \A t \in Task : Marks(store[t], Held) = 0
  OBVIOUS
<1>1. ASSUME NEW t \in Task PROVE store[t].retries = 0 /\ \A X : Marks(store[t], X) = 0
  <2>1. store[t].retries = 0 /\ store[t].checkpoints = << >>
    BY DEF Init, NewDocument
  <2>2. \A X : {i \in DOMAIN << >> : << >>[i] \in X} = {}
    OBVIOUS
  <2> QED
    BY <2>1, <2>2, FS_EmptySet DEF Marks
<1>2. \A t \in Task : Tallied(store[t])
  BY <1>1, MaxRetriesAssumption DEF Tallied
<1> QED
  BY <1>1, <1>2 DEF TallyInv, Init

(* retry_count is the number of retries in the audit trail and never       *)
(* passes max_retries, whatever overwrites whatever.                       *)
THEOREM RetriesAreCounted == Spec => []RetriesCounted
<1>1. IInv /\ TallyInv => RetriesCounted
  <2> SUFFICES ASSUME IInv, TallyInv, NEW t \in Task
               PROVE  /\ store[t].retries <= MaxRetries
                      /\ store[t].retries =
                           Cardinality({i \in DOMAIN store[t].checkpoints :
                                           store[t].checkpoints[i].via = "retry"})
    BY DEF RetriesCounted
  <2>1. \A i \in DOMAIN store[t].checkpoints : store[t].checkpoints[i] \in Checkpoint
    <3>1. store[t].checkpoints \in Seq(Checkpoint)
      BY DEF IInv, TypeOK, Document
    <3> QED
      BY <3>1
  <2>2. {i \in DOMAIN store[t].checkpoints : store[t].checkpoints[i] \in Retried}
          = {i \in DOMAIN store[t].checkpoints : store[t].checkpoints[i].via = "retry"}
    BY <2>1 DEF Retried
  <2> QED
    BY <2>2 DEF TallyInv, Tallied, Marks
<1> QED
  BY <1>1, InitTallied, NextTallied, Invariant, PTL DEF Spec

-----------------------------------------------------------------------------
(* The holds of handle_task_failure.  A count that was drawn and not yet   *)
(* used is as good as a hold: Drawn(t) are those within the limit.  No two *)
(* calls draw the same count in one lifetime of the process, so a document *)
(* of the task, stored or in flight, has room for all of them.             *)
Low(n) == IF n <= MaxServiceRetries THEN n ELSE MaxServiceRetries
Room(t) == MaxServiceRetries * restarts + Low(failures[t])

Drawn(t) ==
  {n \in 1..MaxServiceRetries :
     \E c \in Client : pc[c] = "counted" /\ work[c].task = t /\ work[c].count = n}

Within(d, t) == Marks(d, Held) + Cardinality(Drawn(t)) <= Room(t)

HoldInv ==
  /\ \A t \in Task : Within(store[t], t)
  /\ \A c \in Client :
        pc[c] \in {"select", "update", "save"} => Within(work[c].next, work[c].task)
  /\ \A c \in Client :
        pc[c] = "counted" => work[c].count \in 1..failures[work[c].task]
  /\ \A c, k \in Client :
        pc[c] = "counted" /\ pc[k] = "counted"
          /\ work[c].task = work[k].task /\ work[c].count = work[k].count => c = k

LEMMA Counts1K ==
  ASSUME NEW S \in SUBSET (1..MaxServiceRetries)
  PROVE  /\ IsFiniteSet(S) /\ Cardinality(S) \in Nat
         /\ \A R \in SUBSET S : Cardinality(R) \in Nat /\ Cardinality(R) <= Cardinality(S)
         /\ \A n \in S : Cardinality(S \ {n}) = Cardinality(S) - 1
         /\ \A n : Cardinality(S \cup {n}) \in Nat /\ Cardinality(S \cup {n}) <= Cardinality(S) + 1
<1>1. IsFiniteSet(S)
  <2>1. MaxServiceRetries \in Int /\ 1 \in Int
    BY BoundsAssumption
  <2>2. IsFiniteSet(1..MaxServiceRetries)
    BY <2>1, FS_Interval
  <2> QED
    BY <2>2, FS_Subset
<1>2. \A R \in SUBSET S : IsFiniteSet(R) /\ Cardinality(R) <= Cardinality(S)
  BY <1>1, FS_Subset
<1>3. \A n : IsFiniteSet(S \cup {n}) /\ Cardinality(S \cup {n}) =
                IF n \in S THEN Cardinality(S) ELSE Cardinality(S) + 1
  BY <1>1, FS_AddElement
<1>4. \A n \in S : Cardinality(S \ {n}) = Cardinality(S) - 1
  BY <1>1, FS_RemoveElement
<1>5. \A R : IsFiniteSet(R) => Cardinality(R) \in Nat
  BY FS_CardinalityType
<1> QED
  BY <1>1, <1>2, <1>3, <1>4, <1>5

(* What a step does to the counts that are out: only a call that counts    *)
(* draws one, and the one it draws is new; a call that fails uses its own. *)
LEMMA DrawnStep ==
  ASSUME IInv, HoldInv, NEW c \in Client, NEW w, NEW p, Shape(c, w, p), NEW t \in Task
  PROVE  /\ p # "counted" => Drawn(t)' \subseteq Drawn(t)
         /\ Fails(c, w, p) /\ t = work[c].task => Drawn(t)' \subseteq Drawn(t) \ {work[c].count}
         /\ p = "counted" =>
              Drawn(t)' \subseteq
                Drawn(t) \cup (IF w.task = t THEN {w.count} \cap (1..MaxServiceRetries) ELSE {})
<1>1. \A k \in Client : /\ k # c => pc'[k] = pc[k] /\ work'[k] = work[k]
                        /\ pc'[c] = p /\ work'[c] = w
  BY DEF Shape, Step, IInv, TypeOK
<1>2. ASSUME NEW n \in Drawn(t)'
      PROVE  \/ n \in Drawn(t) /\ (pc[c] = "counted" /\ work[c].task = t => n # work[c].count)
             \/ p = "counted" /\ w.task = t /\ w.count = n
  <2>1. PICK k \in Client : pc'[k] = "counted" /\ work'[k].task = t /\ work'[k].count = n
    BY <1>2 DEF Drawn
  <2>2. n \in 1..MaxServiceRetries
    BY <1>2 DEF Drawn
  <2>3. CASE k = c
    BY <1>1, <2>1, <2>3
  <2>4. CASE k # c
    <3>1. pc[k] = "counted" /\ work[k].task = t /\ work[k].count = n
      BY <1>1, <2>1, <2>4
    <3>2. n \in Drawn(t)
      BY <2>2, <3>1 DEF Drawn
    <3>3. pc[c] = "counted" /\ work[c].task = t => n # work[c].count
      BY <2>4, <3>1 DEF HoldInv
    <3> QED
      BY <3>2, <3>3
  <2> QED
    BY <2>3, <2>4
<1>3. Drawn(t)' \subseteq 1..MaxServiceRetries
  BY DEF Drawn
<1> QED
  BY <1>2, <1>3 DEF Fails

LEMMA NextHolds == IInv /\ TallyInv /\ HoldInv /\ [Next]_vars => HoldInv'
<1> SUFFICES ASSUME IInv, TallyInv, HoldInv, [Next]_vars PROVE HoldInv'
  OBVIOUS
<1> DEFINE K == MaxServiceRetries
<1>0. /\ K \in Nat /\ restarts \in Nat /\ failures \in [Task -> Nat]
      /\ \A t \in Task : store[t] \in Document /\ Marks(store[t], Held) \in Nat
      /\ \A c \in Client : pc[c] # "idle" =>
            /\ work[c].task \in Task /\ Marks(work[c].next, Held) \in Nat
            /\ work[c].count \in Nat
  BY BoundsAssumption, MarksNat DEF IInv, TypeOK, InFlightOK, Work
<1>d. \A t : /\ Drawn(t) \in SUBSET (1..K) /\ Drawn(t)' \in SUBSET (1..K)
  BY DEF Drawn
<1>1. ASSUME NEW c \in Client, NEW w, NEW p, Shape(c, w, p) PROVE HoldInv'
  <2>1. /\ \A k \in Client : k # c => pc'[k] = pc[k] /\ work'[k] = work[k]
        /\ pc'[c] = p /\ work'[c] = w /\ restarts' = restarts
        /\ \A t \in Task : \/ store'[t] = store[t]
                           \/ /\ pc[c] \in {"save", "update"} /\ t = work[c].task
                              /\ store'[t] = work[c].next
    BY <1>1 DEF Shape, Step, IInv, TypeOK
  <2>2. ASSUME NEW t \in Task, NEW d, Marks(d, Held) \in Nat, Within(d, t)
        PROVE  Within(d, t)'
    <3>1. CASE p # "counted"
      <4>1. Drawn(t)' \subseteq Drawn(t)
        BY <1>1, <3>1, DrawnStep
      <4>2. failures' = failures
        BY <1>1, <3>1 DEF Shape, Computes, GoesOn, Fails, Counts
      <4>3. /\ Cardinality(Drawn(t)) \in Nat /\ Cardinality(Drawn(t)') \in Nat
            /\ Cardinality(Drawn(t)') <= Cardinality(Drawn(t))
        BY <1>d, <4>1, Counts1K
      <4>4. Room(t)' = Room(t) /\ Room(t) \in Nat
        BY <1>0, <2>1, <4>2 DEF Room, Low
      <4> QED
        BY <2>2, <4>3, <4>4 DEF Within
    <3>2. CASE Counts(c, w, p)
      <4>1. PICK u \in Task : /\ w.task = u /\ w.count = failures[u] + 1
                              /\ failures' = [failures EXCEPT ![u] = @ + 1]
        BY <3>2 DEF Counts
      <4>2. Drawn(t)' \subseteq
              Drawn(t) \cup (IF w.task = t THEN {w.count} \cap (1..MaxServiceRetries) ELSE {})
        BY <1>1, <3>2, DrawnStep DEF Counts
      <4>3. CASE u = t /\ failures[t] + 1 <= K
        <5>1. Drawn(t)' \in SUBSET (Drawn(t) \cup {w.count}) /\ w.count \in 1..K
          BY <1>0, <4>1, <4>2, <4>3
        <5>2. Drawn(t) \cup {w.count} \in SUBSET (1..K)
          BY <1>d, <5>1
        <5>3. /\ Cardinality(Drawn(t)) \in Nat /\ Cardinality(Drawn(t)') \in Nat
              /\ Cardinality(Drawn(t) \cup {w.count}) \in Nat
              /\ Cardinality(Drawn(t)') <= Cardinality(Drawn(t) \cup {w.count})
              /\ Cardinality(Drawn(t) \cup {w.count}) <= Cardinality(Drawn(t)) + 1
          BY <1>d, <5>1, <5>2, Counts1K
        <5>4. Low(failures[t])' = Low(failures[t]) + 1 /\ Low(failures[t]) \in Nat
          BY <1>0, <4>1, <4>3 DEF Low
        <5>5. K * restarts \in Nat /\ K * restarts' = K * restarts
          BY <1>0, <2>1
        <5>6. Room(t)' = Room(t) + 1 /\ Room(t) \in Nat
          BY <5>4, <5>5 DEF Room
        <5> QED
          BY <2>2, <5>3, <5>6 DEF Within
      <4>4. CASE ~ (u = t /\ failures[t] + 1 <= K)
        <5>1. Drawn(t)' \in SUBSET Drawn(t)
          BY <1>0, <4>1, <4>2, <4>4
        <5>2. /\ Cardinality(Drawn(t)) \in Nat /\ Cardinality(Drawn(t)') \in Nat
              /\ Cardinality(Drawn(t)') <= Cardinality(Drawn(t))
          BY <1>d, <5>1, Counts1K
        <5>3. Low(failures[t])' = Low(failures[t]) /\ Low(failures[t]) \in Nat
          BY <1>0, <4>1, <4>4 DEF Low
        <5>4. K * restarts \in Nat /\ K * restarts' = K * restarts
          BY <1>0, <2>1
        <5>5. Room(t)' = Room(t) /\ Room(t) \in Nat
          BY <5>3, <5>4 DEF Room
        <5> QED
          BY <2>2, <5>2, <5>5 DEF Within
      <4> QED
        BY <4>3, <4>4
    <3> QED
      BY <1>1, <3>1, <3>2 DEF Shape, Computes, GoesOn, Fails
  <2>3. p \in {"select", "update", "save"} =>
           w.task \in Task /\ Within(w.next, w.task)'
    <3>1. CASE Computes(c, w, p)
      <4>1. w.task \in Task /\ Marks(w.next, Held) = Marks(store[w.task], Held)
        BY <3>1 DEF Computes
      <4>2. Within(store[w.task], w.task) /\ Marks(w.next, Held) \in Nat
        BY <1>0, <4>1 DEF HoldInv
      <4>3. Within(w.next, w.task)
        BY <4>1, <4>2 DEF Within
      <4> QED
        BY <2>2, <4>1, <4>2, <4>3
    <3>2. CASE GoesOn(c, w, p)
      <4>1. w.task = work[c].task /\ w.next = work[c].next /\ pc[c] \in {"select", "update"}
        BY <3>2 DEF GoesOn
      <4>2. w.task \in Task /\ Marks(w.next, Held) \in Nat /\ Within(w.next, w.task)
        BY <1>0, <4>1 DEF HoldInv
      <4> QED
        BY <2>2, <4>2
    <3>3. CASE Fails(c, w, p)
      <4> PICK t, n, s, d : /\ t = work[c].task /\ n = work[c].count
                            /\ s = FailureTarget(n) /\ d = store[t]
        OBVIOUS
      <4>1. /\ pc[c] = "counted" /\ w.task = t /\ failures' = failures
            /\ w.next = Transition(d, s, "failure")
        BY <3>3 DEF Fails
      <4>2. t \in Task /\ d \in Document /\ n \in Nat /\ 1 <= n
        BY <1>0, <4>1 DEF HoldInv
      <4>3. Tallied(d) /\ Within(d, t)
        BY <4>2 DEF TallyInv, HoldInv
      <4>4. s \in {"HELD", "FAILED"} /\ (s = "HELD" <=> n <= K)
        BY DEF FailureTarget
      <4>5. /\ Marks(d, Held) \in Nat
            /\ Marks(w.next, Held) = Marks(d, Held) + (IF s = "HELD" THEN 1 ELSE 0)
        BY <4>1, <4>2, <4>3, <4>4, FailureMarks
      <4>6. Drawn(t)' \in SUBSET (Drawn(t) \ {n})
        BY <1>1, <3>3, <4>2, DrawnStep
      <4>7. n <= K => n \in Drawn(t)
        BY <1>0, <4>1, <4>2 DEF Drawn
      <4>8. Room(t)' = Room(t) /\ Room(t) \in Nat
        BY <1>0, <2>1, <4>1, <4>2 DEF Room, Low
      <4>9. CASE n <= K
        <5>1. /\ Cardinality(Drawn(t)) \in Nat
              /\ Cardinality(Drawn(t) \ {n}) = Cardinality(Drawn(t)) - 1
              /\ Drawn(t) \ {n} \in SUBSET (1..K)
          BY <1>d, <4>7, <4>9, Counts1K
        <5>2. /\ Cardinality(Drawn(t)') \in Nat
              /\ Cardinality(Drawn(t)') <= Cardinality(Drawn(t) \ {n})
          BY <4>6, <5>1, Counts1K
        <5>3. Marks(w.next, Held) + Cardinality(Drawn(t)') <= Room(t)'
          BY <4>3, <4>4, <4>5, <4>8, <4>9, <5>1, <5>2 DEF Within
        <5> QED
          BY <4>1, <4>2, <5>3 DEF Within
      <4>10. CASE ~ n <= K
        <5>1. Drawn(t)' \in SUBSET Drawn(t)
          BY <4>6
        <5>2. /\ Cardinality(Drawn(t)) \in Nat /\ Cardinality(Drawn(t)') \in Nat
              /\ Cardinality(Drawn(t)') <= Cardinality(Drawn(t))
          BY <1>d, <5>1, Counts1K
        <5>3. Marks(w.next, Held) + Cardinality(Drawn(t)') <= Room(t)'
          BY <4>3, <4>4, <4>5, <4>8, <4>10, <5>2 DEF Within
        <5> QED
          BY <4>1, <4>2, <5>3 DEF Within
      <4> QED
        BY <4>9, <4>10
    <3> QED
      BY <1>1, <3>1, <3>2, <3>3 DEF Shape, Counts
  <2>4. ASSUME NEW t \in Task PROVE Within(store[t], t)'
    <3> PICK e : e = store'[t]
      OBVIOUS
    <3>1. Marks(e, Held) \in Nat /\ Within(e, t)
      BY <1>0, <2>1 DEF HoldInv
    <3>2. Within(e, t)'
      BY <2>2, <3>1
    <3> QED
      BY <3>2 DEF Within
  <2>5. ASSUME NEW k \in Client, pc'[k] \in {"select", "update", "save"}
        PROVE  Within(work[k].next, work[k].task)'
    <3> PICK e, t : e = work'[k].next /\ t = work'[k].task
      OBVIOUS
    <3>1. Within(e, t)'
      <4>1. CASE k = c
        BY <2>1, <2>3, <2>5, <4>1
      <4>2. CASE k # c
        <5>1. t \in Task /\ Marks(e, Held) \in Nat /\ Within(e, t)
          BY <1>0, <2>1, <2>5, <4>2 DEF HoldInv
        <5> QED
          BY <2>2, <5>1
      <4> QED
        BY <4>1, <4>2
    <3> QED
      BY <3>1 DEF Within, Room, Drawn
  <2>6. \A t \in Task : failures'[t] \in Nat /\ failures[t] <= failures'[t]
    BY <1>0, <1>1 DEF Shape, Computes, GoesOn, Fails, Counts
  <2>7. p = "counted" => /\ w.task \in Task /\ w.count = failures[w.task] + 1
                         /\ failures'[w.task] = failures[w.task] + 1
    BY <1>0, <1>1 DEF Shape, Computes, GoesOn, Fails, Counts
  <2>8. ASSUME NEW k \in Client, pc'[k] = "counted"
        PROVE  work'[k].count \in 1..failures'[work'[k].task]
    <3>1. CASE k = c
      BY <1>0, <2>1, <2>7, <2>8, <3>1
    <3>2. CASE k # c
      <4>1. /\ pc[k] = "counted" /\ work'[k] = work[k] /\ work[k].task \in Task
            /\ work[k].count \in 1..failures[work[k].task]
        BY <1>0, <2>1, <2>8, <3>2 DEF HoldInv
      <4> QED
        BY <1>0, <2>6, <4>1
    <3> QED
      BY <3>1, <3>2
  <2>9. ASSUME NEW k \in Client, NEW l \in Client, pc'[k] = "counted", pc'[l] = "counted",
               work'[k].task = work'[l].task, work'[k].count = work'[l].count
        PROVE  k = l
    <3>1. ASSUME NEW i \in Client, i # c, pc'[i] = "counted", pc'[c] = "counted",
                 work'[i].task = work'[c].task
          PROVE  work'[i].count # work'[c].count
      <4>1. /\ pc[i] = "counted" /\ work'[i] = work[i] /\ work[i].task \in Task
            /\ work[i].count \in 1..failures[work[i].task]
        BY <1>0, <2>1, <3>1 DEF HoldInv
      <4>2. w.task = work[i].task /\ work'[c].count = failures[w.task] + 1
        BY <2>1, <2>7, <3>1, <4>1
      <4> QED
        BY <1>0, <4>1, <4>2
    <3>2. CASE k # c /\ l # c
      BY <2>1, <2>9, <3>2 DEF HoldInv
    <3> QED
      BY <2>9, <3>1, <3>2
  <2> QED
    BY <2>4, <2>5, <2>8, <2>9 DEF HoldInv
<1>2. CASE Restart
  <2>1. /\ restarts' = restarts + 1 /\ store' = store
        /\ \A t \in Task : failures'[t] = 0
        /\ \A c \in Client : pc'[c] = "idle"
    BY <1>2 DEF Restart
  <2>2. ASSUME NEW t \in Task PROVE Within(store[t], t)'
    <3>1. Drawn(t)' = {}
      BY <2>1 DEF Drawn
    <3>2. Cardinality(Drawn(t)') = 0
      BY <3>1, FS_EmptySet
    <3>3. Marks(store[t], Held) <= Room(t)
      BY <1>0, <1>d, Counts1K DEF HoldInv, Within, Room, Low
    <3>4. Low(failures[t]) \in 0..K /\ Low(failures[t])' = 0
      BY <1>0, <2>1 DEF Low
    <3>5. K * restarts \in Nat /\ K * restarts' = K * restarts + K
      BY <1>0, <2>1
    <3>6. Room(t)' = K * restarts + K /\ Room(t) <= K * restarts + K
      BY <1>0, <3>4, <3>5 DEF Room
    <3>7. Marks(store'[t], Held) + 0 <= Room(t)'
      BY <1>0, <2>1, <3>3, <3>4, <3>5, <3>6 DEF Room
    <3> QED
      BY <3>2, <3>7 DEF Within
  <2> QED
    BY <2>1, <2>2 DEF HoldInv
<1>3. CASE UNCHANGED vars
  BY <1>3 DEF vars, HoldInv, Within, Room, Drawn
<1> QED
  BY <1>1, <1>2, <1>3, Shapes DEF TallyInv

LEMMA InitHolds == Init => HoldInv
<1> SUFFICES ASSUME Init PROVE HoldInv
  OBVIOUS
<1>1. /\ restarts = 0 /\ \A t \in Task : failures[t] = 0 /\ Marks(store[t], Held) = 0
      /\ \A c \in Client : pc[c] = "idle"
  BY InitTallied DEF Init
<1>2. ASSUME NEW t \in Task PROVE Within(store[t], t)
  <2>1. Drawn(t) = {}
    BY <1>1 DEF Drawn
  <2>2. Room(t) = 0
    BY <1>1, BoundsAssumption DEF Room, Low
  <2> QED
    BY <1>1, <2>1, <2>2, FS_EmptySet DEF Within
<1> QED
  BY <1>1, <1>2 DEF HoldInv

(* handle_task_failure holds a task at most max_retries times in each      *)
(* lifetime of the process, whichever calls race and whatever document is  *)
(* written last.                                                           *)
THEOREM HoldsAreBounded == Spec => []AttemptsBounded
<1>1. IInv /\ HoldInv => AttemptsBounded
  <2> SUFFICES ASSUME IInv, HoldInv, NEW t \in Task
               PROVE  Cardinality({i \in DOMAIN store[t].checkpoints :
                                      store[t].checkpoints[i] = [status |-> "HELD", via |-> "failure"]})
                        <= MaxServiceRetries * (restarts + 1)
    BY DEF AttemptsBounded
  <2>1. {i \in DOMAIN store[t].checkpoints : store[t].checkpoints[i] \in Held}
          = {i \in DOMAIN store[t].checkpoints :
                store[t].checkpoints[i] = [status |-> "HELD", via |-> "failure"]}
    BY DEF Held, HoldMark
  <2>2. /\ MaxServiceRetries \in Nat /\ restarts \in Nat /\ failures[t] \in Nat
        /\ Marks(store[t], Held) \in Nat
    BY BoundsAssumption, MarksNat DEF IInv, TypeOK
  <2>3. Drawn(t) \in SUBSET (1..MaxServiceRetries)
    BY DEF Drawn
  <2>4. Cardinality(Drawn(t)) \in Nat
    BY <2>3, Counts1K
  <2>5. Low(failures[t]) \in 0..MaxServiceRetries
    BY <2>2 DEF Low
  <2>6. /\ MaxServiceRetries * restarts \in Nat
        /\ MaxServiceRetries * (restarts + 1) = MaxServiceRetries * restarts + MaxServiceRetries
    BY <2>2
  <2>7. Marks(store[t], Held) <= MaxServiceRetries * (restarts + 1)
    <3>1. Marks(store[t], Held) + Cardinality(Drawn(t))
            <= MaxServiceRetries * restarts + Low(failures[t])
      BY DEF HoldInv, Within, Room
    <3> QED
      BY <2>2, <2>4, <2>5, <2>6, <3>1
  <2> QED
    BY <2>1, <2>7 DEF Marks
<1> QED
  BY <1>1, InitHolds, InitTallied, NextHolds, NextTallied, Invariant, PTL DEF Spec

=============================================================================
