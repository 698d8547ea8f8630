--------------------------- MODULE ConsoleClient ---------------------------
(***************************************************************************)
(* What every page of the console shares: the client of lib/api.ts with    *)
(* the stores it keeps in memory, its requests under way, and the backend  *)
(* as the console meets it.                                                *)
(*                                                                         *)
(* A gesture is one click and all that its handler awaits.  Handlers run   *)
(* on one thread, so what happens between two awaits is one step.  A page  *)
(* that is left does not stop its handlers.                                *)
(***************************************************************************)
EXTENDS Naturals, SequencesExt

CONSTANTS MaxGestures,  \* bound: the clicks of a session
          Previews,     \* the action previews listed at first
          DevItems,     \* the development results under review
          Decisions,    \* what a reviewer may decide
          Stock,        \* the directive the client lists from the start
          Ids,          \* the ids a new directive may get from the clock
          None          \* no decision, nobody

Gestures == 1 .. MaxGestures
CyclePreview(g) == <<"preview", g>>
Items == Previews \cup DevItems \cup {CyclePreview(g) : g \in Gestures}
Directives == Ids \cup {Stock}
Steps == 1 .. 2  \* bound: plans of two steps stand for those of four

ASSUME GesturesAssumption == MaxGestures \in Nat
ASSUME PreviewsAssumption == IsFiniteSet(Previews)
ASSUME NamesAssumption ==
    /\ "APPROVE" \in Decisions /\ {None, "released"} \cap Decisions = {}
    /\ None \notin Gestures
    /\ Stock \notin Ids /\ Previews \cap DevItems = {}

VARIABLES
    doing,       \* what each gesture is about
    leg,         \* the request its handler is at
    fetch,       \* that request: none, waiting for headers, refused, reading the body
    sent,        \* the requests the gesture has sent so far
    wire,        \* requests the backend has not handled
    directives,  \* dynamicDirectives, newest first
    tasks,       \* dynamicTasks, newest first
    previews,    \* dynamicPreviews, newest first
    ledger,      \* dynamicLedger, as the bag of its records
    receipts,    \* dynamicTelemetryReceipts, newest first
    saved,       \* backend: who created the directive stored under an id
    runs,        \* backend: the plans executed for a gesture
    admitted,    \* backend: the gestures whose telemetry it took in
    verdict,     \* backend: the decision it holds on an item
    recorded     \* backend: the decisions it ever took, for the properties

net == <<leg, fetch, sent, wire>>
stores == <<directives, tasks, previews, ledger, receipts>>
backend == <<saved, runs, admitted, verdict, recorded>>
clientVars == <<doing, net, stores, backend>>

-----------------------------------------------------------------------------
(* The stores                                                              *)

Row(task, d, status) == [task |-> task, directive |-> d, status |-> status, version |-> 1]
Record(g, entity, activity) == [by |-> g, entity |-> entity, activity |-> activity]
StockTask(k) == <<"stock", Stock, k>>

\* appendProvenance: every record goes on top and keeps what is below.
Noted(records) == ledger (+) SetToBag(records)

Idle == [kind |-> "none", item |-> None, decision |-> None, at |-> 0, page |-> 0]

ClientInit ==
    /\ doing = [g \in Gestures |-> Idle]
    /\ leg = [g \in Gestures |-> "idle"]
    /\ fetch = [g \in Gestures |-> "none"]
    /\ sent = [g \in Gestures |-> 0]
    /\ wire = {}
    /\ directives = <<[id |-> Stock, by |-> None]>>
    /\ tasks = <<Row(StockTask(1), Stock, "completed"), Row(StockTask(2), Stock, "in_progress")>>
    /\ previews = SetToSeq(Previews)
    /\ ledger = EmptyBag
    /\ receipts = <<>>
    /\ saved = [d \in Directives |-> None]
    /\ runs = [g \in Gestures |-> 0]
    /\ admitted = {}
    /\ verdict = [i \in Items |-> None]
    /\ recorded = {}

-----------------------------------------------------------------------------
(* Requests                                                                *)

\* Gestures are numbered in the order they are made.
Gesture(g, what) ==
    /\ leg[g] = "idle" /\ \A h \in 1 .. g - 1 : leg[h] # "idle"
    /\ doing' = [doing EXCEPT ![g] = what]

Sends(g, l, item, d) ==
    /\ leg' = [leg EXCEPT ![g] = l]
    /\ fetch' = [fetch EXCEPT ![g] = "waiting"]
    /\ sent' = [sent EXCEPT ![g] = @ + 1]
    /\ wire' = wire \cup {[by |-> g, n |-> sent[g] + 1, leg |-> l, item |-> item, decision |-> d]}

Ends(g) ==
    /\ leg' = [leg EXCEPT ![g] = "done"]
    /\ fetch' = [fetch EXCEPT ![g] = "none"]
    /\ UNCHANGED <<sent, wire>>

\* How the await of g may end: the body is there, the answer was a refusal, or
\* the request timed out, found no server, or brought a body that does not parse.
\* The headers stop the timer; nothing bounds the wait for the body.
Outcome(g, o) ==
    \/ o = "ok" /\ fetch[g] = "reading"
    \/ o = "refused" /\ fetch[g] = "refused"
    \/ o = "lost" /\ fetch[g] \in {"waiting", "reading"}

-----------------------------------------------------------------------------
(* The backend                                                             *)

\* The answer reaches the gesture only while it waits for this very request,
\* and may be lost on its way.
Heard(r, s) == /\ fetch[r.by] = "waiting" /\ sent[r.by] = r.n
               /\ fetch' = [fetch EXCEPT ![r.by] = s]
Answers(r, s) == /\ wire' = wire \ {r}
                 /\ Heard(r, s) \/ UNCHANGED fetch
                 /\ UNCHANGED <<doing, leg, sent, stores>>

\* A stored directive is immutable: saving another one under its id is refused.
SaveDirective(r) ==
    /\ r.leg = "save"
    /\ IF saved[r.item] \in {None, r.by}
       THEN saved' = [saved EXCEPT ![r.item] = r.by] /\ Answers(r, "reading")
       ELSE Answers(r, "refused") /\ UNCHANGED saved
    /\ UNCHANGED <<runs, admitted, verdict, recorded>>

\* Every execution plans again, makes new tasks and starts a run of its own.
ExecuteDirective(r) ==
    /\ r.leg \in {"run", "execute"}
    /\ IF saved[r.item] # None
       THEN runs' = [runs EXCEPT ![r.by] = @ + 1] /\ Answers(r, "reading")
       ELSE Answers(r, "refused") /\ UNCHANGED runs
    /\ UNCHANGED <<saved, admitted, verdict, recorded>>

\* HitlCoordinator.decide: a pending preview is decided once and is pending no more.
DecideApproval(r) ==
    /\ r.leg \in {"decide", "batch", "clear"}
    /\ IF r.item \in Previews /\ verdict[r.item] = None
       THEN /\ verdict' = [verdict EXCEPT ![r.item] = r.decision]
            /\ recorded' = recorded \cup {<<r.item, r.decision>>}
            /\ Answers(r, "reading")
       ELSE Answers(r, "refused") /\ UNCHANGED <<verdict, recorded>>
    /\ UNCHANGED <<saved, runs, admitted>>

\* HitlCoordinator.decide_development_step: the last decision replaces the others.
DecideDevelopment(r) ==
    /\ r.leg = "seal"
    /\ verdict' = [verdict EXCEPT ![r.item] = r.decision]
    /\ recorded' = recorded \cup {<<r.item, r.decision>>}
    /\ Answers(r, "reading")
    /\ UNCHANGED <<saved, runs, admitted>>

AdmitTelemetry(r) ==
    /\ r.leg = "emit"
    /\ admitted' = admitted \cup {r.by}
    /\ Answers(r, "reading")
    /\ UNCHANGED <<saved, runs, verdict, recorded>>

\* Validation, authority or an error of the server: nothing is done.
Decline(r) == Answers(r, "refused") /\ UNCHANGED backend

Backend == \E r \in wire :
    \/ SaveDirective(r) \/ ExecuteDirective(r) \/ DecideApproval(r)
    \/ DecideDevelopment(r) \/ AdmitTelemetry(r) \/ Decline(r)

=============================================================================
