--------------------------- MODULE DirectivesPage --------------------------
(***************************************************************************)
(* Directives and tasks of the console: createDirective, executeDirective, *)
(* advanceTaskStatus, runAllPendingTasks and the one-click cycle of        *)
(* lib/api.ts, as the pages call them.  The flags that disable their       *)
(* buttons belong to one mount of one page, and two pages create           *)
(* directives, so no flag keeps two of these gestures apart.               *)
(***************************************************************************)
EXTENDS ConsoleClient

RunTask(g, k) == <<"run", g, k>>         \* an id the backend drew
PlanTask(d, k) == <<"plan", d, k>>       \* createDirective's own plan
FallbackTask(d, k) == <<"fallback", d, k>>

\* The rows of a plan, in the order of its steps.
RunRows(g) == [k \in Steps |-> Row(RunTask(g, k), doing[g].item, "pending")]
PlanRows(d) == [k \in Steps |-> Row(PlanTask(d, k), d, <<"in_progress", "pending">>[k])]
FallbackRows(d) == [k \in Steps |-> Row(FallbackTask(d, k), d, <<"completed", "in_progress">>[k])]

\* The first row with the task's id takes the place of what it was.
Position(rows, task) == SelectInSeq(rows, LAMBDA r : r.task = task)
Moved(rows, task, status) ==
    [rows EXCEPT ![Position(rows, task)].status = status,
                 ![Position(rows, task)].version = @ + 1]
\* Mutant: the row is put on top without a look for its id.
UpsertBlind(rows, row) == <<row>> \o rows
Upsert(rows, row) == IF Position(rows, row.task) > 0
                     THEN [rows EXCEPT ![Position(rows, row.task)] = row]
                     ELSE <<row>> \o rows

-----------------------------------------------------------------------------
Create(g, kind, d) ==
    /\ Gesture(g, [Idle EXCEPT !.kind = kind, !.item = d])
    /\ Sends(g, "save", d, None)
    /\ UNCHANGED <<stores, backend>>

\* The cycle moves the first two tasks of its directive before it goes on.
CycleMoves(rows, d) ==
    LET own == SelectSeq(rows, LAMBDA r : r.directive = d) IN
    <<<<own[1].task, "completed">>, <<own[2].task, "in_progress">>>>

\* createDirective returns; a cycle then makes a preview and clears it.
Created(g, rows, activity) ==
    LET d == doing[g].item
        all == rows \o tasks
        moves == CycleMoves(all, d)
        note == Record(g, d, activity) IN
    /\ directives' = <<[id |-> d, by |-> g]>> \o directives
    /\ IF doing[g].kind = "cycle"
       THEN /\ tasks' = Moved(Moved(all, moves[1][1], moves[1][2]), moves[2][1], moves[2][2])
            /\ ledger' = Noted({note} \cup {Record(g, m[1], m[2]) : m \in ToSet(moves)})
            /\ previews' = <<CyclePreview(g)>> \o previews
            /\ Sends(g, "clear", CyclePreview(g), "APPROVE")
       ELSE /\ tasks' = all /\ ledger' = Noted({note})
            /\ Ends(g) /\ UNCHANGED previews
    /\ UNCHANGED <<doing, receipts, backend>>

Synthesized(g) == Created(g, PlanRows(doing[g].item), "synthesized")

\* Mutant: a directive that is refused is given up.
SaveReturnsGivingUp(g, o) ==
    /\ leg[g] = "save" /\ Outcome(g, o)
    /\ CASE o = "ok" -> Sends(g, "run", doing[g].item, None) /\ UNCHANGED <<doing, stores, backend>>
         [] o = "refused" -> Ends(g) /\ UNCHANGED <<doing, stores, backend>>
         [] OTHER -> Synthesized(g)

SaveReturns(g, o) ==
    /\ leg[g] = "save" /\ Outcome(g, o)
    /\ IF o = "ok"
       THEN Sends(g, "run", doing[g].item, None) /\ UNCHANGED <<doing, stores, backend>>
       ELSE Synthesized(g)

\* Mutant: the status of the answer is not looked at.
RunReturnsUnread(g, o) ==
    /\ leg[g] = "run" /\ Outcome(g, o)
    /\ IF o # "lost" THEN Created(g, RunRows(g), "orchestrated") ELSE Synthesized(g)

RunReturns(g, o) ==
    /\ leg[g] = "run" /\ Outcome(g, o)
    /\ IF o = "ok"
       THEN Created(g, RunRows(g), "orchestrated")
       ELSE Synthesized(g)

ClearReturns(g, o) ==
    /\ leg[g] = "clear" /\ Outcome(g, o)
    /\ ledger' = IF o = "ok" THEN ledger ELSE Noted({Record(g, CyclePreview(g), "APPROVE")})
    /\ Sends(g, "emit", None, None)
    /\ UNCHANGED <<doing, directives, tasks, previews, receipts, backend>>

\* A pixel, a conversion or an error, as the pages send them.
Emit(g) ==
    /\ Gesture(g, [Idle EXCEPT !.kind = "emit"])
    /\ Sends(g, "emit", None, None)
    /\ UNCHANGED <<stores, backend>>

\* Mutant: any answer is taken for the backend's receipt.
EmitReturnsUnread(g, o) ==
    /\ leg[g] = "emit" /\ Outcome(g, o)
    /\ receipts' = <<[by |-> g, issuer |-> IF o # "lost" THEN "backend" ELSE "client"]>> \o receipts
    /\ ledger' = IF doing[g].kind = "cycle"
                 THEN Noted({Record(g, doing[g].item, "released")}) ELSE ledger
    /\ Ends(g)
    /\ UNCHANGED <<doing, directives, tasks, previews, backend>>

\* Without a receipt of the backend the client makes one, accepted like the other.
\* A cycle notes its release then.
EmitReturns(g, o) ==
    /\ leg[g] = "emit" /\ Outcome(g, o)
    /\ receipts' = <<[by |-> g, issuer |-> IF o = "ok" THEN "backend" ELSE "client"]>> \o receipts
    /\ ledger' = IF doing[g].kind = "cycle"
                 THEN Noted({Record(g, doing[g].item, "released")}) ELSE ledger
    /\ Ends(g)
    /\ UNCHANGED <<doing, directives, tasks, previews, backend>>

-----------------------------------------------------------------------------
Listed == {r.id : r \in ToSet(directives)} \cup {d \in Directives : saved[d] # None}

Execute(g, d) ==
    /\ d \in Listed
    /\ Gesture(g, [Idle EXCEPT !.kind = "execute", !.item = d])
    /\ Sends(g, "execute", d, None)
    /\ UNCHANGED <<stores, backend>>

\* The tasks the backend made, or those of a fixed plan, replace rows of the
\* same id as they are in the answer: at version 1.
ExecuteReturns(g, o) ==
    LET rows == IF o = "ok" THEN RunRows(g) ELSE FallbackRows(doing[g].item) IN
    /\ leg[g] = "execute" /\ Outcome(g, o)
    /\ tasks' = FoldLeft(Upsert, tasks, rows)
    /\ Ends(g)
    /\ UNCHANGED <<doing, directives, previews, ledger, receipts, backend>>

Forward == [pending |-> "granted", granted |-> "in_progress", in_progress |-> "completed"]

\* The board offers the next column; mission control offers "completed" from any.
Offered(r) == {"completed"} \cup {Forward[s] : s \in {r.status} \cap DOMAIN Forward}

Advance(g, r, status) ==
    /\ r \in ToSet(tasks) /\ status \in Offered(r)
    /\ Gesture(g, [Idle EXCEPT !.kind = "advance", !.item = r.task])
    /\ tasks' = Moved(tasks, r.task, status)
    /\ ledger' = Noted({Record(g, r.task, status)})
    /\ Ends(g)
    /\ UNCHANGED <<directives, previews, receipts, backend>>

RunAll(g) ==
    /\ Gesture(g, [Idle EXCEPT !.kind = "runall"])
    /\ tasks' = [i \in DOMAIN tasks |->
                    IF tasks[i].status \in DOMAIN Forward
                    THEN [tasks[i] EXCEPT !.status = Forward[@], !.version = @ + 1]
                    ELSE tasks[i]]
    /\ Ends(g)
    /\ UNCHANGED <<directives, previews, ledger, receipts, backend>>

\* An attestation of the audit page.
Attest(g) ==
    /\ Gesture(g, [Idle EXCEPT !.kind = "attest"])
    /\ ledger' = Noted({Record(g, None, "attested")})
    /\ Ends(g)
    /\ UNCHANGED <<directives, tasks, previews, receipts, backend>>

=============================================================================
