------------------------------ MODULE Console ------------------------------
(***************************************************************************)
(* A session of the console: the approvals page and the directives, tasks  *)
(* and audit pages over one client, its stores and one backend.            *)
(***************************************************************************)
EXTENDS ApprovalsPage, DirectivesPage

vars == <<clientVars, pageVars>>

Init == ClientInit /\ PageInit

Settle(g, o) ==
    \/ DecideReturns(g, o) \/ BatchReturns(g, o) \/ SealReturns(g, o)
    \/ (SaveReturns(g, o) \/ RunReturns(g, o) \/ ClearReturns(g, o)
          \/ EmitReturns(g, o) \/ ExecuteReturns(g, o)) /\ UNCHANGED pageVars

Start(g) ==
    \/ \E p \in Previews \cup {CyclePreview(h) : h \in Gestures}, d \in Decisions : Decide(g, p, d)
    \/ ApproveAll(g)
    \/ \E i \in DevItems, d \in Decisions : Seal(g, i, d)
    \/ /\ \/ \E d \in Ids : Create(g, "create", d)
          \/ \E d \in Ids : Create(g, "cycle", d)
          \/ \E d \in Directives : Execute(g, d)
          \/ \E r \in ToSet(tasks), s \in Range(Forward) : Advance(g, r, s)
          \/ RunAll(g) \/ Attest(g)
          \/ Emit(g)
       /\ UNCHANGED pageVars

Outcomes == {"ok", "refused", "lost"}

Next ==
    \/ \E g \in Gestures : Start(g)
    \/ \E g \in Gestures, o \in Outcomes : Settle(g, o)
    \/ Backend /\ UNCHANGED pageVars
    \/ Reenter

Spec == Init /\ [][Next]_vars

-----------------------------------------------------------------------------
Decides(g) == doing[g].kind \in {"decide", "seal"}
Creates(g) == doing[g].kind \in {"create", "cycle"}
Noting(g, activity) == Record(g, doing[g].item, activity)
Copies(record) == IF BagIn(record, ledger) THEN ledger[record] ELSE 0
OneBy(list, g) == \E i \in DOMAIN list : \A j \in DOMAIN list : list[j].by = g <=> j = i

\* What the page shows as decided was decided so by the backend, or the ledger
\* says that the client decided it: no answer to another request, and none to an
\* earlier one, is taken for it.  What a cycle released was cleared so, too
\* (submitApprovalDecision, decideDevelopment).
Backed(i, d) == <<i, d>> \in recorded \/ \E g \in Gestures : BagIn(Record(g, i, d), ledger)
ShownIsBacked ==
    /\ \A i \in Items : history[i] # None => Backed(i, history[i])
    /\ \A g \in Gestures : BagIn(Noting(g, "released"), ledger) => Backed(CyclePreview(g), "APPROVE")

\* The buttons of the page are disabled exactly while a decision of this page is
\* on its way: a handler that outlived its page neither frees nor blocks the next.
BusyMeansPending ==
    busy <=> \E g \in Gestures : Decides(g) /\ Present(g) /\ leg[g] # "done"

\* Approving all leaves no preview out that was listed when it was clicked, though
\* the cycle adds to the list it walks (handleApproveAll).
BatchCovers ==
    \A g \in Gestures : doing[g].kind = "batch" /\ leg[g] = "done" /\ Present(g)
        => \A p \in Previews : history[p] # None

\* A gesture starts one run at most: what timed out is not sent again.  Rows with
\* a backend's id come from a run that took place (createDirective, executeDirective).
RunsWereAsked ==
    /\ \A g \in Gestures : runs[g] <= 1
    /\ \A r \in ToSet(tasks) : r.task[1] = "run" => runs[r.task[2]] = 1

\* However far a creation got before it fell back, it lists its directive once and
\* notes it once, and every task belongs to a listed directive.
CreatedOnce ==
    /\ \A g \in Gestures : Creates(g) /\ leg[g] \notin {"save", "run"} =>
        /\ OneBy(directives, g)
        /\ Copies(Noting(g, "orchestrated")) + Copies(Noting(g, "synthesized")) = 1
    /\ \A r \in ToSet(tasks) : r.directive \in Listed

\* A task has one row, however its directive is executed again, unless the clock
\* gave two directives one id (the upsert of executeDirective).
OneRowPerTask ==
    (\A g, h \in Gestures : Creates(g) /\ Creates(h) /\ g # h => doing[g].item # doing[h].item)
        => IsInjective([i \in DOMAIN tasks |-> tasks[i].task])

\* What carries the backend's name was done by the backend, and every event sent
\* has one receipt, whatever became of the request (sendConversionTelemetry).
ReceiptsAreReal ==
    /\ \A r \in ToSet(receipts) : r.issuer = "backend" => r.by \in admitted
    /\ \A g \in Gestures : leg[g] = "done" /\ doing[g].kind \in {"emit", "cycle"}
        => OneBy(receipts, g)

=============================================================================
