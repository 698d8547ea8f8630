--------------------------- MODULE ApprovalsPage ---------------------------
(***************************************************************************)
(* app/approvals/page.tsx over submitApprovalDecision and decideDevelopment *)
(* of lib/api.ts: decisions on previews one by one or all at once, and the *)
(* sealing of development results.  One flag disables the buttons of both  *)
(* tabs, except the one that approves everything.                          *)
(***************************************************************************)
EXTENDS ConsoleClient

CONSTANT MaxMounts  \* bound: how often the page is entered

VARIABLES mount,    \* how often the page was entered
          busy,     \* isSubmitting of the present page
          history   \* decisionHistory and devSealedTokens of the present page

pageVars == <<mount, busy, history>>

PageInit == mount = 1 /\ busy = FALSE /\ history = [i \in Items |-> None]

Decision(kind, item, d) == [Idle EXCEPT !.kind = kind, !.item = item, !.decision = d, !.page = mount]

\* setState of a page that was left does nothing.
Present(g) == doing[g].page = mount
Shows(g) == history' = IF Present(g) THEN [history EXCEPT ![doing[g].item] = doing[g].decision]
                       ELSE history
\* Mutant: a handler frees the flag of whatever page is there.
FreesAny(g) == busy' = FALSE
Frees(g) == busy' = IF Present(g) THEN FALSE ELSE busy

\* Mutant: only a lost request is noted, a refusal is shown and noted nowhere.
SimulatedUnlessRefused(g, o) ==
    ledger' = IF o \in {"ok", "refused"} THEN ledger
              ELSE Noted({Record(g, doing[g].item, doing[g].decision)})

\* What was not answered with a success is decided in the client instead: the
\* ledger gets a record and the caller a verified signature.
Simulated(g, o) ==
    ledger' = IF o = "ok" THEN ledger
              ELSE Noted({Record(g, doing[g].item, doing[g].decision)})

-----------------------------------------------------------------------------
\* The buttons of either tab, not the one that approves everything.
ButtonsOpen == ~ busy

Decide(g, p, d) ==
    /\ ButtonsOpen /\ p \in ToSet(previews)
    /\ Gesture(g, Decision("decide", p, d))
    /\ busy' = TRUE
    /\ Sends(g, "decide", p, d)
    /\ UNCHANGED <<stores, backend, mount, history>>

DecideReturns(g, o) ==
    /\ leg[g] = "decide" /\ Outcome(g, o)
    /\ Simulated(g, o) /\ Shows(g) /\ Frees(g) /\ Ends(g)
    /\ UNCHANGED <<doing, directives, tasks, previews, receipts, backend, mount>>

ApproveAll(g) ==
    /\ previews # <<>>
    /\ Gesture(g, [Decision("batch", previews[1], "APPROVE") EXCEPT !.at = 1])
    /\ Sends(g, "batch", previews[1], "APPROVE")
    /\ UNCHANGED <<stores, backend, pageVars>>

\* Mutant: the loop ends at the first decision that is not taken.
BatchStopsAtRefusal(g, o) ==
    LET next == doing[g].at + 1 IN
    /\ leg[g] = "batch" /\ Outcome(g, o)
    /\ Simulated(g, o) /\ Shows(g)
    /\ IF o = "ok" /\ next <= Len(previews)
       THEN /\ doing' = [doing EXCEPT ![g].at = next, ![g].item = previews[next]]
            /\ Sends(g, "batch", previews[next], "APPROVE")
       ELSE Ends(g) /\ UNCHANGED doing
    /\ UNCHANGED <<directives, tasks, previews, receipts, backend, mount, busy>>

\* The loop walks the store's own array: a preview added at its head meanwhile
\* moves the others, and the one just submitted comes again.
BatchReturns(g, o) ==
    LET next == doing[g].at + 1 IN
    /\ leg[g] = "batch" /\ Outcome(g, o)
    /\ Simulated(g, o) /\ Shows(g)
    /\ IF next <= Len(previews)
       THEN /\ doing' = [doing EXCEPT ![g].at = next, ![g].item = previews[next]]
            /\ Sends(g, "batch", previews[next], "APPROVE")
       ELSE Ends(g) /\ UNCHANGED doing
    /\ UNCHANGED <<directives, tasks, previews, receipts, backend, mount, busy>>

Seal(g, i, d) ==
    /\ ButtonsOpen
    /\ Gesture(g, Decision("seal", i, d))
    /\ busy' = TRUE
    /\ Sends(g, "seal", i, d)
    /\ UNCHANGED <<stores, backend, mount, history>>

\* Sealed or simulated, the ledger gets a record of it.
SealReturns(g, o) ==
    /\ leg[g] = "seal" /\ Outcome(g, o)
    /\ ledger' = Noted({Record(g, doing[g].item, doing[g].decision)})
    /\ Shows(g) /\ Frees(g) /\ Ends(g)
    /\ UNCHANGED <<doing, directives, tasks, previews, receipts, backend, mount>>

\* The page is left and entered again: what it showed is gone, its handlers go on.
Reenter ==
    /\ mount < MaxMounts
    /\ mount' = mount + 1 /\ busy' = FALSE /\ history' = [i \in Items |-> None]
    /\ UNCHANGED clientVars

=============================================================================
