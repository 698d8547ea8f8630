--------------------------- MODULE Console_proofs ---------------------------
(***************************************************************************)
(* What a session of the console keeps true for any number of gestures and *)
(* any previews, development results, decisions and ids: what is shown as  *)
(* decided is backed by the backend or by the ledger; the buttons are      *)
(* disabled exactly while a decision of the page is on its way; approving  *)
(* all leaves nothing out; runs are asked for once; and the lists of tasks,*)
(* directives and receipts have one row where they should.                 *)
(*                                                                         *)
(* The invariants are proved in that order and each may use those before.  *)
(***************************************************************************)
EXTENDS Console, InductionLemmas

Fields == {"kind", "item", "decision", "at", "page"}
Submits == {"decide", "batch", "seal"}

\* The domains of what is updated at one place, and the pages of the gestures.
Shape ==
    /\ DOMAIN doing = Gestures /\ DOMAIN leg = Gestures /\ DOMAIN fetch = Gestures
    /\ sent \in [Gestures -> Nat]
    /\ DOMAIN history = Items
    /\ mount \in Nat
    /\ \A g \in Gestures : /\ DOMAIN doing[g] = Fields
                           /\ doing[g].page \in Nat /\ doing[g].page <= mount

\* What a gesture is about agrees with the request it is at.
Agrees(g) ==
    /\ leg[g] = "idle" => doing[g].kind = "none"
    /\ leg[g] \in Submits => /\ doing[g].kind = leg[g]
                             /\ doing[g].decision \in Decisions
    /\ leg[g] = "batch" => doing[g].decision = "APPROVE"
    /\ leg[g] \in {"save", "run"} => Creates(g)
    /\ leg[g] = "clear" => doing[g].kind = "cycle"
    /\ leg[g] = "emit" => doing[g].kind \in {"emit", "cycle"}
    /\ leg[g] = "execute" => doing[g].kind = "execute"

\* A request that is for leg l of g asks what g is at.
Asks(g, l, item, d) ==
    /\ l \in Submits => item = doing[g].item /\ d = doing[g].decision
    /\ l = "clear" => item = CyclePreview(g) /\ d = "APPROVE"

\* A request whose answer would still be heard is the one its gesture waits for.
RequestsFit ==
    \A r \in wire :
        /\ r.by \in Gestures /\ r.n \in Nat /\ r.n <= sent[r.by]
        /\ r.n = sent[r.by] /\ fetch[r.by] = "waiting" =>
               r.leg = leg[r.by] /\ Asks(r.by, r.leg, r.item, r.decision)

\* The body that is being read is that of the decision which was asked for, and a
\* cycle goes on to its event when its preview is cleared.
AnswersFit ==
    \A g \in Gestures :
        /\ fetch[g] = "reading" /\ leg[g] \in Submits =>
               <<doing[g].item, doing[g].decision>> \in recorded
        /\ fetch[g] = "reading" /\ leg[g] = "clear" =>
               <<CyclePreview(g), "APPROVE">> \in recorded
        /\ leg[g] = "emit" /\ doing[g].kind = "cycle" => Backed(CyclePreview(g), "APPROVE")

HistoryBacked == \A i \in Items : history[i] # None => Backed(i, history[i])
ReleasesBacked ==
    \A g \in Gestures : \A e :
        BagIn(Record(g, e, "released"), ledger) => Backed(CyclePreview(g), "APPROVE")

IInv == /\ Shape
        /\ \A g \in Gestures : Agrees(g)
        /\ RequestsFit /\ AnswersFit
        /\ HistoryBacked /\ ReleasesBacked

-----------------------------------------------------------------------------
(* The ledger                                                              *)

LEMMA NotedHas == \A e, S : BagIn(e, Noted(S)) <=> BagIn(e, ledger) \/ e \in S
  BY DEF BagIn, BagToSet, Noted, SetToBag, (+)

LEMMA Records ==
    \A g, h, e, f, a, b : Record(g, e, a) = Record(h, f, b) <=> g = h /\ e = f /\ a = b
  BY DEF Record

\* The ledger and the decisions of the backend are only added to.
Grows == /\ recorded \subseteq recorded'
         /\ \A e : BagIn(e, ledger) => BagIn(e, ledger')

LEMMA BackedStays == ASSUME Grows, NEW i, NEW d, Backed(i, d) PROVE Backed(i, d)'
  BY DEF Grows, Backed

-----------------------------------------------------------------------------
(* Steps of the client                                                     *)

\* What a step of the handler of g has to be like to keep IInv: it ends, or sends
\* a request that asks what it is about; new records release nothing that is not
\* backed, and what it shows is backed.
Moves(g) == \/ Ends(g)
            \/ \E l, item, d : Sends(g, l, item, d) /\ Asks(g, l, item, d)'
Releases == \A h \in Gestures : \A e :
    BagIn(Record(h, e, "released"), ledger') =>
        BagIn(Record(h, e, "released"), ledger) \/ Backed(CyclePreview(h), "APPROVE")'
Discloses == \A i \in Items :
    history'[i] # None => history'[i] = history[i] \/ Backed(i, history[i])'
Turns(g) == /\ DOMAIN doing' = Gestures /\ DOMAIN doing'[g] = Fields
            /\ doing'[g].page \in Nat /\ doing'[g].page <= mount
            /\ \A h \in Gestures \ {g} : doing'[h] = doing[h]

LEMMA HandlerStep ==
    ASSUME IInv, NEW g \in Gestures,
           Turns(g), Moves(g), Agrees(g)', Grows, Releases, Discloses,
           DOMAIN history' = Items, mount' = mount,
           leg'[g] = "emit" /\ doing'[g].kind = "cycle" => Backed(CyclePreview(g), "APPROVE")'
    PROVE  IInv'
<1> USE DEF Turns
<1>1. /\ DOMAIN leg' = Gestures /\ DOMAIN fetch' = Gestures
      /\ fetch'[g] \in {"none", "waiting"}
      /\ \A h \in Gestures \ {g} : leg'[h] = leg[h] /\ fetch'[h] = fetch[h] /\ sent'[h] = sent[h]
  BY DEF Moves, Ends, Sends, IInv, Shape
<1>2. sent' \in [Gestures -> Nat] /\ sent[g] <= sent'[g]
  BY DEF Moves, Ends, Sends, IInv, Shape
<1>3. Shape'
  BY <1>1, <1>2 DEF IInv, Shape
<1>4. ASSUME NEW h \in Gestures PROVE Agrees(h)'
  BY <1>1 DEF IInv, Agrees, Creates
<1>5. RequestsFit'
  <2> SUFFICES ASSUME NEW r \in wire'
               PROVE  /\ r.by \in Gestures /\ r.n \in Nat /\ r.n <= sent'[r.by]
                      /\ r.n = sent'[r.by] /\ fetch'[r.by] = "waiting" =>
                             r.leg = leg'[r.by] /\ Asks(r.by, r.leg, r.item, r.decision)'
    BY DEF RequestsFit
  <2>1. CASE r \in wire /\ r.by # g
    BY <1>1, <2>1 DEF IInv, RequestsFit, Asks
  <2>2. CASE r \in wire /\ r.by = g
    <3>1. r.n \in Nat /\ r.n <= sent[g] /\ sent[g] \in Nat
      BY <2>2 DEF IInv, RequestsFit, Shape
    <3>2. CASE Ends(g)
      BY <1>1, <2>2, <3>1, <3>2 DEF Ends, IInv, Shape
    <3>3. CASE \E l, item, d : Sends(g, l, item, d)
      <4>1. sent'[g] = sent[g] + 1
        BY <3>3 DEF Sends, IInv, Shape
      <4> QED
        BY <2>2, <3>1, <4>1
    <3> QED
      BY <3>2, <3>3 DEF Moves
  <2>3. CASE r \notin wire
    <3>1. PICK l, item, d : Sends(g, l, item, d) /\ Asks(g, l, item, d)'
      BY <2>3 DEF Moves, Ends
    <3>2. r = [by |-> g, n |-> sent[g] + 1, leg |-> l, item |-> item, decision |-> d]
      BY <2>3, <3>1 DEF Sends
    <3>3. sent'[g] = sent[g] + 1 /\ leg'[g] = l /\ sent[g] \in Nat
      BY <3>1 DEF Sends, IInv, Shape
    <3> QED
      BY <3>1, <3>2, <3>3
  <2> QED
    BY <2>1, <2>2, <2>3
<1>6. AnswersFit'
  <2> SUFFICES ASSUME NEW h \in Gestures
               PROVE  /\ fetch'[h] = "reading" /\ leg'[h] \in Submits =>
                             <<doing'[h].item, doing'[h].decision>> \in recorded'
                      /\ fetch'[h] = "reading" /\ leg'[h] = "clear" =>
                             <<CyclePreview(h), "APPROVE">> \in recorded'
                      /\ leg'[h] = "emit" /\ doing'[h].kind = "cycle" =>
                             Backed(CyclePreview(h), "APPROVE")'
    BY DEF AnswersFit, CyclePreview
  <2>1. CASE h = g
    BY <1>1, <2>1
  <2>2. CASE h # g
    BY <1>1, <2>2, BackedStays DEF IInv, AnswersFit, Grows
  <2> QED
    BY <2>1, <2>2
<1>7. HistoryBacked'
  <2> SUFFICES ASSUME NEW i \in Items, history'[i] # None PROVE Backed(i, history[i])'
    BY DEF HistoryBacked
  <2>1. CASE history'[i] = history[i]
    <3>1. Backed(i, history[i])
      BY <2>1 DEF IInv, HistoryBacked
    <3> QED
      BY <2>1, <3>1 DEF Backed, Grows
  <2> QED
    BY <2>1 DEF Discloses
<1>8. ReleasesBacked'
  BY BackedStays DEF IInv, ReleasesBacked, Releases, CyclePreview, Record
<1> QED
  BY <1>3, <1>4, <1>5, <1>6, <1>7, <1>8 DEF IInv

\* The ledger as it was, or with records that release nothing.
LEMMA Quiet ==
    ASSUME recorded' = recorded, NEW S, ledger' = ledger \/ ledger' = Noted(S),
           \A h, e : Record(h, e, "released") \notin S
    PROVE  Grows /\ Releases
  BY NotedHas DEF Grows, Releases

LEMMA Untouched == ASSUME UNCHANGED <<ledger, recorded>> PROVE Grows /\ Releases
  BY DEF Grows, Releases

\* A click that shows nothing yet and writes no record of a release.
LEMMA Click ==
    ASSUME IInv, NEW g \in Gestures, NEW what, Gesture(g, what), Moves(g), Agrees(g)',
           DOMAIN what = Fields, what.page \in {0, mount},
           Grows, Releases, UNCHANGED <<mount, history>>,
           leg'[g] # "emit" \/ what.kind # "cycle"
    PROVE  IInv'
<1>1. Turns(g) /\ doing'[g] = what
  BY DEF Gesture, Turns, IInv, Shape
<1>2. Discloses /\ DOMAIN history' = Items
  BY DEF Discloses, IInv, Shape
<1> QED
  BY <1>1, <1>2, HandlerStep

\* After its click a gesture is on its way with what it is about, or over.
LEMMA Started ==
    ASSUME IInv, NEW g \in Gestures, NEW what, Gesture(g, what)
    PROVE  /\ doing'[g] = what
           /\ Ends(g) => leg'[g] = "done"
           /\ \A l, item, d : Sends(g, l, item, d) => leg'[g] = l
  BY DEF Gesture, Ends, Sends, IInv, Shape

LEMMA ClicksKeep == ASSUME IInv, NEW g \in Gestures, Start(g) PROVE IInv'
<1> USE DEF Idle, Fields, Asks, Agrees, Submits
<1>1. ASSUME NEW p, NEW d \in Decisions, Decide(g, p, d) PROVE IInv'
  <2> DEFINE what == Decision("decide", p, d)
  <2>1. Gesture(g, what) /\ Sends(g, "decide", p, d) /\ UNCHANGED <<stores, backend, mount, history>>
    BY <1>1 DEF Decide
  <2>2. /\ what.kind = "decide" /\ what.item = p /\ what.decision = d /\ what.page = mount
        /\ DOMAIN what = Fields
    BY DEF Decision
  <2>3. Moves(g) /\ Agrees(g)'
    BY <2>1, <2>2, Started DEF Moves
  <2>4. Grows /\ Releases /\ UNCHANGED <<mount, history>>
    BY <2>1, Untouched DEF stores, backend
  <2> HIDE DEF what
  <2> QED
    BY <2>1, <2>2, <2>3, <2>4, Click
<1>2. CASE ApproveAll(g)
  <2> DEFINE what == [Decision("batch", previews[1], "APPROVE") EXCEPT !.at = 1]
  <2>1. /\ Gesture(g, what) /\ Sends(g, "batch", previews[1], "APPROVE")
        /\ UNCHANGED <<stores, backend, mount, history>>
    BY <1>2 DEF ApproveAll, pageVars
  <2>2. /\ what.kind = "batch" /\ what.item = previews[1] /\ what.decision = "APPROVE"
        /\ what.page = mount /\ DOMAIN what = Fields
    BY DEF Decision
  <2>3. Moves(g) /\ Agrees(g)'
    BY <2>1, <2>2, Started, NamesAssumption DEF Moves
  <2>4. Grows /\ Releases /\ UNCHANGED <<mount, history>>
    BY <2>1, Untouched DEF stores, backend
  <2> HIDE DEF what
  <2> QED
    BY <2>1, <2>2, <2>3, <2>4, Click
<1>3. ASSUME NEW i, NEW d \in Decisions, Seal(g, i, d) PROVE IInv'
  <2> DEFINE what == Decision("seal", i, d)
  <2>1. Gesture(g, what) /\ Sends(g, "seal", i, d) /\ UNCHANGED <<stores, backend, mount, history>>
    BY <1>3 DEF Seal
  <2>2. /\ what.kind = "seal" /\ what.item = i /\ what.decision = d /\ what.page = mount
        /\ DOMAIN what = Fields
    BY DEF Decision
  <2>3. Moves(g) /\ Agrees(g)'
    BY <2>1, <2>2, Started DEF Moves
  <2>4. Grows /\ Releases /\ UNCHANGED <<mount, history>>
    BY <2>1, Untouched DEF stores, backend
  <2> HIDE DEF what
  <2> QED
    BY <2>1, <2>2, <2>3, <2>4, Click
<1>4. ASSUME NEW kind \in {"create", "cycle"}, NEW d, Create(g, kind, d), UNCHANGED pageVars
      PROVE  IInv'
  <2> DEFINE what == [Idle EXCEPT !.kind = kind, !.item = d]
  <2>1. Gesture(g, what) /\ Sends(g, "save", d, None) /\ UNCHANGED <<stores, backend, mount, history>>
    BY <1>4 DEF Create, pageVars
  <2>2. what.kind = kind /\ what.page = 0 /\ DOMAIN what = Fields
    OBVIOUS
  <2>3. Moves(g) /\ Agrees(g)' /\ leg'[g] = "save"
    BY <2>1, <2>2, Started DEF Moves, Creates
  <2>4. Grows /\ Releases /\ UNCHANGED <<mount, history>>
    BY <2>1, Untouched DEF stores, backend
  <2> HIDE DEF what
  <2> QED
    BY <2>1, <2>2, <2>3, <2>4, Click
<1>5. ASSUME NEW d, Execute(g, d), UNCHANGED pageVars PROVE IInv'
  <2> DEFINE what == [Idle EXCEPT !.kind = "execute", !.item = d]
  <2>1. Gesture(g, what) /\ Sends(g, "execute", d, None) /\ UNCHANGED <<stores, backend, mount, history>>
    BY <1>5 DEF Execute, pageVars
  <2>2. what.kind = "execute" /\ what.page = 0 /\ DOMAIN what = Fields
    OBVIOUS
  <2>3. Moves(g) /\ Agrees(g)'
    BY <2>1, <2>2, Started DEF Moves
  <2>4. Grows /\ Releases /\ UNCHANGED <<mount, history>>
    BY <2>1, Untouched DEF stores, backend
  <2> HIDE DEF what
  <2> QED
    BY <2>1, <2>2, <2>3, <2>4, Click
<1>6. ASSUME NEW r, NEW s \in Range(Forward), Advance(g, r, s), UNCHANGED pageVars PROVE IInv'
  <2> DEFINE what == [Idle EXCEPT !.kind = "advance", !.item = r.task]
  <2>1. /\ Gesture(g, what) /\ Ends(g) /\ UNCHANGED <<recorded, mount, history>>
        /\ ledger' = Noted({Record(g, r.task, s)})
    BY <1>6 DEF Advance, backend, pageVars
  <2>2. what.kind = "advance" /\ what.page = 0 /\ DOMAIN what = Fields
    OBVIOUS
  <2>3. Moves(g) /\ Agrees(g)'
    BY <2>1, <2>2, Started DEF Moves
  <2>4. s # "released"
    BY DEF Range, Forward
  <2>5. Grows /\ Releases
    BY <2>1, <2>4, Quiet, Records
  <2> HIDE DEF what
  <2> QED
    BY <2>1, <2>2, <2>3, <2>5, Click
<1>7. CASE RunAll(g) /\ UNCHANGED pageVars
  <2> DEFINE what == [Idle EXCEPT !.kind = "runall"]
  <2>1. Gesture(g, what) /\ Ends(g) /\ UNCHANGED <<recorded, ledger, mount, history>>
    BY <1>7 DEF RunAll, backend, pageVars
  <2>2. what.kind = "runall" /\ what.page = 0 /\ DOMAIN what = Fields
    OBVIOUS
  <2>3. Moves(g) /\ Agrees(g)'
    BY <2>1, <2>2, Started DEF Moves
  <2>4. Grows /\ Releases
    BY <2>1, Untouched
  <2> HIDE DEF what
  <2> QED
    BY <2>1, <2>2, <2>3, <2>4, Click
<1>8. CASE Attest(g) /\ UNCHANGED pageVars
  <2> DEFINE what == [Idle EXCEPT !.kind = "attest"]
  <2>1. /\ Gesture(g, what) /\ Ends(g) /\ UNCHANGED <<recorded, mount, history>>
        /\ ledger' = Noted({Record(g, None, "attested")})
    BY <1>8 DEF Attest, backend, pageVars
  <2>2. what.kind = "attest" /\ what.page = 0 /\ DOMAIN what = Fields
    OBVIOUS
  <2>3. Moves(g) /\ Agrees(g)'
    BY <2>1, <2>2, Started DEF Moves
  <2>4. Grows /\ Releases
    BY <2>1, Quiet, Records
  <2> HIDE DEF what
  <2> QED
    BY <2>1, <2>2, <2>3, <2>4, Click
<1>9. CASE Emit(g) /\ UNCHANGED pageVars
  <2> DEFINE what == [Idle EXCEPT !.kind = "emit"]
  <2>1. Gesture(g, what) /\ Sends(g, "emit", None, None) /\ UNCHANGED <<stores, backend, mount, history>>
    BY <1>9 DEF Emit, pageVars
  <2>2. what.kind = "emit" /\ what.page = 0 /\ DOMAIN what = Fields
    OBVIOUS
  <2>3. Moves(g) /\ Agrees(g)'
    BY <2>1, <2>2, Started DEF Moves
  <2>4. Grows /\ Releases /\ UNCHANGED <<mount, history>>
    BY <2>1, Untouched DEF stores, backend
  <2> HIDE DEF what
  <2> QED
    BY <2>1, <2>2, <2>3, <2>4, Click
<1> QED
  BY <1>1, <1>2, <1>3, <1>4, <1>5, <1>6, <1>7, <1>8, <1>9 DEF Start

-----------------------------------------------------------------------------
(* Answers                                                                 *)

\* A decision that is answered is the backend's, or the ledger has it.
LEMMA Decided ==
    ASSUME IInv, NEW g \in Gestures, NEW o, Outcome(g, o), leg[g] \in Submits,
           recorded' = recorded,
           \/ o = "ok" /\ ledger' = ledger
           \/ ledger' = Noted({Record(g, doing[g].item, doing[g].decision)})
    PROVE  /\ Grows /\ Releases
           /\ \/ <<doing[g].item, doing[g].decision>> \in recorded'
              \/ BagIn(Record(g, doing[g].item, doing[g].decision), ledger')
<1>1. doing[g].decision # "released"
  BY NamesAssumption DEF IInv, Agrees
<1>2. Grows /\ Releases
  <2>1. CASE ledger' = ledger
    BY <2>1, Untouched
  <2>2. CASE ledger' = Noted({Record(g, doing[g].item, doing[g].decision)})
    BY <1>1, <2>2, NotedHas, Records DEF Grows, Releases
  <2> QED
    BY <2>1, <2>2
<1>3. \/ <<doing[g].item, doing[g].decision>> \in recorded'
      \/ BagIn(Record(g, doing[g].item, doing[g].decision), ledger')
  <2>1. CASE o = "ok" /\ ledger' = ledger
    BY <2>1 DEF IInv, AnswersFit, Outcome
  <2>2. CASE ledger' = Noted({Record(g, doing[g].item, doing[g].decision)})
    BY <2>2, NotedHas
  <2> QED
    BY <2>1, <2>2
<1> QED
  BY <1>2, <1>3

\* What is shown of it is backed.
LEMMA Shown ==
    ASSUME IInv, NEW g \in Gestures, Shows(g),
           \/ <<doing[g].item, doing[g].decision>> \in recorded'
           \/ BagIn(Record(g, doing[g].item, doing[g].decision), ledger')
    PROVE  Discloses /\ DOMAIN history' = Items
<1>1. DOMAIN history' = Items
  BY DEF IInv, Shape, Shows
<1>2. ASSUME NEW i \in Items, history'[i] # history[i] PROVE Backed(i, history[i])'
  <2>1. i = doing[g].item /\ history'[i] = doing[g].decision
    BY <1>2 DEF Shows, IInv, Shape
  <2> QED
    BY <2>1 DEF Backed
<1> QED
  BY <1>1, <1>2 DEF Discloses

\* An answer on another page than that of the approvals.
LEMMA Elsewhere == ASSUME IInv, UNCHANGED pageVars PROVE Discloses /\ DOMAIN history' = Items /\ mount' = mount
  BY DEF IInv, Shape, Discloses, pageVars

LEMMA SameSubject == ASSUME IInv, NEW g \in Gestures, UNCHANGED <<doing, mount>> PROVE Turns(g)
  BY DEF IInv, Shape, Turns

LEMMA Ended == ASSUME IInv, NEW g \in Gestures, Ends(g) PROVE leg'[g] = "done" /\ Moves(g)
  BY DEF IInv, Shape, Ends, Moves

LEMMA Over == ASSUME NEW g \in Gestures, leg'[g] = "done" PROVE Agrees(g)'
  BY DEF Agrees, Submits

LEMMA DecisionsKeep ==
    ASSUME IInv, NEW g \in Gestures, NEW o, DecideReturns(g, o) \/ SealReturns(g, o)
    PROVE  IInv'
<1>1. /\ Outcome(g, o) /\ leg[g] \in Submits
      /\ UNCHANGED <<doing, recorded, mount>> /\ Shows(g) /\ Ends(g)
      /\ \/ o = "ok" /\ ledger' = ledger
         \/ ledger' = Noted({Record(g, doing[g].item, doing[g].decision)})
  BY DEF DecideReturns, SealReturns, Simulated, backend, Submits
<1>2. Turns(g) /\ Moves(g) /\ leg'[g] = "done" /\ Agrees(g)'
  BY <1>1, SameSubject, Ended, Over
<1>3. Grows /\ Releases /\ Discloses /\ DOMAIN history' = Items
  BY <1>1, Decided, Shown
<1> QED
  BY <1>1, <1>2, <1>3, HandlerStep

LEMMA BatchKeeps == ASSUME IInv, NEW g \in Gestures, NEW o, BatchReturns(g, o) PROVE IInv'
<1> DEFINE next == doing[g].at + 1
<1>1. /\ Outcome(g, o) /\ leg[g] = "batch" /\ leg[g] \in Submits
      /\ UNCHANGED <<recorded, mount>> /\ Shows(g)
      /\ \/ o = "ok" /\ ledger' = ledger
         \/ ledger' = Noted({Record(g, doing[g].item, doing[g].decision)})
  BY DEF BatchReturns, Simulated, backend, Submits
<1>2. Grows /\ Releases /\ Discloses /\ DOMAIN history' = Items
  BY <1>1, Decided, Shown
<1>3. CASE Ends(g) /\ UNCHANGED doing
  <2>1. Turns(g) /\ Moves(g) /\ leg'[g] = "done" /\ Agrees(g)'
    BY <1>1, <1>3, SameSubject, Ended, Over
  <2> QED
    BY <1>1, <1>2, <2>1, HandlerStep
<1>4. CASE /\ doing' = [doing EXCEPT ![g].at = next, ![g].item = previews[next]]
           /\ Sends(g, "batch", previews[next], "APPROVE")
  <2>1. /\ doing[g].kind = "batch" /\ DOMAIN doing[g] = Fields
        /\ doing[g].page \in Nat /\ doing[g].page <= mount
    BY <1>1 DEF IInv, Agrees, Shape
  <2>2. /\ doing'[g].kind = "batch" /\ doing'[g].item = previews[next]
        /\ doing'[g].decision = doing[g].decision /\ doing'[g].page = doing[g].page
    BY <1>4, <2>1 DEF IInv, Shape, Fields
  <2>3. Turns(g)
    BY <1>4, <2>1, <2>2 DEF Turns, IInv, Shape
  <2>4. leg'[g] = "batch"
    BY <1>4 DEF Sends, IInv, Shape
  <2>5. Agrees(g)'
    BY <1>1, <2>2, <2>4 DEF Agrees, IInv, Submits
  <2>6. doing[g].decision = "APPROVE"
    BY <1>1 DEF IInv, Agrees
  <2>7. Moves(g)
    BY <1>4, <2>2, <2>6 DEF Moves, Asks
  <2> QED
    BY <1>1, <1>2, <2>3, <2>4, <2>5, <2>7, HandlerStep
<1> QED
  BY <1>3, <1>4 DEF BatchReturns

LEMMA Sent ==
    ASSUME IInv, NEW g \in Gestures, NEW l, NEW item, NEW d, Sends(g, l, item, d)
    PROVE  leg'[g] = l /\ (Asks(g, l, item, d)' => Moves(g))
  BY DEF IInv, Shape, Sends, Moves

\* The moves of a cycle and the note of a creation release nothing.
LEMMA CreationIsQuiet ==
    ASSUME NEW g \in Gestures, NEW rows, NEW activity \in {"orchestrated", "synthesized"},
           Created(g, rows, activity)
    PROVE  Grows /\ Releases
<1> DEFINE d == doing[g].item
           moves == CycleMoves(rows \o tasks, d)
           note == Record(g, d, activity)
<1>1. recorded' = recorded
  BY DEF Created, backend
<1>2. \A m \in ToSet(moves) : m[2] # "released"
  BY DEF ToSet, CycleMoves
<1>3. \A h, e : Record(h, e, "released") # note
  BY Records
<1>4. CASE ledger' = Noted({note})
  BY <1>1, <1>3, <1>4, NotedHas DEF Grows, Releases
<1>5. CASE ledger' = Noted({note} \cup {Record(g, m[1], m[2]) : m \in ToSet(moves)})
  <2>1. \A h, e : Record(h, e, "released") \notin {Record(g, m[1], m[2]) : m \in ToSet(moves)}
    BY <1>2, Records
  <2> HIDE DEF moves, note
  <2> QED
    BY <1>1, <1>3, <1>5, <2>1, NotedHas DEF Grows, Releases
<1> QED
  BY <1>4, <1>5 DEF Created

LEMMA CreatedKeeps ==
    ASSUME IInv, NEW g \in Gestures, NEW rows, NEW activity \in {"orchestrated", "synthesized"},
           Created(g, rows, activity), UNCHANGED pageVars
    PROVE  IInv'
<1>1. Grows /\ Releases
  BY CreationIsQuiet
<1>2. UNCHANGED doing /\ Turns(g) /\ Discloses /\ DOMAIN history' = Items /\ mount' = mount
  BY Elsewhere, SameSubject DEF Created, pageVars
<1>3. CASE doing[g].kind = "cycle"
  <2>1. Sends(g, "clear", CyclePreview(g), "APPROVE")
    BY <1>3 DEF Created
  <2>2. Asks(g, "clear", CyclePreview(g), "APPROVE")'
    BY DEF Asks, Submits, CyclePreview
  <2>3. leg'[g] = "clear" /\ Moves(g)
    BY <2>1, <2>2, Sent
  <2>4. Agrees(g)'
    BY <1>2, <1>3, <2>3 DEF Agrees, Submits
  <2> QED
    BY <1>1, <1>2, <2>3, <2>4, HandlerStep
<1>4. CASE doing[g].kind # "cycle"
  <2>1. leg'[g] = "done" /\ Moves(g) /\ Agrees(g)'
    BY <1>4, Ended, Over DEF Created
  <2> QED
    BY <1>1, <1>2, <2>1, HandlerStep
<1> QED
  BY <1>3, <1>4

LEMMA SaveKeeps ==
    ASSUME IInv, NEW g \in Gestures, NEW o, SaveReturns(g, o), UNCHANGED pageVars PROVE IInv'
<1>1. CASE Synthesized(g)
  BY <1>1, CreatedKeeps DEF Synthesized
<1>2. CASE Sends(g, "run", doing[g].item, None) /\ UNCHANGED <<doing, stores, backend>>
  <2>1. Creates(g)
    BY DEF SaveReturns, IInv, Agrees
  <2>2. /\ Turns(g) /\ Grows /\ Releases /\ Discloses /\ DOMAIN history' = Items
        /\ mount' = mount
    BY <1>2, Elsewhere, SameSubject, Untouched DEF stores, backend, pageVars
  <2>3. Asks(g, "run", doing[g].item, None)'
    BY DEF Asks, Submits
  <2>4. leg'[g] = "run" /\ Moves(g)
    BY <1>2, Sent DEF Moves, Asks, Submits
  <2>5. Agrees(g)'
    BY <1>2, <2>1, <2>4 DEF Agrees, Creates, Submits
  <2> QED
    BY <2>2, <2>4, <2>5, HandlerStep
<1> QED
  BY <1>1, <1>2 DEF SaveReturns

\* The preview of a cycle is cleared by the backend, or the ledger says so.
LEMMA ClearKeeps ==
    ASSUME IInv, NEW g \in Gestures, NEW o, ClearReturns(g, o), UNCHANGED pageVars PROVE IInv'
<1>1. /\ leg[g] = "clear" /\ Outcome(g, o) /\ UNCHANGED <<doing, recorded>>
      /\ Sends(g, "emit", None, None)
      /\ ledger' = IF o = "ok" THEN ledger ELSE Noted({Record(g, CyclePreview(g), "APPROVE")})
  BY DEF ClearReturns, backend
<1>2. Turns(g) /\ Discloses /\ DOMAIN history' = Items /\ mount' = mount
  BY <1>1, Elsewhere, SameSubject DEF pageVars
<1>3. Grows /\ Releases
  <2>1. CASE o = "ok"
    BY <1>1, <2>1, Untouched
  <2>2. CASE o # "ok"
    BY <1>1, <2>2, NotedHas, Records, NamesAssumption DEF Grows, Releases
  <2> QED
    BY <2>1, <2>2
<1>4. Backed(CyclePreview(g), "APPROVE")'
  <2>1. CASE o = "ok"
    BY <1>1, <2>1 DEF Outcome, IInv, AnswersFit, Backed, CyclePreview
  <2>2. CASE o # "ok"
    BY <1>1, <2>2, NotedHas DEF Backed, CyclePreview
  <2> QED
    BY <2>1, <2>2
<1>5. leg'[g] = "emit" /\ Moves(g)
  BY <1>1, Sent DEF Asks, Submits, Moves
<1>6. Agrees(g)'
  BY <1>1, <1>5 DEF Agrees, IInv, Submits
<1> QED
  BY <1>2, <1>3, <1>4, <1>5, <1>6, HandlerStep

\* A cycle notes a release only after that.
LEMMA EmitKeeps ==
    ASSUME IInv, NEW g \in Gestures, NEW o, EmitReturns(g, o), UNCHANGED pageVars PROVE IInv'
<1>1. /\ leg[g] = "emit" /\ UNCHANGED <<doing, recorded>> /\ Ends(g)
      /\ ledger' = IF doing[g].kind = "cycle"
                   THEN Noted({Record(g, doing[g].item, "released")}) ELSE ledger
  BY DEF EmitReturns, backend
<1>2. Turns(g) /\ Discloses /\ DOMAIN history' = Items /\ mount' = mount
  BY <1>1, Elsewhere, SameSubject DEF pageVars
<1>3. Grows
  BY <1>1, NotedHas DEF Grows
<1>4. Releases
  <2>1. doing[g].kind = "cycle" => Backed(CyclePreview(g), "APPROVE")
    BY <1>1 DEF IInv, AnswersFit
  <2>2. doing[g].kind = "cycle" => Backed(CyclePreview(g), "APPROVE")'
    BY <1>3, <2>1, BackedStays
  <2>3. SUFFICES ASSUME NEW h \in Gestures, NEW e, BagIn(Record(h, e, "released"), ledger'),
                        ~ BagIn(Record(h, e, "released"), ledger)
                 PROVE  Backed(CyclePreview(h), "APPROVE")'
    BY DEF Releases
  <2>4. doing[g].kind = "cycle" /\ h = g
    BY <1>1, <2>3, NotedHas, Records
  <2> QED
    BY <2>2, <2>4
<1>5. leg'[g] = "done" /\ Moves(g) /\ Agrees(g)'
  BY <1>1, Ended, Over
<1> QED
  BY <1>2, <1>3, <1>4, <1>5, HandlerStep

LEMMA ExecuteKeeps ==
    ASSUME IInv, NEW g \in Gestures, NEW o, ExecuteReturns(g, o), UNCHANGED pageVars PROVE IInv'
<1>1. UNCHANGED <<doing, recorded, ledger>> /\ Ends(g)
  BY DEF ExecuteReturns, backend
<1>2. /\ Turns(g) /\ Grows /\ Releases /\ Discloses /\ DOMAIN history' = Items
      /\ mount' = mount
  BY <1>1, Elsewhere, SameSubject, Untouched DEF pageVars
<1>3. leg'[g] = "done" /\ Moves(g) /\ Agrees(g)'
  BY <1>1, Ended, Over
<1> QED
  BY <1>2, <1>3, HandlerStep

LEMMA AnswersKeep == ASSUME IInv, NEW g \in Gestures, NEW o, Settle(g, o) PROVE IInv'
<1>1. ASSUME RunReturns(g, o), UNCHANGED pageVars PROVE IInv'
  BY <1>1, CreatedKeeps DEF RunReturns, Synthesized
<1> QED
  BY <1>1, DecisionsKeep, BatchKeeps, SaveKeeps, ClearKeeps, EmitKeeps, ExecuteKeeps DEF Settle

-----------------------------------------------------------------------------
(* The backend                                                             *)

\* A request is handled: the backend says yes to a decision only if it took it.
LEMMA HandledStep ==
    ASSUME IInv, NEW r \in wire, NEW s \in {"reading", "refused"}, Answers(r, s),
           UNCHANGED pageVars, recorded \subseteq recorded',
           s = "reading" /\ r.leg \in Submits \cup {"clear"} => <<r.item, r.decision>> \in recorded'
    PROVE  IInv'
<1>1. /\ UNCHANGED <<doing, leg, sent, mount, history, ledger>>
      /\ wire' = wire \ {r}
      /\ Heard(r, s) \/ UNCHANGED fetch
  BY DEF Answers, stores, pageVars
<1>2. r.by \in Gestures /\ DOMAIN fetch = Gestures
  BY DEF IInv, RequestsFit, Shape
<1>3. /\ DOMAIN fetch' = Gestures
      /\ \A g \in Gestures : fetch'[g] = fetch[g] \/ (g = r.by /\ Heard(r, s) /\ fetch'[g] = s)
  <2>1. CASE UNCHANGED fetch
    BY <1>2, <2>1
  <2>2. CASE Heard(r, s)
    <3>1. fetch' = [fetch EXCEPT ![r.by] = s]
      BY <2>2 DEF Heard
    <3> QED
      BY <1>2, <2>2, <3>1
  <2> QED
    BY <1>1, <2>1, <2>2
<1>4. Grows
  BY <1>1 DEF Grows
<1>5. Shape' /\ \A g \in Gestures : Agrees(g)'
  BY <1>1, <1>3 DEF IInv, Shape, Agrees, Creates
<1>6. RequestsFit'
  <2> SUFFICES ASSUME NEW q \in wire
               PROVE  /\ q.by \in Gestures /\ q.n \in Nat /\ q.n <= sent[q.by]
                      /\ q.n = sent[q.by] /\ fetch'[q.by] = "waiting" =>
                             q.leg = leg[q.by] /\ Asks(q.by, q.leg, q.item, q.decision)
    <3>1. wire' \subseteq wire
      BY <1>1
    <3>2. \A g, l, item, d : Asks(g, l, item, d)' <=> Asks(g, l, item, d)
      BY <1>1 DEF Asks, CyclePreview
    <3> QED
      BY <1>1, <3>1, <3>2 DEF RequestsFit
  <2>1. q.by \in Gestures /\ q.n \in Nat /\ q.n <= sent[q.by]
    BY DEF IInv, RequestsFit
  <2>2. fetch'[q.by] = "waiting" => fetch[q.by] = "waiting"
    BY <1>3, <2>1
  <2> QED
    BY <2>1, <2>2 DEF IInv, RequestsFit
<1>7. AnswersFit'
  <2> SUFFICES ASSUME NEW g \in Gestures
               PROVE  /\ fetch'[g] = "reading" /\ leg[g] \in Submits =>
                             <<doing[g].item, doing[g].decision>> \in recorded'
                      /\ fetch'[g] = "reading" /\ leg[g] = "clear" =>
                             <<CyclePreview(g), "APPROVE">> \in recorded'
                      /\ leg[g] = "emit" /\ doing[g].kind = "cycle" =>
                             Backed(CyclePreview(g), "APPROVE")'
    BY <1>1 DEF AnswersFit, CyclePreview
  <2>1. leg[g] = "emit" /\ doing[g].kind = "cycle" => Backed(CyclePreview(g), "APPROVE")'
    BY <1>4, BackedStays DEF IInv, AnswersFit
  <2>2. CASE fetch'[g] = fetch[g]
    BY <2>1, <2>2 DEF IInv, AnswersFit
  <2>3. CASE g = r.by /\ Heard(r, s) /\ fetch'[g] = s
    <3>1. r.leg = leg[g] /\ Asks(g, r.leg, r.item, r.decision)
      BY <2>3 DEF IInv, RequestsFit, Heard
    <3> QED
      BY <2>1, <2>3, <3>1 DEF Asks
  <2> QED
    BY <1>3, <2>2, <2>3
<1>8. HistoryBacked'
  BY <1>1 DEF IInv, HistoryBacked, Backed
<1>9. ReleasesBacked'
  BY <1>1, <1>4, BackedStays DEF IInv, ReleasesBacked, Record, CyclePreview
<1> QED
  BY <1>5, <1>6, <1>7, <1>8, <1>9 DEF IInv

LEMMA BackendKeeps == ASSUME IInv, Backend, UNCHANGED pageVars PROVE IInv'
<1> PICK r \in wire : \/ SaveDirective(r) \/ ExecuteDirective(r) \/ DecideApproval(r)
                     \/ DecideDevelopment(r) \/ AdmitTelemetry(r) \/ Decline(r)
  BY DEF Backend
<1>1. CASE SaveDirective(r)
  BY <1>1, HandledStep DEF SaveDirective, Submits
<1>2. CASE ExecuteDirective(r)
  BY <1>2, HandledStep DEF ExecuteDirective, Submits
<1>3. CASE DecideApproval(r)
  BY <1>3, HandledStep DEF DecideApproval
<1>4. CASE DecideDevelopment(r)
  BY <1>4, HandledStep DEF DecideDevelopment
<1>5. CASE AdmitTelemetry(r)
  BY <1>5, HandledStep DEF AdmitTelemetry, Submits
<1>6. CASE Decline(r)
  BY <1>6, HandledStep DEF Decline, backend
<1> QED
  BY <1>1, <1>2, <1>3, <1>4, <1>5, <1>6

-----------------------------------------------------------------------------
(* Invariance                                                              *)

LEMMA ReenterKeeps == ASSUME IInv, Reenter PROVE IInv'
<1>1. /\ UNCHANGED <<doing, leg, fetch, sent, wire, ledger, recorded>>
      /\ mount' = mount + 1 /\ history' = [i \in Items |-> None]
  BY DEF Reenter, clientVars, net, stores, backend
<1>2. Shape'
  BY <1>1 DEF IInv, Shape
<1>3. \A g \in Gestures : Agrees(g)'
  BY <1>1 DEF IInv, Agrees, Creates
<1>4. RequestsFit' /\ AnswersFit'
  BY <1>1 DEF IInv, RequestsFit, AnswersFit, Asks, Backed, CyclePreview
<1>5. HistoryBacked' /\ ReleasesBacked'
  BY <1>1 DEF IInv, HistoryBacked, ReleasesBacked, Backed, CyclePreview
<1> QED
  BY <1>2, <1>3, <1>4, <1>5 DEF IInv

THEOREM InitIInv == Init => IInv
<1> SUFFICES ASSUME Init PROVE IInv
  OBVIOUS
<1> USE DEF Init, ClientInit, PageInit, Idle
<1>1. Shape
  BY DEF Shape, Fields
<1>2. \A g \in Gestures : Agrees(g)
  BY DEF Agrees, Submits
<1>3. RequestsFit /\ AnswersFit /\ HistoryBacked
  BY DEF RequestsFit, AnswersFit, HistoryBacked
<1>4. ReleasesBacked
  BY DEF ReleasesBacked, BagIn, BagToSet, EmptyBag, SetToBag
<1> QED
  BY <1>1, <1>2, <1>3, <1>4 DEF IInv

THEOREM StepIInv == IInv /\ [Next]_vars => IInv'
<1> SUFFICES ASSUME IInv, [Next]_vars PROVE IInv'
  OBVIOUS
<1>1. ASSUME UNCHANGED vars PROVE IInv'
  <2>1. UNCHANGED <<doing, leg, fetch, sent, wire, ledger, recorded, mount, history>>
    BY <1>1 DEF vars, clientVars, pageVars, net, stores, backend
  <2> QED
    BY <2>1 DEF IInv, Shape, Agrees, RequestsFit, AnswersFit, HistoryBacked, ReleasesBacked,
                Asks, Backed, CyclePreview, Creates
<1> QED
  BY <1>1, ClicksKeep, AnswersKeep, BackendKeeps, ReenterKeeps DEF Next

LEMMA Invariance == Spec => []IInv
  BY InitIInv, StepIInv, PTL DEF Spec

\* submitApprovalDecision, decideDevelopment and the one-click cycle: whatever
\* overlaps, times out or is refused, nothing is shown as decided that neither the
\* backend decided so nor the ledger records.
THEOREM NothingShownUnbacked == Spec => []ShownIsBacked
<1>1. IInv => ShownIsBacked
  BY DEF IInv, HistoryBacked, ReleasesBacked, ShownIsBacked, Noting
<1> QED
  BY <1>1, Invariance, PTL

-----------------------------------------------------------------------------
(* The buttons                                                             *)

\* A decision of the present page that is under way; there is never a second one.
Pending(g) == Decides(g) /\ Present(g) /\ leg[g] # "done"
BInv == /\ IInv
        /\ BusyMeansPending
        /\ \A g, h \in Gestures : Pending(g) /\ Pending(h) => g = h

\* A click, or the answer to a decision: the step of g that sets or clears the flag.
LEMMA ButtonStep ==
    ASSUME BInv, IInv', NEW g \in Gestures, mount' = mount,
           \A h \in Gestures \ {g} : doing'[h] = doing[h] /\ leg'[h] = leg[h],
           busy' = IF Pending(g)' THEN TRUE ELSE IF Pending(g) THEN FALSE ELSE busy,
           Pending(g)' => ~ busy
    PROVE  BInv'
<1>1. \A h \in Gestures \ {g} : Pending(h)' <=> Pending(h)
  BY DEF Pending, Decides, Present
<1>2. BusyMeansPending <=> (busy <=> \E h \in Gestures : Pending(h))
  BY DEF BusyMeansPending, Pending
<1>3. BusyMeansPending' <=> (busy' <=> \E h \in Gestures : Pending(h)')
  BY DEF BusyMeansPending, Pending, Decides, Present
<1>4. \A h, i \in Gestures : Pending(h) /\ Pending(i) => h = i
  BY DEF BInv
<1>5. busy' <=> \E h \in Gestures : Pending(h)'
  <2>1. CASE Pending(g)'
    BY <2>1
  <2>2. CASE ~ Pending(g)' /\ Pending(g)
    BY <1>1, <1>4, <2>2
  <2>3. CASE ~ Pending(g)' /\ ~ Pending(g)
    BY <1>1, <1>2, <2>3 DEF BInv
  <2> QED
    BY <2>1, <2>2, <2>3
<1>6. \A h, i \in Gestures : Pending(h)' /\ Pending(i)' => h = i
  <2>1. CASE Pending(g)'
    BY <1>1, <1>2, <2>1 DEF BInv
  <2>2. CASE ~ Pending(g)'
    BY <1>1, <1>4, <2>2
  <2> QED
    BY <2>1, <2>2
<1> QED
  BY <1>3, <1>5, <1>6 DEF BInv

LEMMA OtherHandlers ==
    ASSUME IInv, NEW g \in Gestures, Ends(g) \/ \E l, item, d : Sends(g, l, item, d)
    PROVE  \A h \in Gestures \ {g} : leg'[h] = leg[h]
  BY DEF Ends, Sends, IInv, Shape

LEMMA DecisionClicks ==
    ASSUME BInv, NEW g \in Gestures, NEW p, NEW d \in Decisions, IInv',
           Decide(g, p, d) \/ Seal(g, p, d)
    PROVE  BInv'
<1>1. PICK kind \in {"decide", "seal"} :
           Gesture(g, Decision(kind, p, d)) /\ Sends(g, kind, p, d)
  BY DEF Decide, Seal
<1>2. ~ busy /\ busy' = TRUE /\ mount' = mount
  BY DEF Decide, Seal, ButtonsOpen
<1>3. doing'[g] = Decision(kind, p, d) /\ leg'[g] = kind
  BY <1>1, Started DEF BInv
<1>4. Pending(g)'
  BY <1>2, <1>3 DEF Pending, Decides, Present, Decision, Idle
<1>5. \A h \in Gestures \ {g} : doing'[h] = doing[h] /\ leg'[h] = leg[h]
  BY <1>1, OtherHandlers DEF Gesture, BInv, IInv, Shape
<1> QED
  BY <1>2, <1>4, <1>5, ButtonStep

LEMMA OtherClicks ==
    ASSUME BInv, NEW g \in Gestures, NEW what, IInv', Gesture(g, what),
           Ends(g) \/ \E l, item, d : Sends(g, l, item, d),
           what.kind \notin {"decide", "seal"}, UNCHANGED <<mount, busy>>
    PROVE  BInv'
<1>1. doing'[g] = what /\ doing[g].kind = "none"
  BY Started DEF BInv, IInv, Agrees, Gesture
<1>2. ~ Pending(g) /\ ~ Pending(g)'
  BY <1>1 DEF Pending, Decides
<1>3. \A h \in Gestures \ {g} : doing'[h] = doing[h] /\ leg'[h] = leg[h]
  BY OtherHandlers DEF Gesture, BInv, IInv, Shape
<1> QED
  BY <1>2, <1>3, ButtonStep

\* A handler frees the flag when it is through, if its page is there still.
LEMMA DecisionAnswers ==
    ASSUME BInv, NEW g \in Gestures, NEW o, IInv', DecideReturns(g, o) \/ SealReturns(g, o)
    PROVE  BInv'
<1>1. /\ leg[g] \in {"decide", "seal"} /\ Frees(g) /\ Ends(g) /\ UNCHANGED <<doing, mount>>
  BY DEF DecideReturns, SealReturns
<1>2. doing[g].kind = leg[g] /\ leg'[g] = "done"
  BY <1>1, Ended DEF BInv, IInv, Agrees, Submits
<1>3. Pending(g) <=> Present(g)
  BY <1>1, <1>2 DEF Pending, Decides
<1>4. ~ Pending(g)'
  BY <1>2 DEF Pending
<1>5. \A h \in Gestures \ {g} : doing'[h] = doing[h] /\ leg'[h] = leg[h]
  BY <1>1, OtherHandlers DEF BInv
<1> QED
  BY <1>1, <1>3, <1>4, <1>5, ButtonStep DEF Frees

LEMMA OtherAnswers ==
    ASSUME BInv, NEW g \in Gestures, IInv', UNCHANGED <<mount, busy>>,
           leg[g] \in {"batch", "save", "run", "clear", "emit", "execute"},
           doing'[g].kind = doing[g].kind,
           \A h \in Gestures \ {g} : doing'[h] = doing[h] /\ leg'[h] = leg[h]
    PROVE  BInv'
<1>1. doing[g].kind \notin {"decide", "seal"}
  BY DEF BInv, IInv, Agrees, Submits, Creates
<1>2. ~ Pending(g) /\ ~ Pending(g)'
  BY <1>1 DEF Pending, Decides
<1> QED
  BY <1>2, ButtonStep

\* What is seen of an answer that decides nothing on the page.
LEMMA AnswerOfOther ==
    ASSUME IInv, NEW g \in Gestures, NEW o,
           \/ BatchReturns(g, o)
           \/ (SaveReturns(g, o) \/ RunReturns(g, o) \/ ClearReturns(g, o)
                  \/ EmitReturns(g, o) \/ ExecuteReturns(g, o)) /\ UNCHANGED pageVars
    PROVE  /\ leg[g] \in {"batch", "save", "run", "clear", "emit", "execute"}
           /\ UNCHANGED <<mount, busy>>
           /\ doing'[g].kind = doing[g].kind
           /\ \A h \in Gestures \ {g} : doing'[h] = doing[h] /\ leg'[h] = leg[h]
<1>1. CASE BatchReturns(g, o)
  <2>1. leg[g] = "batch" /\ UNCHANGED <<mount, busy>>
    BY <1>1 DEF BatchReturns
  <2>2. \/ UNCHANGED doing
        \/ \E at, item : doing' = [doing EXCEPT ![g].at = at, ![g].item = item]
    BY <1>1 DEF BatchReturns
  <2>3. Ends(g) \/ \E l, item, d : Sends(g, l, item, d)
    BY <1>1 DEF BatchReturns
  <2>4. /\ doing'[g].kind = doing[g].kind
        /\ \A h \in Gestures \ {g} : doing'[h] = doing[h]
    BY <2>2 DEF IInv, Shape, Fields
  <2> QED
    BY <2>1, <2>3, <2>4, OtherHandlers
<1>2. ASSUME (SaveReturns(g, o) \/ RunReturns(g, o) \/ ClearReturns(g, o)
                \/ EmitReturns(g, o) \/ ExecuteReturns(g, o)) /\ UNCHANGED pageVars
      PROVE  /\ leg[g] \in {"save", "run", "clear", "emit", "execute"}
             /\ UNCHANGED <<mount, busy, doing>>
             /\ Ends(g) \/ \E l, item, d : Sends(g, l, item, d)
  BY <1>2 DEF SaveReturns, RunReturns, ClearReturns, EmitReturns, ExecuteReturns, Created,
              Synthesized, pageVars
<1> QED
  BY <1>1, <1>2, OtherHandlers

THEOREM StepBInv == BInv /\ [Next]_vars => BInv'
<1> SUFFICES ASSUME BInv, [Next]_vars PROVE BInv'
  OBVIOUS
<1>0. IInv'
  BY StepIInv DEF BInv
<1>1. ASSUME NEW g \in Gestures, Start(g) PROVE BInv'
  <2>1. ASSUME NEW p, NEW d \in Decisions, Decide(g, p, d) \/ Seal(g, p, d) PROVE BInv'
    BY <1>0, <2>1, DecisionClicks
  <2>2. CASE ApproveAll(g)
    <3> DEFINE what == [Decision("batch", previews[1], "APPROVE") EXCEPT !.at = 1]
    <3>1. Gesture(g, what) /\ Sends(g, "batch", previews[1], "APPROVE") /\ UNCHANGED <<mount, busy>>
      BY <2>2 DEF ApproveAll, pageVars
    <3>2. what.kind = "batch"
      BY DEF Decision, Idle
    <3> HIDE DEF what
    <3> QED
      BY <1>0, <3>1, <3>2, OtherClicks
  <2>3. ASSUME NEW kind \in {"create", "cycle", "execute", "emit", "advance", "runall", "attest"},
               NEW item,
               \/ Gesture(g, [Idle EXCEPT !.kind = kind, !.item = item])
               \/ Gesture(g, [Idle EXCEPT !.kind = kind]),
               Ends(g) \/ \E l, i, d : Sends(g, l, i, d), UNCHANGED pageVars
        PROVE  BInv'
    <3>1. PICK what \in {[Idle EXCEPT !.kind = kind], [Idle EXCEPT !.kind = kind, !.item = item]} :
              Gesture(g, what)
      BY <2>3
    <3>2. what.kind = kind
      BY DEF Idle
    <3> QED
      BY <1>0, <2>3, <3>1, <3>2, OtherClicks DEF pageVars
  <2>4. ASSUME NEW d, Create(g, "create", d) \/ Create(g, "cycle", d) \/ Execute(g, d),
               UNCHANGED pageVars
        PROVE  BInv'
    BY <2>3, <2>4 DEF Create, Execute
  <2>5. ASSUME NEW r, NEW s, Advance(g, r, s), UNCHANGED pageVars PROVE BInv'
    BY <2>3, <2>5 DEF Advance
  <2>6. ASSUME RunAll(g) \/ Attest(g) \/ Emit(g), UNCHANGED pageVars PROVE BInv'
    BY <2>3, <2>6 DEF RunAll, Attest, Emit
  <2> QED
    BY <1>1, <2>1, <2>2, <2>4, <2>5, <2>6 DEF Start
<1>2. ASSUME NEW g \in Gestures, NEW o, Settle(g, o) PROVE BInv'
  <2>1. CASE DecideReturns(g, o) \/ SealReturns(g, o)
    BY <1>0, <2>1, DecisionAnswers
  <2>2. CASE ~ (DecideReturns(g, o) \/ SealReturns(g, o))
    BY <1>0, <1>2, <2>2, AnswerOfOther, OtherAnswers DEF Settle, BInv
  <2> QED
    BY <2>1, <2>2
<1>3. CASE UNCHANGED <<doing, leg, mount, busy>>
  BY <1>0, <1>3 DEF BInv, BusyMeansPending, Pending, Decides, Present
<1>4. CASE Backend /\ UNCHANGED pageVars
  <2>1. UNCHANGED <<doing, leg>>
    BY <1>4 DEF Backend, SaveDirective, ExecuteDirective, DecideApproval, DecideDevelopment,
                AdmitTelemetry, Decline, Answers
  <2> QED
    BY <1>3, <1>4, <2>1 DEF pageVars
<1>5. CASE Reenter
  <2>1. UNCHANGED <<doing, leg>> /\ mount' = mount + 1 /\ busy' = FALSE
    BY <1>5 DEF Reenter, clientVars, net
  <2>2. \A g \in Gestures : ~ Pending(g)'
    BY <2>1 DEF Pending, Present, BInv, IInv, Shape
  <2> QED
    BY <1>0, <2>1, <2>2 DEF BInv, BusyMeansPending, Pending, Decides, Present
<1>6. CASE UNCHANGED vars
  BY <1>3, <1>6 DEF vars, clientVars, pageVars, net
<1> QED
  BY <1>1, <1>2, <1>4, <1>5, <1>6 DEF Next

\* isSubmitting of the approvals page: the buttons of both tabs are disabled
\* exactly while a decision of this page is on its way, and it is the only one.
THEOREM ButtonsGuard == Spec => []BusyMeansPending
<1>1. Init => BInv
  BY InitIInv DEF Init, ClientInit, PageInit, Idle, BInv, BusyMeansPending, Pending, Decides
<1>2. BInv => BusyMeansPending
  BY DEF BInv
<1> QED
  BY <1>1, <1>2, StepBInv, PTL DEF Spec

-----------------------------------------------------------------------------
(* Approving all                                                           *)

\* What a batch that walks the list still has to submit: nothing is left out
\* though the list grows at its head, since what moves on is met again.
Ahead(g) == {previews[i] : i \in {j \in DOMAIN previews : j > doing[g].at}}
Covers(g) ==
    doing[g].kind = "batch" /\ Present(g) =>
        /\ leg[g] = "batch" =>
               /\ doing[g].at \in 1 .. Len(previews)
               /\ \A p \in Previews :
                      history[p] # None \/ p = doing[g].item \/ p \in Ahead(g)
        /\ leg[g] = "done" => \A p \in Previews : history[p] # None

CInv == /\ previews \in Seq(Items) /\ Previews \subseteq ToSet(previews)
        /\ \A g \in Gestures : Covers(g)

LEMMA ListedAtFirst == SetToSeq(Previews) \in Seq(Items) /\ Previews \subseteq ToSet(SetToSeq(Previews))
<1> DEFINE n == Cardinality(Previews)
           list == SetToSeq(Previews)
<1>1. n \in Nat /\ IsFiniteSet(1..n) /\ Cardinality(1..n) = n
  BY PreviewsAssumption, FS_CardinalityType, FS_Interval
<1>2. ExistsBijection(1..n, Previews)
  BY <1>1, PreviewsAssumption, FS_SameCardinalityBij
<1>3. \E f \in [1..n -> Previews] : IsInjective(f)
  BY <1>2 DEF ExistsBijection, Bijection, Injection
<1>4. list \in [1..n -> Previews] /\ IsInjective(list)
  BY <1>3 DEF SetToSeq
<1>5. list \in Surjection(1..n, Previews)
  BY <1>1, <1>4, PreviewsAssumption, FS_Injection DEF Injection
<1> HIDE DEF list, n
<1>6. \A p \in Previews : \E i \in 1..n : list[i] = p
  BY <1>5 DEF Surjection
<1>7. list \in Seq(Items)
  BY <1>1, <1>4 DEF Items
<1>8. DOMAIN list = 1..n
  BY <1>4
<1> QED
  BY <1>6, <1>7, <1>8 DEF ToSet, list

\* The list grows at its head, if at all.
Listing == \/ UNCHANGED previews
           \/ \E g \in Gestures : previews' = <<CyclePreview(g)>> \o previews

LEMMA AheadStays ==
    ASSUME CInv, Listing, NEW g \in Gestures, doing'[g] = doing[g], doing[g].at \in 1..Len(previews)
    PROVE  /\ previews' \in Seq(Items) /\ ToSet(previews) \subseteq ToSet(previews')
           /\ doing[g].at \in 1..Len(previews') /\ Ahead(g) \subseteq Ahead(g)'
<1>1. CASE UNCHANGED previews
  BY <1>1 DEF CInv, Ahead
<1>2. ASSUME NEW h \in Gestures, previews' = <<CyclePreview(h)>> \o previews
      PROVE  /\ previews' \in Seq(Items) /\ ToSet(previews) \subseteq ToSet(previews')
             /\ doing[g].at \in 1..Len(previews') /\ Ahead(g) \subseteq Ahead(g)'
  <2>1. previews \in Seq(Items) /\ CyclePreview(h) \in Items
    BY DEF CInv, Items
  <2> HIDE DEF Items
  <2>2. /\ previews' \in Seq(Items) /\ Len(previews') = Len(previews) + 1
        /\ Len(previews) \in Nat
        /\ \A i \in 1..Len(previews) : i + 1 \in 1..Len(previews') /\ previews'[i + 1] = previews[i]
    BY <1>2, <2>1
  <2>3. DOMAIN previews = 1..Len(previews) /\ DOMAIN previews' = 1..Len(previews')
    BY <2>1, <2>2
  <2>4. Ahead(g) \subseteq Ahead(g)'
    <3> SUFFICES ASSUME NEW i \in 1..Len(previews), i > doing[g].at
                 PROVE  \E j \in 1..Len(previews') : j > doing[g].at /\ previews'[j] = previews[i]
      BY <2>3 DEF Ahead
    <3> QED
      BY <2>2
  <2>5. ToSet(previews) \subseteq ToSet(previews')
    BY <2>2, <2>3 DEF ToSet
  <2> QED
    BY <2>2, <2>4, <2>5
<1> QED
  BY <1>1, <1>2 DEF Listing

LEMMA CoversStep ==
    ASSUME IInv, CInv, Listing, NEW g \in Gestures, mount' = mount,
           \A h \in Gestures \ {g} : doing'[h] = doing[h] /\ leg'[h] = leg[h],
           \A p \in Previews : history[p] # None => history'[p] # None,
           Covers(g)'
    PROVE  CInv'
<1>1. previews' \in Seq(Items) /\ ToSet(previews) \subseteq ToSet(previews')
  <2>1. CASE UNCHANGED previews
    BY <2>1 DEF CInv
  <2>2. ASSUME NEW h \in Gestures, previews' = <<CyclePreview(h)>> \o previews
        PROVE  previews' \in Seq(Items) /\ ToSet(previews) \subseteq ToSet(previews')
    <3>1. previews \in Seq(Items) /\ CyclePreview(h) \in Items
      BY DEF CInv, Items
    <3> HIDE DEF Items
    <3>2. /\ previews' \in Seq(Items)
          /\ \A i \in DOMAIN previews : i + 1 \in DOMAIN previews' /\ previews'[i + 1] = previews[i]
      BY <2>2, <3>1
    <3> QED
      BY <3>2 DEF ToSet
  <2> QED
    BY <2>1, <2>2 DEF Listing
<1>2. ASSUME NEW h \in Gestures, h # g PROVE Covers(h)'
  <2>1. doing'[h] = doing[h] /\ leg'[h] = leg[h] /\ Covers(h)
    BY <1>2 DEF CInv
  <2>2. SUFFICES ASSUME doing[h].kind = "batch", Present(h)
                 PROVE  /\ leg[h] = "batch" =>
                               /\ doing[h].at \in 1 .. Len(previews')
                               /\ \A p \in Previews :
                                      history'[p] # None \/ p = doing[h].item \/ p \in Ahead(h)'
                        /\ leg[h] = "done" => \A p \in Previews : history'[p] # None
    BY <2>1 DEF Covers, Present
  <2>3. leg[h] = "batch" => doing[h].at \in 1 .. Len(previews') /\ Ahead(h) \subseteq Ahead(h)'
    BY <2>1, <2>2, AheadStays DEF Covers
  <2> QED
    BY <2>1, <2>2, <2>3 DEF Covers
<1> QED
  BY <1>1, <1>2 DEF CInv

\* A gesture that is no batch has nothing to cover.
LEMMA NoBatch == ASSUME NEW g \in Gestures, doing'[g].kind # "batch" PROVE Covers(g)'
  BY DEF Covers

LEMMA CoversClick ==
    ASSUME IInv, CInv, NEW g \in Gestures, NEW what, Gesture(g, what), what.kind # "batch",
           Ends(g) \/ \E l, item, d : Sends(g, l, item, d),
           UNCHANGED <<previews, mount, history>>
    PROVE  CInv'
<1>1. doing'[g] = what
  BY Started
<1>2. \A h \in Gestures \ {g} : doing'[h] = doing[h] /\ leg'[h] = leg[h]
  BY OtherHandlers DEF Gesture, IInv, Shape
<1> QED
  BY <1>1, <1>2, NoBatch, CoversStep DEF Listing

LEMMA CoversApproveAll == ASSUME IInv, CInv, NEW g \in Gestures, ApproveAll(g) PROVE CInv'
<1> DEFINE what == [Decision("batch", previews[1], "APPROVE") EXCEPT !.at = 1]
<1>1. /\ Gesture(g, what) /\ Sends(g, "batch", previews[1], "APPROVE")
      /\ UNCHANGED <<previews, mount, history>> /\ previews # <<>>
  BY DEF ApproveAll, stores, pageVars
<1>2. what.kind = "batch" /\ what.at = 1 /\ what.item = previews[1]
  BY DEF Decision, Idle
<1> HIDE DEF what
<1>3. doing'[g] = what /\ leg'[g] = "batch"
  BY <1>1, Started
<1>4. \A h \in Gestures \ {g} : doing'[h] = doing[h] /\ leg'[h] = leg[h]
  BY <1>1, OtherHandlers DEF Gesture, IInv, Shape
<1>5. Len(previews) \in Nat /\ DOMAIN previews = 1..Len(previews) /\ 1 \in 1..Len(previews)
  BY <1>1 DEF CInv
<1>6. ASSUME NEW p \in Previews PROVE p = previews[1] \/ p \in Ahead(g)'
  <2>1. PICK i \in 1..Len(previews) : previews[i] = p
    BY <1>5 DEF CInv, ToSet
  <2>2. i = 1 \/ i > 1
    OBVIOUS
  <2> QED
    BY <1>1, <1>2, <1>3, <1>5, <2>1, <2>2 DEF Ahead
<1>7. Covers(g)'
  BY <1>1, <1>2, <1>3, <1>5, <1>6 DEF Covers
<1> QED
  BY <1>1, <1>4, <1>7, CoversStep DEF Listing

\* What a page shows as decided stays so while it is there.
LEMMA StaysDecided ==
    ASSUME IInv, NEW g \in Gestures, Shows(g), leg[g] \in Submits
    PROVE  /\ \A p \in Previews : history[p] # None => history'[p] # None
           /\ Present(g) /\ doing[g].item \in Previews => history'[doing[g].item] # None
<1>1. doing[g].decision # None
  BY NamesAssumption DEF IInv, Agrees
<1>2. \A p \in Previews : p \in DOMAIN history
  BY DEF IInv, Shape, Items
<1> QED
  BY <1>1, <1>2 DEF Shows

LEMMA CoversBatch == ASSUME IInv, CInv, NEW g \in Gestures, NEW o, BatchReturns(g, o) PROVE CInv'
<1> DEFINE at == doing[g].at
           next == at + 1
<1>1. /\ leg[g] = "batch" /\ leg[g] \in Submits /\ Shows(g) /\ UNCHANGED <<previews, mount>>
      /\ \/ /\ next <= Len(previews)
            /\ doing' = [doing EXCEPT ![g].at = next, ![g].item = previews[next]]
            /\ Sends(g, "batch", previews[next], "APPROVE")
         \/ /\ ~ (next <= Len(previews))
            /\ Ends(g) /\ UNCHANGED doing
  BY DEF BatchReturns, Submits
<1>2. /\ \A p \in Previews : history[p] # None => history'[p] # None
      /\ Present(g) /\ doing[g].item \in Previews => history'[doing[g].item] # None
  BY <1>1, StaysDecided
<1>3. DOMAIN doing = Gestures /\ DOMAIN doing[g] = Fields
  BY DEF IInv, Shape
<1>4. \A h \in Gestures \ {g} : doing'[h] = doing[h] /\ leg'[h] = leg[h]
  BY <1>1, <1>3, OtherHandlers
<1>5. doing'[g].page = doing[g].page /\ doing[g].kind = "batch" /\ leg'[g] \in {"batch", "done"}
  BY <1>1, <1>3, Ended, Sent DEF Fields, IInv, Agrees, Submits
<1>6. Covers(g)'
  <2> SUFFICES ASSUME Present(g)
               PROVE  Covers(g)'
    BY <1>1, <1>5 DEF Covers, Present
  <2>1. /\ at \in 1 .. Len(previews) /\ Len(previews) \in Nat
        /\ DOMAIN previews = 1..Len(previews)
        /\ \A p \in Previews : history[p] # None \/ p = doing[g].item \/ p \in Ahead(g)
    BY <1>1, <1>5 DEF CInv, Covers
  <2>2. \A p \in Previews : history'[p] # None \/ p \in Ahead(g)
    BY <1>2, <2>1
  <2>3. CASE next <= Len(previews)
    <3>1. doing'[g].at = next /\ doing'[g].item = previews[next]
      BY <1>1, <1>3, <2>3 DEF Fields
    <3>2. leg'[g] = "batch"
      BY <1>1, <2>3, Sent
    <3>3. ASSUME NEW p \in Previews, p \in Ahead(g) PROVE p = previews[next] \/ p \in Ahead(g)'
      <4>1. PICK i \in 1..Len(previews) : i > at /\ previews[i] = p
        BY <2>1, <3>3 DEF Ahead
      <4>2. i = next \/ i > next
        BY <2>1, <4>1
      <4> QED
        BY <1>1, <2>1, <3>1, <4>1, <4>2 DEF Ahead
    <3>4. next \in 1..Len(previews')
      BY <1>1, <2>1, <2>3
    <3> QED
      BY <2>2, <3>1, <3>2, <3>3, <3>4 DEF Covers
  <2>4. CASE ~ (next <= Len(previews))
    <3>1. Ahead(g) = {}
      BY <2>1, <2>4 DEF Ahead
    <3>2. leg'[g] = "done"
      BY <1>1, <2>4, Ended
    <3> QED
      BY <2>2, <3>1, <3>2 DEF Covers
  <2> QED
    BY <2>3, <2>4
<1> QED
  BY <1>1, <1>2, <1>4, <1>6, CoversStep DEF Listing

LEMMA CoversDecision ==
    ASSUME IInv, CInv, NEW g \in Gestures, NEW o, DecideReturns(g, o) \/ SealReturns(g, o)
    PROVE  CInv'
<1>1. /\ leg[g] \in {"decide", "seal"} /\ leg[g] \in Submits /\ Shows(g) /\ Ends(g)
      /\ UNCHANGED <<doing, mount, previews>>
  BY DEF DecideReturns, SealReturns, Submits
<1>2. doing'[g].kind # "batch"
  BY <1>1 DEF IInv, Agrees
<1>3. \A h \in Gestures \ {g} : doing'[h] = doing[h] /\ leg'[h] = leg[h]
  BY <1>1, OtherHandlers
<1> QED
  BY <1>1, <1>2, <1>3, StaysDecided, NoBatch, CoversStep DEF Listing

LEMMA CoversElsewhere ==
    ASSUME IInv, CInv, NEW g \in Gestures, NEW o,
           SaveReturns(g, o) \/ RunReturns(g, o) \/ ClearReturns(g, o)
             \/ EmitReturns(g, o) \/ ExecuteReturns(g, o),
           UNCHANGED pageVars
    PROVE  CInv'
<1>1. /\ leg[g] \in {"save", "run", "clear", "emit", "execute"}
      /\ UNCHANGED <<mount, history, doing>>
      /\ Ends(g) \/ \E l, item, d : Sends(g, l, item, d)
  BY DEF SaveReturns, RunReturns, ClearReturns, EmitReturns, ExecuteReturns, Created,
         Synthesized, pageVars
<1>2. Listing
  BY DEF Listing, SaveReturns, RunReturns, ClearReturns, EmitReturns, ExecuteReturns, Created,
         Synthesized, stores
<1>3. doing'[g].kind # "batch"
  BY <1>1 DEF IInv, Agrees, Creates
<1>4. \A h \in Gestures \ {g} : doing'[h] = doing[h] /\ leg'[h] = leg[h]
  BY <1>1, OtherHandlers
<1> QED
  BY <1>1, <1>2, <1>3, <1>4, NoBatch, CoversStep

THEOREM StepCInv == IInv /\ CInv /\ [Next]_vars => CInv'
<1> SUFFICES ASSUME IInv, CInv, [Next]_vars PROVE CInv'
  OBVIOUS
<1>1. ASSUME NEW g \in Gestures, Start(g) PROVE CInv'
  <2>1. ASSUME NEW p, NEW d \in Decisions, NEW kind \in {"decide", "seal"},
               Gesture(g, Decision(kind, p, d)), Sends(g, kind, p, d),
               UNCHANGED <<stores, mount, history>>
        PROVE  CInv'
    <3> DEFINE what == Decision(kind, p, d)
    <3>1. what.kind # "batch"
      BY DEF Decision, Idle
    <3> HIDE DEF what
    <3> QED
      BY <2>1, <3>1, CoversClick DEF stores, what
  <2>2. ASSUME NEW p, NEW d \in Decisions, Decide(g, p, d) \/ Seal(g, p, d) PROVE CInv'
    BY <2>1, <2>2 DEF Decide, Seal
  <2>3. ASSUME NEW kind \in {"create", "cycle", "execute", "emit", "advance", "runall", "attest"},
               NEW item,
               \/ Gesture(g, [Idle EXCEPT !.kind = kind, !.item = item])
               \/ Gesture(g, [Idle EXCEPT !.kind = kind]),
               Ends(g) \/ \E l, i, d : Sends(g, l, i, d), UNCHANGED <<previews, pageVars>>
        PROVE  CInv'
    <3>1. PICK what \in {[Idle EXCEPT !.kind = kind], [Idle EXCEPT !.kind = kind, !.item = item]} :
              Gesture(g, what)
      BY <2>3
    <3>2. what.kind = kind
      BY DEF Idle
    <3> QED
      BY <2>3, <3>1, <3>2, CoversClick DEF pageVars
  <2>4. ASSUME NEW d, Create(g, "create", d) \/ Create(g, "cycle", d) \/ Execute(g, d),
               UNCHANGED pageVars
        PROVE  CInv'
    BY <2>3, <2>4 DEF Create, Execute, stores
  <2>5. ASSUME NEW r, NEW s, Advance(g, r, s), UNCHANGED pageVars PROVE CInv'
    BY <2>3, <2>5 DEF Advance
  <2>6. ASSUME RunAll(g) \/ Attest(g) \/ Emit(g), UNCHANGED pageVars PROVE CInv'
    BY <2>3, <2>6 DEF RunAll, Attest, Emit, stores
  <2> QED
    BY <1>1, <2>2, <2>4, <2>5, <2>6, CoversApproveAll DEF Start
<1>2. ASSUME NEW g \in Gestures, NEW o, Settle(g, o) PROVE CInv'
  BY <1>2, CoversDecision, CoversBatch, CoversElsewhere DEF Settle
<1>3. CASE UNCHANGED <<doing, leg, mount, history, previews>>
  BY <1>3 DEF CInv, Covers, Present, Ahead
<1>4. CASE Backend /\ UNCHANGED pageVars
  <2>1. UNCHANGED <<doing, leg, previews>>
    BY <1>4 DEF Backend, SaveDirective, ExecuteDirective, DecideApproval, DecideDevelopment,
                AdmitTelemetry, Decline, Answers, stores
  <2> QED
    BY <1>3, <1>4, <2>1 DEF pageVars
<1>5. CASE Reenter
  <2>1. UNCHANGED <<doing, leg, previews>> /\ mount' = mount + 1
    BY <1>5 DEF Reenter, clientVars, net, stores
  <2>2. \A g \in Gestures : ~ Present(g)'
    BY <2>1 DEF Present, IInv, Shape
  <2> QED
    BY <2>1, <2>2 DEF CInv, Covers
<1>6. CASE UNCHANGED vars
  BY <1>3, <1>6 DEF vars, clientVars, pageVars, net, stores
<1> QED
  BY <1>1, <1>2, <1>4, <1>5, <1>6 DEF Next

\* handleApproveAll: approving all leaves no preview out that was listed when the
\* console started, though a cycle may add to the list that is walked.
THEOREM NothingLeftOut == Spec => []BatchCovers
<1>1. Init => CInv
  BY ListedAtFirst DEF Init, ClientInit, PageInit, Idle, CInv, Covers
<1>2. IInv /\ CInv => BatchCovers
  BY DEF CInv, Covers, BatchCovers
<1> QED
  BY <1>1, <1>2, StepCInv, Invariance, PTL DEF Spec

-----------------------------------------------------------------------------
(* The rows of the task list                                               *)

TaskIds == {StockTask(k) : k \in Steps}
             \cup {RunTask(g, k) : g \in Gestures, k \in Steps}
             \cup {PlanTask(d, k) : d \in Directives, k \in Steps}
             \cup {FallbackTask(d, k) : d \in Directives, k \in Steps}
Statuses == {"pending", "granted", "in_progress", "completed"}
Rows == [task : TaskIds, directive : Directives, status : Statuses, version : Nat]

Single(rows) == \A i, j \in DOMAIN rows : rows[i].task = rows[j].task => i = j

\* The same rows but for status and version.
SameTasks(new, old) ==
    /\ new \in Seq(Rows) /\ DOMAIN new = DOMAIN old /\ Len(new) = Len(old)
    /\ \A i \in DOMAIN old : new[i].task = old[i].task /\ new[i].directive = old[i].directive

LEMMA PositionIs ==
    ASSUME NEW rows \in Seq(Rows), NEW task
    PROVE  /\ Position(rows, task) \in 0 .. Len(rows)
           /\ Position(rows, task) > 0 => rows[Position(rows, task)].task = task
           /\ ~ (Position(rows, task) > 0) => \A i \in DOMAIN rows : rows[i].task # task
<1> DEFINE found == {i \in 1 .. Len(rows) : rows[i].task = task}
<1>1. Position(rows, task) = IF found # {} THEN Min(found) ELSE 0
  BY DEF Position, SelectInSeq
<1>2. Len(rows) \in Nat /\ DOMAIN rows = 1 .. Len(rows) /\ found \subseteq Nat
  OBVIOUS
<1>3. CASE found # {}
  <2>1. \E m \in found : \A k \in found : m <= k
    <3> HIDE DEF found
    <3> QED
      BY <1>2, <1>3, LeastFailure
  <2>2. Min(found) \in found
    BY <2>1 DEF Min
  <2> QED
    BY <1>1, <1>2, <1>3, <2>2
<1>4. CASE found = {}
  BY <1>1, <1>2, <1>4
<1> QED
  BY <1>3, <1>4

LEMMA MovedIs ==
    ASSUME NEW rows \in Seq(Rows), NEW task, NEW status \in Statuses
    PROVE  SameTasks(Moved(rows, task, status), rows)
<1> DEFINE p == Position(rows, task)
           new == Moved(rows, task, status)
<1>1. DOMAIN new = DOMAIN rows
  BY DEF Moved
<1>2. DOMAIN rows = 1 .. Len(rows) /\ Len(rows) \in Nat
  OBVIOUS
<1>3. \A i \in DOMAIN rows : rows[i] \in Rows
  BY <1>2
<1>4. ASSUME NEW i \in DOMAIN rows
      PROVE  new[i] \in Rows /\ new[i].task = rows[i].task /\ new[i].directive = rows[i].directive
  <2>1. new[i] = IF i = p THEN [rows[i] EXCEPT !.status = status, !.version = rows[i].version + 1]
                          ELSE rows[i]
    BY <1>3 DEF Moved, Rows
  <2> DEFINE row == rows[i]
  <2>2. row \in Rows /\ row.version + 1 \in Nat
    BY <1>3 DEF Rows
  <2> HIDE DEF new, p, row
  <2>3. ASSUME NEW v \in Nat
        PROVE  LET r == [row EXCEPT !.status = status, !.version = v]
               IN r \in Rows /\ r.task = row.task /\ r.directive = row.directive
    BY <2>2 DEF Rows
  <2>4. i # p => new[i] = row
    BY <2>1 DEF row
  <2>5. i = p => new[i] = [row EXCEPT !.status = status, !.version = row.version + 1]
    BY <2>1 DEF row
  <2>6. new[i] \in Rows /\ new[i].task = row.task /\ new[i].directive = row.directive
    BY <2>2, <2>3, <2>4, <2>5
  <2> QED
    BY <2>6 DEF row
<1> HIDE DEF new
<1>5. new \in [1 .. Len(rows) -> Rows]
  <2>1. new = [i \in 1 .. Len(rows) |-> new[i]]
    BY <1>1, <1>2 DEF new, Moved
  <2> QED
    BY <1>2, <1>4, <2>1
<1>6. new \in Seq(Rows) /\ Len(new) = Len(rows)
  BY <1>2, <1>5
<1> QED
  BY <1>1, <1>4, <1>6 DEF SameTasks, new

LEMMA SameSame ==
    ASSUME NEW a, NEW b, NEW c, SameTasks(a, b), SameTasks(b, c) PROVE SameTasks(a, c)
  BY DEF SameTasks

LEMMA SameSingle ==
    ASSUME NEW new, NEW old, SameTasks(new, old), Single(old) PROVE Single(new)
  BY DEF SameTasks, Single

LEMMA UpsertIs ==
    ASSUME NEW rows \in Seq(Rows), NEW row \in Rows
    PROVE  /\ Upsert(rows, row) \in Seq(Rows)
           /\ \A r \in ToSet(Upsert(rows, row)) : r = row \/ r \in ToSet(rows)
           /\ Single(rows) => Single(Upsert(rows, row))
<1> DEFINE p == Position(rows, row.task)
<1>0. DOMAIN rows = 1 .. Len(rows) /\ Len(rows) \in Nat
  OBVIOUS
<1>1. CASE p > 0
  <2> DEFINE new == [rows EXCEPT ![p] = row]
  <2>1. p \in DOMAIN rows /\ rows[p].task = row.task
    BY <1>0, <1>1, PositionIs
  <2>2. Upsert(rows, row) = new
    BY <1>1 DEF Upsert
  <2>3. /\ new \in Seq(Rows) /\ DOMAIN new = DOMAIN rows /\ new[p] = row
        /\ \A i \in DOMAIN rows \ {p} : new[i] = rows[i]
    BY <2>1
  <2> HIDE DEF new, p
  <2> QED
    BY <2>1, <2>2, <2>3 DEF ToSet, Single
<1>2. CASE ~ (p > 0)
  <2> DEFINE new == <<row>> \o rows
  <2>1. \A i \in DOMAIN rows : rows[i].task # row.task
    BY <1>2, PositionIs
  <2>2. Upsert(rows, row) = new
    BY <1>2 DEF Upsert
  <2>3. /\ new \in Seq(Rows) /\ DOMAIN new = 1 .. Len(rows) + 1 /\ new[1] = row
        /\ \A i \in 2 .. Len(rows) + 1 : i - 1 \in DOMAIN rows /\ new[i] = rows[i - 1]
    BY <1>0
  <2> HIDE DEF new, p
  <2>4. \A r \in ToSet(new) : r = row \/ r \in ToSet(rows)
    <3> SUFFICES ASSUME NEW i \in 1 .. Len(rows) + 1, i # 1 PROVE new[i] \in ToSet(rows)
      BY <2>3 DEF ToSet
    <3>1. i \in 2 .. Len(rows) + 1
      BY <1>0
    <3> QED
      BY <2>3, <3>1 DEF ToSet
  <2>5. ASSUME Single(rows), NEW i \in 1 .. Len(rows) + 1, NEW j \in 1 .. Len(rows) + 1,
               new[i].task = new[j].task
        PROVE  i = j
    <3>1. /\ i # 1 => i - 1 \in DOMAIN rows /\ new[i] = rows[i - 1]
          /\ j # 1 => j - 1 \in DOMAIN rows /\ new[j] = rows[j - 1]
      BY <1>0, <2>3
    <3>2. CASE i = 1 /\ j = 1
      BY <3>2
    <3>3. CASE i = 1 /\ j # 1
      BY <2>1, <2>3, <2>5, <3>1, <3>3
    <3>4. CASE i # 1 /\ j = 1
      BY <2>1, <2>3, <2>5, <3>1, <3>4
    <3>5. CASE i # 1 /\ j # 1
      <4>1. i - 1 = j - 1
        BY <2>5, <3>1, <3>5 DEF Single
      <4> QED
        BY <4>1
    <3> QED
      BY <3>2, <3>3, <3>4, <3>5
  <2> QED
    BY <2>2, <2>3, <2>4, <2>5 DEF Single
<1> QED
  BY <1>1, <1>2

\* The rows of an answer take their places one after the other.
LEMMA InOrderOfSteps ==
    ASSUME NEW old, NEW rows, DOMAIN rows = Steps
    PROVE  FoldLeft(Upsert, old, rows) = Upsert(Upsert(old, rows[1]), rows[2])
<1> DEFINE Folds(f) == f = [s \in SUBSET Steps |-> IF s = {} THEN old
                                    ELSE Upsert(f[s \ {Max(s)}], rows[Max(s)])]
           it == CHOOSE f : Folds(f)
<1>1. FoldLeft(Upsert, old, rows) = it[Steps]
  BY Zenon DEF FoldLeft, MapThenFoldSet
<1>2. \E f : Folds(f)
  <2> DEFINE f == [s \in SUBSET Steps |->
                     IF s = {} THEN old
                     ELSE IF s = {1} THEN Upsert(old, rows[1])
                     ELSE IF s = {2} THEN Upsert(old, rows[2])
                     ELSE Upsert(Upsert(old, rows[1]), rows[2])]
  <2>1. ASSUME NEW s \in SUBSET Steps PROVE s = {} \/ s = {1} \/ s = {2} \/ s = {1, 2}
    <3>1. \A i \in s : i = 1 \/ i = 2
      BY DEF Steps
    <3> QED
      BY <3>1
  <2>2. Max({1}) = 1 /\ Max({2}) = 2 /\ Max({1, 2}) = 2
    BY DEF Max
  <2>3. {1, 2} \ {2} = {1} /\ {1} \ {1} = {} /\ {2} \ {2} = {} /\ {1} # {2} /\ {1, 2} # {1}
        /\ {1, 2} # {2} /\ {} \in SUBSET Steps /\ {1} \in SUBSET Steps
    BY DEF Steps
  <2>4. \A s \in SUBSET Steps :
          f[s] = IF s = {} THEN old ELSE Upsert(f[s \ {Max(s)}], rows[Max(s)])
    <3> SUFFICES ASSUME NEW s \in SUBSET Steps
                 PROVE  f[s] = IF s = {} THEN old ELSE Upsert(f[s \ {Max(s)}], rows[Max(s)])
      OBVIOUS
    <3>1. f[{}] = old /\ f[{1}] = Upsert(old, rows[1])
      BY <2>3
    <3>2. s = {} => f[s] = old
      BY <3>1
    <3>3. s = {1} => f[s] = Upsert(f[s \ {Max(s)}], rows[Max(s)])
      BY <2>2, <2>3, <3>1
    <3>4. s = {2} => f[s] = Upsert(f[s \ {Max(s)}], rows[Max(s)])
      BY <2>2, <2>3, <3>1
    <3>5. s = {1, 2} => f[s] = Upsert(f[s \ {Max(s)}], rows[Max(s)])
      BY <2>2, <2>3, <3>1
    <3> HIDE DEF f
    <3> QED
      BY <2>1, <3>2, <3>3, <3>4, <3>5
  <2>5. Folds(f)
    BY <2>4
  <2> QED
    BY <2>5
<1>3. Folds(it)
  BY <1>2
<1> HIDE DEF it
<1>4. Max({1}) = 1 /\ Max({1, 2}) = 2
  BY DEF Max
<1>5. Steps = {1, 2} /\ {1} \in SUBSET Steps /\ {} \in SUBSET Steps /\ {1, 2} \ {2} = {1}
  BY DEF Steps
<1>6. it[{}] = old
  BY <1>3, <1>5
<1>7. it[{1}] = Upsert(it[{}], rows[1])
  BY <1>3, <1>4, <1>5
<1>8. it[Steps] = Upsert(it[{1}], rows[2])
  BY <1>3, <1>4, <1>5
<1> QED
  BY <1>1, <1>6, <1>7, <1>8

-----------------------------------------------------------------------------
(* Runs                                                                    *)

\* A step of a handler: it goes from the request it was at to the next one, and
\* asks for a run at most once.
Onward(g) ==
    /\ \/ Ends(g)
       \/ \E l, item, d : /\ Sends(g, l, item, d)
                          /\ l = "save" => leg[g] = "idle"
                          /\ l \in {"run", "execute"} => leg[g] \in {"idle", "save"}
                          /\ l # "idle"
    /\ \A h \in Gestures \ {g} : doing'[h] = doing[h] /\ leg'[h] = leg[h]
    /\ UNCHANGED backend

LEMMA ClickOnward == ASSUME IInv, NEW g \in Gestures, Start(g) PROVE Onward(g)
<1>1. /\ \E what : Gesture(g, what)
      /\ UNCHANGED backend
      /\ \/ Ends(g)
         \/ \E l \in {"decide", "batch", "seal", "save", "execute", "emit"} : \E item, d :
               Sends(g, l, item, d)
  BY DEF Start, Decide, ApproveAll, Seal, Create, Execute, Advance, RunAll, Attest, Emit
<1>2. leg[g] = "idle" /\ \A h \in Gestures \ {g} : doing'[h] = doing[h] /\ leg'[h] = leg[h]
  BY <1>1, OtherHandlers DEF Gesture, IInv, Shape
<1> QED
  BY <1>1, <1>2 DEF Onward

LEMMA AnswerOnward == ASSUME IInv, NEW g \in Gestures, NEW o, Settle(g, o) PROVE Onward(g)
<1>1. CASE DecideReturns(g, o) \/ SealReturns(g, o)
  BY <1>1, OtherHandlers DEF DecideReturns, SealReturns, Onward
<1>2. CASE ~ (DecideReturns(g, o) \/ SealReturns(g, o))
  <2>1. \A h \in Gestures \ {g} : doing'[h] = doing[h] /\ leg'[h] = leg[h]
    BY <1>2, AnswerOfOther DEF Settle
  <2>2. /\ UNCHANGED backend
        /\ \/ Ends(g)
           \/ \E l \in {"batch", "clear", "emit"} : \E item, d : Sends(g, l, item, d)
           \/ leg[g] = "save" /\ \E item, d : Sends(g, "run", item, d)
    BY <1>2 DEF Settle, BatchReturns, SaveReturns, RunReturns, ClearReturns, EmitReturns,
                ExecuteReturns, Synthesized, Created
  <2> QED
    BY <2>1, <2>2 DEF Onward
<1> QED
  BY <1>1, <1>2

\* The requests for a run of g that the backend has not handled.
Execs(g) == {r \in wire : r.by = g /\ r.leg \in {"run", "execute"}}

Asked(g) ==
    /\ runs[g] \in {0, 1}
    /\ leg[g] \in {"idle", "save"} => Execs(g) = {} /\ runs[g] = 0
    /\ Execs(g) # {} => runs[g] = 0
    /\ \A q, r \in Execs(g) : q = r
    /\ fetch[g] = "reading" /\ leg[g] \in {"run", "execute"} => runs[g] = 1

XInv == DOMAIN runs = Gestures /\ \A g \in Gestures : Asked(g)

LEMMA AskedOnward == ASSUME IInv, XInv, NEW g \in Gestures, Onward(g) PROVE XInv'
<1>1. UNCHANGED runs /\ \A h \in Gestures \ {g} : leg'[h] = leg[h]
  BY DEF Onward, backend
<1>2. /\ leg'[g] # "idle" /\ fetch'[g] # "reading"
      /\ \A h \in Gestures \ {g} : fetch'[h] = fetch[h] /\ Execs(h)' = Execs(h)
  <2>1. CASE Ends(g)
    BY <2>1 DEF Ends, Execs, IInv, Shape
  <2>2. ASSUME NEW l, NEW item, NEW d, Sends(g, l, item, d), l # "idle"
        PROVE  /\ leg'[g] # "idle" /\ fetch'[g] # "reading"
               /\ \A h \in Gestures \ {g} : fetch'[h] = fetch[h] /\ Execs(h)' = Execs(h)
    BY <2>2 DEF Sends, Execs, IInv, Shape
  <2> QED
    BY <2>1, <2>2 DEF Onward
<1>3. ASSUME NEW h \in Gestures, h # g PROVE Asked(h)'
  BY <1>1, <1>2, <1>3 DEF XInv, Asked
<1>4. CASE Ends(g)
  <2>1. leg'[g] = "done" /\ Execs(g)' = Execs(g)
    BY <1>4, Ended DEF Ends, Execs
  <2>2. Asked(g)'
    BY <1>1, <1>2, <2>1 DEF XInv, Asked
  <2> QED
    BY <1>1, <1>3, <2>2 DEF XInv
<1>5. ASSUME NEW l, NEW item, NEW d, Sends(g, l, item, d),
             l = "save" => leg[g] = "idle",
             l \in {"run", "execute"} => leg[g] \in {"idle", "save"}
      PROVE  XInv'
  <2> DEFINE r == [by |-> g, n |-> sent[g] + 1, leg |-> l, item |-> item, decision |-> d]
  <2>1. leg'[g] = l /\ wire' = wire \cup {r}
    BY <1>5 DEF Sends, IInv, Shape
  <2>2. r.by = g /\ r.leg = l
    OBVIOUS
  <2> HIDE DEF r
  <2>3. Execs(g)' = IF l \in {"run", "execute"} THEN Execs(g) \cup {r} ELSE Execs(g)
    BY <2>1, <2>2 DEF Execs
  <2>4. Asked(g)'
    BY <1>1, <1>2, <1>5, <2>1, <2>3 DEF XInv, Asked
  <2> QED
    BY <1>1, <1>3, <2>4 DEF XInv
<1> QED
  BY <1>4, <1>5 DEF Onward

LEMMA AskedHandled ==
    ASSUME IInv, XInv, NEW r \in wire, NEW s \in {"reading", "refused"}, Answers(r, s),
           \/ /\ r.leg \in {"run", "execute"} /\ runs' = [runs EXCEPT ![r.by] = @ + 1]
              /\ s = "reading"
           \/ UNCHANGED runs /\ (s = "reading" => r.leg \notin {"run", "execute"})
    PROVE  XInv'
<1> DEFINE g == r.by
<1>1. g \in Gestures /\ UNCHANGED leg /\ wire' = wire \ {r}
  BY DEF IInv, RequestsFit, Answers
<1>2. \A h \in Gestures \ {g} : fetch'[h] = fetch[h] /\ Execs(h)' = Execs(h)
  BY <1>1 DEF Answers, Heard, Execs, IInv, Shape
<1>3. Execs(g)' = Execs(g) \ {r}
  BY <1>1 DEF Execs
<1>4. fetch'[g] = "reading" /\ leg[g] \in {"run", "execute"} =>
          fetch[g] = "reading" \/ (s = "reading" /\ r.leg = leg[g])
  BY <1>1 DEF Answers, Heard, IInv, Shape, RequestsFit
<1>5. DOMAIN runs = Gestures /\ Asked(g)
  BY <1>1 DEF XInv
<1>6. CASE /\ r.leg \in {"run", "execute"} /\ runs' = [runs EXCEPT ![g] = @ + 1]
           /\ s = "reading"
  <2>1. r \in Execs(g)
    BY <1>6 DEF Execs
  <2>2. runs[g] = 0 /\ Execs(g)' = {} /\ leg[g] \notin {"idle", "save"}
    BY <1>3, <1>5, <2>1 DEF Asked
  <2>3. DOMAIN runs' = Gestures /\ runs'[g] = 1 /\ \A h \in Gestures \ {g} : runs'[h] = runs[h]
    BY <1>1, <1>5, <1>6, <2>2
  <2> HIDE DEF g
  <2>4. Asked(g)'
    BY <1>1, <2>2, <2>3 DEF Asked
  <2>5. ASSUME NEW h \in Gestures, h # g PROVE Asked(h)'
    BY <1>1, <1>2, <2>3, <2>5 DEF XInv, Asked
  <2> QED
    BY <2>3, <2>4, <2>5 DEF XInv
<1>7. CASE UNCHANGED runs /\ (s = "reading" => r.leg \notin {"run", "execute"})
  <2> HIDE DEF g
  <2>1. Asked(g)'
    BY <1>1, <1>3, <1>4, <1>5, <1>7 DEF Asked
  <2>2. ASSUME NEW h \in Gestures, h # g PROVE Asked(h)'
    BY <1>1, <1>2, <1>7, <2>2 DEF XInv, Asked
  <2> QED
    BY <1>5, <1>7, <2>1, <2>2 DEF XInv
<1> QED
  BY <1>6, <1>7

LEMMA StepXInv == IInv /\ XInv /\ [Next]_vars => XInv'
<1> SUFFICES ASSUME IInv, XInv, [Next]_vars PROVE XInv'
  OBVIOUS
<1>1. CASE UNCHANGED <<leg, fetch, wire, runs>>
  BY <1>1 DEF XInv, Asked, Execs
<1>2. CASE Backend
  <2>1. PICK r \in wire : \/ SaveDirective(r) \/ ExecuteDirective(r) \/ DecideApproval(r)
                          \/ DecideDevelopment(r) \/ AdmitTelemetry(r) \/ Decline(r)
    BY <1>2 DEF Backend
  <2>2. CASE ExecuteDirective(r)
    BY <2>2, AskedHandled DEF ExecuteDirective
  <2>3. CASE ~ ExecuteDirective(r)
    <3>1. PICK s \in {"reading", "refused"} :
            Answers(r, s) /\ UNCHANGED runs /\ (s = "reading" => r.leg \notin {"run", "execute"})
      BY <2>1, <2>3 DEF SaveDirective, DecideApproval, DecideDevelopment, AdmitTelemetry, Decline,
                        backend
    <3> QED
      BY <3>1, AskedHandled
  <2> QED
    BY <2>2, <2>3
<1>3. CASE Reenter \/ UNCHANGED vars
  BY <1>1, <1>3 DEF Reenter, vars, clientVars, net, backend
<1> QED
  BY <1>2, <1>3, ClickOnward, AnswerOnward, AskedOnward DEF Next

-----------------------------------------------------------------------------
(* Directives and tasks                                                    *)

DirectiveRows == [id : Directives, by : Gestures \cup {None}]

Later(g) == leg[g] \notin {"idle", "save", "run", "execute"}

\* No id from the clock was used for two directives.
Distinct == \A g, h \in Gestures :
                Creates(g) /\ Creates(h) /\ g # h => doing[g].item # doing[h].item

\* A row belongs to a listed directive; one with an id of a plan was put there by
\* the creation of its directive, one with an id of the backend after its run.
Fits(task, directive) ==
    /\ directive \in Listed
    /\ \A d, k : task = PlanTask(d, k) =>
           \E h \in Gestures : Creates(h) /\ Later(h) /\ doing[h].item = d
    /\ \A h, k : task = RunTask(h, k) => h \in Gestures /\ runs[h] = 1 /\ Later(h)

Subject(g) ==
    /\ leg[g] \in {"save", "run", "execute"} => doing[g].item \in Directives
    /\ leg[g] = "execute" => doing[g].item \in Listed

TInv == /\ directives \in Seq(DirectiveRows) /\ DOMAIN saved = Directives
        /\ tasks \in Seq(Rows)
        /\ \A g \in Gestures : Subject(g)
        /\ \A r \in ToSet(tasks) : Fits(r.task, r.directive)
        /\ Distinct => Single(tasks)

\* What is never taken back.
Persists ==
    /\ Listed \subseteq Listed'
    /\ \A g \in Gestures : /\ Later(g) => Later(g)'
                           /\ Creates(g) => doing'[g] = doing[g]
                           /\ runs[g] = 1 => runs'[g] = 1

LEMMA FitsStays ==
    ASSUME Persists, NEW task, NEW directive, Fits(task, directive) PROVE Fits(task, directive)'
<1>1. directive \in Listed'
  BY DEF Persists, Fits
<1>2. ASSUME NEW d, NEW k, task = PlanTask(d, k)
      PROVE  \E h \in Gestures : Creates(h)' /\ Later(h)' /\ doing'[h].item = d
  <2>1. PICK h \in Gestures : Creates(h) /\ Later(h) /\ doing[h].item = d
    BY <1>2 DEF Fits
  <2>2. doing'[h] = doing[h] /\ Later(h)'
    BY <2>1 DEF Persists
  <2> QED
    BY <2>1, <2>2 DEF Creates
<1>3. ASSUME NEW h, NEW k, task = RunTask(h, k)
      PROVE  h \in Gestures /\ runs'[h] = 1 /\ Later(h)'
  BY <1>3 DEF Fits, Persists
<1> QED
  BY <1>1, <1>2, <1>3 DEF Fits, PlanTask, RunTask

LEMMA DistinctBefore == ASSUME Persists, Distinct' PROVE Distinct
<1> SUFFICES ASSUME NEW g \in Gestures, NEW h \in Gestures, Creates(g), Creates(h), g # h
             PROVE  doing[g].item # doing[h].item
  BY DEF Distinct
<1>1. doing'[g] = doing[g] /\ doing'[h] = doing[h]
  BY DEF Persists
<1>2. Creates(g)' /\ Creates(h)'
  BY <1>1 DEF Creates
<1> QED
  BY <1>1, <1>2 DEF Distinct

LEMMA LaterOnward ==
    ASSUME IInv, NEW g \in Gestures, Onward(g) PROVE \A h \in Gestures : Later(h) => Later(h)'
<1>1. \A h \in Gestures \ {g} : leg'[h] = leg[h]
  BY DEF Onward
<1>2. Later(g) => Later(g)'
  <2>1. CASE Ends(g)
    BY <2>1, Ended DEF Later
  <2>2. ASSUME NEW l, NEW item, NEW d, Sends(g, l, item, d), l # "idle",
               l = "save" => leg[g] = "idle",
               l \in {"run", "execute"} => leg[g] \in {"idle", "save"}
        PROVE  Later(g) => Later(g)'
    BY <2>2, Sent DEF Later
  <2> QED
    BY <2>1, <2>2 DEF Onward
<1> QED
  BY <1>1, <1>2 DEF Later

LEMMA ListedGrows ==
    ASSUME \/ UNCHANGED directives
           \/ directives \in Seq(DirectiveRows)
                /\ \E r \in DirectiveRows : directives' = <<r>> \o directives,
           \A d \in Directives : saved[d] # None => saved'[d] # None
    PROVE  Listed \subseteq Listed'
<1>1. ToSet(directives) \subseteq ToSet(directives')
  <2>1. CASE UNCHANGED directives
    BY <2>1
  <2>2. ASSUME directives \in Seq(DirectiveRows), NEW r \in DirectiveRows,
               directives' = <<r>> \o directives
        PROVE  ToSet(directives) \subseteq ToSet(directives')
    <3> HIDE DEF DirectiveRows
    <3>1. \A i \in DOMAIN directives :
             i + 1 \in DOMAIN directives' /\ directives'[i + 1] = directives[i]
      BY <2>2
    <3> QED
      BY <3>1 DEF ToSet
  <2> QED
    BY <2>1, <2>2
<1> QED
  BY <1>1 DEF Listed

LEMMA SubjectOfStarted ==
    ASSUME IInv, NEW g \in Gestures, Start(g)
    PROVE  ~ Creates(g) /\ UNCHANGED <<directives, backend>>
<1>1. doing[g].kind = "none"
  BY DEF Start, Decide, ApproveAll, Seal, Create, Execute, Advance, RunAll, Attest, Emit,
         Gesture, IInv, Agrees
<1> QED
  BY <1>1 DEF Creates, Start, Decide, ApproveAll, Seal, Create, Execute, Advance, RunAll, Attest,
              Emit, stores

LEMMA SubjectOfSettled ==
    ASSUME IInv, TInv, NEW g \in Gestures, NEW o, Settle(g, o)
    PROVE  /\ Creates(g) => doing'[g] = doing[g]
           /\ UNCHANGED backend
           /\ \/ UNCHANGED directives
              \/ \E r \in DirectiveRows : directives' = <<r>> \o directives
<1>1. Creates(g) => doing'[g] = doing[g]
  <2>1. CASE BatchReturns(g, o)
    BY <2>1 DEF BatchReturns, IInv, Agrees, Submits, Creates
  <2>2. CASE ~ BatchReturns(g, o)
    BY <2>2 DEF Settle, DecideReturns, SealReturns, SaveReturns, RunReturns, ClearReturns,
                EmitReturns, ExecuteReturns, Synthesized, Created
  <2> QED
    BY <2>1, <2>2
<1>2. ASSUME leg[g] \in {"save", "run"} PROVE [id |-> doing[g].item, by |-> g] \in DirectiveRows
  BY <1>2 DEF TInv, Subject, DirectiveRows
<1>3. /\ UNCHANGED backend
      /\ \/ UNCHANGED directives
         \/ leg[g] \in {"save", "run"} /\ directives' = <<[id |-> doing[g].item, by |-> g]>> \o directives
  BY DEF Settle, DecideReturns, SealReturns, BatchReturns, SaveReturns, RunReturns, ClearReturns,
         EmitReturns, ExecuteReturns, Synthesized, Created, stores
<1> QED
  BY <1>1, <1>2, <1>3

LEMMA PersistsNext == ASSUME IInv, XInv, XInv', TInv, [Next]_vars PROVE Persists
<1>1. CASE UNCHANGED <<doing, leg, runs, directives, saved>>
  BY <1>1 DEF Persists, Listed, Later
<1>2. ASSUME NEW g \in Gestures, Start(g) PROVE Persists
  <2>1. Onward(g)
    BY <1>2, ClickOnward
  <2>2. ~ Creates(g) /\ UNCHANGED <<directives, runs, saved>>
    BY <1>2, SubjectOfStarted DEF backend
  <2>3. \A h \in Gestures : Creates(h) => doing'[h] = doing[h]
    BY <2>1, <2>2 DEF Onward
  <2>4. Listed \subseteq Listed'
    BY <2>2, ListedGrows
  <2> QED
    BY <2>1, <2>2, <2>3, <2>4, LaterOnward DEF Persists
<1>3. ASSUME NEW g \in Gestures, NEW o, Settle(g, o) PROVE Persists
  <2>1. Onward(g)
    BY <1>3, AnswerOnward
  <2>2. /\ Creates(g) => doing'[g] = doing[g]
        /\ UNCHANGED <<runs, saved>>
        /\ \/ UNCHANGED directives
           \/ \E r \in DirectiveRows : directives' = <<r>> \o directives
    BY <1>3, SubjectOfSettled DEF backend
  <2>3. \A h \in Gestures : Creates(h) => doing'[h] = doing[h]
    BY <2>1, <2>2 DEF Onward
  <2>4. Listed \subseteq Listed'
    BY <2>2, ListedGrows DEF TInv
  <2> QED
    BY <2>1, <2>2, <2>3, <2>4, LaterOnward DEF Persists
<1>4. CASE Backend
  <2>1. PICK r \in wire : \/ SaveDirective(r) \/ ExecuteDirective(r) \/ DecideApproval(r)
                          \/ DecideDevelopment(r) \/ AdmitTelemetry(r) \/ Decline(r)
    BY <1>4 DEF Backend
  <2>2. UNCHANGED <<doing, leg, directives>> /\ r.by # None
    BY <2>1, NamesAssumption DEF SaveDirective, ExecuteDirective, DecideApproval,
       DecideDevelopment, AdmitTelemetry, Decline, Answers, stores, IInv, RequestsFit
  <2>3. UNCHANGED saved \/ saved' = [saved EXCEPT ![r.item] = r.by]
    BY <2>1 DEF SaveDirective, ExecuteDirective, DecideApproval, DecideDevelopment, AdmitTelemetry,
                Decline, backend
  <2>4. \A d \in Directives : saved[d] # None => saved'[d] # None
    BY <2>2, <2>3 DEF TInv
  <2>5. UNCHANGED runs \/ runs' = [runs EXCEPT ![r.by] = @ + 1]
    BY <2>1 DEF SaveDirective, ExecuteDirective, DecideApproval, DecideDevelopment, AdmitTelemetry,
                Decline, backend
  <2>6. ASSUME NEW g \in Gestures, runs[g] = 1 PROVE runs'[g] = 1
    BY <2>5, <2>6 DEF XInv, Asked
  <2>7. Listed \subseteq Listed'
    BY <2>2, <2>4, ListedGrows
  <2> QED
    BY <2>2, <2>6, <2>7 DEF Persists, Later
<1>5. CASE Reenter \/ UNCHANGED vars
  BY <1>1, <1>5 DEF Reenter, vars, clientVars, net, stores, backend
<1> QED
  BY <1>2, <1>3, <1>4, <1>5 DEF Next

\* A step that leaves rows behind which fit keeps the stores right.
LEMMA TasksStep ==
    ASSUME TInv, Persists, directives' \in Seq(DirectiveRows), DOMAIN saved' = Directives,
           tasks' \in Seq(Rows), \A g \in Gestures : Subject(g)',
           \A r \in ToSet(tasks') :
               \/ \E q \in ToSet(tasks) : r.task = q.task /\ r.directive = q.directive
               \/ Fits(r.task, r.directive)',
           Distinct' /\ Single(tasks) => Single(tasks')
    PROVE  TInv'
<1>1. ASSUME NEW r \in ToSet(tasks') PROVE Fits(r.task, r.directive)'
  BY FitsStays DEF TInv
<1>2. Distinct' => Single(tasks')
  BY DistinctBefore DEF TInv
<1> QED
  BY <1>1, <1>2 DEF TInv, Single

LEMMA SameTasksStep ==
    ASSUME TInv, Persists, directives' \in Seq(DirectiveRows), DOMAIN saved' = Directives,
           SameTasks(tasks', tasks), \A g \in Gestures : Subject(g)'
    PROVE  TInv'
<1>1. \A r \in ToSet(tasks') :
          \E q \in ToSet(tasks) : r.task = q.task /\ r.directive = q.directive
  BY DEF SameTasks, ToSet
<1> QED
  BY <1>1, SameSingle, TasksStep DEF SameTasks

LEMMA Unmoved == ASSUME TInv, UNCHANGED tasks PROVE SameTasks(tasks', tasks)
  BY DEF TInv, SameTasks

\* The subjects of the others stay.
LEMMA OtherSubjects ==
    ASSUME TInv, Persists, NEW g \in Gestures,
           \A h \in Gestures \ {g} : doing'[h] = doing[h] /\ leg'[h] = leg[h],
           Subject(g)'
    PROVE  \A h \in Gestures : Subject(h)'
  BY DEF TInv, Subject, Persists

LEMMA Forwards == Range(Forward) \subseteq Statuses /\ \A f \in DOMAIN Forward : Forward[f] \in Statuses
<1>1. DOMAIN Forward = {"pending", "granted", "in_progress"}
  BY DEF Forward
<1>2. Forward["pending"] = "granted" /\ Forward["granted"] = "in_progress"
      /\ Forward["in_progress"] = "completed"
  BY DEF Forward
<1>3. \A f \in DOMAIN Forward : Forward[f] \in Statuses
  BY <1>1, <1>2 DEF Statuses
<1> QED
  BY <1>3 DEF Range

LEMMA TasksClick == ASSUME IInv, TInv, Persists, NEW g \in Gestures, Start(g) PROVE TInv'
<1>1. UNCHANGED <<directives, saved>> /\ Onward(g)
  BY SubjectOfStarted, ClickOnward DEF backend
<1>2. Subject(g)'
  <2>1. ASSUME NEW kind \in {"create", "cycle"}, NEW d \in Ids, Create(g, kind, d) PROVE Subject(g)'
    <3> DEFINE what == [Idle EXCEPT !.kind = kind, !.item = d]
    <3>1. Gesture(g, what) /\ Sends(g, "save", d, None) /\ what.item = d
      BY <2>1 DEF Create, Idle
    <3>2. doing'[g].item = d /\ leg'[g] = "save"
      BY <3>1, Started
    <3> QED
      BY <3>2 DEF Subject, Directives
  <2>2. ASSUME NEW d \in Directives, Execute(g, d) PROVE Subject(g)'
    <3> DEFINE what == [Idle EXCEPT !.kind = "execute", !.item = d]
    <3>1. Gesture(g, what) /\ Sends(g, "execute", d, None) /\ what.item = d /\ d \in Listed
      BY <2>2 DEF Execute, Idle
    <3>2. doing'[g].item = d /\ leg'[g] = "execute"
      BY <3>1, Started
    <3> QED
      BY <3>1, <3>2 DEF Subject, Persists
  <2>3. ASSUME NEW what, Gesture(g, what),
               Ends(g) \/ \E l \in {"decide", "batch", "seal", "emit"} : \E i, d : Sends(g, l, i, d)
        PROVE  Subject(g)'
    <3>1. leg'[g] \in {"done", "decide", "batch", "seal", "emit"}
      BY <2>3, Started
    <3> QED
      BY <3>1 DEF Subject
  <2> QED
    BY <2>1, <2>2, <2>3 DEF Start, Decide, ApproveAll, Seal, Advance, RunAll, Attest, Emit
<1>3. SameTasks(tasks', tasks)
  <2>1. ASSUME NEW r \in ToSet(tasks), NEW s \in Range(Forward), Advance(g, r, s)
        PROVE  SameTasks(tasks', tasks)
    <3>1. s \in Statuses
      BY Forwards
    <3>2. tasks' = Moved(tasks, r.task, s)
      BY <2>1 DEF Advance
    <3> QED
      BY <3>1, <3>2, MovedIs DEF TInv
  <2>2. CASE RunAll(g)
    <3> DEFINE new == [i \in DOMAIN tasks |->
                          IF tasks[i].status \in DOMAIN Forward
                          THEN [tasks[i] EXCEPT !.status = Forward[@], !.version = @ + 1]
                          ELSE tasks[i]]
    <3>1. tasks' = new
      BY <2>2 DEF RunAll
    <3>2. DOMAIN tasks = 1 .. Len(tasks) /\ Len(tasks) \in Nat
          /\ \A i \in DOMAIN tasks : tasks[i] \in Rows
      BY DEF TInv
    <3>3. \A f \in DOMAIN Forward : Forward[f] \in Statuses
      BY Forwards
    <3>4. ASSUME NEW i \in DOMAIN tasks
          PROVE  /\ new[i] \in Rows /\ new[i].task = tasks[i].task
                 /\ new[i].directive = tasks[i].directive
      <4> DEFINE row == tasks[i]
      <4>1. row \in Rows /\ row.version + 1 \in Nat
        BY <3>2 DEF Rows
      <4>2. new[i] = IF row.status \in DOMAIN Forward
                     THEN [row EXCEPT !.status = Forward[row.status], !.version = row.version + 1]
                     ELSE row
        BY <4>1 DEF Rows
      <4> HIDE DEF new, row
      <4>3. ASSUME NEW v \in Nat, NEW f \in Statuses
            PROVE  LET q == [row EXCEPT !.status = f, !.version = v]
                   IN q \in Rows /\ q.task = row.task /\ q.directive = row.directive
        BY <4>1 DEF Rows
      <4>4. new[i] \in Rows /\ new[i].task = row.task /\ new[i].directive = row.directive
        BY <3>3, <4>1, <4>2, <4>3
      <4> QED
        BY <4>4 DEF row
    <3>5. DOMAIN new = 1 .. Len(tasks)
      BY <3>2
    <3>6. new = [i \in 1 .. Len(tasks) |-> new[i]]
      BY <3>2
    <3> HIDE DEF new
    <3>7. new \in [1 .. Len(tasks) -> Rows]
      BY <3>2, <3>4, <3>6
    <3>8. new \in Seq(Rows) /\ Len(new) = Len(tasks)
      BY <3>2, <3>7
    <3> QED
      BY <3>1, <3>2, <3>4, <3>5, <3>8 DEF SameTasks
  <2>3. CASE UNCHANGED tasks
    BY <2>3, Unmoved
  <2> QED
    BY <2>1, <2>2, <2>3 DEF Start, Decide, ApproveAll, Seal, Create, Execute, Attest, Emit, stores
<1> QED
  BY <1>1, <1>2, <1>3, OtherSubjects, SameTasksStep DEF Onward, TInv

LEMMA PlansAre ==
    ASSUME NEW d \in Directives, NEW rows,
           \/ \E g \in Gestures : doing[g].item = d /\ rows = RunRows(g)
           \/ rows = PlanRows(d) \/ rows = FallbackRows(d)
    PROVE  /\ rows \in Seq(Rows) /\ Len(rows) = 2 /\ DOMAIN rows = Steps /\ Single(rows)
           /\ \A k \in Steps : rows[k] \in Rows /\ rows[k].directive = d
<1>1. Steps = 1 .. 2 /\ \A k \in Steps : k = 1 \/ k = 2
  BY DEF Steps
<1>2. ASSUME NEW task \in TaskIds, NEW status \in Statuses
      PROVE  Row(task, d, status) \in Rows /\ Row(task, d, status).directive = d
             /\ Row(task, d, status).task = task
  BY DEF Row, Rows
<1>3. \A k \in Steps : PlanTask(d, k) \in TaskIds /\ FallbackTask(d, k) \in TaskIds
                       /\ \A g \in Gestures : RunTask(g, k) \in TaskIds
  BY DEF TaskIds
<1>4. ASSUME NEW k \in Steps
      PROVE  <<"in_progress", "pending">>[k] \in Statuses /\ <<"completed", "in_progress">>[k] \in Statuses
             /\ "pending" \in Statuses
  BY <1>1 DEF Statuses
<1>5. DOMAIN rows = Steps /\ rows = [k \in Steps |-> rows[k]]
  BY DEF RunRows, PlanRows, FallbackRows
<1>6. ASSUME NEW k \in Steps PROVE rows[k] \in Rows /\ rows[k].directive = d
  BY <1>2, <1>3, <1>4 DEF RunRows, PlanRows, FallbackRows
<1>7. rows[1].task # rows[2].task
  <2>1. 1 \in Steps /\ 2 \in Steps
    BY <1>1
  <2>2. CASE rows = PlanRows(d)
    <3>1. rows[1].task = PlanTask(d, 1) /\ rows[2].task = PlanTask(d, 2)
      BY <1>2, <1>3, <1>4, <2>1, <2>2 DEF PlanRows
    <3> QED
      BY <3>1 DEF PlanTask
  <2>3. CASE rows = FallbackRows(d)
    <3>1. rows[1].task = FallbackTask(d, 1) /\ rows[2].task = FallbackTask(d, 2)
      BY <1>2, <1>3, <1>4, <2>1, <2>3 DEF FallbackRows
    <3> QED
      BY <3>1 DEF FallbackTask
  <2>4. ASSUME NEW g \in Gestures, doing[g].item = d, rows = RunRows(g)
        PROVE  rows[1].task # rows[2].task
    <3>1. rows[1].task = RunTask(g, 1) /\ rows[2].task = RunTask(g, 2)
      BY <1>2, <1>3, <1>4, <2>1, <2>4 DEF RunRows
    <3> QED
      BY <3>1 DEF RunTask
  <2> QED
    BY <2>2, <2>3, <2>4
<1>8. rows \in [1 .. 2 -> Rows]
  BY <1>1, <1>5, <1>6
<1>9. rows \in Seq(Rows) /\ Len(rows) = 2
  <2>1. ASSUME NEW n \in Nat, rows \in [1 .. n -> Rows] PROVE rows \in Seq(Rows) /\ Len(rows) = n
    BY <2>1
  <2> QED
    BY <1>8, <2>1
<1> QED
  BY <1>1, <1>5, <1>6, <1>7, <1>9 DEF Single

LEMMA InFront ==
    ASSUME NEW new \in Seq(Rows), NEW old \in Seq(Rows)
    PROVE  /\ new \o old \in Seq(Rows)
           /\ \A r \in ToSet(new \o old) : r \in ToSet(new) \/ r \in ToSet(old)
           /\ Single(new) /\ Single(old)
                /\ (\A i \in DOMAIN new, j \in DOMAIN old : new[i].task # old[j].task)
              => Single(new \o old)
<1> DEFINE all == new \o old
<1>1. /\ Len(new) \in Nat /\ Len(old) \in Nat /\ all \in Seq(Rows)
      /\ DOMAIN new = 1 .. Len(new) /\ DOMAIN old = 1 .. Len(old)
      /\ DOMAIN all = 1 .. Len(new) + Len(old)
  OBVIOUS
<1>2. ASSUME NEW i \in DOMAIN all
      PROVE  \/ i \in DOMAIN new /\ all[i] = new[i]
             \/ i > Len(new) /\ i - Len(new) \in DOMAIN old /\ all[i] = old[i - Len(new)]
  BY <1>1
<1> HIDE DEF all
<1>3. \A r \in ToSet(all) : r \in ToSet(new) \/ r \in ToSet(old)
  BY <1>2 DEF ToSet
<1>4. ASSUME Single(new), Single(old),
             \A i \in DOMAIN new, j \in DOMAIN old : new[i].task # old[j].task,
             NEW i \in DOMAIN all, NEW j \in DOMAIN all, all[i].task = all[j].task
      PROVE  i = j
  <2>1. CASE i \in DOMAIN new /\ all[i] = new[i] /\ j \in DOMAIN new /\ all[j] = new[j]
    BY <1>4, <2>1 DEF Single
  <2>2. CASE /\ i > Len(new) /\ i - Len(new) \in DOMAIN old /\ all[i] = old[i - Len(new)]
             /\ j > Len(new) /\ j - Len(new) \in DOMAIN old /\ all[j] = old[j - Len(new)]
    <3>1. i - Len(new) = j - Len(new)
      BY <1>4, <2>2 DEF Single
    <3> QED
      BY <1>1, <3>1
  <2>3. CASE \/ i \in DOMAIN new /\ all[i] = new[i]
                  /\ j - Len(new) \in DOMAIN old /\ all[j] = old[j - Len(new)]
             \/ j \in DOMAIN new /\ all[j] = new[j]
                  /\ i - Len(new) \in DOMAIN old /\ all[i] = old[i - Len(new)]
    BY <1>4, <2>3
  <2> QED
    BY <1>2, <2>1, <2>2, <2>3
<1> QED
  BY <1>1, <1>3, <1>4 DEF all, Single

\* createDirective puts rows on top that fit, and that no row of the list is one of.
LEMMA TasksCreated ==
    ASSUME IInv, TInv, Persists, NEW g \in Gestures, leg[g] \in {"save", "run"}, Onward(g),
           NEW rows, NEW activity, Created(g, rows, activity),
           rows = PlanRows(doing[g].item) \/ (rows = RunRows(g) /\ runs'[g] = 1)
    PROVE  TInv'
<1> DEFINE d == doing[g].item
           all == rows \o tasks
           row == [id |-> d, by |-> g]
<1>1. d \in Directives /\ Creates(g) /\ ~ Later(g) /\ tasks \in Seq(Rows)
  BY DEF TInv, Subject, IInv, Agrees, Creates, Later
<1>2. /\ UNCHANGED <<doing, saved>> /\ directives' = <<row>> \o directives
      /\ leg'[g] \in {"clear", "done"}
  <2>1. CASE Ends(g)
    BY <2>1, Ended DEF Created, backend
  <2>2. CASE ~ Ends(g)
    <3>1. Sends(g, "clear", CyclePreview(g), "APPROVE")
      BY <2>2 DEF Created
    <3> QED
      BY <3>1, Sent DEF Created, backend
  <2> QED
    BY <2>1, <2>2
<1>3. Creates(g)' /\ Later(g)' /\ doing'[g].item = d
  BY <1>1, <1>2 DEF Creates, Later
<1>4. /\ rows \in Seq(Rows) /\ Single(rows) /\ DOMAIN rows = Steps
      /\ \A k \in Steps : rows[k].directive = d
  BY <1>1, PlansAre
<1>5. row \in DirectiveRows /\ directives \in Seq(DirectiveRows)
  BY <1>1 DEF DirectiveRows, TInv
<1>6. directives' \in Seq(DirectiveRows) /\ d \in Listed'
  <2> HIDE DEF row, DirectiveRows
  <2>1. directives' \in Seq(DirectiveRows) /\ 1 \in DOMAIN directives' /\ directives'[1] = row
    BY <1>2, <1>5
  <2> QED
    BY <2>1 DEF Listed, ToSet, row
<1>7. ASSUME NEW k \in Steps
      PROVE  rows[k].task = PlanTask(d, k) \/ (rows[k].task = RunTask(g, k) /\ runs'[g] = 1)
  BY <1>7 DEF RunRows, PlanRows, Row
<1>8. ASSUME NEW k \in Steps PROVE Fits(rows[k].task, rows[k].directive)'
  BY <1>3, <1>4, <1>6, <1>7 DEF Fits, PlanTask, RunTask
<1>9. ASSUME Distinct', NEW i \in DOMAIN rows, NEW j \in DOMAIN tasks, rows[i].task = tasks[j].task
      PROVE  FALSE
  <2>1. tasks[j] \in ToSet(tasks) /\ i \in Steps
    BY <1>4 DEF ToSet
  <2>2. Fits(tasks[j].task, tasks[j].directive)
    BY <2>1 DEF TInv
  <2>3. CASE rows[i].task = RunTask(g, i)
    BY <1>1, <1>9, <2>2, <2>3 DEF Fits
  <2>4. CASE rows[i].task = PlanTask(d, i)
    <3>1. PICK h \in Gestures : Creates(h) /\ Later(h) /\ doing[h].item = d
      BY <1>9, <2>2, <2>4 DEF Fits
    <3>2. h # g /\ Creates(h)' /\ doing'[h].item = d
      BY <1>1, <1>2, <3>1 DEF Creates
    <3> QED
      BY <1>3, <1>9, <3>2 DEF Distinct
  <2> QED
    BY <1>7, <2>1, <2>3, <2>4
<1>10. Distinct' /\ Single(tasks) => Single(all)
  BY <1>1, <1>4, <1>9, InFront
<1>11. /\ all \in Seq(Rows)
       /\ \A r \in ToSet(all) : r \in ToSet(rows) \/ r \in ToSet(tasks)
  BY <1>1, <1>4, InFront
<1>12. SameTasks(tasks', all)
  <2>1. SameTasks(all, all)
    BY <1>11 DEF SameTasks
  <2>2. CASE doing[g].kind = "cycle"
    <3> DEFINE moves == CycleMoves(all, d)
               once == Moved(all, moves[1][1], moves[1][2])
    <3>1. tasks' = Moved(once, moves[2][1], moves[2][2])
      BY <2>2 DEF Created
    <3>2. moves[1][2] \in Statuses /\ moves[2][2] \in Statuses
      BY DEF CycleMoves, Statuses
    <3> HIDE DEF moves, all
    <3>3. SameTasks(once, all)
      BY <1>11, <3>2, MovedIs
    <3>4. once \in Seq(Rows)
      BY <3>3 DEF SameTasks
    <3> HIDE DEF once
    <3>5. SameTasks(tasks', once)
      BY <3>1, <3>2, <3>4, MovedIs
    <3> QED
      BY <3>3, <3>5, SameSame
  <2>3. CASE doing[g].kind # "cycle"
    BY <2>1, <2>3 DEF Created
  <2> QED
    BY <2>2, <2>3
<1> HIDE DEF all, d
<1>13. ASSUME NEW r \in ToSet(tasks')
       PROVE  \/ \E q \in ToSet(tasks) : r.task = q.task /\ r.directive = q.directive
              \/ Fits(r.task, r.directive)'
  <2>1. PICK i \in DOMAIN tasks' : r = tasks'[i]
    BY DEF ToSet
  <2>2. all[i] \in ToSet(all) /\ r.task = all[i].task /\ r.directive = all[i].directive
    BY <1>12, <2>1 DEF SameTasks, ToSet
  <2>3. CASE all[i] \in ToSet(tasks)
    BY <2>2, <2>3
  <2>4. CASE all[i] \in ToSet(rows)
    <3>1. PICK k \in Steps : all[i] = rows[k]
      BY <1>4, <2>4 DEF ToSet
    <3> QED
      BY <1>8, <2>2, <3>1
  <2> QED
    BY <1>11, <2>2, <2>3, <2>4
<1>14. Distinct' /\ Single(tasks) => Single(tasks')
  BY <1>10, <1>12, SameSingle
<1>15. \A h \in Gestures : Subject(h)'
  <2>1. Subject(g)'
    BY <1>2 DEF Subject
  <2> QED
    BY <2>1, OtherSubjects DEF Onward
<1> QED
  BY <1>2, <1>6, <1>12, <1>13, <1>14, <1>15, TasksStep DEF TInv, SameTasks

\* executeDirective: the rows of the answer fit, and take the place of their like.
LEMMA TasksExecuted ==
    ASSUME IInv, XInv, TInv, Persists, NEW g \in Gestures, NEW o, ExecuteReturns(g, o), Onward(g)
    PROVE  TInv'
<1> DEFINE d == doing[g].item
<1> PICK rows : rows = IF o = "ok" THEN RunRows(g) ELSE FallbackRows(d)
  OBVIOUS
<1> DEFINE once == Upsert(tasks, rows[1])
<1>1. /\ leg[g] = "execute" /\ Outcome(g, o) /\ Ends(g)
      /\ UNCHANGED <<doing, directives, saved, runs>>
      /\ tasks' = FoldLeft(Upsert, tasks, rows)
  BY DEF ExecuteReturns, backend
<1>2. d \in Directives /\ d \in Listed'
  BY <1>1 DEF TInv, Subject, Persists
<1>3. Later(g)' /\ Subject(g)'
  BY <1>1, Ended DEF Later, Subject
<1>4. o = "ok" => runs'[g] = 1
  BY <1>1 DEF Outcome, XInv, Asked
<1>5. /\ DOMAIN rows = Steps
      /\ \A k \in Steps : rows[k] \in Rows /\ rows[k].directive = d
  BY <1>2, PlansAre
<1>6. ASSUME NEW k \in Steps
      PROVE  rows[k].task = FallbackTask(d, k) \/ (rows[k].task = RunTask(g, k) /\ runs'[g] = 1)
  BY <1>4 DEF RunRows, FallbackRows, Row
<1>7. ASSUME NEW k \in Steps PROVE Fits(rows[k].task, rows[k].directive)'
  BY <1>2, <1>3, <1>5, <1>6 DEF Fits, PlanTask, RunTask, FallbackTask
<1> HIDE DEF d
<1>8. 1 \in Steps /\ 2 \in Steps
  BY DEF Steps
<1>9. tasks' = Upsert(once, rows[2])
  BY <1>1, <1>5, InOrderOfSteps
<1>10. /\ once \in Seq(Rows)
       /\ \A r \in ToSet(once) : r = rows[1] \/ r \in ToSet(tasks)
       /\ Single(tasks) => Single(once)
  BY <1>5, <1>8, UpsertIs DEF TInv
<1> HIDE DEF once
<1>11. /\ tasks' \in Seq(Rows)
       /\ \A r \in ToSet(tasks') : r = rows[2] \/ r \in ToSet(once)
       /\ Single(once) => Single(tasks')
  BY <1>5, <1>8, <1>9, <1>10, UpsertIs
<1>12. \A r \in ToSet(tasks') :
           \/ \E q \in ToSet(tasks) : r.task = q.task /\ r.directive = q.directive
           \/ Fits(r.task, r.directive)'
  BY <1>7, <1>8, <1>10, <1>11
<1>13. \A h \in Gestures : Subject(h)'
  BY <1>3, OtherSubjects DEF Onward
<1> QED
  BY <1>1, <1>10, <1>11, <1>12, <1>13, TasksStep DEF TInv

LEMMA TasksAnswer ==
    ASSUME IInv, XInv, TInv, Persists, NEW g \in Gestures, NEW o, Settle(g, o)
    PROVE  TInv'
<1>1. Onward(g) /\ UNCHANGED <<saved, runs>>
  BY AnswerOnward DEF Onward, backend
<1>2. ASSUME UNCHANGED <<directives, tasks>>, Subject(g)' PROVE TInv'
  BY <1>1, <1>2, Unmoved, OtherSubjects, SameTasksStep DEF Onward, TInv
<1>3. CASE SaveReturns(g, o) /\ o = "ok"
  <2>1. /\ leg[g] = "save" /\ Sends(g, "run", doing[g].item, None)
        /\ UNCHANGED <<doing, directives, tasks>>
    BY <1>3 DEF SaveReturns, stores
  <2>2. Subject(g)'
    BY <2>1, Sent DEF TInv, Subject
  <2> QED
    BY <1>2, <2>1, <2>2
<1>4. CASE SaveReturns(g, o) /\ o # "ok"
  BY <1>1, <1>4, TasksCreated DEF SaveReturns, Synthesized
<1>5. CASE RunReturns(g, o)
  <2>1. leg[g] = "run" /\ (o = "ok" => runs'[g] = 1)
    BY <1>1, <1>5 DEF RunReturns, Outcome, XInv, Asked
  <2> QED
    BY <1>1, <1>5, <2>1, TasksCreated DEF RunReturns, Synthesized
<1>6. CASE ExecuteReturns(g, o)
  BY <1>1, <1>6, TasksExecuted
<1>7. CASE \/ DecideReturns(g, o) \/ BatchReturns(g, o) \/ SealReturns(g, o)
           \/ ClearReturns(g, o) \/ EmitReturns(g, o)
  <2>1. /\ UNCHANGED <<directives, tasks>>
        /\ Ends(g) \/ \E l \in {"batch", "emit"} : \E i, e : Sends(g, l, i, e)
    BY <1>7 DEF DecideReturns, SealReturns, BatchReturns, ClearReturns, EmitReturns, stores
  <2>2. leg'[g] \in {"done", "batch", "emit"}
    BY <2>1, Ended, Sent
  <2>3. Subject(g)'
    BY <2>2 DEF Subject
  <2> QED
    BY <1>2, <2>1, <2>3
<1> QED
  BY <1>3, <1>4, <1>5, <1>6, <1>7 DEF Settle

LEMMA StepTInv == IInv /\ XInv /\ XInv' /\ TInv /\ [Next]_vars => TInv'
<1> SUFFICES ASSUME IInv, XInv, XInv', TInv, [Next]_vars PROVE TInv'
  OBVIOUS
<1>1. Persists
  BY PersistsNext
<1>2. ASSUME UNCHANGED <<doing, leg, directives, tasks>>, DOMAIN saved' = Directives PROVE TInv'
  <2>1. \A h \in Gestures : Subject(h)'
    BY <1>1, <1>2 DEF TInv, Subject, Persists
  <2> QED
    BY <1>1, <1>2, <2>1, Unmoved, SameTasksStep DEF TInv
<1>3. CASE Backend
  <2>1. UNCHANGED <<doing, leg, directives, tasks>> /\ DOMAIN saved' = DOMAIN saved
    BY <1>3 DEF Backend, SaveDirective, ExecuteDirective, DecideApproval, DecideDevelopment,
                AdmitTelemetry, Decline, Answers, stores, backend
  <2> QED
    BY <1>2, <2>1 DEF TInv
<1>4. CASE Reenter \/ UNCHANGED vars
  BY <1>2, <1>4 DEF Reenter, vars, clientVars, net, stores, backend, TInv
<1> QED
  BY <1>1, <1>3, <1>4, TasksClick, TasksAnswer DEF Next

LEMMA StocksAre ==
    ASSUME tasks = <<Row(StockTask(1), Stock, "completed"), Row(StockTask(2), Stock, "in_progress")>>
    PROVE  /\ tasks \in Seq(Rows) /\ Single(tasks)
           /\ \A r \in ToSet(tasks) :
                 r.directive = Stock /\ \E k \in Steps : r.task = StockTask(k)
<1> DEFINE one == Row(StockTask(1), Stock, "completed")
           two == Row(StockTask(2), Stock, "in_progress")
<1>1. /\ one \in Rows /\ one.directive = Stock /\ one.task = StockTask(1) /\ 1 \in Steps
      /\ two \in Rows /\ two.directive = Stock /\ two.task = StockTask(2) /\ 2 \in Steps
  BY DEF Row, Rows, TaskIds, Steps, Statuses, Directives
<1>2. one.task # two.task
  BY <1>1 DEF StockTask
<1>3. tasks = <<one, two>>
  OBVIOUS
<1> HIDE DEF one, two
<1>4. DOMAIN tasks = 1 .. 2 /\ tasks[1] = one /\ tasks[2] = two
  BY <1>3
<1>5. tasks \in Seq(Rows)
  BY <1>1, <1>3
<1>6. \A i \in DOMAIN tasks : i = 1 \/ i = 2
  BY <1>4
<1> QED
  BY <1>1, <1>2, <1>4, <1>5, <1>6 DEF Single, ToSet

LEMMA InitTInv == Init => XInv /\ TInv
<1> SUFFICES ASSUME Init PROVE XInv /\ TInv
  OBVIOUS
<1>1. /\ directives = <<[id |-> Stock, by |-> None]>>
      /\ tasks = <<Row(StockTask(1), Stock, "completed"), Row(StockTask(2), Stock, "in_progress")>>
      /\ DOMAIN saved = Directives
      /\ \A g \in Gestures : leg[g] = "idle" /\ runs[g] = 0
      /\ DOMAIN runs = Gestures /\ wire = {}
  BY DEF Init, ClientInit
<1>2. XInv
  BY <1>1 DEF XInv, Asked, Execs
<1>3. directives \in Seq(DirectiveRows) /\ Stock \in Listed
  <2> DEFINE row == [id |-> Stock, by |-> None]
  <2>1. row \in DirectiveRows /\ row.id = Stock
    BY DEF DirectiveRows, Directives
  <2> HIDE DEF row, DirectiveRows
  <2>2. directives \in Seq(DirectiveRows) /\ 1 \in DOMAIN directives /\ directives[1] = row
    BY <1>1, <2>1 DEF row
  <2> QED
    BY <2>1, <2>2 DEF Listed, ToSet
<1>4. \A r \in ToSet(tasks) : Fits(r.task, r.directive)
  <2> SUFFICES ASSUME NEW r \in ToSet(tasks) PROVE Fits(r.task, r.directive)
    OBVIOUS
  <2>1. PICK k \in Steps : r.directive = Stock /\ r.task = StockTask(k)
    BY <1>1, StocksAre
  <2> QED
    BY <1>3, <2>1 DEF Fits, StockTask, PlanTask, RunTask
<1>5. \A g \in Gestures : Subject(g)
  BY <1>1 DEF Subject
<1> QED
  BY <1>1, <1>2, <1>3, <1>4, <1>5, StocksAre DEF TInv

LEMMA Stored == Spec => [](IInv /\ XInv /\ TInv)
<1>1. IInv /\ XInv /\ TInv /\ [Next]_vars => XInv' /\ TInv'
  BY StepXInv, StepTInv
<1> QED
  BY <1>1, InitTInv, Invariance, PTL DEF Spec

\* createDirective, executeDirective: a gesture starts one run at most, and rows with
\* a backend's id come from a run that took place.
THEOREM RunsAreAsked == Spec => []RunsWereAsked
<1>1. XInv /\ TInv => RunsWereAsked
  <2> SUFFICES ASSUME XInv, TInv PROVE RunsWereAsked
    OBVIOUS
  <2>1. \A g \in Gestures : runs[g] <= 1
    BY DEF XInv, Asked
  <2>2. ASSUME NEW r \in ToSet(tasks), r.task[1] = "run" PROVE runs[r.task[2]] = 1
    <3>1. r.task \in TaskIds /\ Fits(r.task, r.directive)
      <4>1. r \in Rows
        BY DEF TInv, ToSet
      <4>2. r.task \in TaskIds
        BY <4>1 DEF Rows
      <4> QED
        BY <4>2 DEF TInv
    <3>2. PICK g \in Gestures, k \in Steps : r.task = RunTask(g, k)
      BY <2>2, <3>1 DEF TaskIds, StockTask, PlanTask, FallbackTask
    <3> QED
      BY <3>1, <3>2 DEF Fits, RunTask
  <2> QED
    BY <2>1, <2>2 DEF RunsWereAsked
<1> QED
  BY <1>1, Stored, PTL

\* The upsert of executeDirective: a task has one row, unless the clock gave two
\* directives one id.
THEOREM RowsAreSingle == Spec => []OneRowPerTask
<1>1. TInv => OneRowPerTask
  <2> SUFFICES ASSUME TInv, Distinct PROVE IsInjective([i \in DOMAIN tasks |-> tasks[i].task])
    BY DEF OneRowPerTask, Distinct
  <2>1. Single(tasks)
    BY DEF TInv
  <2> QED
    BY <2>1 DEF Single, IsInjective
<1> QED
  BY <1>1, Stored, PTL

-----------------------------------------------------------------------------
(* What a gesture adds to the lists                                        *)

NoneBy(list, g) == \A i \in DOMAIN list : list[i].by # g

LEMMA OnTop ==
    ASSUME NEW S, NEW list \in Seq(S), NEW row \in S, NEW new, new = <<row>> \o list
    PROVE  /\ new \in Seq(S)
           /\ \A r \in ToSet(new) : r = row \/ r \in ToSet(list)
           /\ \A g : NoneBy(list, g) => IF row.by = g THEN OneBy(new, g) ELSE NoneBy(new, g)
           /\ \A g : row.by # g /\ OneBy(list, g) => OneBy(new, g)
<1>1. /\ new \in Seq(S) /\ DOMAIN new = 1 .. Len(list) + 1 /\ new[1] = row
      /\ DOMAIN list = 1 .. Len(list) /\ Len(list) \in Nat
      /\ \A i \in DOMAIN list : i + 1 \in DOMAIN new /\ new[i + 1] = list[i]
  OBVIOUS
<1>2. ASSUME NEW i \in DOMAIN new, i # 1 PROVE i - 1 \in DOMAIN list /\ new[i] = list[i - 1]
  BY <1>1, <1>2
<1>3. 1 \in DOMAIN new
  BY <1>1
<1>4. \A r \in ToSet(new) : r = row \/ r \in ToSet(list)
  BY <1>1, <1>2 DEF ToSet
<1>5. ASSUME NEW g, NoneBy(list, g) PROVE IF row.by = g THEN OneBy(new, g) ELSE NoneBy(new, g)
  <2>1. CASE row.by = g
    <3>1. \A j \in DOMAIN new : new[j].by = g <=> j = 1
      BY <1>1, <1>2, <1>5, <2>1 DEF NoneBy
    <3> QED
      BY <1>3, <2>1, <3>1 DEF OneBy
  <2>2. CASE row.by # g
    <3>1. \A j \in DOMAIN new : new[j].by # g
      BY <1>1, <1>2, <1>5, <2>2 DEF NoneBy
    <3> QED
      BY <2>2, <3>1 DEF NoneBy
  <2> QED
    BY <2>1, <2>2
<1>6. ASSUME NEW g, row.by # g, OneBy(list, g) PROVE OneBy(new, g)
  <2>1. PICK i \in DOMAIN list : \A j \in DOMAIN list : list[j].by = g <=> j = i
    BY <1>6 DEF OneBy
  <2>2. ASSUME NEW j \in DOMAIN new PROVE new[j].by = g <=> j = i + 1
    <3>1. CASE j = 1
      BY <1>1, <1>6, <2>1, <3>1
    <3>2. CASE j # 1
      <4>1. j - 1 \in DOMAIN list /\ new[j] = list[j - 1]
        BY <1>2, <3>2
      <4>2. new[j].by = g <=> j - 1 = i
        BY <2>1, <4>1
      <4>3. j - 1 = i <=> j = i + 1
        BY <1>1, <2>1
      <4> QED
        BY <4>2, <4>3
    <3> QED
      BY <3>1, <3>2
  <2> QED
    BY <1>1, <2>1, <2>2 DEF OneBy
<1> QED
  BY <1>1, <1>4, <1>5, <1>6

LEMMA NothingRead ==
    ASSUME IInv, NEW g \in Gestures, Onward(g)
    PROVE  fetch'[g] # "reading" /\ leg'[g] # "idle" /\ \A h \in Gestures \ {g} : fetch'[h] = fetch[h]
<1>1. CASE Ends(g)
  BY <1>1, Ended DEF Ends, IInv, Shape
<1>2. ASSUME NEW l, NEW item, NEW d, Sends(g, l, item, d), l # "idle"
      PROVE  fetch'[g] # "reading" /\ leg'[g] # "idle" /\ \A h \in Gestures \ {g} : fetch'[h] = fetch[h]
  BY <1>2 DEF Sends, IInv, Shape
<1> QED
  BY <1>1, <1>2 DEF Onward

\* An event has no receipt until its gesture is over, and one from then on; the
\* backend took in what it gave a receipt for.
Receipts == [by : Gestures, issuer : {"backend", "client"}]
Receipted(g) ==
    /\ leg[g] # "done" => NoneBy(receipts, g)
    /\ leg[g] = "done" /\ doing[g].kind \in {"emit", "cycle"} => OneBy(receipts, g)
    /\ fetch[g] = "reading" /\ leg[g] = "emit" => g \in admitted

RInv == /\ receipts \in Seq(Receipts)
        /\ \A r \in ToSet(receipts) : r.issuer = "backend" => r.by \in admitted
        /\ \A g \in Gestures : Receipted(g)

LEMMA OtherReceipts ==
    ASSUME IInv, RInv, NEW g \in Gestures, leg[g] # "done", Onward(g), UNCHANGED receipts,
           leg'[g] = "done" => doing'[g].kind \notin {"emit", "cycle"}
    PROVE  RInv'
<1>1. UNCHANGED admitted /\ \A h \in Gestures \ {g} : doing'[h] = doing[h] /\ leg'[h] = leg[h]
  BY DEF Onward, backend
<1>2. Receipted(g)'
  BY NothingRead DEF RInv, Receipted
<1>3. ASSUME NEW h \in Gestures, h # g PROVE Receipted(h)'
  BY <1>1, <1>3, NothingRead DEF RInv, Receipted
<1> QED
  BY <1>1, <1>2, <1>3 DEF RInv

LEMMA NewReceipt == ASSUME IInv, RInv, NEW g \in Gestures, NEW o, EmitReturns(g, o), Onward(g) PROVE RInv'
<1> DEFINE row == [by |-> g, issuer |-> IF o = "ok" THEN "backend" ELSE "client"]
<1>1. /\ leg[g] = "emit" /\ Outcome(g, o) /\ leg'[g] = "done" /\ receipts' = <<row>> \o receipts
      /\ UNCHANGED admitted /\ \A h \in Gestures \ {g} : doing'[h] = doing[h] /\ leg'[h] = leg[h]
  BY Ended DEF EmitReturns, Onward, backend
<1>2. row \in Receipts /\ row.by = g /\ (row.issuer = "backend" => o = "ok")
  BY DEF Receipts
<1> HIDE DEF row, Receipts
<1>3. /\ receipts' \in Seq(Receipts)
      /\ \A r \in ToSet(receipts') : r = row \/ r \in ToSet(receipts)
      /\ \A h : NoneBy(receipts, h) => IF row.by = h THEN OneBy(receipts', h) ELSE NoneBy(receipts', h)
      /\ \A h : row.by # h /\ OneBy(receipts, h) => OneBy(receipts', h)
  <2>1. receipts \in Seq(Receipts) /\ row \in Receipts /\ receipts' = <<row>> \o receipts
    BY <1>1, <1>2 DEF RInv
  <2> HIDE DEF OneBy, NoneBy
  <2> QED
    BY <2>1, OnTop
<1>4. o = "ok" => g \in admitted
  BY <1>1 DEF Outcome, RInv, Receipted
<1>5. Receipted(g)'
  BY <1>1, <1>2, <1>3 DEF RInv, Receipted
<1>6. ASSUME NEW h \in Gestures, h # g PROVE Receipted(h)'
  BY <1>1, <1>2, <1>3, <1>6, NothingRead DEF RInv, Receipted
<1> QED
  BY <1>1, <1>2, <1>3, <1>4, <1>5, <1>6 DEF RInv

LEMMA ReceiptsClick == ASSUME IInv, RInv, NEW g \in Gestures, Start(g) PROVE RInv'
<1>1. UNCHANGED receipts /\ leg[g] = "idle" /\ Onward(g)
  BY ClickOnward DEF Start, Decide, ApproveAll, Seal, Create, Execute, Advance, RunAll, Attest, Emit,
                     stores, Gesture
<1>2. ASSUME leg'[g] = "done" PROVE doing'[g].kind \notin {"emit", "cycle"}
  <2>1. ASSUME \E l \in {"decide", "batch", "seal", "save", "execute", "emit"} : \E i, e :
                   Sends(g, l, i, e)
        PROVE  FALSE
    BY <1>2, <2>1, Sent
  <2>2. \/ \E r, s : Advance(g, r, s)
        \/ RunAll(g) \/ Attest(g)
    BY <2>1 DEF Start, Decide, ApproveAll, Seal, Create, Execute, Emit
  <2>3. ASSUME NEW item, Gesture(g, [Idle EXCEPT !.kind = "advance", !.item = item])
        PROVE  doing'[g].kind = "advance"
    <3> DEFINE what == [Idle EXCEPT !.kind = "advance", !.item = item]
    <3>1. what.kind = "advance"
      BY DEF Idle
    <3> HIDE DEF what
    <3> QED
      BY <2>3, <3>1, Started DEF what
  <2>4. Gesture(g, [Idle EXCEPT !.kind = "runall"]) => doing'[g].kind = "runall"
    BY Started DEF Idle
  <2>5. Gesture(g, [Idle EXCEPT !.kind = "attest"]) => doing'[g].kind = "attest"
    BY Started DEF Idle
  <2>6. doing'[g].kind \in {"advance", "runall", "attest"}
    BY <2>2, <2>3, <2>4, <2>5 DEF Advance, RunAll, Attest
  <2> QED
    BY <2>6
<1> QED
  BY <1>1, <1>2, OtherReceipts

LEMMA ReceiptsAnswer == ASSUME IInv, RInv, NEW g \in Gestures, NEW o, Settle(g, o) PROVE RInv'
<1>1. Onward(g)
  BY AnswerOnward
<1>2. ASSUME DecideReturns(g, o) \/ SealReturns(g, o) \/ BatchReturns(g, o) PROVE RInv'
  <2>1. /\ UNCHANGED receipts /\ leg[g] \in Submits /\ leg[g] # "done"
        /\ \/ UNCHANGED doing
           \/ \E n, i : doing' = [doing EXCEPT ![g].at = n, ![g].item = i]
    BY <1>2 DEF DecideReturns, SealReturns, BatchReturns, Submits
  <2>2. doing[g].kind \in Submits /\ DOMAIN doing = Gestures /\ DOMAIN doing[g] = Fields
    BY <2>1 DEF IInv, Agrees, Shape
  <2>3. doing'[g].kind \in Submits
    BY <2>1, <2>2 DEF Fields
  <2> QED
    BY <1>1, <2>1, <2>3, OtherReceipts DEF Submits
<1>3. ASSUME NEW rows, NEW activity, leg[g] \in {"save", "run"}, Created(g, rows, activity) PROVE RInv'
  <2>1. UNCHANGED <<doing, receipts>> /\ Creates(g)
    BY <1>3 DEF Created, IInv, Agrees
  <2>2. doing[g].kind = "cycle" => leg'[g] = "clear"
    <3>1. doing[g].kind = "cycle" => Sends(g, "clear", CyclePreview(g), "APPROVE")
      BY <1>3 DEF Created
    <3> QED
      BY <3>1, Sent
  <2> QED
    BY <1>1, <1>3, <2>1, <2>2, OtherReceipts DEF Creates
<1>4. ASSUME UNCHANGED receipts, leg[g] # "done", NEW l, l # "done", NEW i, NEW d, Sends(g, l, i, d)
      PROVE  RInv'
  BY <1>1, <1>4, Sent, OtherReceipts
<1>5. CASE SaveReturns(g, o)
  <2>1. leg[g] = "save"
    BY <1>5 DEF SaveReturns
  <2> QED
    BY <1>3, <1>4, <1>5, <2>1 DEF SaveReturns, Synthesized, stores
<1>6. CASE RunReturns(g, o)
  BY <1>3, <1>6 DEF RunReturns, Synthesized
<1>7. CASE ClearReturns(g, o)
  BY <1>4, <1>7 DEF ClearReturns
<1>8. CASE ExecuteReturns(g, o)
  BY <1>1, <1>8, OtherReceipts DEF ExecuteReturns, IInv, Agrees
<1> QED
  BY <1>1, <1>2, <1>5, <1>6, <1>7, <1>8, NewReceipt DEF Settle

LEMMA StepRInv == IInv /\ RInv /\ [Next]_vars => RInv'
<1> SUFFICES ASSUME IInv, RInv, [Next]_vars PROVE RInv'
  OBVIOUS
<1>1. CASE Backend
  <2>1. PICK r \in wire : \/ SaveDirective(r) \/ ExecuteDirective(r) \/ DecideApproval(r)
                          \/ DecideDevelopment(r) \/ AdmitTelemetry(r) \/ Decline(r)
    BY <1>1 DEF Backend
  <2>2. PICK s \in {"reading", "refused"} :
            /\ Answers(r, s) /\ admitted \subseteq admitted'
            /\ s = "reading" /\ r.leg = "emit" => r.by \in admitted'
    BY <2>1 DEF SaveDirective, ExecuteDirective, DecideApproval, DecideDevelopment, AdmitTelemetry,
                Decline, backend
  <2>3. UNCHANGED <<doing, leg, receipts>> /\ (Heard(r, s) \/ UNCHANGED fetch)
    BY <2>2 DEF Answers, stores
  <2>4. ASSUME NEW g \in Gestures PROVE Receipted(g)'
    <3>1. fetch'[g] = "reading" /\ leg[g] = "emit" =>
              fetch[g] = "reading" \/ (s = "reading" /\ r.by = g /\ r.leg = leg[g])
      BY <2>3 DEF Heard, IInv, Shape, RequestsFit
    <3> QED
      BY <2>2, <2>3, <3>1 DEF RInv, Receipted
  <2> QED
    BY <2>2, <2>3, <2>4 DEF RInv
<1>2. CASE Reenter \/ UNCHANGED vars
  BY <1>2 DEF Reenter, vars, clientVars, net, stores, backend, RInv, Receipted
<1> QED
  BY <1>1, <1>2, ReceiptsClick, ReceiptsAnswer DEF Next

\* sendConversionTelemetry: a receipt with the backend's name is for what the backend
\* took in, and every event has one receipt once its gesture is over.
THEOREM ReceiptsAreOfEvents == Spec => []ReceiptsAreReal
<1>1. Init => RInv
  BY DEF Init, ClientInit, RInv, Receipted, NoneBy, ToSet
<1>2. RInv => ReceiptsAreReal
  BY DEF RInv, Receipted, ReceiptsAreReal
<1> QED
  BY <1>1, <1>2, StepRInv, Invariance, PTL DEF Spec

-----------------------------------------------------------------------------
(* Creations                                                               *)

\* Until a creation is over with its requests nothing is listed or noted by its
\* gesture; from then on its directive is listed once, and noted once.
Early(g) == leg[g] \in {"idle", "save", "run"}
Tidy(g) ==
    /\ Early(g) => NoneBy(directives, g) /\ \A e : BagIn(e, ledger) => e.by # g
    /\ Creates(g) /\ ~ Early(g) =>
           /\ OneBy(directives, g)
           /\ Copies(Noting(g, "orchestrated")) + Copies(Noting(g, "synthesized")) = 1

DInv == /\ \A e \in DOMAIN ledger : ledger[e] \in Nat
        /\ \A g \in Gestures : Tidy(g)

LEMMA CopiesNoted ==
    ASSUME \A e \in DOMAIN ledger : ledger[e] \in Nat, NEW S, ledger' = Noted(S)
    PROVE  /\ \A e \in DOMAIN ledger' : ledger'[e] \in Nat
           /\ \A e : Copies(e)' = Copies(e) + (IF e \in S THEN 1 ELSE 0)
<1>1. /\ DOMAIN ledger' = DOMAIN ledger \cup S
      /\ \A e \in DOMAIN ledger \cup S :
            ledger'[e] = (IF e \in DOMAIN ledger THEN ledger[e] ELSE 0) + (IF e \in S THEN 1 ELSE 0)
  BY DEF Noted, SetToBag, (+)
<1>2. \A e : Copies(e) = IF e \in DOMAIN ledger THEN ledger[e] ELSE 0
  BY DEF Copies, BagIn, BagToSet
<1>3. \A e : Copies(e)' = IF e \in DOMAIN ledger' THEN ledger'[e] ELSE 0
  BY DEF Copies, BagIn, BagToSet
<1> QED
  BY <1>1, <1>2, <1>3

\* A gesture lists its own directives only, and notes its own deeds only.
Writes(g, S) ==
    /\ \/ UNCHANGED directives
       \/ \E r \in DirectiveRows : r.by = g /\ directives' = <<r>> \o directives
    /\ \A e \in S : e.by = g
    /\ \/ S = {} /\ UNCHANGED ledger
       \/ ledger' = Noted(S)

LEMMA CopiesWritten ==
    ASSUME DInv, NEW g \in Gestures, NEW S, Writes(g, S)
    PROVE  /\ \A e \in DOMAIN ledger' : ledger'[e] \in Nat
           /\ \A e : Copies(e)' = Copies(e) + (IF e \in S THEN 1 ELSE 0)
           /\ \A e : Copies(e) \in Nat
           /\ \A e : BagIn(e, ledger') => BagIn(e, ledger) \/ e \in S
<1>1. \A e : Copies(e) \in Nat
  BY DEF DInv, Copies, BagIn, BagToSet
<1>2. CASE ledger' = Noted(S)
  BY <1>1, <1>2, CopiesNoted, NotedHas DEF DInv
<1>3. CASE S = {} /\ UNCHANGED ledger
  <2>1. \A e : Copies(e)' = Copies(e)
    BY <1>3 DEF Copies
  <2> QED
    BY <1>1, <1>3, <2>1 DEF DInv
<1> QED
  BY <1>2, <1>3 DEF Writes

LEMMA OthersTidy ==
    ASSUME IInv, TInv, DInv, NEW g \in Gestures, NEW S, Writes(g, S),
           \A h \in Gestures \ {g} : doing'[h] = doing[h] /\ leg'[h] = leg[h],
           Tidy(g)'
    PROVE  DInv'
<1>1. ASSUME NEW h \in Gestures, h # g PROVE Tidy(h)'
  <2>1. /\ NoneBy(directives, h) => NoneBy(directives', h)
        /\ OneBy(directives, h) => OneBy(directives', h)
    <3>1. CASE UNCHANGED directives
      BY <3>1
    <3>2. ASSUME NEW r \in DirectiveRows, r.by = g, directives' = <<r>> \o directives
          PROVE  /\ NoneBy(directives, h) => NoneBy(directives', h)
                 /\ OneBy(directives, h) => OneBy(directives', h)
      <4>1. directives \in Seq(DirectiveRows)
        BY DEF TInv
      <4> HIDE DEF DirectiveRows, NoneBy, OneBy
      <4> QED
        BY <1>1, <3>2, <4>1, OnTop
    <3> QED
      BY <3>1, <3>2 DEF Writes
  <2>2. \A e : BagIn(e, ledger') /\ e.by = h => BagIn(e, ledger)
    BY <1>1, CopiesWritten DEF Writes
  <2>3. ASSUME NEW a PROVE Copies(Noting(h, a))' = Copies(Noting(h, a))
    <3> PICK e : e = Noting(h, a)
      OBVIOUS
    <3>1. e.by = h /\ Noting(h, a)' = e
      BY <1>1 DEF Noting, Record
    <3>2. e \notin S
      BY <1>1, <3>1 DEF Writes
    <3>3. Copies(e)' = Copies(e) + 0 /\ Copies(e) \in Nat
      BY <3>2, CopiesWritten
    <3>4. Copies(Noting(h, a))' = Copies(e)'
      BY <3>1 DEF Copies
    <3> QED
      BY <3>3, <3>4
  <2>4. Tidy(h)
    BY DEF DInv
  <2> QED
    BY <1>1, <2>1, <2>2, <2>3, <2>4 DEF Tidy, Early, Creates
<1> QED
  BY <1>1, CopiesWritten DEF DInv

\* A step after the creation, or of another gesture than one.
LEMMA TidyLater ==
    ASSUME IInv, TInv, DInv, NEW g \in Gestures, Onward(g), UNCHANGED directives,
           NEW S, Writes(g, S), ~ Early(g)',
           Creates(g)' => /\ Creates(g) /\ ~ Early(g) /\ doing'[g] = doing[g]
                          /\ Noting(g, "orchestrated") \notin S /\ Noting(g, "synthesized") \notin S
    PROVE  DInv'
<1>1. ASSUME Creates(g)'
      PROVE  /\ OneBy(directives', g)
             /\ Copies(Noting(g, "orchestrated"))' + Copies(Noting(g, "synthesized"))' = 1
  <2>1. /\ OneBy(directives, g)
        /\ Copies(Noting(g, "orchestrated")) + Copies(Noting(g, "synthesized")) = 1
    BY <1>1 DEF DInv, Tidy
  <2>2. ASSUME NEW a \in {"orchestrated", "synthesized"}
        PROVE  Copies(Noting(g, a))' = Copies(Noting(g, a))
    <3> PICK e : e = Noting(g, a)
      OBVIOUS
    <3>1. Noting(g, a)' = e /\ e \notin S
      BY <1>1 DEF Noting, Record
    <3>2. Copies(e)' = Copies(e) + 0 /\ Copies(e) \in Nat
      BY <3>1, CopiesWritten
    <3>3. Copies(Noting(g, a))' = Copies(e)'
      BY <3>1 DEF Copies
    <3> QED
      BY <3>2, <3>3
  <2> QED
    BY <2>1, <2>2
<1>2. Tidy(g)'
  BY <1>1 DEF Tidy
<1> QED
  BY <1>2, OthersTidy DEF Onward

\* A click that is no creation is of another kind, and at another request.
LEMMA OtherKinds ==
    ASSUME IInv, NEW g \in Gestures, Start(g)
    PROVE  \/ \E kind, d : Create(g, kind, d)
           \/ ~ Early(g)' /\ ~ Creates(g)'
<1> DEFINE Other(what) == Gesture(g, what) /\ what.kind \notin {"create", "cycle"}
<1>1. \/ \E kind, d : Create(g, kind, d)
      \/ /\ \E what : Other(what)
         /\ \/ Ends(g)
            \/ \E l \in {"decide", "batch", "seal", "execute", "emit"} : \E i, e : Sends(g, l, i, e)
  <2>1. ASSUME NEW kind, NEW i, NEW d
        PROVE  /\ Decision(kind, i, d).kind = kind
               /\ [Decision(kind, i, d) EXCEPT !.at = 1].kind = kind
               /\ [Idle EXCEPT !.kind = kind].kind = kind
               /\ [Idle EXCEPT !.kind = kind, !.item = i].kind = kind
    BY DEF Decision, Idle
  <2>2. ASSUME NEW p, NEW d, Decide(g, p, d) PROVE \E what : Other(what)
    <3>1. Other(Decision("decide", p, d))
      BY <2>1, <2>2 DEF Decide
    <3> QED
      BY <3>1
  <2>3. ASSUME ApproveAll(g) PROVE \E what : Other(what)
    <3>1. Other([Decision("batch", previews[1], "APPROVE") EXCEPT !.at = 1])
      BY <2>1, <2>3 DEF ApproveAll
    <3> QED
      BY <3>1
  <2>4. ASSUME NEW i, NEW d, Seal(g, i, d) PROVE \E what : Other(what)
    <3>1. Other(Decision("seal", i, d))
      BY <2>1, <2>4 DEF Seal
    <3> QED
      BY <3>1
  <2>5. ASSUME NEW d, Execute(g, d) PROVE \E what : Other(what)
    <3>1. Other([Idle EXCEPT !.kind = "execute", !.item = d])
      BY <2>1, <2>5 DEF Execute
    <3> QED
      BY <3>1
  <2>6. ASSUME NEW r, NEW s, Advance(g, r, s) PROVE \E what : Other(what)
    <3>1. Other([Idle EXCEPT !.kind = "advance", !.item = r.task])
      BY <2>1, <2>6 DEF Advance
    <3> QED
      BY <3>1
  <2>7. ASSUME NEW kind \in {"runall", "attest", "emit"}, Gesture(g, [Idle EXCEPT !.kind = kind])
        PROVE  \E what : Other(what)
    <3>1. Other([Idle EXCEPT !.kind = kind])
      BY <2>1, <2>7
    <3> QED
      BY <3>1
  <2>8. RunAll(g) \/ Attest(g) \/ Emit(g) => \E what : Other(what)
    BY <2>7 DEF RunAll, Attest, Emit
  <2> HIDE DEF Other
  <2>9. \/ \E kind, d : Create(g, kind, d)
        \/ \E what : Other(what)
    BY <2>2, <2>3, <2>4, <2>5, <2>6, <2>8 DEF Start
  <2>10. \/ \E kind, d : Create(g, kind, d)
         \/ Ends(g)
         \/ \E l \in {"decide", "batch", "seal", "execute", "emit"} : \E i, e : Sends(g, l, i, e)
    BY DEF Start, Decide, ApproveAll, Seal, Execute, Advance, RunAll, Attest, Emit
  <2> QED
    BY <2>9, <2>10
<1>2. ASSUME NEW what, Other(what),
             \/ Ends(g)
             \/ \E l \in {"decide", "batch", "seal", "execute", "emit"} : \E i, e : Sends(g, l, i, e)
      PROVE  ~ Early(g)' /\ ~ Creates(g)'
  <2>1. doing'[g] = what /\ leg'[g] \in {"done", "decide", "batch", "seal", "execute", "emit"}
    BY <1>2, Started
  <2> QED
    BY <1>2, <2>1 DEF Early, Creates
<1> HIDE DEF Other
<1> QED
  BY <1>1, <1>2

LEMMA TidyClick == ASSUME IInv, TInv, DInv, NEW g \in Gestures, Start(g) PROVE DInv'
<1>1. Onward(g) /\ UNCHANGED directives /\ leg[g] = "idle"
  <2>1. \E what : Gesture(g, what)
    BY DEF Start, Decide, ApproveAll, Seal, Create, Execute, Advance, RunAll, Attest, Emit
  <2> QED
    BY <2>1, ClickOnward, SubjectOfStarted DEF Gesture
<1>2. CASE ~ Early(g)' /\ ~ Creates(g)'
  <2>1. PICK S : Writes(g, S)
    <3>1. UNCHANGED ledger \/ \E e : e.by = g /\ ledger' = Noted({e})
      <4>1. \A i, a : Record(g, i, a).by = g
        BY DEF Record
      <4> QED
        BY <4>1 DEF Start, Decide, ApproveAll, Seal, Create, Execute, Advance, RunAll, Attest, Emit,
                    stores
    <3>2. UNCHANGED ledger => Writes(g, {})
      BY <1>1 DEF Writes
    <3>3. ASSUME NEW e, e.by = g, ledger' = Noted({e}) PROVE Writes(g, {e})
      BY <1>1, <3>3 DEF Writes
    <3> QED
      BY <3>1, <3>2, <3>3
  <2> QED
    BY <1>1, <1>2, <2>1, TidyLater
<1>3. ASSUME NEW kind, NEW d, Create(g, kind, d) PROVE DInv'
  <2>1. Sends(g, "save", d, None) /\ UNCHANGED ledger
    BY <1>3 DEF Create, stores
  <2>2. leg'[g] = "save" /\ Writes(g, {})
    BY <1>1, <2>1, Sent DEF Writes
  <2>3. Tidy(g)'
    BY <1>1, <2>1, <2>2 DEF DInv, Tidy, Early
  <2> QED
    BY <1>1, <2>2, <2>3, OthersTidy DEF Onward
<1> QED
  BY <1>2, <1>3, OtherKinds

\* createDirective lists its directive and notes it, once each.
LEMMA TidyCreated ==
    ASSUME IInv, TInv, DInv, NEW g \in Gestures, leg[g] \in {"save", "run"}, Onward(g),
           NEW rows, NEW activity \in {"orchestrated", "synthesized"}, Created(g, rows, activity)
    PROVE  DInv'
<1> PICK d : d = doing[g].item
  OBVIOUS
<1> DEFINE row == [id |-> d, by |-> g]
           note == Record(g, d, activity)
<1>1. /\ d \in Directives /\ UNCHANGED doing /\ directives' = <<row>> \o directives
      /\ directives \in Seq(DirectiveRows)
      /\ NoneBy(directives, g) /\ \A e : BagIn(e, ledger) => e.by # g
  BY DEF TInv, Subject, Created, DInv, Tidy, Early
<1>2. row \in DirectiveRows /\ row.by = g
  BY <1>1 DEF DirectiveRows
<1>3. OneBy(directives', g)
  <2> HIDE DEF row, DirectiveRows, NoneBy, OneBy
  <2> QED
    BY <1>1, <1>2, OnTop
<1>4. leg'[g] \in {"clear", "done"}
  <2>1. Ends(g) \/ Sends(g, "clear", CyclePreview(g), "APPROVE")
    BY DEF Created
  <2> QED
    BY <2>1, Ended, Sent
<1>5. PICK S : /\ ledger' = Noted(S) /\ note \in S /\ \A e \in S : e.by = g
               /\ \A e \in S : e = note \/ e.activity \in {"completed", "in_progress"}
  <2> DEFINE moves == CycleMoves(rows \o tasks, d)
             moved == {Record(g, m[1], m[2]) : m \in ToSet(moves)}
  <2>1. \A i, a : Record(g, i, a).by = g /\ Record(g, i, a).activity = a
    BY DEF Record
  <2>2. \A m \in ToSet(moves) : m[2] \in {"completed", "in_progress"}
    BY DEF ToSet, CycleMoves
  <2>3. \A e \in moved : e.by = g /\ e.activity \in {"completed", "in_progress"}
    BY <2>1, <2>2
  <2>4. ledger' = Noted({note}) \/ ledger' = Noted({note} \cup moved)
    BY DEF Created
  <2>5. note.by = g
    BY <2>1
  <2> HIDE DEF moved, note
  <2> QED
    BY <2>3, <2>4, <2>5
<1>6. Writes(g, S)
  BY <1>1, <1>2, <1>5 DEF Writes
<1>7. ASSUME NEW a \in {"orchestrated", "synthesized"}
      PROVE  Copies(Noting(g, a))' = IF a = activity THEN 1 ELSE 0
  <2> PICK e : e = Record(g, d, a)
    OBVIOUS
  <2>1. Noting(g, a)' = e /\ e.by = g /\ e.activity = a /\ (e = note <=> a = activity)
    BY <1>1 DEF Noting, Record
  <2>2. e \in S <=> a = activity
    BY <1>5, <2>1
  <2>3. Copies(e) = 0
    BY <1>1, <2>1 DEF Copies
  <2>4. Copies(e)' = IF a = activity THEN 1 ELSE 0
    BY <1>6, <2>2, <2>3, CopiesWritten
  <2> QED
    BY <2>1, <2>4 DEF Copies
<1>8. Tidy(g)'
  BY <1>3, <1>4, <1>7 DEF Tidy, Early
<1> QED
  BY <1>6, <1>8, OthersTidy DEF Onward

LEMMA TidyAnswer == ASSUME IInv, TInv, DInv, NEW g \in Gestures, NEW o, Settle(g, o) PROVE DInv'
<1>1. Onward(g)
  BY AnswerOnward
<1>2. CASE SaveReturns(g, o) /\ o = "ok"
  <2>1. /\ leg[g] = "save" /\ Sends(g, "run", doing[g].item, None)
        /\ UNCHANGED <<doing, directives, ledger>>
    BY <1>2 DEF SaveReturns, stores
  <2>2. leg'[g] = "run" /\ Writes(g, {})
    BY <2>1, Sent DEF Writes
  <2>3. Tidy(g)'
    BY <2>1, <2>2 DEF DInv, Tidy, Early
  <2> QED
    BY <1>1, <2>2, <2>3, OthersTidy DEF Onward
<1>3. CASE SaveReturns(g, o) /\ o # "ok"
  BY <1>1, <1>3, TidyCreated DEF SaveReturns, Synthesized
<1>4. CASE RunReturns(g, o)
  BY <1>1, <1>4, TidyCreated DEF RunReturns, Synthesized
<1>5. CASE DecideReturns(g, o) \/ SealReturns(g, o) \/ BatchReturns(g, o) \/ ExecuteReturns(g, o)
  <2>1. PICK S : Writes(g, S)
    <3>1. /\ UNCHANGED directives
          /\ UNCHANGED ledger \/ ledger' = Noted({Record(g, doing[g].item, doing[g].decision)})
      BY <1>5 DEF DecideReturns, SealReturns, BatchReturns, ExecuteReturns, Simulated
    <3>2. Writes(g, {}) \/ Writes(g, {Record(g, doing[g].item, doing[g].decision)})
      BY <3>1 DEF Writes, Record
    <3> QED
      BY <3>2
  <2>2. /\ UNCHANGED directives /\ leg[g] \in {"decide", "seal", "batch", "execute"}
        /\ Ends(g) \/ \E i, d : Sends(g, "batch", i, d)
        /\ \/ UNCHANGED doing
           \/ \E n, i : doing' = [doing EXCEPT ![g].at = n, ![g].item = i]
    BY <1>5 DEF DecideReturns, SealReturns, BatchReturns, ExecuteReturns
  <2>3. /\ doing[g].kind \in {"decide", "seal", "batch", "execute"}
        /\ DOMAIN doing = Gestures /\ DOMAIN doing[g] = Fields
    BY <2>2 DEF IInv, Agrees, Submits, Shape
  <2>4. ~ Creates(g)'
    BY <2>2, <2>3 DEF Fields, Creates
  <2>5. ~ Early(g)'
    BY <2>2, Ended, Sent DEF Early
  <2> QED
    BY <1>1, <2>1, <2>2, <2>4, <2>5, TidyLater
<1>6. ASSUME leg[g] \in {"clear", "emit"}, UNCHANGED <<doing, directives>>, leg'[g] \in {"emit", "done"},
             NEW i, NEW a \in {"APPROVE", "released"},
             UNCHANGED ledger \/ ledger' = Noted({Record(g, i, a)})
      PROVE  DInv'
  <2>1. PICK S \in SUBSET {Record(g, i, a)} : Writes(g, S)
    <3>1. Writes(g, {}) \/ Writes(g, {Record(g, i, a)})
      BY <1>6 DEF Writes, Record
    <3> QED
      BY <3>1
  <2>2. Noting(g, "orchestrated") \notin S /\ Noting(g, "synthesized") \notin S
    BY Records DEF Noting
  <2>3. ~ Early(g) /\ ~ Early(g)' /\ (Creates(g)' => Creates(g))
    BY <1>6 DEF Early, Creates
  <2> QED
    BY <1>1, <1>6, <2>1, <2>2, <2>3, TidyLater
<1>7. CASE ClearReturns(g, o)
  BY <1>6, <1>7, Sent DEF ClearReturns
<1>8. CASE EmitReturns(g, o)
  BY <1>6, <1>8, Ended DEF EmitReturns
<1> QED
  BY <1>2, <1>3, <1>4, <1>5, <1>7, <1>8 DEF Settle

LEMMA StepDInv == IInv /\ TInv /\ DInv /\ [Next]_vars => DInv'
<1> SUFFICES ASSUME IInv, TInv, DInv, [Next]_vars PROVE DInv'
  OBVIOUS
<1>1. CASE UNCHANGED <<doing, leg, directives, ledger>>
  BY <1>1 DEF DInv, Tidy, Early, Creates, Noting, Record, Copies
<1>2. CASE Backend
  <2>1. UNCHANGED <<doing, leg, directives, ledger>>
    BY <1>2 DEF Backend, SaveDirective, ExecuteDirective, DecideApproval, DecideDevelopment,
                AdmitTelemetry, Decline, Answers, stores
  <2> QED
    BY <1>1, <2>1
<1>3. CASE Reenter \/ UNCHANGED vars
  BY <1>1, <1>3 DEF Reenter, vars, clientVars, net, stores
<1> QED
  BY <1>2, <1>3, TidyClick, TidyAnswer DEF Next

\* createDirective: however far a creation got before it fell back, it lists its
\* directive once and notes it once, and every task belongs to a listed directive.
THEOREM CreationsAreOnce == Spec => []CreatedOnce
<1>1. Init => DInv
  <2> SUFFICES ASSUME Init PROVE DInv
    OBVIOUS
  <2>1. /\ directives = <<[id |-> Stock, by |-> None]>> /\ DOMAIN ledger = {}
        /\ \A g \in Gestures : leg[g] = "idle"
    BY DEF Init, ClientInit, EmptyBag, SetToBag
  <2>2. ASSUME NEW g \in Gestures PROVE Tidy(g)
    <3>1. NoneBy(directives, g)
      BY <2>1, NamesAssumption DEF NoneBy
    <3> QED
      BY <2>1, <3>1 DEF Tidy, Early, BagIn, BagToSet
  <2> QED
    BY <2>1, <2>2 DEF DInv
<1>2. IInv /\ TInv /\ DInv => CreatedOnce
  <2> SUFFICES ASSUME IInv, TInv, DInv PROVE CreatedOnce
    OBVIOUS
  <2>1. \A g \in Gestures : Creates(g) => leg[g] # "idle"
    BY DEF IInv, Agrees, Creates
  <2> QED
    BY <2>1 DEF TInv, Fits, DInv, Tidy, Early, CreatedOnce
<1>3. IInv /\ TInv /\ DInv /\ [Next]_vars => DInv'
  BY StepDInv
<1> QED
  BY <1>1, <1>2, <1>3, Stored, PTL DEF Spec

=============================================================================
