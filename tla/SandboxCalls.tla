--------------------------- MODULE SandboxCalls ---------------------------
(***************************************************************************)
(* A call of a method of the sandbox SDK from the moment it is made to the *)
(* moment its promise settles: core/fetcher/ with the wrapper every method *)
(* of SandboxEndpoints puts around it.  The promise starts at once, whether *)
(* or not the caller awaits it, and several calls run side by side.        *)
(*                                                                         *)
(* The sandbox and the network between are not in the repository: a        *)
(* request that was sent is on the wire, where it may be carried out, be   *)
(* lost, or stay behind after its call has given up on it.                 *)
(***************************************************************************)
EXTENDS Naturals, SandboxEndpoints

CONSTANTS Calls,       \* the calls of the client program
          Jobs,        \* what each call may ask for: a method, and what it does
          MaxRetries,  \* the largest maxRetries a caller or the client sets
          Refusals,    \* the statuses by which the sandbox declines a request
          Overloads,   \* the statuses of an overloaded or failing server
          None         \* no call

\* What a request does when it is carried out: "make" leaves a new object each
\* time, "set" overwrites a setting, "drop" removes an object once and is
\* declined ever after.  The sandbox is external.
Effects == {"make", "set", "drop"}

\* requestWithRetries.ts:63 -- the statuses after which a request is repeated.
Retryable(status) == status \in {408, 429} \/ status >= 500

ASSUME MaxRetriesAssumption == MaxRetries \in Nat
ASSUME JobsAssumption == Jobs \in [Calls -> SUBSET [method : Methods, effect : Effects]]
ASSUME NoneAssumption == None \notin Calls
ASSUME StatusAssumption ==
    /\ Refusals \subseteq Nat /\ Overloads \subseteq Nat
    /\ \A s \in Refusals : s >= 400 /\ ~ Retryable(s)
    /\ \A s \in Overloads : Retryable(s)

VARIABLES
    phase,     \* where the call stands in the fetcher
    ask,       \* what was asked: the method, the retries left to it, its effect
    aborted,   \* the caller has aborted the call's signal
    tries,     \* how many requests the call has sent
    status,    \* the status of the last answer it received, 0 before any
    verdict,   \* what the promise settled with
    wire,      \* requests sent and neither carried out nor lost: <<call, n>>
    executed,  \* requests the sandbox carried out
    value,     \* the last call whose "set" the sandbox carried out
    before     \* the calls that had returned when the call was made

vars == <<phase, ask, aborted, tries, status, verdict, wire, executed, value, before>>
client == <<phase, ask, aborted, tries, status, verdict, before>>
world == <<wire, executed, value>>

-----------------------------------------------------------------------------
(* What is asked and what comes back                                       *)

Attempts == 1 .. MaxRetries + 1
Requests == Calls \X Attempts
Asks == [method : Methods, effect : Effects, retries : 0 .. MaxRetries]
NoAsk == [method |-> Method("GET", "none", "json", {}), effect |-> "make", retries |-> 0]

Phases == {"idle", "preparing", "sending", "waiting", "reading", "done"}
Settled == {"value", "text", "stream", "typed", "unknown", "rejected"}
Successes == {"value", "text", "stream"}
Answers == {0, 200} \cup Refusals \cup Overloads

Request(c) == <<c, tries[c]>>
Returned == {c \in Calls : phase[c] = "done"}

\* The promise settles with v: HttpResponsePromise unwraps the data for the caller.
Settle(c, v) == /\ phase' = [phase EXCEPT ![c] = "done"]
                /\ verdict' = [verdict EXCEPT ![c] = v]

Init == /\ phase = [c \in Calls |-> "idle"]
        /\ ask = [c \in Calls |-> NoAsk]
        /\ aborted = [c \in Calls |-> FALSE]
        /\ tries = [c \in Calls |-> 0]
        /\ status = [c \in Calls |-> 0]
        /\ verdict = [c \in Calls |-> "none"]
        /\ wire = {}
        /\ executed = {}
        /\ value = None
        /\ before = [c \in Calls |-> {}]

-----------------------------------------------------------------------------
(* The call                                                                *)

\* The method is called: maxRetries is the caller's, else the client's, else 2.
Begin(c) ==
    /\ phase[c] = "idle"
    /\ \E j \in Jobs[c], r \in 0 .. MaxRetries :
           ask' = [ask EXCEPT ![c] =
                      [method |-> j.method, effect |-> j.effect, retries |-> r]]
    /\ phase' = [phase EXCEPT ![c] = "preparing"]
    /\ before' = [before EXCEPT ![c] = Returned]
    /\ UNCHANGED <<aborted, tries, status, verdict, world>>

\* Whatever is thrown before the fetcher's try block rejects the promise.
Rejects(c) ==
    /\ phase[c] = "preparing"
    /\ Settle(c, "rejected")
    /\ UNCHANGED <<ask, aborted, tries, status, before, world>>

\* A function that the caller supplies for the address or a header throws.
SupplierFails(c) == Rejects(c)

\* A file to be uploaded is read before it is sent.
Uploads(c) == ask[c].method.sends = "form"
FileFails(c) == Uploads(c) /\ Rejects(c)

\* A document that JSON cannot express.
EncodingFails(c) == ask[c].method.sends = "json" /\ Rejects(c)

PrepareFails(c) == SupplierFails(c) \/ FileFails(c) \/ EncodingFails(c)

\* Mutant: the caller's signal is joined once, before the first attempt.
MakeRequestUnaborted(c) ==
    /\ phase' = [phase EXCEPT ![c] = "sending"]
    /\ tries' = [tries EXCEPT ![c] = @ + 1]
    /\ wire' = wire \cup {<<c, tries[c] + 1>>}
    /\ UNCHANGED verdict

\* makeRequest: a request with a timer of its own, unless the signal is aborted
\* already, in which case fetch rejects before it sends anything.
MakeRequest(c) ==
    IF aborted[c]
      THEN /\ Settle(c, "unknown")
           /\ UNCHANGED <<tries, wire>>
      ELSE /\ phase' = [phase EXCEPT ![c] = "sending"]
           /\ tries' = [tries EXCEPT ![c] = @ + 1]
           /\ wire' = wire \cup {<<c, tries[c] + 1>>}
           /\ UNCHANGED verdict

Send(c) ==
    /\ phase[c] = "preparing"
    /\ MakeRequest(c)
    /\ UNCHANGED <<ask, aborted, status, executed, value, before>>

\* Mutant: one retry too many.
ReceiveOneMore(c, s) ==
    /\ phase[c] = "sending"
    /\ status' = [status EXCEPT ![c] = s]
    /\ phase' = [phase EXCEPT ![c] =
          IF Retryable(s) /\ tries[c] <= ask[c].retries + 1 THEN "waiting" ELSE "reading"]
    /\ UNCHANGED <<verdict, ask, aborted, tries, before>>

\* requestWithRetries: an answer with status s arrived.  It is waited on when it
\* may be repeated and the budget is not spent; otherwise it is the answer.  The
\* timer is cleared; a binary answer is handed over without being read.
Receive(c, s) ==
    /\ phase[c] = "sending"
    /\ status' = [status EXCEPT ![c] = s]
    /\ IF Retryable(s) /\ tries[c] <= ask[c].retries
         THEN /\ phase' = [phase EXCEPT ![c] = "waiting"]
              /\ UNCHANGED verdict
       ELSE IF s < 400 /\ ask[c].method.answer = "binary"
         THEN Settle(c, "stream")
         ELSE /\ phase' = [phase EXCEPT ![c] = "reading"]
              /\ UNCHANGED verdict
    /\ UNCHANGED <<ask, aborted, tries, before>>

\* The delay of the retry is over; nothing cuts it short.
Wake(c) ==
    /\ phase[c] = "waiting"
    /\ MakeRequest(c)
    /\ UNCHANGED <<ask, aborted, status, executed, value, before>>

\* Mutants: the timer is only set for the first attempt; a late request is repeated.
TimeoutFirstOnly(c) ==
    /\ phase[c] = "sending" /\ tries[c] = 1
    /\ Settle(c, "unknown")
    /\ UNCHANGED <<ask, aborted, tries, status, before, world>>

TimeoutRepeating(c) ==
    /\ phase[c] = "sending"
    /\ IF tries[c] <= ask[c].retries
         THEN phase' = [phase EXCEPT ![c] = "waiting"] /\ UNCHANGED verdict
         ELSE Settle(c, "unknown")
    /\ UNCHANGED <<ask, aborted, tries, status, before, world>>

\* The timer fires while the headers are awaited: it aborts with a reason that is
\* not an Error, so the catch block falls through to "unknown".
Timeout(c) ==
    /\ phase[c] = "sending"
    /\ Settle(c, "unknown")
    /\ UNCHANGED <<ask, aborted, tries, status, before, world>>

\* Mutant: a broken connection is thrown to the caller.
DisconnectThrown(c) ==
    /\ phase[c] \in {"sending", "reading"}
    /\ Settle(c, "rejected")
    /\ UNCHANGED <<ask, aborted, tries, status, before, world>>

\* The connection fails while the headers or the body are awaited.
Disconnect(c) ==
    /\ phase[c] \in {"sending", "reading"}
    /\ Settle(c, "unknown")
    /\ UNCHANGED <<ask, aborted, tries, status, before, world>>

\* Mutant: the signal is let go of with the timer, when the headers have arrived.
AbortHeadersOnly(c) ==
    /\ phase[c] \notin {"idle", "done"}
    /\ ~ aborted[c]
    /\ aborted' = [aborted EXCEPT ![c] = TRUE]
    /\ IF phase[c] = "sending" THEN Settle(c, "unknown") ELSE UNCHANGED <<phase, verdict>>
    /\ UNCHANGED <<ask, tries, status, before, world>>

\* The caller aborts: an awaited answer or body rejects at once, a supplier or a
\* delay goes on until it is over.
Abort(c) ==
    /\ phase[c] \notin {"idle", "done"}
    /\ ~ aborted[c]
    /\ aborted' = [aborted EXCEPT ![c] = TRUE]
    /\ IF phase[c] \in {"sending", "reading"}
         THEN Settle(c, "unknown")
         ELSE UNCHANGED <<phase, verdict>>
    /\ UNCHANGED <<ask, tries, status, before, world>>

\* Mutant: every answer is read as a success.
ReadAnswerAny(c) ==
    /\ phase[c] = "reading"
    /\ Settle(c, "value")
    /\ UNCHANGED <<ask, aborted, tries, status, before, world>>

\* getResponseBody: text that does not parse is still a success of the fetcher.
ReadAnswer(c) ==
    /\ phase[c] = "reading"
    /\ status[c] < 400
    /\ \E v \in IF ask[c].method.answer = "json" THEN {"value", "text"} ELSE {"value"} :
           Settle(c, v)
    /\ UNCHANGED <<ask, aborted, tries, status, before, world>>

\* Mutant: every error is taken for the one the method has a type for.
ReadErrorTyped(c) ==
    /\ phase[c] = "reading"
    /\ status[c] >= 400
    /\ Settle(c, "typed")
    /\ UNCHANGED <<ask, aborted, tries, status, before, world>>

\* getErrorResponseBody and the switch of the method.  A body that claims to be
\* JSON and is not throws, and the status is lost with it.
ReadError(c) ==
    /\ phase[c] = "reading"
    /\ status[c] >= 400
    /\ \/ /\ status[c] \in ask[c].method.typed
          /\ Settle(c, "typed")
       \/ Settle(c, "unknown")
    /\ UNCHANGED <<ask, aborted, tries, status, before, world>>

-----------------------------------------------------------------------------
(* The sandbox and the network, which are external                          *)

\* A request is carried out, its caller waiting for it or not.
Execute(c, n) ==
    /\ <<c, n>> \in wire
    /\ ask[c].effect = "drop" => \A m \in Attempts : <<c, m>> \notin executed
    /\ wire' = wire \ {<<c, n>>}
    /\ executed' = executed \cup {<<c, n>>}
    /\ value' = IF ask[c].effect = "set" THEN c ELSE value
    /\ UNCHANGED client

Lose(c, n) ==
    /\ <<c, n>> \in wire
    /\ wire' = wire \ {<<c, n>>}
    /\ UNCHANGED <<executed, value, client>>

AnswerDone(c) ==
    /\ Request(c) \in executed
    /\ Receive(c, 200)
    /\ UNCHANGED world

\* The sandbox declines the request it would have carried out.
AnswerDeclined(c) ==
    /\ Request(c) \in wire
    /\ \E s \in Refusals : Receive(c, s)
    /\ wire' = wire \ {Request(c)}
    /\ UNCHANGED <<executed, value>>

\* An overloaded server or a gateway answers: before the request was carried out,
\* after it was, or while it is still under way behind the gateway.
AnswerOverload(c) ==
    /\ \E s \in Overloads : Receive(c, s)
    /\ \/ wire' = wire \ {Request(c)}
       \/ UNCHANGED wire
    /\ UNCHANGED <<executed, value>>

-----------------------------------------------------------------------------

Client(c) ==
    \/ Begin(c) \/ PrepareFails(c) \/ Send(c) \/ Wake(c) \/ Timeout(c)
    \/ Disconnect(c) \/ Abort(c) \/ ReadAnswer(c) \/ ReadError(c)

Server(c) ==
    \/ AnswerDone(c) \/ AnswerDeclined(c) \/ AnswerOverload(c)
    \/ \E n \in Attempts : Execute(c, n) \/ Lose(c, n)

\* Every call has returned: the program ends when nothing is left on the wire.
Ended == Returned = Calls /\ wire = {} /\ UNCHANGED vars

Next == (\E c \in Calls : Client(c) \/ Server(c)) \/ Ended

\* The two timers of the client fire.  Nothing is assumed of the suppliers, of
\* the caller, of the network and of the sandbox.
Spec == /\ Init /\ [][Next]_vars
        /\ \A c \in Calls : WF_vars(Timeout(c)) /\ WF_vars(Wake(c))

-----------------------------------------------------------------------------
(* Properties                                                              *)

\* Type invariant.
TypeOK ==
    /\ phase \in [Calls -> Phases]
    /\ ask \in [Calls -> Asks]
    /\ aborted \in [Calls -> BOOLEAN]
    /\ tries \in [Calls -> 0 .. MaxRetries + 1]
    /\ status \in [Calls -> Answers]
    /\ verdict \in [Calls -> Settled \cup {"none"}]
    /\ wire \subseteq Requests /\ executed \subseteq Requests
    /\ value \in Calls \cup {None}
    /\ before \in [Calls -> SUBSET Calls]

\* A promise that settles with success does so for the request it sent last, and
\* the sandbox carried that request out; a promise that is rejected, by a supplier
\* or a file that cannot be read, has put nothing on the wire.  (Fetcher.ts: the
\* preparation stands before the try block, the answer is taken inside it.)
VerdictsAreTrue ==
    \A c \in Calls :
        /\ verdict[c] \in Successes => Request(c) \in executed
        /\ verdict[c] = "rejected" => \A n \in Attempts : <<c, n>> \notin wire \cup executed

\* A typed error is the sandbox's refusal of the last request: that request was
\* not carried out and is not under way.  Only an earlier request of the same
\* call can have been, as when a retried deletion finds its object gone.
RefusalsAreFinal ==
    \A c \in Calls : verdict[c] = "typed" =>
        /\ Request(c) \notin wire \cup executed
        /\ (\E n \in Attempts : <<c, n>> \in wire \cup executed) => tries[c] > 1

\* The calls whose caller cannot tell how often their effect takes place.
InDoubt(c) == tries[c] > 1 \/ verdict[c] = "unknown"

\* A setting written by a call that succeeded is only overwritten by a call made
\* before it if that earlier call had ended in doubt: a request that outlives its
\* call is one the caller was told about.  (makeRequest.ts abandons a request at
\* the timer, requestWithRetries.ts after a gateway's answer.)
StaleSetsWereInDoubt ==
    \A c, d \in Calls :
        /\ ask[d].effect = "set" /\ verdict[d] \in Successes
        /\ c \in before[d] /\ value = c
        => InDoubt(c)

\* Once the caller has aborted, the call puts no further request on the wire,
\* whichever delay or supplier it was in.  (makeRequest.ts joins the signals anew
\* for each attempt.)
AbortStopsTraffic ==
    [][\A c \in Calls : aborted[c] => tries'[c] = tries[c]]_vars

\* A request is repeated only when the server said that it may be: never after the
\* timer, a broken connection, an abort, a refusal or a success.
RepeatsWereAskedFor ==
    [][\A c \in Calls : tries[c] > 0 /\ tries'[c] > tries[c] =>
           /\ Retryable(status[c]) /\ phase[c] # "done"
           /\ tries[c] <= ask[c].retries]_vars

\* No request is awaited for ever, however often it is repeated: its call comes to
\* read an answer or returns.  (Each attempt has a timer; the body has none.)
RequestsEnd ==
    \A c \in Calls : phase[c] = "sending" ~> phase[c] \in {"reading", "done"}

\* A call that is aborted after its preparation returns, be it at the end of the
\* delay it is in.
AbortsEnd ==
    \A c \in Calls : aborted[c] /\ phase[c] # "preparing" ~> phase[c] = "done"

-----------------------------------------------------------------------------
(* Refinement: the calls as their callers see them                         *)

Stage(c) ==
    CASE phase[c] = "idle" -> "idle"
      [] phase[c] = "done" -> IF verdict[c] \in Successes THEN "value"
                              ELSE IF verdict[c] = "rejected" THEN "rejected"
                              ELSE "error"
      [] OTHER -> "open"

Remote == INSTANCE RemoteCall WITH
    Budget <- MaxRetries + 1,
    stage <- [c \in Calls |-> Stage(c)],
    effects <- [c \in Calls |-> {n \in Attempts : <<c, n>> \in executed}]

\* The calls of the SDK are calls as RemoteCall promises them: they return once,
\* their effect takes place at most MaxRetries + 1 times, at least once for a
\* value and never for a rejection.
ReturnsOnce == Remote!Spec

=============================================================================
