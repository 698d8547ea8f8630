------------------------ MODULE SandboxCalls_proofs ------------------------
(***************************************************************************)
(* The safety properties of the SDK's calls, for every number of calls, of *)
(* retries and of statuses, by one inductive invariant; and the refinement *)
(* of RemoteCall.                                                          *)
(***************************************************************************)
EXTENDS SandboxCalls, TLAPS

\* Requests that exist were sent: their number is at most the call's count.
SentBefore(c) == \A n \in Attempts : <<c, n>> \in wire \cup executed => n <= tries[c]

\* What the phase of a call says of its other fields.
Progress(c) ==
    /\ phase[c] \in {"idle", "preparing"} => tries[c] = 0
    /\ phase[c] \in {"sending", "waiting", "reading"} => tries[c] > 0
    /\ phase[c] = "sending" => tries[c] <= ask[c].retries + 1
    /\ phase[c] = "waiting" => tries[c] <= ask[c].retries /\ Retryable(status[c])
    /\ phase[c] = "done" <=> verdict[c] # "none"

\* An aborted call is in its preparation or in a delay, or it has returned.
AbortSeen(c) == aborted[c] => phase[c] \in {"preparing", "waiting", "done"}

\* What an answer that is being read, or was, says of the last request.
Answered(c) ==
    /\ phase[c] = "reading" /\ status[c] < 400 => Request(c) \in executed
    /\ phase[c] = "reading" /\ status[c] >= 400 /\ ~ Retryable(status[c])
           => Request(c) \notin wire \cup executed
    /\ verdict[c] \in Successes => Request(c) \in executed
    /\ verdict[c] = "typed" => tries[c] > 0 /\ Request(c) \notin wire \cup executed
    /\ verdict[c] = "rejected" => tries[c] = 0

\* The calls that returned before a call was made have returned.
Earlier(d) == \A c \in before[d] : phase[c] = "done" /\ c # d

\* Once a call that sets has been carried out, an earlier call's value is back only
\* if that call ended in doubt.
Overwritten(c, d) ==
    /\ ask[d].effect = "set" /\ c \in before[d] /\ value = c
    /\ \E n \in Attempts : <<d, n>> \in executed
    => InDoubt(c)

CallsInv ==
    /\ TypeOK
    /\ wire \cap executed = {}
    /\ \A c \in Calls : SentBefore(c) /\ Progress(c) /\ AbortSeen(c) /\ Answered(c)
                        /\ Earlier(c)
    /\ \A c, d \in Calls : Overwritten(c, d)

-----------------------------------------------------------------------------

\* What the assumptions say of the constants.
LEMMA Constants ==
  /\ MaxRetries \in Nat /\ Attempts \subseteq Nat
  /\ 200 \in Answers /\ Refusals \subseteq Answers /\ Overloads \subseteq Answers
  /\ Answers \subseteq Nat
  /\ \A s \in Refusals : s >= 400 /\ ~ Retryable(s)
  /\ \A s \in Overloads : s >= 400 /\ Retryable(s)
BY MaxRetriesAssumption, StatusAssumption DEF Attempts, Answers, Retryable

LEMMA InitInv == Init => CallsInv
BY MaxRetriesAssumption, StatusAssumption, NoneAssumption
   DEF Init, CallsInv, TypeOK, SentBefore, Progress, Answered, Earlier, Overwritten, AbortSeen,
       Phases, Settled, Successes, Answers, Requests, Asks, NoAsk, Method, Methods, Effects

\* The overwriting of settings is untouched by a step of a call that has not
\* returned, unless the step starts a call or carries out a request.
LEMMA OverwrittenKept ==
  ASSUME CallsInv, NEW k \in Calls, phase[k] # "done",
         \A c \in Calls : c # k => tries'[c] = tries[c] /\ verdict'[c] = verdict[c],
         UNCHANGED <<ask, before, executed, value>>
  PROVE  \A c, d \in Calls : Overwritten(c, d)'
<1>1. SUFFICES ASSUME NEW c \in Calls, NEW d \in Calls PROVE Overwritten(c, d)'
  OBVIOUS
<1>2. c \in before[d] => c # k
  BY DEF CallsInv, Earlier
<1>3. ask' = ask /\ before' = before /\ value' = value /\ executed' = executed
  OBVIOUS
<1> QED
  BY <1>2, <1>3 DEF CallsInv, Overwritten, InDoubt

\* A promise may settle with a success whose request was carried out, with a typed
\* error whose request was not, with a rejection before any request, and with an
\* unknown error at any time.
LEMMA SettleInv ==
  ASSUME CallsInv, NEW k \in Calls, NEW v \in Settled,
         phase[k] \notin {"idle", "done"}, Settle(k, v),
         v \in Successes => Request(k) \in executed,
         v = "typed" => tries[k] > 0 /\ Request(k) \notin wire \cup executed,
         v = "rejected" => tries[k] = 0,
         aborted' \in [Calls -> BOOLEAN],
         \A c \in Calls : c # k => aborted'[c] = aborted[c],
         UNCHANGED <<ask, tries, before, world>>,
         status' \in [Calls -> Answers],
         \A c \in Calls : c # k => status'[c] = status[c]
  PROVE  CallsInv'
<1>1. /\ ask' = ask /\ tries' = tries /\ before' = before
      /\ wire' = wire /\ executed' = executed /\ value' = value
  BY DEF world
<1>2. /\ phase'[k] = "done" /\ verdict'[k] = v /\ v # "none"
      /\ \A c \in Calls : c # k => phase'[c] = phase[c] /\ verdict'[c] = verdict[c]
  BY DEF CallsInv, TypeOK, Settle, Settled
<1>3. TypeOK'
  BY <1>1 DEF CallsInv, TypeOK, Settle, Phases
<1>4. ASSUME NEW c \in Calls
      PROVE  (SentBefore(c) /\ Progress(c) /\ AbortSeen(c) /\ Answered(c) /\ Earlier(c))'
  <2>1. SentBefore(c)' /\ Earlier(c)'
    BY <1>1, <1>2 DEF CallsInv, TypeOK, SentBefore, Earlier
  <2>2. Progress(c)' /\ AbortSeen(c)'
    BY <1>1, <1>2 DEF CallsInv, Progress, AbortSeen
  <2>3. Answered(c)'
    BY <1>1, <1>2 DEF CallsInv, Answered, Request, Successes
  <2> QED
    BY <2>1, <2>2, <2>3
<1>5. \A c, d \in Calls : Overwritten(c, d)'
  BY <1>1, <1>2, OverwrittenKept
<1> QED
  BY <1>1, <1>3, <1>4, <1>5 DEF CallsInv

LEMMA BeginInv ==
  ASSUME CallsInv, NEW k \in Calls, Begin(k)
  PROVE  CallsInv'
<1>1. PICK j \in Jobs[k], r \in 0 .. MaxRetries :
        ask' = [ask EXCEPT ![k] = [method |-> j.method, effect |-> j.effect, retries |-> r]]
  BY DEF Begin
<1>2. j \in [method : Methods, effect : Effects]
  BY JobsAssumption
<1>3. [method |-> j.method, effect |-> j.effect, retries |-> r] \in Asks
  BY <1>2 DEF Asks
<1>4. /\ phase[k] = "idle" /\ phase'[k] = "preparing"
      /\ \A c \in Calls : c # k => phase'[c] = phase[c]
      /\ \A c \in Calls : c # k => before'[c] = before[c] /\ ask'[c] = ask[c]
      /\ before'[k] = Returned
      /\ UNCHANGED <<aborted, tries, status, verdict, wire, executed, value>>
  BY <1>1 DEF Begin, CallsInv, TypeOK, world
<1>5. TypeOK'
  <2>1. ask' \in [Calls -> Asks]
    BY <1>1, <1>3 DEF CallsInv, TypeOK
  <2>2. before' \in [Calls -> SUBSET Calls] /\ phase' \in [Calls -> Phases]
    BY DEF Begin, CallsInv, TypeOK, Returned, Phases
  <2> QED
    BY <1>4, <2>1, <2>2 DEF CallsInv, TypeOK
<1>6. ASSUME NEW c \in Calls
      PROVE  (SentBefore(c) /\ Progress(c) /\ AbortSeen(c) /\ Answered(c) /\ Earlier(c))'
  <2>1. SentBefore(c)'
    BY <1>4 DEF CallsInv, SentBefore
  <2>2. Progress(c)'
    BY <1>4 DEF CallsInv, Progress
  <2>3. Answered(c)'
    BY <1>4 DEF CallsInv, Answered, Request
  <2>4. Earlier(c)'
    BY <1>4 DEF CallsInv, TypeOK, Earlier, Returned
  <2>5. AbortSeen(c)'
    BY <1>4 DEF CallsInv, AbortSeen
  <2> QED
    BY <2>1, <2>2, <2>3, <2>4, <2>5
<1>7. ASSUME NEW c \in Calls, NEW d \in Calls PROVE Overwritten(c, d)'
  <2>1. \A n \in Attempts : <<k, n>> \notin executed
    BY <1>4, Constants DEF CallsInv, SentBefore, Progress, Attempts
  <2> QED
    BY <1>4, <2>1 DEF CallsInv, Overwritten, InDoubt
<1> QED
  BY <1>4, <1>5, <1>6, <1>7 DEF CallsInv

LEMMA PrepareFailsInv ==
  ASSUME CallsInv, NEW k \in Calls, PrepareFails(k)
  PROVE  CallsInv'
<1>1. tries[k] = 0
  BY DEF PrepareFails, SupplierFails, FileFails, EncodingFails, Rejects, CallsInv, Progress
<1> QED
  BY <1>1, SettleInv DEF PrepareFails, SupplierFails, FileFails, EncodingFails, Rejects, CallsInv, TypeOK, Settled, Successes

LEMMA GivesUpInv ==
  ASSUME CallsInv, NEW k \in Calls, Timeout(k) \/ Disconnect(k)
  PROVE  CallsInv'
BY SettleInv DEF Timeout, Disconnect, CallsInv, TypeOK, Settled, Successes

LEMMA ReadsInv ==
  ASSUME CallsInv, NEW k \in Calls, ReadAnswer(k) \/ ReadError(k)
  PROVE  CallsInv'
<1>1. CASE ReadAnswer(k)
  <2>1. Request(k) \in executed
    BY <1>1 DEF ReadAnswer, CallsInv, Answered
  <2>2. PICK v \in {"value", "text"} : Settle(k, v)
    BY <1>1 DEF ReadAnswer
  <2> QED
    BY <1>1, <2>1, <2>2, SettleInv DEF ReadAnswer, CallsInv, TypeOK, Settled, Successes
<1>2. CASE ReadError(k)
  <2>1. CASE Settle(k, "unknown")
    BY <1>2, <2>1, SettleInv DEF ReadError, CallsInv, TypeOK, Settled, Successes
  <2>2. CASE status[k] \in ask[k].method.typed /\ Settle(k, "typed")
    <3>1. status[k] \in {409, 422}
      BY <2>2 DEF CallsInv, TypeOK, Asks, Methods
    <3>2. tries[k] > 0 /\ Request(k) \notin wire \cup executed
      BY <1>2, <3>1 DEF ReadError, CallsInv, Progress, Answered, Retryable
    <3> QED
      BY <1>2, <2>2, <3>2, SettleInv DEF ReadError, CallsInv, TypeOK, Settled, Successes
  <2> QED
    BY <1>2, <2>1, <2>2 DEF ReadError
<1> QED
  BY <1>1, <1>2

LEMMA AbortInv ==
  ASSUME CallsInv, NEW k \in Calls, Abort(k)
  PROVE  CallsInv'
<1>1. /\ aborted' \in [Calls -> BOOLEAN] /\ aborted'[k]
      /\ \A c \in Calls : c # k => aborted'[c] = aborted[c]
      /\ phase[k] \notin {"idle", "done"}
      /\ UNCHANGED <<ask, tries, status, before, world>>
  BY Zenon DEF Abort, CallsInv, TypeOK
<1>2. CASE phase[k] \in {"sending", "reading"}
  <2>1. Settle(k, "unknown")
    BY <1>2 DEF Abort
  <2> QED
    BY <1>1, <2>1, SettleInv DEF CallsInv, TypeOK, Settled, Successes
<1>3. CASE phase[k] \notin {"sending", "reading"}
  <2>1. phase' = phase /\ verdict' = verdict
    BY <1>3 DEF Abort
  <2>2. /\ ask' = ask /\ tries' = tries /\ status' = status /\ before' = before
        /\ wire' = wire /\ executed' = executed /\ value' = value
    BY <1>1 DEF world
  <2>3. TypeOK'
    BY <1>1, <2>1, <2>2 DEF CallsInv, TypeOK
  <2>4. ASSUME NEW c \in Calls
        PROVE  (SentBefore(c) /\ Progress(c) /\ Answered(c) /\ Earlier(c))'
    BY <2>1, <2>2 DEF CallsInv, SentBefore, Progress, Answered, Earlier, Request
  <2>5. ASSUME NEW c \in Calls PROVE AbortSeen(c)'
    <3>1. phase[k] \in {"preparing", "waiting", "done"}
      BY <1>1, <1>3 DEF CallsInv, TypeOK, Phases
    <3> QED
      BY <1>1, <2>1, <3>1 DEF CallsInv, AbortSeen
  <2>6. \A c, d \in Calls : Overwritten(c, d)'
    BY <1>1, <2>1, <2>2, OverwrittenKept
  <2> QED
    BY <2>2, <2>3, <2>4, <2>5, <2>6 DEF CallsInv
<1> QED
  BY <1>2, <1>3

\* A request leaves: it is the first of its number, and its call is not aborted.
LEMMA MakeRequestInv ==
  ASSUME CallsInv, NEW k \in Calls, phase[k] \in {"preparing", "waiting"},
         MakeRequest(k), UNCHANGED <<ask, aborted, status, executed, value, before>>
  PROVE  CallsInv'
<1>1. CASE aborted[k]
  BY <1>1, SettleInv DEF MakeRequest, CallsInv, TypeOK, Settled, Successes, world
<1>2. CASE ~ aborted[k]
  <2>1. /\ phase' = [phase EXCEPT ![k] = "sending"]
        /\ tries' = [tries EXCEPT ![k] = @ + 1]
        /\ wire' = wire \cup {<<k, tries[k] + 1>>}
        /\ verdict' = verdict
    BY <1>2 DEF MakeRequest
  <2>2. tries[k] \in Nat /\ tries[k] <= ask[k].retries /\ ask[k].retries \in 0 .. MaxRetries
    BY Constants DEF CallsInv, TypeOK, Progress, Asks
  <2>3. tries[k] + 1 \in Attempts
    BY <2>2, Constants DEF Attempts
  <2>4. \A n \in Attempts : <<k, n>> \in wire \cup executed => n <= tries[k]
    BY DEF CallsInv, SentBefore
  <2>5. <<k, tries[k] + 1>> \notin wire \cup executed
    BY <2>2, <2>3, <2>4
  <2>6. TypeOK'
    <3>1. wire' \subseteq Requests
      BY <2>1, <2>3 DEF CallsInv, TypeOK, Requests
    <3>2. tries' \in [Calls -> 0 .. MaxRetries + 1] /\ phase' \in [Calls -> Phases]
      BY <2>1, <2>2, Constants DEF CallsInv, TypeOK, Phases
    <3> QED
      BY <2>1, <3>1, <3>2 DEF CallsInv, TypeOK
  <2>7. /\ tries'[k] = tries[k] + 1 /\ phase'[k] = "sending"
        /\ \A c \in Calls : c # k => tries'[c] = tries[c] /\ phase'[c] = phase[c]
    BY <2>1 DEF CallsInv, TypeOK
  <2>8. ASSUME NEW c \in Calls
        PROVE  (SentBefore(c) /\ Progress(c) /\ AbortSeen(c) /\ Answered(c) /\ Earlier(c))'
    <3>1. SentBefore(c)'
      BY <2>1, <2>2, <2>7, Constants DEF CallsInv, TypeOK, SentBefore
    <3>2. Progress(c)'
      BY <2>1, <2>2, <2>7 DEF CallsInv, Progress
    <3>3. AbortSeen(c)'
      BY <1>2, <2>7 DEF CallsInv, AbortSeen
    <3>4. Earlier(c)'
      BY <2>7 DEF CallsInv, TypeOK, Earlier
    <3>5. verdict[k] = "none"
      BY DEF CallsInv, Progress
    <3>6. Answered(c)'
      BY <2>1, <2>7, <3>5 DEF CallsInv, Answered, Request, Successes
    <3> QED
      BY <3>1, <3>2, <3>3, <3>4, <3>6
  <2>9. \A c, d \in Calls : Overwritten(c, d)'
    BY <2>1, <2>7, OverwrittenKept
  <2> QED
    BY <2>1, <2>5, <2>6, <2>8, <2>9 DEF CallsInv
<1> QED
  BY <1>1, <1>2

\* An answer arrives, and what it claims of the request is so.
LEMMA ReceiveInv ==
  ASSUME CallsInv, NEW k \in Calls, NEW s \in Answers, Receive(k, s),
         wire' \in SUBSET wire, UNCHANGED <<executed, value>>,
         \A c \in Calls, n \in Attempts :
             <<c, n>> # Request(k) => (<<c, n>> \in wire' <=> <<c, n>> \in wire),
         s < 400 => Request(k) \in executed,
         s >= 400 /\ ~ Retryable(s) => Request(k) \notin wire' \cup executed
  PROVE  CallsInv'
<1>1. /\ phase[k] = "sending" /\ tries[k] > 0 /\ verdict[k] = "none"
      /\ status' = [status EXCEPT ![k] = s]
      /\ status'[k] = s /\ s \in Nat
      /\ \A c \in Calls : c # k => status'[c] = status[c]
      /\ UNCHANGED <<ask, aborted, tries, before, executed, value>>
  BY Constants DEF Receive, CallsInv, TypeOK, Progress
<1>2. /\ \A c \in Calls : c # k => phase'[c] = phase[c] /\ verdict'[c] = verdict[c]
      /\ phase' \in [Calls -> Phases] /\ verdict' \in [Calls -> Settled \cup {"none"}]
      /\ \/ /\ phase'[k] = "waiting" /\ verdict'[k] = "none"
            /\ Retryable(s) /\ tries[k] <= ask[k].retries
         \/ phase'[k] = "done" /\ verdict'[k] = "stream" /\ s < 400
         \/ phase'[k] = "reading" /\ verdict'[k] = "none"
  BY <1>1 DEF Receive, Settle, CallsInv, TypeOK, Phases, Settled
<1>3. TypeOK'
  BY <1>1, <1>2 DEF CallsInv, TypeOK
<1>4. ASSUME NEW c \in Calls
      PROVE  (SentBefore(c) /\ Progress(c) /\ AbortSeen(c) /\ Answered(c) /\ Earlier(c))'
  <2>1. SentBefore(c)'
    BY <1>1 DEF CallsInv, SentBefore
  <2>2. Progress(c)'
    BY <1>1, <1>2 DEF CallsInv, Progress
  <2>3. AbortSeen(c)'
    BY <1>1, <1>2 DEF CallsInv, AbortSeen
  <2>4. Earlier(c)'
    BY <1>1, <1>2 DEF CallsInv, TypeOK, Earlier
  <2>5. Answered(c)'
    <3>1. CASE c = k
      BY <1>1, <1>2, <3>1 DEF Answered, Request, Successes
    <3>2. CASE c # k
      BY <1>1, <1>2, <3>2 DEF CallsInv, Answered, Request
    <3> QED
      BY <3>1, <3>2
  <2> QED
    BY <2>1, <2>2, <2>3, <2>4, <2>5
<1>5. \A c, d \in Calls : Overwritten(c, d)'
  BY <1>1, <1>2, OverwrittenKept
<1> QED
  BY <1>1, <1>3, <1>4, <1>5 DEF CallsInv

LEMMA AnswersInv ==
  ASSUME CallsInv, NEW k \in Calls,
         AnswerDone(k) \/ AnswerDeclined(k) \/ AnswerOverload(k)
  PROVE  CallsInv'
<1>1. CASE AnswerDone(k)
  <2>1. Receive(k, 200) /\ Request(k) \in executed /\ UNCHANGED <<wire, executed, value>>
    BY <1>1 DEF AnswerDone, world
  <2> QED
    BY <2>1, Constants, ReceiveInv
<1>2. CASE AnswerDeclined(k)
  <2>1. PICK s \in Refusals : Receive(k, s)
    BY <1>2 DEF AnswerDeclined
  <2>2. Request(k) \in wire /\ wire' = wire \ {Request(k)} /\ UNCHANGED <<executed, value>>
    BY <1>2 DEF AnswerDeclined
  <2>3. Request(k) \notin executed /\ s \in Answers /\ s >= 400 /\ s \in Nat
    BY <2>2, Constants DEF CallsInv
  <2> QED
    BY <2>1, <2>2, <2>3, ReceiveInv
<1>3. CASE AnswerOverload(k)
  <2>1. PICK s \in Overloads : Receive(k, s)
    BY <1>3 DEF AnswerOverload
  <2>2. /\ wire' = wire \/ wire' = wire \ {Request(k)}
        /\ UNCHANGED <<executed, value>>
    BY <1>3 DEF AnswerOverload
  <2>3. s \in Answers /\ s >= 400 /\ s \in Nat /\ Retryable(s)
    BY Constants
  <2> QED
    BY <2>1, <2>2, <2>3, ReceiveInv
<1> QED
  BY <1>1, <1>2, <1>3

\* A call that returned and left no doubt has nothing on the wire.
LEMMA NothingBehind ==
  ASSUME CallsInv, NEW c \in Calls, phase[c] = "done", ~ InDoubt(c), NEW n \in Attempts
  PROVE  <<c, n>> \notin wire
<1>1. n <= tries[c] \/ <<c, n>> \notin wire
  BY DEF CallsInv, SentBefore
<1>2. tries[c] \in Nat /\ n \in Nat /\ n > 0
  BY Constants DEF CallsInv, TypeOK, Attempts
<1>3. verdict[c] \in Successes \cup {"typed", "rejected"}
  BY DEF CallsInv, TypeOK, Progress, InDoubt, Settled, Successes
<1>4. CASE verdict[c] = "rejected"
  BY <1>1, <1>2, <1>4 DEF CallsInv, Answered
<1>5. CASE verdict[c] # "rejected"
  <2>1. Request(c) \notin wire
    BY <1>3, <1>5 DEF CallsInv, Answered
  <2> QED
    BY <1>1, <1>2, <2>1 DEF InDoubt, Request
<1> QED
  BY <1>4, <1>5

LEMMA ExecuteInv ==
  ASSUME CallsInv, NEW k \in Calls, NEW m \in Attempts, Execute(k, m)
  PROVE  CallsInv'
<1>1. /\ <<k, m>> \in wire /\ wire' = wire \ {<<k, m>>}
      /\ executed' = executed \cup {<<k, m>>}
      /\ value' = IF ask[k].effect = "set" THEN k ELSE value
      /\ UNCHANGED <<phase, ask, aborted, tries, status, verdict, before>>
  BY DEF Execute, client
<1>2. TypeOK'
  BY <1>1 DEF CallsInv, TypeOK, Requests
<1>3. (wire \cap executed = {})'
  BY <1>1 DEF CallsInv
<1>4. ASSUME NEW c \in Calls
      PROVE  (SentBefore(c) /\ Progress(c) /\ AbortSeen(c) /\ Answered(c) /\ Earlier(c))'
  <2>1. wire' \cup executed' = wire \cup executed /\ executed \subseteq executed'
    BY <1>1
  <2>2. SentBefore(c)' /\ Answered(c)'
    BY <1>1, <2>1 DEF CallsInv, SentBefore, Answered, Request
  <2>3. Progress(c)' /\ AbortSeen(c)' /\ Earlier(c)'
    BY <1>1 DEF CallsInv, Progress, AbortSeen, Earlier
  <2> QED
    BY <2>2, <2>3
<1>5. ASSUME NEW c \in Calls, NEW d \in Calls,
             ask[d].effect = "set", c \in before[d], value' = c, ~ InDoubt(c),
             NEW n \in Attempts, <<d, n>> \in executed'
      PROVE  FALSE
  <2>1. phase[c] = "done" /\ c # d
    BY <1>5 DEF CallsInv, Earlier
  <2>2. c # k
    BY <1>1, <1>5, <2>1, NothingBehind
  <2>3. value = c /\ d # k
    BY <1>1, <1>5, <2>2
  <2>4. <<d, n>> \in executed
    BY <1>1, <1>5, <2>3
  <2> QED
    BY <1>5, <2>3, <2>4 DEF CallsInv, Overwritten
<1>6. \A c, d \in Calls : Overwritten(c, d)'
  BY <1>1, <1>5 DEF Overwritten, InDoubt
<1> QED
  BY <1>2, <1>3, <1>4, <1>6 DEF CallsInv

LEMMA LoseInv ==
  ASSUME CallsInv, NEW k \in Calls, NEW m \in Attempts, Lose(k, m)
  PROVE  CallsInv'
<1>1. /\ wire' = wire \ {<<k, m>>}
      /\ UNCHANGED <<phase, ask, aborted, tries, status, verdict, before, executed, value>>
  BY DEF Lose, client
<1>2. TypeOK' /\ (wire \cap executed = {})'
  BY <1>1 DEF CallsInv, TypeOK
<1>3. ASSUME NEW c \in Calls
      PROVE  (SentBefore(c) /\ Progress(c) /\ AbortSeen(c) /\ Answered(c) /\ Earlier(c))'
  BY <1>1 DEF CallsInv, SentBefore, Progress, AbortSeen, Answered, Earlier, Request
<1>4. \A c, d \in Calls : Overwritten(c, d)'
  BY <1>1 DEF CallsInv, Overwritten, InDoubt
<1> QED
  BY <1>2, <1>3, <1>4 DEF CallsInv

LEMMA StepInv == CallsInv /\ [Next]_vars => CallsInv'
<1>1. SUFFICES ASSUME CallsInv, [Next]_vars PROVE CallsInv'
  OBVIOUS
<1>2. CASE UNCHANGED vars
  BY <1>1, <1>2 DEF CallsInv, TypeOK, SentBefore, Progress, AbortSeen, Answered, Earlier,
                    Overwritten, InDoubt, Request, vars
<1>3. ASSUME NEW c \in Calls, Client(c) PROVE CallsInv'
  <2>1. CASE Send(c) \/ Wake(c)
    BY <1>1, <2>1, MakeRequestInv DEF Send, Wake
  <2> QED
    BY <1>1, <1>3, <2>1, BeginInv, PrepareFailsInv, GivesUpInv, AbortInv, ReadsInv DEF Client
<1>4. ASSUME NEW c \in Calls, Server(c) PROVE CallsInv'
  BY <1>1, <1>4, AnswersInv, ExecuteInv, LoseInv DEF Server
<1> QED
  BY <1>1, <1>2, <1>3, <1>4 DEF Next, Ended

-----------------------------------------------------------------------------

\* The inductive invariant holds of every behaviour.
THEOREM Invariant == Spec => []CallsInv
<1>1. Init => CallsInv
  BY InitInv
<1>2. CallsInv /\ [Next]_vars => CallsInv'
  BY StepInv
<1> QED
  BY <1>1, <1>2, PTL DEF Spec

\* The variables keep their types (SandboxCalls, the state of the fetcher).
THEOREM TypeCorrect == Spec => []TypeOK
<1>1. CallsInv => TypeOK
  BY DEF CallsInv
<1> QED
  BY <1>1, Invariant, PTL

\* A success was carried out and a rejection was not (Fetcher.ts: the preparation
\* stands before the try block).
THEOREM TrueVerdicts == Spec => []VerdictsAreTrue
<1>1. CallsInv => VerdictsAreTrue
  BY Constants DEF CallsInv, TypeOK, VerdictsAreTrue, Answered, SentBefore, Attempts
<1> QED
  BY <1>1, Invariant, PTL

\* A typed error is the refusal of the last request (the switch of every method).
THEOREM FinalRefusals == Spec => []RefusalsAreFinal
<1>1. ASSUME CallsInv, NEW c \in Calls, verdict[c] = "typed"
      PROVE  /\ Request(c) \notin wire \cup executed
             /\ (\E n \in Attempts : <<c, n>> \in wire \cup executed) => tries[c] > 1
  <2>1. Request(c) \notin wire \cup executed /\ tries[c] > 0
    BY <1>1 DEF CallsInv, Answered
  <2>2. ASSUME NEW n \in Attempts, <<c, n>> \in wire \cup executed PROVE tries[c] > 1
    <3>1. n <= tries[c] /\ n # tries[c] /\ n \in Nat /\ n > 0 /\ tries[c] \in Nat
      BY <1>1, <2>1, <2>2, Constants DEF CallsInv, TypeOK, SentBefore, Request, Attempts
    <3> QED
      BY <3>1
  <2> QED
    BY <2>1, <2>2
<1>2. CallsInv => RefusalsAreFinal
  BY <1>1 DEF RefusalsAreFinal
<1> QED
  BY <1>2, Invariant, PTL

\* A setting falls back to an earlier call's only if that call ended in doubt
\* (makeRequest.ts and requestWithRetries.ts abandon requests under way).
THEOREM StaleSets == Spec => []StaleSetsWereInDoubt
<1>1. CallsInv => StaleSetsWereInDoubt
  <2>1. ASSUME CallsInv, NEW d \in Calls, verdict[d] \in Successes
        PROVE  \E n \in Attempts : <<d, n>> \in executed
    BY <2>1 DEF CallsInv, TypeOK, Answered, Request, Requests
  <2> QED
    BY <2>1 DEF CallsInv, Overwritten, StaleSetsWereInDoubt
<1> QED
  BY <1>1, Invariant, PTL

\* What a step may do to the number of requests a call has sent.
LEMMA TriesStep ==
  ASSUME CallsInv, [Next]_vars, NEW c \in Calls
  PROVE  \/ tries'[c] = tries[c]
         \/ phase[c] \in {"preparing", "waiting"} /\ ~ aborted[c]
<1>1. ASSUME NEW k \in Calls, Client(k) \/ Server(k)
      PROVE  \/ tries' = tries
             \/ /\ phase[k] \in {"preparing", "waiting"} /\ ~ aborted[k]
                /\ tries' = [tries EXCEPT ![k] = @ + 1]
  BY <1>1 DEF Client, Server, Begin, PrepareFails, SupplierFails, FileFails,
              EncodingFails, Rejects, Send, Wake, MakeRequest, Timeout,
              Disconnect, Abort, ReadAnswer, ReadError, AnswerDone, AnswerDeclined,
              AnswerOverload, Receive, Execute, Lose, client
<1>2. \/ tries' = tries
      \/ \E k \in Calls : /\ phase[k] \in {"preparing", "waiting"} /\ ~ aborted[k]
                          /\ tries' = [tries EXCEPT ![k] = @ + 1]
  BY <1>1 DEF Next, Ended, vars
<1> QED
  BY <1>2 DEF CallsInv, TypeOK

\* An aborted call sends nothing more (makeRequest.ts joins the signals anew).
THEOREM AbortsStopTraffic == Spec => AbortStopsTraffic
<1>1. CallsInv /\ [Next]_vars => [\A c \in Calls : aborted[c] => tries'[c] = tries[c]]_vars
  BY TriesStep
<1> QED
  BY <1>1, Invariant, PTL DEF Spec, AbortStopsTraffic

\* Only an answer that allows it is followed by a repetition (requestWithRetries.ts).
THEOREM RepeatsAsked == Spec => RepeatsWereAskedFor
<1>1. ASSUME CallsInv, [Next]_vars, NEW c \in Calls, tries[c] > 0, tries'[c] > tries[c]
      PROVE  Retryable(status[c]) /\ phase[c] # "done" /\ tries[c] <= ask[c].retries
  <2>1. tries[c] \in Nat
    BY <1>1 DEF CallsInv, TypeOK
  <2>2. phase[c] \in {"preparing", "waiting"}
    BY <1>1, <2>1, TriesStep
  <2> QED
    BY <1>1, <2>1, <2>2 DEF CallsInv, Progress
<1>2. CallsInv /\ [Next]_vars =>
        [\A c \in Calls : tries[c] > 0 /\ tries'[c] > tries[c] =>
             /\ Retryable(status[c]) /\ phase[c] # "done"
             /\ tries[c] <= ask[c].retries]_vars
  BY <1>1
<1> QED
  BY <1>2, Invariant, PTL DEF Spec, RepeatsWereAskedFor

-----------------------------------------------------------------------------
(* Refinement                                                              *)

Happened(c) == {n \in Attempts : <<c, n>> \in executed}
StageMap == [c \in Calls |-> Stage(c)]
EffectMap == [c \in Calls |-> Happened(c)]

\* A step of a call that leaves the sandbox alone is a step of its stage.
LEMMA StageStep ==
  ASSUME NEW k \in Calls, executed' = executed,
         \A c \in Calls : c # k => phase'[c] = phase[c] /\ verdict'[c] = verdict[c]
  PROVE  /\ StageMap' = [StageMap EXCEPT ![k] = Stage(k)']
         /\ EffectMap' = EffectMap
<1>1. \A c \in Calls : c # k => Stage(c)' = Stage(c)
  BY DEF Stage
<1> QED
  BY <1>1 DEF StageMap, EffectMap, Happened

LEMMA RemoteInit == Init => Remote!Init
BY DEF Init, Remote!Init, Stage

LEMMA RemoteStep ==
  ASSUME CallsInv, CallsInv', [Next]_vars
  PROVE  [Remote!Next]_<<StageMap, EffectMap>>
<1> USE DEF Happened
<1>1. CASE UNCHANGED vars
  BY <1>1 DEF vars, StageMap, EffectMap, Stage
<1>2. ASSUME NEW k \in Calls, Client(k) \/ AnswerDone(k) \/ AnswerDeclined(k) \/ AnswerOverload(k)
      PROVE  [Remote!Next]_<<StageMap, EffectMap>>
  <2>1. /\ executed' = executed
        /\ \A c \in Calls : c # k => phase'[c] = phase[c] /\ verdict'[c] = verdict[c]
    BY <1>2 DEF CallsInv, TypeOK, Client, Begin, PrepareFails, SupplierFails, FileFails,
              EncodingFails, Rejects, Send, Wake, MakeRequest, Timeout,
              Disconnect, Abort, ReadAnswer, ReadError, AnswerDone, AnswerDeclined,
              AnswerOverload, Receive, Settle, world
  <2>2. /\ StageMap' = [StageMap EXCEPT ![k] = Stage(k)']
        /\ EffectMap' = EffectMap
    BY <2>1, StageStep
  <2>3. \/ Stage(k)' = Stage(k)
        \/ Stage(k) = "idle" /\ Stage(k)' = "open"
        \/ /\ Stage(k) = "open"
           /\ \/ Stage(k)' = "value" /\ verdict'[k] \in Successes
              \/ Stage(k)' = "error"
              \/ Stage(k)' = "rejected" /\ verdict'[k] = "rejected"
    BY <1>2 DEF CallsInv, TypeOK, Progress, Phases, Settled, Client, Begin, PrepareFails, SupplierFails, FileFails,
              EncodingFails, Rejects, Send,
              Wake, MakeRequest, Timeout, Disconnect, Abort, ReadAnswer, ReadError, AnswerDone,
              AnswerDeclined, AnswerOverload, Receive, Settle, Stage, Successes
  <2>4. verdict'[k] \in Successes => Happened(k) # {}
    BY <2>1 DEF CallsInv, TypeOK, Answered, Request, Requests
  <2>5. verdict'[k] = "rejected" => Happened(k) = {}
    BY <2>1, Constants DEF CallsInv, TypeOK, Answered, SentBefore, Attempts
  <2>6. StageMap[k] = Stage(k) /\ EffectMap[k] = Happened(k)
    BY DEF StageMap, EffectMap
  <2>7. CASE Stage(k)' = Stage(k)
    BY <2>2, <2>7 DEF StageMap
  <2>8. CASE Stage(k) = "idle" /\ Stage(k)' = "open"
    BY <2>2, <2>6, <2>8 DEF Remote!Next, Remote!Start, StageMap, EffectMap
  <2>9. CASE Stage(k) = "open" /\ Stage(k)' # "open"
    <3>1. Remote!Return(k)
      BY <2>2, <2>3, <2>4, <2>5, <2>6, <2>9 DEF Remote!Return, StageMap, EffectMap
    <3> QED
      BY <3>1 DEF Remote!Next
  <2> QED
    BY <2>3, <2>7, <2>8, <2>9
<1>3. ASSUME NEW k \in Calls, NEW m \in Attempts, Execute(k, m)
      PROVE  [Remote!Next]_<<StageMap, EffectMap>>
  <2>1. /\ <<k, m>> \in wire /\ executed' = executed \cup {<<k, m>>}
        /\ phase' = phase /\ verdict' = verdict
    BY <1>3 DEF Execute, client
  <2>2. StageMap' = StageMap
    BY <2>1 DEF StageMap, Stage
  <2>3. EffectMap' = [EffectMap EXCEPT ![k] = @ \cup {m}]
    BY <2>1 DEF EffectMap
  <2>4. m \notin EffectMap[k] /\ m \in 1 .. MaxRetries + 1
    BY <2>1 DEF CallsInv, EffectMap, Attempts
  <2>5. StageMap[k] \in {"open", "value", "error"}
    <3>1. tries[k] > 0
      BY <2>1, Constants DEF CallsInv, TypeOK, SentBefore, Attempts
    <3> QED
      BY <3>1 DEF CallsInv, TypeOK, Progress, Answered, StageMap, Stage
  <2>6. Remote!Happen(k)
    BY <2>2, <2>3, <2>4, <2>5 DEF Remote!Happen, StageMap, EffectMap
  <2> QED
    BY <2>6 DEF Remote!Next
<1>4. ASSUME NEW k \in Calls, NEW m \in Attempts, Lose(k, m)
      PROVE  [Remote!Next]_<<StageMap, EffectMap>>
  BY <1>4 DEF Lose, client, StageMap, EffectMap, Stage
<1> QED
  BY <1>1, <1>2, <1>3, <1>4 DEF Next, Ended, Server

\* The SDK's calls are the calls that RemoteCall specifies.
THEOREM Refinement == Spec => ReturnsOnce
<1>1. Init => Remote!Init
  BY RemoteInit
<1>2. CallsInv /\ CallsInv' /\ [Next]_vars => [Remote!Next]_<<StageMap, EffectMap>>
  BY RemoteStep
<1> QED
  BY <1>1, <1>2, Invariant, PTL DEF Spec, ReturnsOnce, Remote!Spec, StageMap, EffectMap, Happened

=============================================================================
