---------------------------- MODULE RemoteCall ----------------------------
(***************************************************************************)
(* What a caller of the sandbox may rely on when it calls a method of the  *)
(* SDK, whatever the network, the gateway and the sandbox do: the call     *)
(* returns at most once; what it asked for happens at most Budget times,   *)
(* possibly after it has returned; it happened at least once if the call   *)
(* returned a value, and never does if the promise was rejected.           *)
(* SandboxCalls implements this specification.                             *)
(***************************************************************************)
EXTENDS Naturals

CONSTANTS Calls,   \* the calls that are made
          Budget   \* the most requests one call may send

VARIABLES stage,   \* where the call stands for its caller
          effects  \* the requests of the call that the sandbox carried out

Stages == {"idle", "open", "value", "error", "rejected"}

Init == /\ stage = [c \in Calls |-> "idle"]
        /\ effects = [c \in Calls |-> {}]

Start(c) == /\ stage[c] = "idle"
            /\ stage' = [stage EXCEPT ![c] = "open"]
            /\ UNCHANGED effects

\* One of the requests of the call is carried out.
Happen(c) == /\ stage[c] \in {"open", "value", "error"}
             /\ \E n \in (1 .. Budget) \ effects[c] :
                    effects' = [effects EXCEPT ![c] = @ \cup {n}]
             /\ UNCHANGED stage

Return(c) == /\ stage[c] = "open"
             /\ \/ /\ effects[c] # {}
                   /\ stage' = [stage EXCEPT ![c] = "value"]
                \/ stage' = [stage EXCEPT ![c] = "error"]
                \/ /\ effects[c] = {}
                   /\ stage' = [stage EXCEPT ![c] = "rejected"]
             /\ UNCHANGED effects

Next == \E c \in Calls : Start(c) \/ Happen(c) \/ Return(c)

Spec == Init /\ [][Next]_<<stage, effects>>
=============================================================================
