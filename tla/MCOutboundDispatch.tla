------------------------- MODULE MCOutboundDispatch -------------------------
(* Values of the constants that a .cfg cannot write down.                  *)
EXTENDS OutboundDispatch, TLC

CONSTANTS c1, c2, d1, d2

UnitAmounts == [d \in Dispatch |-> 1]

(* One at a time: timeouts, holds, resumptions and a revocation, no fault  *)
(* or restart.                                                             *)
SequentialLimit ==
  [call |-> 5, hold |-> 2, resume |-> 2, approve |-> 2, revoke |-> 1,
   restart |-> 0, fault |-> 0]

(* Everything else, once.                                                  *)
HostileLimit ==
  [call |-> 2, hold |-> 1, resume |-> 1, approve |-> 2, revoke |-> 0,
   restart |-> 1, fault |-> 1]

(* Two callers and nothing else.                                           *)
RacingLimit ==
  [call |-> 2, hold |-> 0, resume |-> 0, approve |-> 1, revoke |-> 0,
   restart |-> 0, fault |-> 0]

(* One caller whose dispatch is revoked between two calls.                 *)
RevokedLimit ==
  [call |-> 2, hold |-> 0, resume |-> 1, approve |-> 1, revoke |-> 1,
   restart |-> 0, fault |-> 0]

(* One caller and one hold.                                                *)
HeldLimit ==
  [call |-> 1, hold |-> 1, resume |-> 0, approve |-> 1, revoke |-> 0,
   restart |-> 0, fault |-> 0]
=============================================================================
