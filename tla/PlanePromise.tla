---------------------------- MODULE PlanePromise ----------------------------
(***************************************************************************)
(* What ControlPlane promises the rest of the application, without leases, *)
(* clocks, tokens or threads: requests are numbered, at most one of them   *)
(* is pending or on the air, and the transmit and unkey callbacks are      *)
(* delivered one at a time in the order they were decided.                 *)
(*                                                                         *)
(* ControlPlane implements this (its property PromiseKept); RemoteTx uses  *)
(* it as its control plane.                                                *)
(***************************************************************************)
EXTENDS Integers, Sequences

CONSTANT MaxRequests

VARIABLES
  state,     \* "idle", "awaiting_confirm" or "transmitting"
  pending,   \* the request the state is about, 0 when idle
  issued,    \* requests numbered so far
  calls,     \* callbacks decided and not yet begun
  running    \* the callback being run

promiseVars == <<state, pending, issued, calls, running>>

NoCall == [kind |-> "none", req |-> 0]

Init ==
  /\ state = "idle" /\ pending = 0 /\ issued = 0
  /\ calls = <<>> /\ running = NoCall

Queue(kind) == calls' = Append(calls, [kind |-> kind, req |-> pending])

Request ==
  /\ state = "idle" /\ issued < MaxRequests
  /\ state' = "awaiting_confirm"
  /\ issued' = issued + 1 /\ pending' = issued + 1
  /\ UNCHANGED <<calls, running>>

\* The request goes away before it was confirmed.
Withdraw ==
  /\ state = "awaiting_confirm"
  /\ state' = "idle" /\ pending' = 0
  /\ UNCHANGED <<issued, calls, running>>

Grant ==
  /\ state = "awaiting_confirm"
  /\ state' = "transmitting"
  /\ Queue("transmit")
  /\ UNCHANGED <<pending, issued, running>>

\* The plane ends the transmission: abort, release, reclaim, dead-man's-switch.
Revoke ==
  /\ state = "transmitting"
  /\ state' = "idle" /\ pending' = 0
  /\ Queue("unkey")
  /\ UNCHANGED <<issued, running>>

\* The plane is told that the transmission ended by itself.
Finish ==
  /\ state = "transmitting"
  /\ state' = "idle" /\ pending' = 0
  /\ UNCHANGED <<issued, calls, running>>

Deliver ==
  /\ running = NoCall /\ calls # <<>>
  /\ running' = Head(calls) /\ calls' = Tail(calls)
  /\ UNCHANGED <<state, pending, issued>>

Returned ==
  /\ running # NoCall
  /\ running' = NoCall
  /\ UNCHANGED <<state, pending, issued, calls>>

Next == \/ Request \/ Withdraw \/ Grant \/ Revoke \/ Finish
        \/ Deliver \/ Returned

Spec == Init /\ [][Next]_promiseVars

\* Every decided callback is run.
FairSpec == Spec /\ WF_promiseVars(Deliver) /\ WF_promiseVars(Returned)

=============================================================================
