---------------------------- MODULE ControlPlane ----------------------------
(***************************************************************************)
(* The reference monitor for remote transmit, open_sstv/remote/control.py. *)
(*                                                                         *)
(* Every public method holds one lock (_lock) for its whole decision, so a *)
(* method body is one action.  What is not atomic is the delivery of its   *)
(* decision: callbacks (transmit, unkey) are appended to a queue under     *)
(* _lock and run later, by whichever calling thread holds _dispatch_lock,  *)
(* with _lock released.  That part is modelled thread by thread.           *)
(*                                                                         *)
(* Time.  The code compares time.monotonic() with recorded instants.  Here *)
(* each recorded instant is replaced by its age, which saturates one above *)
(* the largest limit it is compared with, so time runs for ever in finitely*)
(* many states.  An age nobody reads is kept at 0.                         *)
(*                                                                         *)
(* Gates.  enabled(), rig_ready() and tx_busy() are injected callables;    *)
(* their answers are the arguments en, rdy and busy of the actions, any    *)
(* answer being possible here.  RemoteTx supplies the application's.       *)
(***************************************************************************)
EXTENDS Integers, Sequences, FiniteSets

CONSTANTS
  Clients,            \* remote client ids
  NoClient,           \* _lease_holder is None
  Handlers,           \* HTTP request threads
  Ticker,             \* the server's tick thread
  Gui,                \* the Qt GUI thread
  HeartbeatTimeout,   \* HEARTBEAT_TIMEOUT_S, in time units
  MinTxInterval,      \* MIN_TX_INTERVAL_S
  LeaseTimeout,       \* LEASE_TIMEOUT_S
  ConfirmWindow,      \* CONFIRM_WINDOW_S
  MaxRequests         \* bound: tokens minted in one behaviour

Threads == Handlers \cup {Ticker, Gui}

ASSUME ConstantsAssumption ==
  /\ NoClient \notin Clients
  /\ Ticker \notin Handlers /\ Gui \notin Handlers /\ Ticker # Gui
  /\ HeartbeatTimeout \in Nat /\ LeaseTimeout \in Nat
  /\ MinTxInterval \in Nat /\ ConfirmWindow \in Nat
  /\ MaxRequests \in Nat

VARIABLES
  state,        \* _state
  leaseHolder,  \* _lease_holder
  seenAge,      \* now - _lease_seen, read while the lease is held
  confirmToken, \* _confirm_token; 0 is None, request n mints token n
  tokenAge,     \* now - (instant of the request), read while awaiting
  pending,      \* _pending; 0 is None, n the (image, mode) of request n
  hbAge,        \* now - _tx_last_hb, read while transmitting
  endAge,       \* now - _last_tx_end; MinTxInterval also stands for None
  queue,        \* _pending_dispatch
  pc,           \* where each thread is: outside, waiting to drain, draining
  calling,      \* the callback each thread is running
  issued,       \* tokens minted so far (secrets.token_urlsafe is fresh)
  requester,    \* history: who made request n
  finished,     \* history: requests whose transmission ended by itself
  lastRun       \* history: the callback that returned last

planeVars == <<state, leaseHolder, seenAge, confirmToken, tokenAge, pending,
               hbAge, endAge>>
dispatchVars == <<queue, pc, calling>>
history == <<issued, requester, finished>>
vars == <<planeVars, dispatchVars, history, lastRun>>

Requests == 1..MaxRequests
Call == [kind : {"transmit", "unkey"}, req : Requests]
NoCall == [kind |-> "none", req |-> 0]

TypeOK ==
  /\ state \in {"idle", "awaiting_confirm", "transmitting"}
  /\ leaseHolder \in Clients \cup {NoClient}
  /\ seenAge \in 0..(LeaseTimeout + 1)
  /\ confirmToken \in 0..MaxRequests
  /\ tokenAge \in 0..(ConfirmWindow + 1)
  /\ pending \in 0..MaxRequests
  /\ hbAge \in 0..(HeartbeatTimeout + 1)
  /\ endAge \in 0..MinTxInterval
  /\ queue \in Seq(Call)
  /\ pc \in [Threads -> {"outside", "waiting", "draining", "leaving"}]
  /\ calling \in [Threads -> Call \cup {NoCall}]
  /\ issued \in 0..MaxRequests
  /\ requester \in [Requests -> Clients \cup {NoClient}]
  /\ finished \in SUBSET Requests
  /\ lastRun \in Call \cup {NoCall}

Init ==
  /\ state = "idle" /\ leaseHolder = NoClient /\ seenAge = 0
  /\ confirmToken = 0 /\ tokenAge = 0 /\ pending = 0
  /\ hbAge = 0 /\ endAge = MinTxInterval
  /\ queue = <<>>
  /\ pc = [t \in Threads |-> "outside"]
  /\ calling = [t \in Threads |-> NoCall]
  /\ issued = 0
  /\ requester = [n \in Requests |-> NoClient]
  /\ finished = {}
  /\ lastRun = NoCall

-----------------------------------------------------------------------------
(* Pieces of the method bodies.                                            *)

\* _effective_holder: an idle lease whose holder went silent counts as free.
EffectiveHolderInAnyState ==            \* fault: lapses during a transmission
  IF seenAge > LeaseTimeout THEN NoClient ELSE leaseHolder
EffectiveHolder ==
  IF state = "idle" /\ seenAge > LeaseTimeout THEN NoClient ELSE leaseHolder

\* The remote cooldown of request().
CooldownOver == endAge >= MinTxInterval

\* The condition tick() takes for a dead link while transmitting.
SilentByLease == seenAge > LeaseTimeout \* fault: any call of the holder counts
HeartbeatLost == hbAge > HeartbeatTimeout

\* _reset_locked: back to idle; the cooldown starts if a transmission ended.
ResetLocked ==
  /\ state' = "idle" /\ confirmToken' = 0 /\ tokenAge' = 0
  /\ pending' = 0 /\ hbAge' = 0
  /\ endAge' = IF state = "transmitting" THEN 0 ELSE endAge

SetLease(c) == leaseHolder' = c /\ seenAge' = 0

\* What a superseding method queues: an unkey if it interrupts a transmission.
UnkeyAnyRequest ==                      \* fault: unkeys a request not confirmed
  IF state # "idle"
  THEN Append(queue, [kind |-> "unkey", req |-> pending]) ELSE queue
WithUnkey ==
  IF state = "transmitting"
  THEN Append(queue, [kind |-> "unkey", req |-> pending]) ELSE queue

\* A method that ends in _drain leaves its thread at the dispatch lock.
Drains(t) == pc' = [pc EXCEPT ![t] = "waiting"]

LifecycleUnchanged ==
  UNCHANGED <<state, confirmToken, tokenAge, pending, hbAge, endAge>>

-----------------------------------------------------------------------------
(* The public methods, called by thread t.                                 *)

TakeLease(t, c) ==
  /\ pc[t] = "outside"
  /\ EffectiveHolder \in {NoClient, c}
  /\ SetLease(c)
  /\ LifecycleUnchanged
  /\ UNCHANGED <<dispatchVars, history, lastRun>>

\* holds_lease, and a request refused because the lease has lapsed: the only
\* effect is that the lapsed lease is cleared.
LapseLease(t) ==
  /\ pc[t] = "outside"
  /\ leaseHolder # EffectiveHolder
  /\ SetLease(NoClient)
  /\ LifecycleUnchanged
  /\ UNCHANGED <<dispatchVars, history, lastRun>>

\* End the lifecycle, drop the lease, unkey what was on the air.
Supersede(t) ==
  /\ ResetLocked
  /\ SetLease(NoClient)
  /\ queue' = WithUnkey
  /\ Drains(t)
  /\ UNCHANGED <<calling, history, lastRun>>

ReleaseLease(t, c) == pc[t] = "outside" /\ leaseHolder = c /\ Supersede(t)

ReclaimLocal(t) == pc[t] = "outside" /\ Supersede(t)

\* heartbeat looks at _lease_holder itself, so it revives a lapsed lease that
\* nobody has cleared yet.
Heartbeat(t, c) ==
  /\ pc[t] = "outside"
  /\ leaseHolder = c
  /\ SetLease(c)
  /\ hbAge' = 0
  /\ UNCHANGED <<state, confirmToken, tokenAge, pending, endAge>>
  /\ UNCHANGED <<dispatchVars, history, lastRun>>

\* request, granted.  A refusal changes nothing, or is LapseLease.
RequestTx(t, c, en, rdy, busy) ==
  /\ pc[t] = "outside"
  /\ en /\ rdy
  /\ c = EffectiveHolder
  /\ state = "idle"
  /\ ~busy
  /\ CooldownOver
  /\ issued < MaxRequests
  /\ SetLease(c)
  /\ issued' = issued + 1
  /\ requester' = [requester EXCEPT ![issued + 1] = c]
  /\ confirmToken' = issued + 1 /\ tokenAge' = 0 /\ pending' = issued + 1
  /\ state' = "awaiting_confirm"
  /\ UNCHANGED <<hbAge, endAge, dispatchVars, finished, lastRun>>

\* confirm, refused at the keying edge or too late: the request is dropped.
\* (A caller who is not the holder, a wrong state and a bad token change
\* nothing.)
ConfirmRefused(t, c, n, en, rdy, busy) ==
  /\ pc[t] = "outside"
  /\ leaseHolder = c
  /\ state = "awaiting_confirm"
  /\ \/ ~en \/ ~rdy \/ busy
     \/ n = confirmToken /\ tokenAge >= ConfirmWindow
  /\ ResetLocked
  /\ UNCHANGED <<leaseHolder, seenAge, dispatchVars, history, lastRun>>

\* confirm, granted: the one place a transmission starts.
Confirm(t, c, n, en, rdy, busy) ==
  /\ pc[t] = "outside"
  /\ leaseHolder = c
  /\ state = "awaiting_confirm"
  /\ en /\ rdy /\ ~busy
  /\ n = confirmToken
  /\ tokenAge < ConfirmWindow
  /\ state' = "transmitting"
  /\ SetLease(c)
  /\ hbAge' = 0
  /\ confirmToken' = 0 /\ tokenAge' = 0
  /\ queue' = Append(queue, [kind |-> "transmit", req |-> pending])
  /\ Drains(t)
  /\ UNCHANGED <<pending, endAge, calling, history, lastRun>>

\* abort keeps the lease.
Abort(t, c) ==
  /\ pc[t] = "outside"
  /\ leaseHolder = c
  /\ state # "idle"
  /\ ResetLocked
  /\ queue' = WithUnkey
  /\ Drains(t)
  /\ UNCHANGED <<leaseHolder, seenAge, calling, history, lastRun>>

\* on_tx_finished does not drain: it queues nothing.
OnTxFinished(t) ==
  /\ pc[t] = "outside"
  /\ state = "transmitting"
  /\ ResetLocked
  /\ finished' = finished \cup {pending}
  /\ UNCHANGED <<leaseHolder, seenAge, dispatchVars, issued, requester, lastRun>>

\* tick: the dead-man's-switch and the gate (which also drop the lease), the
\* confirm window, then the idle lease of whatever state that leaves.
TickStops(en) == state = "transmitting" /\ (HeartbeatLost \/ ~en)
TickExpires == state = "awaiting_confirm" /\ tokenAge >= ConfirmWindow
TickLapses == (state = "idle" \/ TickExpires) /\ seenAge > LeaseTimeout

Tick(t, en) ==
  /\ pc[t] = "outside"
  /\ IF TickStops(en) \/ TickExpires THEN ResetLocked ELSE LifecycleUnchanged
  /\ IF TickStops(en) \/ TickLapses
     THEN SetLease(NoClient) ELSE UNCHANGED <<leaseHolder, seenAge>>
  /\ queue' = IF TickStops(en) THEN WithUnkey ELSE queue
  /\ Drains(t)
  /\ UNCHANGED <<calling, history, lastRun>>

-----------------------------------------------------------------------------
(* _drain: one thread at a time takes callbacks off the queue and runs     *)
(* them, with the state lock released around each.                         *)

DispatchFree == \A u \in Threads : pc[u] \notin {"draining", "leaving"}

TryDispatch(t) ==                       \* fault: leave the work to the owner
  /\ pc[t] = "waiting"
  /\ pc' = [pc EXCEPT ![t] = IF DispatchFree THEN "draining" ELSE "outside"]
  /\ UNCHANGED <<planeVars, queue, calling, history, lastRun>>
AcquireDispatch(t) ==
  /\ pc[t] = "waiting"
  /\ DispatchFree
  /\ pc' = [pc EXCEPT ![t] = "draining"]
  /\ UNCHANGED <<planeVars, queue, calling, history, lastRun>>

PopCallback(t) ==
  /\ pc[t] = "draining" /\ calling[t] = NoCall
  /\ queue # <<>>
  /\ calling' = [calling EXCEPT ![t] = Head(queue)]
  /\ queue' = Tail(queue)
  /\ UNCHANGED <<planeVars, pc, history, lastRun>>

CallbackReturns(t) ==
  /\ calling[t] # NoCall
  /\ lastRun' = calling[t]
  /\ calling' = [calling EXCEPT ![t] = NoCall]
  /\ UNCHANGED <<planeVars, queue, pc, history>>

\* The queue is seen empty under _lock; _dispatch_lock is released after it.
SeeEmpty(t) ==
  /\ pc[t] = "draining" /\ calling[t] = NoCall
  /\ queue = <<>>
  /\ pc' = [pc EXCEPT ![t] = "leaving"]
  /\ UNCHANGED <<planeVars, queue, calling, history, lastRun>>

LeaveDrain(t) ==
  /\ pc[t] = "leaving"
  /\ pc' = [pc EXCEPT ![t] = "outside"]
  /\ UNCHANGED <<planeVars, queue, calling, history, lastRun>>

Drain(t) == \/ AcquireDispatch(t) \/ PopCallback(t) \/ CallbackReturns(t)
            \/ SeeEmpty(t) \/ LeaveDrain(t)

\* The clock moves on by one unit.
Older(age, limit) == IF age > limit THEN age ELSE age + 1

Advance ==
  /\ seenAge' = IF leaseHolder = NoClient THEN 0 ELSE Older(seenAge, LeaseTimeout)
  /\ tokenAge' = IF state = "awaiting_confirm"
                 THEN Older(tokenAge, ConfirmWindow) ELSE 0
  /\ hbAge' = IF state = "transmitting" THEN Older(hbAge, HeartbeatTimeout) ELSE 0
  /\ endAge' = IF endAge < MinTxInterval THEN endAge + 1 ELSE endAge
  /\ UNCHANGED <<state, leaseHolder, confirmToken, pending, dispatchVars,
                 history, lastRun>>

-----------------------------------------------------------------------------
\* A remote operator's call, carried by an HTTP request thread.
ClientCall(t, c) ==
  \/ TakeLease(t, c) \/ LapseLease(t) \/ ReleaseLease(t, c)
  \/ Heartbeat(t, c) \/ Abort(t, c)
  \/ \E en, rdy, busy \in BOOLEAN :
       \/ RequestTx(t, c, en, rdy, busy)
       \/ \E n \in 0..issued : \/ ConfirmRefused(t, c, n, en, rdy, busy)
                               \/ Confirm(t, c, n, en, rdy, busy)

Next ==
  \/ \E t \in Handlers, c \in Clients : ClientCall(t, c)
  \/ ReclaimLocal(Gui)
  \/ OnTxFinished(Gui)
  \/ \E en \in BOOLEAN : Tick(Ticker, en)
  \/ \E t \in Threads : Drain(t)
  \/ Advance

Spec == Init /\ [][Next]_vars

\* Time passes, the tick thread keeps ticking, callbacks return, and a thread
\* that waits for the dispatch lock is not overtaken for ever.
DrainFairness(t) ==
  /\ SF_vars(AcquireDispatch(t))
  /\ WF_vars(PopCallback(t)) /\ WF_vars(SeeEmpty(t)) /\ WF_vars(LeaveDrain(t))
TickFairness == WF_vars(\E en \in BOOLEAN : Tick(Ticker, en))

FairSpec ==
  /\ Spec
  /\ WF_vars(Advance) /\ TickFairness
  /\ \A t \in Threads : DrainFairness(t) /\ WF_vars(CallbackReturns(t))

\* The same, except that an unkey on another thread than the GUI's may never
\* return: it performs the PTT-off, which can hang on a wedged link.
WedgedSpec ==
  /\ Spec
  /\ WF_vars(Advance) /\ TickFairness
  /\ WF_vars(CallbackReturns(Gui))
  /\ \A t \in Threads :
       /\ DrainFairness(t)
       /\ WF_vars(calling[t].kind = "transmit" /\ CallbackReturns(t))

-----------------------------------------------------------------------------
(* Properties.                                                             *)

\* A request is pending or on the air only for the client that made it and
\* still holds the lease: no second operator can take over, and none is left
\* behind by release, reclaim or the tick sweep (docstring invariant 2).
LeaseBindsTransmission ==
  state # "idle" => /\ leaseHolder = requester[pending]
                    /\ leaseHolder # NoClient

\* A remote request is only ever pending or granted once the cooldown since
\* the previous remote transmission has passed, however that one ended.
CooldownHeld == state # "idle" => endAge >= MinTxInterval

Before(a, b) == \/ a.req < b.req
                \/ a.req = b.req /\ a.kind = "transmit" /\ b.kind = "unkey"

\* Callbacks run one at a time and in the order they were decided: the key of
\* a request before its unkey, and both before anything of a later request
\* (the callback contract of class ControlPlane).
DispatchOrder ==
  /\ \A i, j \in 1..Len(queue) : i < j => Before(queue[i], queue[j])
  /\ \A t \in Threads : calling[t] # NoCall =>
       /\ Before(lastRun, calling[t])
       /\ \A i \in 1..Len(queue) : Before(calling[t], queue[i])
       /\ \A u \in Threads \ {t} : calling[u] = NoCall
  /\ \A i \in 1..Len(queue) : Before(lastRun, queue[i])

\* A key e is accounted for: its transmission ended by itself, or the plane
\* still stands behind it.
Accounted(e) == e.kind = "transmit" => \/ e.req \in finished
                                       \/ state = "transmitting" /\ pending = e.req

Quiet == \A t \in Threads : calling[t] = NoCall

\* The last callback the radio has seen or will see is never the key of a
\* transmission the plane has given up: whatever superseded it has put its
\* unkey behind it.
NoOrphanKey ==
  /\ queue # <<>> => Accounted(queue[Len(queue)])
  /\ queue = <<>> => \A t \in Threads : calling[t] # NoCall => Accounted(calling[t])
  /\ queue = <<>> /\ Quiet => Accounted(lastRun)

\* A queued callback always has a thread that will still drain it, although
\* a drainer may find the queue emptied by another one.
NoStrandedCallback ==
  queue # <<>> => \E t \in Threads : pc[t] \in {"waiting", "draining"}

\* The lease decides who transmits and when: never another client, never
\* within the cooldown.
LeaseHonoured == LeaseBindsTransmission /\ CooldownHeld

\* What the plane has decided reaches the radio: every callback is run, in
\* order, one at a time, and no key without its unkey.
CallbacksKept == DispatchOrder /\ NoOrphanKey /\ NoStrandedCallback

\* The dead-man's-switch: a transmission whose holder falls silent ends
\* (docstring invariant 4; needs FairSpec).
DeadMansSwitch ==
  (state = "transmitting") ~> (state # "transmitting" \/ hbAge = 0)

\* An unkey the plane has decided on is executed.
EveryUnkeyRuns ==
  \A n \in Requests :
    (\E i \in 1..Len(queue) : queue[i] = [kind |-> "unkey", req |-> n])
      ~> (lastRun = [kind |-> "unkey", req |-> n])

\* The carrier of a remote operator who has gone comes down: the transmission
\* ends, and its unkey is executed.
RemoteCarrierEnds == DeadMansSwitch /\ EveryUnkeyRuns

\* control.py's docstring of class ControlPlane says that callers such as
\* reclaim_local no longer block behind an unkey wedged on the rig.
ReclaimNotBlocked == (pc[Gui] = "waiting") ~> (pc[Gui] = "outside")

-----------------------------------------------------------------------------
\* The callback being run, by whichever thread.
Running == IF Quiet THEN NoCall
           ELSE calling[CHOOSE t \in Threads : calling[t] # NoCall]

Promise == INSTANCE PlanePromise WITH calls <- queue, running <- Running

\* The plane implements its abstract promise: whatever the threads, the leases
\* and the clocks do, an observer sees numbered requests that are granted,
\* revoked or finished one after the other and callbacks delivered one by one.
PromiseKept == Promise!Spec

=============================================================================
