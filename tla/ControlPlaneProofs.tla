------------------------- MODULE ControlPlaneProofs -------------------------
(***************************************************************************)
(* The safety properties of ControlPlane, for every set of clients and     *)
(* handler threads, every timeout and every bound on the requests.         *)
(***************************************************************************)
EXTENDS ControlPlane, SequenceTheorems, TLAPS

\* What the state, the token and the pending request say of one another.
Lifecycle ==
  /\ state = "idle" => pending = 0 /\ confirmToken = 0
  /\ state = "awaiting_confirm" => pending = issued /\ confirmToken = issued
  /\ state = "transmitting" => pending = issued /\ confirmToken = 0
  /\ state # "idle" => pending \in Requests

\* A callback decided so far is of an older request, or the key the plane
\* still stands behind.
DecidedIn(st, last, e) ==
  /\ e.req <= last
  /\ st = "awaiting_confirm" => e.req < last
  /\ st = "transmitting" => e.req < last \/ (e.req = last /\ e.kind = "transmit")
Decided(e) == DecidedIn(state, issued, e)

AllDecided ==
  /\ \A i \in 1..Len(queue) : Decided(queue[i])
  /\ \A t \in Threads : Decided(calling[t])
  /\ Decided(lastRun)

\* One thread at a time is inside the dispatch lock, and only it runs a call.
OneDrainer ==
  /\ \A t, u \in Threads :
       pc[t] \in {"draining", "leaving"} /\ pc[u] \in {"draining", "leaving"}
         => t = u
  /\ \A t \in Threads : calling[t] # NoCall => pc[t] = "draining"

-----------------------------------------------------------------------------
\* What Append returns, element by element.
LEMMA AppendFacts ==
  ASSUME NEW S, NEW q \in Seq(S), NEW e \in S
  PROVE  /\ Append(q, e) \in Seq(S)
         /\ Len(Append(q, e)) = Len(q) + 1
         /\ \A i \in 1..Len(q) : Append(q, e)[i] = q[i]
         /\ Append(q, e)[Len(q) + 1] = e
         /\ Append(q, e) # <<>>
  OBVIOUS

\* What Head and Tail return, element by element.
LEMMA TailFacts ==
  ASSUME NEW S, NEW q \in Seq(S), q # <<>>
  PROVE  /\ Head(q) \in S /\ Head(q) = q[1]
         /\ Tail(q) \in Seq(S)
         /\ Len(q) \in Nat \ {0}
         /\ Len(Tail(q)) = Len(q) - 1
         /\ \A i \in 1..(Len(q) - 1) : Tail(q)[i] = q[i + 1]
  <1>1. Len(q) \in Nat \ {0}
    BY EmptySeq
  <1>2. /\ Head(q) \in S /\ Tail(q) \in Seq(S) /\ Len(Tail(q)) = Len(q) - 1
        /\ \A i \in 1..Len(Tail(q)) : Tail(q)[i] = q[i + 1]
    BY HeadTailProperties
  <1>3. Head(q) = q[1]
    OBVIOUS
  <1>4. QED
    BY <1>1, <1>2, <1>3

\* The empty queue is the one of length 0.
LEMMA EmptyFacts ==
  ASSUME NEW S, NEW q \in Seq(S)
  PROVE  Len(q) \in Nat /\ (q # <<>> => Len(q) > 0) /\ (q = <<>> => Len(q) = 0)
  BY EmptySeq, LenProperties

\* NoCall is no callback.
LEMMA NoCallFacts ==
  /\ NoCall \notin Call
  /\ NoCall.req = 0 /\ NoCall.kind = "none"
  BY DEF NoCall, Call, Requests

-----------------------------------------------------------------------------
(* The parts of the invariant that speak of callbacks depend on the state  *)
(* of the plane only through Decided and Accounted.                        *)

\* IInv is PlaneInv /\ CallbackInv.
CallbackInv == AllDecided /\ OneDrainer /\ DispatchOrder /\ NoOrphanKey
               /\ NoStrandedCallback
PlaneInv == TypeOK /\ Lifecycle /\ LeaseBindsTransmission /\ CooldownHeld

\* A step that leaves the callbacks where they are, drops none that was
\* decided and keeps the keys accounted for, keeps CallbackInv.
LEMMA CallbacksLeftAlone ==
  ASSUME TypeOK, CallbackInv, UNCHANGED <<queue, calling, lastRun>>,
         \A e \in Call \cup {NoCall} : Decided(e) => Decided(e)',
         \A e : Accounted(e) => Accounted(e)',
         OneDrainer', NoStrandedCallback'
  PROVE  CallbackInv'
  <1>0. /\ \A i \in 1..Len(queue) : queue[i] \in Call
        /\ \A t \in Threads : calling[t] \in Call \cup {NoCall}
        /\ lastRun \in Call \cup {NoCall}
    BY ElementOfSeq DEF TypeOK
  <1>1. AllDecided'
    BY <1>0 DEF CallbackInv, AllDecided
  <1>2. DispatchOrder'
    BY DEF CallbackInv, DispatchOrder, Before
  <1>3. NoOrphanKey'
    BY DEF CallbackInv, NoOrphanKey, Quiet
  <1>4. QED
    BY <1>1, <1>2, <1>3 DEF CallbackInv

\* A thread that goes to wait for the dispatch lock leaves OneDrainer alone.
LEMMA DrainsFacts ==
  ASSUME TypeOK, OneDrainer, NEW t \in Threads, pc[t] = "outside", Drains(t),
         calling' = calling
  PROVE  OneDrainer' /\ pc' \in [Threads -> {"outside", "waiting", "draining", "leaving"}]
         /\ NoStrandedCallback'
  BY DEF TypeOK, OneDrainer, Drains, NoStrandedCallback

\* A superseding step: the lifecycle ends, and an unkey is queued if it was
\* transmitting.  The unkey is behind every callback decided before.
LEMMA SupersedeCallbacks ==
  ASSUME PlaneInv, CallbackInv, ResetLocked, queue' = WithUnkey,
         UNCHANGED <<calling, issued, finished, lastRun>>,
         OneDrainer', NoStrandedCallback'
  PROVE  CallbackInv' /\ queue' \in Seq(Call)
  <1> DEFINE u == [kind |-> "unkey", req |-> pending]
  <1>1. CASE state # "transmitting"
    <2>1. UNCHANGED <<queue, calling, lastRun>>
      BY <1>1 DEF WithUnkey
    <2>2. /\ \A e : Decided(e) => Decided(e)'
          /\ \A e : Accounted(e) => Accounted(e)'
      BY <1>1 DEF ResetLocked, Decided, DecidedIn, Accounted
    <2>3. QED
      BY <2>1, <2>2, CallbacksLeftAlone DEF PlaneInv, TypeOK
  <1>2. CASE state = "transmitting"
    <2>1. u \in Call /\ pending = issued /\ issued \in Nat /\ queue \in Seq(Call)
      BY <1>2, ConstantsAssumption DEF PlaneInv, TypeOK, Lifecycle, Call, Requests
    <2>2. queue' = Append(queue, u)
      BY <1>2 DEF WithUnkey
    <2>3. /\ queue' \in Seq(Call) /\ Len(queue') = Len(queue) + 1 /\ queue' # <<>>
          /\ \A i \in 1..Len(queue) : queue'[i] = queue[i]
          /\ queue'[Len(queue) + 1] = u
      BY <2>1, <2>2, AppendFacts
    <2>4. Len(queue) \in Nat
      BY <2>1, EmptyFacts
    <2>5. \A e : Decided(e) => DecidedIn(state', issued', e) /\ Before(e, u)
      BY <1>2, <2>1 DEF ResetLocked, Decided, DecidedIn, Before
    <2>6. AllDecided'
      <3>1. \A i \in 1..Len(queue') : DecidedIn(state', issued', queue'[i])
        <4> SUFFICES ASSUME NEW i \in 1..Len(queue')
                     PROVE  DecidedIn(state', issued', queue'[i])
          OBVIOUS
        <4>1. CASE i \in 1..Len(queue)
          BY <4>1, <2>3, <2>5 DEF CallbackInv, AllDecided, Decided
        <4>2. CASE i = Len(queue) + 1
          BY <4>2, <2>1, <2>3 DEF DecidedIn, ResetLocked
        <4>3. QED
          BY <4>1, <4>2, <2>3, <2>4
      <3>2. QED
        BY <3>1, <2>5 DEF CallbackInv, AllDecided, Decided
    <2>7. DispatchOrder'
      <3>1. \A i, j \in 1..Len(queue') : i < j => Before(queue'[i], queue'[j])
        <4> SUFFICES ASSUME NEW i \in 1..Len(queue'), NEW j \in 1..Len(queue'), i < j
                     PROVE  Before(queue'[i], queue'[j])
          OBVIOUS
        <4>0. i \in 1..Len(queue) /\ queue'[i] = queue[i] /\ Decided(queue[i])
          BY <2>3, <2>4 DEF CallbackInv, AllDecided
        <4>1. CASE j \in 1..Len(queue)
          BY <4>0, <4>1, <2>3 DEF CallbackInv, DispatchOrder
        <4>2. CASE j = Len(queue) + 1
          BY <4>0, <4>2, <2>3, <2>5
        <4>3. QED
          BY <4>1, <4>2, <2>3, <2>4
      <3>2. ASSUME NEW e, Decided(e), \A i \in 1..Len(queue) : Before(e, queue[i])
            PROVE  \A i \in 1..Len(queue') : Before(e, queue'[i])
        BY <3>2, <2>3, <2>4, <2>5
      <3>3. \A i \in 1..Len(queue') : Before(lastRun, queue'[i])
        BY <3>2 DEF CallbackInv, DispatchOrder, AllDecided
      <3>4. \A t \in Threads : calling[t] # NoCall =>
              \A i \in 1..Len(queue') : Before(calling[t], queue'[i])
        BY <3>2 DEF CallbackInv, DispatchOrder, AllDecided
      <3>5. QED
        BY <3>1, <3>3, <3>4 DEF CallbackInv, DispatchOrder, Before
    <2>8. NoOrphanKey'
      BY <2>3, <2>4 DEF NoOrphanKey, Accounted
    <2>9. QED
      BY <2>3, <2>6, <2>7, <2>8 DEF CallbackInv
  <1>3. QED
    BY <1>1, <1>2

\* Confirming a request queues its key behind everything older.
LEMMA ConfirmCallbacks ==
  ASSUME PlaneInv, CallbackInv, state = "awaiting_confirm",
         state' = "transmitting", pending' = pending,
         queue' = Append(queue, [kind |-> "transmit", req |-> pending]),
         UNCHANGED <<calling, issued, finished, lastRun>>,
         OneDrainer', NoStrandedCallback'
  PROVE  CallbackInv' /\ queue' \in Seq(Call)
  <1> DEFINE k == [kind |-> "transmit", req |-> pending]
  <1>1. k \in Call /\ pending = issued /\ issued \in Nat /\ queue \in Seq(Call)
    BY ConstantsAssumption DEF PlaneInv, TypeOK, Lifecycle, Call, Requests
  <1>2. /\ queue' \in Seq(Call) /\ Len(queue') = Len(queue) + 1 /\ queue' # <<>>
        /\ \A i \in 1..Len(queue) : queue'[i] = queue[i]
        /\ queue'[Len(queue) + 1] = k
    BY <1>1, AppendFacts
  <1>3. Len(queue) \in Nat
    BY <1>1, EmptyFacts
  <1>4. \A e : Decided(e) => DecidedIn(state', issued', e) /\ Before(e, k)
    BY <1>1 DEF Decided, DecidedIn, Before
  <1>5. AllDecided'
    <2>1. \A i \in 1..Len(queue') : DecidedIn(state', issued', queue'[i])
      <3> SUFFICES ASSUME NEW i \in 1..Len(queue')
                   PROVE  DecidedIn(state', issued', queue'[i])
        OBVIOUS
      <3>1. CASE i \in 1..Len(queue)
        BY <3>1, <1>2, <1>4 DEF CallbackInv, AllDecided, Decided
      <3>2. CASE i = Len(queue) + 1
        BY <3>2, <1>1, <1>2 DEF DecidedIn
      <3>3. QED
        BY <3>1, <3>2, <1>2, <1>3
    <2>2. QED
      BY <2>1, <1>4 DEF CallbackInv, AllDecided, Decided
  <1>6. DispatchOrder'
    <2>1. \A i, j \in 1..Len(queue') : i < j => Before(queue'[i], queue'[j])
      <3> SUFFICES ASSUME NEW i \in 1..Len(queue'), NEW j \in 1..Len(queue'), i < j
                   PROVE  Before(queue'[i], queue'[j])
        OBVIOUS
      <3>0. i \in 1..Len(queue) /\ queue'[i] = queue[i] /\ Decided(queue[i])
        BY <1>2, <1>3 DEF CallbackInv, AllDecided
      <3>1. CASE j \in 1..Len(queue)
        BY <3>0, <3>1, <1>2 DEF CallbackInv, DispatchOrder
      <3>2. CASE j = Len(queue) + 1
        BY <3>0, <3>2, <1>2, <1>4
      <3>3. QED
        BY <3>1, <3>2, <1>2, <1>3
    <2>2. ASSUME NEW e, Decided(e), \A i \in 1..Len(queue) : Before(e, queue[i])
          PROVE  \A i \in 1..Len(queue') : Before(e, queue'[i])
      BY <2>2, <1>2, <1>3, <1>4
    <2>3. \A i \in 1..Len(queue') : Before(lastRun, queue'[i])
      BY <2>2 DEF CallbackInv, DispatchOrder, AllDecided
    <2>4. \A t \in Threads : calling[t] # NoCall =>
            \A i \in 1..Len(queue') : Before(calling[t], queue'[i])
      BY <2>2 DEF CallbackInv, DispatchOrder, AllDecided
    <2>5. QED
      BY <2>1, <2>3, <2>4 DEF CallbackInv, DispatchOrder, Before
  <1>7. NoOrphanKey'
    BY <1>2, <1>3 DEF NoOrphanKey, Accounted
  <1>8. QED
    BY <1>2, <1>5, <1>6, <1>7 DEF CallbackInv

-----------------------------------------------------------------------------
\* The initial state satisfies the invariant.
LEMMA InitInv == Init => PlaneInv /\ CallbackInv
  <1> SUFFICES ASSUME Init PROVE PlaneInv /\ CallbackInv
    OBVIOUS
  <1>1. PlaneInv
    BY ConstantsAssumption DEF Init, PlaneInv, TypeOK, Lifecycle, Threads,
       LeaseBindsTransmission, CooldownHeld
  <1>2. Len(queue) = 0
    BY DEF Init
  <1>3. AllDecided /\ OneDrainer
    BY <1>2, NoCallFacts DEF Init, AllDecided, OneDrainer, Decided, DecidedIn, NoCall
  <1>4. DispatchOrder /\ NoOrphanKey /\ NoStrandedCallback
    BY <1>2, NoCallFacts DEF Init, DispatchOrder, NoOrphanKey, NoStrandedCallback, Accounted
  <1>5. QED
    BY <1>1, <1>3, <1>4 DEF CallbackInv

-----------------------------------------------------------------------------
(* One lemma per kind of step.                                             *)

\* Calls that only move the lease or the clock.
LEMMA LeaseAndClockSteps ==
  ASSUME PlaneInv, CallbackInv,
         \/ \E t \in Threads, c \in Clients :
              TakeLease(t, c) \/ LapseLease(t) \/ Heartbeat(t, c)
         \/ Advance
         \/ UNCHANGED vars
  PROVE  PlaneInv' /\ CallbackInv'
  <1>1. UNCHANGED <<state, pending, confirmToken, dispatchVars, history, lastRun>>
    BY DEF TakeLease, LapseLease, Heartbeat, Advance, vars, planeVars,
           LifecycleUnchanged
  <1>2. TypeOK'
    BY <1>1, ConstantsAssumption
    DEF TakeLease, LapseLease, Heartbeat, Advance, vars, planeVars, PlaneInv, TypeOK,
        LifecycleUnchanged, SetLease, Older, dispatchVars, history
  <1>3. Lifecycle'
    BY <1>1 DEF PlaneInv, Lifecycle, history
  <1>4. LeaseBindsTransmission'
    BY <1>1 DEF TakeLease, LapseLease, Heartbeat, Advance, vars, planeVars, PlaneInv,
        LeaseBindsTransmission, SetLease, EffectiveHolder, history
  <1>5. CooldownHeld'
    BY <1>1, ConstantsAssumption
    DEF TakeLease, LapseLease, Heartbeat, Advance, vars, planeVars, PlaneInv,
        TypeOK, CooldownHeld, LifecycleUnchanged
  <1>6. CallbackInv'
    <2>1. UNCHANGED <<queue, calling, lastRun>> /\ OneDrainer' /\ NoStrandedCallback'
      BY <1>1 DEF CallbackInv, OneDrainer, NoStrandedCallback, dispatchVars
    <2>2. /\ \A e : Decided(e) => Decided(e)'
          /\ \A e : Accounted(e) => Accounted(e)'
      BY <1>1 DEF Decided, DecidedIn, Accounted, history
    <2>3. QED
      BY <2>1, <2>2, CallbacksLeftAlone DEF PlaneInv
  <1>7. QED
    BY <1>2, <1>3, <1>4, <1>5, <1>6 DEF PlaneInv

\* What every superseding step does.
Superseding ==
  /\ ResetLocked
  /\ leaseHolder' \in {leaseHolder, NoClient} /\ seenAge' \in {seenAge, 0}
  /\ queue' = WithUnkey
  /\ UNCHANGED <<calling, history, lastRun>>

LEMMA SupersedingKeepsInv ==
  ASSUME PlaneInv, CallbackInv, Superseding, OneDrainer', NoStrandedCallback',
         pc' \in [Threads -> {"outside", "waiting", "draining", "leaving"}]
  PROVE  PlaneInv' /\ CallbackInv'
  <1>1. CallbackInv' /\ queue' \in Seq(Call)
    BY SupersedeCallbacks DEF Superseding, history
  <1>2. TypeOK'
    BY <1>1, ConstantsAssumption DEF Superseding, ResetLocked, PlaneInv, TypeOK, history
  <1>3. Lifecycle' /\ LeaseBindsTransmission' /\ CooldownHeld'
    BY DEF Superseding, ResetLocked, Lifecycle, LeaseBindsTransmission, CooldownHeld
  <1>4. QED
    BY <1>1, <1>2, <1>3 DEF PlaneInv

\* Release, reclaim, abort and the tick sweep, then a refused confirm.
LEMMA SupersedingSteps ==
  ASSUME PlaneInv, CallbackInv,
         \/ \E t \in Threads, c \in Clients : ReleaseLease(t, c) \/ Abort(t, c)
         \/ \E t \in Threads : ReclaimLocal(t)
         \/ \E t \in Threads, en \in BOOLEAN :
              (TickStops(en) \/ TickExpires) /\ Tick(t, en)
  PROVE  PlaneInv' /\ CallbackInv'
  <1>1. PICK t \in Threads : pc[t] = "outside" /\ Drains(t)
    BY DEF ReleaseLease, Abort, ReclaimLocal, Tick, Supersede
  <1>2. Superseding
    <2>1. CASE \E u \in Threads, c \in Clients : ReleaseLease(u, c) \/ Abort(u, c)
      BY <2>1 DEF ReleaseLease, Abort, Supersede, SetLease, Superseding
    <2>2. CASE \E u \in Threads : ReclaimLocal(u)
      BY <2>2 DEF ReclaimLocal, Supersede, SetLease, Superseding
    <2>3. ASSUME NEW u \in Threads, NEW en \in BOOLEAN,
                 TickStops(en) \/ TickExpires, Tick(u, en)
          PROVE  Superseding
      <3>1. queue' = WithUnkey
        BY <2>3 DEF Tick, TickStops, TickExpires, WithUnkey
      <3>2. ResetLocked /\ UNCHANGED <<calling, history, lastRun>>
        BY <2>3 DEF Tick
      <3>3. leaseHolder' \in {leaseHolder, NoClient} /\ seenAge' \in {seenAge, 0}
        BY <2>3 DEF Tick, SetLease
      <3>4. QED
        BY <3>1, <3>2, <3>3 DEF Superseding
    <2>4. QED
      BY <2>1, <2>2, <2>3
  <1>3. /\ OneDrainer' /\ NoStrandedCallback'
        /\ pc' \in [Threads -> {"outside", "waiting", "draining", "leaving"}]
    BY <1>1, <1>2, DrainsFacts DEF PlaneInv, CallbackInv, Superseding
  <1>4. QED
    BY <1>2, <1>3, SupersedingKeepsInv

LEMMA ConfirmRefusedStep ==
  ASSUME PlaneInv, CallbackInv, NEW t \in Threads, NEW c \in Clients, NEW n,
         NEW en, NEW rdy, NEW busy, ConfirmRefused(t, c, n, en, rdy, busy)
  PROVE  PlaneInv' /\ CallbackInv'
  <1>1. Superseding
    BY DEF ConfirmRefused, Superseding, WithUnkey, dispatchVars
  <1>2. /\ OneDrainer' /\ NoStrandedCallback'
        /\ pc' \in [Threads -> {"outside", "waiting", "draining", "leaving"}]
    BY DEF ConfirmRefused, dispatchVars, PlaneInv, TypeOK, CallbackInv, OneDrainer,
           NoStrandedCallback
  <1>3. QED
    BY <1>1, <1>2, SupersedingKeepsInv

\* A tick with nothing to end may still lapse an idle lease.
LEMMA IdleTickStep ==
  ASSUME PlaneInv, CallbackInv, NEW t \in Threads, NEW en,
         ~TickStops(en), ~TickExpires, Tick(t, en)
  PROVE  PlaneInv' /\ CallbackInv'
  <1>1. UNCHANGED <<state, confirmToken, tokenAge, pending, hbAge, endAge,
                    queue, calling, history, lastRun>>
    BY DEF Tick, LifecycleUnchanged
  <1>2. /\ OneDrainer' /\ NoStrandedCallback'
        /\ pc' \in [Threads -> {"outside", "waiting", "draining", "leaving"}]
    BY <1>1, DrainsFacts DEF Tick, PlaneInv, CallbackInv
  <1>3. /\ leaseHolder' \in {leaseHolder, NoClient} /\ seenAge' \in {seenAge, 0}
        /\ state # "idle" => leaseHolder' = leaseHolder
    BY DEF Tick, SetLease, TickLapses, TickExpires
  <1>4. TypeOK'
    BY <1>1, <1>2, <1>3, ConstantsAssumption DEF PlaneInv, TypeOK, history
  <1>5. Lifecycle' /\ LeaseBindsTransmission' /\ CooldownHeld'
    BY <1>1, <1>3 DEF PlaneInv, Lifecycle, LeaseBindsTransmission, CooldownHeld, history
  <1>6. CallbackInv'
    <2>1. /\ \A e : Decided(e) => Decided(e)'
          /\ \A e : Accounted(e) => Accounted(e)'
      BY <1>1 DEF Decided, DecidedIn, Accounted, history
    <2>2. QED
      BY <1>1, <1>2, <2>1, CallbacksLeftAlone DEF PlaneInv
  <1>7. QED
    BY <1>4, <1>5, <1>6 DEF PlaneInv

\* A granted request: everything decided so far becomes older than it.
LEMMA RequestStep ==
  ASSUME PlaneInv, CallbackInv, NEW t \in Threads, NEW c \in Clients,
         NEW en, NEW rdy, NEW busy, RequestTx(t, c, en, rdy, busy)
  PROVE  PlaneInv' /\ CallbackInv'
  <1>1. /\ state = "idle" /\ state' = "awaiting_confirm"
        /\ issued' = issued + 1 /\ pending' = issued + 1 /\ confirmToken' = issued + 1
        /\ leaseHolder' = c /\ requester' = [requester EXCEPT ![issued + 1] = c]
        /\ UNCHANGED <<endAge, queue, pc, calling, finished, lastRun>>
    BY DEF RequestTx, SetLease, dispatchVars
  <1>2. issued \in Nat /\ issued + 1 \in Requests
    BY ConstantsAssumption DEF RequestTx, PlaneInv, TypeOK, Requests
  <1>3. TypeOK'
    BY <1>1, <1>2, ConstantsAssumption DEF RequestTx, SetLease, PlaneInv, TypeOK, Requests
  <1>4. Lifecycle'
    BY <1>1, <1>2 DEF Lifecycle
  <1>5. LeaseBindsTransmission' /\ CooldownHeld'
    BY <1>1, <1>2, ConstantsAssumption
    DEF RequestTx, CooldownOver, PlaneInv, TypeOK, LeaseBindsTransmission, CooldownHeld
  <1>6. CallbackInv'
    <2>1. \A e \in Call \cup {NoCall} : e.req \in Nat
      BY NoCallFacts, ConstantsAssumption DEF Call, Requests
    <2>2. \A e \in Call \cup {NoCall} : Decided(e) => Decided(e)'
      BY <1>1, <1>2, <2>1 DEF Decided, DecidedIn
    <2>3. \A e : Accounted(e) => Accounted(e)'
      BY <1>1 DEF Accounted
    <2>4. OneDrainer' /\ NoStrandedCallback'
      BY <1>1 DEF CallbackInv, OneDrainer, NoStrandedCallback
    <2>5. QED
      BY <1>1, <2>2, <2>3, <2>4, CallbacksLeftAlone DEF PlaneInv
  <1>7. QED
    BY <1>3, <1>4, <1>5, <1>6 DEF PlaneInv

\* A granted confirm.
LEMMA ConfirmStep ==
  ASSUME PlaneInv, CallbackInv, NEW t \in Threads, NEW c \in Clients, NEW n,
         NEW en, NEW rdy, NEW busy, Confirm(t, c, n, en, rdy, busy)
  PROVE  PlaneInv' /\ CallbackInv'
  <1>1. /\ state = "awaiting_confirm" /\ state' = "transmitting"
        /\ leaseHolder = c /\ leaseHolder' = c /\ seenAge' = 0
        /\ hbAge' = 0 /\ confirmToken' = 0 /\ tokenAge' = 0
        /\ queue' = Append(queue, [kind |-> "transmit", req |-> pending])
        /\ UNCHANGED <<pending, endAge, calling, issued, requester, finished, lastRun>>
    BY DEF Confirm, SetLease, history
  <1>2. /\ OneDrainer' /\ NoStrandedCallback'
        /\ pc' \in [Threads -> {"outside", "waiting", "draining", "leaving"}]
    BY DrainsFacts DEF Confirm, PlaneInv, CallbackInv
  <1>3. CallbackInv' /\ queue' \in Seq(Call)
    BY <1>1, <1>2, ConfirmCallbacks
  <1>4. TypeOK'
    BY <1>1, <1>2, <1>3, ConstantsAssumption DEF PlaneInv, TypeOK
  <1>5. Lifecycle' /\ LeaseBindsTransmission' /\ CooldownHeld'
    BY <1>1 DEF PlaneInv, Lifecycle, LeaseBindsTransmission, CooldownHeld
  <1>6. QED
    BY <1>3, <1>4, <1>5 DEF PlaneInv

\* The worker's report that the transmission ended.
LEMMA FinishedStep ==
  ASSUME PlaneInv, CallbackInv, NEW t \in Threads, OnTxFinished(t)
  PROVE  PlaneInv' /\ CallbackInv'
  <1>1. /\ state = "transmitting" /\ state' = "idle" /\ pending' = 0
        /\ confirmToken' = 0 /\ tokenAge' = 0 /\ hbAge' = 0 /\ endAge' = 0
        /\ finished' = finished \cup {pending}
        /\ UNCHANGED <<leaseHolder, seenAge, queue, pc, calling, issued, requester, lastRun>>
    BY DEF OnTxFinished, ResetLocked, dispatchVars
  <1>2. TypeOK'
    BY <1>1, ConstantsAssumption DEF PlaneInv, TypeOK, Lifecycle
  <1>3. Lifecycle' /\ LeaseBindsTransmission' /\ CooldownHeld'
    BY <1>1 DEF Lifecycle, LeaseBindsTransmission, CooldownHeld
  <1>4. CallbackInv'
    <2>1. /\ \A e : Decided(e) => Decided(e)'
          /\ \A e : Accounted(e) => Accounted(e)'
      BY <1>1 DEF Decided, DecidedIn, Accounted
    <2>2. OneDrainer' /\ NoStrandedCallback'
      BY <1>1 DEF CallbackInv, OneDrainer, NoStrandedCallback
    <2>3. QED
      BY <1>1, <2>1, <2>2, CallbacksLeftAlone DEF PlaneInv
  <1>5. QED
    BY <1>2, <1>3, <1>4 DEF PlaneInv

-----------------------------------------------------------------------------
(* The dispatch side: the plane's own state does not move.                 *)

\* PlaneInv does not depend on where the callbacks are, apart from their type.
LEMMA PlaneUntouched ==
  ASSUME PlaneInv, UNCHANGED <<planeVars, history>>,
         queue' \in Seq(Call), lastRun' \in Call \cup {NoCall},
         pc' \in [Threads -> {"outside", "waiting", "draining", "leaving"}],
         calling' \in [Threads -> Call \cup {NoCall}]
  PROVE  PlaneInv'
  BY DEF PlaneInv, TypeOK, Lifecycle, LeaseBindsTransmission, CooldownHeld,
         planeVars, history

\* Taking the dispatch lock, seeing the queue empty, releasing the lock.
LEMMA LockSteps ==
  ASSUME PlaneInv, CallbackInv, NEW t \in Threads,
         AcquireDispatch(t) \/ SeeEmpty(t) \/ LeaveDrain(t)
  PROVE  PlaneInv' /\ CallbackInv'
  <1>1. UNCHANGED <<planeVars, queue, calling, history, lastRun>>
    BY DEF AcquireDispatch, SeeEmpty, LeaveDrain
  <1>2. pc' \in [Threads -> {"outside", "waiting", "draining", "leaving"}]
    BY DEF AcquireDispatch, SeeEmpty, LeaveDrain, PlaneInv, TypeOK
  <1>3. PlaneInv'
    BY <1>1, <1>2, PlaneUntouched DEF PlaneInv, TypeOK
  <1>4. OneDrainer'
    BY DEF AcquireDispatch, DispatchFree, SeeEmpty, LeaveDrain, PlaneInv, TypeOK,
           CallbackInv, OneDrainer
  <1>5. NoStrandedCallback'
    <2>1. CASE AcquireDispatch(t)
      BY <2>1 DEF AcquireDispatch, PlaneInv, TypeOK, NoStrandedCallback
    <2>2. CASE SeeEmpty(t)
      BY <2>2 DEF SeeEmpty, NoStrandedCallback
    <2>3. CASE LeaveDrain(t)
      BY <2>3 DEF LeaveDrain, PlaneInv, TypeOK, CallbackInv, NoStrandedCallback
    <2>4. QED
      BY <2>1, <2>2, <2>3
  <1>6. CallbackInv'
    <2>1. /\ \A e : Decided(e) => Decided(e)'
          /\ \A e : Accounted(e) => Accounted(e)'
      BY <1>1 DEF Decided, DecidedIn, Accounted, planeVars, history
    <2>2. QED
      BY <1>1, <1>4, <1>5, <2>1, CallbacksLeftAlone DEF PlaneInv
  <1>7. QED
    BY <1>3, <1>6

\* Popping: the head of the queue becomes the one call in flight.
LEMMA PopStep ==
  ASSUME PlaneInv, CallbackInv, NEW t \in Threads, PopCallback(t)
  PROVE  PlaneInv' /\ CallbackInv'
  <1>1. /\ pc[t] = "draining" /\ calling[t] = NoCall /\ queue # <<>>
        /\ calling' = [calling EXCEPT ![t] = Head(queue)]
        /\ queue' = Tail(queue)
        /\ UNCHANGED <<planeVars, pc, history, lastRun>>
    BY DEF PopCallback
  <1>2. queue \in Seq(Call) /\ calling \in [Threads -> Call \cup {NoCall}]
    BY DEF PlaneInv, TypeOK
  <1>3. /\ Head(queue) \in Call /\ Head(queue) = queue[1]
        /\ queue' \in Seq(Call)
        /\ Len(queue) \in Nat \ {0} /\ Len(queue') = Len(queue) - 1
        /\ \A i \in 1..Len(queue') : queue'[i] = queue[i + 1] /\ i + 1 \in 1..Len(queue)
        /\ 1 \in 1..Len(queue)
    BY <1>1, <1>2, TailFacts
  <1>4. /\ calling'[t] = queue[1] /\ calling'[t] # NoCall
        /\ \A u \in Threads \ {t} : calling'[u] = calling[u] /\ calling[u] = NoCall
    BY <1>1, <1>2, <1>3, NoCallFacts DEF CallbackInv, OneDrainer
  <1>5. PlaneInv'
    BY <1>1, <1>2, <1>3, PlaneUntouched DEF PlaneInv, TypeOK
  <1>6. \A e : DecidedIn(state', issued', e) <=> Decided(e)
    BY <1>1 DEF Decided, planeVars, history
  <1>7. AllDecided'
    BY <1>1, <1>3, <1>4, <1>6 DEF CallbackInv, AllDecided, Decided
  <1>8. OneDrainer' /\ NoStrandedCallback'
    BY <1>1, <1>4 DEF CallbackInv, OneDrainer, NoStrandedCallback
  <1>9. DispatchOrder'
    <2>1. \A i \in 1..Len(queue') : Before(queue[1], queue'[i]) /\ Before(lastRun, queue'[i])
      BY <1>3 DEF CallbackInv, DispatchOrder
    <2>2. \A i, j \in 1..Len(queue') : i < j => Before(queue'[i], queue'[j])
      BY <1>3 DEF CallbackInv, DispatchOrder
    <2>3. Before(lastRun, queue[1])
      BY <1>3 DEF CallbackInv, DispatchOrder
    <2>4. QED
      BY <1>1, <1>4, <2>1, <2>2, <2>3 DEF DispatchOrder, Before
  <1>10. NoOrphanKey'
    <2>1. \A e : Accounted(e) => Accounted(e)'
      BY <1>1 DEF Accounted, planeVars, history
    <2>2. Accounted(queue[Len(queue)])
      BY <1>1 DEF CallbackInv, NoOrphanKey
    <2>3. CASE queue' # <<>>
      <3>1. Len(queue') \in 1..Len(queue') /\ queue'[Len(queue')] = queue[Len(queue)]
        BY <1>3, <2>3, EmptySeq
      <3>2. QED
        BY <1>1, <2>2, <2>3, <3>1 DEF NoOrphanKey, Accounted, planeVars, history
    <2>4. CASE queue' = <<>>
      <3>1. Len(queue) = 1
        BY <1>3, <2>4, EmptyFacts
      <3>2. QED
        BY <1>1, <1>4, <2>2, <2>4, <3>1 DEF NoOrphanKey, Quiet, Accounted, planeVars, history
    <2>5. QED
      BY <2>3, <2>4
  <1>11. QED
    BY <1>5, <1>7, <1>8, <1>9, <1>10 DEF CallbackInv

\* A callback returns: it becomes the last one run.
LEMMA ReturnStep ==
  ASSUME PlaneInv, CallbackInv, NEW t \in Threads, CallbackReturns(t)
  PROVE  PlaneInv' /\ CallbackInv'
  <1>1. /\ calling[t] # NoCall /\ lastRun' = calling[t]
        /\ calling' = [calling EXCEPT ![t] = NoCall]
        /\ UNCHANGED <<planeVars, queue, pc, history>>
    BY DEF CallbackReturns
  <1>2. calling \in [Threads -> Call \cup {NoCall}]
    BY DEF PlaneInv, TypeOK
  <1>3. PlaneInv'
    BY <1>1, <1>2, PlaneUntouched DEF PlaneInv, TypeOK
  <1>4. \A u \in Threads : calling'[u] = NoCall
    BY <1>1, <1>2 DEF CallbackInv, DispatchOrder
  <1>5. AllDecided'
    <2>1. Decided(NoCall)
      BY NoCallFacts, ConstantsAssumption
      DEF Decided, DecidedIn, PlaneInv, TypeOK, Lifecycle, Requests
    <2>2. \A e : DecidedIn(state', issued', e) <=> Decided(e)
      BY <1>1 DEF Decided, planeVars, history
    <2>3. QED
      BY <1>1, <1>4, <2>1, <2>2 DEF CallbackInv, AllDecided, Decided
  <1>6. OneDrainer' /\ NoStrandedCallback'
    BY <1>1, <1>4 DEF CallbackInv, OneDrainer, NoStrandedCallback
  <1>7. DispatchOrder'
    BY <1>1, <1>4 DEF CallbackInv, DispatchOrder, Before
  <1>8. NoOrphanKey'
    BY <1>1, <1>4 DEF CallbackInv, NoOrphanKey, Accounted, Quiet, planeVars, history
  <1>9. QED
    BY <1>3, <1>5, <1>6, <1>7, <1>8 DEF CallbackInv

-----------------------------------------------------------------------------
\* Every step keeps the invariant.
LEMMA NextInv == PlaneInv /\ CallbackInv /\ [Next]_vars => PlaneInv' /\ CallbackInv'
  <1> SUFFICES ASSUME PlaneInv, CallbackInv, [Next]_vars
               PROVE  PlaneInv' /\ CallbackInv'
    OBVIOUS
  <1>0. Handlers \subseteq Threads /\ Ticker \in Threads /\ Gui \in Threads
    BY DEF Threads
  <1>1. ASSUME NEW t \in Handlers, NEW c \in Clients, ClientCall(t, c)
        PROVE  PlaneInv' /\ CallbackInv'
    <2>1. CASE TakeLease(t, c) \/ LapseLease(t) \/ Heartbeat(t, c)
      BY <1>0, <2>1, LeaseAndClockSteps
    <2>2. CASE ReleaseLease(t, c) \/ Abort(t, c)
      BY <1>0, <2>2, SupersedingSteps
    <2>3. ASSUME NEW en \in BOOLEAN, NEW rdy \in BOOLEAN, NEW busy \in BOOLEAN,
                 RequestTx(t, c, en, rdy, busy)
          PROVE  PlaneInv' /\ CallbackInv'
      BY <1>0, <2>3, RequestStep
    <2>4. ASSUME NEW en \in BOOLEAN, NEW rdy \in BOOLEAN, NEW busy \in BOOLEAN,
                 NEW n \in 0..issued, ConfirmRefused(t, c, n, en, rdy, busy)
          PROVE  PlaneInv' /\ CallbackInv'
      BY <1>0, <2>4, ConfirmRefusedStep
    <2>5. ASSUME NEW en \in BOOLEAN, NEW rdy \in BOOLEAN, NEW busy \in BOOLEAN,
                 NEW n \in 0..issued, Confirm(t, c, n, en, rdy, busy)
          PROVE  PlaneInv' /\ CallbackInv'
      BY <1>0, <2>5, ConfirmStep
    <2>6. QED
      BY <1>1, <2>1, <2>2, <2>3, <2>4, <2>5 DEF ClientCall
  <1>2. CASE ReclaimLocal(Gui)
    BY <1>0, <1>2, SupersedingSteps
  <1>3. CASE OnTxFinished(Gui)
    BY <1>0, <1>3, FinishedStep
  <1>4. ASSUME NEW en \in BOOLEAN, Tick(Ticker, en)
        PROVE  PlaneInv' /\ CallbackInv'
    <2>1. CASE TickStops(en) \/ TickExpires
      BY <1>0, <1>4, <2>1, SupersedingSteps
    <2>2. CASE ~TickStops(en) /\ ~TickExpires
      BY <1>0, <1>4, <2>2, IdleTickStep
    <2>3. QED
      BY <2>1, <2>2
  <1>5. ASSUME NEW t \in Threads, Drain(t)
        PROVE  PlaneInv' /\ CallbackInv'
    BY <1>5, LockSteps, PopStep, ReturnStep DEF Drain
  <1>6. CASE Advance \/ UNCHANGED vars
    BY <1>6, LeaseAndClockSteps
  <1>7. QED
    BY <1>1, <1>2, <1>3, <1>4, <1>5, <1>6 DEF Next

LEMMA Inductive == Spec => [](PlaneInv /\ CallbackInv)
  BY InitInv, NextInv, PTL DEF Spec

\* Every variable of the plane stays in its set: the ages because they
\* saturate, the queue because a method unkeys only a real request.
THEOREM TypeCorrect == Spec => []TypeOK
  <1>1. PlaneInv /\ CallbackInv => TypeOK
    BY DEF PlaneInv
  <1>2. QED
    BY <1>1, Inductive, PTL

\* Single-writer authority: a pending or running transmission always belongs
\* to the client that holds the lease.
THEOREM LeaseAuthority == Spec => []LeaseBindsTransmission
  <1>1. PlaneInv /\ CallbackInv => LeaseBindsTransmission
    BY DEF PlaneInv
  <1>2. QED
    BY <1>1, Inductive, PTL

\* The rate limit holds across every way a transmission can end.
THEOREM CooldownCorrect == Spec => []CooldownHeld
  <1>1. PlaneInv /\ CallbackInv => CooldownHeld
    BY DEF PlaneInv
  <1>2. QED
    BY <1>1, Inductive, PTL

\* The callback contract: one callback at a time, a key before its unkey,
\* older requests before younger ones, whatever threads drain the queue.
THEOREM CallbackContract == Spec => []DispatchOrder
  <1>1. PlaneInv /\ CallbackInv => DispatchOrder
    BY DEF CallbackInv
  <1>2. QED
    BY <1>1, Inductive, PTL

\* No superseded key is left without its unkey behind it.
THEOREM NoOrphans == Spec => []NoOrphanKey
  <1>1. PlaneInv /\ CallbackInv => NoOrphanKey
    BY DEF CallbackInv
  <1>2. QED
    BY <1>1, Inductive, PTL

\* A queued callback is never without a thread on its way to drain it.
THEOREM NothingStranded == Spec => []NoStrandedCallback
  <1>1. PlaneInv /\ CallbackInv => NoStrandedCallback
    BY DEF CallbackInv
  <1>2. QED
    BY <1>1, Inductive, PTL

\* Both together: who may transmit, and when.
THEOREM LeaseIsHonoured == Spec => []LeaseHonoured
  BY LeaseAuthority, CooldownCorrect, PTL DEF LeaseHonoured

\* All of the callback contract: in order, one at a time, none left behind, and
\* no key without its unkey.
THEOREM CallbacksAreKept == Spec => []CallbacksKept
  BY CallbackContract, NoOrphans, NothingStranded, PTL DEF CallbacksKept

---------------------------------------------------------------------------
(* ControlPlane implements PlanePromise, for every value of the constants. *)

\* The callback being run is the one of the only thread that runs one.
LEMMA RunningIs ==
  ASSUME NEW t \in Threads, calling[t] # NoCall,
         \A u \in Threads \ {t} : calling[u] = NoCall
  PROVE  Running = calling[t]
  <1>1. ~Quiet
    BY DEF Quiet
  <1>2. (CHOOSE u \in Threads : calling[u] # NoCall) = t
    OBVIOUS
  <1>3. QED
    BY <1>1, <1>2 DEF Running

LEMMA RunningNone == Quiet => Running = NoCall
  BY DEF Running

\* A step that leaves the callbacks' threads alone leaves Running alone.
LEMMA RunningKept == UNCHANGED calling => UNCHANGED Running
  BY DEF Running, Quiet

\* At most one thread runs a callback, and it is inside the dispatch lock.
LEMMA OneCalling ==
  ASSUME CallbackInv, NEW t \in Threads, pc[t] = "draining"
  PROVE  \A u \in Threads \ {t} : calling[u] = NoCall
  BY DEF CallbackInv, OneDrainer

LEMMA InitRefines == Init => Promise!Init
  <1> SUFFICES ASSUME Init PROVE Promise!Init
    OBVIOUS
  <1>1. Quiet
    BY DEF Init, Quiet
  <1>2. QED
    BY <1>1, RunningNone DEF Init, Promise!Init, NoCall, Promise!NoCall

\* What interrupts the plane withdraws a request or revokes a transmission.
LEMMA ResetRefines ==
  ASSUME ResetLocked, queue' = WithUnkey, UNCHANGED <<calling, issued>>,
         PlaneInv
  PROVE  [Promise!Next]_(Promise!promiseVars)
  <1>1. UNCHANGED Running
    BY RunningKept
  <1>2. state \in {"idle", "awaiting_confirm", "transmitting"}
    BY DEF PlaneInv, TypeOK
  <1>3. CASE state = "idle"
    BY <1>1, <1>3 DEF ResetLocked, WithUnkey, PlaneInv, Lifecycle, Promise!promiseVars
  <1>4. CASE state = "awaiting_confirm"
    BY <1>1, <1>4 DEF ResetLocked, WithUnkey, Promise!Withdraw, Promise!Next
  <1>5. CASE state = "transmitting"
    BY <1>1, <1>5 DEF ResetLocked, WithUnkey, Promise!Revoke, Promise!Queue, Promise!Next
  <1>6. QED
    BY <1>2, <1>3, <1>4, <1>5

\* A step that touches nothing the promise speaks of.
LEMMA StutterRefines ==
  ASSUME UNCHANGED <<state, pending, issued, queue, calling>>
  PROVE  UNCHANGED Promise!promiseVars
  BY RunningKept DEF Promise!promiseVars

LEMMA CallRefines ==
  ASSUME PlaneInv, NEW t \in Threads, NEW c \in Clients, ClientCall(t, c)
  PROVE  [Promise!Next]_(Promise!promiseVars)
  <1>1. CASE TakeLease(t, c) \/ LapseLease(t) \/ Heartbeat(t, c)
    BY <1>1, StutterRefines
    DEF TakeLease, LapseLease, Heartbeat, LifecycleUnchanged, dispatchVars, history
  <1>2. CASE ReleaseLease(t, c) \/ Abort(t, c)
    BY <1>2, ResetRefines DEF ReleaseLease, Abort, Supersede, history
  <1>3. ASSUME NEW en \in BOOLEAN, NEW rdy \in BOOLEAN, NEW busy \in BOOLEAN,
               RequestTx(t, c, en, rdy, busy)
        PROVE  Promise!Next
    BY <1>3, RunningKept DEF RequestTx, dispatchVars, Promise!Request, Promise!Next
  <1>4. ASSUME NEW en \in BOOLEAN, NEW rdy \in BOOLEAN, NEW busy \in BOOLEAN,
               NEW n \in 0..issued, ConfirmRefused(t, c, n, en, rdy, busy)
        PROVE  Promise!Next
    BY <1>4, RunningKept
    DEF ConfirmRefused, ResetLocked, dispatchVars, history, Promise!Withdraw, Promise!Next
  <1>5. ASSUME NEW en \in BOOLEAN, NEW rdy \in BOOLEAN, NEW busy \in BOOLEAN,
               NEW n \in 0..issued, Confirm(t, c, n, en, rdy, busy)
        PROVE  Promise!Next
    BY <1>5, RunningKept
    DEF Confirm, history, Promise!Grant, Promise!Queue, Promise!Next
  <1>6. QED
    BY <1>1, <1>2, <1>3, <1>4, <1>5 DEF ClientCall

LEMMA TickRefines ==
  ASSUME PlaneInv, NEW t \in Threads, NEW en \in BOOLEAN, Tick(t, en)
  PROVE  [Promise!Next]_(Promise!promiseVars)
  <1>1. CASE TickStops(en) \/ TickExpires
    BY <1>1, ResetRefines DEF Tick, TickStops, TickExpires, WithUnkey, history
  <1>2. CASE ~TickStops(en) /\ ~TickExpires
    BY <1>2, StutterRefines DEF Tick, LifecycleUnchanged, history
  <1>3. QED
    BY <1>1, <1>2

LEMMA DrainRefines ==
  ASSUME PlaneInv, CallbackInv, NEW t \in Threads, Drain(t)
  PROVE  [Promise!Next]_(Promise!promiseVars)
  <1>0. calling \in [Threads -> Call \cup {NoCall}] /\ queue \in Seq(Call)
    BY DEF PlaneInv, TypeOK
  <1>1. CASE AcquireDispatch(t) \/ SeeEmpty(t) \/ LeaveDrain(t)
    BY <1>1, StutterRefines
    DEF AcquireDispatch, SeeEmpty, LeaveDrain, planeVars, history
  <1>2. CASE PopCallback(t)
    <2>1. \A u \in Threads \ {t} : calling[u] = NoCall
      BY <1>2, OneCalling DEF PopCallback
    <2>2. Running = NoCall
      BY <1>2, <2>1, RunningNone DEF PopCallback, Quiet
    <2>3. Head(queue) # NoCall
      BY <1>0, <1>2, TailFacts, NoCallFacts DEF PopCallback
    <2>4. /\ calling'[t] = Head(queue)
          /\ \A u \in Threads \ {t} : calling'[u] = NoCall
      BY <1>0, <1>2, <2>1 DEF PopCallback
    <2>5. Running' = Head(queue)
      <3>1. ~Quiet'
        BY <2>3, <2>4 DEF Quiet
      <3>2. (CHOOSE u \in Threads : calling'[u] # NoCall) = t
        BY <2>3, <2>4
      <3>3. QED
        BY <2>4, <3>1, <3>2 DEF Running
    <2>6. QED
      BY <1>2, <2>2, <2>5
      DEF PopCallback, planeVars, history, NoCall, Promise!NoCall,
          Promise!Deliver, Promise!Next
  <1>3. CASE CallbackReturns(t)
    <2>1. /\ calling[t] # NoCall
          /\ \A u \in Threads \ {t} : calling[u] = NoCall
      BY <1>3 DEF CallbackReturns, CallbackInv, DispatchOrder
    <2>2. Running # NoCall
      BY <2>1, RunningIs
    <2>3. Quiet'
      BY <1>0, <1>3, <2>1 DEF CallbackReturns, Quiet
    <2>4. Running' = NoCall
      BY <2>3 DEF Running
    <2>5. QED
      BY <1>3, <2>2, <2>4
      DEF CallbackReturns, planeVars, history, NoCall, Promise!NoCall,
          Promise!Returned, Promise!Next
  <1>4. QED
    BY <1>1, <1>2, <1>3 DEF Drain

\* Every step of the plane is a step of its promise or invisible to it.
LEMMA NextRefines ==
  PlaneInv /\ CallbackInv /\ [Next]_vars => [Promise!Next]_(Promise!promiseVars)
  <1> SUFFICES ASSUME PlaneInv, CallbackInv, [Next]_vars
               PROVE  [Promise!Next]_(Promise!promiseVars)
    OBVIOUS
  <1>0. Handlers \subseteq Threads /\ Ticker \in Threads /\ Gui \in Threads
    BY DEF Threads
  <1>1. CASE \E t \in Handlers, c \in Clients : ClientCall(t, c)
    BY <1>0, <1>1, CallRefines
  <1>2. CASE ReclaimLocal(Gui)
    BY <1>2, ResetRefines DEF ReclaimLocal, Supersede, history
  <1>3. CASE OnTxFinished(Gui)
    BY <1>3, RunningKept
    DEF OnTxFinished, ResetLocked, dispatchVars, Promise!Finish, Promise!Next
  <1>4. CASE \E en \in BOOLEAN : Tick(Ticker, en)
    BY <1>0, <1>4, TickRefines
  <1>5. CASE \E t \in Threads : Drain(t)
    BY <1>5, DrainRefines
  <1>6. CASE Advance \/ UNCHANGED vars
    BY <1>6, StutterRefines DEF Advance, vars, planeVars, dispatchVars, history
  <1>7. QED
    BY <1>1, <1>2, <1>3, <1>4, <1>5, <1>6 DEF Next

\* The detailed plane implements the abstract one: no thread interleaving,
\* lapse of a lease or passage of time shows an observer anything but numbered
\* requests granted, revoked and finished in turn, and callbacks one by one.
THEOREM KeepsPromise == Spec => PromiseKept
  <1>1. [](PlaneInv /\ CallbackInv) /\ [][Next]_vars
          => [][Promise!Next]_(Promise!promiseVars)
    BY NextRefines, PTL
  <1>2. QED
    BY <1>1, InitRefines, Inductive, PTL DEF Spec, PromiseKept, Promise!Spec
=============================================================================
