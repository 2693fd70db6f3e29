------------------------------ MODULE RemoteTx ------------------------------
(***************************************************************************)
(* Remote and local transmit together: the glue of open_sstv/ui/           *)
(* main_window.py between the control plane (PlanePromise), the transmit   *)
(* worker (TxPromise) and the operator at the radio.                       *)
(*                                                                         *)
(* The transmit callback emits a queued signal to the GUI thread; the unkey*)
(* callback stops the worker directly, on the thread that runs it.  The GUI*)
(* handles one event at a time, but a handler is cut where it looks at the *)
(* plane or waits for it, because request threads run meanwhile.  The PTT  *)
(* itself is TxWorker's subject and left out.                              *)
(***************************************************************************)
EXTENDS Integers, Sequences, FiniteSets

CONSTANTS
  MaxRequests,   \* bound: remote requests in one behaviour
  MaxLocal       \* bound: local transmissions in one behaviour

ASSUME BoundsAssumption == MaxRequests \in Nat /\ MaxLocal \in Nat

MaxTx == MaxRequests + MaxLocal

VARIABLES
  state, pending, issued, calls, running,         \* the control plane
  dispatched, slotsRun, covers, stop, stage, outcome,  \* the worker
  cause,       \* why each transmission was dispatched: 0 local, n request n
  guiQueue,    \* queued signals the GUI has not handled
  gui,         \* where the GUI thread is
  guiReq,      \* the remote request its handler is about
  inFlight,    \* _tx_requests_in_flight
  lastRemote,  \* _last_tx_was_remote
  slipped,     \* history: requests granted between a local Transmit's reclaim
               \* and its dispatch
  stray        \* history: transmissions dispatched for a revoked request

Plane == INSTANCE PlanePromise
Tx == INSTANCE TxPromise WITH issued <- dispatched

planeVars == <<state, pending, issued, calls, running>>
txVars == <<dispatched, slotsRun, covers, stop, stage, outcome>>
guiVars == <<gui, guiReq, inFlight, lastRemote>>
historyVars == <<slipped, stray>>
glueVars == <<planeVars, txVars, cause, guiQueue, guiVars, historyVars>>

Requests == 1..MaxRequests
Slots == 1..MaxTx

\* The signals the GUI thread receives that matter here: a confirmed request
\* (_remote_tx_request) and the end of a transmission (transmission_finished).
Signal == [kind : {"request"}, n : Requests] \cup [kind : {"finished"}, n : Slots]

TypeOK ==
  /\ state \in {"idle", "awaiting_confirm", "transmitting"}
  /\ pending \in 0..MaxRequests /\ issued \in 0..MaxRequests
  /\ dispatched \in 0..MaxTx /\ slotsRun \in 0..MaxTx /\ covers \in 0..MaxTx
  /\ stop \in BOOLEAN /\ stage \in {"idle", "running", "ending"}
  /\ outcome \in {"none", "complete", "aborted", "error"}
  /\ cause \in [Slots -> 0..MaxRequests]
  /\ guiQueue \in Seq(Signal)
  /\ gui \in {"loop", "loading", "checked", "reclaiming", "sending",
              "stopping", "stop"}
  /\ guiReq \in 0..MaxRequests
  /\ inFlight \in 0..MaxTx
  /\ lastRemote \in BOOLEAN
  /\ slipped \in SUBSET Requests /\ stray \in SUBSET Slots

GlueInit ==
  /\ Plane!Init /\ Tx!Init
  /\ cause = [m \in Slots |-> 0]
  /\ guiQueue = <<>> /\ gui = "loop" /\ guiReq = 0
  /\ inFlight = 0 /\ lastRemote = FALSE
  /\ slipped = {} /\ stray = {}

-----------------------------------------------------------------------------
(* The gates and callbacks the application gives the plane.                *)

\* _remote_tx_busy: a transmission is dispatched or the worker is not idle.
BusyIfRunning == stage # "idle"         \* fault: blind to a queued transmission
Busy == inFlight > 0 \/ stage # "idle"

PlaneOnly == UNCHANGED <<txVars, cause, guiQueue, guiVars>>

RemoteRequest == ~Busy /\ Plane!Request /\ PlaneOnly /\ UNCHANGED historyVars

RemoteConfirm ==
  /\ ~Busy /\ Plane!Grant /\ PlaneOnly
  /\ slipped' = IF gui \in {"reclaiming", "sending"}
                THEN slipped \cup {pending} ELSE slipped
  /\ UNCHANGED stray

\* A request dropped, by its client, by its age or by a gate; a transmission
\* ended by an abort, a release or the dead-man's-switch.
RemoteGivesUp == (Plane!Withdraw \/ Plane!Revoke) /\ PlaneOnly /\ UNCHANGED historyVars

CallbackBegins == Plane!Deliver /\ PlaneOnly /\ UNCHANGED historyVars

\* transmit: _remote_tx_request.emit.
TransmitCallback ==
  /\ running.kind = "transmit"
  /\ guiQueue' = Append(guiQueue, [kind |-> "request", n |-> running.req])
  /\ Plane!Returned
  /\ UNCHANGED <<txVars, cause, guiVars, historyVars>>

\* _remote_tx_unkey: emergency_unkey, then request_stop.
UnkeyPttOnly ==                         \* fault: the worker is not stopped
  /\ running.kind = "unkey"
  /\ Plane!Returned
  /\ UNCHANGED <<txVars, cause, guiQueue, guiVars, historyVars>>
UnkeyCallback ==
  /\ running.kind = "unkey"
  /\ Tx!RequestStop
  /\ Plane!Returned
  /\ UNCHANGED <<cause, guiQueue, guiVars, historyVars>>

-----------------------------------------------------------------------------
(* The worker, with the signals it sends.                                  *)

Emit(kind, m) == guiQueue' = Append(guiQueue, [kind |-> kind, n |-> m])
WorkerOnly == UNCHANGED <<planeVars, cause, guiVars, historyVars>>

WorkerBegins == (Tx!Begin \/ Tx!BeginCovered) /\ UNCHANGED guiQueue /\ WorkerOnly

WorkerConcludes == Tx!Conclude /\ UNCHANGED guiQueue /\ WorkerOnly

WorkerEnds == Tx!End /\ Emit("finished", slotsRun) /\ WorkerOnly

WatchdogStops == Tx!Overrun /\ UNCHANGED guiQueue /\ WorkerOnly

-----------------------------------------------------------------------------
(* The GUI thread.                                                         *)

GuiTo(p) == gui' = p

\* Take the next signal of a kind off the queue.
Take(kind) == /\ gui = "loop"
              /\ guiQueue # <<>> /\ Head(guiQueue).kind = kind
              /\ guiQueue' = Tail(guiQueue)

OneMore == inFlight + 1

\* _begin_tx_request and the signal to the worker.
DispatchFor(n) ==
  /\ Tx!Dispatch
  /\ cause' = [cause EXCEPT ![dispatched + 1] = n]
  /\ inFlight' = OneMore
  /\ lastRemote' = (n # 0)

\* on_tx_finished.
PlaneFinished == IF state = "transmitting" THEN Plane!Finish ELSE UNCHANGED planeVars

\* reclaim_local decides at once and returns when its drain does.
Reclaim ==
  \/ state = "awaiting_confirm" /\ Plane!Withdraw
  \/ state = "transmitting" /\ Plane!Revoke
  \/ state = "idle" /\ UNCHANGED planeVars

\* _on_remote_tx_request: the plane is asked, the image loaded, the plane asked
\* again, and only then the transmission dispatched.
OnRequestSignal ==
  /\ Take("request")
  /\ guiReq' = Head(guiQueue).n
  /\ GuiTo(IF state = "transmitting" THEN "loading" ELSE "loop")
  /\ UNCHANGED <<planeVars, txVars, cause, inFlight, lastRemote, historyVars>>

\* _remote_tx_abandon: the mode, the id or the file turned out bad.
Abandon ==
  /\ gui = "loading"
  /\ PlaneFinished
  /\ GuiTo("loop") /\ guiReq' = 0
  /\ UNCHANGED <<txVars, cause, guiQueue, inFlight, lastRemote, historyVars>>

ImageLoaded ==
  /\ gui = "loading"
  /\ IF state = "transmitting"
     THEN GuiTo("checked") /\ UNCHANGED guiReq
     ELSE GuiTo("loop") /\ guiReq' = 0
  /\ UNCHANGED <<planeVars, txVars, cause, guiQueue, inFlight, lastRemote,
                 historyVars>>

DispatchRemote ==
  /\ gui = "checked"
  /\ DispatchFor(guiReq)
  /\ stray' = IF state = "transmitting" /\ pending = guiReq
              THEN stray ELSE stray \cup {dispatched + 1}
  /\ GuiTo("loop") /\ guiReq' = 0
  /\ UNCHANGED <<planeVars, guiQueue, slipped>>

\* _on_transmit_requested and _on_test_tone_requested; _on_stop_requested.
PressTransmit ==
  /\ gui = "loop"
  /\ Cardinality({m \in 1..dispatched : cause[m] = 0}) < MaxLocal
  /\ Reclaim
  /\ GuiTo("reclaiming")
  /\ UNCHANGED <<txVars, cause, guiQueue, guiReq, inFlight, lastRemote, historyVars>>

PressStop ==
  /\ gui = "loop"
  /\ Reclaim
  /\ GuiTo("stopping")
  /\ UNCHANGED <<txVars, cause, guiQueue, guiReq, inFlight, lastRemote, historyVars>>

DrainIgnored == TRUE                    \* fault: reclaim does not wait
Drained == calls = <<>> /\ running.kind = "none"

ReclaimReturns ==
  /\ gui \in {"reclaiming", "stopping"}
  /\ Drained
  /\ GuiTo(IF gui = "reclaiming" THEN "sending" ELSE "stop")
  /\ UNCHANGED <<planeVars, txVars, cause, guiQueue, guiReq, inFlight, lastRemote,
                 historyVars>>

DispatchLocal ==
  /\ gui = "sending"
  /\ DispatchFor(0)
  /\ GuiTo("loop")
  /\ UNCHANGED <<planeVars, guiQueue, guiReq, historyVars>>

StopLocal ==
  /\ gui = "stop"
  /\ Tx!RequestStop
  /\ GuiTo("loop")
  /\ UNCHANGED <<planeVars, cause, guiQueue, guiReq, inFlight, lastRemote, historyVars>>

\* _remote_tx_ended: only if the last transmission dispatched was a remote one.
RemoteTxEnded ==
  /\ IF lastRemote THEN PlaneFinished ELSE UNCHANGED planeVars
  /\ lastRemote' = FALSE

OnlyUnlock == UNCHANGED <<planeVars, lastRemote>>   \* fault: the plane is forgotten
AfterFinished == RemoteTxEnded

OnFinished ==
  /\ Take("finished")
  /\ inFlight' = IF inFlight > 0 THEN inFlight - 1 ELSE 0
  /\ AfterFinished
  /\ UNCHANGED <<txVars, cause, gui, guiReq, historyVars>>

-----------------------------------------------------------------------------
Callbacks == CallbackBegins \/ TransmitCallback \/ UnkeyCallback
WorkerThread == WorkerBegins \/ WorkerConcludes \/ WorkerEnds
Remote == RemoteRequest \/ RemoteConfirm \/ RemoteGivesUp
Handlers == Abandon \/ ImageLoaded \/ DispatchRemote \/ ReclaimReturns
            \/ DispatchLocal \/ StopLocal
Delivery == OnRequestSignal \/ OnFinished

GlueNext == Remote \/ Callbacks \/ WorkerThread \/ WatchdogStops
        \/ Handlers \/ Delivery \/ PressTransmit \/ PressStop

GlueSpec == GlueInit /\ [][GlueNext]_glueVars

\* The threads run, transmissions end, and the event loop delivers a queued
\* signal however often the operator clicks; nobody has to press or request
\* anything, and the dead-man's-switch need not come to anyone's help.
FairSpec == /\ GlueSpec
            /\ WF_glueVars(Callbacks) /\ WF_glueVars(WorkerThread) /\ WF_glueVars(Handlers)
            /\ SF_glueVars(Delivery)

-----------------------------------------------------------------------------
(* Properties.                                                             *)

Current == cause[slotsRun]

UnkeyComing(n) ==
  \/ running = [kind |-> "unkey", req |-> n]
  \/ \E i \in 1..Len(calls) : calls[i] = [kind |-> "unkey", req |-> n]

\* A remote transmission runs only under the plane: its request is the one the
\* plane has on the air, or it is being stopped.  The exceptions are named: a
\* request revoked as it was dispatched (stray), one granted in the middle of a
\* local Transmit (slipped).
Supervised ==
  stage = "running" /\ Current # 0 /\ stray = {} /\ slipped = {} =>
    \/ state = "transmitting" /\ pending = Current
    \/ slotsRun <= covers
    \/ UnkeyComing(Current)

LocalInFlight == \E m \in 1..dispatched :
                   /\ cause[m] = 0
                   /\ m > slotsRun \/ (m = slotsRun /\ stage # "idle")

\* The plane never grants a request that would queue behind a local
\* transmission, begun or not, slipped ones apart.
NeverBehindLocal ==
  state = "transmitting" /\ LocalInFlight => pending \in slipped

\* An unkey the plane decides on never stops a transmission of the operator at
\* the radio, slipped requests apart: reclaim_local has waited for it.
LocalUnharmed ==
  [][running.kind = "unkey" /\ covers' # covers /\ LocalInFlight
       => running.req \in slipped \/ gui = "stop"]_glueVars

\* A granted request does not hold the plane for ever: its end, error, refusal
\* or supersession is always reported back.
PlaneReleased == (state = "transmitting") ~> (state # "transmitting")

\* The count of transmissions in flight, which locks the rig controls and keeps
\* remote requests out, always comes back to zero.
ControlsUnlock == (inFlight > 0) ~> (inFlight = 0)

\* A request ends for the plane, and for the operator at the radio.
RequestsEnd == PlaneReleased /\ ControlsUnlock

\* main_window.py _on_remote_tx_request: "if an abort or the dead-man's-switch
\* moved it out of TRANSMITTING between confirm and now, we must NOT key".
RevokedNotKeyed ==
  [][gui = "loading" /\ gui' = "checked" => pending = guiReq]_glueVars

\* main_window.py _remote_tx_ended: the plane is reset "Only for a transmission
\* the plane actually started", not by "a local TX finishing".
HandlesEndOf(m) == /\ gui = "loop" /\ guiQueue # <<>> /\ guiQueue' = Tail(guiQueue)
                   /\ Head(guiQueue) = [kind |-> "finished", n |-> m]

LocalEndKeepsPlane ==
  [][\A m \in Slots : HandlesEndOf(m) /\ cause[m] = 0 /\ state = "transmitting"
       => state' = "transmitting"]_glueVars

=============================================================================
