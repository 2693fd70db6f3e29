--------------------------- MODULE RemoteServer ---------------------------
(***************************************************************************)
(* The embedded HTTP server of the remote gallery (remote/server.py), the  *)
(* event hub behind its Server-Sent Events (remote/events.py), the live    *)
(* preview of remote/service.py and the slots that guard compose           *)
(* (remote/server.py, remote/compose.py).                                  *)
(*                                                                         *)
(* One thread serves one connection: it reads the headers and perhaps a    *)
(* body under a deadline that a reaper enforces, runs its route, answers   *)
(* and gives back what it took, whichever way it ends.  Request threads    *)
(* and the GUI thread publish to the same subscriber queues.  The control  *)
(* plane is reduced to its lease and its state (ControlPlane has the       *)
(* rest); what a page does with an answer is in RemotePage.                *)
(***************************************************************************)
EXTENDS Integers, Sequences, FiniteSets

CONSTANTS
    Pages,            \* browsers; each has an address of its own
    MaxConnections,   \* connection cap (_MAX_CONNECTIONS)
    MaxStreams,       \* subscriber cap (_MAX_SSE_CLIENTS)
    MaxPerPage,       \* streams per address (_MAX_SSE_PER_IP)
    MaxRenders,       \* concurrent renders (_MAX_CONCURRENT_COMPOSE)
    QueueSize,        \* backlog of a subscriber (_MAX_QUEUE)
    MaxFrames,        \* bound: frames of the live preview
    Gui, None         \* the GUI thread as a publisher; no value

ASSUME ServerAssumption ==
    /\ \A n \in {MaxConnections, MaxStreams, MaxPerPage, MaxRenders, QueueSize} :
          n \in Nat \ {0}
    /\ MaxFrames \in Nat
    /\ Gui \notin Nat /\ None \notin Pages

VARIABLES
    thr,        \* request thread of each connection, and the GUI's publisher
    slots,      \* connection slots left
    deadlines,  \* connections with an armed deadline
    late,       \* connections the reaper has picked and not yet shut down
    renders,    \* compose slots left
    perPage,    \* live streams per address
    subs,       \* subscriber queues: connection that subscribed -> backlog
    leaked,     \* names of the queues whose thread is gone
    control,    \* lease holder and transmit state of the control plane
    radio,      \* a remote transmission is in the transmit worker
    frame,      \* live preview: current frame, its cached PNG, frames so far
    raised      \* ghost: an exception left publish()

serverVars == <<thr, slots, deadlines, late, renders, perPage, subs, leaked,
                control, radio, frame, raised>>

Conns == 1..MaxConnections
Posts == {"lease", "release", "heartbeat", "abort", "request", "confirm"}
Composes == {"render", "stage"}

NoThread == [at |-> "none", page |-> None, ask |-> None, open |-> FALSE,
             ok |-> FALSE, event |-> None, todo |-> {}, queue |-> None]

Live(c) == thr[c].at # "none"
Reading == {c \in Conns : thr[c].at \in {"headers", "body"}}
Streaming(c) == thr[c].at \in {"gated", "opening", "stream"}
\* The compose handlers hold a render slot from the body to the answer.
Rendering(c) == thr[c].ask \in Composes /\ thr[c].at \in {"body", "working", "answer"}

InitServer ==
    /\ thr = [c \in Conns \cup {Gui} |-> NoThread]
    /\ slots = MaxConnections /\ renders = MaxRenders
    /\ deadlines = {} /\ late = {}
    /\ perPage = [p \in Pages |-> 0]
    /\ subs = <<>> /\ leaked = {}
    /\ control = [state |-> "idle", holder |-> None]
    /\ radio = FALSE
    /\ frame = [image |-> None, png |-> None, count |-> 0]
    /\ raised = FALSE

---------------------------------------------------------------------------
(* Connections, deadlines and the reaper                                   *)

\* A connection under the cap gets a slot and a thread, which arms the
\* deadline of its headers before it reads a byte.
Accept(c, p, ask) ==
    /\ slots > 0 /\ ~Live(c)
    /\ slots' = slots - 1
    /\ thr' = [thr EXCEPT ![c] = [NoThread EXCEPT !.at = "headers", !.page = p,
                                     !.ask = ask, !.open = TRUE]]
    /\ deadlines' = deadlines \cup {c}
    /\ UNCHANGED <<late, renders, perPage, subs, leaked, control, radio, frame, raised>>

\* Over the cap the socket is closed at accept; a thread that cannot be
\* started gives its slot back.  Either way the client is turned away.
Refuse ==
    UNCHANGED serverVars

\* The thread's last words: the socket is shut, its deadline dropped and
\* its slot returned, however the handler ended.
Finish(c) ==
    /\ thr[c].at = "closing"
    /\ thr' = [thr EXCEPT ![c] = NoThread]
    /\ deadlines' = deadlines \ {c} /\ late' = late \ {c}
    /\ slots' = slots + 1
    /\ UNCHANGED <<renders, perPage, subs, leaked, control, radio, frame, raised>>

\* The socket goes away under the thread: the client left, or the reaper
\* shut it down.
Gone(c) == thr' = [thr EXCEPT ![c].open = FALSE]

\* The reaper takes a connection past its deadline off the list under the
\* lock and shuts the socket down after it has let the lock go.
PickLate(c) ==
    /\ c \in deadlines
    /\ deadlines' = deadlines \ {c} /\ late' = late \cup {c}
    /\ UNCHANGED <<thr, slots, renders, perPage, subs, leaked, control, radio, frame, raised>>

ShutLate(c) ==
    /\ c \in late
    /\ late' = late \ {c}
    /\ Gone(c)
    /\ UNCHANGED <<slots, deadlines, renders, perPage, subs, leaked, control, radio, frame, raised>>

\* A read on a shut socket ends the request line or leaves the body short.
ReadFails(c) ==
    /\ c \in Reading /\ ~thr[c].open
    /\ deadlines' = deadlines \ {c}
    /\ thr' = [thr EXCEPT ![c].at = "closing"]
    /\ renders' = IF Rendering(c) THEN renders + 1 ELSE renders
    /\ UNCHANGED <<slots, late, perPage, subs, leaked, control, radio, frame, raised>>

---------------------------------------------------------------------------
(* Routing                                                                 *)

\* The headers are in: the deadline is cleared and the route decides.
Headers(c, at, ok) ==
    /\ thr[c].at = "headers" /\ thr[c].open
    /\ deadlines' = deadlines \ {c}
    /\ thr' = [thr EXCEPT ![c].at = at, ![c].ok = ok]

\* A control request reads its JSON body under a deadline of its own.
RouteControl(c) ==
    /\ thr[c].at = "headers" /\ thr[c].open /\ thr[c].ask \in Posts
    /\ thr' = [thr EXCEPT ![c].at = "body"]
    /\ deadlines' = deadlines \cup {c}
    /\ UNCHANGED <<slots, late, renders, perPage, subs, leaked, control, radio, frame, raised>>

\* Compose takes a render slot before the upload is read, or answers 503.
\* Staging with remote transmit off answers 403 at once, the slot in hand.
RouteCompose(c) ==
    /\ thr[c].at = "headers" /\ thr[c].open /\ thr[c].ask \in Composes
    /\ IF renders > 0
       THEN /\ renders' = renders - 1
            /\ \/ /\ thr' = [thr EXCEPT ![c].at = "body"]
                  /\ deadlines' = deadlines \cup {c}
               \/ thr[c].ask = "stage" /\ Headers(c, "answer", FALSE)
       ELSE /\ Headers(c, "refused", FALSE)
            /\ UNCHANGED renders
    /\ UNCHANGED <<slots, late, perPage, subs, leaked, control, radio, frame, raised>>

\* The current frame of the reception in progress: the cached PNG, nothing
\* (204), or an encode of the image read under the lock.
RouteFrame(c) ==
    /\ thr[c].at = "headers" /\ thr[c].open /\ thr[c].ask = "frame"
    /\ deadlines' = deadlines \ {c}
    /\ IF frame.png # None \/ frame.image = None
       THEN thr' = [thr EXCEPT ![c].at = "answer", ![c].ok = TRUE]
       ELSE thr' = [thr EXCEPT ![c].at = "working", ![c].event = frame.image]
    /\ UNCHANGED <<slots, late, renders, perPage, subs, leaked, control, radio, frame, raised>>

\* fault: the PNG is cached without looking whether the frame moved on.
EncodeBlind(c) ==
    /\ thr[c].at = "working" /\ thr[c].ask = "frame"
    /\ frame' = [frame EXCEPT !.png = thr[c].event]
    /\ thr' = [thr EXCEPT ![c].at = "answer", ![c].ok = TRUE, ![c].event = None]
    /\ UNCHANGED <<slots, deadlines, late, renders, perPage, subs, leaked, control, radio, raised>>

\* The encoded PNG is cached only when its image is still the current one.
Encode(c) ==
    /\ thr[c].at = "working" /\ thr[c].ask = "frame"
    /\ frame' = IF frame.image = thr[c].event
                THEN [frame EXCEPT !.png = thr[c].event] ELSE frame
    /\ thr' = [thr EXCEPT ![c].at = "answer", ![c].ok = TRUE, ![c].event = None]
    /\ UNCHANGED <<slots, deadlines, late, renders, perPage, subs, leaked, control, radio, raised>>

\* A render answers with the image, a stage with its id, or 400 for an
\* upload the compositor cannot use.
Compose(c) ==
    /\ thr[c].at = "body" /\ thr[c].open /\ thr[c].ask \in Composes
    /\ deadlines' = deadlines \ {c}
    /\ \E ok \in BOOLEAN :
          thr' = [thr EXCEPT ![c].at = "answer", ![c].ok = ok]
    /\ UNCHANGED <<slots, late, renders, perPage, subs, leaked, control, radio, frame, raised>>

---------------------------------------------------------------------------
(* Control requests                                                        *)

Idle(h) == [state |-> "idle", holder |-> h]

\* What the plane answers, and its state after it.  Time is left open: a
\* confirm may come too late, a request may meet the cooldown.
Outcomes(ask, p) ==
    LET mine == control.holder = p
        no == [ok |-> FALSE, next |-> control]
        yes(next) == [ok |-> TRUE, next |-> next]
    IN  CASE ask = "lease" ->
               {IF control.holder \in {None, p} THEN yes([control EXCEPT !.holder = p]) ELSE no}
          [] ask = "release" -> {IF mine THEN yes(Idle(None)) ELSE no}
          [] ask = "heartbeat" -> {IF mine THEN yes(control) ELSE no}
          [] ask = "abort" ->
               {IF mine /\ control.state # "idle" THEN yes(Idle(p)) ELSE no}
          [] ask = "request" ->
               {no} \cup (IF mine /\ control.state = "idle" /\ ~radio
                          THEN {yes([control EXCEPT !.state = "awaiting"])} ELSE {})
          [] ask = "confirm" ->
               IF mine /\ control.state = "awaiting"
               THEN {yes([control EXCEPT !.state = "transmitting"]),
                     [ok |-> FALSE, next |-> Idle(p)]}
               ELSE {no}

\* The body is in: the plane's operation runs, and the thread goes on to
\* tell the viewers.
Control(c) ==
    /\ thr[c].at = "body" /\ thr[c].open /\ thr[c].ask \in Posts
    /\ deadlines' = deadlines \ {c}
    /\ \E o \in Outcomes(thr[c].ask, thr[c].page) :
          /\ control' = o.next
          /\ radio' = (radio \/ (o.ok /\ thr[c].ask = "confirm"))
          /\ thr' = [thr EXCEPT ![c].at = "telling", ![c].ok = o.ok]
    /\ UNCHANGED <<slots, late, renders, perPage, subs, leaked, frame, raised>>

\* The sweep of the tick thread: a lost heartbeat, an expired token, a
\* lapsed lease.  It tells nobody.
Tick ==
    /\ control' = CASE control.state = "transmitting" -> Idle(None)
                    [] control.state = "awaiting" -> Idle(control.holder)
                    [] OTHER -> Idle(None)
    /\ control' # control
    /\ UNCHANGED <<thr, slots, deadlines, late, renders, perPage, subs, leaked, radio, frame, raised>>

\* The operator at the station presses Send or Stop: the lease is taken back.
ReclaimLocal ==
    /\ thr[Gui].at = "none" /\ control.holder # None
    /\ control' = Idle(None)
    /\ UNCHANGED <<thr, slots, deadlines, late, renders, perPage, subs, leaked, radio, frame, raised>>

---------------------------------------------------------------------------
(* Publishing                                                              *)

Status == [type |-> "tx", state |-> control.state, held |-> control.holder # None]

\* publish(): the snapshot of the event and of the subscribers.  A request
\* thread reads the status afresh.
Begin(t, event) ==
    thr' = [thr EXCEPT ![t].at = "putting", ![t].event = event, ![t].todo = DOMAIN subs]

Tell(t) ==
    /\ thr[t].at = "telling"
    /\ Begin(t, Status)
    /\ UNCHANGED <<slots, deadlines, late, renders, perPage, subs, leaked, control, radio, frame, raised>>

Push(q, event) == [subs EXCEPT ![q] = Append(@, event)]

\* put_nowait on the next subscriber; a full queue is dealt with in two
\* more calls.  One that has unsubscribed since takes the event nowhere.
Put(t, q) ==
    /\ thr[t].at = "putting" /\ q \in thr[t].todo
    /\ IF q \in DOMAIN subs /\ Len(subs[q]) >= QueueSize
       THEN /\ thr' = [thr EXCEPT ![t].at = "full", ![t].queue = q]
            /\ UNCHANGED subs
       ELSE /\ thr' = [thr EXCEPT ![t].todo = @ \ {q}]
            /\ subs' = IF q \in DOMAIN subs THEN Push(q, thr[t].event) ELSE subs
    /\ UNCHANGED <<slots, deadlines, late, renders, perPage, leaked, control, radio, frame, raised>>

\* get_nowait of the oldest event.  When the reader drained the queue
\* meanwhile, queue.Empty is caught and the new event is not put.
DropOldest(t) ==
    LET q == thr[t].queue IN
    /\ thr[t].at = "full"
    /\ IF q \in DOMAIN subs /\ subs[q] # <<>>
       THEN /\ subs' = [subs EXCEPT ![q] = Tail(@)]
            /\ thr' = [thr EXCEPT ![t].at = "refill"]
       ELSE /\ thr' = [thr EXCEPT ![t].at = "putting", ![t].todo = @ \ {q}, ![t].queue = None]
            /\ UNCHANGED subs
    /\ UNCHANGED <<slots, deadlines, late, renders, perPage, leaked, control, radio, frame, raised>>

\* The second put_nowait.  When another publisher refilled the queue,
\* queue.Full leaves publish(): a request thread dies without an answer,
\* the GUI slot is abandoned, and the subscribers left get nothing.
Refill(t) ==
    LET q == thr[t].queue IN
    /\ thr[t].at = "refill"
    /\ IF q \in DOMAIN subs /\ Len(subs[q]) >= QueueSize
       THEN /\ thr' = [thr EXCEPT ![t] = IF t = Gui THEN NoThread
                          ELSE [@ EXCEPT !.at = "closing", !.todo = {}, !.queue = None,
                                         !.event = None]]
            /\ raised' = TRUE
            /\ UNCHANGED subs
       ELSE /\ subs' = IF q \in DOMAIN subs THEN Push(q, thr[t].event) ELSE subs
            /\ thr' = [thr EXCEPT ![t].at = "putting", ![t].todo = @ \ {q}, ![t].queue = None]
            /\ UNCHANGED raised
    /\ UNCHANGED <<slots, deadlines, late, renders, perPage, leaked, control, radio, frame>>

\* Every subscriber is done: the request is answered, the GUI goes on.
Told(t) ==
    /\ thr[t].at = "putting" /\ thr[t].todo = {}
    /\ thr' = [thr EXCEPT ![t] = IF t = Gui THEN NoThread
                                 ELSE [@ EXCEPT !.at = "answer", !.event = None]]
    /\ UNCHANGED <<slots, deadlines, late, renders, perPage, subs, leaked, control, radio, frame, raised>>

---------------------------------------------------------------------------
(* The GUI thread                                                          *)

GuiFree == thr[Gui].at = "none"

\* A decoded line: the service keeps a private copy of the frame, and the
\* viewers are told.
RxProgress ==
    /\ GuiFree /\ frame.count < MaxFrames
    /\ frame' = [image |-> frame.count + 1, png |-> None, count |-> frame.count + 1]
    /\ Begin(Gui, [type |-> "rx", state |-> "idle", held |-> FALSE])
    /\ UNCHANGED <<slots, deadlines, late, renders, perPage, subs, leaked, control, radio, raised>>

\* The reception is complete: no frame is live any more.
RxComplete ==
    /\ GuiFree /\ frame.image # None
    /\ frame' = [frame EXCEPT !.image = None, !.png = None]
    /\ Begin(Gui, [type |-> "rx", state |-> "idle", held |-> FALSE])
    /\ UNCHANGED <<slots, deadlines, late, renders, perPage, subs, leaked, control, radio, raised>>

Returned == IF control.state = "transmitting" THEN Idle(control.holder) ELSE control

\* A remote transmission ended: the plane returns to idle if it still is
\* transmitting.  The viewers hear of it with the next heartbeat.
TxEnded ==
    /\ GuiFree /\ radio
    /\ radio' = FALSE /\ control' = Returned
    /\ UNCHANGED <<thr, slots, deadlines, late, renders, perPage, subs, leaked, frame, raised>>

\* The image or the mode asked for cannot be sent: the plane returns to
\* idle, and the viewers are told.
TxAbandoned ==
    /\ GuiFree /\ radio
    /\ radio' = FALSE /\ control' = Returned
    /\ thr' = [thr EXCEPT ![Gui].at = "telling"]
    /\ UNCHANGED <<slots, deadlines, late, renders, perPage, subs, leaked, frame, raised>>

---------------------------------------------------------------------------
(* Event streams                                                           *)

\* The gate per address.
RouteEvents(c) ==
    LET p == thr[c].page IN
    /\ thr[c].ask = "events"
    /\ IF perPage[p] >= MaxPerPage
       THEN Headers(c, "refused", FALSE) /\ UNCHANGED perPage
       ELSE Headers(c, "gated", FALSE) /\ perPage' = [perPage EXCEPT ![p] = @ + 1]
    /\ UNCHANGED <<slots, late, renders, subs, leaked, control, radio, frame, raised>>

\* The finally of the gate.
LeaveGate(c) == perPage' = [perPage EXCEPT ![thr[c].page] = @ - 1]

\* The hub takes the subscriber, or answers that there are too many.
Subscribe(c) ==
    /\ thr[c].at = "gated"
    /\ IF Cardinality(DOMAIN subs) >= MaxStreams
       THEN /\ thr' = [thr EXCEPT ![c].at = "refused"]
            /\ LeaveGate(c)
            /\ UNCHANGED subs
       ELSE /\ thr' = [thr EXCEPT ![c].at = "opening"]
            /\ subs' = [q \in DOMAIN subs \cup {c} |-> IF q = c THEN <<>> ELSE subs[q]]
            /\ UNCHANGED perPage
    /\ UNCHANGED <<slots, deadlines, late, renders, leaked, control, radio, frame, raised>>

Without(q) == [r \in DOMAIN subs \ {q} |-> subs[r]]

\* The response headers are written before the try block: a client that is
\* already gone ends the thread there, and its queue stays subscribed.
OpenFails(c) ==
    /\ thr[c].at = "opening" /\ ~thr[c].open
    /\ LET ghost == MaxConnections + Cardinality(leaked) + 1
       IN  /\ leaked' = leaked \cup {ghost}
           /\ subs' = [q \in (DOMAIN subs \ {c}) \cup {ghost} |->
                         IF q = ghost THEN subs[c] ELSE subs[q]]
    /\ LeaveGate(c)
    /\ thr' = [thr EXCEPT ![c].at = "closing"]
    /\ UNCHANGED <<slots, deadlines, late, renders, control, radio, frame, raised>>

\* The stream opens with the current transmit state.
Open(c) ==
    /\ thr[c].at = "opening" /\ thr[c].open
    /\ thr' = [thr EXCEPT ![c].at = "stream"]
    /\ UNCHANGED <<slots, deadlines, late, renders, perPage, subs, leaked, control, radio, frame, raised>>

\* The next event is written out.
Deliver(c) ==
    /\ thr[c].at = "stream" /\ thr[c].open /\ subs[c] # <<>>
    /\ subs' = [subs EXCEPT ![c] = Tail(@)]
    /\ UNCHANGED <<thr, slots, deadlines, late, renders, perPage, leaked, control, radio, frame, raised>>

\* fault: the stream's end forgets the gate.
EndStreamHeld(c, stopping) ==
    /\ thr[c].at = "stream" /\ (~thr[c].open \/ stopping)
    /\ subs' = Without(c)
    /\ thr' = [thr EXCEPT ![c].at = "closing"]
    /\ UNCHANGED <<slots, deadlines, late, renders, perPage, leaked, control, radio, frame, raised>>

\* A write to a client that is gone fails, or the server is stopping: the
\* subscriber is dropped and the gate released.
EndStream(c, stopping) ==
    /\ thr[c].at = "stream" /\ (~thr[c].open \/ stopping)
    /\ subs' = Without(c)
    /\ LeaveGate(c)
    /\ thr' = [thr EXCEPT ![c].at = "closing"]
    /\ UNCHANGED <<slots, deadlines, late, renders, leaked, control, radio, frame, raised>>

\* The answer is written, or the write fails; a compose slot goes back
\* either way.
Answer(c) ==
    /\ thr[c].at \in {"answer", "refused"}
    /\ renders' = IF Rendering(c) THEN renders + 1 ELSE renders
    /\ thr' = [thr EXCEPT ![c].at = "closing"]
    /\ UNCHANGED <<slots, deadlines, late, perPage, subs, leaked, control, radio, frame, raised>>

---------------------------------------------------------------------------
(* Properties                                                              *)

\* Whatever way a request ends, it gives back its connection slot, its
\* render slot and its share of the streams of its address
\* (server.py:340-356, 904-914, 961-988).
SlotsReturned ==
    /\ slots = MaxConnections - Cardinality({c \in Conns : Live(c)})
    /\ renders = MaxRenders - Cardinality({c \in Conns : Rendering(c)})
    /\ \A p \in Pages :
          perPage[p] = Cardinality({c \in Conns : thr[c].page = p /\ Streaming(c)})

\* A thread that waits for its client's bytes always has a deadline running
\* or is about to be shut down, and no deadline runs against a thread that
\* is answering or streaming (server.py:370-383, 551-574, 781-791).
BoundedReading ==
    /\ \A c \in Reading : c \in deadlines \cup late \/ ~thr[c].open
    /\ deadlines \subseteq Reading

\* A connection's places are given back when it ends, and no client can hold
\* one by sending nothing.
PlacesGivenBack == SlotsReturned /\ BoundedReading

\* The cached preview is the frame being received, never one the GUI has
\* replaced or cleared while a request thread was encoding it
\* (service.py:278-313).
PreviewCurrent == frame.png \in {None, frame.image}

\* "Never blocks and never raises" (events.py:62-63).
PublishNeverRaises == ~raised
===========================================================================
