---------------------------- MODULE RemotePage ----------------------------
(***************************************************************************)
(* The browser page of the remote gallery (the script of remote/page.py)   *)
(* composed with the server that answers it: the event stream with its     *)
(* reconnect, the heartbeat timer, taking and releasing control, the two   *)
(* ways to transmit (an image of the gallery, a composed one) and the      *)
(* live preview.                                                           *)
(*                                                                         *)
(* A handler of the page runs to its next await without interruption, so   *)
(* it is part of the step that brings its answer or its event.  A page     *)
(* has at most one flow, one heartbeat, one preview and one stream in      *)
(* flight.                                                                 *)
(***************************************************************************)
EXTENDS RemoteServer

CONSTANT MaxWork      \* bound: requests, events of the GUI and mishaps

VARIABLES
    page,       \* state of each page's script
    server,     \* "up", "reclaimed" while it is being stopped, "down"
    work        \* what is left of MaxWork

vars == <<serverVars, page, server, work>>

Fresh == [hold |-> FALSE, beat |-> FALSE, state |-> "idle", held |-> FALSE,
          flow |-> <<>>, stream |-> "connect"]

Init ==
    /\ InitServer
    /\ page = [p \in Pages |-> Fresh]
    /\ server = "up"
    /\ work = MaxWork

Spend(n) == work >= n /\ work' = work - n

Asking(p, asks) == \E c \in Conns : Live(c) /\ thr[c].page = p /\ thr[c].open /\ thr[c].ask \in asks

FlowSteps == {"lease", "release", "abort", "request", "confirm", "stage"}
Waiting(p) == Asking(p, FlowSteps)

---------------------------------------------------------------------------
(* What the script does with an answer                                     *)

\* A flow goes on when its step succeeded; a refusal ends it.
Advance(flow, ok) == IF ok THEN Tail(flow) ELSE <<>>

DropHold(pg) == [pg EXCEPT !.hold = FALSE, !.beat = FALSE]

\* takeControl, releaseControl, abortTx, the two transmit flows, the
\* heartbeat callback and EventSource.onerror.
OnAnswer(pg, ask, ok) ==
    CASE ask = "lease" ->
           [pg EXCEPT !.hold = @ \/ ok, !.beat = @ \/ ok, !.flow = Advance(pg.flow, ok)]
      [] ask = "release" -> [DropHold(pg) EXCEPT !.flow = <<>>]
      [] ask \in {"abort", "request", "confirm", "stage"} ->
           [pg EXCEPT !.flow = Advance(pg.flow, ok)]
      [] ask = "heartbeat" -> IF ok THEN pg ELSE DropHold(pg)
      [] ask = "events" -> [pg EXCEPT !.stream = IF ok THEN "open" ELSE "dead"]
      [] OTHER -> pg

\* fault: a lapsed lease stops the timer and leaves the page in control.
OnEventKeeping(pg, ev) ==
    IF ev.type # "tx" THEN pg
    ELSE [pg EXCEPT !.state = ev.state, !.held = ev.held, !.beat = @ /\ ev.held]

\* onTxState: the server's word on the lease replaces the page's.
OnEvent(pg, ev) ==
    IF ev.type # "tx" THEN pg
    ELSE LET told == [pg EXCEPT !.state = ev.state, !.held = ev.held]
         IN  IF ev.held THEN told ELSE DropHold(told)

\* The connection broke: a fetch is rejected; a stream reconnects.
OnBroken(pg, ask) ==
    IF ask = "events" THEN [pg EXCEPT !.stream = "connect"] ELSE OnAnswer(pg, ask, FALSE)

SamePage == UNCHANGED page
Served == UNCHANGED <<server, work>>

---------------------------------------------------------------------------
(* Requests of the page                                                    *)

\* A request reaches the server, or is turned away: at the door, or because
\* nobody listens.
Fetch(p, ask) ==
    /\ \/ server # "down" /\ \E c \in Conns : Accept(c, p, ask) /\ SamePage
       \/ /\ slots = 0 \/ server = "down"
          /\ Refuse
          /\ page' = [page EXCEPT ![p] = OnBroken(@, ask)]
    /\ UNCHANGED server

\* connect() and EventSource's own reconnect after a broken stream.
Connect(p) ==
    /\ page[p].stream = "connect" /\ ~Asking(p, {"events"})
    /\ Spend(1)
    /\ Fetch(p, "events")

\* The buttons renderTx() offers: Take control, Release, Abort, Transmit,
\* and Transmit of the compose view, which takes control first.
Flows(pg) ==
    (IF ~pg.hold /\ ~pg.held THEN {<<"lease">>} ELSE {})
    \cup (IF pg.hold /\ pg.state # "transmitting" THEN {<<"release">>} ELSE {})
    \cup (IF pg.hold /\ pg.state = "transmitting" THEN {<<"abort">>} ELSE {})
    \cup (IF pg.hold /\ pg.state = "idle" THEN {<<"request", "confirm">>} ELSE {})
    \cup {IF pg.hold THEN <<"stage", "request", "confirm">>
          ELSE <<"lease", "stage", "request", "confirm">>}

Click(p) ==
    /\ page[p].flow = <<>>
    /\ Spend(1)
    /\ \E f \in Flows(page[p]) : page' = [page EXCEPT ![p].flow = f]
    /\ UNCHANGED <<serverVars, server>>

FlowStep(p) ==
    /\ page[p].flow # <<>> /\ ~Waiting(p)
    /\ UNCHANGED work
    /\ Fetch(p, Head(page[p].flow))

\* The heartbeat timer.
Beat(p) ==
    /\ page[p].beat /\ ~Asking(p, {"heartbeat"})
    /\ Spend(1)
    /\ Fetch(p, "heartbeat")

\* The live preview an rx event makes the page load, and a compose preview.
Look(p) ==
    /\ Spend(1)
    /\ \/ frame.image # None /\ ~Asking(p, {"frame"}) /\ Fetch(p, "frame")
       \/ ~Asking(p, {"render"}) /\ Fetch(p, "render")

---------------------------------------------------------------------------
(* Answers and events reach the page                                       *)

Answered(c) ==
    /\ Answer(c)
    /\ page' = IF thr[c].open
               THEN [page EXCEPT ![thr[c].page] =
                        OnAnswer(@, thr[c].ask, thr[c].ok /\ thr[c].at = "answer")]
               ELSE page
    /\ Served

\* The stream opens: its first event is the status of this moment.
StreamOpens(c) ==
    /\ Open(c)
    /\ page' = [page EXCEPT ![thr[c].page] = OnEvent(OnAnswer(@, "events", TRUE), Status)]
    /\ Served

EventArrives(c) ==
    /\ Deliver(c)
    /\ page' = [page EXCEPT ![thr[c].page] = OnEvent(@, Head(subs[c]))]
    /\ Served

\* The connection breaks, or the reaper shuts it down: unless it was answered
\* in full, the page sees its request fail.
Broken(c) ==
    page' = IF thr[c].open /\ thr[c].at # "closing"
            THEN [page EXCEPT ![thr[c].page] = OnBroken(@, thr[c].ask)] ELSE page

Drop(c) ==
    /\ Live(c) /\ thr[c].open /\ thr[c].at # "closing"
    /\ Gone(c)
    /\ Broken(c)
    /\ Spend(1)
    /\ UNCHANGED <<slots, deadlines, late, renders, perPage, subs, leaked, control,
                   radio, frame, raised, server>>

\* The reaper ends with the server.
Late(c) == server # "down" /\ PickLate(c) /\ Spend(1) /\ UNCHANGED <<page, server>>

Reaped(c) == ShutLate(c) /\ Broken(c) /\ Served

\* A request whose thread died in publish(): the fetch is rejected.
Refilled(t) ==
    /\ Refill(t)
    /\ page' = IF t # Gui /\ raised' /\ thr'[t].at = "closing" /\ thr[t].open
               THEN [page EXCEPT ![thr[t].page] = OnAnswer(@, thr[t].ask, FALSE)]
               ELSE page
    /\ Served

\* The tab is closed or reloaded: its connections go, its script starts
\* over.  sessionStorage keeps its client id.
Reload(p) ==
    /\ page[p] # Fresh
    /\ Spend(2)
    /\ thr' = [c \in DOMAIN thr |->
                 IF thr[c].page = p THEN [thr[c] EXCEPT !.open = FALSE] ELSE thr[c]]
    /\ page' = [page EXCEPT ![p] = Fresh]
    /\ UNCHANGED <<slots, deadlines, late, renders, perPage, subs, leaked, control,
                   radio, frame, raised, server>>

---------------------------------------------------------------------------
(* The station                                                             *)

\* The GUI thread is busy while it stops the server; the tick thread ends
\* with it.
Station ==
    /\ \/ server # "reclaimed" /\ Spend(1) /\ (RxProgress \/ RxComplete \/ TxAbandoned \/ ReclaimLocal)
       \/ server # "reclaimed" /\ UNCHANGED work /\ TxEnded
       \/ server # "down" /\ UNCHANGED work /\ Tick
    /\ UNCHANGED <<page, server>>

\* _stop_remote_server, when the settings turn the server off or change where
\* it listens, and at closing: first the control plane is reclaimed ...
StopServer ==
    /\ server = "up" /\ GuiFree /\ work < MaxWork
    /\ server' = "reclaimed"
    /\ control' = Idle(None)
    /\ UNCHANGED <<thr, slots, deadlines, late, renders, perPage, subs, leaked, radio,
                   frame, raised, page, work>>

\* ... then stop() raises the flag, at which the tick and reaper threads and
\* every stream end, and nobody is accepted any more.  Requests under way
\* are answered.
ServerStops ==
    /\ server = "reclaimed"
    /\ server' = "down"
    /\ UNCHANGED <<serverVars, page, work>>

\* _apply_remote_server: a new server, with the old hub and control plane
\* (bound: when the threads of the old one are done).
StartServer ==
    /\ server = "down" /\ GuiFree /\ \A c \in Conns : ~Live(c)
    /\ Spend(1)
    /\ server' = "up"
    /\ UNCHANGED <<serverVars, page>>

StreamEnds(c) ==
    /\ EndStream(c, server = "down")
    /\ page' = IF thr[c].open THEN [page EXCEPT ![thr[c].page] = OnBroken(@, "events")] ELSE page
    /\ Served

ServerStep ==
    /\ \/ \E c \in Conns :
             \/ Finish(c) \/ ReadFails(c)
             \/ RouteControl(c) \/ RouteCompose(c) \/ RouteFrame(c) \/ RouteEvents(c)
             \/ Encode(c) \/ Compose(c) \/ Control(c)
             \/ Subscribe(c) \/ OpenFails(c)
       \/ \E t \in Conns \cup {Gui} :
             \/ Tell(t) \/ DropOldest(t) \/ Told(t)
             \/ \E q \in thr[t].todo : Put(t, q)
    /\ UNCHANGED <<page, server, work>>

Next ==
    \/ ServerStep
    \/ \E p \in Pages :
          Connect(p) \/ Click(p) \/ FlowStep(p) \/ Beat(p) \/ Look(p) \/ Reload(p)
    \/ \E c \in Conns :
          \/ Answered(c) \/ StreamOpens(c) \/ EventArrives(c) \/ StreamEnds(c)
          \/ Drop(c) \/ Late(c) \/ Reaped(c)
    \/ \E t \in Conns \cup {Gui} : Refilled(t)
    \/ Station \/ StopServer \/ ServerStops \/ StartServer

Spec == Init /\ [][Next]_vars

---------------------------------------------------------------------------
(* Properties                                                              *)

\* A page that still shows itself in control after the station gave the
\* lease away keeps its heartbeat running, so the next beat tells it so;
\* no other order of events and answers leaves it in control for good
\* (page.py:670-690, 764-776).
LostLeaseNoticed ==
    \A p \in Pages : page[p].hold /\ control.holder # p => page[p].beat

\* Once no event is on its way, a connected page shows the lease and the
\* transmit state the control plane has: "server released/lapsed it"
\* (page.py:768).
ViewersConverge ==
    (\A t \in Conns \cup {Gui} : thr[t].at \in {"none", "stream", "headers"})
    => \A c \in Conns :
          thr[c].at = "stream" /\ thr[c].open /\ subs[c] = <<>>
          => /\ page[thr[c].page].held = (control.holder # None)
             /\ page[thr[c].page].state = control.state
\* main_window.py:1468-1471: "any in-flight remote TX must be unkeyed and the
\* lease dropped here rather than outliving its watchdog across a
\* stop/restart".
NeverUnwatched == server = "down" => control.state # "transmitting"
===========================================================================
