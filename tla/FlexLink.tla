------------------------------ MODULE FlexLink ------------------------------
(***************************************************************************)
(* The FlexRadio backend (radio/flex.py): one socket, one reader thread,   *)
(* commands matched to their replies by number, state pushed by the radio. *)
(*                                                                         *)
(* The transmit worker sends commands and, when an unkey fails, closes and *)
(* reopens the link; the window opens and closes it; the poll reads the    *)
(* cached state, which is worth something only while the reader lives.     *)
(* What the lock does not cover is the reader: it sets the loss flag and   *)
(* fails the waiting commands without holding it.                          *)
(***************************************************************************)
EXTENDS Naturals, FiniteSets

CONSTANTS
    FlexCallers,  \* threads that command, open or close
    MaxLinks,     \* bound: sockets opened
    MaxCommands   \* bound: commands sent

ASSUME FlexAssumption == MaxLinks \in Nat /\ MaxCommands \in Nat /\ "free" \notin FlexCallers

VARIABLES
    sock,     \* the socket in use (0: none)
    links,    \* sockets opened
    cut,      \* sockets the radio has dropped
    stop,     \* _stop
    lost,     \* _lost
    sliceSeen,
    reader,   \* _reader: the thread close() will join (0: none)
    readers,  \* each reader thread: where it is, and the socket it reads
    pending,  \* numbers of the commands in flight
    seq,      \* _seq
    asked,    \* commands the radio received: <<socket, number>>
    holder,   \* the caller that holds _lock between two steps, or "free"
    do,       \* what each caller is doing
    crossed   \* ghost: two callers were opening or closing at once

flexVars == <<sock, links, cut, stop, lost, sliceSeen, reader, readers, pending,
              seq, asked, holder, do, crossed>>

Idle == [at |-> "idle", cmd |-> "none", seq |-> 0, sock |-> 0, got |-> "none"]
\* a caller inside open() or close()
Opening(c)   == do[c].cmd \in {"subSlice", "subTx", "subAll"}
Lifecycle(c) == Opening(c) \/ do[c].at \in {"slice", "detach", "take", "join", "sweep"}

FlexInit ==
    /\ sock = 0 /\ links = 0 /\ cut = {} /\ stop = FALSE /\ lost = FALSE
    /\ sliceSeen = FALSE /\ reader = 0
    /\ readers = [r \in 1..MaxLinks |-> [at |-> "none", on |-> 0]]
    /\ pending = {} /\ seq = 0 /\ asked = {} /\ holder = "free"
    /\ do = [c \in FlexCallers |-> Idle]
    /\ crossed = FALSE

Step(c, rec) == do' = [do EXCEPT ![c] = rec]
Cross(c) == crossed' = (crossed \/ \E d \in FlexCallers \ {c} : Lifecycle(d))

-----------------------------------------------------------------------------
(* _command *)

\* The lock is taken; no socket or a known loss fails at once.
Check(c, cmd) ==
    /\ holder = "free"
    /\ IF sock = 0 \/ lost
       THEN /\ Step(c, [do[c] EXCEPT !.at = "answer", !.cmd = cmd, !.got = "failed"])
            /\ UNCHANGED holder
       ELSE /\ holder' = c
            /\ Step(c, [do[c] EXCEPT !.at = "send", !.cmd = cmd])
    /\ UNCHANGED <<sock, links, cut, stop, lost, sliceSeen, reader, readers,
                   pending, seq, asked, crossed>>

\* set_freq, set_mode, set_ptt and ping write commands of one kind ("xmit"); the
\* getters only read what the radio has pushed.
StartCommand(c) == do[c] = Idle /\ links > 0 /\ seq < MaxCommands /\ Check(c, "xmit")
NextCommand(c)  == do[c].at = "ask" /\ seq < MaxCommands /\ Check(c, do[c].cmd)

\* The command is numbered, entered among those in flight and written; a
\* dropped socket may take the bytes or refuse them.
Send(c, taken) ==
    /\ holder = c /\ do[c].at = "send"
    /\ sock \notin cut => taken
    /\ seq' = seq + 1 /\ holder' = "free"
    /\ pending' = IF taken THEN pending \cup {seq'} ELSE pending
    /\ asked' = IF taken /\ sock \notin cut THEN asked \cup {<<sock, seq'>>} ELSE asked
    /\ Step(c, IF taken THEN [do[c] EXCEPT !.at = "wait", !.seq = seq', !.sock = sock]
                        ELSE [do[c] EXCEPT !.at = "answer", !.got = "failed"])
    /\ UNCHANGED <<sock, links, cut, stop, lost, sliceSeen, reader, readers, crossed>>

\* The reply does not come in time: the entry is withdrawn.
ReplyTimeout(c) ==
    /\ do[c].at = "wait"
    /\ pending' = pending \ {do[c].seq}
    /\ Step(c, [do[c] EXCEPT !.at = "answer", !.got = "failed"])
    /\ UNCHANGED <<sock, links, cut, stop, lost, sliceSeen, reader, readers, seq,
                   asked, holder, crossed>>

\* The command returns or raises.  Inside open() it leads on: to the second
\* subscription, to the fallback the older firmware needs, to the wait for
\* the slice, or to close().
Finish(c) ==
    /\ do[c].at = "answer"
    /\ LET d == do[c] IN
       Step(c, IF d.cmd = "xmit" THEN Idle
          ELSE CASE d.got = "ok" /\ d.cmd = "subSlice" -> [Idle EXCEPT !.at = "ask", !.cmd = "subTx"]
                 [] d.got = "ok" /\ d.cmd # "subSlice" -> [Idle EXCEPT !.at = "slice"]
                 [] d.got = "rejected" /\ d.cmd # "subAll" -> [Idle EXCEPT !.at = "ask", !.cmd = "subAll"]
                 [] OTHER              -> [Idle EXCEPT !.at = "detach"])
    \* close() begins with the stop flag
    /\ stop' = (stop \/ do'[c].at = "detach")
    /\ UNCHANGED <<sock, links, cut, lost, sliceSeen, reader, readers, pending, seq,
                   asked, holder, crossed>>

-----------------------------------------------------------------------------
(* open and close *)

\* open() of an open backend returns at once; a refused connection changes
\* nothing.
OpenFlex(c) ==
    /\ do[c] = Idle /\ holder = "free" /\ sock = 0 /\ links < MaxLinks
    /\ links' = links + 1 /\ sock' = links + 1
    /\ stop' = FALSE /\ lost' = FALSE /\ sliceSeen' = FALSE
    /\ reader' = links + 1
    /\ readers' = [readers EXCEPT ![links + 1] = [at |-> "top", on |-> 0]]
    /\ Step(c, [Idle EXCEPT !.at = "ask", !.cmd = "subSlice"])
    /\ Cross(c)
    /\ UNCHANGED <<cut, pending, seq, asked, holder>>

\* open() ends with the first report of the slice, or gives up and closes.
Opened(c, seen) ==
    /\ do[c].at = "slice"
    /\ seen => sliceSeen
    /\ Step(c, IF seen THEN Idle ELSE [Idle EXCEPT !.at = "detach"])
    /\ stop' = (stop \/ ~seen)
    /\ UNCHANGED <<sock, links, cut, lost, sliceSeen, reader, readers, pending, seq,
                   asked, holder, crossed>>

CloseFlex(c) ==
    /\ do[c] = Idle /\ links > 0
    /\ stop' = TRUE
    /\ Step(c, [Idle EXCEPT !.at = "detach"])
    /\ Cross(c)
    /\ UNCHANGED <<sock, links, cut, lost, sliceSeen, reader, readers, pending, seq,
                   asked, holder>>

\* The socket is taken out under the lock, shut down and closed.
Detach(c) ==
    /\ do[c].at = "detach" /\ holder = "free"
    /\ cut' = IF sock = 0 THEN cut ELSE cut \cup {sock}
    /\ asked' = {a \in asked : a[1] # sock}
    /\ sock' = 0
    /\ Step(c, [Idle EXCEPT !.at = "take"])
    /\ UNCHANGED <<links, stop, lost, sliceSeen, reader, readers, pending, seq,
                   holder, crossed>>

\* fault: close() does not wait for the reader.
TakeNoJoin(c) ==
    /\ do[c].at = "take"
    /\ reader' = 0
    /\ Step(c, [Idle EXCEPT !.at = "sweep"])
    /\ UNCHANGED <<sock, links, cut, stop, lost, sliceSeen, readers, pending, seq,
                   asked, holder, crossed>>

\* The reader is taken and joined.
Take(c) ==
    /\ do[c].at = "take"
    /\ reader' = 0
    /\ Step(c, [Idle EXCEPT !.at = IF reader = 0 THEN "sweep" ELSE "join", !.seq = reader])
    /\ UNCHANGED <<sock, links, cut, stop, lost, sliceSeen, readers, pending, seq,
                   asked, holder, crossed>>

\* The join times out only when someone has cleared the stop flag again.
Joined(c) ==
    /\ do[c].at = "join"
    /\ readers[do[c].seq].at = "dead" \/ ~stop
    /\ Step(c, [Idle EXCEPT !.at = "sweep"])
    /\ UNCHANGED <<sock, links, cut, stop, lost, sliceSeen, reader, readers, pending,
                   seq, asked, holder, crossed>>

\* _fail_pending: every command in flight is woken with a failure.
Woken(d) == IF d.at = "wait" /\ d.seq \in pending
            THEN [d EXCEPT !.at = "answer", !.got = "failed"] ELSE d

Sweep(c) ==
    /\ do[c].at = "sweep"
    /\ do' = [d \in FlexCallers |-> IF d = c THEN Idle ELSE Woken(do[d])]
    /\ pending' = {}
    /\ UNCHANGED <<sock, links, cut, stop, lost, sliceSeen, reader, readers, seq,
                   asked, holder, crossed>>

-----------------------------------------------------------------------------
(* _read_loop *)

Reader(r, at, on) == readers' = [readers EXCEPT ![r] = [at |-> at, on |-> on]]

\* The head of the loop: the stop flag, then the socket now in use.
LoopTop(r) ==
    /\ readers[r].at = "top"
    /\ IF stop \/ sock = 0 THEN Reader(r, "dead", 0) ELSE Reader(r, "recv", sock)
    /\ UNCHANGED <<sock, links, cut, stop, lost, sliceSeen, reader, pending, seq,
                   asked, holder, do, crossed>>

\* A reply: its command, if it still waits, gets it.
ReadReply(r, n, got) ==
    /\ readers[r].at = "recv" /\ readers[r].on \notin cut
    /\ <<readers[r].on, n>> \in asked
    /\ asked' = asked \ {<<readers[r].on, n>>}
    /\ pending' = pending \ {n}
    /\ do' = [c \in FlexCallers |-> IF n \in pending /\ do[c].at = "wait" /\ do[c].seq = n
                                    THEN [do[c] EXCEPT !.at = "answer", !.got = got] ELSE do[c]]
    /\ Reader(r, "top", 0)
    /\ UNCHANGED <<sock, links, cut, stop, lost, sliceSeen, reader, seq, holder, crossed>>

\* A status line of our slice, or an idle second.
ReadStatus(r, slice) ==
    /\ readers[r].at = "recv" /\ readers[r].on \notin cut
    /\ sliceSeen' = (sliceSeen \/ slice)
    /\ Reader(r, "top", 0)
    /\ UNCHANGED <<sock, links, cut, stop, lost, reader, pending, seq, asked, holder,
                   do, crossed>>

\* End of the stream or an error: the loop is left.
ReadEnd(r) ==
    /\ readers[r].at = "recv" /\ readers[r].on \in cut
    /\ Reader(r, "exit", readers[r].on)
    /\ UNCHANGED <<sock, links, cut, stop, lost, sliceSeen, reader, pending, seq,
                   asked, holder, do, crossed>>

\* fault: the reader just ends.
ExitSilent(r) ==
    /\ readers[r].at = "exit"
    /\ Reader(r, "dead", 0)
    /\ UNCHANGED <<sock, links, cut, stop, lost, sliceSeen, reader, pending, seq,
                   asked, holder, do, crossed>>

\* Not asked to stop: the link was lost.
Exit(r) ==
    /\ readers[r].at = "exit"
    /\ lost' = (lost \/ ~stop)
    /\ Reader(r, IF stop THEN "dead" ELSE "sweep", 0)
    /\ UNCHANGED <<sock, links, cut, stop, sliceSeen, reader, pending, seq, asked,
                   holder, do, crossed>>

ReaderSweep(r) ==
    /\ readers[r].at = "sweep"
    /\ do' = [d \in FlexCallers |-> Woken(do[d])]
    /\ pending' = {}
    /\ Reader(r, "dead", 0)
    /\ UNCHANGED <<sock, links, cut, stop, lost, sliceSeen, reader, seq, asked,
                   holder, crossed>>

\* The radio goes away (external).
RadioGone ==
    /\ sock # 0 /\ sock \notin cut
    /\ cut' = cut \cup {sock}
    /\ asked' = {}
    /\ UNCHANGED <<sock, links, stop, lost, sliceSeen, reader, readers, pending, seq,
                   holder, do, crossed>>

FlexNext ==
    \/ \E c \in FlexCallers :
          \/ StartCommand(c) \/ NextCommand(c) \/ ReplyTimeout(c) \/ Finish(c)
          \/ OpenFlex(c) \/ CloseFlex(c) \/ Detach(c) \/ Take(c) \/ Joined(c) \/ Sweep(c)
          \/ \E b \in BOOLEAN : Send(c, b) \/ Opened(c, b)
    \/ \E r \in 1..MaxLinks :
          \/ LoopTop(r) \/ ReadEnd(r) \/ Exit(r) \/ ReaderSweep(r)
          \/ \E b \in BOOLEAN : ReadStatus(r, b)
          \/ \E n \in 1..MaxCommands, got \in {"ok", "rejected"} : ReadReply(r, n, got)
    \/ RadioGone

-----------------------------------------------------------------------------
(* Once close() has returned nobody waits for a reply of the link it closed. *)
NobodyLeftWaiting ==
    \A c \in FlexCallers :
        do[c].at = "wait" /\ do[c].sock # sock =>
            \E d \in FlexCallers : do[d].at \in {"take", "join", "sweep"}

(* A link is declared lost when and only when it is: getters, which answer   *)
(* from what the radio pushed, raise once nobody reads the socket any more,  *)
(* and an older session's reader never condemns the session that replaced it.*)
LossToldExactly ==
    sock # 0 /\ ~stop =>
        /\ readers[sock].at = "dead" => lost
        /\ lost /\ ~crossed => sock \in cut

(* The end of a link reaches everybody it concerns, and nobody else.         *)
LossHandled == NobodyLeftWaiting /\ LossToldExactly
=============================================================================
