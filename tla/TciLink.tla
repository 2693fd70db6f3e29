------------------------------ MODULE TciLink ------------------------------
(***************************************************************************)
(* The TCI backend (radio/tci.py), its receive-audio worker                *)
(* (audio/tci_input_stream.py) and what a transmission does to both        *)
(* (ui/workers.py: _play_via_tci, _unkey_with_retry).                      *)
(*                                                                         *)
(* One WebSocket carries control and audio.  The server pushes its state,  *)
(* the getters answer from a cache, and one flag tells the receive worker  *)
(* and the transmit worker whether the server streams receive audio: each  *)
(* sends its command first and sets the flag after, on its own thread.     *)
(***************************************************************************)
EXTENDS Naturals

CONSTANTS
    MaxSessions,  \* bound: WebSocket sessions opened
    MaxStarts,    \* bound: capture starts
    MaxTx         \* bound: transmissions

ASSUME TciAssumption == {MaxSessions, MaxStarts, MaxTx} \subseteq Nat

VARIABLES
    ws,        \* the session in use (0: none)
    sessions,  \* sessions opened
    linkUp,    \* the session in use still reaches the server
    recv,      \* the receive thread of the session in use runs
    ready,     \* READY: has been seen in it
    streams,   \* the server streams receive audio on it
    subscribed, \* _rx_audio_subscribed
    cached,    \* the session the cached state was pushed in (0: flags clear)
    callback,  \* the worker's audio callback is registered
    rx,        \* the receive worker: "off", "starting", "on", "stopping"
    starts,    \* capture starts
    tx,        \* where the transmission is
    bracket,   \* this transmission started the stream itself
    resume,    \* rx_was_subscribed
    txs,       \* transmissions
    robbed     \* ghost: the stream or the flag changed hands under the receive worker

tciVars == <<ws, sessions, linkUp, recv, ready, streams, subscribed, cached,
             callback, rx, starts, tx, bracket, resume, txs, robbed>>

link == <<ws, sessions, recv, ready, cached>>

TciInit ==
    /\ ws = 0 /\ sessions = 0 /\ linkUp = FALSE /\ recv = FALSE /\ ready = FALSE
    /\ streams = FALSE /\ subscribed = FALSE /\ cached = 0
    /\ callback = FALSE /\ rx = "off" /\ starts = 0
    /\ tx = "idle" /\ bracket = FALSE /\ resume = FALSE /\ txs = 0
    /\ robbed = FALSE

Alive == ws # 0 /\ recv

\* A getter answers from the cache; a frame of receive audio reaches the worker.
FromCache == Alive /\ cached # 0
Heard     == streams /\ callback

\* send: raises without a socket; over a dead one it may still seem to work.
SendWorks == ws # 0
SendFails == ~linkUp
Stream(on) == streams' = IF linkUp THEN on ELSE streams

-----------------------------------------------------------------------------
(* connect and disconnect, as the window and the unkey retry call them *)

Connect ==
    /\ sessions < MaxSessions
    /\ ws' = sessions + 1 /\ sessions' = sessions + 1
    /\ linkUp' = TRUE /\ recv' = TRUE /\ ready' = FALSE
    /\ streams' = FALSE /\ subscribed' = FALSE
    /\ UNCHANGED cached

\* close(): the flag, the socket, the thread, then the cache flags.
Shut ==
    /\ ws' = 0 /\ linkUp' = FALSE /\ recv' = FALSE /\ ready' = FALSE
    /\ streams' = FALSE /\ subscribed' = FALSE /\ cached' = 0
    /\ UNCHANGED sessions

\* The window connects; it closes only a rig no transmission uses, and swaps
\* the receive worker out first.
WindowOpens ==
    /\ ws = 0 /\ tx = "idle" /\ rx = "off"
    /\ Connect
    /\ UNCHANGED <<callback, rx, starts, tx, bracket, resume, txs, robbed>>

WindowCloses ==
    /\ ws # 0 /\ tx = "idle" /\ rx = "off"
    /\ Shut
    /\ UNCHANGED <<callback, rx, starts, tx, bracket, resume, txs, robbed>>

\* READY: never came.
ReadyTimeout ==
    /\ ws # 0 /\ ~ready /\ tx # "reopened"
    /\ Shut
    /\ UNCHANGED <<callback, rx, starts, tx, bracket, resume, txs, robbed>>

\* _on_text: what a pushed state line leaves in the cache, before and after READY:.
Reported == IF ready THEN {ws} ELSE {cached}

\* _recv_loop: READY:, then the burst of state, which fills the cache.
Push ==
    /\ Alive /\ linkUp
    /\ ready' = TRUE
    /\ cached' \in Reported
    /\ UNCHANGED <<ws, sessions, linkUp, recv, streams, subscribed, callback, rx,
                   starts, tx, bracket, resume, txs, robbed>>

\* Any error but a timeout ends the receive thread.
RecvEnds ==
    /\ Alive /\ ~linkUp
    /\ recv' = FALSE
    /\ UNCHANGED <<ws, sessions, linkUp, ready, streams, subscribed, cached, callback,
                   rx, starts, tx, bracket, resume, txs, robbed>>

\* The server or the network goes away (external).
LinkGone ==
    /\ linkUp
    /\ linkUp' = FALSE /\ streams' = FALSE
    /\ UNCHANGED <<ws, sessions, recv, ready, subscribed, cached, callback, rx, starts,
                   tx, bracket, resume, txs, robbed>>

-----------------------------------------------------------------------------
(* TciInputStreamWorker *)

\* start(): the callback, then the four commands that set the stream up ...
RxStart(sent) ==
    /\ rx = "off" /\ ready /\ starts < MaxStarts
    /\ IF sent THEN SendWorks ELSE SendFails
    /\ starts' = starts + 1
    /\ rx' = IF sent THEN "starting" ELSE "off"
    /\ callback' = sent
    /\ IF sent THEN Stream(TRUE) ELSE UNCHANGED streams
    /\ robbed' = (sent /\ tx \in {"starting", "stopping"})
    /\ UNCHANGED <<link, linkUp, subscribed, tx, bracket, resume, txs>>

\* ... and the flag.
RxStarted ==
    /\ rx = "starting"
    /\ rx' = "on" /\ subscribed' = TRUE
    /\ UNCHANGED <<link, linkUp, streams, callback, starts, tx, bracket, resume, txs, robbed>>

\* stop(): the callback and the command, which may fail unseen ...
RxStop ==
    /\ rx = "on"
    /\ rx' = "stopping" /\ callback' = FALSE
    /\ Stream(FALSE)
    /\ UNCHANGED <<link, linkUp, subscribed, starts, tx, bracket, resume, txs, robbed>>

\* ... and the flag.
RxStopped ==
    /\ rx = "stopping"
    /\ rx' = "off" /\ subscribed' = FALSE
    /\ UNCHANGED <<link, linkUp, streams, callback, starts, tx, bracket, resume, txs, robbed>>

-----------------------------------------------------------------------------
(* A transmission *)

\* The server's pipeline needs the stream: it is started for the transmission
\* unless the receive worker has it.  A failed start refuses the transmission,
\* which still unkeys.
TxBegin(sent) ==
    /\ tx = "idle" /\ ready /\ txs < MaxTx
    /\ txs' = txs + 1 /\ resume' = FALSE
    /\ ~subscribed => IF sent THEN SendWorks ELSE SendFails
    /\ subscribed => sent
    /\ bracket' = (~subscribed /\ sent)
    /\ IF bracket' THEN Stream(TRUE) ELSE UNCHANGED streams
    /\ tx' = CASE bracket'   -> "starting"
               [] subscribed -> "play"
               [] OTHER      -> "unkey"
    /\ robbed' = (robbed \/ (bracket' /\ rx # "off"))
    /\ UNCHANGED <<link, linkUp, subscribed, callback, rx, starts>>

TxStarted ==
    /\ tx = "starting"
    /\ tx' = "play" /\ subscribed' = TRUE
    /\ robbed' = (robbed \/ rx # "off")
    /\ UNCHANGED <<link, linkUp, streams, callback, rx, starts, bracket, resume, txs>>

\* Played to the end, stopped, or failed: only a stream this transmission
\* started is stopped -- whoever listens to it by now.
TxPlayed(sent) ==
    /\ tx = "play"
    /\ IF sent THEN SendWorks ELSE SendFails
    /\ IF bracket /\ sent
       THEN /\ tx' = "stopping" /\ Stream(FALSE)
            /\ robbed' = (robbed \/ rx # "off")
       ELSE tx' = "unkey" /\ UNCHANGED <<streams, robbed>>
    /\ UNCHANGED <<link, linkUp, subscribed, callback, rx, starts, bracket, resume, txs>>

TxStopped ==
    /\ tx = "stopping"
    /\ tx' = "unkey" /\ subscribed' = FALSE
    /\ robbed' = (robbed \/ rx # "off")
    /\ UNCHANGED <<link, linkUp, streams, callback, rx, starts, bracket, resume, txs>>

\* The first attempt to unkey.
Unkey(sent) ==
    /\ tx = "unkey"
    /\ IF sent THEN SendWorks ELSE SendFails
    /\ resume' = subscribed
    /\ tx' = IF sent THEN "idle" ELSE "retry"
    /\ UNCHANGED <<link, linkUp, streams, subscribed, callback, rx, starts, bracket,
                   txs, robbed>>

\* A further attempt begins by noting the subscription and closing the link.
RetryCloses ==
    /\ tx = "retry"
    /\ resume' = (resume \/ subscribed)
    /\ Shut
    /\ tx' = "closed"
    /\ robbed' = (robbed \/ rx \in {"starting", "stopping"})
    /\ UNCHANGED <<callback, rx, starts, bracket, txs>>

RetryOpens ==
    /\ tx = "closed"
    /\ Connect
    /\ tx' = "reopened"
    /\ robbed' = (robbed \/ rx \in {"starting", "stopping"})
    /\ UNCHANGED <<callback, rx, starts, bracket, resume, txs>>

\* The reopened link is ready and takes the unkey, or not: another attempt,
\* or the operator is warned.
RetryUnkeys(sent) ==
    /\ tx = "reopened"
    /\ sent => ready /\ SendWorks
    /\ ~sent => SendFails \/ ~ready
    /\ IF sent THEN /\ tx' = IF resume THEN "resume" ELSE "idle"
                    /\ UNCHANGED <<link, linkUp, streams, subscribed>>
               ELSE /\ tx' \in {"retry", "idle"}
                    /\ IF ready THEN UNCHANGED <<link, linkUp, streams, subscribed>> ELSE Shut
    /\ robbed' = (robbed \/ (~sent /\ tx' = "idle" /\ rx # "off"))
    /\ UNCHANGED <<callback, rx, starts, bracket, resume, txs>>

\* All attempts used up: the link stays closed.
RetryEnds ==
    /\ tx = "closed" /\ tx' = "idle"
    /\ robbed' = (robbed \/ rx # "off")
    /\ UNCHANGED <<link, linkUp, streams, subscribed, callback, rx, starts, bracket,
                   resume, txs>>

\* fault: the stream the receive worker had is not asked for again.
ResumesNothing(sent) ==
    /\ tx = "resume" /\ tx' = "idle" /\ sent
    /\ UNCHANGED <<link, linkUp, streams, subscribed, callback, rx, starts, bracket,
                   resume, txs, robbed>>

\* subscribe_rx_audio: the stream the receive worker had is asked for again.
Resumes(sent) ==
    /\ tx = "resume" /\ tx' = "idle"
    /\ IF sent THEN SendWorks ELSE SendFails
    /\ IF sent THEN Stream(TRUE) /\ subscribed' = TRUE
               ELSE UNCHANGED <<streams, subscribed>>
    /\ robbed' = (robbed \/ rx # "on" \/ ~sent)
    /\ UNCHANGED <<link, linkUp, callback, rx, starts, bracket, resume, txs>>

TciNext ==
    \/ WindowOpens \/ WindowCloses \/ ReadyTimeout \/ Push \/ RecvEnds \/ LinkGone
    \/ RxStarted \/ RxStop \/ RxStopped
    \/ TxStarted \/ TxStopped \/ RetryCloses \/ RetryOpens \/ RetryEnds
    \/ \E sent \in BOOLEAN :
          \/ RxStart(sent) \/ TxBegin(sent) \/ TxPlayed(sent) \/ Unkey(sent)
          \/ RetryUnkeys(sent) \/ Resumes(sent)

-----------------------------------------------------------------------------
(* The getters answer only with what the server said in the session now in   *)
(* use: not with the state of a server that is gone, nor of the session a    *)
(* reconnect replaced.                                                       *)
FreshAfterReconnect == FromCache => cached = ws

(* Receive audio follows its listener across transmissions, failed unkeys    *)
(* and reconnects: a capture on a live link is fed, and a server nobody      *)
(* listens to does not stream -- except where a capture starts or stops      *)
(* inside a transmission's own start, stop or reconnect, where every attempt *)
(* to unkey failed and the operator was told so, or where asking for the     *)
(* stream again failed, which is only logged.                                *)
StreamFollowsListener ==
    Alive /\ linkUp /\ tx = "idle" /\ ~robbed =>
        /\ rx = "on" => Heard
        /\ rx = "off" => ~streams

(* State and audio are those of the session in use.                          *)
FollowsSession == FreshAfterReconnect /\ StreamFollowsListener
=============================================================================
