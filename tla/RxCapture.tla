------------------------------ MODULE RxCapture ------------------------------
(***************************************************************************)
(* Receive capture: the main window's Start/Stop button, the auto-resume   *)
(* after a device loss, the hot swap of the audio worker when a TCI radio  *)
(* is connected or disconnected, the sample rate the decoder runs at, and  *)
(* the gate that keeps the station from decoding its own transmission.     *)
(*                                                                         *)
(* Four threads take part.  The GUI thread (src/open_sstv/ui/              *)
(* main_window.py) owns every decision and talks to the other two through  *)
(* Qt's queued calls: the audio thread runs start() and stop() of the      *)
(* current audio worker (audio/input_stream.py, or audio/                  *)
(* tci_input_stream.py for a TCI radio), the RX thread runs the RxWorker   *)
(* (ui/workers.py).  PortAudio's own thread reports a dead stream.  Each   *)
(* of the three event loops is a first-in first-out queue.                 *)
(*                                                                         *)
(* A swap waits for the old worker in a NESTED event loop of at most 2 s,  *)
(* so between SwapBegin and SwapFinish every other GUI event, click and    *)
(* timer may run.                                                          *)
(***************************************************************************)
EXTENDS Naturals, Sequences, FiniteSets

CONSTANTS
    Rates,        \* sample rates Settings offers
    InitRate,     \* the configured rate at launch
    TciRate,      \* the rate a TCI server dictates
    MaxOpens,     \* bound: streams opened
    MaxSwaps,     \* bound: audio-worker swaps
    MaxEvents,    \* bound: clicks, losses, swaps, transmissions, saved Settings
    MaxQueued     \* bound: chunks are offered only while rxQ is shorter

ASSUME CaptureAssumption ==
    InitRate \in Rates /\ {MaxOpens, MaxSwaps, MaxEvents, MaxQueued} \subseteq Nat

Workers == 1 .. MaxSwaps + 1
None == 0       \* no stream
Races == {"start", "settings", "swap"}
NoSwap == [to |-> "none", was |-> FALSE, acked |-> FALSE]

VARIABLES
    gui,        \* signals queued for the GUI thread
    audioQ,     \* start and stop calls queued for the audio thread
    rxQ,        \* calls queued for the RX thread
    \* the GUI thread's own state
    btn,        \* the Start/Stop button is enabled
    panel,      \* ... and reads "Stop Capture" (RxPanel._capturing)
    cap,        \* _capture_running
    armed,      \* _start_capture_armed
    recActive,  \* _audio_recovery_active
    recTimer,   \* _audio_recovery_timer is running
    discMsg,    \* _last_rx_disconnect_msg is not empty
    cfgRate,    \* config.sample_rate
    guiRate,    \* _rx_decoder_rate: the rate last sent to the RX thread
    cur,        \* _audio_worker
    swap,       \* the swap waiting in its nested loop, or NoSwap
    raised,     \* _rx_gate_raised
    lifts,      \* 50 ms gate-lift timers pending
    \* the audio workers
    stream,     \* worker -> the session it has open, or None
    reported,   \* worker -> this session's loss was reported
    sessRate,   \* the sessions opened so far: the rate each delivers
    \* the RX thread
    decRate,    \* RxWorker._sample_rate
    heard,      \* sessions whose audio the decoder holds
    gated,      \* RxWorker._tx_active
    \* the transmitter
    txState,    \* "idle", "queued", "keying", "on", "ended"
    \* history
    races,      \* the races the code leaves open that have happened
    events      \* events from outside so far

guiVars   == <<btn, panel, cap, armed, recActive, recTimer, discMsg>>
rateVars  == <<cfgRate, guiRate>>
swapVars  == <<cur, swap>>
gateVars  == <<raised, lifts>>
audioVars == <<stream, reported, sessRate>>
rxVars    == <<decRate, heard, gated>>
vars == <<gui, audioQ, rxQ, guiVars, rateVars, swapVars, gateVars, audioVars,
          rxVars, txState, races, events>>

\* Something from outside: a click, a loss, a swap, a transmission, a save.
Event == events < MaxEvents /\ events' = events + 1

\* The first worker is PortAudio's; each swap goes the other way, because a
\* TCI radio is connected only while none is.
Kind(w) == IF w % 2 = 1 THEN "portaudio" ELSE "tci"

RxCalls ==
    [op : {"chunk"}, session : 1 .. MaxOpens] \cup [op : {"reset"}]
        \cup [op : {"rate"}, rate : Rates \cup {TciRate}]
        \cup [op : {"gate"}, on : BOOLEAN]
AudioCalls == [op : {"start", "stop"}, worker : Workers, rate : Rates]
GuiSignals == {"started", "stopped", "lost", "acked", "reset_done",
               "tx_started", "tx_done", "tx_finished"}

Has(queue, op) == \E i \in DOMAIN queue : queue[i].op = op
Signalled(name) == \E i \in DOMAIN gui : gui[i] = name

Flags ==
    /\ btn \in BOOLEAN /\ panel \in BOOLEAN /\ cap \in BOOLEAN /\ armed \in BOOLEAN
    /\ recActive \in BOOLEAN /\ recTimer \in BOOLEAN /\ discMsg \in BOOLEAN
    /\ raised \in BOOLEAN /\ gated \in BOOLEAN

TypeOK ==
    /\ gui \in Seq(GuiSignals)
    /\ audioQ \in Seq(AudioCalls)
    /\ rxQ \in Seq(RxCalls)
    /\ Flags
    /\ races \subseteq Races
    /\ cfgRate \in Rates /\ {guiRate, decRate} \subseteq Rates \cup {TciRate}
    /\ cur \in Workers
    /\ swap \in [to : {"none", "portaudio", "tci"}, was : BOOLEAN, acked : BOOLEAN]
    /\ lifts \in Nat
    /\ stream \in [Workers -> 0 .. MaxOpens]
    /\ reported \in [Workers -> BOOLEAN]
    /\ sessRate \in Seq(Rates \cup {TciRate}) /\ Len(sessRate) <= MaxOpens
    /\ heard \subseteq 1 .. MaxOpens
    /\ txState \in {"idle", "queued", "keying", "on", "ended"}
    /\ events \in 0 .. MaxEvents

Init ==
    /\ gui = <<>> /\ audioQ = <<>> /\ rxQ = <<>>
    /\ btn = TRUE /\ panel = FALSE /\ cap = FALSE /\ armed = FALSE
    /\ recActive = FALSE /\ recTimer = FALSE /\ discMsg = FALSE
    /\ cfgRate = InitRate /\ guiRate = InitRate /\ decRate = InitRate
    /\ cur = 1 /\ swap = NoSwap
    /\ raised = FALSE /\ lifts = 0
    /\ stream = [w \in Workers |-> None]
    /\ reported = [w \in Workers |-> FALSE]
    /\ sessRate = <<>>
    /\ heard = {} /\ gated = FALSE
    /\ txState = "idle"
    /\ races = {}
    /\ events = 0

----------------------------------------------------------------------------
(* The GUI thread: starting and stopping capture.                          *)

\* _effective_rx_sample_rate, for worker w and configured rate r.
EffectiveRate(w, r) == IF Kind(w) = "tci" THEN TciRate ELSE r

\* The calls _sync_rx_sample_rate queues for the RX thread.
RateCalls(r) == IF r = guiRate THEN <<>> ELSE <<[op |-> "rate", rate |-> r]>>

\* "swap": a swap met a click or an auto-resume attempt on its way, or left an
\* old worker whose stream still ran.  "settings": Settings met a stream being
\* opened, or one asked for while the last one still counted as running, or
\* it was a later start that brought their rate to the decoder of an open
\* stream.  "start": a start was asked for while another one's stream was
\* being opened or open.
Race(name, happened) == races' = IF happened THEN races \cup {name} ELSE races
StreamUp == Has(audioQ, "start") \/ stream[cur] # None

\* A click or an auto-resume attempt that has had no answer yet.
Unanswered ==
    \/ ~btn
    \/ armed
    \/ recActive /\ ~cap /\ ~recTimer
    \/ \E i \in DOMAIN audioQ : audioQ[i].op = "start" /\ audioQ[i].worker = cur
    \/ Signalled("started")

\* _begin_capture: clear the stale messages, arm the one-shot, bring the
\* decoder to the coming stream's rate and ask for a reset.
BeginCapture ==
    /\ discMsg' = FALSE
    /\ armed' = TRUE
    /\ guiRate' = EffectiveRate(cur, cfgRate)
    /\ rxQ' = rxQ \o RateCalls(guiRate') \o <<[op |-> "reset"]>>
    /\ races' = races \cup {r \in {"start"} : StreamUp}
                     \cup {r \in {"settings"} : StreamUp /\ guiRate' # guiRate}

CancelRecovery == recActive' = FALSE /\ recTimer' = FALSE

\* Start clicked.  The button stays disabled until started or stopped.
ClickStart ==
    /\ btn /\ ~panel /\ Event
    /\ btn' = FALSE
    /\ CancelRecovery
    /\ BeginCapture
    /\ UNCHANGED <<gui, audioQ, panel, cap, cfgRate, swapVars, gateVars,
                   audioVars, rxVars, txState>>

\* Stop clicked.
ClickStop ==
    /\ btn /\ panel /\ Event
    /\ btn' = FALSE
    /\ CancelRecovery
    /\ audioQ' = Append(audioQ, [op |-> "stop", worker |-> cur, rate |-> cfgRate])
    /\ UNCHANGED <<gui, rxQ, panel, cap, armed, discMsg, rateVars, swapVars,
                   gateVars, audioVars, rxVars, txState, races>>

\* Clear: a reset nobody armed.
ClickClear ==
    /\ Event
    /\ rxQ' = Append(rxQ, [op |-> "reset"])
    /\ UNCHANGED <<gui, audioQ, guiVars, rateVars, swapVars, gateVars, audioVars,
                   rxVars, txState, races>>

\* _attempt_audio_recovery: the back-off timer fired.  Never while the
\* transmit worker is busy: the timer is restarted instead.
RecoveryTimer ==
    /\ recTimer
    /\ \/ /\ ~recActive \/ cap
          /\ recTimer' = FALSE
          /\ UNCHANGED <<armed, discMsg, guiRate, rxQ, races>>
       \/ /\ recActive /\ ~cap /\ txState \in {"keying", "on"}
          /\ UNCHANGED <<recTimer, armed, discMsg, guiRate, rxQ, races>>
       \/ /\ recActive /\ ~cap /\ txState \notin {"keying", "on"}
          /\ recTimer' = FALSE
          /\ BeginCapture
    /\ UNCHANGED <<gui, audioQ, btn, panel, cap, recActive, cfgRate, swapVars,
                   gateVars, audioVars, rxVars, txState, events>>

\* A signal leaves the GUI's queue.
Taken(name) == gui # <<>> /\ Head(gui) = name /\ gui' = Tail(gui)

\* _start_capture_after_reset
OnResetDone ==
    /\ Taken("reset_done")
    /\ armed' = FALSE
    /\ audioQ' = IF armed
                 THEN Append(audioQ, [op |-> "start", worker |-> cur, rate |-> cfgRate])
                 ELSE audioQ
    /\ UNCHANGED <<rxQ, btn, panel, cap, recActive, recTimer, discMsg, rateVars,
                   swapVars, gateVars, audioVars, rxVars, txState, races, events>>

\* _on_rx_started: ignored if this stream's loss was reported first.
OnStarted ==
    /\ Taken("started")
    /\ IF discMsg
       THEN UNCHANGED <<cap, btn, panel, recActive, recTimer>>
       ELSE /\ cap' = TRUE /\ panel' = TRUE /\ btn' = TRUE
            /\ IF recActive THEN CancelRecovery ELSE UNCHANGED <<recActive, recTimer>>
    /\ UNCHANGED <<audioQ, rxQ, armed, discMsg, rateVars, swapVars, gateVars,
                   audioVars, rxVars, txState, races, events>>

\* fault: the next auto-resume attempt is scheduled only by the loss itself.
OnStoppedUnscheduled ==
    /\ Taken("stopped")
    /\ cap' = FALSE /\ panel' = FALSE /\ btn' = TRUE /\ discMsg' = FALSE
    /\ UNCHANGED <<audioQ, rxQ, armed, recActive, recTimer, rateVars, swapVars,
                   gateVars, audioVars, rxVars, txState, races, events>>

\* _on_rx_stopped: with auto-resume active the next attempt is scheduled.
OnStopped ==
    /\ Taken("stopped")
    /\ cap' = FALSE /\ panel' = FALSE /\ btn' = TRUE /\ discMsg' = FALSE
    /\ recTimer' = (recTimer \/ recActive)
    /\ UNCHANGED <<audioQ, rxQ, armed, recActive, rateVars, swapVars, gateVars,
                   audioVars, rxVars, txState, races, events>>

\* _on_audio_device_lost
OnDeviceLost ==
    /\ Taken("lost")
    /\ discMsg' = TRUE /\ recActive' = TRUE
    /\ UNCHANGED <<audioQ, rxQ, btn, panel, cap, armed, recTimer, rateVars,
                   swapVars, gateVars, audioVars, rxVars, txState, races, events>>

\* Settings accepted with sample rate r.  The decoder follows at once unless
\* a stream runs.
SaveSettings(r) ==
    /\ r # cfgRate /\ Event
    /\ cfgRate' = r
    /\ IF cap
       THEN Race("settings", armed) /\ UNCHANGED <<guiRate, rxQ>>
       ELSE /\ guiRate' = EffectiveRate(cur, r)
            /\ rxQ' = rxQ \o RateCalls(EffectiveRate(cur, r))
            /\ Race("settings", StreamUp)
    /\ UNCHANGED <<gui, audioQ, guiVars, swapVars, gateVars, audioVars, rxVars, txState>>

----------------------------------------------------------------------------
(* The GUI thread: swapping the audio worker.                              *)

\* _swap_audio_worker up to the bounded wait for the old worker's stop().
SwapBegin ==
    /\ swap = NoSwap /\ cur <= MaxSwaps /\ Event
    /\ swap' = [to |-> Kind(cur + 1), was |-> cap, acked |-> FALSE]
    /\ audioQ' = Append(audioQ, [op |-> "stop", worker |-> cur, rate |-> cfgRate])
    /\ Race("swap", Unanswered)
    /\ UNCHANGED <<gui, rxQ, guiVars, rateVars, cur, gateVars, audioVars, rxVars,
                   txState>>

\* stop_finished quits the nested loop.
OnAcked ==
    /\ Taken("acked")
    /\ swap' = [swap EXCEPT !.acked = (swap # NoSwap)]
    /\ UNCHANGED <<audioQ, rxQ, guiVars, rateVars, cur, gateVars,
                   audioVars, rxVars, txState, races, events>>

\* ... and the rest of it, after the acknowledgement or after 2 s without
\* one: the old worker is disconnected, the new one wired, the decoder
\* brought to its rate and reset, and the start armed if capture was running.
SwapFinish ==
    /\ swap # NoSwap
    /\ swap' = NoSwap
    /\ cur' = cur + 1
    /\ armed' = swap.was
    /\ guiRate' = EffectiveRate(cur + 1, cfgRate)
    /\ rxQ' = rxQ \o RateCalls(EffectiveRate(cur + 1, cfgRate)) \o <<[op |-> "reset"]>>
    /\ Race("swap", \/ Unanswered
                    \/ cap /\ ~swap.was
                    \/ stream[cur] # None)
    /\ UNCHANGED <<gui, audioQ, btn, panel, cap, recActive, recTimer, discMsg,
                   cfgRate, gateVars, audioVars, rxVars, txState, events>>

----------------------------------------------------------------------------
(* The GUI thread: the RX gate.                                            *)

\* _on_tx_started
OnTxStarted ==
    /\ Taken("tx_started")
    /\ raised' = TRUE
    /\ rxQ' = Append(rxQ, [op |-> "gate", on |-> TRUE])
    /\ UNCHANGED <<audioQ, guiVars, rateVars, swapVars, lifts, audioVars, rxVars,
                   txState, races, events>>

\* _schedule_rx_resume, from the complete/aborted handlers and again from
\* _on_tx_finished.
OnTxEnded ==
    /\ Taken("tx_done") \/ Taken("tx_finished")
    /\ raised' = FALSE
    /\ lifts' = IF raised THEN lifts + 1 ELSE lifts
    /\ UNCHANGED <<audioQ, rxQ, guiVars, rateVars, swapVars, audioVars, rxVars,
                   txState, races, events>>

\* _lift, 50 ms later: not if another transmission raised the gate again.
LiftGate ==
    /\ lifts > 0
    /\ lifts' = lifts - 1
    /\ rxQ' = IF raised THEN rxQ ELSE Append(rxQ, [op |-> "gate", on |-> FALSE])
    /\ UNCHANGED <<gui, audioQ, guiVars, rateVars, swapVars, raised, audioVars,
                   rxVars, txState, races, events>>

----------------------------------------------------------------------------
(* The audio thread.                                                       *)

\* Signals of worker w reach the GUI only while w is wired.
Emit(w, signals) == gui' = IF w = cur THEN gui \o signals ELSE gui

\* start(): refused on a running stream; it opens one or fails, and a
\* PortAudio stream may die between opening and the started signal.
AudioStart ==
    /\ audioQ # <<>> /\ Head(audioQ).op = "start"
    /\ LET w == Head(audioQ).worker
           s == Len(sessRate) + 1
       IN \/ /\ stream[w] # None
             /\ audioQ' = Tail(audioQ)
             /\ UNCHANGED <<gui, audioVars, events>>
          \/ /\ stream[w] = None
             /\ Emit(w, <<"stopped">>)
             /\ audioQ' = Tail(audioQ)
             /\ reported' = [reported EXCEPT ![w] = FALSE]
             /\ UNCHANGED <<stream, sessRate, events>>
          \/ /\ stream[w] = None /\ s <= MaxOpens
             /\ stream' = [stream EXCEPT ![w] = s]
             /\ sessRate' = Append(sessRate, EffectiveRate(w, Head(audioQ).rate))
             /\ \/ /\ Emit(w, <<"started">>)
                   /\ audioQ' = Tail(audioQ)
                   /\ reported' = [reported EXCEPT ![w] = FALSE]
                   /\ UNCHANGED events
                \/ /\ Kind(w) = "portaudio" /\ Event
                   /\ Emit(w, <<"lost", "started">>)
                   /\ audioQ' = Append(Tail(audioQ),
                                       [Head(audioQ) EXCEPT !.op = "stop"])
                   /\ reported' = [reported EXCEPT ![w] = TRUE]
    /\ UNCHANGED <<rxQ, guiVars, rateVars, swapVars, gateVars, rxVars, txState, races>>

\* stop(): close the stream; PortAudio's leftover chunks are passed on, TCI's
\* are dropped.  stop_finished is emitted whether or not a stream ran.
AudioStop ==
    /\ audioQ # <<>> /\ Head(audioQ).op = "stop"
    /\ audioQ' = Tail(audioQ)
    /\ LET w == Head(audioQ).worker
           ack == IF swap # NoSwap THEN <<"acked">> ELSE <<>>
       IN /\ stream' = [stream EXCEPT ![w] = None]
          /\ IF stream[w] = None
             THEN Emit(w, ack) /\ UNCHANGED rxQ
             ELSE /\ Emit(w, <<"stopped">> \o ack)
                  /\ \/ /\ Kind(w) = "portaudio" /\ w = cur
                        /\ rxQ' = Append(rxQ, [op |-> "chunk", session |-> stream[w]])
                     \/ UNCHANGED rxQ
    /\ UNCHANGED <<guiVars, rateVars, swapVars, gateVars, reported, sessRate,
                   rxVars, txState, races, events>>

\* _drain_queue: audio reaches the RX thread while the worker is wired.
Chunk ==
    /\ stream[cur] # None /\ Len(rxQ) < MaxQueued
    /\ rxQ' = Append(rxQ, [op |-> "chunk", session |-> stream[cur]])
    /\ UNCHANGED <<gui, audioQ, guiVars, rateVars, swapVars, gateVars, audioVars,
                   rxVars, txState, races, events>>

\* The device is gone: the watchdog and PortAudio's finished callback both
\* notice it, whichever comes first reports it, and each queues a stop().
DeviceLoss(w) ==
    /\ Kind(w) = "portaudio" /\ stream[w] # None /\ Event
    /\ IF reported[w] THEN UNCHANGED gui ELSE Emit(w, <<"lost">>)
    /\ reported' = [reported EXCEPT ![w] = TRUE]
    /\ audioQ' = Append(audioQ, [op |-> "stop", worker |-> w, rate |-> cfgRate])
    /\ UNCHANGED <<rxQ, guiVars, rateVars, swapVars, gateVars, stream, sessRate,
                   rxVars, txState, races>>

\* The TCI worker's data-flow watchdog: it reports, and does nothing else.
TciStall(w) ==
    /\ Kind(w) = "tci" /\ stream[w] # None /\ ~reported[w] /\ Event
    /\ Emit(w, <<"lost">>)
    /\ reported' = [reported EXCEPT ![w] = TRUE]
    /\ UNCHANGED <<audioQ, rxQ, guiVars, rateVars, swapVars, gateVars, stream,
                   sessRate, rxVars, txState, races>>

----------------------------------------------------------------------------
(* The RX thread.                                                          *)

\* feed_chunk
RxChunk ==
    /\ rxQ # <<>> /\ Head(rxQ).op = "chunk"
    /\ rxQ' = Tail(rxQ)
    /\ heard' = IF gated THEN heard ELSE heard \cup {Head(rxQ).session}
    /\ UNCHANGED <<gui, audioQ, guiVars, rateVars, swapVars, gateVars, audioVars,
                   decRate, gated, txState, races, events>>

\* fault: reset_done is emitted before the buffers are dropped.
RxResetEarly ==
    /\ rxQ # <<>> /\ Head(rxQ).op = "reset"
    /\ rxQ' = Tail(rxQ)
    /\ gui' = Append(gui, "reset_done")
    /\ UNCHANGED <<audioQ, guiVars, rateVars, swapVars, gateVars, audioVars,
                   rxVars, txState, races, events>>

\* reset
RxReset ==
    /\ rxQ # <<>> /\ Head(rxQ).op = "reset"
    /\ rxQ' = Tail(rxQ)
    /\ heard' = {}
    /\ gui' = Append(gui, "reset_done")
    /\ UNCHANGED <<audioQ, guiVars, rateVars, swapVars, gateVars, audioVars,
                   decRate, gated, txState, races, events>>

\* set_sample_rate: nothing to do at an unchanged rate, else a new Decoder.
RxRate ==
    /\ rxQ # <<>> /\ Head(rxQ).op = "rate"
    /\ rxQ' = Tail(rxQ)
    /\ decRate' = Head(rxQ).rate
    /\ heard' = IF Head(rxQ).rate = decRate THEN heard ELSE {}
    /\ UNCHANGED <<gui, audioQ, guiVars, rateVars, swapVars, gateVars, audioVars,
                   gated, txState, races, events>>

\* set_tx_active: lowering the gate also resets, and so emits reset_done.
RxGate ==
    /\ rxQ # <<>> /\ Head(rxQ).op = "gate"
    /\ rxQ' = Tail(rxQ)
    /\ gated' = Head(rxQ).on
    /\ IF Head(rxQ).on
       THEN UNCHANGED <<heard, gui>>
       ELSE heard' = {} /\ gui' = Append(gui, "reset_done")
    /\ UNCHANGED <<audioQ, guiVars, rateVars, swapVars, gateVars, audioVars,
                   decRate, txState, races, events>>

----------------------------------------------------------------------------
(* The transmitter, as far as the receiver sees it.                        *)

TxStep(from, to, signals) ==
    /\ txState = from /\ txState' = to
    /\ gui' = gui \o signals
    /\ UNCHANGED <<audioQ, rxQ, guiVars, rateVars, swapVars, gateVars, audioVars,
                   rxVars, races>>

TxRequest == Event /\ TxStep("idle", "queued", <<>>)
TxKeying  == UNCHANGED events /\ TxStep("queued", "keying", <<>>)
TxOn      == UNCHANGED events /\ TxStep("keying", "on", <<"tx_started">>)
TxOff     == UNCHANGED events /\ TxStep("on", "ended", <<"tx_done">>)
TxFailed  == UNCHANGED events /\ TxStep("keying", "ended", <<>>)
TxIdle    == UNCHANGED events /\ TxStep("ended", "idle", <<"tx_finished">>)

----------------------------------------------------------------------------

GuiHandles == OnResetDone \/ OnStarted \/ OnStopped \/ OnDeviceLost \/ OnAcked
                  \/ OnTxStarted \/ OnTxEnded
AudioRuns == AudioStart \/ AudioStop
RxRuns == RxChunk \/ RxReset \/ RxRate \/ RxGate

Next ==
    \/ ClickStart \/ ClickStop \/ ClickClear
    \/ \E r \in Rates : SaveSettings(r)
    \/ SwapBegin \/ SwapFinish
    \/ RecoveryTimer \/ LiftGate
    \/ GuiHandles \/ AudioRuns \/ RxRuns \/ Chunk
    \/ \E w \in Workers : DeviceLoss(w) \/ TciStall(w)
    \/ TxRequest \/ TxKeying \/ TxOn \/ TxOff \/ TxFailed \/ TxIdle

\* The three event loops keep running, the nested wait ends and timers fire.
Fairness ==
    /\ WF_vars(GuiHandles) /\ WF_vars(AudioRuns) /\ WF_vars(RxRuns)
    /\ WF_vars(SwapFinish) /\ WF_vars(RecoveryTimer) /\ WF_vars(LiftGate)

Spec == Init /\ [][Next]_vars
FairSpec == Spec /\ Fairness

----------------------------------------------------------------------------
(* Properties.                                                             *)

\* The decoder runs at the rate of the stream whose audio it is handed,
\* through device losses, Settings changes and swaps between PortAudio and a
\* TCI server with a rate of its own.  The one exception the code leaves:
\* Settings accepted while a stream is being asked for or opened, or heard of
\* only when a later Start finds a stream open.
DecodesAtStreamRate ==
    (rxQ # <<>> /\ Head(rxQ).op = "chunk" /\ ~gated /\ "settings" \notin races)
        => sessRate[Head(rxQ).session] = decRate

\* The decoder never joins the audio of two capture sessions: each session's
\* first chunk finds a decoder that was reset after the previous session's
\* last one (OP-05, H1).  The one exception the code leaves: Start clicked
\* while an auto-resume attempt is opening a stream, if that stream then dies.
OneSessionAtATime == "start" \notin races => Cardinality(heard) <= 1

StartInFlight ==
    \/ armed /\ (\/ Signalled("reset_done")
                 \/ Has(rxQ, "reset")
                 \/ \E i \in DOMAIN rxQ : rxQ[i].op = "gate" /\ ~rxQ[i].on)
    \/ Has(audioQ, "start")
    \/ Signalled("started")
StopInFlight ==
    \/ Signalled("stopped")
    \/ \E i \in DOMAIN audioQ :
          audioQ[i].op = "stop" /\ stream[audioQ[i].worker] # None

\* A start on its way is never forgotten: once capture has stopped, an active
\* auto-resume has its timer running or an attempt in flight, and a disabled
\* Start/Stop button has an answer coming.  The one exception the code
\* leaves: a worker swap that meets an unanswered click or attempt, or one
\* that was answered while the swap waited for the old worker.
NothingForgotten ==
    "swap" \notin races =>
        /\ recActive /\ ~cap => recTimer \/ StartInFlight \/ StopInFlight
        /\ ~btn => StartInFlight \/ StopInFlight

GateCalls == {i \in DOMAIN rxQ : rxQ[i].op = "gate"}

\* While a transmission holds the gate up, the decoder is gated or will be
\* once it has worked through its queue: no lift timer left over from an
\* earlier transmission opens it.
GateHolds ==
    raised => /\ GateCalls = {} => gated
              /\ \A i \in GateCalls : (\A j \in GateCalls : j <= i) => rxQ[i].on

\* What the decoder hears is one capture session at its own rate, and nothing
\* of the station's own transmissions.
HearsTheStream == DecodesAtStreamRate /\ OneSessionAtATime /\ GateHolds

\* tci_input_stream.py:244-246: a stalled TCI stream is reported "so
\* MainWindow's device-lost handling can stop the capture".
StallStopsCapture ==
    \A w \in Workers :
        (Kind(w) = "tci" /\ stream[w] # None /\ reported[w]) ~> (stream[w] = None)
=============================================================================
