------------------------------ MODULE Shutdown ------------------------------
(***************************************************************************)
(* Leaving the program (closeEvent of ui/main_window.py, main and          *)
(* _exit_now_if_threads_were_detached of app.py): the operator closes the  *)
(* window, or a signal quits the application, in the middle of anything.   *)
(*                                                                         *)
(* closeEvent is a sequence of bounded waits on the GUI thread, the stages *)
(* of "gui" below, while the other threads go on.  One of them, "drain",   *)
(* is an event loop: the window is still there and takes clicks, timers    *)
(* and queued signals.  A thread whose job outlasts every wait ("stuck")   *)
(* is detached, and the process then leaves with os._exit; a running       *)
(* thread that was not detached aborts the process when Qt destroys it.    *)
(*                                                                         *)
(* There is no clock.  A wait ends with what it waits for, or runs out     *)
(* when that cannot come in its time: the thread is stuck, the radio       *)
(* hangs; the half-second wait for the transmission may always run out.    *)
(* One radio is modelled, reached directly or through a rigctld.           *)
(***************************************************************************)
EXTENDS Daemon

CONSTANTS
    Connects,    \* connect threads, one for each attempt
    Pollers,     \* the poll thread, the update thread
    MaxWork,     \* bound: connects, offline jobs, transmissions, dialogs opened
    MaxImages,   \* bound: images completed
    MaxFaults    \* bound: stuck threads, a bad radio

Jobs == {"decode", "encode"}     \* offline threads, one for each kind
Workers == {"tx", "audio", "rx"} \cup Pollers
Threads == Workers \cup Connects \cup Jobs
NoAttempt == "none"

ASSUME ThreadsAssumption ==
    Workers \cap Connects = {} /\ (Workers \cup Connects) \cap Jobs = {}

VARIABLES
    gui,         \* where the GUI thread is; "open" is before closeEvent
    box,         \* a modal message box is up
    fate,        \* how the process ended
    \* threads
    running, detached,
    stuck,       \* those whose current job outlasts every wait
    started,     \* connect attempts and offline jobs begun
    attempt,     \* the connect attempt whose result is wanted
    launching,   \* _pending_rigctld_connect: the half second for rigctld
    \* capture
    capturing,   \* until the audio worker's stop() has run
    images,      \* images completed
    inbox,       \* image_complete queued for the GUI thread
    logbook,     \* the store is open
    \* the transmission
    phase, stop, keyed, \* of the worker; _stop_event; _keyed_rig is the radio
    ptt,         \* the radio transmits
    health,      \* the radio's answer to a PTT command
    unkeyer,     \* the two emergency-unkey threads
    \* the rig of the window
    connected,   \* _rig is the radio
    linked,      \* the radio's backend is open
    via,         \* the rigctld it goes through
    deferred,    \* _deferred_rig_teardown
    \* history
    failed,      \* a PTT-off failed
    work,        \* what the operator began
    late,        \* a thread was started in the drain
    cut          \* a signal ended the drain

windowVars  == <<box, fate>>
threadVars  == <<running, detached, stuck, started>>
connectVars == <<attempt, launching>>
captureVars == <<capturing, images, inbox, logbook>>
txVars      == <<phase, stop, keyed, ptt, health, failed>>
historyVars == <<work, late, cut>>
rigVars     == <<connected, linked, via, deferred>>
vars == <<gui, windowVars, threadVars, connectVars, captureVars, txVars, unkeyer,
          rigVars, historyVars, daemonVars>>

Init ==
    /\ DaemonInit
    /\ gui = "open" /\ box = FALSE /\ fate = "running"
    /\ running = Workers /\ detached = {} /\ started = {}
    /\ stuck \in SUBSET Threads
    /\ health \in {"good", "refuses", "hangs"}
    /\ Cardinality(stuck) + (IF health = "good" THEN 0 ELSE 1) <= MaxFaults
    /\ attempt = NoAttempt /\ launching = FALSE
    /\ capturing = TRUE
    /\ images = 0 /\ inbox = 0 /\ logbook = FALSE
    /\ phase = "idle" /\ stop = FALSE /\ keyed = FALSE /\ ptt = FALSE
    /\ unkeyer = [k \in {"early", "last"} |-> "none"]
    /\ connected = FALSE /\ linked = FALSE /\ via = Nobody /\ deferred = FALSE
    /\ failed = FALSE /\ work = 0 /\ late = FALSE /\ cut = FALSE

\* An event loop runs on the GUI thread; the operator can reach the window.
Looping == gui \in {"open", "drain", "complete"} \/ (gui = "drained" /\ (box \/ dialog))
Visible == gui # "complete" /\ gui # "gone"
Clicks == gui \in {"open", "drain"} /\ ~box /\ ~dialog
Late == late' = (late \/ gui # "open")
Begin == work < MaxWork /\ work' = work + 1

Idle == phase = "idle"
RequestStop == stop' = ~Idle
Finished(t) == running' = running \ {t}
\* wait(): the thread ends, or it is stuck and detached.
StopOrDetach(ts) ==
    /\ running' = running \ (ts \ stuck)
    /\ detached' = detached \cup (running \cap ts \cap stuck)

----------------------------------------------------------------------------
(* The operator and the GUI thread's queued events.                        *)

StartConnect(c) ==
    /\ started' = started \cup {c} /\ running' = running \cup {c}
    /\ attempt' = c
NextConnect == CHOOSE c \in Connects \ started : TRUE

CanConnect ==
    /\ Clicks /\ Begin
    /\ ~connected /\ ~launching /\ attempt = NoAttempt /\ Idle /\ ~deferred
    /\ Late

\* _connect_rigctld starts a rigctld of its own first; _connect_serial, and a
\* rigctld that is there, go straight to the attempt.
LaunchAndConnect ==
    /\ CanConnect
    /\ own = Nobody /\ Launch /\ own' = born'
    /\ launching' = TRUE
    /\ UNCHANGED <<gui, windowVars, threadVars, attempt, captureVars, txVars, unkeyer,
                   rigVars, cut, dialogVars>>
Connect ==
    /\ CanConnect
    /\ Connects \ started # {} /\ StartConnect(NextConnect)
    /\ UNCHANGED <<gui, windowVars, detached, stuck, launching, captureVars, txVars,
                   unkeyer, rigVars, cut, daemonVars>>

\* The half second is over: _finish_pending_rigctld_connect.
LaunchTimer ==
    /\ Looping /\ launching
    /\ launching' = FALSE
    /\ IF Visible /\ Connects \ started # {}
          THEN StartConnect(NextConnect)
          ELSE UNCHANGED <<started, running, attempt>>
    /\ UNCHANGED <<gui, windowVars, detached, stuck, captureVars, txVars, unkeyer,
                   rigVars, historyVars, daemonVars>>

\* A thread ends.  Its result is dropped if the attempt was cancelled; a rig
\* that comes too late for the window is closed again.
ConnectEnds(c) ==
    /\ Looping /\ c \in running \ stuck /\ Idle
    /\ Finished(c)
    /\ IF attempt = c /\ Visible
          THEN /\ attempt' = NoAttempt
               /\ \/ /\ connected' = TRUE /\ linked' = TRUE
                     /\ via' \in {Nobody} \cup ({own} \cap alive)
                     /\ UNCHANGED own
                  \/ ForgetDead /\ UNCHANGED <<connected, linked, via>>
          ELSE /\ attempt' = IF attempt = c THEN NoAttempt ELSE attempt
               /\ UNCHANGED <<connected, linked, via, own>>
    /\ UNCHANGED <<gui, windowVars, detached, stuck, started, launching, captureVars,
                   txVars, unkeyer, deferred, historyVars, born, alive, dialogVars>>

ConnectTimeout ==
    /\ Looping /\ attempt # NoAttempt
    /\ attempt' = NoAttempt
    /\ UNCHANGED <<gui, windowVars, threadVars, launching, captureVars, txVars,
                   unkeyer, rigVars, historyVars, daemonVars>>

Unlink == linked' = FALSE /\ via' = Nobody
CloseRadio == connected' = FALSE /\ deferred' = FALSE /\ Unlink

\* Disconnect, and a radio that is lost: its backend is closed and its
\* rigctld killed, or a transmission is stopped and the rest is put off.
Disconnect ==
    /\ Clicks /\ connected /\ Idle
    /\ CloseRadio /\ KillRigctld
    /\ UNCHANGED <<gui, windowVars, threadVars, connectVars, captureVars, txVars,
                   unkeyer, historyVars, born, dialogVars>>

\* fault: the lost radio is closed under the transmission
LetGoNow == Unlink /\ KillRigctld /\ UNCHANGED deferred

LetGo ==
    IF Idle
        THEN Unlink /\ KillRigctld /\ UNCHANGED deferred
        ELSE deferred' = TRUE /\ UNCHANGED <<linked, via, own, alive>>

Lost ==
    /\ Looping /\ Visible /\ connected
    /\ connected' = FALSE
    /\ RequestStop
    /\ LetGo
    /\ UNCHANGED <<gui, windowVars, threadVars, connectVars, captureVars, phase, keyed,
                   ptt, health, failed, unkeyer, historyVars, born,
                   dialogVars>>

FinishDeferred ==
    /\ Looping /\ deferred /\ Idle
    /\ deferred' = FALSE /\ Unlink /\ KillRigctld
    /\ UNCHANGED <<gui, windowVars, threadVars, connectVars, captureVars, txVars,
                   unkeyer, connected, historyVars, born, dialogVars>>

\* Decode Audio and Export to Audio: one of each at a time.
Start(j) ==
    /\ Clicks /\ Begin
    /\ j \notin started
    /\ started' = started \cup {j} /\ running' = running \cup {j}
    /\ Late
    /\ UNCHANGED <<gui, windowVars, detached, stuck, connectVars, captureVars, txVars,
                   unkeyer, rigVars, cut, daemonVars>>
Decode == Start("decode")
Export == Start("encode")

Complete ==
    /\ images < MaxImages
    /\ images' = images + 1 /\ inbox' = inbox + 1

JobEnds(j) ==
    /\ Looping /\ ~box
    /\ j \in running \ stuck /\ Finished(j)
    /\ UNCHANGED <<gui, fate, detached, stuck, started, connectVars, capturing, logbook,
                   txVars, unkeyer, rigVars, historyVars, daemonVars>>

\* A decode ends with an image or a line of the status bar, an export with
\* the file or a message box.
DecodeEnds == JobEnds("decode") /\ (Complete \/ UNCHANGED <<images, inbox>>) /\ UNCHANGED box
ExportEnds == JobEnds("encode") /\ box' \in BOOLEAN /\ UNCHANGED <<images, inbox>>

\* The operator dismisses it; Qt closes it to quit.
Dismiss ==
    /\ box /\ box' = FALSE
    /\ UNCHANGED <<gui, fate, threadVars, connectVars, captureVars, txVars,
                   unkeyer, rigVars, historyVars, daemonVars>>

\* _capture_qso: no capture while the window closes.
CaptureQso == logbook' = (logbook \/ gui = "open")

ImageArrives ==
    /\ Looping /\ inbox > 0
    /\ inbox' = inbox - 1
    /\ CaptureQso
    /\ UNCHANGED <<gui, windowVars, threadVars, connectVars, capturing,
                   images, txVars, unkeyer, rigVars, historyVars, daemonVars>>

SettingsIdle == UNCHANGED <<gui, windowVars, threadVars, connectVars, captureVars,
                            txVars, unkeyer, rigVars, historyVars>>
OpenSettings ==
    /\ Clicks /\ Idle /\ Begin
    /\ dialog' = TRUE
    /\ UNCHANGED <<gui, windowVars, threadVars, connectVars, captureVars, txVars, unkeyer,
                   rigVars, late, cut>>
    /\ UNCHANGED <<born, alive, own, dlgProc>>
Settings == Looping /\ (DialogLaunch \/ DialogStop) /\ SettingsIdle
CloseSettings == Looping /\ (DialogReject \/ DialogAccept) /\ SettingsIdle
Crashes == Dies /\ SettingsIdle

----------------------------------------------------------------------------
(* The transmit worker, the other workers.                                 *)

Reachable == linked /\ (via = Nobody \/ via \in alive)

\* From the window, or as the test tone of the Settings dialog.  The worker
\* takes its rig now; a radio lost meanwhile is kept for it ("deferred").
Transmit ==
    /\ gui = "open" /\ ~box /\ Idle /\ Begin
    /\ phase' = "encoding" /\ stop' = FALSE
    /\ UNCHANGED <<gui, windowVars, threadVars, connectVars, captureVars, keyed, ptt,
                   health, failed, unkeyer, rigVars, late, cut, daemonVars>>

TxStep == UNCHANGED <<gui, windowVars, threadVars, connectVars, captureVars, health,
                      unkeyer, rigVars, historyVars, daemonVars>>
Worker == "tx" \in running /\ gui # "gone"

Encoded ==
    /\ Worker /\ phase = "encoding"
    /\ phase' = IF stop THEN "idle" ELSE "arming"
    /\ TxStep /\ UNCHANGED <<stop, keyed, ptt, failed>>
Key ==
    /\ Worker /\ phase = "arming"
    /\ phase' = "playing" /\ keyed' = (connected \/ deferred)
    /\ ptt' = (keyed' /\ Reachable)
    /\ TxStep /\ UNCHANGED <<stop, failed>>
Played ==
    /\ Worker /\ phase = "playing" /\ "tx" \notin stuck
    /\ phase' = "unkeying"
    /\ TxStep /\ UNCHANGED <<stop, keyed, ptt, failed>>

PttOff == IF Reachable /\ health = "good"
             THEN ptt' = FALSE /\ UNCHANGED failed
             ELSE failed' = TRUE /\ UNCHANGED ptt
NoPttOff == UNCHANGED <<ptt, failed>>
Hung == Reachable /\ health = "hangs"

\* _unkey_with_retry, on the rig this transmission keyed.
Unkey ==
    /\ Worker /\ phase = "unkeying"
    /\ keyed => ~Hung
    /\ IF keyed THEN PttOff ELSE NoPttOff
    /\ phase' = "idle" /\ keyed' = FALSE
    /\ TxStep /\ UNCHANGED stop

\* fault: the rig of the window is unkeyed, not the one that was keyed
UnkeyCurrent(k) ==
    /\ unkeyer[k] = "running" /\ gui # "gone"
    /\ connected => ~Hung
    /\ IF connected THEN PttOff ELSE NoPttOff
    /\ unkeyer' = [unkeyer EXCEPT ![k] = "over"]

\* emergency_unkey: the rig that was keyed, if any, else the window's.
EmergencyUnkey(k) ==
    /\ unkeyer[k] = "running" /\ gui # "gone"
    /\ keyed \/ connected => ~Hung
    /\ IF keyed \/ connected THEN PttOff ELSE NoPttOff
    /\ unkeyer' = [unkeyer EXCEPT ![k] = "over"]

UnkeyThread ==
    /\ \E k \in DOMAIN unkeyer : EmergencyUnkey(k)
    /\ UNCHANGED <<gui, windowVars, threadVars, connectVars, captureVars, phase, stop,
                   keyed, health, rigVars, historyVars, daemonVars>>

CaptureStep == UNCHANGED <<gui, windowVars, threadVars, connectVars, logbook, txVars,
                           unkeyer, rigVars, historyVars, daemonVars>>
\* A reception ends; the flush of the last one does when capture stops.
Receive ==
    /\ "rx" \in running /\ gui # "gone"
    /\ Complete
    /\ CaptureStep /\ UNCHANGED <<capturing>>
\* closeEvent has queued stop().
DrainOrLater == {"drain", "drained", "unkeying", "workers"}
AudioStop ==
    /\ "audio" \in running \ stuck /\ gui \in DrainOrLater /\ capturing
    /\ capturing' = FALSE
    /\ CaptureStep /\ UNCHANGED <<images, inbox>>

----------------------------------------------------------------------------
(* closeEvent.                                                             *)

StageIdle == UNCHANGED <<box, fate, stuck, started, late, dialogVars, born, work,
                         health, images, inbox>>

\* The close button cannot be reached behind a modal dialog.  A signal has Qt
\* close the dialogs first.
Close ==
    /\ gui = "open" /\ ~box /\ ~dialog
    /\ gui' = "reclaim"
    /\ RequestStop
    /\ StageIdle
    /\ UNCHANGED <<running, detached, connectVars, capturing, logbook, phase,
                   keyed, ptt, failed, unkeyer, connected, linked, via, deferred, cut, alive, own>>

\* wait_for_idle(0.5), or an unkey on a thread of its own.
EarlyUnkey ==
    /\ gui = "reclaim"
    /\ \/ Idle /\ UNCHANGED unkeyer
       \/ ~Idle /\ unkeyer' = [unkeyer EXCEPT !["early"] = "running"]
    /\ gui' = "connects"
    /\ StageIdle
    /\ UNCHANGED <<running, detached, connectVars, capturing,
                   logbook, phase, stop, keyed, ptt, failed, connected, linked, via, deferred,
                   cut, alive, own>>

\* fault: the attempt that waits for rigctld is left pending
CancelCurrent == attempt' = NoAttempt /\ UNCHANGED launching

CancelConnect == attempt' = NoAttempt /\ launching' = FALSE

\* _abort_connect: the current attempt and every thread still in open().
AbortConnect ==
    /\ gui = "connects"
    /\ CancelConnect
    /\ StopOrDetach(Connects)
    /\ gui' = "offline"
    /\ StageIdle
    /\ UNCHANGED <<capturing, logbook, phase, stop, keyed, ptt,
                   failed, unkeyer, connected, linked, via, deferred, cut, alive, own>>

AbortOffline ==
    /\ gui = "offline"
    /\ StopOrDetach(Jobs)
    /\ gui' = "drain"
    /\ RequestStop
    /\ StageIdle
    /\ UNCHANGED <<connectVars, capturing, logbook, phase, keyed, ptt,
                   failed, unkeyer, connected, linked, via, deferred, cut, alive, own>>

\* fault: the drain has no timer
DrainAcked ==
    /\ gui = "drain"
    /\ ~capturing
    /\ gui' = "drained"
    /\ UNCHANGED cut

\* The acknowledgement, the timer, or a signal's app.exit(), which ends every
\* event loop of the thread.
DrainEnds ==
    /\ gui = "drain"
    /\ \/ (~capturing \/ "audio" \in stuck) /\ UNCHANGED cut
       \/ cut' = TRUE
    /\ gui' = "drained"

Drain ==
    /\ DrainEnds
    /\ StageIdle
    /\ UNCHANGED <<running, detached, connectVars, capturing, logbook, phase,
                   stop, keyed, ptt, failed, unkeyer, connected, linked, via, deferred, alive, own>>

\* Back from the loop: a message box or a dialog on top of it must go first.
StopTx ==
    /\ gui = "drained" /\ ~box /\ ~dialog
    /\ \/ Idle /\ Finished("tx") /\ gui' = "workers" /\ UNCHANGED unkeyer
       \/ /\ (phase = "playing" /\ "tx" \in stuck) \/ (phase = "unkeying" /\ keyed /\ Hung)
          /\ unkeyer' = [unkeyer EXCEPT !["last"] = "running"]
          /\ gui' = "unkeying" /\ UNCHANGED running
    /\ StageIdle
    /\ UNCHANGED <<detached, connectVars, capturing, logbook, phase,
                   stop, keyed, ptt, failed, connected, linked, via, deferred, cut, alive, own>>

Joined(k) == unkeyer[k] # "running" \/ Hung

JoinLast ==
    /\ gui = "unkeying"
    /\ Joined("last")
    /\ detached' = detached \cup {"tx"}
    /\ gui' = "workers"
    /\ StageIdle
    /\ UNCHANGED <<running, connectVars, capturing, logbook, phase,
                   stop, keyed, ptt, failed, unkeyer, connected, linked, via, deferred, cut,
                   alive, own>>

StopWorkers ==
    /\ gui = "workers"
    /\ StopOrDetach(Workers \ {"tx"})
    /\ gui' = "logbook"
    /\ StageIdle
    /\ UNCHANGED <<connectVars, capturing, logbook, phase, stop,
                   keyed, ptt, failed, unkeyer, connected, linked, via, deferred, cut, alive, own>>

CloseLogbook ==
    /\ gui = "logbook"
    /\ logbook' = FALSE
    /\ gui' = "rig"
    /\ StageIdle
    /\ UNCHANGED <<running, detached, connectVars, capturing, phase,
                   stop, keyed, ptt, failed, unkeyer, connected, linked, via, deferred, cut,
                   alive, own>>

JoinEarly == Joined("early")

CloseRig ==
    /\ gui = "rig"
    /\ JoinEarly
    /\ CloseRadio /\ KillRigctld
    /\ gui' = "complete"
    /\ StageIdle
    /\ UNCHANGED <<running, detached, connectVars, capturing, logbook,
                   phase, stop, keyed, ptt, failed, unkeyer, cut>>

\* The application's event loop returns.  A second closeEvent, from
\* aboutToQuit, finds the teardown complete.
Exit ==
    /\ gui = "complete"
    /\ gui' = "gone"
    /\ fate' = IF detached # {} THEN "hard exit"
               ELSE IF running # {} THEN "aborted" ELSE "returned"
    /\ UNCHANGED <<box, threadVars, connectVars, captureVars, txVars, unkeyer,
                   rigVars, historyVars, daemonVars>>

Gone == gui = "gone" /\ UNCHANGED vars

----------------------------------------------------------------------------
Stage ==
    \/ EarlyUnkey \/ AbortConnect \/ AbortOffline \/ Drain \/ StopTx \/ JoinLast
    \/ StopWorkers \/ CloseLogbook \/ CloseRig \/ Exit
Operator ==
    \/ LaunchAndConnect \/ Connect \/ Disconnect \/ Decode \/ Export
    \/ Transmit \/ OpenSettings \/ Settings \/ Close
Answer == Dismiss \/ CloseSettings
Event ==
    \/ LaunchTimer \/ ConnectTimeout \/ Lost \/ FinishDeferred
    \/ DecodeEnds \/ ExportEnds \/ ImageArrives
    \/ \E c \in Connects : ConnectEnds(c)
Work == Encoded \/ Key \/ Played \/ Unkey
Next ==
    \/ Operator \/ Answer \/ Event \/ Stage \/ Work \/ UnkeyThread
    \/ Receive \/ AudioStop \/ Crashes \/ Gone

\* The threads run; the operator answers what is on the screen.
Spec == Init /\ [][Next]_vars
        /\ WF_vars(Stage) /\ WF_vars(Answer) /\ WF_vars(Work)
        /\ WF_vars(UnkeyThread) /\ WF_vars(AudioStop)

----------------------------------------------------------------------------
(* Every thread has ended or was detached when Qt destroys the threads:    *)
(* closeEvent's waits, and os._exit for those that would not end           *)
(* (_DETACHED_AT_SHUTDOWN).  Not so for a connect or an offline job begun  *)
(* in the drain, behind the stages that stop them.                         *)
ThreadsReleased == fate = "aborted" => late

(* The radio is left transmitting only if it was asked to stop and would   *)
(* not: a PTT-off failed, or is hanging still (closeEvent, T-L1, OP-08).   *)
PttDropped ==
    gui = "gone" /\ ptt => failed \/ \E k \in DOMAIN unkeyer : unkeyer[k] = "running"

Tried == failed \/ \E k \in DOMAIN unkeyer : Hung /\ unkeyer[k] = "running"
Pulls == Reachable /\ ~Reachable' /\ (own' # own \/ linked' # linked)

(* The program takes a radio that transmits from under its own PTT-off, by *)
(* closing the backend or killing its rigctld, only once a PTT-off failed  *)
(* or hangs (_deferred_rig_teardown, closeEvent's waits).  Not so for the  *)
(* process adopted from the Settings dialog, below.                        *)
RigNotPulled == [][Pulls /\ ptt => Tried \/ dialog # dialog']_vars

(* The store is not opened again behind its close: a completion that comes *)
(* after closeEvent is not captured (_closing, "re-opening the logbook     *)
(* store mid-teardown").                                                   *)
LogbookStaysClosed == gui \in {"rig", "complete", "gone"} => ~logbook

(* The capture was told to stop, and did, before the rig it may come from  *)
(* is closed (M2), unless it is stuck or a second way to quit ended the    *)
(* wait.                                                                   *)
CaptureStopped == gui \in {"complete", "gone"} /\ capturing => "audio" \in detached \/ cut

\* What the program ran is over when it is gone: its threads, its capture, its
\* store and, at any time, every rigctld that nobody would stop.
TornDown == ThreadsReleased /\ CaptureStopped /\ LogbookStaysClosed /\ NoOrphanDaemon

(* A shutdown, once begun, comes to its end: no stuck thread and no radio  *)
(* that hangs can hold it, provided the operator answers what is on the    *)
(* screen.                                                                 *)
ShutdownEnds == gui # "open" ~> gui = "gone"

(* What the code does not keep.  The dialog's OK kills the main window's   *)
(* rigctld even while its test tone, or a remote viewer's picture, is on   *)
(* the air through it.                                                     *)
RigNeverPulled == [][Pulls /\ ptt => Tried]_vars
(* A connect begun in the drain and stuck in open() aborts the process.    *)
ThreadsAlwaysReleased == fate # "aborted"

=============================================================================
