----------------------------- MODULE RigSession -----------------------------
(***************************************************************************)
(* The rig session of the main window (src/open_sstv/ui/main_window.py):   *)
(* who opens a rig, who uses it, who closes it.                            *)
(*                                                                         *)
(* A connect attempt opens its rig on a thread of its own, which may stay  *)
(* blocked in open() for as long as it likes, past the time-out or the     *)
(* Cancel that ended the attempt.  The GUI thread adopts the rig, but not  *)
(* while a transmission is in flight.  The poll thread reads the rig once  *)
(* a second, but not while a transmission is in flight, and reports it     *)
(* lost after some failures in a row; the transmit worker reports the rig  *)
(* it keyed.  A rig lost while the worker is unkeying it is closed when    *)
(* the worker is done.                                                     *)
(*                                                                         *)
(* An attempt and the rig it opens share a number; 0 is the ManualRig.     *)
(* Qt's queued signals to the GUI thread are a first-in first-out queue.   *)
(* Connecting and disconnecting a TCI radio swaps the audio worker, which  *)
(* waits in a nested event loop: the interrupted handlers are on a stack.  *)
(***************************************************************************)
EXTENDS Naturals, Sequences

CONSTANTS
    MaxAttempts,    \* bound: connect attempts
    MaxTx,          \* bound: transmissions
    FailThreshold   \* _POLL_FAIL_THRESHOLD

ASSUME BoundsAssumption ==
    /\ MaxAttempts \in Nat \ {0} /\ MaxTx \in Nat \ {0}
    /\ FailThreshold \in Nat \ {0, 1}  \* it is 3

Attempts == 1 .. MaxAttempts
Rigs == 0 .. MaxAttempts
Manual == 0
None == 0

VARIABLES
    gui,        \* signals queued for the GUI thread
    frames,     \* GUI handlers waiting in a nested loop, innermost last
    \* the GUI thread's own state
    rig,        \* _rig, and the reference the two workers were given
    audio,      \* the TCI radio the audio worker belongs to, or None
    freq,       \* _last_rig_freq_hz is a frequency
    connected, connecting,       \* the radio panel
    launching,  \* _pending_rigctld_connect: waiting for rigctld to come up
    attempt,    \* _connect_thread's attempt, or None
    timer,      \* its _connect_timeout_timer is running
    adoptable,  \* _deferred_connect_success: a rig to adopt after the TX
    teardown,   \* _deferred_rig_teardown: a rig to close after the TX
    inFlight,   \* _tx_requests_in_flight
    pollTimer,  \* _rig_poll_timer is running
    wasActive,  \* _rig_poll_was_active
    \* the connect threads
    started,    \* attempts made so far
    thread,     \* attempt -> "none", "opening", "opened", "ran", "exited"
    cancel,     \* attempt -> its cancel event is set
    tci,        \* attempt -> it is for a TCI radio
    open,       \* attempt -> its rig is open
    closers,    \* rigs a late-close thread is about to close
    \* the poll thread
    queued,     \* polls queued for it
    claimed,    \* _poll_pending
    suspended,  \* _suspended
    polling,    \* the rig being polled, if busy
    busy,       \* a poll is touching the rig
    errors,     \* _consecutive_errors
    \* the transmit worker
    txs,        \* transmissions asked for so far
    txQueued,   \* transmit slots queued
    phase,      \* "idle", "begun", "running", "unkeying"
    txRig,      \* the rig the transmission uses, or None
    \* history
    reentered   \* Connect, Cancel or a loss was handled during a nested wait

panelVars   == <<connected, connecting>>
attemptVars == <<launching, attempt, timer>>
threadVars  == <<started, thread, cancel, tci>>
ownerVars   == <<adoptable, teardown>>
timerVars   == <<pollTimer, wasActive>>
pollVars    == <<queued, claimed, polling, busy>>
workerVars  == <<txs, txQueued, phase, txRig>>
vars == <<gui, frames, rig, audio, freq, panelVars, attemptVars, ownerVars,
          inFlight, timerVars, threadVars, open, closers, pollVars, suspended,
          errors, workerVars, reentered>>

Signals ==
    [sig : {"succeeded", "failed", "finished"}, of : Attempts]
        \cup [sig : {"polled", "pollError", "lost", "txFinished"}, of : Rigs]
Frames == [handler : {"adopt", "disconnect"}, of : Rigs]
Post(sig, a) == gui' = Append(gui, [sig |-> sig, of |-> a])
Idle == phase = "idle"

Phases == {"idle", "begun", "running", "unkeying"}

RigTypes ==
    /\ rig \in Rigs /\ audio \in Rigs /\ attempt \in Rigs
    /\ adoptable \in Rigs /\ teardown \in Rigs /\ polling \in Rigs /\ txRig \in Rigs
FlagTypes ==
    /\ connected \in BOOLEAN /\ connecting \in BOOLEAN /\ launching \in BOOLEAN
    /\ timer \in BOOLEAN /\ pollTimer \in BOOLEAN /\ wasActive \in BOOLEAN
    /\ claimed \in BOOLEAN /\ suspended \in BOOLEAN /\ busy \in BOOLEAN
    /\ reentered \in BOOLEAN /\ freq \in BOOLEAN
ThreadTypes ==
    /\ thread \in [Attempts -> {"none", "opening", "opened", "ran", "exited"}]
    /\ cancel \in [Attempts -> BOOLEAN] /\ tci \in [Attempts -> BOOLEAN]
    /\ open \in [Attempts -> BOOLEAN]
    /\ closers \subseteq Attempts
CountTypes ==
    /\ started \in 0 .. MaxAttempts
    /\ queued \in 0 .. 1
    /\ errors \in 0 .. FailThreshold + 1
    /\ inFlight \in 0 .. MaxTx /\ txs \in 0 .. MaxTx /\ txQueued \in 0 .. MaxTx
TypeOK ==
    /\ gui \in Seq(Signals) /\ frames \in Seq(Frames)
    /\ RigTypes /\ FlagTypes /\ ThreadTypes /\ CountTypes
    /\ phase \in Phases

Init ==
    /\ gui = <<>> /\ frames = <<>>
    /\ rig = Manual /\ audio = None /\ freq = FALSE
    /\ connected = FALSE /\ connecting = FALSE
    /\ launching = FALSE /\ attempt = None /\ timer = FALSE
    /\ adoptable = None /\ teardown = None
    /\ inFlight = 0
    /\ pollTimer = FALSE /\ wasActive = FALSE
    /\ started = 0
    /\ thread = [a \in Attempts |-> "none"]
    /\ cancel = [a \in Attempts |-> FALSE]
    /\ tci = [a \in Attempts |-> FALSE]
    /\ open = [a \in Attempts |-> FALSE]
    /\ closers = {}
    /\ queued = 0 /\ claimed = FALSE /\ suspended = FALSE
    /\ polling = None /\ busy = FALSE /\ errors = 0
    /\ txs = 0 /\ txQueued = 0 /\ phase = "idle" /\ txRig = None
    /\ reentered = FALSE

----------------------------------------------------------------------------
(* The GUI thread: connect attempts.                                       *)

\* The button is dead during a transmission (_update_connect_btn).
ButtonEnabled == inFlight = 0
Reenter == reentered' = (reentered \/ frames # <<>>)

\* _connect_in_progress
InProgress ==
    launching \/ adoptable # None \/ (attempt # None /\ ~cancel[attempt])

\* _start_rig_connect_thread: whatever attempt was there is retired.
StartAttempt(isTci) ==
    /\ started < MaxAttempts
    /\ started' = started + 1
    /\ attempt' = started + 1
    /\ timer' = TRUE
    /\ thread' = [thread EXCEPT ![started + 1] = "opening"]
    /\ tci' = [tci EXCEPT ![started + 1] = isTci]
    /\ connecting' = TRUE

\* Connect clicked: a serial, Flex or TCI radio is opened at once, rigctld is
\* perhaps launched first.
ClickConnect(isTci) ==
    /\ ButtonEnabled /\ ~connecting /\ ~connected /\ ~InProgress
    /\ StartAttempt(isTci)
    /\ Reenter
    /\ UNCHANGED <<gui, frames, rig, audio, freq, connected, launching, ownerVars,
                   inFlight, timerVars, cancel, open, closers, pollVars,
                   suspended, errors, workerVars>>

ClickConnectRigctld ==
    /\ ButtonEnabled /\ ~connecting /\ ~connected /\ ~InProgress
    /\ started < MaxAttempts
    /\ connecting' = TRUE /\ launching' = TRUE
    /\ Reenter
    /\ UNCHANGED <<gui, frames, rig, audio, freq, connected, attempt, timer,
                   ownerVars, inFlight, timerVars, threadVars, open, closers,
                   pollVars, suspended, errors, workerVars>>

\* _finish_pending_rigctld_connect, 500 ms later
RigctldLaunched ==
    /\ launching
    /\ launching' = FALSE
    /\ StartAttempt(FALSE)
    /\ UNCHANGED <<gui, frames, rig, audio, freq, connected, ownerVars, inFlight,
                   timerVars, cancel, open, closers, pollVars, suspended, errors,
                   workerVars, reentered>>

\* _on_connect_cancel and _abort_connect: the attempt is retired; a rig that
\* was waiting to be adopted is closed.
ClickCancel ==
    /\ ButtonEnabled /\ connecting
    /\ launching' = FALSE /\ attempt' = None /\ timer' = FALSE
    /\ cancel' = IF attempt = None THEN cancel ELSE [cancel EXCEPT ![attempt] = TRUE]
    /\ adoptable' = None
    /\ open' = [a \in Attempts |-> open[a] /\ a # adoptable]
    /\ connected' = FALSE /\ connecting' = FALSE
    /\ Reenter
    /\ UNCHANGED <<gui, frames, rig, audio, freq, teardown, inFlight, timerVars,
                   started, thread, tci, closers, pollVars, suspended, errors,
                   workerVars>>

\* _on_timeout
ConnectTimeout ==
    /\ timer
    /\ timer' = FALSE
    /\ cancel' = [cancel EXCEPT ![attempt] = TRUE]
    /\ connecting' = FALSE
    /\ UNCHANGED <<gui, frames, rig, audio, freq, connected, launching, attempt,
                   ownerVars, inFlight, timerVars, started, thread, tci, open,
                   closers, pollVars, suspended, errors, workerVars, reentered>>

\* _rig, and set_rig of the two workers.
SetRig(r) == rig' = r /\ errors' = 0

\* The on_success handlers.  A TCI radio's waits for the audio worker to be
\* swapped before the panel and the poll timer follow.
Adopt(a, polled) ==
    /\ SetRig(a)
    /\ IF tci[a]
       THEN /\ frames' = Append(frames, [handler |-> "adopt", of |-> a])
            /\ pollTimer' = polled
            /\ UNCHANGED panelVars
       ELSE /\ connected' = TRUE /\ connecting' = FALSE
            /\ pollTimer' = TRUE
            /\ UNCHANGED frames

Take(sig) == gui # <<>> /\ Head(gui).sig = sig /\ gui' = Tail(gui)

\* _RigConnectRelay.on_succeeded and _guarded: a rig nobody waits for is
\* closed on a thread of its own; during a transmission adoption is put off.
OnSucceeded ==
    /\ Take("succeeded")
    /\ LET a == Head(gui).of
       IN IF cancel[a]
          THEN /\ closers' = closers \cup {a}
               /\ UNCHANGED <<rig, errors, frames, panelVars, timer, cancel,
                              adoptable, pollTimer>>
          ELSE /\ cancel' = [cancel EXCEPT ![a] = TRUE]
               /\ timer' = FALSE
               /\ IF inFlight > 0
                  THEN /\ adoptable' = a
                       /\ UNCHANGED <<rig, errors, frames, panelVars, pollTimer>>
                  ELSE Adopt(a, pollTimer) /\ UNCHANGED adoptable
               /\ UNCHANGED closers
    /\ UNCHANGED <<audio, freq, launching, attempt, teardown, inFlight, wasActive,
                   started, thread, tci, open, pollVars, suspended, workerVars,
                   reentered>>

\* _RigConnectRelay.on_failed
OnFailed ==
    /\ Take("failed")
    /\ LET a == Head(gui).of
       IN IF cancel[a]
          THEN UNCHANGED <<cancel, timer, connecting>>
          ELSE /\ cancel' = [cancel EXCEPT ![a] = TRUE]
               /\ timer' = FALSE /\ connecting' = FALSE
    /\ UNCHANGED <<frames, rig, audio, freq, connected, launching, attempt,
                   ownerVars, inFlight, timerVars, started, thread, tci, open,
                   closers, pollVars, suspended, errors, workerVars, reentered>>

\* fault: any finished thread clears the state, not only the current one's.
OnThreadFinishedAny ==
    /\ Take("finished")
    /\ attempt' = None /\ timer' = FALSE
    /\ UNCHANGED <<frames, rig, audio, freq, panelVars, launching, ownerVars,
                   inFlight, timerVars, threadVars, open, closers, pollVars,
                   suspended, errors, workerVars, reentered>>

\* _on_connect_thread_finished: only the current attempt's thread clears
\* what belongs to it.
OnThreadFinished ==
    /\ Take("finished")
    /\ IF Head(gui).of = attempt
       THEN attempt' = None /\ timer' = FALSE
       ELSE UNCHANGED <<attempt, timer>>
    /\ UNCHANGED <<frames, rig, audio, freq, panelVars, launching, ownerVars,
                   inFlight, timerVars, threadVars, open, closers, pollVars,
                   suspended, errors, workerVars, reentered>>

----------------------------------------------------------------------------
(* The GUI thread: disconnecting.                                          *)

\* fault: the rig is closed although a transmission is unwinding on it.
ReleaseAtOnce(old) ==
    /\ open' = [a \in Attempts |-> open[a] /\ a # old]
    /\ UNCHANGED teardown

\* The end of both disconnect handlers: the rig is closed, or left to the
\* end of the transmission that may still have to unkey it.
Release(old) ==
    IF Idle
    THEN /\ open' = [a \in Attempts |-> open[a] /\ a # old]
         /\ UNCHANGED teardown
    ELSE teardown' = old /\ UNCHANGED open

\* Their beginning, _on_rig_disconnect's and _on_radio_disconnected's alike.
Disconnect ==
    /\ pollTimer' = FALSE
    /\ freq' = FALSE
    /\ SetRig(Manual)
    /\ connected' = FALSE /\ connecting' = FALSE
    /\ IF audio = None
       THEN Release(rig) /\ UNCHANGED frames
       ELSE /\ frames' = Append(frames, [handler |-> "disconnect", of |-> rig])
            /\ UNCHANGED <<teardown, open>>
    /\ Reenter
    /\ UNCHANGED <<audio, attemptVars, adoptable, inFlight, wasActive, threadVars,
                   closers, pollVars, suspended, workerVars>>

ClickDisconnect ==
    /\ ButtonEnabled /\ ~connecting /\ connected
    /\ Disconnect
    /\ UNCHANGED gui

\* _on_radio_disconnected
OnLost ==
    /\ Take("lost")
    /\ IF rig = Manual
       THEN UNCHANGED <<frames, rig, audio, freq, panelVars, attemptVars, ownerVars,
                        inFlight, timerVars, threadVars, open, closers, pollVars,
                        suspended, errors, workerVars, reentered>>
       ELSE Disconnect

\* A nested wait ends and its handler goes on.
FrameEnds ==
    /\ frames # <<>>
    /\ frames' = SubSeq(frames, 1, Len(frames) - 1)
    /\ LET f == frames[Len(frames)]
       IN \/ /\ f.handler = "adopt"
             /\ audio' = f.of
             /\ connected' = TRUE /\ connecting' = FALSE
             /\ pollTimer' = TRUE
             /\ UNCHANGED <<teardown, open>>
          \/ /\ f.handler = "disconnect"
             /\ audio' = None
             /\ Release(f.of)
             /\ UNCHANGED <<panelVars, pollTimer>>
    /\ UNCHANGED <<gui, rig, freq, attemptVars, adoptable, inFlight, wasActive,
                   threadVars, closers, pollVars, suspended, errors, workerVars,
                   reentered>>

----------------------------------------------------------------------------
(* The GUI thread: polls and transmissions.                                *)

\* _on_rig_poll_tick.  Bound: the GUI thread has handled what was queued when
\* the next second comes (Qt delivers queued signals before it fires timers).
PollTick ==
    /\ pollTimer /\ ~claimed
    /\ gui = <<>>
    /\ claimed' = TRUE /\ queued' = queued + 1
    /\ UNCHANGED <<gui, frames, rig, audio, freq, panelVars, attemptVars, ownerVars,
                   inFlight, timerVars, threadVars, open, closers, polling, busy,
                   suspended, errors, workerVars, reentered>>

\* _on_poll_result: 0 is the ManualRig's placeholder.
OnPolled ==
    /\ Take("polled")
    /\ freq' = (Head(gui).of # Manual)
    /\ UNCHANGED <<frames, rig, audio, panelVars, attemptVars, ownerVars, inFlight,
                   timerVars, threadVars, open, closers, pollVars, suspended,
                   errors, workerVars, reentered>>

\* _on_poll_error: set_link_degraded on a connected rig, else
\* set_connection_error.
OnPollError ==
    /\ Take("pollError")
    /\ connecting' = (connecting /\ connected)
    /\ UNCHANGED <<frames, rig, audio, freq, connected, attemptVars, ownerVars,
                   inFlight, timerVars, threadVars, open, closers, pollVars,
                   suspended, errors, workerVars, reentered>>

\* _lock_rig_controls_for_tx
Lock ==
    /\ wasActive' = (wasActive \/ pollTimer)
    /\ pollTimer' = FALSE
    /\ suspended' = TRUE

\* _begin_tx_request
RequestTx ==
    /\ txs < MaxTx
    /\ txs' = txs + 1 /\ txQueued' = txQueued + 1
    /\ inFlight' = inFlight + 1
    /\ Lock
    /\ UNCHANGED <<gui, frames, rig, audio, freq, panelVars, attemptVars, ownerVars,
                   threadVars, open, closers, pollVars, errors, phase, txRig,
                   reentered>>

\* _on_tx_started locks once more.  The signal comes somewhere between a
\* transmission's beginning and its end; it is not kept in the queue, so it
\* may come more than once.
OnTxStarted ==
    /\ inFlight > txQueued
    /\ Lock
    /\ UNCHANGED <<gui, frames, rig, audio, freq, panelVars, attemptVars, ownerVars,
                   inFlight, threadVars, open, closers, pollVars, errors,
                   workerVars, reentered>>

\* _unlock_rig_controls: the deferred teardown, the poll timer of a rig that
\* is still there, the deferred adoption.
Unlock ==
    /\ teardown' = None
    /\ open' = [a \in Attempts |-> open[a] /\ a # teardown]
    /\ suspended' = FALSE
    /\ wasActive' = FALSE
    /\ adoptable' = None
    /\ LET resumed == pollTimer \/ (wasActive /\ rig # Manual)
       IN IF adoptable = None
          THEN /\ pollTimer' = resumed
               /\ UNCHANGED <<rig, errors, frames, panelVars>>
          ELSE Adopt(adoptable, resumed)

\* max(0, _tx_requests_in_flight - 1)
OneTxFewer == IF inFlight > 0 THEN inFlight - 1 ELSE 0

\* fault: every transmission's end unlocks.
OnTxFinishedEach ==
    /\ Take("txFinished")
    /\ inFlight' = OneTxFewer
    /\ Unlock
    /\ UNCHANGED <<audio, freq, attemptVars, threadVars, closers, pollVars,
                   workerVars, reentered>>

\* _on_tx_finished: the last transmission in flight unlocks.
OnTxFinished ==
    /\ Take("txFinished")
    /\ inFlight' = OneTxFewer
    /\ IF OneTxFewer = 0
       THEN Unlock
       ELSE UNCHANGED <<teardown, open, suspended, timerVars, adoptable, rig, errors,
                        frames, panelVars>>
    /\ UNCHANGED <<audio, freq, attemptVars, threadVars, closers, pollVars,
                   workerVars, reentered>>

----------------------------------------------------------------------------
(* The connect threads.                                                    *)

\* open() returns: it worked or it raised.  It need not return.
Opens(a) ==
    /\ thread[a] = "opening"
    /\ \/ /\ thread' = [thread EXCEPT ![a] = "opened"]
          /\ open' = [open EXCEPT ![a] = TRUE]
          /\ UNCHANGED gui
       \/ /\ thread' = [thread EXCEPT ![a] = "ran"]
          /\ IF cancel[a] THEN UNCHANGED gui ELSE Post("failed", a)
          /\ UNCHANGED open
    /\ UNCHANGED <<frames, rig, audio, freq, panelVars, attemptVars, ownerVars,
                   inFlight, timerVars, started, cancel, tci, closers, pollVars,
                   suspended, errors, workerVars, reentered>>

\* The rest of _RigConnectWorker.run: a cancelled attempt closes what it
\* opened; else ping() answers or fails.
Resolves(a) ==
    /\ thread[a] = "opened"
    /\ thread' = [thread EXCEPT ![a] = "ran"]
    /\ \/ /\ cancel[a]
          /\ open' = [open EXCEPT ![a] = FALSE]
          /\ UNCHANGED gui
       \/ /\ ~cancel[a]
          /\ open' = [open EXCEPT ![a] = FALSE]
          /\ Post("failed", a)
       \/ /\ ~cancel[a]
          /\ Post("succeeded", a)
          /\ UNCHANGED open
    /\ UNCHANGED <<frames, rig, audio, freq, panelVars, attemptVars, ownerVars,
                   inFlight, timerVars, started, cancel, tci, closers, pollVars,
                   suspended, errors, workerVars, reentered>>

\* The thread's event loop ends: whoever set the cancel event also quit it.
ThreadExits(a) ==
    /\ thread[a] = "ran" /\ cancel[a]
    /\ thread' = [thread EXCEPT ![a] = "exited"]
    /\ Post("finished", a)
    /\ UNCHANGED <<frames, rig, audio, freq, panelVars, attemptVars, ownerVars,
                   inFlight, timerVars, started, cancel, tci, open, closers,
                   pollVars, suspended, errors, workerVars, reentered>>

\* The late-close thread of on_succeeded
LateClose(a) ==
    /\ a \in closers
    /\ closers' = closers \ {a}
    /\ open' = [open EXCEPT ![a] = FALSE]
    /\ UNCHANGED <<gui, frames, rig, audio, freq, panelVars, attemptVars, ownerVars,
                   inFlight, timerVars, threadVars, pollVars, suspended, errors,
                   workerVars, reentered>>

----------------------------------------------------------------------------
(* The poll thread.                                                        *)

\* poll() begins: while suspended it only gives the slot back.
PollBegins ==
    /\ queued > 0 /\ ~busy
    /\ queued' = queued - 1
    /\ IF suspended
       THEN claimed' = FALSE /\ UNCHANGED <<polling, busy>>
       ELSE polling' = rig /\ busy' = TRUE /\ UNCHANGED claimed
    /\ UNCHANGED <<gui, frames, rig, audio, freq, panelVars, attemptVars, ownerVars,
                   inFlight, timerVars, threadVars, open, closers, suspended,
                   errors, workerVars, reentered>>

\* It ends: the ManualRig always answers; a rig closed meanwhile never does.
\* Failures are counted up to just past the threshold.
PollEnds ==
    /\ busy
    /\ busy' = FALSE /\ polling' = None /\ claimed' = FALSE
    /\ \/ /\ errors' = 0
          /\ Post("polled", polling)
       \/ /\ polling # Manual
          /\ errors' = IF errors > FailThreshold THEN errors ELSE errors + 1
          /\ gui' = gui \o <<[sig |-> "pollError", of |-> polling]>>
                        \o IF errors + 1 = FailThreshold
                           THEN <<[sig |-> "lost", of |-> polling]>> ELSE <<>>
    /\ UNCHANGED <<frames, rig, audio, freq, panelVars, attemptVars, ownerVars,
                   inFlight, timerVars, threadVars, open, closers, queued,
                   suspended, workerVars, reentered>>

----------------------------------------------------------------------------
(* The transmit worker, as far as the rig goes: see TxWorker.              *)

WorkerStep(from, to) ==
    /\ phase = from /\ phase' = to
    /\ UNCHANGED <<frames, rig, audio, freq, panelVars, attemptVars, ownerVars,
                   inFlight, timerVars, threadVars, open, closers, pollVars,
                   suspended, errors, txs, reentered>>

\* The slot begins, and is no longer idle before it looks at the rig.
TxBegins ==
    /\ txQueued > 0 /\ WorkerStep("idle", "begun")
    /\ txQueued' = txQueued - 1
    /\ UNCHANGED <<gui, txRig>>

TxTakesRig ==
    /\ WorkerStep("begun", "running")
    /\ txRig' = rig
    /\ UNCHANGED <<gui, txQueued>>

\* The health monitor found the rig gone during playback.
TxLosesRig ==
    /\ txRig # None /\ WorkerStep("running", "unkeying")
    /\ Post("lost", txRig)
    /\ UNCHANGED <<txQueued, txRig>>

\* _end_tx_slot: idle first, then the signal; nothing tells the two apart
\* from a report that was posted just before.
TxEnds ==
    /\ \/ WorkerStep("running", "idle")
       \/ WorkerStep("unkeying", "idle")
       \/ WorkerStep("begun", "idle")
    /\ txRig' = None
    /\ Post("txFinished", None)
    /\ UNCHANGED txQueued

----------------------------------------------------------------------------

GuiHandles ==
    OnSucceeded \/ OnFailed \/ OnThreadFinished \/ OnLost \/ OnPolled
        \/ OnPollError \/ OnTxFinished
WorkerRuns == TxBegins \/ TxTakesRig \/ TxLosesRig \/ TxEnds

\* Bound: a session is followed up to its first re-entry, the exception of
\* the properties below.
Next ==
    /\ ~reentered
    /\ \/ \E isTci \in BOOLEAN : ClickConnect(isTci)
       \/ ClickConnectRigctld \/ RigctldLaunched
       \/ ClickCancel \/ ClickDisconnect \/ ConnectTimeout \/ FrameEnds
       \/ PollTick \/ RequestTx \/ OnTxStarted \/ GuiHandles
       \/ \E a \in Attempts :
              Opens(a) \/ Resolves(a) \/ ThreadExits(a) \/ LateClose(a)
       \/ PollBegins \/ PollEnds
       \/ WorkerRuns

\* The GUI's event loop runs, its timers fire, nested waits end, the
\* transmit worker comes back.  Nothing is promised of open() and ping().
Fairness ==
    /\ WF_vars(GuiHandles) /\ WF_vars(FrameEnds)
    /\ WF_vars(RigctldLaunched) /\ WF_vars(ConnectTimeout)
    /\ WF_vars(WorkerRuns)

Spec == Init /\ [][Next]_vars
FairSpec == Spec /\ Fairness

----------------------------------------------------------------------------
(* Properties.                                                             *)

\* Who answers for a rig: the session, a handler in the middle of adopting
\* or releasing it, a deferral, or the attempt that opened it.
Owned(a) ==
    \/ a \in {rig, adoptable, teardown}
    \/ a \in closers
    \/ thread[a] = "opened"
    \/ \E i \in DOMAIN gui : gui[i] = [sig |-> "succeeded", of |-> a]
    \/ \E i \in DOMAIN frames : frames[i].of = a

\* A rig is open exactly while somebody answers for it: none leaks, whatever
\* time-out, Cancel or transmission the attempt ran into, and none is closed
\* under the session or under the transmission that still has to unkey it.
\* The one exception the code leaves: Connect or Cancel clicked, or the rig
\* lost, while a TCI radio's handler waits for the audio worker.
RigsOwned ==
    ~reentered =>
        /\ \A a \in Attempts : open[a] => Owned(a)
        /\ \A a \in {rig, adoptable, teardown, txRig} \ {None} : open[a]

\* No poll begins to touch the rig while a transmission is in flight (OP-47):
\* not one queued before it, not one of a timer started in the middle of it,
\* not between two transmissions queued one behind the other.
QuietDuringTx == [][(busy' /\ ~busy) => inFlight = 0]_vars

\* Between transmissions, with no handler waiting, a rig is polled and shown
\* as connected exactly while there is one.
WatchedIffConnected ==
    (inFlight = 0 /\ frames = <<>> /\ ~reentered) =>
        /\ connected <=> rig # Manual
        /\ pollTimer <=> rig # Manual

\* A rig is dropped only for its own loss: a report that outlived its rig,
\* from the poll thread or the transmit worker, never costs the next one.
OwnLossOnly ==
    (gui # <<>> /\ Head(gui).sig = "lost" /\ ~reentered) => rig \in {Manual, Head(gui).of}

\* The session and its rig stay together: whoever opened a rig answers for it,
\* it is watched while it is there, and let go only for its own loss.
RigsKept == RigsOwned /\ WatchedIffConnected /\ OwnLossOnly

\* Every attempt to connect is over some day, and the panel says so, though
\* open() of this one or of an earlier one never returns.
ConnectResolves ==
    (connecting \/ InProgress) ~> (~(connecting \/ InProgress) \/ reentered)

\* main_window.py:4365: "no rig -> no trustworthy frequency for logbook
\* drafts".
NoRigNoFrequency ==
    (rig = Manual /\ gui = <<>> /\ ~busy) => ~freq
=============================================================================
