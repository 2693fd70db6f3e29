------------------------------ MODULE TxWorker ------------------------------
(***************************************************************************)
(* The transmit worker, class TxWorker of open_sstv/ui/workers.py: a Qt    *)
(* worker thread that runs queued transmissions one after the other (one   *)
(* "slot" each), a watchdog timer thread per transmission, and the threads *)
(* that stop it: the GUI's Stop and the remote plane's unkey.              *)
(*                                                                         *)
(* The worker's body is cut wherever it looks at or changes something that *)
(* another thread reads or writes.  Two locks span several steps and are   *)
(* modelled: _tx_id_lock, held by a watchdog from its stale check to its   *)
(* stop, and _rig_lock, which makes an emergency unkey one step.           *)
(*                                                                         *)
(* A call of the rig may fail, with or without effect on the transmitter   *)
(* (a lost reply).  ManualRig, the rig of an unconnected radio, never      *)
(* fails and does nothing.  What is played is abstract: playback ends when *)
(* it likes, and never by itself if the audio device wedges.               *)
(***************************************************************************)
EXTENDS Integers, FiniteSets

CONSTANTS
  Radios,         \* rig backends with a transmitter
  Manual,         \* the ManualRig
  NoRig,          \* _keyed_rig is None
  Gui, Remote,    \* threads that stop a transmission
  MaxTx,          \* bound: transmissions dispatched in one behaviour
  UnkeyAttempts   \* _UNKEY_ATTEMPTS

ASSUME WorkerAssumption ==
  /\ Manual \notin Radios /\ NoRig \notin Radios \cup {Manual}
  /\ Gui # Remote
  /\ MaxTx \in Nat
  /\ UnkeyAttempts \in Nat \ {0}

Rigs == Radios \cup {Manual}
Stoppers == {Gui, Remote}
Slots == 1..MaxTx
TxIds == 1..(2 * MaxTx)           \* a slot takes at most two ids

VARIABLES
  issued,      \* _tx_requests_issued
  queued,      \* transmit signals emitted and not yet delivered
  slotsRun,    \* _tx_slots_run, the number of the current slot
  covers,      \* _stop_covers_upto
  stop,        \* _stop_event
  txId,        \* _tx_id
  rig,         \* _rig
  keyedRig,    \* _keyed_rig
  w,           \* where the worker thread is
  txRig,       \* the worker's snapshot of _rig
  tries,       \* unkey attempts that failed
  result,      \* what _run_tx returns: "none" is None, "cut" is False
  outcome,     \* how the current slot, or the last one, ended
  cutAudio,    \* output_stream.stop() aborted the stream that is playing
  dog,         \* the watchdog timer of each tx id
  stopper,     \* where each stopping thread is
  ptt,         \* the radios that transmit
  warned,      \* radios the operator was told may still be transmitting
  cancelled,   \* history: slots stopped before they ran
  ownStop,     \* history: the current slot, if its watchdog or its health
               \* monitor stopped it
  amidStop     \* history: slots dispatched between the two halves, flag and
               \* audio, of the plane's request_stop, and not ended yet

workerVars == <<w, txRig, tries, result, outcome, cutAudio>>
requestVars == <<issued, queued, slotsRun, covers, stop>>
radioVars == <<ptt, warned>>
historyVars == <<cancelled, ownStop, amidStop>>
vars == <<workerVars, requestVars, radioVars, historyVars, txId, rig, keyedRig,
          dog, stopper>>

WorkerAt == {"idle", "begin", "setup", "encoding", "arming", "claiming",
             "keying", "settling", "playing", "unkeying", "concluding",
             "ending"}

TypeOK ==
  /\ issued \in 0..MaxTx /\ queued \in 0..MaxTx
  /\ slotsRun \in 0..MaxTx /\ covers \in 0..MaxTx
  /\ stop \in BOOLEAN
  /\ txId \in 0..(2 * MaxTx)
  /\ rig \in Rigs /\ keyedRig \in Rigs \cup {NoRig}
  /\ w \in WorkerAt /\ txRig \in Rigs
  /\ tries \in 0..(UnkeyAttempts - 1)
  /\ result \in {"none", "ok", "cut"}
  /\ outcome \in {"none", "complete", "aborted", "error"}
  /\ cutAudio \in BOOLEAN
  /\ dog \in [TxIds -> {"off", "armed", "fired", "unkeying", "flagging", "cutting"}]
  /\ stopper \in [Stoppers -> {"outside", "unkeying", "flagging", "cutting"}]
  /\ ptt \in SUBSET Radios /\ warned \in SUBSET Radios
  /\ cancelled \in SUBSET Slots /\ ownStop \in SUBSET Slots
  /\ amidStop \in SUBSET Slots

Init ==
  /\ issued = 0 /\ queued = 0 /\ slotsRun = 0 /\ covers = 0 /\ stop = FALSE
  /\ txId = 0 /\ rig \in Rigs /\ keyedRig = NoRig
  /\ w = "idle" /\ txRig = Manual /\ tries = 0 /\ result = "none"
  /\ outcome = "none" /\ cutAudio = FALSE
  /\ dog = [i \in TxIds |-> "off"]
  /\ stopper = [s \in Stoppers |-> "outside"]
  /\ ptt = {} /\ warned = {}
  /\ cancelled = {} /\ ownStop = {} /\ amidStop = {}

-----------------------------------------------------------------------------
(* Keying and unkeying a rig r: set_ptt.                                   *)

Transmitter(r) == {r} \cap Radios

KeyWorks(r) == ptt' = ptt \cup Transmitter(r) /\ warned' = warned \ Transmitter(r)

\* The command may have reached the radio although its answer was lost.
KeyFails(r) == /\ r \in Radios
               /\ ptt' \in {ptt, ptt \cup Transmitter(r)}
               /\ UNCHANGED warned

UnkeyWorks(r) == /\ ptt' = ptt \ Transmitter(r)
                 /\ warned' = warned \ Transmitter(r)

UnkeyFails(r) == /\ r \in Radios
                 /\ ptt' \in {ptt, ptt \ Transmitter(r)}

\* emergency_unkey: the rig keyed for the transmission in flight, if any, else
\* the current one.  It holds _rig_lock, so neither changes meanwhile; a
\* failure is reported.
CurrentRig == rig                       \* fault: the keyed rig is not tracked
EmergencyTarget == IF keyedRig # NoRig THEN keyedRig ELSE rig

EmergencyUnkey ==
  \/ UnkeyWorks(EmergencyTarget)
  \/ UnkeyFails(EmergencyTarget) /\ warned' = warned \cup {EmergencyTarget}

\* output_stream.stop() aborts whatever stream is open.
CutAudio == cutAudio' = (cutAudio \/ w = "playing")

TxIdLockFree == \A i \in TxIds : dog[i] \notin {"unkeying", "flagging", "cutting"}

WorkerTo(p) == w' = p

-----------------------------------------------------------------------------
(* The GUI dispatches a transmission, and connects another rig.            *)

\* _begin_tx_request, then the queued signal.
Dispatch ==
  /\ stopper[Gui] = "outside"
  /\ issued < MaxTx
  /\ issued' = issued + 1 /\ queued' = queued + 1
  /\ amidStop' = IF stopper[Remote] = "cutting"
                 THEN amidStop \cup {issued + 1} ELSE amidStop
  /\ UNCHANGED <<slotsRun, covers, stop, workerVars, radioVars, cancelled, ownStop,
                 txId, rig, keyedRig, dog, stopper>>

SetRig(r) ==
  /\ stopper[Gui] = "outside"
  /\ r # rig
  /\ rig' = r
  /\ UNCHANGED <<workerVars, requestVars, radioVars, historyVars, txId,
                 keyedRig, dog, stopper>>

-----------------------------------------------------------------------------
(* The worker thread: transmit and transmit_test_tone.                     *)

StartSlot ==
  /\ w = "idle" /\ queued > 0
  /\ queued' = queued - 1
  /\ WorkerTo("begin")
  /\ UNCHANGED <<issued, slotsRun, covers, stop, txRig, tries, result, outcome,
                 cutAudio, radioVars, historyVars, txId, rig, keyedRig, dog, stopper>>

\* _begin_tx_slot: the flag is cleared only for a slot no stop covers.
BeginClearing ==                        \* fault: each slot clears the flag
  /\ w = "begin" /\ TxIdLockFree
  /\ txId' = txId + 1
  /\ slotsRun' = slotsRun + 1
  /\ stop' = FALSE
  /\ outcome' = "none" /\ ownStop' = {}
  /\ WorkerTo("setup")
  /\ UNCHANGED <<issued, queued, covers, txRig, tries, result, cutAudio,
                 radioVars, cancelled, amidStop, rig, keyedRig, dog, stopper>>
BeginSlot ==
  /\ w = "begin" /\ TxIdLockFree
  /\ txId' = txId + 1
  /\ slotsRun' = slotsRun + 1
  /\ \/ /\ slotsRun + 1 <= covers
        /\ outcome' = "aborted"
        /\ WorkerTo("ending")
        /\ UNCHANGED stop
     \/ /\ slotsRun + 1 > covers
        /\ stop' = FALSE
        /\ outcome' = "none"
        /\ WorkerTo("setup")
  /\ ownStop' = {}
  /\ UNCHANGED <<issued, queued, covers, txRig, tries, result, cutAudio,
                 radioVars, cancelled, amidStop, rig, keyedRig, dog, stopper>>

WorkerOnly == UNCHANGED <<requestVars, radioVars, historyVars, txId, rig,
                          keyedRig, dog, stopper>>

\* The second id, which the watchdog armed below carries, and the rig to key.
TakeTxId ==
  /\ w = "setup" /\ TxIdLockFree
  /\ txId' = txId + 1
  /\ txRig' = rig
  /\ WorkerTo("encoding")
  /\ UNCHANGED <<tries, result, outcome, cutAudio, requestVars, radioVars,
                 historyVars, rig, keyedRig, dog, stopper>>

\* Banner and encoder, whose exception ends the slot with an error signal only;
\* then the flag is looked at.
Encode ==
  /\ w = "encoding"
  /\ \/ outcome' = "error" /\ WorkerTo("ending")
     \/ stop /\ outcome' = "aborted" /\ WorkerTo("ending")
     \/ ~stop /\ WorkerTo("arming") /\ UNCHANGED outcome
  /\ UNCHANGED <<txRig, tries, result, cutAudio>> /\ WorkerOnly

\* The test tone has nothing to encode and does not look at the flag here.
SynthesizeTone ==
  /\ w = "encoding"
  /\ WorkerTo("arming")
  /\ UNCHANGED <<txRig, tries, result, outcome, cutAudio>> /\ WorkerOnly

\* Start the watchdog; a lost output device refuses the transmission.
ArmWatchdog ==
  /\ w = "arming"
  /\ dog' = [dog EXCEPT ![txId] = "armed"]
  /\ result' = "none"
  /\ w' \in {"claiming", "concluding"}
  /\ UNCHANGED <<txRig, tries, outcome, cutAudio, requestVars, radioVars,
                 historyVars, txId, rig, keyedRig, stopper>>

ClaimRig ==
  /\ w = "claiming"
  /\ keyedRig' = txRig
  /\ WorkerTo("keying")
  /\ UNCHANGED <<txRig, tries, result, outcome, cutAudio, requestVars, radioVars,
                 historyVars, txId, rig, dog, stopper>>

\* A failed key is no proof that the rig is not keyed: it is unkeyed as well.
KeyRefused ==                           \* fault: a failed key just returns
  /\ w = "keying"
  /\ \/ KeyWorks(txRig) /\ WorkerTo("settling") /\ result' = "cut"
     \/ KeyFails(txRig) /\ WorkerTo("concluding") /\ result' = "none"
  /\ tries' = 0
  /\ UNCHANGED <<txRig, outcome, cutAudio, requestVars, historyVars, txId, rig,
                 keyedRig, dog, stopper>>
Key ==
  /\ w = "keying"
  /\ \/ KeyWorks(txRig) /\ WorkerTo("settling") /\ result' = "cut"
     \/ KeyFails(txRig) /\ WorkerTo("unkeying") /\ result' = "none"
  /\ tries' = 0
  /\ UNCHANGED <<txRig, outcome, cutAudio, requestVars, historyVars, txId, rig,
                 keyedRig, dog, stopper>>

\* The PTT delay, during which a stop is honoured before any audio.
Settle ==
  /\ w = "settling"
  /\ WorkerTo(IF stop THEN "unkeying" ELSE "playing")
  /\ cutAudio' = FALSE
  /\ UNCHANGED <<txRig, tries, result, outcome>> /\ WorkerOnly

\* Playback returns: it is over, it saw the flag, or the stream was aborted,
\* which to play_blocking is a stream that has finished.
PlayReturns ==
  /\ w = "playing"
  /\ result' = IF stop THEN "cut" ELSE "ok"
  /\ WorkerTo("unkeying")
  /\ UNCHANGED <<txRig, tries, outcome, cutAudio>> /\ WorkerOnly

\* The device fails or stalls, or the TCI link breaks.
PlayRaises ==
  /\ w = "playing"
  /\ result' = "cut"
  /\ WorkerTo("unkeying")
  /\ UNCHANGED <<txRig, tries, outcome, cutAudio>> /\ WorkerOnly

\* A radio is pinged by a health monitor of its own, which gives it up after
\* some failures in a row.
Monitored == txRig \in Radios

\* The monitor has given the rig up: the playback loop raises the flag itself.
HealthLost ==
  /\ w = "playing" /\ Monitored
  /\ stop' = TRUE
  /\ result' = "cut"
  /\ ownStop' = {slotsRun}
  /\ WorkerTo("unkeying")
  /\ UNCHANGED <<txRig, tries, outcome, cutAudio, issued, queued, slotsRun, covers,
                 radioVars, cancelled, amidStop, txId, rig, keyedRig, dog, stopper>>

\* _unkey_with_retry: reconnect and try again, at most UnkeyAttempts times.
LastTry == tries + 1 = UnkeyAttempts

Unkey ==
  /\ w = "unkeying"
  /\ \/ UnkeyWorks(txRig) /\ WorkerTo("concluding") /\ UNCHANGED tries
     \/ /\ UnkeyFails(txRig)
        /\ \/ /\ LastTry
              /\ warned' = warned \cup {txRig}
              /\ WorkerTo("concluding") /\ UNCHANGED tries
           \/ /\ ~LastTry
              /\ tries' = tries + 1
              /\ UNCHANGED <<w, warned>>
  /\ UNCHANGED <<txRig, result, outcome, cutAudio, requestVars, historyVars,
                 txId, rig, keyedRig, dog, stopper>>

\* Timer.cancel is best effort: a timer that has fired goes on.  Then exactly
\* one of complete and aborted is emitted, unless an error alone was.  One
\* step: what comes between the cancel and the look at the flag might as well
\* come before, as nobody else sees an armed timer; what comes between the
\* look and the signal, after.
ConcludeByResult ==                     \* fault: the flag is not looked at again
  /\ w = "concluding"
  /\ dog' = [dog EXCEPT ![txId] = IF @ = "armed" THEN "off" ELSE @]
  /\ outcome' = CASE result = "none" -> "error" [] result = "ok" -> "complete"
                  [] OTHER -> "aborted"
  /\ WorkerTo("ending")
  /\ UNCHANGED <<txRig, tries, result, cutAudio, requestVars, radioVars,
                 historyVars, txId, rig, keyedRig, stopper>>
Conclude ==
  /\ w = "concluding"
  /\ dog' = [dog EXCEPT ![txId] = IF @ = "armed" THEN "off" ELSE @]
  /\ outcome' = IF result = "none" THEN "error"
                ELSE IF ~stop /\ result = "ok" THEN "complete" ELSE "aborted"
  /\ WorkerTo("ending")
  /\ UNCHANGED <<txRig, tries, result, cutAudio, requestVars, radioVars,
                 historyVars, txId, rig, keyedRig, stopper>>

\* _end_tx_slot: the idle event is set and transmission_finished emitted.
EndSlot ==
  /\ w = "ending"
  /\ keyedRig' = NoRig
  /\ WorkerTo("idle")
  /\ result' = "none" /\ tries' = 0 /\ txRig' = Manual /\ cutAudio' = FALSE
  /\ amidStop' = amidStop \ {slotsRun}
  /\ UNCHANGED <<outcome, requestVars, radioVars, cancelled, ownStop, txId, rig, dog,
                 stopper>>

Worker == \/ StartSlot \/ BeginSlot \/ TakeTxId \/ Encode
          \/ SynthesizeTone \/ ArmWatchdog \/ ClaimRig \/ Key \/ Settle
          \/ Unkey \/ Conclude \/ EndSlot
Playback == PlayReturns \/ PlayRaises \/ HealthLost

-----------------------------------------------------------------------------
(* The watchdog's timer thread.                                            *)

DogOnly == UNCHANGED <<workerVars, issued, queued, slotsRun, covers, txId, rig,
                       keyedRig, cancelled, amidStop, stopper>>
DogTo(i, p) == dog' = [dog EXCEPT ![i] = p]

\* The budget is at least 30 s (_PLAYBACK_WATCHDOG_FLOOR_S), a rig answers or
\* times out within 2 s: the timer does not expire before the key is done.
WatchdogFires(i) ==
  /\ dog[i] = "armed"
  /\ w \notin {"claiming", "keying"}
  /\ DogTo(i, "fired")
  /\ UNCHANGED <<stop, radioVars, ownStop>> /\ DogOnly

\* The stale check; the lock is kept if the transmission is still current.
Stale(i) == i # txId

WatchdogChecks(i) ==
  /\ dog[i] = "fired" /\ TxIdLockFree
  /\ \/ Stale(i) /\ DogTo(i, "off") /\ UNCHANGED ownStop
     \/ /\ ~Stale(i) /\ DogTo(i, "unkeying")
        /\ ownStop' = IF i = txId THEN {slotsRun} ELSE ownStop
  /\ UNCHANGED <<stop, radioVars>> /\ DogOnly

WatchdogUnkeys(i) ==
  /\ dog[i] = "unkeying"
  /\ EmergencyUnkey
  /\ DogTo(i, "flagging")
  /\ UNCHANGED <<stop, ownStop>> /\ DogOnly

\* request_stop(cancel_queued=False).
WatchdogStops(i) ==
  /\ dog[i] = "flagging"
  /\ stop' = TRUE
  /\ DogTo(i, "cutting")
  /\ UNCHANGED <<radioVars, ownStop>> /\ DogOnly

WatchdogCuts(i) ==
  /\ dog[i] = "cutting"
  /\ CutAudio
  /\ DogTo(i, "off")
  /\ UNCHANGED <<w, txRig, tries, result, outcome, requestVars, radioVars,
                 historyVars, txId, rig, keyedRig, stopper>>

Watchdog(i) == \/ WatchdogFires(i) \/ WatchdogChecks(i) \/ WatchdogUnkeys(i)
               \/ WatchdogStops(i) \/ WatchdogCuts(i)

-----------------------------------------------------------------------------
(* Stop: the GUI calls request_stop; the remote plane's unkey callback     *)
(* calls emergency_unkey first.                                            *)

StopperTo(s, p) == stopper' = [stopper EXCEPT ![s] = p]

CallStop(s) ==
  /\ stopper[s] = "outside"
  /\ StopperTo(s, IF s = Remote THEN "unkeying" ELSE "flagging")
  /\ UNCHANGED <<workerVars, requestVars, radioVars, historyVars, txId, rig,
                 keyedRig, dog>>

StopperUnkeys(s) ==
  /\ stopper[s] = "unkeying"
  /\ EmergencyUnkey
  /\ StopperTo(s, "flagging")
  /\ UNCHANGED <<workerVars, requestVars, historyVars, txId, rig, keyedRig, dog>>

\* request_stop: the flag, and every transmission dispatched so far.
CoverCurrent == slotsRun                \* fault: queued slots are not covered
CoverQueued == issued

RequestStop(s) ==
  /\ stopper[s] = "flagging"
  /\ stop' = TRUE
  /\ covers' = CoverQueued
  /\ cancelled' = cancelled \cup {n \in Slots : slotsRun < n /\ n <= issued}
  /\ StopperTo(s, "cutting")
  /\ UNCHANGED <<issued, queued, slotsRun, workerVars, radioVars, ownStop, amidStop,
                 txId, rig, keyedRig, dog>>

\* ... then, without the lock, the audio.
StopperCuts(s) ==
  /\ stopper[s] = "cutting"
  /\ CutAudio
  /\ StopperTo(s, "outside")
  /\ UNCHANGED <<w, txRig, tries, result, outcome, requestVars, radioVars,
                 historyVars, txId, rig, keyedRig, dog>>

Stopper(s) == StopperUnkeys(s) \/ RequestStop(s) \/ StopperCuts(s)

-----------------------------------------------------------------------------
Next == \/ Dispatch
        \/ \E r \in Rigs : SetRig(r)
        \/ Worker \/ Playback
        \/ \E i \in TxIds : Watchdog(i)
        \/ \E s \in Stoppers : CallStop(s) \/ Stopper(s)

Spec == Init /\ [][Next]_vars

\* The threads run, and timers expire; playback alone is promised nothing.
FairSpec ==
  /\ Spec
  /\ WF_vars(Worker)
  /\ \A i \in TxIds : WF_vars(Watchdog(i))
  /\ \A s \in Stoppers : WF_vars(Stopper(s))

\* An audio device that honours the flag and abort().
PlaybackStops == WF_vars((stop \/ cutAudio) /\ Playback)

-----------------------------------------------------------------------------
(* Properties.                                                             *)

Running == w \notin {"idle", "begin", "ending"}

\* The stop flag is up, while a transmission runs, exactly when a Stop covers
\* it or its own watchdog fired: no stop is lost when the slot starts, and no
\* stop meant for an earlier transmission survives into it.
StopFlagExact ==
  Running => /\ slotsRun <= covers => stop
             /\ stop => slotsRun <= covers \/ slotsRun \in ownStop

\* A transmission stopped while it was still queued never gets as far as the
\* rig (_stop_covers_upto; audit T-L2).
CancelledNeverRuns == Running => slotsRun \notin cancelled

\* The radio on the air is the one emergency_unkey would reach, or the
\* operator has been told to unkey it by hand; none is left when idle.
CarrierAccounted == /\ ptt \subseteq warned \cup {keyedRig}
                    /\ w = "idle" => keyedRig = NoRig

\* A transmission has one outcome, and never completes once a Stop covers it,
\* however the Stop, the watchdog and the end of playback race.
NoCompletionAfterStop ==
  [][slotsRun' = slotsRun /\ outcome' # outcome
       => /\ outcome = "none"
          /\ outcome' = "complete" => slotsRun > covers]_vars

\* A transmission whose audio was cut off is not reported complete (and so not
\* logged or saved as sent): a stop that aborts the stream has either raised the
\* flag for this very transmission, or was already at work when it was
\* dispatched (which the plane's dispatch lock makes every caller wait for).
CompleteWasPlayed ==
  outcome = "complete" /\ w = "ending" => ~cutAudio \/ slotsRun \in amidStop

\* A Stop, from the operator or a watchdog, ends the transmissions it was meant
\* for and no other: the one running, the ones queued, never a later one.
StopHonoured == StopFlagExact /\ CancelledNeverRuns /\ CompleteWasPlayed

\* No endless carrier: even if playback wedges and never returns, the radio is
\* unkeyed or the operator told so (audit T-M2; needs FairSpec).
CarrierDrops == \A r \in Radios : (r \in ptt) ~> (r \notin ptt \/ r \in warned)

\* With a device that honours abort(), the worker always comes back to take the
\* next transmission: the watchdog frees it from an endless one.
WorkerComesBack == PlaybackStops => []<>(w = "idle")

\* A transmission ends, for the radio and for the worker.
TransmissionsEnd == CarrierDrops /\ WorkerComesBack

-----------------------------------------------------------------------------
Stage == CASE w \in {"idle", "begin"} -> "idle"
           [] w = "ending" -> "ending"
           [] OTHER -> "running"

Promise == INSTANCE TxPromise WITH stage <- Stage

\* The worker implements its abstract promise: whatever the watchdogs, the rig
\* and the audio do, transmissions run one at a time and in order, and those a
\* Stop covers do not begin.
PromiseKept == Promise!Spec

=============================================================================
