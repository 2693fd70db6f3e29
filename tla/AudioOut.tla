------------------------------ MODULE AudioOut ------------------------------
(***************************************************************************)
(* One transmission's audio: play_blocking of audio/output_stream.py, the  *)
(* PortAudio callback that takes the samples, stop() from other threads,   *)
(* and the routing of the open stream to a PipeWire sink.                  *)
(*                                                                         *)
(* The samples are blocks 1 .. Total.  stopFlag is the worker's stop       *)
(* event, which request_stop raises before it calls stop().  The stall     *)
(* clock has no time: a device that takes no audio is frozen, and a frozen *)
(* one has been so for long enough when the clock is looked at.            *)
(***************************************************************************)
EXTENDS AudioHost

CONSTANTS
    Total,         \* blocks of one transmission
    QueueSize,     \* _CALLBACK_QUEUE_SIZE
    StopThreads,      \* threads that may call stop()
    MaxPlays

ASSUME AudioAssumption ==
    /\ Total \in Nat /\ QueueSize \in Nat
    /\ {"free", "rx"} \cap StopThreads = {}

VARIABLES
    stream,         \* the OutputStream: none, running, last, ended, closing
    slot,           \* _active_stream is set
    to,             \* the device it plays on, or the sink it was moved to
    target,         \* the device play_blocking was called with
    failure,        \* error or stalled, when playing raised an exception
    plays,
    position, queue, dropped,    \* the callback and its hand-off queue
    frozen,         \* the device takes no more audio
    lastSeen, reported,          \* the stall clock; blocks reported
    stopFlag,
    stopping,       \* each stopper: idle, called, abort
    stray,          \* history: a late abort met the next transmission
    inputs,         \* PipeWire's playback streams, numbered as they came
    ours, before,   \* ours; the snapshot
    blind,          \* history: the snapshot did not tell ours from others
    strayed         \* history: another program's stream was moved

streamVars == <<stream, slot, to, target, failure, plays>>
audioVars == <<position, queue, dropped, frozen>>
clockVars == <<lastSeen, reported>>
stopVars == <<stopFlag, stopping, stray>>
routeVars == <<inputs, ours, before, blind, strayed>>
gateVars == <<lock, active, upsets>>
deviceVars == <<os, sinks, host, engine, generation, rx, gui, wish, device, stale,
                resolved, fresh, raced>>
playVars == <<streamVars, audioVars, clockVars, stopVars, routeVars>>
outVars == <<hostVars, playVars>>

SystemDefault == [name |-> "", api |-> ""]

OutInit ==
    /\ HostInit
    /\ stream = "none" /\ slot = FALSE /\ to = SystemDefault /\ target = Default
    /\ failure = "none" /\ plays = 0
    /\ position = 0 /\ queue = <<>> /\ dropped = FALSE /\ frozen = FALSE
    /\ lastSeen = 0 /\ reported = 0
    /\ stopFlag = FALSE /\ stopping = [s \in StopThreads |-> "idle"] /\ stray = FALSE
    /\ inputs = 0 /\ ours = 0 /\ before = 0 /\ blind = FALSE /\ strayed = FALSE

----------------------------------------------------------------------------
(* The TX worker's thread.                                                 *)

Transmit ==
    /\ tx = "idle" /\ plays < MaxPlays /\ plays' = plays + 1
    /\ tx' = "resolve" /\ stopFlag' = FALSE
    /\ UNCHANGED <<deviceVars, gateVars, audioVars, clockVars, routeVars, stream, slot, to, target,
                   failure, stopping, stray>>

\* Keyed, and the delay over: play_blocking is called with the device the
\* worker has by now, unless Stop came first or the key failed.
Play ==
    /\ tx = "keyed"
    /\ \/ tx' = "enter" /\ ~stopFlag /\ target' = device /\ UNCHANGED upsets
       \/ tx' = "idle" /\ stopFlag /\ UNCHANGED <<target, upsets>>
       \/ tx' = "idle" /\ ~stopFlag /\ Upset /\ UNCHANGED target
    /\ UNCHANGED <<deviceVars, lock, active, audioVars, clockVars, stopVars, routeVars,
                   stream, slot, to, failure, plays>>

Enter ==
    /\ tx = "enter" /\ lock = "free" /\ active' = active + 1 /\ tx' = "snapshot"
    /\ UNCHANGED <<audioVars, clockVars, deviceVars, streamVars, stopVars, routeVars, lock, upsets>>

\* snapshot_sink_input_ids: taken before the stream starts; empty on failure.
Snapshot ==
    /\ tx = "snapshot" /\ tx' = "open"
    /\ IF target.kind # "sink" THEN UNCHANGED <<before, blind, upsets>>
       ELSE \/ before' = inputs /\ blind' = FALSE /\ UNCHANGED upsets
            \/ before' = 0 /\ blind' = (inputs # 0) /\ Upset
    /\ UNCHANGED <<deviceVars, lock, active, audioVars, clockVars, stopVars, streamVars,
                   inputs, ours, strayed>>

\* The stream opens on the device that has the index now, or on the default
\* for a sink; a bad index or a busy device is an error.
OpenStream ==
    /\ tx = "open"
    /\ \/ /\ target.kind = "portaudio" => target.at \in DOMAIN host
          /\ tx' = "publish" /\ stream' = "running"
          /\ to' = IF target.kind = "portaudio" THEN host[target.at] ELSE SystemDefault
          /\ inputs' = inputs + 1 /\ ours' = inputs'
          /\ UNCHANGED failure
          /\ UNCHANGED upsets
       \/ /\ tx' = "leave" /\ failure' = "error" /\ UNCHANGED <<stream, to, inputs, ours>>
          /\ IF target.kind = "portaudio" /\ target.at \notin DOMAIN host THEN UNCHANGED upsets
             ELSE Upset
    /\ UNCHANGED <<deviceVars, lock, active, audioVars, clockVars, stopVars, slot, target, plays,
                   before, blind, strayed>>

Publish ==
    /\ tx = "publish" /\ lock = "free" /\ slot' = TRUE
    /\ tx' = IF target.kind = "sink" THEN "route" ELSE "poll"
    /\ UNCHANGED <<deviceVars, gateVars, audioVars, clockVars, stopVars, routeVars,
                   stream, to, target, failure, plays>>

\* The lowest of the streams that were not there before is moved.
Move ==
    /\ strayed' = (strayed \/ before + 1 # ours)
    /\ to' = IF before + 1 = ours THEN target.entry ELSE to

\* route_active_stream_to_sink: pactl may fail, or show no new stream in
\* time, and the audio stays on the default.  The stall clock starts then.
Route ==
    /\ tx = "route" /\ tx' = "poll" /\ lastSeen' = position
    /\ \/ UNCHANGED <<strayed, to>>
       \/ target.entry.name \in sinks /\ before < inputs /\ Move
    /\ UNCHANGED <<deviceVars, gateVars, audioVars, stopVars, reported,
                   stream, slot, target, failure, plays, inputs, ours, before, blind>>

\* The polling loop.  It ends when the stream has; aborts it on a stop, on a
\* stall and when the health check fails; and else reports what was played.
Live == stream \in {"running", "last"}
Abort == stream' = IF Live THEN "ended" ELSE stream
PollEnded ==
    /\ tx = "poll" /\ stream = "ended" /\ tx' = "drain"
    /\ UNCHANGED <<deviceVars, gateVars, audioVars, clockVars, stopVars, routeVars, streamVars>>
PollStopped ==
    /\ tx = "poll" /\ stopFlag /\ Abort /\ tx' = "drain"
    /\ UNCHANGED <<deviceVars, gateVars, audioVars, clockVars, stopVars, routeVars,
                   slot, to, target, failure, plays>>
\* fault: a stream that has played nothing yet is never stalled
PollStalledLate ==
    /\ tx = "poll" /\ frozen /\ 0 < position /\ position < Total /\ lastSeen = position
    /\ Abort /\ failure' = "stalled" /\ tx' = "clear"
    /\ UNCHANGED <<deviceVars, gateVars, audioVars, clockVars, stopVars, routeVars,
                   slot, to, target, plays>>

PollStalled ==
    /\ tx = "poll" /\ frozen /\ position < Total /\ lastSeen = position
    /\ Abort /\ failure' = "stalled" /\ tx' = "clear"
    /\ UNCHANGED <<deviceVars, gateVars, audioVars, clockVars, stopVars, routeVars,
                   slot, to, target, plays>>
PollUnhealthy ==
    /\ tx = "poll" /\ Upset /\ stopFlag' = TRUE /\ Abort /\ tx' = "drain"
    /\ UNCHANGED <<deviceVars, lock, active, audioVars, clockVars, routeVars, stopping, stray,
                   slot, to, target, failure, plays>>
PollDeliver ==
    /\ tx = "poll" /\ (queue # <<>> \/ lastSeen # position)
    /\ lastSeen' = position
    /\ reported' = IF queue = <<>> THEN reported ELSE Head(queue)
    /\ queue' = IF queue = <<>> THEN queue ELSE Tail(queue)
    /\ UNCHANGED <<deviceVars, gateVars, stopVars, routeVars, streamVars, position, dropped,
                   frozen, tx>>

\* fault: what is left in the queue when the loop ends is dropped
DrainNothing ==
    /\ tx = "drain" /\ tx' = "clear" /\ queue' = <<>>
    /\ UNCHANGED <<deviceVars, gateVars, stopVars, routeVars, streamVars, position, dropped,
                   frozen, clockVars>>

\* What is left in the queue is reported, however the loop ended.
Drain ==
    /\ tx = "drain" /\ tx' = "clear"
    /\ reported' = IF queue = <<>> THEN reported ELSE Last(queue)
    /\ queue' = <<>>
    /\ UNCHANGED <<deviceVars, gateVars, stopVars, routeVars, streamVars, position, dropped,
                   frozen, lastSeen>>

\* The slot is cleared before the stream is closed.
Clear ==
    /\ tx = "clear" /\ lock = "free" /\ slot' = FALSE /\ tx' = "exit"
    /\ UNCHANGED <<deviceVars, gateVars, audioVars, clockVars, stopVars, routeVars,
                   stream, to, target, failure, plays>>
Exit ==
    /\ tx = "exit" /\ stream' = "closing" /\ tx' = "close"
    /\ UNCHANGED <<deviceVars, gateVars, audioVars, clockVars, stopVars, routeVars,
                   slot, to, target, failure, plays>>
CloseStream ==
    /\ tx = "close" /\ stream' = "none" /\ tx' = "leave"
    /\ UNCHANGED <<deviceVars, gateVars, audioVars, clockVars, stopVars, routeVars,
                   slot, to, target, failure, plays>>
Leave ==
    /\ tx = "leave" /\ lock = "free" /\ active' = active - 1 /\ tx' = "idle"
    /\ to' = SystemDefault /\ target' = Default /\ failure' = "none"
    /\ position' = 0 /\ queue' = <<>> /\ dropped' = FALSE /\ frozen' = FALSE
    /\ lastSeen' = 0 /\ reported' = 0 /\ stopFlag' = FALSE /\ stray' = FALSE
    /\ inputs' = IF inputs > 1 THEN 1 ELSE 0
    /\ ours' = 0 /\ before' = 0 /\ blind' = FALSE /\ strayed' = FALSE
    /\ UNCHANGED <<deviceVars, lock, upsets, stopping, stream, slot, plays>>

----------------------------------------------------------------------------
(* PortAudio's thread, and the device.                                     *)

\* The callback hands out one block, or ends the stream on a stop.
Callback ==
    /\ stream = "running" /\ ~frozen
    /\ IF stopFlag THEN stream' = "ended" /\ UNCHANGED <<position, queue, dropped>>
       ELSE /\ position' = position + 1
            /\ stream' = IF position' = Total THEN "last" ELSE "running"
            /\ IF Len(queue) < QueueSize
               THEN queue' = Append(queue, position') /\ UNCHANGED dropped
               ELSE dropped' = TRUE /\ UNCHANGED queue
    /\ UNCHANGED <<deviceVars, gateVars, clockVars, stopVars, routeVars, tx, frozen,
                   slot, to, target, failure, plays>>
\* finished_callback, when the last buffers have been played.
Finished ==
    /\ stream = "last" /\ ~frozen /\ stream' = "ended"
    /\ UNCHANGED <<deviceVars, gateVars, audioVars, clockVars, stopVars, routeVars, tx,
                   slot, to, target, failure, plays>>
Freeze ==
    /\ Upset /\ Live /\ ~frozen /\ frozen' = TRUE
    /\ UNCHANGED <<deviceVars, lock, active, clockVars, stopVars, routeVars, streamVars, tx,
                   position, queue, dropped>>

\* Another program begins to play; ours is looked for among the new ones.
OtherPlays ==
    /\ wish.name \in Sinks /\ Upset /\ inputs' = inputs + 1
    /\ blind' = (blind \/ tx = "open")
    /\ UNCHANGED <<deviceVars, lock, active, audioVars, clockVars, stopVars, streamVars, tx,
                   ours, before, strayed>>

----------------------------------------------------------------------------
(* stop(), from any thread.                                                *)

StopCall(s) ==
    /\ Upset /\ tx # "idle" /\ ~stopFlag /\ stopping[s] = "idle"
    /\ stopFlag' = TRUE /\ stopping' = [stopping EXCEPT ![s] = "called"]
    /\ UNCHANGED <<deviceVars, lock, active, audioVars, clockVars, routeVars, streamVars, tx, stray>>

\* fault: the stream is read under the lock and aborted without it
StopLockUnheld(s) ==
    /\ stopping[s] = "called" /\ lock = "free"
    /\ stopping' = [stopping EXCEPT ![s] = IF slot THEN "abort" ELSE "idle"]
    /\ UNCHANGED <<deviceVars, gateVars, audioVars, clockVars, routeVars, streamVars, tx,
                   stopFlag, stray>>

StopLock(s) ==
    /\ stopping[s] = "called" /\ lock = "free"
    /\ lock' = IF slot THEN s ELSE "free"
    /\ stopping' = [stopping EXCEPT ![s] = IF slot THEN "abort" ELSE "idle"]
    /\ UNCHANGED <<deviceVars, active, upsets, audioVars, clockVars, routeVars, streamVars, tx,
                   stopFlag, stray>>
StopAbort(s) ==
    /\ stopping[s] = "abort" /\ lock' = "free" /\ Abort
    /\ stopping' = [stopping EXCEPT ![s] = "idle"] /\ stray' = (stray \/ ~stopFlag)
    /\ UNCHANGED <<deviceVars, active, upsets, audioVars, clockVars, routeVars, tx, stopFlag,
                   slot, to, target, failure, plays>>

----------------------------------------------------------------------------
HostSteps == HostNext /\ UNCHANGED playVars
PlayStep ==
    \/ Play \/ Enter \/ Snapshot \/ OpenStream \/ Publish \/ Route
    \/ PollEnded \/ PollStopped \/ PollStalled \/ PollDeliver
    \/ Drain \/ Clear \/ Exit \/ CloseStream \/ Leave
OutNext ==
    \/ HostSteps \/ Transmit \/ PlayStep \/ PollUnhealthy
    \/ Callback \/ Finished \/ Freeze \/ OtherPlays
    \/ \E s \in StopThreads : StopCall(s) \/ StopLock(s) \/ StopAbort(s)

\* The threads run; the driver takes audio while the device is not frozen; a
\* reset of PortAudio returns.
Fairness ==
    /\ WF_outVars((Resolve \/ Query \/ Resolved) /\ UNCHANGED playVars)
    /\ WF_outVars(PlayStep) /\ WF_outVars(Callback) /\ WF_outVars(Finished)
    /\ WF_outVars(PaReset /\ UNCHANGED playVars)
    /\ \A s \in StopThreads : WF_outVars(StopLock(s)) /\ WF_outVars(StopAbort(s))
OutSpec == OutInit /\ [][OutNext]_outVars /\ Fairness

----------------------------------------------------------------------------
(* Properties.                                                             *)

\* PortAudio is never terminated while a transmission has its stream, and
\* stop() never aborts a stream that its own thread is closing: both would
\* crash the process (run_if_tx_idle, stop).
HandlesValid ==
    /\ engine = "down" => stream = "none"
    /\ \A s \in StopThreads : stopping[s] = "abort" => stream \notin {"none", "closing"}

\* The transmission's audio goes to the device the operator configured, on
\* its host API where the host lists it, or to the default only when the
\* sink could not be had: a renumbered host, a missing device and a host
\* that fails to enumerate never send it elsewhere, as long as no reset and
\* no save of Settings falls between the resolution of the device and the
\* opening of the stream (_resolve_output_device).
Opens == stream = "none" /\ stream' = "running" /\ wish.name # ""
OnWished == to'.name = wish.name
OnItsApi == (\E i \in Named(host, wish.name) : host[i].api = wish.api) => to'.api = wish.api
RightDevice ==
    [][Opens /\ ~raced => target.kind = "sink" \/ (OnWished /\ (wish.api # "" => OnItsApi))]_outVars

\* The same without the exception: "re-resolved by name at the start of every
\* TX, so a USB replug [...] can't send TX audio to whatever device inherited
\* the old index" (TxWorker.__init__).
AlwaysRightDevice == [][Opens => target.kind = "sink" \/ OnWished]_outVars

\* A playback that ends by itself was played to its last block, and all of it
\* was reported, unless the hand-off queue overflowed or a late stop() of the
\* transmission before aborted it.
PlayedIsReported ==
    tx = "leave" /\ failure = "none" /\ ~stopFlag /\ ~stray =>
        position = Total /\ (reported = Total \/ dropped)

\* Only this program's stream is moved to the radio's sink, unless the
\* snapshot failed or another program began to play between it and the
\* opening of the stream (route_active_stream_to_sink).
OthersUntouched == [][strayed' => strayed \/ blind]_outVars

\* The transmission's audio and everybody else's go where they belong.
EachOnItsDevice == RightDevice /\ OthersUntouched

\* Every transmission's audio ends, on a stop, a stall or its last block,
\* whatever the device does, but for one that freezes on its last buffers
\* with nobody calling stop.
DrainHangs == frozen /\ position = Total /\ ~stopFlag
PlaybackEnds == tx # "idle" ~> (tx = "idle" \/ DrainHangs)
=============================================================================
