----------------------------- MODULE AudioHost -----------------------------
(***************************************************************************)
(* The PortAudio host that receiver and transmitter share: audio/devices,  *)
(* the reset of audio/input_stream before each capture, the gate of        *)
(* audio/output_stream that keeps it away from a transmission, and the     *)
(* resolution of the configured output device in ui/workers.py.            *)
(*                                                                         *)
(* PortAudio numbers the devices when it is initialised: host is the list  *)
(* it made then, os what is plugged in now.  A device is an entry [name,   *)
(* api]; an AudioDevice is an index together with the entry it was found   *)
(* as.  The same name may stand there once for each host API.  The lock is *)
(* output_stream._tx_state_lock; steps that hold it for one indivisible    *)
(* action only ask that it is free.                                        *)
(***************************************************************************)
EXTENDS Integers, Sequences, SequencesExt

CONSTANTS
    Lists,         \* device lists the system may show
    Wishes,        \* output devices the operator may configure, [name, api]
    Sinks,         \* PipeWire sinks that may exist
    MaxResets, MaxUpsets   \* resets; every other disturbance

ASSUME ListsAssumption == \A list \in Lists : DOMAIN list \subseteq Nat

VARIABLES
    os, sinks,      \* devices and PipeWire sinks there are now
    host,           \* PortAudio's list
    engine,         \* is PortAudio initialised
    generation,     \* _pa_generation
    lock,           \* holder of _tx_state_lock, or "free"
    active,         \* _tx_active_count
    rx,             \* the receiver's audio thread
    gui,            \* a Settings save under way: the wish and what was found
    wish,           \* _output_device_name and _output_host_api
    device,         \* _output_device
    stale,          \* _output_device_stale
    resolved,       \* _resolved_generation
    tx,             \* where the TX worker is
    fresh,          \* what its query found, and in which generation
    raced,          \* history: a reset or a save since the device was last looked up,
                    \* while a transmission or a save was using what it had found
    upsets

hostVars == <<os, sinks, host, engine, generation, lock, active, rx, gui, wish, device,
              stale, resolved, tx, fresh, raced, upsets>>

Default == [kind |-> "default", at |-> 0, entry |-> [name |-> "", api |-> ""]]
AudioDevice(list, i) == [kind |-> "portaudio", at |-> i, entry |-> list[i]]
PipeWireSink(name) == [kind |-> "sink", at |-> 0, entry |-> [name |-> name, api |-> ""]]
NoFind == [found |-> Default, generation |-> 0, wish |-> [name |-> "", api |-> ""]]
NoSave == [found |-> Default, wish |-> [name |-> "", api |-> ""], busy |-> "no"]

\* _pick_by_name: the first device of that name, the one on the API if any.
Named(list, name) == {i \in DOMAIN list : list[i].name = name}
PickByName(list, name, api) ==
    LET matches == Named(list, name)
        twins == {i \in matches : list[i].api = api}
    IN  IF name = "" \/ matches = {} THEN Default
        ELSE IF api # "" /\ twins # {} THEN AudioDevice(list, Min(twins))
        ELSE AudioDevice(list, Min(matches))
FindSink(name) == IF name \in sinks THEN PipeWireSink(name) ELSE Default
Either(found, other) == IF found # Default THEN found ELSE other

\* _all_devices: nothing when PortAudio fails.  Its half-second cache is left
\* out: a Settings save may act on an old list without it (ApplyQuery).
AllDevices == IF engine = "up" THEN host ELSE <<>>

HostInit ==
    /\ os \in Lists /\ host = os /\ sinks \in SUBSET Sinks
    /\ engine = "up" /\ generation = 0 /\ lock = "free" /\ active = 0
    /\ rx = "idle" /\ gui = NoSave
    /\ wish \in Wishes
    /\ device = Either(PickByName(host, wish.name, wish.api), FindSink(wish.name))
    /\ stale = FALSE /\ resolved = 0 /\ tx = "idle"
    /\ fresh = NoFind /\ raced = FALSE /\ upsets = 0

Upset == upsets < MaxUpsets /\ upsets' = upsets + 1

\* Between the resolution of the device and the use of its index.
InWindow == tx \in {"query", "requery", "found", "keyed", "enter", "snapshot", "open"}

----------------------------------------------------------------------------
(* The world: cables and the sound server.                                 *)

Plug ==
    /\ Upset
    /\ \/ os' \in Lists \ {os} /\ UNCHANGED sinks
       \/ sinks' \in (SUBSET Sinks) \ {sinks} /\ UNCHANGED os
    /\ UNCHANGED <<host, engine, generation, lock, active, rx, gui, wish, device, stale,
                   resolved, tx, fresh, raced>>

----------------------------------------------------------------------------
(* The receiver's audio thread: InputStreamWorker.start.                   *)

\* The reset before each capture, skipped while something is transmitted:
\* the lock is held from the look at the count to the end of the reset.
RunIfTxIdle ==
    /\ rx = "idle" /\ generation < MaxResets /\ lock = "free" /\ active = 0
    /\ rx' = "reset" /\ lock' = "rx" /\ engine' = "down"
    /\ UNCHANGED <<os, sinks, host, generation, active, gui, wish, device, stale, resolved,
                   tx, fresh, raced, upsets>>

\* Initialised again, or not: every index may have moved.
PaReset ==
    /\ rx = "reset" /\ rx' = "idle" /\ lock' = "free" /\ engine' = "up"
    /\ \/ host' = os /\ UNCHANGED upsets
       \/ host' = <<>> /\ Upset
    /\ generation' = generation + 1
    /\ raced' = (raced \/ InWindow \/ gui # NoSave)
    /\ UNCHANGED <<os, sinks, active, gui, wish, device, stale, resolved, tx, fresh>>

----------------------------------------------------------------------------
(* The GUI: a Settings save, and the report of a lost device.              *)

\* _apply_config looks the new device up without the lock, and hands it to
\* the worker a little later.
ApplyQuery ==
    /\ gui = NoSave /\ Upset
    /\ \E w \in Wishes :
          gui' = [wish |-> w, busy |-> "found",
                  found |-> Either(PickByName(AllDevices, w.name, w.api), FindSink(w.name))]
    /\ raced' = (raced \/ InWindow)
    /\ UNCHANGED <<os, sinks, host, engine, generation, lock, active, rx, wish, device,
                   stale, resolved, tx, fresh>>

SetOutputDevice ==
    /\ gui.busy = "found" /\ gui' = [gui EXCEPT !.busy = "set"]
    /\ device' = gui.found
    /\ raced' = (raced \/ InWindow)
    /\ UNCHANGED <<os, sinks, host, engine, generation, lock, active, rx, wish, stale, resolved,
                   tx, fresh, upsets>>

SetOutputDeviceName ==
    /\ gui.busy = "set" /\ gui' = NoSave /\ wish' = gui.wish
    /\ raced' = (raced \/ InWindow)
    /\ UNCHANGED <<os, sinks, host, engine, generation, lock, active, rx, device, stale,
                   resolved, tx, fresh, upsets>>

MarkOutputDeviceStale ==
    /\ ~stale /\ os # host /\ stale' = TRUE
    /\ UNCHANGED <<os, sinks, host, engine, generation, lock, active, rx, gui, wish, device,
                   resolved, tx, fresh, raced, upsets>>

----------------------------------------------------------------------------
(* _resolve_output_device, on the TX worker, before it keys the radio.     *)

\* fault: a device found once is kept whatever the host's generation
ResolveOnce ==
    /\ tx = "resolve" /\ raced' = (raced \/ gui # NoSave)
    /\ IF wish.name = "" \/ (device # Default /\ ~stale)
       THEN tx' = "keyed" /\ UNCHANGED <<stale, fresh>>
       ELSE /\ tx' = "query" /\ stale' = FALSE
            /\ fresh' = [found |-> Default, generation |-> generation, wish |-> wish]
    /\ UNCHANGED <<os, sinks, host, engine, generation, lock, active, rx, gui, wish, device,
                   resolved, upsets>>

\* The device is kept while nothing points to a change; a sink is looked up
\* in PipeWire first, without the lock.
Resolve ==
    /\ tx = "resolve" /\ raced' = (raced \/ gui # NoSave)
    /\ IF wish.name = "" \/ (device # Default /\ ~stale /\ generation = resolved)
       THEN tx' = "keyed" /\ UNCHANGED <<stale, fresh>>
       ELSE /\ stale' = FALSE
            /\ fresh' = [generation |-> generation, wish |-> wish,
                          found |-> IF device.kind = "sink" THEN FindSink(wish.name) ELSE Default]
            /\ tx' = IF device.kind # "sink" THEN "query"
                     ELSE IF wish.name \in sinks THEN "found" ELSE "requery"
    /\ UNCHANGED <<os, sinks, host, engine, generation, lock, active, rx, gui, wish, device,
                   resolved, upsets>>

\* PortAudio's devices under the lock; an empty list means that PortAudio
\* failed.  A name that is nowhere is a refusal before the radio is keyed.
Query ==
    /\ tx \in {"query", "requery"} /\ lock = "free"
    /\ raced' = (raced /\ ~(gui = NoSave /\ fresh.wish = wish))
    /\ LET w == fresh.wish
           api == IF w.api # "" THEN w.api ELSE device.entry.api
           found == Either(PickByName(AllDevices, w.name, api),
                           IF tx = "query" THEN FindSink(w.name) ELSE Default)
       IN  IF tx = "query" /\ AllDevices = <<>> /\ device # Default
           THEN tx' = "keyed" /\ stale' = TRUE /\ fresh' = NoFind
           ELSE IF found = Default THEN tx' = "idle" /\ stale' = TRUE /\ fresh' = NoFind
           ELSE /\ tx' = "found" /\ UNCHANGED stale
                /\ fresh' = [fresh EXCEPT !.found = found, !.generation = generation]
    /\ UNCHANGED <<os, sinks, host, engine, generation, lock, active, rx, gui, wish, device,
                   resolved, upsets>>

Resolved ==
    /\ tx = "found" /\ tx' = "keyed"
    /\ device' = fresh.found /\ resolved' = fresh.generation
    /\ fresh' = NoFind
    /\ UNCHANGED <<os, sinks, host, engine, generation, lock, active, rx, gui, wish, stale,
                   raced, upsets>>

HostNext ==
    \/ Plug \/ RunIfTxIdle \/ PaReset
    \/ ApplyQuery \/ SetOutputDevice \/ SetOutputDeviceName \/ MarkOutputDeviceStale
    \/ Resolve \/ Query \/ Resolved
=============================================================================
