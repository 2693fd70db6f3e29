# A TLA+ verification of Open-SSTV

Open-SSTV sends and receives slow-scan television pictures over amateur radio:
a PySide6 desktop program that keys a transmitter (PTT), plays encoded audio,
decodes received audio, keeps a log of contacts, and can be watched and, within
limits, operated from a browser. Much of it is signal arithmetic or layout. What
is hard is where threads, devices, files and the network meet:

* **who has the transmitter** (GUI thread, transmit worker, watchdog timers,
  request threads of the HTTP server and its tick thread): a mistake leaves a
  carrier on the air, or puts a cancelled picture on it;
* **who has the radio and the sound card** (connect threads that outlive their
  attempt, polls, backends with late replies, device resets, quitting in the
  middle of all that);
* **what becomes of what the operator made** (pictures received, contacts,
  settings, templates), through races, failed saves, kills and power losses.

All source paths are below `src/src/open_sstv/`.

## 1. Inventory

| Component | Source | State it keeps | Operations | Talks to | Modelled by |
|---|---|---|---|---|---|
| Remote control plane | `remote/control.py` | lifecycle state, lease, confirm token, pending request, ages, queue of callbacks, two locks | `take_lease`, `release_lease`, `reclaim_local`, `heartbeat`, `request`, `confirm`, `abort`, `on_tx_finished`, `tick`, `_drain` | called by HTTP threads, tick thread, GUI; calls `transmit` and `unkey` back | `ControlPlane`, promise `PlanePromise` |
| Transmit worker | `ui/workers.py` `TxWorker` | slot counters, stop flag and what it covers, `_tx_id`, `_rig`, `_keyed_rig`, watchdog timers | `transmit`, `transmit_test_tone`, `_run_tx`, `_unkey_with_retry`, `emergency_unkey`, `request_stop`, `_watchdog_fire`, `set_rig` | queued signals from and to the GUI; the rig; audio output | `TxWorker`, promise `TxPromise` |
| Remote-transmit glue | `ui/main_window.py` 800-828, 1519-1625, 2590-2774 | count of transmissions in flight, "last TX was remote" | `_on_remote_tx_request`, `_remote_tx_unkey`, `_remote_tx_ended`, `_on_transmit_requested`, `_on_stop_requested`, ... | joins the two above | `RemoteTx` |
| Rig session | `ui/main_window.py` 200-570, 3586-3850, 4361-4566 | connect attempt, retired attempts, deferred success and teardown, poll slot | connect, timeout, cancel, adopt, poll, three-strike disconnect, teardown, band-plan tuning | rig backends, TX worker | `RigSession`, `BandTune` |
| Rig backends | `radio/*.py` | ports, sockets, pending replies, cached state, receive subscription | `open`, `close`, `set_ptt`, getters and setters, reader threads | radio, rigctld, TCI server | `RigWire`, `FlexLink`, `TciLink`, joined by `RigLinks` |
| Receive pipeline | `audio/*input_stream.py`, `ui/workers.py` `RxWorker`, `ui/main_window.py` 2776-3145, 4135-4260 | stream, hand-off queue, decoder, gate, recovery timer, scratch buffer, decode watchdog | start, stop, device loss, auto-resume, gate, flush, Clear, reset, swap | TX (gate), decoder | `RxCapture`, `RxDecoding` |
| SSTV decoder | `core/decoder.py`, `core/incremental_decoder.py`, `core/sync.py` | audio buffer, sync candidates, line grid, rows | `feed`, `reset`, prune, caps, tail re-feed | RX worker | `SyncGrid`, `LineDecoder`, `ImageDecoder`, in `RxDecoding` |
| Audio output | `audio/output_stream.py`, `audio/devices.py`, `audio/pipewire_route.py`, device part of `TxWorker` | active stream, active count, play position, hand-off queue, PortAudio's generation, resolved device | `play_blocking`, `stop`, `run_if_tx_idle`, `_resolve_output_device`, routing | TX worker, stoppers, PortAudio callback, receiver's reset | `AudioHost`, `AudioOut` |
| Logbook | `logbook/*.py`, `ui/logbook_dialog.py`, `ui/log_qso_dialog.py`, capture part of `ui/main_window.py` | SQLite rows, tables and forms read from them, drafts, stashes, message boxes | insert, update, delete, link, import, export, draft, capture, autosave | transmit and receive completions, Gallery | `Logbook`, `QsoCapture` |
| Gallery | `gallery/*.py`, `ui/gallery_dialog.py`, receive strip | image files, join with the log | scan, delete, evict | Logbook | `Logbook`, `QsoCapture` |
| Settings, durable writes | `config/store.py`, `fsutil.py`, saves of `ui/main_window.py` | settings file, temporaries | atomic write, load and recover, sweep, debounce, flush at quit | every dialog | `Disk`, `UserFiles` |
| Templates | `templates/*.py`, `ui/template_*.py` | one file per template, starter and migration markers | save, rename, duplicate, delete, restore, list, migrate | request threads (listing) | `Disk`, `UserFiles` |
| HTTP server, event hub | `remote/server.py`, `remote/events.py` | connection, render and stream slots, deadlines, subscriber queues | request thread, SSE, reaper, tick loop, start, stop, `publish` | control plane, GUI | `RemoteServer` |
| Remote gallery, compose, page | `remote/service.py`, `remote/compose.py`, `remote/page.py` | live preview and its cache; the page's lease, stream and timers | preview, compose, heartbeat, take and release, transmit flows | server | `RemoteServer`, `RemotePage` |
| Application | `app.py`, `closeEvent`, `ui/offline_workers.py`, `radio/rigctld_launcher.py`, Settings dialog | threads, processes, boxes, detached threads | quit, signals, abort stages, drain, hard exit; start and stop of rigctld | everything above | `Shutdown`, `Daemon` |
| SSTV encoder | `core/encoder.py` over PySSTV, `core/modes.py` | mode, line, part of the line, time sent | `encode`, the tones of each family | TX worker; its table is the decoders' | `Modes`, `Encoder` |
| Banner, CW, drawing, panels, CLI, tables | the rest | widgets; none | - | - | not modelled |

### What makes each hard, and what makes it correct

* **Control plane.** A method is atomic under one lock, but its decision is carried
  out later by whichever thread drains the callback queue, and a callback may
  block for seconds. Only the lease holder keys; a key never runs after the unkey
  that supersedes it; no unkey is lost; a silent holder is unkeyed; nobody keys
  again before the cooldown.
* **Transmit worker.** Stop may come before a slot starts, while it is encoded,
  keyed, played, unkeyed or reported; a watchdog cannot be cancelled for certain; a
  rig may be replaced in the middle and its replies be lost after they took
  effect. A Stop stops all it was pressed for and nothing later; a carrier is always
  somebody's; a stopped or cut transmission is never logged as sent.
* **Glue.** The plane's key goes through a queued signal, its unkey does not. A
  remote transmission runs only under the plane, never behind or against the local
  operator's, and whatever ends it releases the plane and the controls.
* **Rig session.** Attempts outlive their time-out; adoption and teardown are put
  off while a transmission unwinds. An open rig has somebody who will use or close
  it, nobody closes it under a transmission, no poll starts during one.
* **Rig backends.** A reply may come after its command timed out, the radio
  speaks unasked, reader threads race with close and reopen. A reply is never
  taken for another's, an unkey reported done is done, a loss is told exactly when
  it happened, the receive audio survives transmissions and reconnects.
* **Receive pipeline and decoder.** Reset, start, device loss, auto-resume and
  gate reach two worker threads by queued signals and timers; the decoder prunes
  and re-feeds absolute positions under a grid anchored on missed and false syncs.
  One session at a time at its own rate, never the station's own
  transmission; rows on their lines, every heard image once and whole.
* **Audio output.** PortAudio is reset and renumbered by the receiver while the
  transmitter resolves and opens its device. No handle is used after it is freed,
  the audio goes to the configured device, every playback ends.
* **Logbook and capture.** A message box in the middle of a completion slot lets
  further completions run; three windows write from copies. No contact of the
  operator's is lost, a row has its own files, an import is all or nothing.
* **Files.** A kill or power loss between any two steps of a write, an interrupted
  migration, two editors. What was saved is there, whole; deletions stick.
* **Server and page.** Every slot taken is given back whichever way a request ends;
  a page that lost the lease finds out.
* **Quitting.** Every wait must end although a thread or the radio never answers;
  PTT is dropped; nothing runs on unaccounted.

`PROJECT.json` lists every hazard at its line with the properties that watch it.

## 2. Modules

    PlanePromise  <---implements--- ControlPlane <-- ControlPlaneProofs
         ^
         | INSTANCE
      RemoteTx <-- RemoteProofs
         | INSTANCE
         v
     TxPromise    <---implements--- TxWorker     <-- TransmitProofs

    RigSession <-- RigSessionProofs
    SyncGrid <-- LineDecoder <-- ImageDecoder <-- RxDecoding
    RxDecoding <-- MCRxDecoding, RxDecodingProofs
    Modes <-- Encoder <-- MCRxDecoding
    RigWire, FlexLink, TciLink, BandTune <-- RigLinks;  RigLinks, RxCapture <-- RadioProofs
    AudioHost <-- AudioOut <-- MCAudioOut, TransmitProofs
    Daemon <-- Shutdown <-- MCShutdown, ShutdownProofs
    Disk <-- UserFiles <-- MCUserFiles          Logbook <-- QsoCapture <-- MCQsoCapture
    UserFiles, QsoCapture <-- LogbookProofs
    RemoteServer <-- RemotePage <-- MCRemote, RemoteProofs

(`A <-- B`: B EXTENDS A. `TransmitProofs`, `RadioProofs`, `LogbookProofs` and `RemoteProofs`
are about two components each.) The two
transmit components are checked and proved alone, against everything their
environment may do. `RemoteTx` composes not the components but the promises they
were shown to keep, which is what keeps the composition small. The MC modules give constants their values.

### ControlPlane

A method body is one action because it holds `_lock` throughout. The dispatch is
cut as `_drain` is: wait for `_dispatch_lock` (`AcquireDispatch`), take one
callback (`PopCallback`), run it (until `CallbackReturns`), see the queue empty
(`SeeEmpty`), release the lock (`LeaveDrain`). A method that ends in `_drain`
puts its thread at the lock; the thread can do nothing else before it has
drained. The callers are the request threads (`Handlers`), the tick thread and
the GUI.

*Time.* The code compares `time.monotonic()` with recorded instants. The model
keeps the age of each instant and lets `Advance` increase all of them; an age
stops one above the limit it is compared with, so time never ends. Comparisons
(`>` or `>=`) are the code's.

*Gates* are arguments with any answer. *Tokens*: request *n* mints token *n*,
which stands for its unguessable token; a client may try any token issued.
`enabled` in the model of `confirm` may differ from the answer in `request`.

*Abstracted:* image ids and modes (a request number), reasons and error codes,
`status()`.

### TxWorker

The worker's location `w` goes through the places where it looks at or changes
what another thread uses: begin a slot, take the second id and the rig, encode,
arm the watchdog, claim the rig (`_keyed_rig`), key, settle, play, unkey with
retries, conclude, end. `_tx_id_lock` is explicit (a watchdog holds it from its
stale check to the end of its stop); `_rig_lock` makes `emergency_unkey` one
step. `set_ptt` on a radio may fail with or without effect, `ManualRig` never
fails and does nothing. The test tone is the same path without encoding.
`request_stop` is two steps: flag and cover under the lock, then the abort of
the audio without it. Playback returns when it likes, raises, is aborted, or is
given up by the health monitor, which then raises the flag itself.

`WatchdogFires` has one guard that is about time: not between claiming the rig
and the end of the key. The budget is at least 30 s
(`_PLAYBACK_WATCHDOG_FLOOR_S`, `ui/workers.py:275`), a rig command answers or
times out within about 2 s. Without it a watchdog could unkey before the key.

`Conclude` joins the cancelling of the timer, the look at the flag and the signal
(`ui/workers.py:1145-1158`). No outcome is lost: until it fires, nobody else sees the
timer, so what happens between the cancel and the look can as well come before both
(a timer that fires instead goes on, late, in the model too); and the signal only
tells, so a stop between the look and the signal can as well come after both.

*Abstracted:* what is encoded and played, progress, CW ID, TCI pacing, messages
(the operator being told that a radio may still transmit is `warned`).

### RemoteTx

The GUI thread handles one event at a time; a handler is cut where it asks the
plane or waits for it. `_begin_tx_request` raises the count and emits the queued
signal in one step. `reclaim_local` decides at once (`Reclaim`) and returns when
its drain does (`ReclaimReturns`). Signals for the GUI are one FIFO queue: Qt
delivers queued signals to a thread in order of posting.

Two histories name the exceptions that the code knowingly has or that section 4
is about: `stray`, a transmission dispatched for a request that was revoked
before (the "microseconds" of the comment at `main_window.py:1591-1595`, and
`RevokedNotKeyed`), and `slipped`, a request granted in the middle of a local
Transmit.

### RxCapture

Three event loops are FIFO queues: `gui`, `audioQ`, `rxQ`; each action takes one
call from the head of one of them or is a click, a timer or a device event. What
is in flight between the threads is therefore in the state, and every hazard here
is about what is in flight. `armed` is the one-shot between the decoder's
`reset_done` and the queued `start` (`_begin_capture`,
`_start_capture_after_reset`); any `reset_done`, whoever asked for it, takes it.

*The swap* (`_swap_audio_worker`) is cut in two where it waits: `SwapBegin` queues
the old worker's `stop`, `SwapFinish` wires the new one, after the
acknowledgement or after 2 s without it. In between all other GUI actions run, as
they do in the nested loop. Workers are numbered in order of wiring; odd ones are
PortAudio's, even ones a TCI radio's. Signals emitted by a worker no longer wired
reach nobody (`Emit`).

*Sessions* number the opened streams; a chunk carries its session, `heard` is the
set of sessions whose samples the decoder holds, `sessRate` the rate each
delivers.

*The races.* The code leaves three windows open, and `races` remembers which was
entered: `start` (a start asked for while another one's stream is being opened or
open), `settings` (Settings saved while a stream is asked for or opened, which
applies one rate to the stream and another to the decoder; or saved while one
runs, when a later start brings the new rate to the decoder of a stream that is
still open), `swap` (a swap meeting an unanswered click or attempt: it overwrites
`armed` with what it read before the wait, or disconnects the worker whose answer
was awaited, or whose stream still ran after the 2 s). Each of three properties
excepts exactly one of them, so each shows that *nothing else* breaks it.

*Abstracted:* levels, waterfall, status texts; `flush` and the decode watchdog of
`RxWorker` (`RxDecoding`); a second swap begun inside the first one's two
seconds; closing the window (`Shutdown`).

### RigSession

The GUI thread is a FIFO queue of signals (`gui`) and a stack of handlers that
wait in a nested loop (`frames`: adopting or leaving a TCI radio swaps the audio
worker, see `RxCapture`). An attempt and the rig it opens share a number; 0 is
the `ManualRig`. Around the GUI run the connect threads (`Opens`, `Resolves`,
`ThreadExits`), the threads that close a late success (`LateClose`), the poll
thread (`PollBegins`, `PollEnds`) and the transmit worker as far as the rig goes
(`TxBegins` to `TxEnds`; its keying and unkeying is `TxWorker`).

| State | Code |
|---|---|
| `attempt`, `timer`, `cancel[a]` | `_connect_thread`, `_connect_timeout_timer`, the attempt's cancel event |
| `launching` | `_pending_rigctld_connect` |
| `adoptable`, `teardown` | `_deferred_connect_success`, `_deferred_rig_teardown` |
| `inFlight`, `wasActive`, `pollTimer` | `_tx_requests_in_flight`, `_rig_poll_was_active`, `_rig_poll_timer` |
| `claimed`, `suspended`, `errors` | `_poll_pending`, `_suspended`, `_consecutive_errors` |
| `rig` | `_rig`, and the reference of both workers (set in the same handler) |
| `freq` | `_last_rig_freq_hz` is not None |

`open[a]` is the backend itself and what `RigsOwned` is about. `reentered` is
history: Connect or Cancel was clicked, or a loss handled, inside a nested wait.
The code guards none of these (Cancel stays clickable while a TCI success waits
for the audio swap, and `set_connected(True)` afterwards overrides it), so the
properties are stated up to that point and behaviours are not followed beyond it.

*Abstracted:* the rigctld process (`Daemon`); `tune` (`BandTune`); the
TCI connection the worker holds besides the rig; the panel's texts; the reopening
a failed unkey tries (`TxWorker`); `closeEvent` (`Shutdown`). A poll is two steps, not one per
reading: a reading that fails at the second of two calls fails the poll.
`transmission_started` is not kept in the queue but delivered at any time between
a transmission's beginning and the handling of its end.

### Disk, UserFiles

`Disk` is `fsutil.atomic_write_bytes` step by step over two layers, what a reader
sees and what is on the platter. A kill of the program loses what it had in
memory; a power loss also takes back renames whose directory was not synced:
none of them, all of them, or those of one file. `UserFiles` EXTENDS it with who
writes: loading once at start (missing, broken and unreadable files), the saves of
the dialogs, the gain with its debounced save, quitting, the template editors and
the gallery's commands, the migration of v0.2 overlays and the starter pack with
their markers. Files have numbers for contents, so that lost, old and foreign
contents are told apart. `proc` says how far the program is in its life, `op` what
the write in flight is for.

*Excused, by name in `excuses`:* a settings file that could not be read is replaced
by the next save; an editor's save replaces what another editor put in its file;
an overlay whose write failed is logged and passed over; an interrupted migration
promises nothing to overlays that share a stem (the second is taken for done:
`migration.py:259-277`) or that bear a starter's name.

*Abstracted:* the coercion of single settings, rendering, the inspector. The
starter files are written in one step although `manager.py:431` writes them in
place: a torn starter, which no later launch repairs, is outside the model.

### Logbook, QsoCapture

`Logbook` is the store (each SQLite statement one step, an import one
transaction) and the windows that show copies of it: the table, the form, the
Gallery's grid joined with the rows. `QsoCapture` adds what makes rows by itself:
transmissions and receptions complete, are saved as files or not, drafted in a
dialog, logged silently or left. `calls` is the stack of slots suspended in a
modal message box, whose event loop delivers the next completion (`wire`); the
nested order is the code's order. `clobbered` names the completions that met that
(see `ContactsKeptAlways` below), `dangling` the links left by three real races:
the Gallery deletes an image its grid shows as unlogged; the store fails after the
file is gone; a form opened on a table read before the deletion writes the link
back. An export names a blank mode SSTV, so a row without one returns from a
re-import as a second contact (`adif.py:202-230`); `ImportsExactly` excepts it.

*Abstracted:* field texts, frequencies, filters, malformed ADIF, the UDP broadcast,
the manual Save As, the audio save's own message box.

### RemoteServer, RemotePage

One thread per connection, from the accepted socket through headers, body, route,
answer and end; every resource it takes is a counter or a set (`slots`,
`renders`, `perPage`, `subs`, `deadlines`), and any step may meet a broken
connection or the reaper. `publish` is cut into its two queue calls per viewer,
by request threads and by the GUI. The plane is reduced to its lease and state.
`RemotePage` adds the script in the browser: what it believes (`hold`, `state`,
`held`), its timers and the one flow, heartbeat, preview and stream it may have in
flight; and stopping the server, in two steps, and starting it again.

*Abstracted:* tokens, their back-off, host and origin checks, plain GET routes, the
gallery's registry of ids, the compositor. Time is left open: the reaper, the
tick and the expiry of a token may come whenever the code allows them.

### RigWire, FlexLink, TciLink, BandTune, RigLinks

`RigWire` is one transaction at a time under the backend's lock against a rig that
answers late, refuses, is silent, or talks unasked; the buffer outlives the call.
It is instantiated by `kind` for the control line, CI-V, Kenwood/Elecraft, Yaesu
and rigctld, which differ in what they discard, match and close. Each reply carries
as a ghost the number of the command it answers. `FlexLink` has the reader thread,
the pending commands and the parts of open and close that hold the lock; `TciLink`
the session, the shared subscription flag and the transmission that brackets the
stream. `BandTune` is a pick from the band menu: queued for the poll thread,
frequency, mode by the settings' policy, verification. `RigLinks` chooses one, as
the settings do.

*Excused:* `adrift`: a runaway reply met on the retry of a rigctld command is not
caught by the handler that closes the socket (`rigctld.py:243-255`); `overdue`: a
CI-V acknowledgement that comes late cannot be told from the next one's, and the set
that takes it is reported as done (`serial_rig.py:463-464`), here told "?"; `crossed`:
open and close from two threads at once; `robbed`: the receive stream changes
hands under a transmission (a capture started during a bracketed transmission is
silenced by its end; a late resubscription; every unkey attempt failed); `old`: the
last pushed frequency is the one a tune asks for.

*Abstracted:* frames, BCD, numbers; Yaesu's cached width of a frequency; a rig that
is exchanged for the ManualRig while a tune waits.

### SyncGrid, LineDecoder, ImageDecoder, RxDecoding

The decoder as functions on integer positions: `SyncGrid` the anchor and the walk
from candidates to lines, `LineDecoder` search, rows, pruning and the stall cap,
`ImageDecoder` hunting, completion, the caps, the snapshot and the tail that is fed
again, `RxDecoding` the receive worker around it or another caller without a
watchdog. Demodulation is outside: a recording is its headers, the candidates a
search would find, and which of them are wrong. A painted row is where it was cut
and whether its audio was there. One unit of audio is one of wall-clock time.

*Excused:* a piece larger than the cap fed during a decode (`flooded`); an unknown
header in a piece, behind which only the next feed looks; more than one false
candidate.

*Abstracted:* filters, pixels, slant (taken at its nominal slope and corrected).

### Modes, Encoder

`Modes` is the table of the 22 modes, in whole numbers of a unit of each family
(microseconds; half ones for Wraase; the mode's own for Pasokon), and where the
decoders cut a line. `Encoder` sends an image part by part: syncs, gaps and scans,
with their times from the encoder's own classes and, where those are PySSTV's, from
the library (marked external). What a scan carries is the colour and the image rows
that its pixels are made of. It has no constant and few states for each mode, so the
run checks all of it: every line of every mode.

*Abstracted:* pixels, tones, samples; the PySSTV header; the banner and the CW
identification, which are added to image and sound outside `encode`.

### AudioHost, AudioOut

`AudioHost` is what receiver and transmitter share: PortAudio's list (made when it
is initialised) and the devices there are now, the reset by the receiver, the gate
(`lock`, `active`) that keeps it from a transmission, the Settings save and the
resolution of the output device, cut where it holds no lock. `AudioOut` is one
`play_blocking`: enter, snapshot, open, publish, route, poll, drain, clear, close,
leave; the callback with its bounded queue; `stop()` by other threads.

*Excused:* `raced`, a reset or a save between the look-up of a device and the
opening of the stream; `blind`, a snapshot of PipeWire's streams that failed or was
overtaken; `stray`, a late `stop()` that meets the next transmission.
No time: a device that takes nothing is frozen for long enough when looked at. One
that freezes on its last buffers is left to the transmit worker's watchdog.

*Abstracted:* gain, clipping, the `sd.play` path the worker never takes, the cached
device list of half a second.

### Daemon, Shutdown

`Daemon` is the rigctld processes and the two fields that own them. `Shutdown` is
`closeEvent` as a program counter (`gui`): early unkey, abort of the connect and of
the offline jobs, the drain, the stop of the transmission, of the workers, the
store, the rig. The drain is an event loop: the window is still there, and takes
clicks, timers and queued signals. A wait runs out only when what it waits for
cannot come (a stuck thread, a hanging radio); the half second for the transmission
may always run out. `late` marks jobs begun in the drain, `cut` a drain ended by a
signal (Qt's `exit` ends every loop).

*Abstracted:* the retries of an unkey and the cancelling of queued slots
(`TxWorker`), the details of an attempt (`RigSession`).

## 3. Runs

| Run | Question | Bounds | States |
|---|---|---|---|
| `control_plane` | Are the plane's authority, order and liveness right in every interleaving? | 2 clients, 2 request threads, tick, GUI; 2 requests; limits 1, 2, 2, 3 | 131 000 |
| `tx_worker` | Is a carrier always accounted for, a Stop exact, the worker live? | 1 radio and the ManualRig; 2 transmissions; 2 unkey attempts; 2 stopping threads | 487 000 |
| `remote_tx` | Do the two, composed by the GUI, keep remote and local apart? | 2 remote requests, 2 local transmissions | 229 000 |
| `rx_capture` | Do start, stop, loss, resume, swap and gate keep the decoder's input right? | 3 sessions, 2 swaps, 4 outside events, rates 44/48 and TCI's | 2 210 000 |
| `rig_session` | Has every rig one owner, is the radio left alone during a transmission, does every attempt end? | 2 attempts, 2 transmissions, 2 failures | 877 000 |
| `user_files` | Does what was saved survive kills and power losses? | 4 installations, 2 starters, 3 overlays, 2 edits (1 with overlays), 2 editors, 2 crashes | 1 170 000 |
| `qso_capture` | Are contacts, files and edits kept? | 2 images, 3 rows, 5 units of work (a completion takes 2), strip of 1, 2 foreign files | 2 410 000 |
| `remote_server` | Is everything a request took given back, and does a page notice? | 2 pages, 2 connections, 1 stream, 1 render, backlog 1, 2 frames, 3 units of work | 1 600 000 |
| `rig_links` | Is what a backend tells true? | 2 calls, 3 connections, 2 upsets; 2 Flex callers, 2 links, 4 commands; 3 TCI sessions, 2 starts, 2 transmissions; 2 tunes | 1 670 000 |
| `rx_decoding` | Do the rows lie on their lines, is every image delivered? Is every mode read where it was sent? | 3 lines of 8, recordings of 1 or 2 images with up to 2 missed syncs, six families, chunks of 2 or 3, pieces of 4 to 120; 22 modes, every line | 239 000 |
| `audio_out` | Are handles valid, does audio reach its device and end? | 2 device lists, 1 sink, 1 reset, 2 disturbances, 2 transmissions of 2 blocks, queue of 1 | 658 000 |
| `shutdown` | Does quitting end, with PTT off and nothing left? | 2 connects, 2 rigctld, 2 operator acts, 1 image, 1 fault | 499 000 |

All twelve pass. Safety runs (`Spec`, `FilesSpec`): `rx_capture`, `user_files`, `qso_capture`,
`remote_server`, `rig_links`, `rx_decoding`; the other six check liveness too.

*Why the bounds are enough.* Two requests give a transmission, its supersession
and the next one: every hazard listed is about one request meeting its successor.
Two request threads and the tick thread give three competing drainers besides
the GUI. The limits are the smallest with the code's order
(heartbeat < lease, cooldown beyond the heartbeat, confirm window longest of the
awaiting ones) that let each expire before and after the other. In `TxWorker`,
two transmissions give a late watchdog of the first during the second and a stop
of a queued one; two attempts give a failed retry and a last one; the rig may
change at any time between the radio and the ManualRig. In `RxCapture`
four outside events allow a start, a loss, and two that race the resumption; three
sessions give a stream, its successor and a late one. In `RigSession` two attempts
give one that is late and the one it meets, two transmissions one queued behind
another; a threshold of 2 (3 in the code) is the least at which one failure of a
stale poll is not yet a loss, and at most one poll is ever stale. In `UserFiles` two
crashes can fall on every step of every write, and two edits give the overwritten
and the overwriting. Of three overlays two share a stem, so that one is suffixed, and
the third has its own: `LegacyMigrated` excuses the first two once a migration was
interrupted, never the third, and its mutant, which marks the migration as done before
it is, needs a crash to show. `Spent` trades changes for crashes where there are
overlays: two crashes without a change, or one change, with a crash where the user's
own file has the name of an overlay. In
`QsoCapture` two images are the one in a message box and the one that meets it. In
`RemoteServer` every cap is at its limit with the first client, so the second is
refused. In `RigLinks` a late reply has one command to be late for and one to be
taken by; the link comes back once, TCI's twice. In `RxDecoding`, which the encoder
precedes beside one of the recordings (they share no state), three lines give a
first, a middle and a last one to miss, and a piece may hold nothing, a line, an
image or everything. In `AudioOut` the two lists number the same device
differently, and a queue of one overflows. In `Shutdown` one thing is stuck at a
time: the waits are in sequence, and each is passed with and without it.

### Properties

A property that joins several is named after what they say together; the parts are
definitions beside it.

`ControlPlane`: `LeaseHonoured` (`LeaseBindsTransmission`: only the holder's request
is pending or on the air; `CooldownHeld`), `CallbacksKept` (`DispatchOrder`, one by
one and in order of decision; `NoOrphanKey`, the last callback the radio sees is
never the key of a transmission given up; `NoStrandedCallback`), `PromiseKept`
(refinement of `PlanePromise`), and under fairness `RemoteCarrierEnds`
(`DeadMansSwitch`, `EveryUnkeyRuns`).

`TxWorker`: `StopHonoured` (`StopFlagExact`, no stop lost, none left over;
`CancelledNeverRuns`; `CompleteWasPlayed`, a cut transmission is not reported
complete), `CarrierAccounted` (what is on the air is what `emergency_unkey` would
reach, or the operator was told), `NoCompletionAfterStop`, `PromiseKept`
(refinement of `TxPromise`), and under fairness `TransmissionsEnd` (`CarrierDrops`
even if playback never returns, `WorkerComesBack` if the device honours an abort).

`RemoteTx`: `Supervised`, `NeverBehindLocal`, `LocalUnharmed`, and under fairness
`RequestsEnd` (`PlaneReleased`, `ControlsUnlock`).

`RxCapture`: `HearsTheStream` (`DecodesAtStreamRate`; `OneSessionAtATime`;
`GateHolds`, no lift timer of an earlier transmission opens the gate of a later
one), `NothingForgotten`. Each part but for its one named race.

`RigSession`: `RigsKept` (`RigsOwned`, open exactly while somebody answers for it;
`WatchedIffConnected`; `OwnLossOnly`), `QuietDuringTx`, and under fairness
`ConnectResolves`, though `open()` never returns.

`UserFiles`: `OnDisk` (`SavedStays`, `SettingsReachDisk`), `LaunchesKeepTemplates`
(`LegacyMigrated`, `DeletedStaysDeleted`).

`QsoCapture`: `CompletionsFiled` (`ContactsKept`, `OwnFiles`), `RowsStay`
(`EditsStay`, `LinksLive`), `ImportsExactly`.

`RemoteServer` and `RemotePage`: `PlacesGivenBack` (`SlotsReturned`,
`BoundedReading`), `PreviewCurrent`, `LostLeaseNoticed`.

`RigLinks`: `ToldTrue` (`UnkeyToldIsUnkeyed`, `AnswersOwnCommand`, `TuneToldTrue`),
`LossHandled` (`NobodyLeftWaiting`, `LossToldExactly`), `FollowsSession`
(`FreshAfterReconnect`, `StreamFollowsListener`).

`RxDecoding`: `RowsOnTheirLines`, `ImagesDelivered` (`HeardIsComplete`,
`SnapshotIsImage`, `WorkerAgrees`). `Encoder`: `HeardAsSent` (`SyncsOnGrid`,
`ScansAreRead`, `LengthAsListed`, `KnownByItsHeader`).

`AudioOut`: `HandlesValid`, `PlayedIsReported`, `EachOnItsDevice` (`RightDevice`,
`OthersUntouched`), and under fairness `PlaybackEnds`.

`Shutdown`: `TornDown` (`ThreadsReleased`, `CaptureStopped`, `LogbookStaysClosed`,
`NoOrphanDaemon`), `PttDropped`, `RigNotPulled`, and under fairness `ShutdownEnds`.

The type invariants (`TypeOK` of `ControlPlane`, `TxWorker`, `RigSession`) are
proved and in no cfg. Each property is accompanied, in `PROJECT.json`, by a mutated
definition (a plausible bug, marked *fault* in the modules) under which the same
run refutes it.

`CompleteWasPlayed` excludes a transmission dispatched between the two halves of
the plane's `request_stop` (`amidStop`): its audio could be aborted by a stop that
does not cover it. In the program the GUI cannot dispatch there, since its
`reclaim_local` waits for the dispatch lock under which that callback runs
(`LocalUnharmed` of `RemoteTx`, slipped requests apart).

### Fairness

* `ControlPlane.FairSpec`: the clock runs, the tick thread ticks
  (`_tick_loop` catches every exception), callbacks return, a thread inside
  `_drain` runs on (weak), and one waiting for `_dispatch_lock` is not overtaken
  for ever (strong: the lock is free again and again, not continuously; Python's
  lock is not fair in theory, but the drainers in front of it do I/O). Nothing is
  assumed of clients. `WedgedSpec` drops "callbacks return" for an unkey off the
  GUI thread.
* `TxWorker.FairSpec`: worker, timers and stopping threads run. A rig call
  returns (each backend has timeouts). *Playback is promised nothing*;
  `WorkerComesBack` alone adds `PlaybackStops`, a device that honours the flag and
  `abort()`.
* `RemoteTx.FairSpec`: callbacks, worker and GUI handlers run (weak); the event
  loop delivers a queued signal even if the operator keeps clicking (strong:
  posted events are handled in turn). No client or operator has to do anything,
  and the dead-man's-switch need not fire.
* `RigSession.FairSpec`: the GUI handles its queue, the nested waits end, the
  connect timer and the 500 ms of rigctld's launch fire, the transmit worker comes
  back (`WorkerComesBack`). `open()`, `ping()`, polls and clicks are promised
  nothing.
* `AudioOut.OutSpec`: resolution, the steps of `play_blocking`, the callback, the end
  of the stream, a begun reset and a begun `stop()` go on (weak). The callback
  and the end of the stream have the device not frozen as a guard, so a device is
  promised nothing.
* `Shutdown.Spec`: the stages, the worker, an unkey thread and the capture's
  `stop()` go on (weak), and the operator answers a message box or an open
  Settings dialog. Stuck threads and a hanging radio do not.
* `RxCapture.FairSpec` serves only the disagreement below: the three event loops
  run, the nested wait ends (a 2 s timer), timers fire.

## 4. What the code does not keep

While the models were written the following statements of the repository turned
out not to hold. Each is a definition of the project that no run lists; put into a
cfg with the constants of the component's run (other constants named) TLC refutes
it.

| Definition | What the repository says | What happens |
|---|---|---|
| `ControlPlane!ReclaimNotBlocked` (`WedgedSpec`, one handler) | `control.py:97-104`, `CHANGELOG.md:630-636`: dispatching outside the lock keeps `reclaim_local` from hanging behind a wedged unkey | `reclaim_local` and `tick` still wait for `_dispatch_lock`; `status`, `heartbeat` and `request` were freed |
| `RemoteTx!RevokedNotKeyed` (`MaxLocal = 1`) | `main_window.py:1550-1552`: a request aborted between confirm and now must not key | the handler compares the plane's state, not the request: request 2 makes it transmitting again. The cooldown makes it need a GUI thread busy for 10 s |
| `RemoteTx!LocalEndKeepsPlane` (`MaxLocal = 1`) | `main_window.py:1612-1619`: a local end no longer resets the plane | one flag tells the two kinds apart; a request granted between the reclaim and the raised count makes it stand for the wrong one |
| `RxCapture!StallStopsCapture` (`FairSpec`; 2 sessions, 1 swap, 3 events, 1 queued) | `tci_input_stream.py:244-246`: a stalled stream is reported so that the capture can be stopped | unlike PortAudio's, this watchdog queues no `stop()`; auto-resume waits for the stop |
| `RigSession!NoRigNoFrequency` (`Spec`, `MaxTx = 1`) | `main_window.py:4364`, `4401`: no rig, no trustworthy frequency | a poll result queued before a disconnect is handled after it |
| `UserFiles!CurationRespected` (no crash needed) | `manager.py:365`, `382-384`: who installed before the marker is back-filled | `migration.py:232-234` returns before the back-fill; deleted starters come back |
| `QsoCapture!ContactsKeptAlways` | `main_window.py:1852-1854`: nothing of your QSO is lost | the stash is read again after a message box beneath which the next transmission replaced it (2859) |
| `RemoteServer!PublishNeverRaises` | `events.py:62-63`: never blocks and never raises | between the two calls of one publisher another refills the queue; `queue.Full` leaves `publish` |
| `RemotePage!ViewersConverge` | `page.py:768`: the page shows what the server released | a tick's lapse, `reclaim_local`, the end of a transmission and the settings toggle publish nothing: other viewers keep the old state until they reload |
| `RemotePage!NeverUnwatched` | `main_window.py:1468-1471`: nothing outlives its watchdog across a stop | a page takes the lease and transmits between the reclaim and the end of the tick thread |
| `BandTune!NotTunedOnAir` | `radio_panel.py:267`: the band plan is enabled only when idle | a tune queued behind a slow poll, or picked from a menu already open, runs during a transmission |
| `RxDecoding!StallKeepsImage` | `incremental_decoder.py:492-512`: bounded memory, no corruption | without a watchdog, an image whose last sync was missed takes its last row from the next image and swallows it |
| `RxDecoding!NeededAudioKept` | `incremental_decoder.py:524-530`: audio before that point can never be needed again | a missed last sync and a false candidate in mid-line prune the line's beginning |
| `RxDecoding!BackToBackDecode` | `Decoder`: back-to-back images in one buffer all decode | a piece larger than the cap marks the buffer as trimmed, and the tail is not fed again |
| `AudioOut!AlwaysRightDevice` | `workers.py:602-607`: a replug cannot send the audio to whatever inherited the index | a reset between resolution and opening does |
| `Shutdown!RigNeverPulled` (`MaxWork = 3`) | `main_window.py:4375-4380`: killing rigctld destroys the unkey path, defer | the Settings dialog's OK kills it while its test tone, or a remote picture, is on the air (2151-2154) |
| `Shutdown!ThreadsAlwaysReleased` | comment on `_abort_connect` (OP2-02) | a job begun in the drain runs behind the stages that stop it, and Qt aborts the process |

Seen on the way, outside what the definitions state:

* `modes.py:499-506`: SC2-120 was corrected to a porch before every channel, but both
  decoders (`decoder.py:407`, `incremental_decoder.py:705`) still cut a line as if
  there were one before red only: each channel begins one porch (0.5 ms) early and is
  read a porch too long (`Early` in `Encoder`, which `ScansAreRead` allows for).
* `server.py:1006`: the headers of a stream are written before its `try`; a client
  that breaks off there leaves a subscription until the program ends.
  `_publish_tx_state` (503) is never called.
* `publish` by two threads may reverse their events, and the one that takes the
  oldest out may lose the newest; `EventSource` does not reconnect after 429 or 503.
* `design/remote/architecture.md:169-170` lets a dropped stream end the lease; the
  code does not.
* `rigctld.py:224-236` says every such failure closes the socket; one met on the
  retry does not (`adrift`). `serial_rig.py:448-466` speaks of late OK only; a late
  NG is taken as well.
* A Flex command that enters between the loss flag and the sweep waits its whole 5 s.
* In batch decoding a line counts as soon as its start is in the buffer, so an image
  can be complete before its last pixels; row 0 may move by a quarter line when
  another candidate becomes the anchor (`decoder.py:655-665` says identical).
* Stop sets the cancel event before the flush that should keep the tail
  (`main_window.py:2973`), so that flush decodes nothing inside an image.
* `app.exit` ends every event loop: a signal in the drain may leave the capture's
  `stop()` unrun (`cut`). A message box in the drain holds an unattended quit.
* A rigctld started in its own session survives a crash of the program; the comment
  OP2-14 in `rigctld_launcher.py` says the opposite.
* Offline export is detached at the end; the comment in `offline_workers._encode`
  still speaks of `terminate()`.
* A blank mode is exported as SSTV and imported again as another contact
  (`coordinator.py:255-262` says a no-op).

## 5. Proofs

All theorems are checked by TLAPS for every value of the constants under the
named assumptions of the modules they are about (`ConstantsAssumption`,
`WorkerAssumption`, both `BoundsAssumption`, `ListsAssumption`, `AudioAssumption`,
`ProcsAssumption`, `ThreadsAssumption`, `WireAssumption`, `FlexAssumption`,
`TciAssumption`, `TuneAssumption`, `LogAssumption`, `ServerAssumption`,
`CaptureAssumption`, `FilesConstants`, `GridAssumption`, `DecoderAssumption`,
`MarginAssumption`, `RecordingsAssumption`). They say that names of threads and of places are disjoint; that limits and the bounds of
the model are naturals, positive where a limit of 0 would be no program (unkey
attempts, slots of the server, attempts, transmissions, processes), and that one
failed poll is not yet a loss; that images are numbered from 1, and that a record
of a foreign ADIF file bears no id of this log; that there is a bundled template and
every v0.2 overlay can have a file of its own; that the sample rate
configured at launch is among the rates considered; that the quarter of a
line is a whole number of samples, a header has a length, the slack at the end of an image is
no longer than the image, the margin of the filters is a number of samples, and a
recording has finitely many headers and sync candidates, each somewhere behind its
beginning. TLC evaluates each of them in
the runs.

* `ControlPlaneProofs`. `TypeCorrect`; then one inductive invariant per group.
  Authority and cooldown (`LeaseIsHonoured`) are inductive with two facts on their
  side: nothing is pending when idle, and the age of the last end is only reset
  when a transmission stops. The order of callbacks (`CallbacksAreKept`) needs
  more: that the queue is sorted by request and kind, that at most one thread
  drains, that what has run or is running is below what is queued, and that
  everything is at most the current request; that no key stays without its unkey
  follows with the last of the sequence *last run, running, queue*. That nothing is
  stranded is inductive because a thread leaves only after it saw the queue empty
  under the lock and every append puts its thread at the lock.
  And `KeepsPromise`: `Spec => PromiseKept`, step by step, with
  the callback being run mapped to the one thread that runs it (unique by the
  invariant above).
* `TransmitProofs`, the worker. The strengthening ties the worker's place to the lock
  (`_tx_id_lock` holders carry the current id), to `_keyed_rig` and `txRig`, to
  the armed watchdog, and says of each dispatched number whether it is covered.
  From it: `StopIsHonoured`, `NoForgottenCarrier` and `StoppedNeverCompletes` (an
  action property), with their parts.
  And `KeepsPromise`: `Spec => PromiseKept`.
* `TransmitProofs`, the audio output. `HandlesStayValid` from `GateInv` (who holds the gate, the count
  of users and the published stream belong together, so a re-initialisation, or an
  abort, finds no user); `AllPlayedIsReported` from `QueueInv` and `EndInv` (queued and
  played blocks add up, and a completion was signalled by the last of them);
  `AudioOnItsDevice` from `RouteInv` and `DeviceInv`, a chain from the lists read to the
  stream opened, with a device that comes back at another place in the list in the
  middle of it as the named exception (`raced`).
* `RemoteProofs`, remote and local transmit. The invariant has four parts, because no single one is
  inductive. *Counted*: every transmission that has not ended, or whose end the GUI
  has not handled, is in `inFlight`, by the numbers of the `finished` signals in
  the GUI's queue; so a transmission of the operator on its way makes `Busy` true
  and no grant slips behind it. *Pipeline* and *Granted*: the transmit callbacks of
  requests travel in order through the plane's queue, its running callback, the
  GUI's queue and its handler, and none is about a request not yet granted; so the
  handler's request is younger than every one dispatched. *Apart*: while a local
  transmission is on its way, or about to be dispatched behind its drain, what the
  plane has queued or on the air is a slipped request. *OneAtATime* and *Watched*:
  while the plane transmits, its own transmission is the only one counted, so the
  end it is told about is that of its own, and every open remote transmission is
  the plane's, covered by a stop, or has its unkey on the way. From them
  `RemoteKeepsOut`, `LocalStaysUnharmed` and `RemoteUnderThePlane`.
* `RigSessionProofs`. `TypeCorrect`; `QuietTransmissions` from the invariant that
  the poll thread is suspended exactly while a transmission is in flight and that
  the one poll slot is queued, running or free. Types alone do not give it: the
  count must be shown to reach zero in the step that lifts the suspension and in no
  other.
  `RigsStayKept` from `RigInv`, which holds up to the re-entrances named by
  `reentered`: who may hold each rig (`Owners`), that one attempt is under way at a
  time (`OneTry`), that the transmissions in flight are those queued, running and
  ended in the GUI's queue (`TxCount`), that a loss in that queue is of the rig there
  is (`Losses`) and that a poll of the rig before counts its failures from zero
  (`StalePoll`). The last two are why `OwnLossOnly` holds at a threshold of two or
  more and at no other.
* `ShutdownProofs`. Each stage of `closeEvent` establishes a fact about one group of
  threads or resources (`Released`, `Captured`, `LogbookStaysClosed`, `Unkeyed`), and
  the proof shows that nothing which still runs behind the stage undoes it.
  `NothingLeftBehind` also needs `Daemons` (a process is named by one of the two
  fields from the step that starts it); `CarrierDropped` needs `Carrier` (the PTT is
  on only while the worker knows the radio it keyed, or after a failure) and that the
  last unkey, when nobody waits for it any more, hangs in the radio;
  `NoneIsPulled` follows at every step that closes a backend or kills a rigctld.
* `RadioProofs`, the rig links. `BackendsTellTruth`, `FlexLossReachesAll` and `TciFollowsSession`,
  about whichever backend the settings chose; one invariant per backend, and the
  lemma that the others stand still. The serial and rigctld lines need `WireInv`: where a
  reply can be, and whose. For CI-V (`CivInv`) an acknowledgement on its way is the
  command's own or counted as overdue; for rigctld (`RigctldInv`) all that comes on
  the socket answers the command in progress, unless the stream is adrift. `FlexInv`
  follows each caller and the reader through open, close and loss: who holds the
  lock, which pending entries the sweep will still see. `TciInv` says who owns the
  subscription, `TuneInv` what a tune has set before it verifies.
* `RadioProofs`, receive capture. A queue is treated as any sequence that has grown by
  one element or lost its head (`Grown`, `Shrunk`), so that one lemma per predicate
  and direction serves every action. `HearInv` (`TheStreamIsHeard`) says of the
  decoder's queue what the decoder will be when it has worked through it: its last
  rate is the one the GUI believes (`RateBehind`), a chunk meets the rate of its
  session (`ChunksAtRate`), a reset lies between two sessions (`Separated`), the last
  gate call agrees with the raised gate; and that of *armed*, a start on its way and
  an open stream the wired worker has one at most. `CaptureInv` (`NoStartIsForgotten`)
  adds the order of the signals on their way to the GUI (`InOrder`: a stop not yet told
  follows each loss and start unless the stream runs, and no loss of an earlier
  stream hides a start), that an armed start has its reset on the way (`ResetDue`),
  and from these where each disabled button, running capture and waiting auto-resume
  has its answer (`AnswersDue`). `CaptureTypes` is the type invariant.
* `RemoteProofs`, the server and the page. `ServerGivesBack` and `ServerShowsCurrent` from `ServerInv`: each place
  in use is that of a thread which still has its release before it, whatever
  breaks, and a deadline runs exactly while its thread reads. `PageNoticesLoss`, about
  the server and all pages together, from `PageInv`, in which a request of the page's
  flow under way is its first step left; `PageStepsInOrder` states that by itself,
  and that there is one such request at a time.
* `RxDecodingProofs`, the line grid. Each candidate leaves the lines found so far as
  `PlaceIs` says: passed over, or so many lines added at the nominal period and the
  last where the candidate is. By induction along the candidates the grid is
  `GridIsRegular`, for any candidates whatever; and `GridIsExact`, for candidates near
  the lines of an image: jitter does not add up over missed lines, no line is
  skipped or doubled, and once the end of the image was heard the candidates of the
  next one change nothing.
* `RxDecodingProofs`, the rows. `RowsStayOnTheirLines`: `RowsOnTheirLines` for every
  recording that is `Steady`. In one, each candidate behind a header is within *j* of a
  line of its image (2*j* at most the tolerance and at most the filters' margin, *j* at
  most the length of a header) or behind that image, and then the image's last line was heard and so were two lines
  at most `MaxAnchorGap` apart; the audio of a line ends within its period; a header is
  that of the image beginning at it. Lines may be missed without end otherwise, and
  chunks, pieces, budgets, Clear, a rebuilt decoder and the watchdog are as in the
  model. `LinesRight` says of the line decoder that it is in order with its image: its
  lines are where they are sent, up to *j*, the audio trimmed is behind what it will
  read, and, where another image may follow, it has missed no candidate and given up no
  audio of its next line (`CanGoOn`). Each step of a feed keeps it, trimming and a line
  given up included; hence the rows an event tells are right (`Proper`), and those the
  worker holds and paints (`Placed`). `RowsInPlace` is `Following` (next item) with
  these. Of the 439 recordings of the run `rx_decoding` 170 are steady with *j* = 0.
* `RxDecodingProofs`, the audio kept. `SnapshotsAreImages`: the part `SnapshotIsImage` of
  `ImagesDelivered`, for recordings that are steady and `Separate` (every header is of a
  mode, an image is over before the next header, a line and the jitter fit in a period):
  146 of the run's. On the run TLC confirmed `Entire` and `Prompt` first. `Entire`: a
  decoder inside an image has its audio from the header on, or knows that it gave the
  beginning up (`trimmed`), in which case it keeps nothing. `Prompt`: one that was not
  cancelled lacks the last line of its image, and overlooked no header; this the worker
  needs because a feed has one snapshot for all its events. What is flushed at once is
  shorter than the body of an image less a line (`SmallFlushes`: two seconds and a block
  of 1024 samples in the code, the images last half a minute or more), so a prompt
  decoder ends at most one image in a flush (`Calm`) and the snapshot is that image's.
  The other caller keeps the image that ended last, and the snapshot is the last too
  (`Newest`), whatever the size of its pieces. `Audible` says all this of a state.
* `RxDecodingProofs`, the worker and its decoder. `WorkerFollowsDecoder`: the part
  `WorkerAgrees` of `ImagesDelivered`. Worker and decoder run one behind the other: a
  feed may lock a header, finish an image and lock the next before the worker hears of
  any of it. So the proof is about what the decoder tells. An event takes a listener
  from one understanding of the decoder to the next (`Comes`); every step of `Feed`,
  fold within fold, tells all it does (`Told`); and the worker, dispatching, is such a
  listener (`Hearing`). The inductive invariant is `Following`. That no image is
  delivered twice needs `floor`, which no later image begins before: a decoder starts
  over behind the header of the image it ends, also when the watchdog or Clear
  ends it. A fold is a chain of states with one step for each index, and induction
  over natural numbers is obtained from the library's least-element theorem
  (`Inductive`).
* `LogbookProofs`, the log of contacts. `WayInv` follows an image from its completion to the store: it is
  in the stash, in one slot or in one dialog, held once and no more when it is
  logged; at most one transmission's signals are under way, whose image is the stash
  or `clobbered`; a recording is taken by the image it came with. `LogInv` is about
  the store and the windows: copies of a row (in the table, the form, the grid) may
  be old, but all that name a completion's image name the one row made for it, and a
  copy agrees with its row on the completion it was made for; a file that a slot is
  about to link exists or is known to be gone; what was exported are
  rows with a call. From them `CompletionsAreFiled` and `RowsAreKept`; and
  `ImportsAreExact`, for which the contacts an import adds are put in one-to-one
  correspondence with the keys the log lacked, and an exported row is shown to come
  back under its own key.
* `LogbookProofs`, the settings and templates. `FilesShape` is the type invariant with
  what goes together in it: which writes belong to which operation, that the GUI is
  idle while an installation runs, that the *i*-th overlay goes to a file with a
  suffix of *i* at most. `SavedFilesStay` rests on three invariants. `InFlight`: what
  a save is about to replace was agreed to be given up, and what it has written is
  there until it returns. `Content` (`FilesContent`): what is kept is on the disk in
  both layers, so that a power loss finds it, a broken settings file just moved aside
  excepted, which one journal entry has under one name or the other; and the program
  knows the settings file that it is about to replace. `SettingsHeld`: the settings
  file is the settings in memory, but for a save that is due, in flight or failed.
  `LaunchesLoseNothing` rests on two. `LegacyHeld`: either every overlay is done with,
  or the disk is still that of an unfinished migration, in both layers, with no
  template in it but the user's and the migration's, and then no launch takes the
  pack for installed; overlays are done one by one, the last perhaps being written.
  `DeletedHeld`: a file deleted from a marked pack is missing and the marker is on
  the platter too, so no installation begins but one that Restore asked for.

*Only model-checked:* the liveness properties (`RemoteCarrierEnds`,
`TransmissionsEnd`, `RequestsEnd`, `ConnectResolves`, `PlaybackEnds`,
`ShutdownEnds`): liveness under fairness is out of the prover's reach here. Of
`RxDecoding`, `RowsOnTheirLines` where a recording is not steady (a false candidate in
an image, or an image followed by another although its end was not heard): then what the
walk does depends on which false candidate is where, and the run shows it for those it
has; and `SnapshotIsImage` there or where images overlap. And the rest of
`ImagesDelivered`, `HeardIsComplete`: it holds of recordings, budgets and chunks in
proportion to each other, as the run has them, not of every value of the constants. `HeardAsSent` too:
`Encoder` has no constants, its run visits every state, and a proof would say no more.

## 6. Not modelled

* The encoder's waveform, banner, CW and the drawing of templates: signal synthesis
  and layout, without state (the encoder's timing is `Encoder`).
* Demodulation, sync and header recognition, slope fitting, pixels: floating-point
  signal processing; the decoder's positions are modelled, its numbers are not.
* Frame formats of the rig protocols and Yaesu's cached frequency width: parsing.
* Token checks, host and origin checks, plain GET routes, thumbnails, the id
  registry of the remote gallery: one request, one answer.
* Widgets, panels and dialogs where they are views over the components above; the
  command line (one file in, one file out); `bands.py`, `rig_models.py` and
  `security.py` (tables and pure checks).

## 7. State of the plan

The components above were modelled in the order of what a mistake costs: the
transmit path, the radio and receive sessions, then files, log, server, backends,
decoder, audio output and quitting. What is left is in section 6, and the proofs
named as missing in section 5.
