----------------------------- MODULE RxDecoding -----------------------------
(***************************************************************************)
(* RxWorker of ui/workers.py around the streaming decoder: the scratch     *)
(* buffer and its flushes, the watchdog of a decode that stalls, Clear and *)
(* Stop, the re-decode of a finished image, a changed setting; and the     *)
(* other caller, a program that hands the decoder audio in pieces of any   *)
(* size and has no watchdog.                                               *)
(*                                                                         *)
(* One unit of the recording is one of wall-clock time.  The audio is      *)
(* chosen in Init, a record: headers, pulses (the sync candidates a search *)
(* would find), its end, the images truly in it ([at, family, missed]) and *)
(* the candidates among the pulses that are no sync; and how often Clear,  *)
(* Stop, Settings or a stream gone quiet may disturb its reception.        *)
(***************************************************************************)
EXTENDS ImageDecoder

CONSTANTS
    Recordings,     \* the recordings to choose from
    Chunks,         \* sizes of the sound card's chunks
    Pieces,         \* sizes of another caller's pieces
    FlushIdle, FlushDecoding, FlushBatch,
    LineBudget, TotalBudget

ASSUME RecordingsAssumption ==
    /\ Chunks \cup Pieces \subseteq Nat
    /\ \A r \in Recordings :
          /\ IsFiniteSet(r.headers) /\ IsFiniteSet(r.pulses)
          /\ r.end \in Nat /\ r.pulses \subseteq Nat /\ \A h \in r.headers : h.at \in Nat

VARIABLES
    audio, live,    \* the recording; RxWorker, or another caller
    incremental,    \* incremental_decode
    grain,          \* samples handed over at a time
    pos,            \* audio delivered so far
    scratch,        \* where the scratch buffer begins; it ends at pos
    decoder,
    decoding,       \* _decoding
    mode,           \* _decoding_mode
    age, quiet,     \* time since the header, since the last progress
    lines, partial, \* _last_progress_lines, and their rows
    cancel,         \* the cancel event
    asked,          \* a queued reset, 0 or 1
    meddling,
    saved,          \* history: image_complete signals
    recordings,     \* history: rx_audio_ready signals
    flooded         \* history: one piece of audio overran the cap of a decode

workerVars == <<scratch, decoder, decoding, mode, age, quiet, lines, partial>>
vars == <<audio, live, incremental, grain, pos, workerVars, cancel, asked, meddling, saved,
          recordings, flooded>>

Init ==
    /\ audio \in Recordings /\ live \in BOOLEAN /\ incremental \in BOOLEAN
    /\ grain \in IF live THEN Chunks ELSE Pieces
    /\ pos = 0 /\ scratch = 0 /\ decoder = NewDecoder(0)
    /\ decoding = FALSE /\ mode = Nothing /\ age = 0 /\ quiet = 0 /\ lines = 0 /\ partial = <<>>
    /\ cancel = FALSE /\ asked = 0 /\ meddling = 0 /\ saved = <<>> /\ recordings = <<>> /\ flooded = FALSE

----------------------------------------------------------------------------
(* The worker's own state as a record, so that a flush is a function.      *)

Worker == [scratch |-> scratch, decoder |-> decoder, decoding |-> decoding, mode |-> mode,
           age |-> age, quiet |-> quiet, lines |-> lines, partial |-> partial,
           saved |-> saved, recordings |-> recordings]
Become(w) ==
    /\ scratch' = w.scratch /\ decoder' = w.decoder /\ decoding' = w.decoding /\ mode' = w.mode
    /\ age' = w.age /\ quiet' = w.quiet /\ lines' = w.lines /\ partial' = w.partial
    /\ saved' = w.saved /\ recordings' = w.recordings

ResetWatchdog(w) ==
    [w EXCEPT !.mode = Nothing, !.age = 0, !.quiet = 0, !.lines = 0, !.partial = <<>>]

\* The image a user gets: from the second decode of the snapshot, when that
\* finds an image of the same mode.  (The final slant correction is taken to be
\* on; off, the image decoded row by row is the one that is kept.)
Final(event, snapshot) ==
    LET again == DecodeWav(audio, snapshot.lo, snapshot.hi)
    IN  IF snapshot.hi = snapshot.lo \/ event.header.family = "robot" \/ cancel
        THEN event.header
        ELSE IF again.family = event.header.family THEN again ELSE event.header

\* _dispatch, for one event of the decoder.
Dispatch(w, e) ==
    IF e.kind = "started"
    THEN [w EXCEPT !.decoding = TRUE, !.mode = e.header, !.age = 0, !.quiet = 0,
                   !.lines = 0, !.partial = <<>>]
    ELSE IF e.kind = "progress"
    THEN [w EXCEPT !.quiet = 0, !.lines = e.count, !.partial = e.rows]
    ELSE LET raw == w.decoder.snapshot
             kept == [w EXCEPT !.decoding = FALSE, !.decoder.snapshot = [lo |-> 0, hi |-> 0],
                               !.saved = Append(@, [header |-> e.header, rows |-> e.rows,
                                                    whole |-> TRUE,
                                                    final |-> Final(e, raw)]),
                               !.recordings = IF raw.hi = raw.lo THEN @
                                              ELSE Append(@, [header |-> e.header, lo |-> raw.lo,
                                                              hi |-> raw.hi])]
         IN  ResetWatchdog(kept)

\* _check_rx_watchdog: a decode without a new row for the line budget, or
\* older than the total budget, is given up, with the rows it has.
CheckWatchdog(w) ==
    IF w.decoding /\ (w.quiet > LineBudget \/ w.age > TotalBudget)
    THEN LET kept == IF w.lines = 0 THEN w
                     ELSE [w EXCEPT !.saved = Append(@, [header |-> w.mode, rows |-> w.partial,
                                                         whole |-> FALSE, final |-> w.mode])]
         IN  ResetWatchdog([kept EXCEPT !.decoder = ResetDecoder(@), !.decoding = FALSE])
    ELSE w

\* _flush: the scratch buffer goes to the decoder, its events to the GUI.
Flush(w, upto) ==
    LET fed == Feed(w.decoder, audio, upto, incremental, cancel)
        next == FoldLeft(Dispatch, [w EXCEPT !.decoder = [fed EXCEPT !.events = <<>>],
                                             !.scratch = upto], fed.events)
    IN  IF w.scratch = upto THEN w ELSE CheckWatchdog(next)

FlushSamples(w) ==
    IF ~incremental THEN FlushBatch ELSE IF w.decoding THEN FlushDecoding ELSE FlushIdle

Older(w, n) ==
    IF w.decoding THEN [w EXCEPT !.age = Min({@ + n, TotalBudget + 1}),
                                 !.quiet = Min({@ + n, LineBudget + 1})] ELSE w

----------------------------------------------------------------------------
(* RxWorker's slots.                                                       *)

\* feed_chunk.
Chunk ==
    /\ live /\ pos < audio.end
    /\ pos' = Min({pos + grain, audio.end})
    /\ LET w == Older(Worker, pos' - pos)
       IN  Become(IF pos' - w.scratch >= FlushSamples(w) THEN Flush(w, pos') ELSE w)
    /\ UNCHANGED <<audio, live, incremental, grain, cancel, asked, meddling, flooded>>

\* The stream is quiet for longer than the line budget; the tick of the
\* watchdog's own timer finds it out.
Tick ==
    /\ live /\ meddling < audio.upsets /\ meddling' = meddling + 1
    /\ Become(CheckWatchdog(Older(Worker, LineBudget + 1)))
    /\ UNCHANGED <<audio, live, incremental, grain, pos, cancel, asked, flooded>>

\* Clear and Start: the cancel event at once, reset through the queue.
RequestCancel ==
    /\ live /\ meddling < audio.upsets /\ meddling' = meddling + 1
    /\ asked = 0 /\ asked' = 1 /\ cancel' = TRUE
    /\ UNCHANGED <<audio, live, incremental, grain, pos, workerVars, saved, recordings, flooded>>

Reset ==
    /\ asked = 1 /\ asked' = 0 /\ cancel' = FALSE
    /\ Become(ResetWatchdog([Worker EXCEPT !.scratch = pos, !.decoding = FALSE,
                                           !.decoder = [ResetDecoder(decoder) EXCEPT !.lo = pos,
                                                                                     !.hi = pos]]))
    /\ UNCHANGED <<audio, live, incremental, grain, pos, meddling, flooded>>

\* The capture stopped: the rest of the scratch buffer is flushed.
Stopped ==
    /\ asked = 1 /\ scratch < pos
    /\ Become(Flush(Worker, pos))
    /\ UNCHANGED <<audio, live, incremental, grain, pos, cancel, asked, meddling, flooded>>

\* A setting that replaces the decoder.
Rebuild ==
    /\ live /\ meddling < audio.upsets /\ meddling' = meddling + 1
    /\ incremental' = ~incremental
    /\ Become(ResetWatchdog([Worker EXCEPT !.scratch = pos, !.decoding = FALSE,
                                           !.decoder = NewDecoder(pos)]))
    /\ UNCHANGED <<audio, live, grain, pos, cancel, asked, flooded>>

\* Another caller of Decoder.feed, which keeps the finished images.
Keep(images, e) ==
    IF e.kind # "complete" THEN images
    ELSE Append(images, [header |-> e.header, rows |-> e.rows, whole |-> TRUE, final |-> e.header])
Piece ==
    /\ ~live /\ pos < audio.end
    /\ pos' = Min({pos + grain, audio.end})
    /\ flooded' = (flooded \/ (decoder.state = "decoding" /\ pos' - decoder.lo > DecodeCap))
    /\ LET fed == Feed(decoder, audio, pos', incremental, FALSE)
       IN  /\ decoder' = [fed EXCEPT !.events = <<>>] /\ scratch' = pos'
           /\ saved' = FoldLeft(Keep, saved, fed.events)
           /\ recordings' = IF saved' = saved \/ fed.snapshot.hi = fed.snapshot.lo THEN recordings
                            ELSE Append(recordings, [header |-> Last(saved').header,
                                                     lo |-> fed.snapshot.lo,
                                                     hi |-> fed.snapshot.hi])
    /\ UNCHANGED <<audio, live, incremental, grain, decoding, mode, age, quiet, lines, partial,
                   cancel, asked, meddling>>

Next == Chunk \/ Tick \/ RequestCancel \/ Reset \/ Stopped \/ Rebuild \/ Piece
Spec == Init /\ [][Next]_vars

----------------------------------------------------------------------------
(* Properties.                                                             *)

TrueLine(i, n) == i.at + VisLength + Before(i.family) + (n - 1) * Period
Heard(i) == (1 .. Lines) \ i.missed
WellHeard(i) == Lines \in Heard(i) /\ Cardinality(Heard(i)) >= 2
RowsRight(header, rows) ==
    \A i \in audio.images :
        i.at = header.at /\ (IF live THEN Heard(i) # {} ELSE WellHeard(i)) =>
        \A n \in DOMAIN rows : Near(rows[n].at, TrueLine(i, n))

\* With at most one false candidate in the recording, every row of an image
\* is cut within a quarter line of where its line really is, whichever syncs
\* were missed and however the audio was cut into chunks (walk_sync_grid,
\* select_anchor, the search for syncs and the trimming of the buffer).  The
\* batch path paints the image anew each time: there a whole image counts.
\* Without the worker's watchdog the image must end by itself: see
\* StallKeepsImage.
RowsOnTheirLines ==
    Cardinality(audio.spurious) <= 1 =>
        /\ \A k \in DOMAIN saved : incremental \/ saved[k].whole =>
               RowsRight(saved[k].header, saved[k].rows)
        /\ decoder.state = "decoding" /\ incremental => RowsRight(decoder.header, decoder.lines.rows)

\* Of an undisturbed recording without false candidates, the images whose
\* last sync and one other were heard, and each one sent behind such an
\* image, are complete by the end: once each, and on the incremental path
\* with every line cut from audio that was all there (Decoder.feed,
\* _reset_and_refeed_tail, _prune, the watchdog's budgets).
AllComplete ==
    pos = audio.end /\ meddling = 0 /\ audio.spurious = {} =>
        \A i \in audio.images : (\A j \in audio.images : j.at <= i.at => WellHeard(j)) =>
            \E k \in DOMAIN saved :
                /\ saved[k].header.at = i.at /\ saved[k].whole
                /\ Len(saved[k].rows) = Lines
                /\ incremental => \A n \in 1 .. Lines : saved[k].rows[n].whole
\* Not counted: a piece that overran the cap, and images behind an unknown
\* header in one piece, which only the next feed would find.
HeardIsComplete ==
    ~flooded /\ (decoder.state = "idle" => FirstHeader(audio, decoder.lo, decoder.hi) = Nothing)
    => AllComplete

\* The same of any cut into pieces, as the decoder says: "back-to-back images
\* in one buffer all decode" (Decoder).
BackToBackDecode == AllComplete

\* The audio kept of a finished image, for the second decode and the saved
\* WAV, begins with this image's header and holds its last line; where the
\* beginning was trimmed nothing is kept (Decoder._retained_buffer_trimmed).
\* So the second decode never puts another image in its place.
SnapshotIsImage ==
    \A k \in DOMAIN recordings :
        /\ FirstHeader(audio, recordings[k].lo, recordings[k].hi) = recordings[k].header
        /\ incremental /\ meddling = 0 =>
             recordings[k].hi >= recordings[k].header.at + VisLength + (Lines - 1) * Period
        /\ \A j \in DOMAIN saved : saved[j].final = saved[j].header

\* The worker takes its decoder to be inside an image exactly when it is, and
\* of the same image: its flush cadence and its watchdog go by that
\* (RxWorker._decoding through completion, a watchdog trip, Clear, a rebuild).
\* An image reaches the gallery once, complete or as the watchdog's partial.
WorkerAgrees ==
    /\ \A j, k \in DOMAIN saved : saved[j].header.at = saved[k].header.at => j = k
    /\ live => /\ decoding <=> decoder.state = "decoding"
               /\ decoding => mode = decoder.header

\* What is heard is delivered, whole and once, and with its own audio.
ImagesDelivered == HeardIsComplete /\ SnapshotIsImage /\ WorkerAgrees

\* A decode without a watchdog that stalled never takes the lines of a later
\* image for its own: "rows already decoded stay in the image; [...] (bounded
\* memory, no corruption)" (_enforce_stall_cap).
StallKeepsImage ==
    audio.spurious = {} =>
        \A k \in DOMAIN saved : \A i \in audio.images :
            i.at = saved[k].header.at /\ Cardinality(Heard(i)) >= 2 =>
                \A n \in DOMAIN saved[k].rows : Near(saved[k].rows[n].at, TrueLine(i, n))

\* A decode that is under way still has the audio of its next line: "audio
\* before next_sync - g_lookback can never be needed again" (_prune).
NeededAudioKept ==
    decoder.state = "decoding" /\ incremental =>
        \A i \in audio.images :
            i.at = decoder.header.at /\ Len(decoder.lines.rows) < Lines =>
                decoder.lines.lo <= TrueLine(i, Len(decoder.lines.rows) + 1)
                                      - Before(i.family)
=============================================================================
