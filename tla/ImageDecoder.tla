---------------------------- MODULE ImageDecoder ----------------------------
(***************************************************************************)
(* The streaming decoder of core/decoder.py: hunting for a VIS header,     *)
(* following one image, starting over on the audio behind it.  A decoder   *)
(* is a record, Feed a function of it, of the recording and of the end of  *)
(* the audio handed over; the buffer is the recording from lo to hi.       *)
(* Filters and the recognition of a header are external: audio.headers are *)
(* the headers of a recording, [at, family], with the family "none" for no *)
(* mode, and one is found once the buffer holds it whole.                  *)
(***************************************************************************)
EXTENDS LineDecoder

CONSTANTS
    VisLength,     \* samples of a VIS header
    IdleWindow,    \* _IDLE_WINDOW_S
    Preamble,      \* _PREAMBLE_WINDOW_S
    Slack,         \* half a percent of the body and 100 ms
    DecodeCap      \* image and a half, and 10 s

ASSUME DecoderAssumption ==
    /\ VisLength \in Nat \ {0} /\ Slack \in 0 .. Lines * Period
    /\ {IdleWindow, Preamble, DecodeCap} \subseteq Nat

Nothing == [at |-> -1, family |-> "none"]

NewDecoder(start) ==
    [state |-> "idle", lo |-> start, hi |-> start, header |-> Nothing, visEnd |-> 0,
     lines |-> NewLines("none", 0, 0), shown |-> 0, trimmed |-> FALSE,
     snapshot |-> [lo |-> 0, hi |-> 0], events |-> <<>>]

\* Reset keeps the snapshot of the last image and, here, the events not yet
\* handed to the caller.
ResetDecoder(d) ==
    [NewDecoder(d.hi) EXCEPT !.snapshot = d.snapshot, !.events = d.events]

Event(kind, d, n) == [kind |-> kind, header |-> d.header, count |-> n, rows |-> d.lines.rows]
Emit(d, events) == [d EXCEPT !.events = @ \o events]

\* The headers wholly in the buffer; detect_vis returns the first.
HeadersIn(audio, lo, hi) == {h \in audio.headers : lo <= h.at /\ h.at + VisLength <= hi}
FirstHeader(audio, lo, hi) ==
    LET found == HeadersIn(audio, lo, hi)
    IN  IF found = {} THEN Nothing
        ELSE CHOOSE h \in found : \A other \in found : h.at <= other.at

\* fault: the cap forgets that the beginning of the image is gone
EnforceBufferCapUnmarked(d, incremental) ==
    IF d.state = "decoding" /\ incremental /\ d.hi - d.lo > DecodeCap
    THEN [d EXCEPT !.lo = d.hi - DecodeCap] ELSE d

EnforceBufferCap(d, incremental) ==
    IF d.state = "decoding" /\ incremental /\ d.hi - d.lo > DecodeCap
    THEN [d EXCEPT !.lo = d.hi - DecodeCap, !.trimmed = TRUE] ELSE d

\* Where the audio behind the image begins, or -1 when nothing is kept.
TailStart(d) ==
    LET end == d.visEnd + Lines * Period - Slack
    IN  IF ~d.trimmed /\ d.lo <= end /\ end < d.hi THEN end ELSE -1

\* The batch path decodes the whole buffer again: the lines whose start has
\* come, at the positions the walk gives them now.
TrimToBuffer(d, grid) ==
    FoldLeft(LAMBDA s, at : IF d.lo <= at /\ at < d.hi THEN Append(s, at) ELSE s, <<>>, grid)
PixelRows(d, usable) ==
    [n \in DOMAIN usable |->
        [at |-> usable[n], whole |-> WholeLine(d.header.family, usable[n], d.lo, d.hi)]]
BatchLines(d, audio) ==
    LET l == [NewLines(d.header.family, d.visEnd, d.lo) EXCEPT !.hi = d.hi,
                  !.syncs = {c \in audio.pulses : d.visEnd <= c /\ c < d.hi}]
    IN  [l EXCEPT !.rows = PixelRows(d, TrimToBuffer(d, Grid(l)))]

\* One progress event for each row beyond those shown.
Progress(d, from) ==
    LET given == FoldLeft(LAMBDA s, n : s \o RowsOut(d.header.family, n), <<>>,
                          [n \in 1 .. Len(d.lines.rows) - from |-> from + n])
        Show(x, row) == IF row <= x.shown THEN x
                        ELSE [Emit(x, <<Event("progress", x, row)>>) EXCEPT !.shown = row]
    IN  FoldLeft(Show, d, given)

\* Completion: the snapshot for the second decode, and a fresh decoder, which
\* the audio behind the image is still to be fed to.
Restart(d, tail) ==
    IF tail = -1 THEN ResetDecoder(d) ELSE [ResetDecoder(d) EXCEPT !.lo = tail, !.hi = tail]
CompleteImage(d) ==
    LET snapshot == IF d.trimmed THEN [lo |-> 0, hi |-> 0] ELSE [lo |-> d.lo, hi |-> d.hi]
    IN  Restart(Emit([d EXCEPT !.snapshot = snapshot], <<Event("complete", d, Lines)>>),
                TailStart(d))

Painted(d, l) == Progress([d EXCEPT !.lines = l], Len(d.lines.rows))
IfComplete(d) == IF Complete(d.lines) THEN CompleteImage(d) ELSE d
FeedIncremental(d, audio, cancelled) ==
    IF cancelled \/ d.lines.hi = d.hi THEN d
    ELSE IfComplete(Painted(d, FeedLines(d.lines, audio, d.hi)))

BatchPainted(d, l) ==
    IF Len(l.rows) <= d.shown THEN d
    ELSE IF Complete(l) THEN CompleteImage([d EXCEPT !.lines = l])
    ELSE Emit([d EXCEPT !.lines = l, !.shown = Len(l.rows)],
              <<[Event("progress", d, Len(l.rows)) EXCEPT !.rows = l.rows]>>)
FeedBatch(d, audio, cancelled) ==
    IF cancelled THEN d ELSE BatchPainted(d, BatchLines(d, audio))

\* A header locks a mode; the audio up to its end goes to the line decoder
\* first.  An unknown one is dropped, with a little of the audio before its
\* end kept.
Lock(d, h, audio) ==
    LET visEnd == h.at + VisLength
        started == [kind |-> "started", header |-> h, count |-> 0, rows |-> <<>>]
    IN  Emit([d EXCEPT !.state = "decoding", !.header = h, !.visEnd = visEnd,
                       !.lines = FeedLines(NewLines(h.family, visEnd, d.lo), audio, visEnd)],
             <<started>>)
DropUnknown(d, visEnd) == [d EXCEPT !.lo = Max({@, visEnd - Preamble})]

FeedHeader(d, h, audio) ==
    IF h = Nothing THEN [d EXCEPT !.lo = Max({@, d.hi - IdleWindow})]
    ELSE IF h.family = "none" THEN DropUnknown(d, h.at + VisLength)
    ELSE Lock(d, h, audio)

FeedFound(d, audio, incremental, cancelled) ==
    IF d.state = "idle" THEN d
    ELSE IF incremental THEN FeedIncremental(d, audio, cancelled)
    ELSE FeedBatch(d, audio, cancelled)
FeedJoined(d, audio, incremental, cancelled) ==
    FeedFound(IF d.state = "idle" THEN FeedHeader(d, FirstHeader(audio, d.lo, d.hi), audio)
              ELSE d, audio, incremental, cancelled)
FeedOnce(d, audio, upto, incremental, cancelled) ==
    FeedJoined(EnforceBufferCap([d EXCEPT !.hi = upto], incremental),
               audio, incremental, cancelled)

\* Decoder.feed: the audio up to upto joins the buffer; an image that ends in
\* it leaves the rest to be fed again.
Feed(d, audio, upto, incremental, cancelled) ==
    LET Again(x, n) == IF x.hi < upto THEN FeedOnce(x, audio, upto, incremental, cancelled) ELSE x
    IN  FoldLeft(Again, d, [n \in 1 .. Cardinality(audio.headers) + 1 |-> n])

\* The line starts of the least-squares fit: all of them, projected from the
\* anchor.  Its slope is external and taken as the nominal period; too few
\* candidates, and Robot 36 always, fall back on the walk.
Projected(cands, a) == [j \in 1 .. Lines |-> cands[a.at] + (j - 1 - a.slot) * Period]
SlantLines(cands, hint, family) ==
    IF family = "robot" \/ Len(cands) < 3 THEN WalkSyncGrid(cands, hint)
    ELSE Projected(cands, SelectAnchor(cands, hint))

\* decode_wav over a stretch of the recording: the header whose image comes
\* out, for a grid that is complete and a buffer that is not cut short.
IfWhole(h, grid, hi) ==
    IF Len(grid) < Lines THEN Nothing ELSE IF grid[Lines] >= hi THEN Nothing ELSE h
DecodeFrom(h, visEnd, audio, hi) ==
    LET heard == {c \in audio.pulses : visEnd <= c /\ c < hi}
        hint == Line0Hint(visEnd, Before(h.family))
    IN  IF h.family = "none" THEN Nothing
        ELSE IfWhole(h, SlantLines(Ascending(heard), hint, h.family), hi)
DecodeHeader(h, audio, hi) == DecodeFrom(h, h.at + VisLength, audio, hi)
DecodeWav(audio, lo, hi) == DecodeHeader(FirstHeader(audio, lo, hi), audio, hi)
=============================================================================
