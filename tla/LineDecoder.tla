---------------------------- MODULE LineDecoder ----------------------------
(***************************************************************************)
(* The streaming line decoder of core/incremental_decoder.py: the audio it *)
(* keeps, the sync pulses it has found, the rows it has painted.  A line   *)
(* decoder is a record; feed is a function of it and of the end of the new *)
(* audio.  All positions count from the start of the recording, and the    *)
(* buffer is the audio from lo to hi.  audio.pulses are the candidates a   *)
(* search of the whole recording would find.                               *)
(*                                                                         *)
(* Pixels are not modelled: a painted row is the position its line was cut *)
(* at, and whether the line's audio was all in the buffer.                 *)
(***************************************************************************)
EXTENDS SyncGrid

CONSTANT
    Margin         \* FILTER_MARGIN

ASSUME MarginAssumption == Margin \in Nat

\* Where the channels of a line lie from its sync, as intervals, and how many
\* image rows the line paints.  Scottie's sync comes between its blue and red
\* channels; PD paints two rows from two luminance channels and shared colour.
Channel(from, to) == [from |-> from, to |-> to]
ScottieLine == [channels |-> {Channel(-5, -3), Channel(-3, 0), Channel(1, 3)}, rows |-> 1]
MartinLine  == [channels |-> {Channel(1, 3), Channel(3, 5), Channel(5, 7)}, rows |-> 1]
WraaseLine  == [channels |-> {Channel(1, 3), Channel(3, 6), Channel(6, 8)}, rows |-> 1]
PasokonLine == [channels |-> {Channel(1, 2), Channel(3, 4), Channel(5, 7)}, rows |-> 1]
PDLine == [channels |-> {Channel(1, 2), Channel(2, 4), Channel(4, 6), Channel(6, 8)}, rows |-> 2]
Robot36Line == [channels |-> {Channel(1, 5), Channel(6, 7)}, rows |-> 1]
LineOf(family) ==
    CASE family = "scottie" -> ScottieLine [] family = "martin"  -> MartinLine
      [] family = "wraase"  -> WraaseLine  [] family = "pasokon" -> PasokonLine
      [] family = "pd"      -> PDLine      [] OTHER              -> Robot36Line

\* The audio a line needs before and after its sync.
Before(family) == Max({0} \cup {-c.from : c \in LineOf(family).channels})
Ready(family) == Max({c.to : c \in LineOf(family).channels})
Lookback(family) == Before(family) + Margin
\* A line is whole when the buffer holds all its channels.
WholeLine(family, at, lo, hi) ==
    \A c \in LineOf(family).channels : lo <= at + c.from /\ at + c.to <= hi

\* make_incremental_decoder: one for a VIS header that ends at visEnd.
NewLines(family, visEnd, start) ==
    [family |-> family, visEnd |-> visEnd, lo |-> start, hi |-> start, searched |-> start,
     syncs |-> {}, rows |-> <<>>]

Hint(l) == Line0Hint(l.visEnd, Before(l.family))
Grid(l) == WalkSyncGrid(Ascending(l.syncs), Hint(l))
Complete(l) == Len(l.rows) >= Lines

\* The search starts a line before the end of the last one.
UpdateSyncs(l, audio) ==
    LET from == Max({l.visEnd, l.searched - Period, l.lo})
    IN  [l EXCEPT !.syncs = @ \cup {c \in audio.pulses : from <= c /\ c < l.hi},
                  !.searched = l.hi]

\* Paint the next line of the grid, if all of it has come.
DecodeAt(l, at) ==
    IF at < l.lo \/ l.hi < at + Ready(l.family) THEN l
    ELSE [l EXCEPT !.rows = Append(@, [at |-> at, whole |-> WholeLine(l.family, at, l.lo, l.hi)])]

TryDecodeNext(l, grid) ==
    IF Cardinality(l.syncs) < 2 \/ Len(l.rows) >= Len(grid) THEN l
    ELSE DecodeAt(l, grid[Len(l.rows) + 1])

\* Trim the audio before the next line of the grid; where the grid ends, the
\* next line is taken to be a line after the last candidate.
PruneTo(l, to) == IF l.lo < to /\ to <= l.hi THEN [l EXCEPT !.lo = to] ELSE l
NextSync(l, grid) ==
    IF Len(l.rows) < Len(grid) THEN grid[Len(l.rows) + 1] ELSE Max(l.syncs) + Period
\* fault: the look-back of the line is forgotten
PruneToSync(l, grid) ==
    IF l.rows = <<>> \/ l.syncs = {} THEN l
    ELSE PruneTo(l, NextSync(l, grid))

Prune(l, grid) ==
    IF l.rows = <<>> \/ l.syncs = {} THEN l
    ELSE PruneTo(l, NextSync(l, grid) - Lookback(l.family))

\* A decode that gets nowhere keeps an image and a half of audio.
KeepFrom(l, lo) ==
    IF lo <= l.lo THEN l ELSE [l EXCEPT !.lo = lo, !.syncs = {c \in @ : c >= lo}]
EnforceStallCap(l) ==
    KeepFrom(l, l.hi - (Lines * Period * 3) \div 2 - Lookback(l.family) - Margin)

FeedLines(l, audio, upto) ==
    LET Paint(x, n) == TryDecodeNext(x, Grid(x))
        Trim(x) == EnforceStallCap(Prune(x, Grid(x)))
        heard == UpdateSyncs([l EXCEPT !.hi = upto], audio)
    IN  Trim(FoldLeft(Paint, heard, [n \in 1 .. Lines |-> n]))

\* Image rows given out for one line, in order: PD paints two, Robot 36
\* repaints the row before with the chroma of this one.
Robot36Rows(n) == IF n > 1 THEN <<n, n - 1>> ELSE <<n>>
PDRows(n) == <<2 * n - 1, 2 * n>>
RowsOut(family, n) ==
    CASE family = "pd"    -> PDRows(n)
      [] family = "robot" -> Robot36Rows(n)
      [] OTHER            -> <<n>>
=============================================================================
