------------------------------ MODULE SyncGrid ------------------------------
(***************************************************************************)
(* From sync pulse candidates to a grid of scan lines: core/sync.py.       *)
(* Positions are integers on the timeline of the recording; the period of  *)
(* a line is a multiple of four, so that the tolerance of a quarter line   *)
(* is exact.  Finding the candidates in the frequency track is external:   *)
(* the module starts from their positions.                                 *)
(***************************************************************************)
EXTENDS Integers, Sequences, SequencesExt

CONSTANTS
    Period,        \* samples from one sync pulse to the next
    Lines          \* sync pulses of a whole image

ASSUME GridAssumption == {Period, Lines} \subseteq Nat \ {0} /\ Period % 4 = 0

Tolerance == Period \div 4                 \* _LINE_SPACING_TOLERANCE
MaxAnchorGap == 4                          \* _MAX_ANCHOR_GAP_LINES
Near(a, b) == a - b \in -Tolerance .. Tolerance

\* Positions in order: the n-th has n - 1 before it.
Ascending(S) ==
    [n \in 1 .. Cardinality(S) |-> CHOOSE c \in S : Cardinality({x \in S : x < c}) = n - 1]

\* The slot of a candidate on the lattice that starts at the hint: a set of
\* one number, or of none when the candidate is off the lattice.
SlotsOf(c, hint) == {k \in 0 .. (c - hint + Period) \div Period : Near(c, hint + k * Period)}

\* fault: the first candidate is line 0, whatever the header says
SelectFirst(cands, hint) == [at |-> 1, slot |-> 0]

\* The anchor: a well spaced candidate on the lattice, else one on the
\* lattice, else a well spaced one, taken for line 0, else the first.
SelectAnchor(cands, hint) ==
    LET spaced == {i \in 1 .. Len(cands) - 1 :
                      \E k \in 1 .. MaxAnchorGap : Near(cands[i + 1], cands[i] + k * Period)}
        lattice == {i \in DOMAIN cands : SlotsOf(cands[i], hint) # {}}
        Slotted(S) == LET i == Min(S) IN [at |-> i, slot |-> Min(SlotsOf(cands[i], hint))]
        Plain(S) == [at |-> Min(S), slot |-> 0]
    IN  IF spaced \cap lattice # {} THEN Slotted(spaced \cap lattice)
        ELSE IF lattice # {} THEN Slotted(lattice)
        ELSE IF spaced # {} THEN Plain(spaced)
        ELSE Plain({1})

\* One candidate of the walk: one that falls well before the next slot is
\* passed over, slots it skips are filled in, one near its slot is its line.
Place(grid, c) ==
    LET last == Last(grid)
        k == Max({1, (c - last - Tolerance + Period - 1) \div Period})
        filled == [j \in 1 .. k - 1 |-> last + j * Period]
        taken == IF Near(c, last + k * Period) THEN <<c>> ELSE <<>>
        whole == grid \o filled \o taken
    IN  IF c < last + Period - Tolerance THEN grid
        ELSE SubSeq(whole, 1, Min({Lines, Len(whole)}))

\* The lines known from the candidates so far: from the anchor back to line
\* 0 at the nominal period, and forward over the candidates behind it.
WalkFrom(cands, a) ==
    LET back == [j \in 1 .. Min({a.slot, Lines}) |-> cands[a.at] - (a.slot - j + 1) * Period]
    IN  IF a.slot >= Lines THEN back
        ELSE FoldLeft(Place, Append(back, cands[a.at]), SubSeq(cands, a.at + 1, Len(cands)))
WalkSyncGrid(cands, hint) ==
    IF cands = <<>> THEN <<>> ELSE WalkFrom(cands, SelectAnchor(cands, hint))

\* Where the first sync of an image lies, from the end of its VIS header:
\* line0_sync_hint and first_sync_offset_samples.
Line0Hint(visEnd, before) == visEnd + before
=============================================================================
