-------------------------- MODULE RxDecodingProofs --------------------------
(***************************************************************************)
(* That the lines of an image are found where they are, whichever syncs    *)
(* were missed (GridIsRegular, GridIsExact), that the worker takes its     *)
(* decoder for what it is and saves each image once (WorkerAgrees), that   *)
(* every row of a steady recording is on its line (RowsOnTheirLines) and   *)
(* that the audio kept of an image is its own (SnapshotIsImage), for any   *)
(* recording, any chunks and pieces, and any disturbance.                  *)
(*                                                                         *)
(* The lines are what a walk over the candidates leaves; each candidate    *)
(* leaves them as the lemma PlaceIs says.  For the worker the argument is  *)
(* about what a decoder tells: its events take a listener from one         *)
(* understanding of it to the next (Comes), and whoever has followed them  *)
(* agrees with it (Told).  Feed, fold upon fold, is shown to tell all it   *)
(* does; Dispatch is a listener.  An image begins behind all earlier ones, *)
(* since a decoder starts over behind the header of the image it ends.     *)
(*                                                                         *)
(* For the rows, a line decoder is in order (LinesRight) when it has found *)
(* only candidates of its image, has painted its rows where they are and,  *)
(* if an image may follow, has missed no candidate and given up no audio   *)
(* of its next line.  Each step of a feed keeps that, so each event tells  *)
(* of such rows, and so the gallery has no others.                         *)
(*                                                                         *)
(* For the audio, a decoder has its own from the header on, or knows that  *)
(* it gave the beginning up (Entire), and one that nobody cancelled is     *)
(* late with nothing (Prompt).  So, where flushes are small, at most one   *)
(* image ends in a flush (Calm), and its audio is what the worker keeps.   *)
(***************************************************************************)
EXTENDS RxDecoding, FiniteSetTheorems, WellFoundedInduction, SequenceTheorems, FunctionTheorems, TLAPS

-----------------------------------------------------------------------------
(* Numbers.                                                                *)

\* A set of numbers has a least one.
LEMMA LeastOf ==
  ASSUME NEW S, S \subseteq Nat, S # {}
  PROVE  \E x \in S : \A y \in S : x <= y
  <1>1. \E x \in S : \A y \in S : ~(<<y, x>> \in OpToRel(<, Nat))
    BY NatLessThanWellFounded, WFMin, Zenon
  <1>2. PICK x \in S : \A y \in S : ~(<<y, x>> \in OpToRel(<, Nat))
    BY <1>1, Zenon
  <1>3. ASSUME NEW y \in S PROVE x <= y
    <2>1. <<y, x>> \in Nat \X Nat /\ ~(<<y, x>>[1] < <<y, x>>[2])
      BY <1>2 DEF OpToRel
    <2>2. QED
      BY <2>1
  <1>4. QED
    BY <1>3

\* Induction over the natural numbers, for a property given by its set.
LEMMA Inductive ==
    ASSUME NEW S, 0 \in S, \A n \in Nat : n \in S => n + 1 \in S
    PROVE  Nat \subseteq S
PROOF
<1> SUFFICES ASSUME Nat \ S # {} PROVE FALSE
    OBVIOUS
<1>1. PICK n \in Nat \ S : \A m \in Nat \ S : n <= m
    BY LeastOf
<1>2. n - 1 \in Nat /\ n - 1 \in S
    BY <1>1
<1>3. QED
    BY <1>1, <1>2

\* The largest of an interval is its end.
LEMMA LargestOf ==
    ASSUME NEW s, NEW k \in Nat, s \subseteq 1 .. k, k \in s
    PROVE  Max(s) = k
PROOF
<1> DEFINE P(x) == x \in s /\ \A y \in s : x >= y
<1>1. P(k)
    OBVIOUS
<1>2. \A x : P(x) => x = k
    <2> SUFFICES ASSUME NEW x, P(x) PROVE x = k
        OBVIOUS
    <2>1. x >= k /\ x \in 1 .. k
        OBVIOUS
    <2>2. QED
        BY <2>1
<1> HIDE DEF P
<1>3. (CHOOSE x : P(x)) = k
    BY <1>1, <1>2
<1>4. Max(s) = CHOOSE x : P(x)
    BY DEF Max, P
<1>5. QED
    BY <1>3, <1>4

\* The smallest and the larger of numbers, of the community modules.
LEMMA SmallestOf ==
    ASSUME NEW S, S \subseteq Nat, S # {}
    PROVE  Min(S) \in S /\ \A y \in S : Min(S) <= y
PROOF
<1>1. \E x \in S : \A y \in S : x <= y
    BY LeastOf
<1>2. QED
    BY <1>1 DEF Min

\* The lesser of two numbers is one of them.
LEMMA SmallerOf ==
    ASSUME NEW i \in Nat, NEW j \in Nat
    PROVE  Min({i, j}) \in {i, j} /\ Min({i, j}) <= i /\ Min({i, j}) <= j
PROOF
<1>1. {i, j} \subseteq Nat /\ {i, j} # {}
    OBVIOUS
<1>2. QED
    BY <1>1, SmallestOf

\* And the greater.
LEMMA LargerOf ==
    ASSUME NEW i \in Int, NEW j \in Int
    PROVE  Max({i, j}) \in {i, j} /\ i <= Max({i, j}) /\ j <= Max({i, j})
PROOF
<1>1. \E x \in {i, j} : \A y \in {i, j} : x >= y
    BY i >= j \/ j >= i
<1>2. QED
    BY <1>1 DEF Max

-----------------------------------------------------------------------------
(* Folds.                                                                  *)
(*                                                                         *)
(* A fold computes a function of sets of indices: of the empty set the     *)
(* base, of any other what its largest index adds to the rest.  That the   *)
(* function exists is an induction over the length.  Then the fold of a    *)
(* sequence is the end of a chain of steps, v, and what a step preserves   *)
(* an induction along v shows.  A lemma cannot take the step as its        *)
(* parameter, so each step has a lemma of its own.                         *)

\* A sequence has its k elements.
Spans(seq, k) == k \in Nat /\ DOMAIN seq = 1 .. k

\* A value for the sets with one number more.
LEMMA OneLarger ==
    ASSUME NEW n \in Nat, NEW g, NEW u
    PROVE  LET h == [s \in SUBSET (1 .. n + 1) |-> IF n + 1 \in s THEN u[s \ {n + 1}] ELSE g[s]]
           IN  \A s \in SUBSET (1 .. n + 1) :
                  /\ n + 1 \in s => /\ Max(s) = n + 1 /\ s # {} /\ s \ {n + 1} \in SUBSET (1 .. n)
                                    /\ h[s] = u[s \ {n + 1}] /\ h[s \ {n + 1}] = g[s \ {n + 1}]
                  /\ n + 1 \notin s => /\ s \in SUBSET (1 .. n) /\ h[s] = g[s]
                                       /\ h[s \ {Max(s)}] = g[s \ {Max(s)}]
PROOF
<1> DEFINE h == [s \in SUBSET (1 .. n + 1) |-> IF n + 1 \in s THEN u[s \ {n + 1}] ELSE g[s]]
<1> SUFFICES ASSUME NEW s \in SUBSET (1 .. n + 1)
             PROVE  /\ n + 1 \in s => /\ Max(s) = n + 1 /\ s # {} /\ s \ {n + 1} \in SUBSET (1 .. n)
                                      /\ h[s] = u[s \ {n + 1}] /\ h[s \ {n + 1}] = g[s \ {n + 1}]
                    /\ n + 1 \notin s => /\ s \in SUBSET (1 .. n) /\ h[s] = g[s]
                                         /\ h[s \ {Max(s)}] = g[s \ {Max(s)}]
    OBVIOUS
<1>1. CASE n + 1 \in s
    <2>1. Max(s) = n + 1
        <3>1. n + 1 \in Nat
            OBVIOUS
        <3>2. QED
            BY <1>1, <3>1, LargestOf
    <2>2. s \ {n + 1} \in SUBSET (1 .. n) /\ s \ {n + 1} \in SUBSET (1 .. n + 1) /\ n + 1 \notin s \ {n + 1}
        OBVIOUS
    <2>3. h[s] = u[s \ {n + 1}] /\ h[s \ {n + 1}] = g[s \ {n + 1}]
        BY <1>1, <2>2
    <2>4. QED
        BY <1>1, <2>1, <2>2, <2>3
<1>2. CASE n + 1 \notin s
    <2>1. s \in SUBSET (1 .. n)
        BY <1>2
    <2>2. s \ {Max(s)} \in SUBSET (1 .. n + 1) /\ n + 1 \notin s \ {Max(s)}
        BY <1>2
    <2>3. h[s] = g[s] /\ h[s \ {Max(s)}] = g[s \ {Max(s)}]
        BY <1>2, <2>2
    <2>4. QED
        BY <1>2, <2>1, <2>3
<1>3. QED
    BY <1>1, <1>2

AllPlaced(base, seq) == FoldLeft(Place, base, seq)

\* The lines after each candidate of a walk.
LEMMA PlaceUnrolls ==
    ASSUME NEW base, NEW seq, NEW k, Spans(seq, k)
    PROVE  \E v : /\ v[0] = base /\ v[k] = AllPlaced(base, seq)
                  /\ \A n \in 1 .. k : v[n] = Place(v[n - 1], seq[n])
PROOF
<1>0. k \in Nat /\ DOMAIN seq = 1 .. k
    BY DEF Spans
<1> DEFINE Is(g, n) == g = [s \in SUBSET (1 .. n) |-> IF s = {} THEN base ELSE Place(g[s \ {Max(s)}], seq[Max(s)])]
           S == {n \in Nat : \E g : Is(g, n)}
<1>1. 0 \in S
    <2>1. SUBSET (1 .. 0) = {{}}
        OBVIOUS
    <2>2. Is([s \in SUBSET (1 .. 0) |-> base], 0)
        BY <2>1
    <2>3. QED
        BY <2>2
<1>2. ASSUME NEW n \in Nat, n \in S PROVE n + 1 \in S
    <2>1. PICK g : Is(g, n)
        BY <1>2
    <2> DEFINE u == [t \in SUBSET (1 .. n) |-> Place(g[t], seq[n + 1])]
               h == [s \in SUBSET (1 .. n + 1) |-> IF n + 1 \in s THEN u[s \ {n + 1}] ELSE g[s]]
    <2> HIDE DEF Is
    <2>2. \A s \in SUBSET (1 .. n + 1) :
             h[s] = IF s = {} THEN base ELSE Place(h[s \ {Max(s)}], seq[Max(s)])
        <3> TAKE s \in SUBSET (1 .. n + 1)
        <3>1. CASE n + 1 \in s
            <4>1. /\ Max(s) = n + 1 /\ s # {} /\ s \ {n + 1} \in SUBSET (1 .. n)
                  /\ h[s] = u[s \ {n + 1}] /\ h[s \ {n + 1}] = g[s \ {n + 1}]
                BY <3>1, OneLarger, Zenon
            <4>2. u[s \ {n + 1}] = Place(g[s \ {n + 1}], seq[n + 1])
                BY <4>1
            <4> HIDE DEF h, u
            <4>3. QED
                BY <4>1, <4>2
        <3>2. CASE n + 1 \notin s
            <4>1. s \in SUBSET (1 .. n) /\ h[s] = g[s] /\ h[s \ {Max(s)}] = g[s \ {Max(s)}]
                BY <3>2, OneLarger, Zenon
            <4>2. g[s] = IF s = {} THEN base ELSE Place(g[s \ {Max(s)}], seq[Max(s)])
                BY <2>1, <4>1 DEF Is
            <4> HIDE DEF h, u
            <4>3. QED
                BY <4>1, <4>2
        <3>3. QED
            BY <3>1, <3>2
    <2> HIDE DEF u
    <2>3. h = [s \in SUBSET (1 .. n + 1) |-> h[s]]
        OBVIOUS
    <2> HIDE DEF h
    <2>4. Is(h, n + 1)
        BY <2>2, <2>3 DEF Is
    <2>5. QED
        BY <2>4
<1>3. \E g : Is(g, k)
    <2> HIDE DEF Is
    <2>1. QED
        BY <1>0, <1>1, <1>2, Inductive
<1> DEFINE w == CHOOSE g : Is(g, k)
<1>4. Is(w, k)
    <2> HIDE DEF Is
    <2>1. QED
        BY <1>3
<1>5. AllPlaced(base, seq) = w[1 .. k]
    BY <1>0 DEF FoldLeft, MapThenFoldSet, AllPlaced
<1> HIDE DEF w
<1> DEFINE v == [n \in 0 .. k |-> w[1 .. n]]
<1>6. v[0] = base
    <2>1. v[0] = w[1 .. 0] /\ 1 .. 0 = {} /\ {} \in SUBSET (1 .. k)
        BY <1>0
    <2>2. w[{}] = base
        BY <1>4, <2>1
    <2>3. QED
        BY <2>1, <2>2
<1>7. ASSUME NEW n \in 1 .. k PROVE v[n] = Place(v[n - 1], seq[n])
    <2>1. v[n] = w[1 .. n] /\ v[n - 1] = w[1 .. n - 1] /\ n \in Nat
        BY <1>0
    <2>2. Max(1 .. n) = n /\ (1 .. n) \ {n} = 1 .. n - 1 /\ 1 .. n # {} /\ 1 .. n \in SUBSET (1 .. k)
        <3>1. n \in Nat /\ n \in 1 .. n
            BY <1>0
        <3>2. Max(1 .. n) = n
            BY <3>1, LargestOf
        <3>3. QED
            BY <1>0, <3>1, <3>2
    <2>3. w[1 .. n] = Place(w[1 .. n - 1], seq[n])
        BY <1>4, <2>2
    <2> HIDE DEF v
    <2>4. QED
        BY <2>1, <2>3
<1>8. v[k] = w[1 .. k]
    BY <1>0
<1>9. QED
    BY <1>5, <1>6, <1>7, <1>8

AllPainted(base, seq) == FoldLeft(LAMBDA x, n : TryDecodeNext(x, Grid(x)), base, seq)

\* The line decoder after each try.
LEMMA PaintUnrolls ==
    ASSUME NEW base, NEW seq, NEW k, Spans(seq, k)
    PROVE  \E v : /\ v[0] = base /\ v[k] = AllPainted(base, seq)
                  /\ \A n \in 1 .. k : v[n] = TryDecodeNext(v[n - 1], Grid(v[n - 1]))
PROOF
<1>0. k \in Nat /\ DOMAIN seq = 1 .. k
    BY DEF Spans
<1> DEFINE Is(g, n) == g = [s \in SUBSET (1 .. n) |-> IF s = {} THEN base ELSE TryDecodeNext(g[s \ {Max(s)}], Grid(g[s \ {Max(s)}]))]
           S == {n \in Nat : \E g : Is(g, n)}
<1>1. 0 \in S
    <2>1. SUBSET (1 .. 0) = {{}}
        OBVIOUS
    <2>2. Is([s \in SUBSET (1 .. 0) |-> base], 0)
        BY <2>1
    <2>3. QED
        BY <2>2
<1>2. ASSUME NEW n \in Nat, n \in S PROVE n + 1 \in S
    <2>1. PICK g : Is(g, n)
        BY <1>2
    <2> DEFINE u == [t \in SUBSET (1 .. n) |-> TryDecodeNext(g[t], Grid(g[t]))]
               h == [s \in SUBSET (1 .. n + 1) |-> IF n + 1 \in s THEN u[s \ {n + 1}] ELSE g[s]]
    <2> HIDE DEF Is
    <2>2. \A s \in SUBSET (1 .. n + 1) :
             h[s] = IF s = {} THEN base ELSE TryDecodeNext(h[s \ {Max(s)}], Grid(h[s \ {Max(s)}]))
        <3> TAKE s \in SUBSET (1 .. n + 1)
        <3>1. CASE n + 1 \in s
            <4>1. /\ Max(s) = n + 1 /\ s # {} /\ s \ {n + 1} \in SUBSET (1 .. n)
                  /\ h[s] = u[s \ {n + 1}] /\ h[s \ {n + 1}] = g[s \ {n + 1}]
                BY <3>1, OneLarger, Zenon
            <4>2. u[s \ {n + 1}] = TryDecodeNext(g[s \ {n + 1}], Grid(g[s \ {n + 1}]))
                BY <4>1
            <4> HIDE DEF h, u
            <4>3. QED
                BY <4>1, <4>2
        <3>2. CASE n + 1 \notin s
            <4>1. s \in SUBSET (1 .. n) /\ h[s] = g[s] /\ h[s \ {Max(s)}] = g[s \ {Max(s)}]
                BY <3>2, OneLarger, Zenon
            <4>2. g[s] = IF s = {} THEN base ELSE TryDecodeNext(g[s \ {Max(s)}], Grid(g[s \ {Max(s)}]))
                BY <2>1, <4>1 DEF Is
            <4> HIDE DEF h, u
            <4>3. QED
                BY <4>1, <4>2
        <3>3. QED
            BY <3>1, <3>2
    <2> HIDE DEF u
    <2>3. h = [s \in SUBSET (1 .. n + 1) |-> h[s]]
        OBVIOUS
    <2> HIDE DEF h
    <2>4. Is(h, n + 1)
        BY <2>2, <2>3 DEF Is
    <2>5. QED
        BY <2>4
<1>3. \E g : Is(g, k)
    <2> HIDE DEF Is
    <2>1. QED
        BY <1>0, <1>1, <1>2, Inductive
<1> DEFINE w == CHOOSE g : Is(g, k)
<1>4. Is(w, k)
    <2> HIDE DEF Is
    <2>1. QED
        BY <1>3
<1>5. AllPainted(base, seq) = w[1 .. k]
    BY <1>0 DEF FoldLeft, MapThenFoldSet, AllPainted
<1> HIDE DEF w
<1> DEFINE v == [n \in 0 .. k |-> w[1 .. n]]
<1>6. v[0] = base
    <2>1. v[0] = w[1 .. 0] /\ 1 .. 0 = {} /\ {} \in SUBSET (1 .. k)
        BY <1>0
    <2>2. w[{}] = base
        BY <1>4, <2>1
    <2>3. QED
        BY <2>1, <2>2
<1>7. ASSUME NEW n \in 1 .. k PROVE v[n] = TryDecodeNext(v[n - 1], Grid(v[n - 1]))
    <2>1. v[n] = w[1 .. n] /\ v[n - 1] = w[1 .. n - 1] /\ n \in Nat
        BY <1>0
    <2>2. Max(1 .. n) = n /\ (1 .. n) \ {n} = 1 .. n - 1 /\ 1 .. n # {} /\ 1 .. n \in SUBSET (1 .. k)
        <3>1. n \in Nat /\ n \in 1 .. n
            BY <1>0
        <3>2. Max(1 .. n) = n
            BY <3>1, LargestOf
        <3>3. QED
            BY <1>0, <3>1, <3>2
    <2>3. w[1 .. n] = TryDecodeNext(w[1 .. n - 1], Grid(w[1 .. n - 1]))
        BY <1>4, <2>2
    <2> HIDE DEF v
    <2>4. QED
        BY <2>1, <2>3
<1>8. v[k] = w[1 .. k]
    BY <1>0
<1>9. QED
    BY <1>5, <1>6, <1>7, <1>8

\* Progress, and what it gives out, as folds with names.
GivenRow(s, family, n) == s \o RowsOut(family, n)
AllGiven(family, base, seq) == FoldLeft(LAMBDA s, n : GivenRow(s, family, n), base, seq)

\* The rows given out after each line.
LEMMA GivenUnrolls ==
    ASSUME NEW base, NEW seq, NEW k, NEW family, Spans(seq, k)
    PROVE  \E v : /\ v[0] = base /\ v[k] = AllGiven(family, base, seq)
                  /\ \A n \in 1 .. k : v[n] = GivenRow(v[n - 1], family, seq[n])
PROOF
<1>0. k \in Nat /\ DOMAIN seq = 1 .. k
    BY DEF Spans
<1> DEFINE Is(g, n) == g = [s \in SUBSET (1 .. n) |-> IF s = {} THEN base ELSE GivenRow(g[s \ {Max(s)}], family, seq[Max(s)])]
           S == {n \in Nat : \E g : Is(g, n)}
<1>1. 0 \in S
    <2>1. SUBSET (1 .. 0) = {{}}
        OBVIOUS
    <2>2. Is([s \in SUBSET (1 .. 0) |-> base], 0)
        BY <2>1
    <2>3. QED
        BY <2>2
<1>2. ASSUME NEW n \in Nat, n \in S PROVE n + 1 \in S
    <2>1. PICK g : Is(g, n)
        BY <1>2
    <2> DEFINE u == [t \in SUBSET (1 .. n) |-> GivenRow(g[t], family, seq[n + 1])]
               h == [s \in SUBSET (1 .. n + 1) |-> IF n + 1 \in s THEN u[s \ {n + 1}] ELSE g[s]]
    <2> HIDE DEF Is
    <2>2. \A s \in SUBSET (1 .. n + 1) :
             h[s] = IF s = {} THEN base ELSE GivenRow(h[s \ {Max(s)}], family, seq[Max(s)])
        <3> TAKE s \in SUBSET (1 .. n + 1)
        <3>1. CASE n + 1 \in s
            <4>1. /\ Max(s) = n + 1 /\ s # {} /\ s \ {n + 1} \in SUBSET (1 .. n)
                  /\ h[s] = u[s \ {n + 1}] /\ h[s \ {n + 1}] = g[s \ {n + 1}]
                BY <3>1, OneLarger, Zenon
            <4>2. u[s \ {n + 1}] = GivenRow(g[s \ {n + 1}], family, seq[n + 1])
                BY <4>1
            <4> HIDE DEF h, u
            <4>3. QED
                BY <4>1, <4>2
        <3>2. CASE n + 1 \notin s
            <4>1. s \in SUBSET (1 .. n) /\ h[s] = g[s] /\ h[s \ {Max(s)}] = g[s \ {Max(s)}]
                BY <3>2, OneLarger, Zenon
            <4>2. g[s] = IF s = {} THEN base ELSE GivenRow(g[s \ {Max(s)}], family, seq[Max(s)])
                BY <2>1, <4>1 DEF Is
            <4> HIDE DEF h, u
            <4>3. QED
                BY <4>1, <4>2
        <3>3. QED
            BY <3>1, <3>2
    <2> HIDE DEF u
    <2>3. h = [s \in SUBSET (1 .. n + 1) |-> h[s]]
        OBVIOUS
    <2> HIDE DEF h
    <2>4. Is(h, n + 1)
        BY <2>2, <2>3 DEF Is
    <2>5. QED
        BY <2>4
<1>3. \E g : Is(g, k)
    <2> HIDE DEF Is
    <2>1. QED
        BY <1>0, <1>1, <1>2, Inductive
<1> DEFINE w == CHOOSE g : Is(g, k)
<1>4. Is(w, k)
    <2> HIDE DEF Is
    <2>1. QED
        BY <1>3
<1>5. AllGiven(family, base, seq) = w[1 .. k]
    BY <1>0 DEF FoldLeft, MapThenFoldSet, AllGiven
<1> HIDE DEF w
<1> DEFINE v == [n \in 0 .. k |-> w[1 .. n]]
<1>6. v[0] = base
    <2>1. v[0] = w[1 .. 0] /\ 1 .. 0 = {} /\ {} \in SUBSET (1 .. k)
        BY <1>0
    <2>2. w[{}] = base
        BY <1>4, <2>1
    <2>3. QED
        BY <2>1, <2>2
<1>7. ASSUME NEW n \in 1 .. k PROVE v[n] = GivenRow(v[n - 1], family, seq[n])
    <2>1. v[n] = w[1 .. n] /\ v[n - 1] = w[1 .. n - 1] /\ n \in Nat
        BY <1>0
    <2>2. Max(1 .. n) = n /\ (1 .. n) \ {n} = 1 .. n - 1 /\ 1 .. n # {} /\ 1 .. n \in SUBSET (1 .. k)
        <3>1. n \in Nat /\ n \in 1 .. n
            BY <1>0
        <3>2. Max(1 .. n) = n
            BY <3>1, LargestOf
        <3>3. QED
            BY <1>0, <3>1, <3>2
    <2>3. w[1 .. n] = GivenRow(w[1 .. n - 1], family, seq[n])
        BY <1>4, <2>2
    <2> HIDE DEF v
    <2>4. QED
        BY <2>1, <2>3
<1>8. v[k] = w[1 .. k]
    BY <1>0
<1>9. QED
    BY <1>5, <1>6, <1>7, <1>8

ShowRow(x, row) ==
    IF row <= x.shown THEN x ELSE [Emit(x, <<Event("progress", x, row)>>) EXCEPT !.shown = row]
AllShown(base, seq) == FoldLeft(ShowRow, base, seq)

\* The decoder after each row shown.
LEMMA ShowUnrolls ==
    ASSUME NEW base, NEW seq, NEW k, Spans(seq, k)
    PROVE  \E v : /\ v[0] = base /\ v[k] = AllShown(base, seq)
                  /\ \A n \in 1 .. k : v[n] = ShowRow(v[n - 1], seq[n])
PROOF
<1>0. k \in Nat /\ DOMAIN seq = 1 .. k
    BY DEF Spans
<1> DEFINE Is(g, n) == g = [s \in SUBSET (1 .. n) |-> IF s = {} THEN base ELSE ShowRow(g[s \ {Max(s)}], seq[Max(s)])]
           S == {n \in Nat : \E g : Is(g, n)}
<1>1. 0 \in S
    <2>1. SUBSET (1 .. 0) = {{}}
        OBVIOUS
    <2>2. Is([s \in SUBSET (1 .. 0) |-> base], 0)
        BY <2>1
    <2>3. QED
        BY <2>2
<1>2. ASSUME NEW n \in Nat, n \in S PROVE n + 1 \in S
    <2>1. PICK g : Is(g, n)
        BY <1>2
    <2> DEFINE u == [t \in SUBSET (1 .. n) |-> ShowRow(g[t], seq[n + 1])]
               h == [s \in SUBSET (1 .. n + 1) |-> IF n + 1 \in s THEN u[s \ {n + 1}] ELSE g[s]]
    <2> HIDE DEF Is
    <2>2. \A s \in SUBSET (1 .. n + 1) :
             h[s] = IF s = {} THEN base ELSE ShowRow(h[s \ {Max(s)}], seq[Max(s)])
        <3> TAKE s \in SUBSET (1 .. n + 1)
        <3>1. CASE n + 1 \in s
            <4>1. /\ Max(s) = n + 1 /\ s # {} /\ s \ {n + 1} \in SUBSET (1 .. n)
                  /\ h[s] = u[s \ {n + 1}] /\ h[s \ {n + 1}] = g[s \ {n + 1}]
                BY <3>1, OneLarger, Zenon
            <4>2. u[s \ {n + 1}] = ShowRow(g[s \ {n + 1}], seq[n + 1])
                BY <4>1
            <4> HIDE DEF h, u
            <4>3. QED
                BY <4>1, <4>2
        <3>2. CASE n + 1 \notin s
            <4>1. s \in SUBSET (1 .. n) /\ h[s] = g[s] /\ h[s \ {Max(s)}] = g[s \ {Max(s)}]
                BY <3>2, OneLarger, Zenon
            <4>2. g[s] = IF s = {} THEN base ELSE ShowRow(g[s \ {Max(s)}], seq[Max(s)])
                BY <2>1, <4>1 DEF Is
            <4> HIDE DEF h, u
            <4>3. QED
                BY <4>1, <4>2
        <3>3. QED
            BY <3>1, <3>2
    <2> HIDE DEF u
    <2>3. h = [s \in SUBSET (1 .. n + 1) |-> h[s]]
        OBVIOUS
    <2> HIDE DEF h
    <2>4. Is(h, n + 1)
        BY <2>2, <2>3 DEF Is
    <2>5. QED
        BY <2>4
<1>3. \E g : Is(g, k)
    <2> HIDE DEF Is
    <2>1. QED
        BY <1>0, <1>1, <1>2, Inductive
<1> DEFINE w == CHOOSE g : Is(g, k)
<1>4. Is(w, k)
    <2> HIDE DEF Is
    <2>1. QED
        BY <1>3
<1>5. AllShown(base, seq) = w[1 .. k]
    BY <1>0 DEF FoldLeft, MapThenFoldSet, AllShown
<1> HIDE DEF w
<1> DEFINE v == [n \in 0 .. k |-> w[1 .. n]]
<1>6. v[0] = base
    <2>1. v[0] = w[1 .. 0] /\ 1 .. 0 = {} /\ {} \in SUBSET (1 .. k)
        BY <1>0
    <2>2. w[{}] = base
        BY <1>4, <2>1
    <2>3. QED
        BY <2>1, <2>2
<1>7. ASSUME NEW n \in 1 .. k PROVE v[n] = ShowRow(v[n - 1], seq[n])
    <2>1. v[n] = w[1 .. n] /\ v[n - 1] = w[1 .. n - 1] /\ n \in Nat
        BY <1>0
    <2>2. Max(1 .. n) = n /\ (1 .. n) \ {n} = 1 .. n - 1 /\ 1 .. n # {} /\ 1 .. n \in SUBSET (1 .. k)
        <3>1. n \in Nat /\ n \in 1 .. n
            BY <1>0
        <3>2. Max(1 .. n) = n
            BY <3>1, LargestOf
        <3>3. QED
            BY <1>0, <3>1, <3>2
    <2>3. w[1 .. n] = ShowRow(w[1 .. n - 1], seq[n])
        BY <1>4, <2>2
    <2> HIDE DEF v
    <2>4. QED
        BY <2>1, <2>3
<1>8. v[k] = w[1 .. k]
    BY <1>0
<1>9. QED
    BY <1>5, <1>6, <1>7, <1>8

\* A round of Feed, call standing for its arguments.
FeedRound(x, call) ==
    IF x.hi < call.upto THEN FeedOnce(x, call.rec, call.upto, call.inc, call.off) ELSE x
AllFed(call, base, seq) == FoldLeft(LAMBDA x, n : FeedRound(x, call), base, seq)

\* The decoder after each round of a feed.
LEMMA AgainUnrolls ==
    ASSUME NEW base, NEW seq, NEW k, NEW call, Spans(seq, k)
    PROVE  \E v : /\ v[0] = base /\ v[k] = AllFed(call, base, seq)
                  /\ \A n \in 1 .. k : v[n] = FeedRound(v[n - 1], call)
PROOF
<1>0. k \in Nat /\ DOMAIN seq = 1 .. k
    BY DEF Spans
<1> DEFINE Is(g, n) == g = [s \in SUBSET (1 .. n) |-> IF s = {} THEN base ELSE FeedRound(g[s \ {Max(s)}], call)]
           S == {n \in Nat : \E g : Is(g, n)}
<1>1. 0 \in S
    <2>1. SUBSET (1 .. 0) = {{}}
        OBVIOUS
    <2>2. Is([s \in SUBSET (1 .. 0) |-> base], 0)
        BY <2>1
    <2>3. QED
        BY <2>2
<1>2. ASSUME NEW n \in Nat, n \in S PROVE n + 1 \in S
    <2>1. PICK g : Is(g, n)
        BY <1>2
    <2> DEFINE u == [t \in SUBSET (1 .. n) |-> FeedRound(g[t], call)]
               h == [s \in SUBSET (1 .. n + 1) |-> IF n + 1 \in s THEN u[s \ {n + 1}] ELSE g[s]]
    <2> HIDE DEF Is
    <2>2. \A s \in SUBSET (1 .. n + 1) :
             h[s] = IF s = {} THEN base ELSE FeedRound(h[s \ {Max(s)}], call)
        <3> TAKE s \in SUBSET (1 .. n + 1)
        <3>1. CASE n + 1 \in s
            <4>1. /\ Max(s) = n + 1 /\ s # {} /\ s \ {n + 1} \in SUBSET (1 .. n)
                  /\ h[s] = u[s \ {n + 1}] /\ h[s \ {n + 1}] = g[s \ {n + 1}]
                BY <3>1, OneLarger, Zenon
            <4>2. u[s \ {n + 1}] = FeedRound(g[s \ {n + 1}], call)
                BY <4>1
            <4> HIDE DEF h, u
            <4>3. QED
                BY <4>1, <4>2
        <3>2. CASE n + 1 \notin s
            <4>1. s \in SUBSET (1 .. n) /\ h[s] = g[s] /\ h[s \ {Max(s)}] = g[s \ {Max(s)}]
                BY <3>2, OneLarger, Zenon
            <4>2. g[s] = IF s = {} THEN base ELSE FeedRound(g[s \ {Max(s)}], call)
                BY <2>1, <4>1 DEF Is
            <4> HIDE DEF h, u
            <4>3. QED
                BY <4>1, <4>2
        <3>3. QED
            BY <3>1, <3>2
    <2> HIDE DEF u
    <2>3. h = [s \in SUBSET (1 .. n + 1) |-> h[s]]
        OBVIOUS
    <2> HIDE DEF h
    <2>4. Is(h, n + 1)
        BY <2>2, <2>3 DEF Is
    <2>5. QED
        BY <2>4
<1>3. \E g : Is(g, k)
    <2> HIDE DEF Is
    <2>1. QED
        BY <1>0, <1>1, <1>2, Inductive
<1> DEFINE w == CHOOSE g : Is(g, k)
<1>4. Is(w, k)
    <2> HIDE DEF Is
    <2>1. QED
        BY <1>3
<1>5. AllFed(call, base, seq) = w[1 .. k]
    BY <1>0 DEF FoldLeft, MapThenFoldSet, AllFed
<1> HIDE DEF w
<1> DEFINE v == [n \in 0 .. k |-> w[1 .. n]]
<1>6. v[0] = base
    <2>1. v[0] = w[1 .. 0] /\ 1 .. 0 = {} /\ {} \in SUBSET (1 .. k)
        BY <1>0
    <2>2. w[{}] = base
        BY <1>4, <2>1
    <2>3. QED
        BY <2>1, <2>2
<1>7. ASSUME NEW n \in 1 .. k PROVE v[n] = FeedRound(v[n - 1], call)
    <2>1. v[n] = w[1 .. n] /\ v[n - 1] = w[1 .. n - 1] /\ n \in Nat
        BY <1>0
    <2>2. Max(1 .. n) = n /\ (1 .. n) \ {n} = 1 .. n - 1 /\ 1 .. n # {} /\ 1 .. n \in SUBSET (1 .. k)
        <3>1. n \in Nat /\ n \in 1 .. n
            BY <1>0
        <3>2. Max(1 .. n) = n
            BY <3>1, LargestOf
        <3>3. QED
            BY <1>0, <3>1, <3>2
    <2>3. w[1 .. n] = FeedRound(w[1 .. n - 1], call)
        BY <1>4, <2>2
    <2> HIDE DEF v
    <2>4. QED
        BY <2>1, <2>3
<1>8. v[k] = w[1 .. k]
    BY <1>0
<1>9. QED
    BY <1>5, <1>6, <1>7, <1>8

AllDispatched(base, seq) == FoldLeft(Dispatch, base, seq)

\* The worker after each event.
LEMMA DispatchUnrolls ==
    ASSUME NEW base, NEW seq, NEW k, Spans(seq, k)
    PROVE  \E v : /\ v[0] = base /\ v[k] = AllDispatched(base, seq)
                  /\ \A n \in 1 .. k : v[n] = Dispatch(v[n - 1], seq[n])
PROOF
<1>0. k \in Nat /\ DOMAIN seq = 1 .. k
    BY DEF Spans
<1> DEFINE Is(g, n) == g = [s \in SUBSET (1 .. n) |-> IF s = {} THEN base ELSE Dispatch(g[s \ {Max(s)}], seq[Max(s)])]
           S == {n \in Nat : \E g : Is(g, n)}
<1>1. 0 \in S
    <2>1. SUBSET (1 .. 0) = {{}}
        OBVIOUS
    <2>2. Is([s \in SUBSET (1 .. 0) |-> base], 0)
        BY <2>1
    <2>3. QED
        BY <2>2
<1>2. ASSUME NEW n \in Nat, n \in S PROVE n + 1 \in S
    <2>1. PICK g : Is(g, n)
        BY <1>2
    <2> DEFINE u == [t \in SUBSET (1 .. n) |-> Dispatch(g[t], seq[n + 1])]
               h == [s \in SUBSET (1 .. n + 1) |-> IF n + 1 \in s THEN u[s \ {n + 1}] ELSE g[s]]
    <2> HIDE DEF Is
    <2>2. \A s \in SUBSET (1 .. n + 1) :
             h[s] = IF s = {} THEN base ELSE Dispatch(h[s \ {Max(s)}], seq[Max(s)])
        <3> TAKE s \in SUBSET (1 .. n + 1)
        <3>1. CASE n + 1 \in s
            <4>1. /\ Max(s) = n + 1 /\ s # {} /\ s \ {n + 1} \in SUBSET (1 .. n)
                  /\ h[s] = u[s \ {n + 1}] /\ h[s \ {n + 1}] = g[s \ {n + 1}]
                BY <3>1, OneLarger, Zenon
            <4>2. u[s \ {n + 1}] = Dispatch(g[s \ {n + 1}], seq[n + 1])
                BY <4>1
            <4> HIDE DEF h, u
            <4>3. QED
                BY <4>1, <4>2
        <3>2. CASE n + 1 \notin s
            <4>1. s \in SUBSET (1 .. n) /\ h[s] = g[s] /\ h[s \ {Max(s)}] = g[s \ {Max(s)}]
                BY <3>2, OneLarger, Zenon
            <4>2. g[s] = IF s = {} THEN base ELSE Dispatch(g[s \ {Max(s)}], seq[Max(s)])
                BY <2>1, <4>1 DEF Is
            <4> HIDE DEF h, u
            <4>3. QED
                BY <4>1, <4>2
        <3>3. QED
            BY <3>1, <3>2
    <2> HIDE DEF u
    <2>3. h = [s \in SUBSET (1 .. n + 1) |-> h[s]]
        OBVIOUS
    <2> HIDE DEF h
    <2>4. Is(h, n + 1)
        BY <2>2, <2>3 DEF Is
    <2>5. QED
        BY <2>4
<1>3. \E g : Is(g, k)
    <2> HIDE DEF Is
    <2>1. QED
        BY <1>0, <1>1, <1>2, Inductive
<1> DEFINE w == CHOOSE g : Is(g, k)
<1>4. Is(w, k)
    <2> HIDE DEF Is
    <2>1. QED
        BY <1>3
<1>5. AllDispatched(base, seq) = w[1 .. k]
    BY <1>0 DEF FoldLeft, MapThenFoldSet, AllDispatched
<1> HIDE DEF w
<1> DEFINE v == [n \in 0 .. k |-> w[1 .. n]]
<1>6. v[0] = base
    <2>1. v[0] = w[1 .. 0] /\ 1 .. 0 = {} /\ {} \in SUBSET (1 .. k)
        BY <1>0
    <2>2. w[{}] = base
        BY <1>4, <2>1
    <2>3. QED
        BY <2>1, <2>2
<1>7. ASSUME NEW n \in 1 .. k PROVE v[n] = Dispatch(v[n - 1], seq[n])
    <2>1. v[n] = w[1 .. n] /\ v[n - 1] = w[1 .. n - 1] /\ n \in Nat
        BY <1>0
    <2>2. Max(1 .. n) = n /\ (1 .. n) \ {n} = 1 .. n - 1 /\ 1 .. n # {} /\ 1 .. n \in SUBSET (1 .. k)
        <3>1. n \in Nat /\ n \in 1 .. n
            BY <1>0
        <3>2. Max(1 .. n) = n
            BY <3>1, LargestOf
        <3>3. QED
            BY <1>0, <3>1, <3>2
    <2>3. w[1 .. n] = Dispatch(w[1 .. n - 1], seq[n])
        BY <1>4, <2>2
    <2> HIDE DEF v
    <2>4. QED
        BY <2>1, <2>3
<1>8. v[k] = w[1 .. k]
    BY <1>0
<1>9. QED
    BY <1>5, <1>6, <1>7, <1>8

KeptOf(base, seq) == FoldLeft(Keep, base, seq)

\* The images after each event.
LEMMA KeepUnrolls ==
    ASSUME NEW base, NEW seq, NEW k, Spans(seq, k)
    PROVE  \E v : /\ v[0] = base /\ v[k] = KeptOf(base, seq)
                  /\ \A n \in 1 .. k : v[n] = Keep(v[n - 1], seq[n])
PROOF
<1>0. k \in Nat /\ DOMAIN seq = 1 .. k
    BY DEF Spans
<1> DEFINE Is(g, n) == g = [s \in SUBSET (1 .. n) |-> IF s = {} THEN base ELSE Keep(g[s \ {Max(s)}], seq[Max(s)])]
           S == {n \in Nat : \E g : Is(g, n)}
<1>1. 0 \in S
    <2>1. SUBSET (1 .. 0) = {{}}
        OBVIOUS
    <2>2. Is([s \in SUBSET (1 .. 0) |-> base], 0)
        BY <2>1
    <2>3. QED
        BY <2>2
<1>2. ASSUME NEW n \in Nat, n \in S PROVE n + 1 \in S
    <2>1. PICK g : Is(g, n)
        BY <1>2
    <2> DEFINE u == [t \in SUBSET (1 .. n) |-> Keep(g[t], seq[n + 1])]
               h == [s \in SUBSET (1 .. n + 1) |-> IF n + 1 \in s THEN u[s \ {n + 1}] ELSE g[s]]
    <2> HIDE DEF Is
    <2>2. \A s \in SUBSET (1 .. n + 1) :
             h[s] = IF s = {} THEN base ELSE Keep(h[s \ {Max(s)}], seq[Max(s)])
        <3> TAKE s \in SUBSET (1 .. n + 1)
        <3>1. CASE n + 1 \in s
            <4>1. /\ Max(s) = n + 1 /\ s # {} /\ s \ {n + 1} \in SUBSET (1 .. n)
                  /\ h[s] = u[s \ {n + 1}] /\ h[s \ {n + 1}] = g[s \ {n + 1}]
                BY <3>1, OneLarger, Zenon
            <4>2. u[s \ {n + 1}] = Keep(g[s \ {n + 1}], seq[n + 1])
                BY <4>1
            <4> HIDE DEF h, u
            <4>3. QED
                BY <4>1, <4>2
        <3>2. CASE n + 1 \notin s
            <4>1. s \in SUBSET (1 .. n) /\ h[s] = g[s] /\ h[s \ {Max(s)}] = g[s \ {Max(s)}]
                BY <3>2, OneLarger, Zenon
            <4>2. g[s] = IF s = {} THEN base ELSE Keep(g[s \ {Max(s)}], seq[Max(s)])
                BY <2>1, <4>1 DEF Is
            <4> HIDE DEF h, u
            <4>3. QED
                BY <4>1, <4>2
        <3>3. QED
            BY <3>1, <3>2
    <2> HIDE DEF u
    <2>3. h = [s \in SUBSET (1 .. n + 1) |-> h[s]]
        OBVIOUS
    <2> HIDE DEF h
    <2>4. Is(h, n + 1)
        BY <2>2, <2>3 DEF Is
    <2>5. QED
        BY <2>4
<1>3. \E g : Is(g, k)
    <2> HIDE DEF Is
    <2>1. QED
        BY <1>0, <1>1, <1>2, Inductive
<1> DEFINE w == CHOOSE g : Is(g, k)
<1>4. Is(w, k)
    <2> HIDE DEF Is
    <2>1. QED
        BY <1>3
<1>5. KeptOf(base, seq) = w[1 .. k]
    BY <1>0 DEF FoldLeft, MapThenFoldSet, KeptOf
<1> HIDE DEF w
<1> DEFINE v == [n \in 0 .. k |-> w[1 .. n]]
<1>6. v[0] = base
    <2>1. v[0] = w[1 .. 0] /\ 1 .. 0 = {} /\ {} \in SUBSET (1 .. k)
        BY <1>0
    <2>2. w[{}] = base
        BY <1>4, <2>1
    <2>3. QED
        BY <2>1, <2>2
<1>7. ASSUME NEW n \in 1 .. k PROVE v[n] = Keep(v[n - 1], seq[n])
    <2>1. v[n] = w[1 .. n] /\ v[n - 1] = w[1 .. n - 1] /\ n \in Nat
        BY <1>0
    <2>2. Max(1 .. n) = n /\ (1 .. n) \ {n} = 1 .. n - 1 /\ 1 .. n # {} /\ 1 .. n \in SUBSET (1 .. k)
        <3>1. n \in Nat /\ n \in 1 .. n
            BY <1>0
        <3>2. Max(1 .. n) = n
            BY <3>1, LargestOf
        <3>3. QED
            BY <1>0, <3>1, <3>2
    <2>3. w[1 .. n] = Keep(w[1 .. n - 1], seq[n])
        BY <1>4, <2>2
    <2> HIDE DEF v
    <2>4. QED
        BY <2>1, <2>3
<1>8. v[k] = w[1 .. k]
    BY <1>0
<1>9. QED
    BY <1>5, <1>6, <1>7, <1>8

-----------------------------------------------------------------------------
(* The lines of an image.                                                  *)

\* What each step of the walk takes on, the walk has at the end.  G[n] is what
\* holds after n candidates.
LEMMA WalkKeeps ==
    ASSUME NEW base, NEW seq \in Seq(Int), NEW G, base \in G[0],
           \A n \in 1 .. Len(seq) : \A x \in G[n - 1] : Place(x, seq[n]) \in G[n]
    PROVE  FoldLeft(Place, base, seq) \in G[Len(seq)]
PROOF
<1> DEFINE k == Len(seq)
           all == AllPlaced(base, seq)
<1>1. k \in Nat /\ Spans(seq, k)
    BY DEF Spans
<1> HIDE DEF k
<1>2. PICK v : v[0] = base /\ v[k] = all /\ \A n \in 1 .. k : v[n] = Place(v[n - 1], seq[n])
    BY <1>1, PlaceUnrolls
<1> HIDE DEF all
<1> DEFINE S == {n \in Nat : n <= k => v[n] \in G[n]}
<1>3. 0 \in S
    BY <1>2
<1>4. ASSUME NEW n \in Nat, n \in S PROVE n + 1 \in S
    <2> SUFFICES ASSUME n + 1 <= k PROVE v[n + 1] \in G[n + 1]
        OBVIOUS
    <2>1. n + 1 \in 1 .. k /\ (n + 1) - 1 = n /\ v[n] \in G[n]
        BY <1>1, <1>4
    <2>2. v[n + 1] = Place(v[n], seq[n + 1])
        BY <1>2, <2>1
    <2>3. \A x \in G[n] : Place(x, seq[n + 1]) \in G[n + 1]
        BY <2>1 DEF k
    <2>4. QED
        BY <2>1, <2>2, <2>3
<1> HIDE DEF S
<1>5. k \in S
    BY <1>1, <1>3, <1>4, Inductive
<1>6. all \in G[k]
    BY <1>1, <1>2, <1>5 DEF S
<1>7. QED
    BY <1>6 DEF all, k, AllPlaced

\* What division of integers gives.
LEMMA DivisionRoundsDown ==
    ASSUME NEW x \in Int, NEW n \in Nat \ {0}
    PROVE  x \div n \in Int /\ (x \div n) * n <= x /\ x < (x \div n) * n + n
PROOF OBVIOUS

\* Three sequences put together, as the walk does.
LEMMA ThreeJoined ==
    ASSUME NEW a \in Seq(Int), NEW b \in Seq(Int), NEW c \in Seq(Int)
    PROVE  LET w == a \o b \o c
           IN  /\ w \in Seq(Int) /\ Len(w) = Len(a) + Len(b) + Len(c)
               /\ \A n \in 1 .. Len(a) : w[n] = a[n]
               /\ \A n \in 1 .. Len(b) : w[Len(a) + n] = b[n]
               /\ \A n \in 1 .. Len(c) : w[Len(a) + Len(b) + n] = c[n]
PROOF OBVIOUS

\* A multiple of a number is not between two others.
LEMMA MultiplesApart ==
    ASSUME NEW n \in Nat \ {0}, NEW j \in Int, NEW k \in Int,
           k * n - j * n < n, j * n - k * n < n
    PROVE  k = j
PROOF
<1>1. k * n \in Int /\ j * n \in Int /\ (k - j) * n = k * n - j * n /\ k - j \in Int
    OBVIOUS
<1>2. k - j >= 1 => (k - j) * n >= n
    OBVIOUS
<1>3. k - j <= -1 => (k - j) * n <= -n
    OBVIOUS
<1>4. QED
    BY <1>1, <1>2, <1>3

\* A quarter of the period is exact.
LEMMA Sizes == Tolerance \in Nat \ {0} /\ Period = 4 * Tolerance /\ Lines \in Nat \ {0}
PROOF
<1>1. Period \in Nat \ {0} /\ Period % 4 = 0 /\ Lines \in Nat \ {0}
    BY GridAssumption
<1>2. \A p \in Nat \ {0} : p % 4 = 0 => p \div 4 \in Nat \ {0} /\ p = 4 * (p \div 4)
    OBVIOUS
<1>3. QED
    BY <1>1, <1>2 DEF Tolerance

\* The slot of a candidate near a lattice point is that of the point.
LEMMA SlotIs ==
    ASSUME NEW hint \in Int, NEW k \in Nat, NEW e \in -Tolerance .. Tolerance
    PROVE  /\ SlotsOf(hint + k * Period + e, hint) \subseteq {k}
           /\ k \in SlotsOf(hint + k * Period + e, hint)
PROOF
<1> DEFINE c == hint + k * Period + e
<1>1. k * Period \in Int /\ Period \in Nat /\ Period = 4 * Tolerance /\ Tolerance \in Nat \ {0} /\ e \in Int
    BY Sizes
<1>2. Near(c, hint + k * Period)
    BY <1>1 DEF Near
<1>3. ASSUME NEW j \in Nat, Near(c, hint + j * Period) PROVE j = k
    <2>1. j * Period \in Int /\ (k - j) * Period = k * Period - j * Period
        BY <1>1
    <2>2. (k - j) * Period + e \in -Tolerance .. Tolerance
        BY <1>1, <1>3, <2>1 DEF Near
    <2>3. (k - j) * Period \in -(2 * Tolerance) .. 2 * Tolerance
        BY <1>1, <2>2
    <2>4. k - j >= 1 => (k - j) * Period >= Period
        BY <1>1
    <2>5. k - j <= -1 => (k - j) * Period <= -Period
        BY <1>1
    <2>6. QED
        BY <1>1, <2>3, <2>4, <2>5
<1>4. k <= (c - hint + Period) \div Period
    <2>1. c - hint + Period = k * Period + (Period + e) /\ Period + e >= 0
        BY <1>1
    <2>2. k * Period <= c - hint + Period
        BY <1>1, <2>1
    <2> HIDE DEF c
    <2>3. c \in Int
        BY <1>1 DEF c
    <2>4. \A x \in Int : k * Period <= x => k <= x \div Period
        BY <1>1
    <2>5. QED
        BY <1>1, <2>2, <2>3, <2>4
<1>5. QED
    BY <1>2, <1>3, <1>4 DEF SlotsOf

\* The anchor is one of the candidates, with a slot of its lattice if it has one.
LEMMA AnchorIs ==
    ASSUME NEW cands \in Seq(Int), cands # <<>>, NEW hint \in Int
    PROVE  LET a == SelectAnchor(cands, hint)
           IN  /\ a.at \in DOMAIN cands /\ a.slot \in Nat
               /\ a.slot \in SlotsOf(cands[a.at], hint)
                  \/ \A i \in DOMAIN cands : SlotsOf(cands[i], hint) = {}
PROOF
<1> DEFINE spaced == {i \in 1 .. Len(cands) - 1 :
                         \E k \in 1 .. MaxAnchorGap : Near(cands[i + 1], cands[i] + k * Period)}
           lattice == {i \in DOMAIN cands : SlotsOf(cands[i], hint) # {}}
           Slotted(S) == [at |-> Min(S), slot |-> Min(SlotsOf(cands[Min(S)], hint))]
           Plain(S) == [at |-> Min(S), slot |-> 0]
           a == SelectAnchor(cands, hint)
<1>1. DOMAIN cands = 1 .. Len(cands) /\ Len(cands) \in Nat \ {0}
    OBVIOUS
<1>2. spaced \subseteq DOMAIN cands /\ lattice \subseteq DOMAIN cands /\ 1 \in DOMAIN cands
    BY <1>1
<1>3. \A i : SlotsOf(cands[i], hint) \subseteq Nat
    BY DEF SlotsOf
<1>4. a = IF spaced \cap lattice # {} THEN Slotted(spaced \cap lattice)
          ELSE IF lattice # {} THEN Slotted(lattice)
          ELSE IF spaced # {} THEN Plain(spaced)
          ELSE Plain({1})
    BY DEF SelectAnchor
<1>5. ASSUME NEW S \in SUBSET lattice, S # {}
      PROVE  /\ Slotted(S).at \in DOMAIN cands /\ Slotted(S).slot \in Nat
             /\ Slotted(S).slot \in SlotsOf(cands[Slotted(S).at], hint)
    <2>1. Min(S) \in S
        BY <1>1, <1>2, <1>5, SmallestOf
    <2>2. Min(SlotsOf(cands[Min(S)], hint)) \in SlotsOf(cands[Min(S)], hint)
        BY <1>3, <2>1, SmallestOf
    <2>3. QED
        BY <1>2, <1>3, <2>1, <2>2
<1>6. ASSUME NEW S \in SUBSET DOMAIN cands, S # {}
      PROVE  Plain(S).at \in DOMAIN cands /\ Plain(S).slot \in Nat
    <2>1. Min(S) \in S
        BY <1>1, <1>6, SmallestOf
    <2>2. QED
        BY <2>1
<1>7. CASE lattice # {}
    <2> DEFINE S == IF spaced \cap lattice # {} THEN spaced \cap lattice ELSE lattice
    <2>1. a = Slotted(S) /\ S \in SUBSET lattice /\ S # {}
        BY <1>4, <1>7
    <2> HIDE DEF S, Slotted, lattice, spaced, a
    <2>2. QED
        BY <1>5, <2>1 DEF a
<1>8. CASE lattice = {}
    <2> DEFINE S == IF spaced # {} THEN spaced ELSE {1}
    <2>1. a = Plain(S) /\ S \in SUBSET DOMAIN cands /\ S # {}
        BY <1>2, <1>4, <1>8
    <2>2. \A i \in DOMAIN cands : SlotsOf(cands[i], hint) = {}
        BY <1>8
    <2> HIDE DEF S, Plain, lattice, spaced, a
    <2>3. QED
        BY <1>6, <2>1, <2>2 DEF a
<1>9. QED
    BY <1>7, <1>8

\* One candidate: it is passed over, or k lines are added, all but the last at
\* the nominal period, the last where the candidate is, unless it is off.
LEMMA PlaceIs ==
    ASSUME NEW g \in Seq(Int), g # <<>>, Len(g) <= Lines, NEW c \in Int
    PROVE  LET p == Place(g, c)
               at == g[Len(g)]
           IN  /\ p \in Seq(Int) /\ Len(p) \in Len(g) .. Lines
               /\ c < at + Period - Tolerance => p = g
               /\ c >= at + Period - Tolerance =>
                    \E k \in Nat \ {0} :
                        /\ \A m \in Int : Near(c, at + m * Period) => k = m
                        /\ \A n \in DOMAIN p :
                              \/ n <= Len(g) /\ p[n] = g[n]
                              \/ n > Len(g) /\ n < Len(g) + k /\ p[n] = at + (n - Len(g)) * Period
                              \/ n = Len(g) + k /\ p[n] = c /\ Near(c, at + k * Period)
                        /\ Near(c, at + k * Period) => Len(p) = Lines \/ Len(p) = Len(g) + k
PROOF
<1> DEFINE L == Len(g)
           at == g[L]
           q == (c - at - Tolerance + Period - 1) \div Period
           k == Max({1, q})
           filled == [n \in 1 .. k - 1 |-> at + n * Period]
           taken == IF Near(c, at + k * Period) THEN <<c>> ELSE <<>>
           whole == g \o filled \o taken
           p == Place(g, c)
<1>1. /\ Tolerance \in Nat \ {0} /\ Period = 4 * Tolerance /\ Period \in Nat \ {0} /\ Lines \in Nat \ {0}
      /\ L \in 1 .. Lines /\ at \in Int /\ Last(g) = at /\ \A n \in Int : n * Period \in Int
    BY Sizes DEF Last
<1>2. p = IF c < at + Period - Tolerance THEN g ELSE SubSeq(whole, 1, Min({Lines, Len(whole)}))
    BY <1>1 DEF Place
<1>3. CASE c < at + Period - Tolerance
    BY <1>1, <1>2, <1>3
<1>4. CASE c >= at + Period - Tolerance
    <2> DEFINE d == c - at - Tolerance + Period - 1
    <2>1. d \in Int /\ d >= Period /\ q = d \div Period
        BY <1>1, <1>4
    <2>2. q \in Int /\ q * Period <= d /\ d < q * Period + Period
        <3> HIDE DEF d
        <3>1. QED
            BY <1>1, <2>1, DivisionRoundsDown
    <2> HIDE DEF q
    <2>3. q >= 1
        <3>1. q <= 0 => q * Period <= 0
            BY <1>1, <2>2
        <3> HIDE DEF d
        <3>2. QED
            BY <1>1, <2>1, <2>2, <3>1
    <2>4. k = q
        <3>1. {1, q} \subseteq 1 .. q /\ q \in {1, q} /\ q \in Nat
            BY <2>2, <2>3
        <3>2. QED
            BY <3>1, LargestOf
    <2>5. ASSUME NEW m \in Int, Near(c, at + m * Period) PROVE k = m
        <3>1. m * Period \in Int /\ k * Period \in Int
            BY <1>1, <2>2, <2>4
        <3>2. c - at - m * Period \in -Tolerance .. Tolerance
            BY <1>1, <2>5, <3>1 DEF Near
        <3> HIDE DEF k, at, L
        <3>3. c \in Int /\ at \in Int
            BY <1>1
        <3>4. k * Period - m * Period < Period /\ m * Period - k * Period < Period
            BY <1>1, <2>2, <2>4, <3>1, <3>2, <3>3
        <3>5. QED
            BY <1>1, <2>2, <2>4, <3>4, MultiplesApart
    <2>6. k \in Nat \ {0}
        BY <2>2, <2>3, <2>4
    <2> HIDE DEF k
    <2>7. filled \in Seq(Int) /\ Len(filled) = k - 1 /\ \A n \in 1 .. k - 1 : filled[n] = at + n * Period
        BY <1>1, <2>6
    <2>8. /\ taken \in Seq(Int)
          /\ Near(c, at + k * Period) => Len(taken) = 1 /\ taken[1] = c
          /\ ~Near(c, at + k * Period) => Len(taken) = 0
        OBVIOUS
    <2> HIDE DEF filled, taken
    <2>9. /\ whole \in Seq(Int) /\ Len(whole) = L + (k - 1) + Len(taken)
          /\ \A n \in 1 .. L : whole[n] = g[n]
          /\ \A n \in 1 .. k - 1 : whole[L + n] = filled[n]
          /\ \A n \in 1 .. Len(taken) : whole[L + (k - 1) + n] = taken[n]
        <3>1. /\ whole \in Seq(Int) /\ Len(whole) = L + Len(filled) + Len(taken)
              /\ \A n \in 1 .. L : whole[n] = g[n]
              /\ \A n \in 1 .. Len(filled) : whole[L + n] = filled[n]
              /\ \A n \in 1 .. Len(taken) : whole[L + Len(filled) + n] = taken[n]
            BY <2>7, <2>8, ThreeJoined, Zenon
        <3> HIDE DEF L, whole
        <3>2. QED
            BY <2>7, <3>1
    <2> HIDE DEF whole
    <2>10. \A n \in 1 .. Len(whole) :
              \/ n <= L /\ whole[n] = g[n]
              \/ n > L /\ n < L + k /\ whole[n] = at + (n - L) * Period
              \/ n = L + k /\ whole[n] = c /\ Near(c, at + k * Period)
        <3> TAKE n \in 1 .. Len(whole)
        <3>0. Len(whole) \in Nat /\ L \in Nat /\ n \in Nat \ {0}
            BY <1>1, <2>9
        <3> HIDE DEF L, at
        <3>1. CASE n <= L
            BY <2>9, <3>0, <3>1
        <3>2. CASE n > L /\ n < L + k
            <4>1. n - L \in 1 .. k - 1 /\ L + (n - L) = n
                BY <2>6, <3>0, <3>2
            <4>2. whole[n] = filled[n - L]
                BY <2>9, <4>1
            <4>3. QED
                BY <2>7, <3>2, <4>1, <4>2
        <3>3. CASE n >= L + k
            <4>1. Near(c, at + k * Period) /\ Len(taken) = 1 /\ taken[1] = c
                <5>1. CASE ~Near(c, at + k * Period)
                    BY <2>6, <2>8, <2>9, <3>0, <3>3, <5>1
                <5>2. QED
                    BY <2>8, <5>1
            <4>2. n = L + k /\ L + (k - 1) + 1 = n
                BY <2>6, <2>9, <3>0, <3>3, <4>1
            <4>3. whole[L + (k - 1) + 1] = taken[1]
                BY <2>9, <4>1
            <4>4. QED
                BY <4>1, <4>2, <4>3
        <3>4. QED
            BY <2>6, <3>0, <3>1, <3>2, <3>3
    <2> DEFINE M == Min({Lines, Len(whole)})
    <2>11. Len(whole) \in Nat /\ M \in {Lines, Len(whole)} /\ M <= Lines /\ M <= Len(whole)
        <3>1. Len(whole) \in Nat
            BY <2>9
        <3>2. QED
            BY <1>1, <3>1, SmallerOf
    <2>12. p = SubSeq(whole, 1, M)
        <3>1. ~(c < at + Period - Tolerance)
            <4> HIDE DEF at, L
            <4>1. QED
                BY <1>1, <1>4
        <3>2. QED
            BY <1>2, <3>1
    <2> HIDE DEF M, p
    <2>13. Len(whole) >= L /\ M \in L .. Lines /\ M \in Nat
        <3>1. Len(taken) \in Nat
            BY <2>8
        <3> HIDE DEF L, at
        <3>2. Len(whole) >= L
            BY <1>1, <2>6, <2>9, <3>1
        <3>3. QED
            BY <1>1, <2>11, <3>2
    <2>14. p \in Seq(Int) /\ Len(p) = M /\ \A n \in 1 .. M : p[n] = whole[n]
        BY <2>9, <2>11, <2>12, <2>13
    <2>15. \A n \in DOMAIN p : n \in 1 .. Len(whole) /\ p[n] = whole[n]
        BY <2>11, <2>13, <2>14
    <2>16. Near(c, at + k * Period) => Len(p) = Lines \/ Len(p) = L + k
        <3> HIDE DEF L, at
        <3>1. SUFFICES ASSUME Near(c, at + k * Period) PROVE Len(p) = Lines \/ Len(p) = L + k
            OBVIOUS
        <3>2. Len(whole) = L + k
            <4>1. Len(taken) = 1
                BY <2>8, <3>1
            <4>2. Len(whole) = L + (k - 1) + Len(taken)
                BY <2>9
            <4>3. QED
                BY <1>1, <2>6, <4>1, <4>2
        <3>3. QED
            BY <2>11, <2>14, <3>2
    <2>17. /\ \A m \in Int : Near(c, at + m * Period) => k = m
           /\ \A n \in DOMAIN p :
                 \/ n <= Len(g) /\ p[n] = g[n]
                 \/ n > Len(g) /\ n < Len(g) + k /\ p[n] = at + (n - Len(g)) * Period
                 \/ n = Len(g) + k /\ p[n] = c /\ Near(c, at + k * Period)
           /\ Near(c, at + k * Period) => Len(p) = Lines \/ Len(p) = Len(g) + k
        BY <2>5, <2>10, <2>15, <2>16
    <2>18. ~(c < at + Period - Tolerance)
        <3> HIDE DEF at, L
        <3>1. QED
            BY <1>1, <1>4
    <2>19. p \in Seq(Int) /\ Len(p) \in Len(g) .. Lines
        BY <2>13, <2>14
    <2>20. p = Place(g, c)
        BY DEF p
    <2>21. QED
        BY <2>6, <2>17, <2>18, <2>19, <2>20, Zenon
<1>5. QED
    BY <1>1, <1>3, <1>4

\* The lattice points from a candidate backwards are a sequence of positions.
LEMMA LatticeIs ==
    ASSUME NEW c \in Int, NEW s \in Nat, NEW m \in Nat
    PROVE  LET x == [n \in 1 .. m |-> c - (s - n + 1) * Period]
           IN  x \in Seq(Int) /\ Len(x) = m
PROOF
<1>1. Period \in Nat
    BY Sizes
<1>2. ASSUME NEW n \in 1 .. m PROVE c - (s - n + 1) * Period \in Int
    BY <1>1
<1>3. QED
    BY <1>2

\* One slot further is one period later.
LEMMA OneSlotOn ==
    ASSUME NEW s \in Int, NEW n \in Int
    PROVE  /\ (s - n + 1) * Period = (s - (n + 1) + 1) * Period + Period
           /\ (s - (n + 1) + 1) * Period \in Int
PROOF
    BY Sizes

\* Counted from a slot or from line 0, a lattice point is the same.
LEMMA SlotsBack ==
    ASSUME NEW s \in Int, NEW n \in Int
    PROVE  (s - n + 1) * Period = s * Period - (n - 1) * Period
PROOF
    BY Sizes

\* What is left of a sequence behind its i-th element.
LEMMA RestIs ==
    ASSUME NEW x \in Seq(Int), NEW i \in 1 .. Len(x)
    PROVE  LET rest == SubSeq(x, i + 1, Len(x))
           IN  /\ rest \in Seq(Int) /\ Len(rest) = Len(x) - i
               /\ \A n \in 1 .. Len(rest) : rest[n] = x[i + n]
PROOF
<1>1. Len(x) \in Nat /\ i \in Nat /\ i + 1 \in Nat /\ i <= Len(x)
    OBVIOUS
<1>2. \A n \in 1 .. Len(x) - i : (i + 1) + n - 1 = i + n
    BY <1>1
<1>3. QED
    BY <1>1, <1>2

\* A sequence that agrees with another and has one element more appends it.
LEMMA OneMore ==
    ASSUME NEW x \in Seq(Int), NEW y \in Seq(Int), NEW c \in Int, Len(y) = Len(x) + 1,
           \A n \in 1 .. Len(x) : y[n] = x[n], y[Len(x) + 1] = c
    PROVE  Append(x, c) = y
PROOF
<1>1. Append(x, c) \in Seq(Int) /\ Len(Append(x, c)) = Len(x) + 1
    OBVIOUS
<1>2. \A n \in 1 .. Len(x) + 1 : Append(x, c)[n] = y[n]
    OBVIOUS
<1>3. QED
    BY <1>1, <1>2

\* The lines from the anchor back to line 0.
LEMMA BackIs ==
    ASSUME NEW cands \in Seq(Int), cands # <<>>, NEW hint \in Int
    PROVE  LET a == SelectAnchor(cands, hint)
               base == IF a.slot >= Lines THEN [n \in 1 .. Lines |-> cands[a.at] - (a.slot - n + 1) * Period]
                       ELSE [n \in 1 .. a.slot + 1 |-> cands[a.at] - (a.slot - n + 1) * Period]
           IN  /\ cands[a.at] \in Int /\ a.slot \in Nat /\ a.at \in 1 .. Len(cands)
               /\ WalkSyncGrid(cands, hint) = IF a.slot >= Lines THEN base
                                              ELSE FoldLeft(Place, base, SubSeq(cands, a.at + 1, Len(cands)))
PROOF
<1> DEFINE a == SelectAnchor(cands, hint)
           c == cands[a.at]
           base == IF a.slot >= Lines THEN [n \in 1 .. Lines |-> c - (a.slot - n + 1) * Period]
                   ELSE [n \in 1 .. a.slot + 1 |-> c - (a.slot - n + 1) * Period]
           back == [n \in 1 .. Min({a.slot, Lines}) |-> c - (a.slot - n + 1) * Period]
<1>1. a.at \in 1 .. Len(cands) /\ a.slot \in Nat
    <2>1. DOMAIN cands = 1 .. Len(cands)
        OBVIOUS
    <2>2. a.at \in DOMAIN cands /\ a.slot \in Nat
        BY AnchorIs, Zenon
    <2>3. QED
        BY <2>1, <2>2
<1> HIDE DEF a
<1>2. c \in Int
    BY <1>1
<1> HIDE DEF c
<1>3. Lines \in Nat \ {0} /\ Period \in Nat
    BY Sizes
<1>4. WalkSyncGrid(cands, hint) = IF a.slot >= Lines THEN back
                                  ELSE FoldLeft(Place, Append(back, c), SubSeq(cands, a.at + 1, Len(cands)))
    BY DEF WalkSyncGrid, WalkFrom, a, c
<1> DEFINE m == Min({a.slot, Lines})
<1>5. m \in {a.slot, Lines} /\ m <= a.slot /\ m <= Lines
    BY <1>1, <1>3, SmallerOf
<1>6. CASE a.slot >= Lines
    <2>1. m = Lines
        <3> HIDE DEF m
        <3>1. QED
            BY <1>1, <1>3, <1>5, <1>6
    <2>2. back = base
        BY <1>6, <2>1
    <2> HIDE DEF back, base
    <2>3. WalkSyncGrid(cands, hint) = base
        BY <1>4, <1>6, <2>2
    <2>4. QED
        BY <1>1, <1>2, <1>6, <2>3, Zenon DEF a, c, base
<1>7. CASE ~(a.slot >= Lines)
    <2>1. m = a.slot
        <3> HIDE DEF m
        <3>1. QED
            BY <1>1, <1>3, <1>5, <1>7
    <2> DEFINE b == [n \in 1 .. a.slot |-> c - (a.slot - n + 1) * Period]
               e == [n \in 1 .. a.slot + 1 |-> c - (a.slot - n + 1) * Period]
    <2>2. back = b /\ base = e
        BY <1>7, <2>1
    <2>3. Append(b, c) = e
        <3>1. b \in Seq(Int) /\ Len(b) = a.slot
            BY <1>1, <1>2, LatticeIs
        <3>2. e \in Seq(Int) /\ Len(e) = a.slot + 1
            <4>1. a.slot + 1 \in Nat
                BY <1>1
            <4>2. QED
                BY <1>1, <1>2, <4>1, LatticeIs
        <3>3. e[a.slot + 1] = c
            <4>1. a.slot + 1 \in 1 .. a.slot + 1 /\ (a.slot - (a.slot + 1) + 1) * Period = 0
                BY <1>1, <1>3
            <4>2. QED
                BY <1>2, <4>1
        <3>4. \A n \in 1 .. a.slot : e[n] = b[n]
            BY <1>1
        <3> HIDE DEF b, e
        <3>5. QED
            BY <1>2, <3>1, <3>2, <3>3, <3>4, OneMore, SMTT(60)
    <2> HIDE DEF b, e, back, base
    <2>4. WalkSyncGrid(cands, hint) = FoldLeft(Place, base, SubSeq(cands, a.at + 1, Len(cands)))
        BY <1>4, <1>7, <2>2, <2>3
    <2>5. QED
        BY <1>1, <1>2, <1>7, <2>4, Zenon DEF a, c, base
<1>8. QED
    BY <1>6, <1>7

\* Each line is a period from the one before, within the tolerance.
Regular(x) == \A n \in 1 .. Len(x) - 1 : Near(x[n + 1], x[n] + Period)

\* A candidate leaves the lines a period apart.
LEMMA PlaceRegular ==
    ASSUME NEW g \in Seq(Int), g # <<>>, Len(g) <= Lines, NEW c \in Int, Regular(g)
    PROVE  Regular(Place(g, c))
PROOF
<1> DEFINE p == Place(g, c)
           L == Len(g)
           at == g[L]
<1>1. L \in Nat \ {0} /\ at \in Int /\ \A n \in DOMAIN g : g[n] \in Int
    OBVIOUS
<1>2. p \in Seq(Int) /\ (c < at + Period - Tolerance => p = g)
    BY PlaceIs
<1>3. c < at + Period - Tolerance \/ c >= at + Period - Tolerance
    BY <1>1, Sizes
<1>4. CASE c < at + Period - Tolerance
    BY <1>2, <1>4
<1>5. CASE c >= at + Period - Tolerance
    <2>1. PICK k \in Nat \ {0} :
             \A n \in DOMAIN p :
                \/ n <= L /\ p[n] = g[n]
                \/ n > L /\ n < L + k /\ p[n] = at + (n - L) * Period
                \/ n = L + k /\ p[n] = c /\ Near(c, at + k * Period)
        BY <1>5, PlaceIs
    <2> HIDE DEF p
    <2> SUFFICES ASSUME NEW n \in 1 .. Len(p) - 1 PROVE Near(p[n + 1], p[n] + Period)
        BY DEF p, Regular
    <2>2. n \in DOMAIN p /\ n + 1 \in DOMAIN p /\ n \in Nat \ {0} /\ n + 1 \in Nat
        BY <1>2
    <2>3. Period \in Nat \ {0} /\ Tolerance \in Nat \ {0} /\ \A i \in Int : i * Period \in Int
        BY Sizes
    <2>4. \A x \in Int : Near(x, x)
        BY <2>3 DEF Near
    <2>5. CASE n + 1 <= L
        <3>1. n \in 1 .. L - 1 /\ ~(n > L) /\ ~(n = L + k) /\ ~(n + 1 > L) /\ ~(n + 1 = L + k)
            BY <1>1, <2>1, <2>2, <2>5
        <3>2. p[n] = g[n] /\ p[n + 1] = g[n + 1]
            BY <2>1, <2>2, <3>1
        <3>3. QED
            BY <3>1, <3>2 DEF Regular
    <2>6. CASE n + 1 > L
        <3>1. p[n] = at + (n - L) * Period
            <4>1. n + 1 <= L + k
                <5>1. n + 1 <= L \/ n + 1 < L + k \/ n + 1 = L + k
                    BY <2>1, <2>2
                <5> HIDE DEF L
                <5>2. QED
                    BY <1>1, <2>2, <5>1
            <4>2. CASE n = L
                <5>1. p[n] = g[n]
                    <6>1. ~(n > L) /\ ~(n = L + k)
                        BY <1>1, <2>2, <4>2
                    <6>2. QED
                        BY <2>1, <2>2, <6>1
                <5>2. (n - L) * Period = 0
                    BY <1>1, <2>3, <4>2
                <5>3. QED
                    BY <1>1, <4>2, <5>1, <5>2
            <4>3. CASE n # L
                <5>1. ~(n <= L) /\ ~(n = L + k)
                    <6> HIDE DEF L
                    <6>1. QED
                        BY <1>1, <2>2, <2>6, <4>1, <4>3
                <5>2. QED
                    BY <2>1, <2>2, <5>1
            <4>4. QED
                BY <4>2, <4>3
        <3>2. (n + 1 - L) * Period = (n - L) * Period + Period /\ (n - L) * Period \in Int
            BY <1>1, <2>2, <2>3
        <3> DEFINE to == at + (n + 1 - L) * Period
        <3>3. to \in Int /\ p[n] + Period = to
            <4> HIDE DEF L, at
            <4>1. QED
                BY <1>1, <2>3, <3>1, <3>2
        <3>4. CASE p[n + 1] = to
            <4> HIDE DEF to
            <4>1. QED
                BY <2>4, <3>3, <3>4
        <3>5. CASE n + 1 = L + k /\ p[n + 1] = c /\ Near(c, at + k * Period)
            <4>1. n + 1 - L = k
                <5> HIDE DEF L
                <5>1. QED
                    BY <1>1, <2>2, <3>5
            <4>2. QED
                BY <3>3, <3>5, <4>1
        <3>6. p[n + 1] = to \/ (n + 1 = L + k /\ p[n + 1] = c /\ Near(c, at + k * Period))
            <4>1. ~(n + 1 <= L)
                BY <1>1, <2>2, <2>6
            <4>2. QED
                BY <2>1, <2>2, <4>1
        <3>7. QED
            BY <3>4, <3>5, <3>6
    <2>7. QED
        BY <1>1, <2>2, <2>5, <2>6
<1>6. QED
    BY <1>3, <1>4, <1>5

Walked(x) == x \in Seq(Int) /\ x # <<>> /\ Len(x) <= Lines /\ Regular(x)

\* Whatever candidates a search came up with, in any order, the walk gives no
\* more lines than the mode has, each a period from the one before, within the
\* tolerance (walk_sync_grid of core/sync.py: the anchor, the lines before it,
\* the gaps it fills).
THEOREM GridIsRegular ==
    ASSUME NEW cands \in Seq(Int), NEW hint \in Int
    PROVE  LET grid == WalkSyncGrid(cands, hint)
           IN  /\ grid \in Seq(Int) /\ Len(grid) <= Lines
               /\ \A n \in 1 .. Len(grid) - 1 : Near(grid[n + 1], grid[n] + Period)
PROOF
<1> DEFINE grid == WalkSyncGrid(cands, hint)
<1>1. Lines \in Nat \ {0} /\ Period \in Nat \ {0} /\ Tolerance \in Nat \ {0}
    BY Sizes
<1>2. CASE cands = <<>>
    <2>1. grid = <<>>
        BY <1>2 DEF WalkSyncGrid
    <2>2. QED
        BY <1>1, <2>1
<1>3. CASE cands # <<>>
    <2> DEFINE a == SelectAnchor(cands, hint)
               c == cands[a.at]
               m == IF a.slot >= Lines THEN Lines ELSE a.slot + 1
               base == [n \in 1 .. m |-> c - (a.slot - n + 1) * Period]
               rest == SubSeq(cands, a.at + 1, Len(cands))
    <2>1. c \in Int /\ a.slot \in Nat /\ a.at \in 1 .. Len(cands)
        BY <1>3, BackIs
    <2>2. grid = IF a.slot >= Lines THEN base ELSE FoldLeft(Place, base, rest)
        <3>1. CASE a.slot >= Lines
            BY <1>3, <3>1, BackIs
        <3>2. CASE ~(a.slot >= Lines)
            BY <1>3, <3>2, BackIs
        <3>3. QED
            BY <3>1, <3>2
    <2> HIDE DEF a, c, grid
    <2>3. m \in 1 .. Lines
        BY <1>1, <2>1
    <2>4. Walked(base)
        <3> HIDE DEF m
        <3>1. base \in Seq(Int) /\ Len(base) = m
            <4>1. m \in Nat
                BY <1>1, <2>3
            <4>2. QED
                BY <2>1, <4>1, LatticeIs
        <3>2. ASSUME NEW n \in 1 .. m - 1 PROVE Near(base[n + 1], base[n] + Period)
            <4>1. n \in 1 .. m /\ n + 1 \in 1 .. m
                BY <1>1, <2>3
            <4>2. base[n] = c - (a.slot - n + 1) * Period /\ base[n + 1] = c - (a.slot - (n + 1) + 1) * Period
                BY <4>1
            <4>3. /\ (a.slot - n + 1) * Period = (a.slot - (n + 1) + 1) * Period + Period
                  /\ (a.slot - (n + 1) + 1) * Period \in Int
                <5>1. n \in Int /\ a.slot \in Int
                    BY <1>1, <2>1
                <5>2. QED
                    BY <5>1, OneSlotOn
            <4> DEFINE z == (a.slot - (n + 1) + 1) * Period
            <4>4. base[n + 1] - (base[n] + Period) = 0
                <5>1. z \in Int /\ base[n] = c - (z + Period) /\ base[n + 1] = c - z
                    BY <4>2, <4>3
                <5> HIDE DEF z, base
                <5>2. QED
                    BY <1>1, <2>1, <5>1
            <4>5. QED
                BY <1>1, <4>4 DEF Near
        <3> HIDE DEF base
        <3>3. base # <<>> /\ Len(base) <= Lines
            BY <1>1, <2>3, <3>1
        <3>4. QED
            BY <3>1, <3>2, <3>3 DEF Walked, Regular
    <2> HIDE DEF base
    <2>5. Walked(FoldLeft(Place, base, rest))
        <3> DEFINE G == [n \in Nat |-> {x \in Seq(Int) : Walked(x)}]
        <3>1. rest \in Seq(Int) /\ Len(rest) \in Nat
            BY <2>1
        <3> HIDE DEF rest
        <3>2. base \in G[0]
            BY <2>4 DEF Walked
        <3>3. ASSUME NEW n \in 1 .. Len(rest), NEW x \in G[n - 1]
              PROVE  Place(x, rest[n]) \in G[n]
            <4>1. n - 1 \in Nat /\ n \in Nat /\ rest[n] \in Int
                BY <3>1
            <4>2. Walked(x)
                BY <4>1
            <4> DEFINE y == Place(x, rest[n])
            <4>3. y \in Seq(Int) /\ Len(y) \in Len(x) .. Lines
                BY <4>1, <4>2, PlaceIs DEF Walked
            <4>4. Regular(y)
                BY <4>1, <4>2, PlaceRegular DEF Walked
            <4> HIDE DEF y
            <4>5. y # <<>> /\ Len(y) <= Lines
                BY <1>1, <4>2, <4>3 DEF Walked
            <4>6. Walked(y)
                BY <4>3, <4>4, <4>5 DEF Walked
            <4>7. QED
                BY <4>1, <4>3, <4>6 DEF y
        <3>4. FoldLeft(Place, base, rest) \in G[Len(rest)]
            <4> HIDE DEF G
            <4>1. QED
                BY <3>1, <3>2, <3>3, WalkKeeps
        <3>5. QED
            BY <3>1, <3>4
    <2>6. Walked(grid)
        BY <2>2, <2>4, <2>5
    <2>7. QED
        BY <2>6 DEF Walked, Regular, grid
<1>4. QED
    BY <1>2, <1>3

\* Each line is within j of where it is.
Exact(x, hint, j) == \A n \in 1 .. Len(x) : x[n] - (hint + (n - 1) * Period) \in -j .. j
Upto(s) == IF s < Lines THEN s + 1 ELSE Lines

\* A candidate near the slot of a line leaves the lines up to its own, each near its slot.
LEMMA PlaceExact ==
    ASSUME NEW g \in Seq(Int), g # <<>>, NEW hint \in Int, NEW j \in Nat, 2 * j <= Tolerance,
           NEW s0 \in Nat, NEW s \in Nat, s0 <= s, Exact(g, hint, j), Len(g) = Upto(s0),
           NEW c \in Int, c - (hint + s * Period) \in -j .. j
    PROVE  /\ Place(g, c) \in Seq(Int) /\ Place(g, c) # <<>> /\ Exact(Place(g, c), hint, j)
           /\ Len(Place(g, c)) = Upto(s)
PROOF
<1> DEFINE p == Place(g, c)
           L == Len(g)
           at == g[L]
           r == s - (L - 1)
<1>1. /\ Lines \in Nat \ {0} /\ Period \in Nat \ {0} /\ Tolerance \in Nat \ {0} /\ Period = 4 * Tolerance
      /\ \A i \in Int : i * Period \in Int
    BY Sizes
<1>2. L \in Nat \ {0} /\ at \in Int /\ L <= Lines /\ L <= s0 + 1
    BY <1>1 DEF Upto
<1>3. at - (hint + (L - 1) * Period) \in -j .. j
    BY <1>2, SMTT(60) DEF Exact
<1>4. p \in Seq(Int) /\ Len(p) \in L .. Lines
    BY <1>2, PlaceIs
<1>5. c < at + Period - Tolerance => p = g
    BY <1>2, PlaceIs
<1>6. ASSUME c >= at + Period - Tolerance
      PROVE  \E k \in Nat \ {0} :
                /\ \A m \in Int : Near(c, at + m * Period) => k = m
                /\ \A n \in DOMAIN p :
                      \/ n <= L /\ p[n] = g[n]
                      \/ n > L /\ n < L + k /\ p[n] = at + (n - L) * Period
                      \/ n = L + k /\ p[n] = c /\ Near(c, at + k * Period)
                /\ Near(c, at + k * Period) => Len(p) = Lines \/ Len(p) = L + k
    BY <1>2, <1>6, PlaceIs
<1> HIDE DEF p
<1>7. p # <<>>
    BY <1>2, <1>4
<1>8. r \in Nat /\ s * Period = (L - 1) * Period + r * Period /\ s * Period \in Int
      /\ (L - 1) * Period \in Int /\ r * Period \in Int
    <2> HIDE DEF at, L
    <2>1. QED
        BY <1>1, <1>2
<1>9. c - at - r * Period \in -(2 * j) .. 2 * j
    <2> DEFINE A == (L - 1) * Period
               R == r * Period
               S == s * Period
    <2>1. A \in Int /\ R \in Int /\ S = A + R /\ at - (hint + A) \in -j .. j /\ c - (hint + S) \in -j .. j
        BY <1>3, <1>8
    <2> HIDE DEF at, L, r, A, R, S
    <2>2. c - at - R \in -(2 * j) .. 2 * j
        BY <1>2, <2>1
    <2>3. QED
        BY <2>2 DEF R
<1>10. CASE r = 0
    <2>1. c < at + Period - Tolerance
        <3> HIDE DEF at, L, r
        <3>1. r * Period = 0
            BY <1>1, <1>10
        <3>2. c - at <= Tolerance
            BY <1>1, <1>2, <1>9, <3>1
        <3>3. QED
            BY <1>1, <1>2, <3>2
    <2>2. p = g
        BY <1>5, <2>1
    <2>3. L = Upto(s)
        <3> HIDE DEF L
        <3>1. s + 1 = L
            BY <1>2, <1>10
        <3>2. QED
            BY <1>1, <1>2, <3>1 DEF Upto
    <2>4. QED
        BY <1>4, <1>7, <2>2, <2>3 DEF p
<1>11. CASE r # 0
    <2>1. c >= at + Period - Tolerance
        <3> HIDE DEF at, L, r
        <3> DEFINE R == r * Period
        <3>1. R >= Period /\ R \in Int
            BY <1>1, <1>8, <1>11
        <3>2. c - at - R \in -(2 * j) .. 2 * j
            BY <1>9
        <3> HIDE DEF R
        <3>3. QED
            BY <1>1, <1>2, <3>1, <3>2
    <2>2. PICK k \in Nat \ {0} :
                /\ \A m \in Int : Near(c, at + m * Period) => k = m
                /\ \A n \in DOMAIN p :
                      \/ n <= L /\ p[n] = g[n]
                      \/ n > L /\ n < L + k /\ p[n] = at + (n - L) * Period
                      \/ n = L + k /\ p[n] = c /\ Near(c, at + k * Period)
                /\ Near(c, at + k * Period) => Len(p) = Lines \/ Len(p) = L + k
        BY <1>6, <2>1
    <2>3. Near(c, at + r * Period)
        <3> HIDE DEF at, L, r
        <3> DEFINE R == r * Period
        <3>1. R \in Int /\ c - at - R \in -(2 * j) .. 2 * j
            BY <1>8, <1>9
        <3>2. SUFFICES Near(c, at + R)
            OBVIOUS
        <3> HIDE DEF R
        <3>3. QED
            BY <1>1, <1>2, <3>1 DEF Near
    <2>4. k = r
        BY <1>8, <2>2, <2>3
    <2>5. Len(p) = Lines \/ Len(p) = L + k
        BY <2>2, <2>3, <2>4
    <2>6. Len(p) <= L + k /\ L + k = s + 1
        <3>1. Len(p) \in DOMAIN p
            BY <1>4, <1>7
        <3>2. Len(p) <= L \/ Len(p) < L + k \/ Len(p) = L + k
            BY <2>2, <3>1
        <3>3. L + k = s + 1
            <4> HIDE DEF L
            <4>1. QED
                BY <1>2, <2>4
        <3> HIDE DEF L
        <3>4. QED
            BY <1>1, <1>2, <1>4, <3>2, <3>3
    <2>7. Len(p) = Upto(s)
        <3> HIDE DEF L
        <3>1. Len(p) <= Lines /\ Len(p) \in Nat
            BY <1>1, <1>2, <1>4
        <3>2. QED
            BY <1>1, <2>5, <2>6, <3>1 DEF Upto
    <2>8. ASSUME NEW n \in 1 .. Len(p) PROVE p[n] - (hint + (n - 1) * Period) \in -j .. j
        <3>1. n \in DOMAIN p /\ n \in Nat \ {0}
            BY <1>4, SMTT(60)
        <3>2. CASE n <= L /\ p[n] = g[n]
            <4>1. n \in 1 .. L
                BY <1>2, <3>1, <3>2
            <4>2. QED
                BY <3>2, <4>1 DEF Exact
        <3>3. CASE p[n] = at + (n - L) * Period
            <4> DEFINE A == (L - 1) * Period
                       N == (n - L) * Period
                       S == (n - 1) * Period
            <4>1. A \in Int /\ N \in Int /\ S = A + N
                <5> HIDE DEF L
                <5>1. L \in Int /\ n \in Int
                    BY <1>2, <3>1
                <5>2. QED
                    BY <1>1, <5>1
            <4>2. at - (hint + A) \in -j .. j /\ p[n] = at + N
                BY <1>3, <3>3
            <4>3. SUFFICES p[n] - (hint + S) \in -j .. j
                OBVIOUS
            <4> HIDE DEF at, L, A, N, S
            <4>4. QED
                BY <1>2, <4>1, <4>2
        <3>4. CASE n = L + k /\ p[n] = c
            <4>1. n - 1 = s
                <5> HIDE DEF L
                <5>1. QED
                    BY <1>2, <2>4, <3>4
            <4>2. QED
                BY <3>4, <4>1
        <3>5. QED
            BY <2>2, <3>1, <3>2, <3>3, <3>4
    <2>9. QED
        BY <1>4, <1>7, <2>7, <2>8 DEF Exact, p
<1>12. QED
    BY <1>10, <1>11

\* A grid that has all its lines stays as it is.
LEMMA PlaceFull ==
    ASSUME NEW g \in Seq(Int), g # <<>>, Len(g) = Lines, NEW c \in Int
    PROVE  Place(g, c) = g
PROOF
<1> DEFINE p == Place(g, c)
           at == g[Len(g)]
<1>1. /\ Lines \in Nat \ {0} /\ p \in Seq(Int) /\ Len(p) = Lines
      /\ c < at + Period - Tolerance => p = g
    BY Sizes, PlaceIs, SMTT(60)
<1>2. ASSUME c >= at + Period - Tolerance PROVE \A n \in 1 .. Lines : p[n] = g[n]
    <2>1. PICK k \in Nat \ {0} :
            \A n \in DOMAIN p :
                \/ n <= Len(g) /\ p[n] = g[n]
                \/ n > Len(g) /\ n < Len(g) + k /\ p[n] = at + (n - Len(g)) * Period
                \/ n = Len(g) + k /\ p[n] = c /\ Near(c, at + k * Period)
        BY <1>2, Sizes, PlaceIs
    <2> HIDE DEF p, at
    <2>2. \A n \in 1 .. Lines : n \in DOMAIN p /\ ~(n > Len(g)) /\ n # Len(g) + k
        BY <1>1
    <2>3. QED
        BY <2>1, <2>2
<1>3. at \in Int /\ Period \in Int /\ Tolerance \in Int
    BY Sizes
<1> HIDE DEF p, at
<1>4. c >= at + Period - Tolerance => p = g
    BY <1>1, <1>2
<1>5. p = g
    BY <1>1, <1>3, <1>4
<1>6. QED
    BY <1>5 DEF p

\* A well spaced candidate on the lattice is the anchor, or one before it is.
LEMMA AnchorEarly ==
    ASSUME NEW cands \in Seq(Int), cands # <<>>, NEW hint \in Int,
           NEW i \in 1 .. Len(cands) - 1, NEW k \in 1 .. MaxAnchorGap,
           Near(cands[i + 1], cands[i] + k * Period), SlotsOf(cands[i], hint) # {}
    PROVE  SelectAnchor(cands, hint).at <= i
PROOF
<1> DEFINE spaced == {n \in 1 .. Len(cands) - 1 :
                         \E m \in 1 .. MaxAnchorGap : Near(cands[n + 1], cands[n] + m * Period)}
           lattice == {n \in DOMAIN cands : SlotsOf(cands[n], hint) # {}}
           Slotted(S) == [at |-> Min(S), slot |-> Min(SlotsOf(cands[Min(S)], hint))]
           both == spaced \cap lattice
<1>1. i \in both /\ both \subseteq Nat
    OBVIOUS
<1>2. SelectAnchor(cands, hint) = Slotted(both)
    BY <1>1 DEF SelectAnchor
<1> HIDE DEF both
<1>3. Min(both) <= i
    BY <1>1, SmallestOf
<1>4. QED
    BY <1>2, <1>3

\* Two candidates near lines are as far apart as the lines, within twice j.
LEMMA PairNear ==
    ASSUME NEW hint \in Int, NEW j \in Nat, 2 * j <= Tolerance, NEW c \in Int, NEW d \in Int,
           NEW S \in Int, NEW T \in Int, c - (hint + S) \in -j .. j, d - (hint + T) \in -j .. j
    PROVE  Near(d, c + (T - S))
PROOF
    BY Sizes DEF Near

\* The first m candidates are of the lines of an image, slot[i] the one of the
\* i-th, counted from 0; the others come behind an image whose last line was
\* heard, and two that are near each other.
OnLines(cands, m, slot, hint, j) ==
    /\ \A i \in 1 .. m : cands[i] - (hint + slot[i] * Period) \in -j .. j
    /\ \A i, k \in 1 .. m : i <= k => slot[i] <= slot[k]
    /\ m < Len(cands) => /\ slot[m] >= Lines - 1
                         /\ \E i \in 1 .. m - 1 : slot[i + 1] - slot[i] \in 1 .. MaxAnchorGap

\* Of the first m candidates near the lines of an image, within j, and however
\* many lines were missed, the walk gives every line up to the last one heard,
\* and each of them within j of where it is: jitter does not add up over a gap,
\* and no line is skipped or doubled.  Candidates behind the image change
\* nothing, once its last line was heard and two that are near each other
\* (select_anchor and walk_sync_grid).
THEOREM GridIsExact ==
    ASSUME NEW cands \in Seq(Int), cands # <<>>, NEW hint \in Int,
           NEW m \in 1 .. Len(cands), NEW slot \in [1 .. m -> Nat],
           NEW j \in Nat, 2 * j <= Tolerance, OnLines(cands, m, slot, hint, j)
    PROVE  LET grid == WalkSyncGrid(cands, hint)
               last == slot[m]
           IN  /\ Len(grid) = IF last < Lines THEN last + 1 ELSE Lines
               /\ \A n \in 1 .. Len(grid) : grid[n] - (hint + (n - 1) * Period) \in -j .. j
PROOF
<1> DEFINE grid == WalkSyncGrid(cands, hint)
           a == SelectAnchor(cands, hint)
           c == cands[a.at]
           u == Upto(a.slot)
           base == [n \in 1 .. u |-> c - (a.slot - n + 1) * Period]
           rest == SubSeq(cands, a.at + 1, Len(cands))
<1>1. /\ Lines \in Nat \ {0} /\ Period \in Nat \ {0} /\ Tolerance \in Nat \ {0} /\ Period = 4 * Tolerance
      /\ \A i \in Int : i * Period \in Int
    BY Sizes
<1>2. c \in Int /\ a.slot \in Nat /\ a.at \in 1 .. Len(cands)
    BY BackIs
<1>3. grid = IF a.slot >= Lines THEN base ELSE FoldLeft(Place, base, rest)
    <2>1. CASE a.slot >= Lines
        <3>1. u = Lines
            BY <1>1, <1>2, <2>1 DEF Upto
        <3>2. QED
            BY <2>1, <3>1, BackIs
    <2>2. CASE ~(a.slot >= Lines)
        <3>1. u = a.slot + 1
            BY <1>1, <1>2, <2>2 DEF Upto
        <3>2. QED
            BY <2>2, <3>1, BackIs
    <2>3. QED
        BY <2>1, <2>2
<1>4. DOMAIN cands = 1 .. Len(cands) /\ Len(cands) \in Nat \ {0}
    OBVIOUS
<1>4a. m \in 1 .. Len(cands) /\ m \in Nat
    BY <1>4
<1>4b. \A i \in 1 .. m : slot[i] \in Nat /\ cands[i] \in Int
    BY <1>4a
<1>5. a.slot = slot[a.at] /\ a.at <= m
    <2>1. ASSUME NEW i \in 1 .. m
          PROVE  SlotsOf(cands[i], hint) \subseteq {slot[i]} /\ slot[i] \in SlotsOf(cands[i], hint)
        <3> DEFINE s == slot[i]
                   S == s * Period
                   e == cands[i] - (hint + S)
        <3>1. cands[i] \in Int /\ s \in Nat /\ S \in Int /\ e \in -j .. j
            <4>1. cands[i] \in Int /\ s \in Nat
                BY <1>4b
            <4>2. e \in -j .. j
                BY DEF OnLines
            <4> HIDE DEF e, s
            <4>3. QED
                BY <1>1, <4>1, <4>2
        <3>2. e \in -Tolerance .. Tolerance
            <4> HIDE DEF e
            <4>1. QED
                BY <1>1, <3>1, SMTT(60)
        <3>3. hint + S + e = cands[i]
            <4> HIDE DEF S
            <4>1. QED
                BY <3>1, SMTT(60)
        <3> HIDE DEF e
        <3>4. SlotsOf(hint + s * Period + e, hint) \subseteq {s} /\ s \in SlotsOf(hint + s * Period + e, hint)
            BY <3>1, <3>2, SlotIs
        <3>5. QED
            BY <3>3, <3>4
    <2>2. \/ a.slot \in SlotsOf(cands[a.at], hint)
          \/ \A i \in DOMAIN cands : SlotsOf(cands[i], hint) = {}
        BY AnchorIs, Zenon
    <2>3. m < Len(cands) => a.at <= m
        <3> SUFFICES ASSUME m < Len(cands) PROVE a.at <= m
            OBVIOUS
        <3>1. PICK i \in 1 .. m - 1 : slot[i + 1] - slot[i] \in 1 .. MaxAnchorGap
            BY DEF OnLines
        <3>2. i \in 1 .. m /\ i + 1 \in 1 .. m /\ i \in 1 .. Len(cands) - 1 /\ i <= m
            BY <1>4a, <3>1
        <3>3. PICK s \in Nat : s = slot[i]
            BY <3>2
        <3>4. PICK t \in Nat : t = slot[i + 1]
            BY <3>2
        <3> DEFINE S == s * Period
                   T == t * Period
                   k == t - s
        <3>5. S \in Int /\ T \in Int /\ k * Period = T - S /\ k \in 1 .. MaxAnchorGap
            <4>1. k \in 1 .. MaxAnchorGap
                BY <3>1, <3>3, <3>4
            <4>2. S \in Int /\ T \in Int /\ k * Period = T - S
                BY <1>1
            <4>3. QED
                BY <4>1, <4>2
        <3>6. cands[i] - (hint + S) \in -j .. j /\ cands[i + 1] - (hint + T) \in -j .. j
            BY <3>2, <3>3, <3>4 DEF OnLines
        <3>7. cands[i] \in Int /\ cands[i + 1] \in Int
            BY <1>4, <1>4a, <3>2
        <3> DEFINE K == k * Period
        <3>8. Near(cands[i + 1], cands[i] + K)
            <4>1. K = T - S /\ S \in Int /\ T \in Int
                BY <3>5
            <4>2. PICK c1 \in Int : c1 = cands[i]
                BY <3>7
            <4>3. PICK c2 \in Int : c2 = cands[i + 1]
                BY <3>7
            <4>4. c1 - (hint + S) \in -j .. j /\ c2 - (hint + T) \in -j .. j
                BY <3>6, <4>2, <4>3
            <4> HIDE DEF K, S, T
            <4>5. Near(c2, c1 + (T - S))
                BY <4>1, <4>4, PairNear
            <4>6. QED
                BY <4>1, <4>2, <4>3, <4>5
        <3>9. SlotsOf(cands[i], hint) # {}
            BY <2>1, <3>2
        <3> HIDE DEF k, S, T, a
        <3>10. SelectAnchor(cands, hint).at <= i
            BY <3>2, <3>5, <3>8, <3>9, AnchorEarly DEF K
        <3>11. QED
            BY <1>2, <1>4a, <3>2, <3>10, SMTT(60) DEF a
    <2> HIDE DEF a
    <2>4. a.at \in 1 .. m
        BY <1>2, <1>4, <1>4a, <2>3
    <2>5. PICK at \in 1 .. m : at = a.at
        BY <2>4
    <2>6. at \in DOMAIN cands /\ SlotsOf(cands[at], hint) \subseteq {slot[at]} /\ SlotsOf(cands[at], hint) # {}
        <3>1. at \in DOMAIN cands
            BY <1>4, <1>4a, <2>5
        <3>2. SlotsOf(cands[at], hint) \subseteq {slot[at]} /\ slot[at] \in SlotsOf(cands[at], hint)
            BY <2>1, <2>5
        <3>3. QED
            BY <3>1, <3>2
    <2>7. a.slot \in SlotsOf(cands[at], hint)
        BY <2>2, <2>5, <2>6
    <2>8. at <= m
        BY <1>4a, <2>5
    <2>9. QED
        BY <2>5, <2>6, <2>7, <2>8
<1>6. c - (hint + a.slot * Period) \in -j .. j
    <2>1. a.at \in 1 .. m
        BY <1>2, <1>4a, <1>5
    <2>2. QED
        BY <1>5, <2>1 DEF OnLines
<1> HIDE DEF a, c, grid
<1>7. u \in 1 .. Lines /\ u \in Nat
    BY <1>1, <1>2, SMTT(60) DEF Upto
<1>8. base \in Seq(Int) /\ base # <<>> /\ Exact(base, hint, j) /\ Len(base) = Upto(a.slot)
    <2>1. base \in Seq(Int) /\ Len(base) = u
        <3> HIDE DEF u
        <3>1. QED
            BY <1>2, <1>7, LatticeIs, ZenonT(60)
    <2>2. ASSUME NEW n \in 1 .. u PROVE base[n] - (hint + (n - 1) * Period) \in -j .. j
        <3> DEFINE A == a.slot * Period
                   N == (n - 1) * Period
                   B == (a.slot - n + 1) * Period
        <3>1. n \in Int /\ a.slot \in Int
            BY <1>2, <1>7
        <3>2. A \in Int /\ N \in Int /\ B = A - N
            <4>1. B = A - N
                BY <3>1, SlotsBack
            <4>2. n - 1 \in Int
                BY <3>1
            <4>3. QED
                BY <1>1, <3>1, <4>1, <4>2
        <3>3. base[n] = c - B /\ c - (hint + A) \in -j .. j
            BY <1>6
        <3>4. SUFFICES base[n] - (hint + N) \in -j .. j
            OBVIOUS
        <3> HIDE DEF A, N, B, base, u
        <3>5. QED
            BY <1>2, <3>2, <3>3
    <2> HIDE DEF base
    <2>3. base # <<>>
        BY <1>7, <2>1
    <2>4. QED
        BY <2>1, <2>2, <2>3 DEF Exact
<1> HIDE DEF base, u
<1> DEFINE last == slot[m]
           ext == [i \in DOMAIN cands |-> IF i <= m THEN slot[i] ELSE Lines]
<1>9. last \in Nat /\ a.slot <= last
    <2>1. a.at \in 1 .. m /\ m \in 1 .. m /\ a.at <= m
        BY <1>2, <1>4a, <1>5
    <2>2. slot[a.at] <= slot[m]
        BY <2>1 DEF OnLines
    <2>3. QED
        BY <1>5, <2>1, <2>2
<1>10. Len(grid) = Upto(last) /\ Exact(grid, hint, j)
    <2>1. CASE a.slot >= Lines
        <3>1. Upto(a.slot) = Lines /\ Upto(last) = Lines
            <4> HIDE DEF last
            <4>1. QED
                BY <1>1, <1>2, <1>9, <2>1 DEF Upto
        <3>2. QED
            BY <1>3, <1>8, <2>1, <3>1
    <2>2. CASE ~(a.slot >= Lines)
        <3> DEFINE at == a.at
        <3>0. at \in 1 .. Len(cands)
            BY <1>2
        <3> HIDE DEF at
        <3> DEFINE G == [n \in Nat |-> {x \in Seq(Int) : x # <<>> /\ Exact(x, hint, j) /\ Len(x) = Upto(ext[at + n])}]
        <3>1. rest \in Seq(Int) /\ Len(rest) = Len(cands) - at
              /\ \A n \in 1 .. Len(rest) : rest[n] = cands[at + n]
            <4>1. rest = SubSeq(cands, at + 1, Len(cands))
                BY DEF at
            <4> HIDE DEF rest
            <4>2. QED
                BY <3>0, <4>1, RestIs
        <3> HIDE DEF rest
        <3>2. base \in G[0]
            <4>1. at + 0 = at /\ a.slot = ext[at]
                BY <1>4, <1>5, <3>0 DEF at
            <4>2. QED
                BY <1>8, <4>1
        <3>3. ASSUME NEW n \in 1 .. Len(rest), NEW x \in G[n - 1]
              PROVE  Place(x, rest[n]) \in G[n]
            <4>1. n \in Nat /\ n - 1 \in Nat /\ at + (n - 1) \in DOMAIN cands /\ at + n \in DOMAIN cands
                  /\ at + (n - 1) <= at + n
                BY <1>4, <3>0, <3>1
            <4>2. x \in Seq(Int) /\ x # <<>> /\ Exact(x, hint, j) /\ Len(x) = Upto(ext[at + (n - 1)])
                BY <4>1
            <4>3. rest[n] = cands[at + n] /\ rest[n] \in Int
                BY <3>1, <4>1
            <4> DEFINE y == Place(x, rest[n])
            <4>4. ASSUME at + n <= m PROVE y \in G[n]
                <5>1. at + (n - 1) \in 1 .. m /\ at + n \in 1 .. m /\ at + (n - 1) <= at + n
                    BY <1>4, <1>4a, <4>1, <4>4
                <5>2. /\ ext[at + (n - 1)] = slot[at + (n - 1)] /\ ext[at + n] = slot[at + n]
                      /\ slot[at + (n - 1)] <= slot[at + n]
                    BY <4>1, <5>1, SMTT(60) DEF OnLines
                <5>3. PICK s0 \in Nat : s0 = slot[at + (n - 1)]
                    BY <5>1
                <5>4. PICK s \in Nat : s = slot[at + n]
                    BY <5>1
                <5>5. PICK d \in Int : d = rest[n]
                    BY <4>3
                <5>6. cands[at + n] - (hint + slot[at + n] * Period) \in -j .. j
                    BY <5>1 DEF OnLines
                <5>7. /\ x \in Seq(Int) /\ x # <<>> /\ Exact(x, hint, j) /\ Len(x) = Upto(s0) /\ s0 <= s
                      /\ d - (hint + s * Period) \in -j .. j
                    BY <4>2, <4>3, <5>2, <5>3, <5>4, <5>5, <5>6
                <5>8. /\ Place(x, d) \in Seq(Int) /\ Place(x, d) # <<>> /\ Exact(Place(x, d), hint, j)
                      /\ Len(Place(x, d)) = Upto(s)
                    BY <5>7, PlaceExact, SMTT(60)
                <5>9. y \in Seq(Int) /\ y # <<>> /\ Exact(y, hint, j) /\ Len(y) = Upto(ext[at + n])
                    BY <5>2, <5>4, <5>5, <5>8
                <5> HIDE DEF y, ext
                <5>10. QED
                    BY <4>1, <5>9
            <4>5. ASSUME ~(at + n <= m) PROVE y \in G[n]
                <5>1. m < Len(cands) /\ last >= Lines - 1
                    <6>1. m < Len(cands)
                        BY <1>4, <1>4a, <3>0, <4>1, <4>5
                    <6>2. QED
                        BY <6>1 DEF OnLines
                <5>2. Upto(last) = Lines /\ Upto(Lines) = Lines
                    <6> HIDE DEF last
                    <6>1. QED
                        BY <1>1, <1>9, <5>1 DEF Upto
                <5>3. ext[at + n] = Lines
                    BY <4>1, <4>5
                <5>4. ext[at + (n - 1)] \in {last, Lines}
                    <6>1. CASE at + (n - 1) <= m
                        <7>1. at + (n - 1) = m
                            BY <1>4, <1>4a, <3>0, <4>1, <4>5, <6>1
                        <7>2. QED
                            BY <4>1, <7>1
                    <6>2. CASE ~(at + (n - 1) <= m)
                        BY <4>1, <6>2
                    <6>3. QED
                        BY <6>1, <6>2
                <5> HIDE DEF ext, last
                <5>5. Len(x) = Lines /\ Upto(ext[at + n]) = Lines
                    BY <4>2, <5>2, <5>3, <5>4
                <5>6. y = x
                    BY <4>2, <4>3, <5>5, PlaceFull
                <5>7. QED
                    BY <4>1, <4>2, <5>5, <5>6
            <4>7. y \in G[n]
                BY <1>4a, <3>0, <4>1, <4>4, <4>5
            <4>8. QED
                BY <4>7 DEF y
        <3>4. FoldLeft(Place, base, rest) \in G[Len(rest)]
            <4> HIDE DEF G
            <4>1. QED
                BY <3>1, <3>2, <3>3, WalkKeeps
        <3>5. Len(rest) \in Nat /\ at + Len(rest) = Len(cands)
            BY <1>4, <3>0, <3>1
        <3>6. Upto(ext[Len(cands)]) = Upto(last)
            <4>1. CASE m = Len(cands)
                BY <1>4, <4>1
            <4>2. CASE m # Len(cands)
                <5>1. m < Len(cands) /\ last >= Lines - 1 /\ ext[Len(cands)] = Lines
                    <6> DEFINE K == Len(cands)
                    <6>0. K \in Nat /\ K # 0 /\ m \in 1 .. K /\ m # K
                        BY <1>4, <1>4a, <4>2, ZenonT(60)
                    <6> HIDE DEF K
                    <6>1a. m < K /\ K \in 1 .. K
                        BY <6>0
                    <6>1. m < Len(cands) /\ Len(cands) \in DOMAIN cands
                        BY <1>4, <6>1a DEF K
                    <6>2. ext[Len(cands)] = Lines
                        BY <1>4a, <6>1
                    <6>3. QED
                        BY <6>1, <6>2, SMTT(60) DEF OnLines
                <5> HIDE DEF last, ext
                <5>2. QED
                    BY <1>1, <1>9, <5>1 DEF Upto
            <4>3. QED
                BY <4>1, <4>2
        <3>6a. G[Len(rest)] = {x \in Seq(Int) : x # <<>> /\ Exact(x, hint, j) /\ Len(x) = Upto(last)}
            <4> HIDE DEF ext, last
            <4>1. QED
                BY <3>5, <3>6
        <3> HIDE DEF G, last
        <3>7. QED
            BY <1>3, <2>2, <3>4, <3>6a
    <2>3. QED
        BY <2>1, <2>2
<1>11. QED
    BY <1>10 DEF Exact, Upto, grid

-----------------------------------------------------------------------------
(* The line decoder and the decoder as records.                            *)

\* r is a record with these fields, whatever they hold.
IsRecord(r, fields) == r = [f \in fields |-> r[f]]
IsSequence(s) == \E S : s \in Seq(S)

LineFields == {"family", "visEnd", "lo", "hi", "searched", "syncs", "rows"}
LinesOk(l) == IsRecord(l, LineFields) /\ IsSequence(l.rows)

\* The rows and events are sequences of no set named beforehand.
LEMMA OneAppended ==
    ASSUME NEW s, IsSequence(s), NEW e
    PROVE  /\ IsSequence(Append(s, e)) /\ Len(s) \in Nat /\ Len(Append(s, e)) = Len(s) + 1
           /\ \A n \in 1 .. Len(s) : Append(s, e)[n] = s[n]
           /\ Append(s, e)[Len(s) + 1] = e
           /\ DOMAIN s = 1 .. Len(s) /\ DOMAIN Append(s, e) = 1 .. Len(s) + 1
           /\ s \o <<e>> = Append(s, e)
PROOF
<1>1. PICK S : s \in Seq(S)
    BY DEF IsSequence
<1> DEFINE T == S \cup {e}
<1>2. s \in Seq(T) /\ e \in T
    <2>1. Len(s) \in Nat /\ \A n \in 1 .. Len(s) : s[n] \in T
        BY <1>1
    <2>2. s = [n \in 1 .. Len(s) |-> s[n]]
        BY <1>1
    <2> HIDE DEF T
    <2>3. s \in Seq(T)
        BY <2>1, <2>2
    <2>4. QED
        BY <2>3 DEF T
<1> HIDE DEF T
<1>3. Append(s, e) \in Seq(T)
    BY <1>2
<1>4. /\ Len(s) \in Nat /\ Len(Append(s, e)) = Len(s) + 1 /\ Append(s, e)[Len(s) + 1] = e
      /\ \A n \in 1 .. Len(s) : Append(s, e)[n] = s[n]
    BY <1>2
<1>5. DOMAIN s = 1 .. Len(s) /\ DOMAIN Append(s, e) = 1 .. Len(s) + 1
    BY <1>2, <1>3, <1>4
<1>6. s \o <<e>> = Append(s, e)
    BY <1>2
<1>7. QED
    BY <1>3, <1>4, <1>5, <1>6 DEF IsSequence

\* There are none at first.
LEMMA EmptySequence == IsSequence(<<>>) /\ Len(<<>>) = 0
PROOF
<1>1. <<>> \in Seq({})
    OBVIOUS
<1>2. QED
    BY <1>1 DEF IsSequence

\* Painting a line leaves the rows a sequence.
LEMMA PaintKeeps ==
    ASSUME NEW l, LinesOk(l), NEW grid
    PROVE  LinesOk(TryDecodeNext(l, grid))
PROOF
<1>1. ASSUME NEW row PROVE LinesOk([l EXCEPT !.rows = Append(@, row)])
    <2>1. IsSequence(Append(l.rows, row))
        BY OneAppended DEF LinesOk
    <2>2. QED
        BY <2>1 DEF LinesOk, IsRecord, LineFields
<1>2. ASSUME NEW at PROVE LinesOk(DecodeAt(l, at))
    BY <1>1 DEF DecodeAt
<1>3. QED
    BY <1>2 DEF TryDecodeNext

\* So does giving up audio, pruned or capped.
LEMMA TrimKeeps ==
    ASSUME NEW l, LinesOk(l), NEW grid
    PROVE  LinesOk(EnforceStallCap(Prune(l, grid)))
PROOF
<1>1. ASSUME NEW x, LinesOk(x), NEW lo, NEW syncs
      PROVE  LinesOk([x EXCEPT !.lo = lo]) /\ LinesOk([x EXCEPT !.lo = lo, !.syncs = syncs])
    BY <1>1 DEF LinesOk, IsRecord, LineFields
<1>2. ASSUME NEW x, LinesOk(x), NEW to PROVE LinesOk(PruneTo(x, to))
    BY <1>1, <1>2, Zenon DEF PruneTo
<1>3. LinesOk(Prune(l, grid))
    BY <1>2 DEF Prune
<1>4. ASSUME NEW x, LinesOk(x), NEW lo PROVE LinesOk(KeepFrom(x, lo))
    BY <1>1, <1>4, Zenon DEF KeepFrom
<1>5. QED
    BY <1>3, <1>4 DEF EnforceStallCap

\* And so does a whole feed of the line decoder.
LEMMA FeedLinesKeeps ==
    ASSUME NEW l, LinesOk(l), NEW rec, NEW upto
    PROVE  LinesOk(FeedLines(l, rec, upto))
PROOF
<1> DEFINE heard == UpdateSyncs([l EXCEPT !.hi = upto], rec)
           seq == [n \in 1 .. Lines |-> n]
           painted == AllPainted(heard, seq)
<1>1. LinesOk(heard)
    <2>1. LinesOk([l EXCEPT !.hi = upto])
        BY DEF LinesOk, IsRecord, LineFields
    <2>2. ASSUME NEW x, LinesOk(x), NEW syncs, NEW to
          PROVE  LinesOk([x EXCEPT !.syncs = syncs, !.searched = to])
        BY <2>2 DEF LinesOk, IsRecord, LineFields
    <2>3. QED
        BY <2>1, <2>2, Zenon DEF UpdateSyncs
<1>2. Lines \in Nat /\ Spans(seq, Lines)
    BY GridAssumption DEF Spans
<1> HIDE DEF heard, seq
<1>3. PICK v : v[0] = heard /\ v[Lines] = painted
               /\ \A n \in 1 .. Lines : v[n] = TryDecodeNext(v[n - 1], Grid(v[n - 1]))
    BY <1>2, PaintUnrolls
<1> HIDE DEF painted
<1> DEFINE S == {n \in Nat : n <= Lines => LinesOk(v[n])}
<1>4. 0 \in S
    BY <1>1, <1>3
<1>5. ASSUME NEW n \in Nat, n \in S PROVE n + 1 \in S
    <2> SUFFICES ASSUME n + 1 <= Lines PROVE LinesOk(v[n + 1])
        OBVIOUS
    <2>1. n + 1 \in 1 .. Lines /\ (n + 1) - 1 = n /\ LinesOk(v[n])
        BY <1>2, <1>5
    <2>2. v[n + 1] = TryDecodeNext(v[n], Grid(v[n]))
        BY <1>3, <2>1
    <2>3. QED
        BY <2>1, <2>2, PaintKeeps
<1> HIDE DEF S
<1>6. LinesOk(painted)
    <2>1. Lines \in S
        BY <1>2, <1>4, <1>5, Inductive
    <2>2. QED
        BY <1>2, <1>3, <2>1 DEF S
<1>7. FeedLines(l, rec, upto) = EnforceStallCap(Prune(painted, Grid(painted)))
    BY DEF FeedLines, AllPainted, painted, heard, seq
<1>8. QED
    BY <1>6, <1>7, TrimKeeps

-----------------------------------------------------------------------------
(* What a decoder tells: its events take a listener from one understanding *)
(* to the next.  floor is where the image under way begins, or a position  *)
(* that no later image begins before.                                      *)

DecoderFields == {"state", "lo", "hi", "header", "visEnd", "lines", "shown", "trimmed", "snapshot", "events"}

\* The event e takes the listener from a to b.
Comes(a, e, b) ==
  /\ b.state \in {"idle", "decoding"} /\ b.floor \in Int
  /\ \/ /\ e.kind = "started" /\ a.state = "idle" /\ b.state = "decoding"
        /\ b.header = e.header /\ b.floor = e.header.at /\ a.floor <= b.floor
     \/ e.kind = "progress" /\ a.state = "decoding" /\ e.header = a.header /\ b = a
     \/ /\ e.kind = "complete" /\ a.state = "decoding" /\ b.state = "idle"
        /\ e.header = a.header /\ a.floor = e.header.at /\ a.floor < b.floor

\* The listener at a knows what decoder d is doing.
Agrees(a, d) ==
  /\ a.state = d.state /\ a.state \in {"idle", "decoding"} /\ a.floor \in Int
  /\ a.state = "decoding" => a.header = d.header /\ a.floor = d.header.at
  /\ a.state = "idle" => a.floor <= d.lo

\* Following its events from a, the listener ends in agreement with d.
Told(a, d) ==
  \E tr : /\ tr[0] = a /\ Agrees(tr[Len(d.events)], d)
          /\ \A n \in 1 .. Len(d.events) : Comes(tr[n - 1], d.events[n], tr[n])

\* A decoder in order, which has been given no audio beyond upto.
Hears(d, how, upto) ==
  /\ IsRecord(d, DecoderFields) /\ d.state \in {"idle", "decoding"}
  /\ d.lo \in Int /\ d.hi \in Int /\ d.lo <= d.hi /\ d.hi <= upto
  /\ d.state = "decoding" => /\ d.header.at \in Nat /\ d.visEnd = d.header.at + VisLength
                             /\ d.visEnd <= d.hi
  /\ IsSequence(d.events)
  /\ how = "rows" => LinesOk(d.lines)

Follows(a, d, how, upto) == Hears(d, how, upto) /\ Told(a, d)

\* A step without an event tells nothing new.
LEMMA ToldNothing ==
    ASSUME NEW a, NEW d, NEW e, Told(a, d), e.events = d.events,
           \A x : Agrees(x, d) => Agrees(x, e)
    PROVE  Told(a, e)
PROOF
    BY DEF Told

\* A step with one event has been followed if that event is.
LEMMA ToldOne ==
    ASSUME NEW a, NEW d, NEW e, NEW event, Told(a, d), IsSequence(d.events),
           e.events = d.events \o <<event>>,
           \A x : Agrees(x, d) => \E b : Comes(x, event, b) /\ Agrees(b, e)
    PROVE  Told(a, e) /\ IsSequence(e.events)
PROOF
<1> DEFINE k == Len(d.events)
<1>1. /\ k \in Nat /\ Len(e.events) = k + 1 /\ e.events[k + 1] = event /\ IsSequence(e.events)
      /\ \A n \in 1 .. k : e.events[n] = d.events[n]
    <2>1. d.events \o <<event>> = Append(d.events, event)
        BY OneAppended
    <2>2. e.events = Append(d.events, event)
        BY <2>1
    <2>3. /\ k \in Nat /\ Len(Append(d.events, event)) = k + 1 /\ Append(d.events, event)[k + 1] = event
          /\ IsSequence(Append(d.events, event))
          /\ \A n \in 1 .. k : Append(d.events, event)[n] = d.events[n]
        BY OneAppended
    <2>4. QED
        BY <2>2, <2>3
<1>2. PICK tr : /\ tr[0] = a /\ Agrees(tr[k], d)
                /\ \A n \in 1 .. k : Comes(tr[n - 1], d.events[n], tr[n])
    BY DEF Told
<1>3. PICK b : Comes(tr[k], event, b) /\ Agrees(b, e)
    BY <1>2
<1> DEFINE all == [n \in 0 .. k + 1 |-> IF n = k + 1 THEN b ELSE tr[n]]
<1> HIDE DEF k
<1>4. all[k + 1] = b /\ \A n \in 0 .. k : all[n] = tr[n]
    BY <1>1
<1> HIDE DEF all
<1>5. ASSUME NEW n \in 1 .. k + 1 PROVE Comes(all[n - 1], e.events[n], all[n])
    <2>1. CASE n = k + 1
        <3>1. n - 1 = k /\ k \in 0 .. k
            BY <1>1, <2>1
        <3>2. all[n - 1] = tr[k] /\ all[n] = b /\ e.events[n] = event
            BY <1>1, <1>4, <2>1, <3>1
        <3>3. QED
            BY <1>3, <3>2
    <2>2. CASE n # k + 1
        <3>1. n \in 1 .. k /\ n - 1 \in 0 .. k /\ n \in 0 .. k
            BY <1>1, <2>2
        <3>2. all[n - 1] = tr[n - 1] /\ all[n] = tr[n] /\ e.events[n] = d.events[n]
            BY <1>1, <1>4, <3>1
        <3>3. QED
            BY <1>2, <3>1, <3>2
    <2>3. QED
        BY <2>1, <2>2
<1>6. all[0] = a /\ Agrees(all[Len(e.events)], e)
    BY <1>1, <1>2, <1>3, <1>4
<1>7. QED
    BY <1>1, <1>5, <1>6 DEF Told

\* The sizes of the model are numbers.
LEMMA DecoderSizes ==
    /\ VisLength \in Nat \ {0} /\ Slack \in Nat /\ Lines \in Nat /\ Period \in Nat
    /\ Lines * Period \in Nat /\ Slack <= Lines * Period
    /\ IdleWindow \in Nat /\ Preamble \in Nat /\ DecodeCap \in Nat
PROOF
<1>1. Lines \in Nat /\ Period \in Nat
    BY GridAssumption
<1>2. Lines * Period \in Nat
    BY <1>1
<1>3. QED
    BY <1>1, <1>2, DecoderAssumption

\* More audio, of which the beginning may be given up.
LEMMA CapFollows ==
    ASSUME NEW a, NEW d, NEW how, NEW inc \in BOOLEAN, NEW upto \in Int, Follows(a, d, how, upto)
    PROVE  Follows(a, EnforceBufferCap([d EXCEPT !.hi = upto], inc), how, upto)
PROOF
<1> DEFINE e == [d EXCEPT !.hi = upto]
           x == [e EXCEPT !.lo = e.hi - DecodeCap, !.trimmed = TRUE]
<1>0. EnforceBufferCap(e, inc) = e \/ (e.state = "decoding" /\ EnforceBufferCap(e, inc) = x)
    BY DEF EnforceBufferCap
<1>1. /\ IsRecord(e, DecoderFields) /\ e.hi = upto /\ e.state = d.state /\ e.lo = d.lo /\ e.header = d.header
      /\ e.visEnd = d.visEnd /\ e.lines = d.lines /\ e.events = d.events
    BY DEF Follows, Hears, IsRecord, DecoderFields
<1>2. Hears(e, how, upto)
    <2> HIDE DEF e
    <2>1. d.visEnd <= d.hi /\ d.hi <= upto => d.visEnd <= upto \/ d.state # "decoding"
        BY DecoderSizes DEF Follows, Hears
    <2>2. QED
        BY <1>1, <2>1 DEF Follows, Hears
<1>3. Told(a, e)
    <2>1. Told(a, d) /\ \A y : Agrees(y, d) => Agrees(y, e)
        BY <1>1 DEF Follows, Agrees
    <2>2. QED
        BY <1>1, <2>1, ToldNothing
<1> HIDE DEF e
<1>4. /\ IsRecord(x, DecoderFields) /\ x.hi = upto /\ x.state = e.state /\ x.lo = e.hi - DecodeCap
      /\ x.header = e.header /\ x.visEnd = e.visEnd /\ x.lines = e.lines /\ x.events = e.events
    BY <1>1 DEF IsRecord, DecoderFields
<1> HIDE DEF x
<1>5. Hears(x, how, upto)
    <2>1. x.lo \in Int /\ x.lo <= x.hi
        BY <1>1, <1>4, DecoderSizes
    <2>2. QED
        BY <1>1, <1>2, <1>4, <2>1 DEF Hears
<1>6. e.state = "decoding" => Told(a, x)
    <2>1. e.state = "decoding" => \A y : Agrees(y, e) => Agrees(y, x)
        BY <1>4 DEF Agrees
    <2>2. QED
        BY <1>3, <1>4, <2>1, ToldNothing
<1>7. QED
    BY <1>0, <1>2, <1>3, <1>5, <1>6 DEF Follows, e

\* A header locks the decoder, or leaves it looking.
LEMMA HeaderFollows ==
    ASSUME NEW a, NEW d, NEW how, NEW upto \in Int, Follows(a, d, how, upto), d.state = "idle",
           NEW rec, \A h \in rec.headers : h.at \in Nat
    PROVE  Follows(a, FeedHeader(d, FirstHeader(rec, d.lo, d.hi), rec), how, upto)
PROOF
<1> DEFINE h == FirstHeader(rec, d.lo, d.hi)
           found == HeadersIn(rec, d.lo, d.hi)
<1>1. h = Nothing \/ h \in found
    <2>1. CASE found = {}
        BY <2>1 DEF FirstHeader
    <2>2. CASE found # {}
        <3>1. found \subseteq rec.headers
            BY DEF HeadersIn
        <3> DEFINE N == {x.at : x \in found}
        <3>2. N \subseteq Nat /\ N # {}
            BY <2>2, <3>1
        <3>3. PICK n \in N : \A m \in N : n <= m
            BY <3>2, LeastOf
        <3>4. \E x \in found : \A y \in found : x.at <= y.at
            BY <3>3
        <3> HIDE DEF found
        <3>5. (CHOOSE x \in found : \A y \in found : x.at <= y.at) \in found
            BY <3>4
        <3>6. QED
            BY <2>2, <3>5 DEF FirstHeader, found
    <2>3. QED
        BY <2>1, <2>2
<1> HIDE DEF h
<1>2. h # Nothing => h.at \in Nat /\ d.lo <= h.at /\ h.at + VisLength <= d.hi
    BY <1>1 DEF HeadersIn
<1>3. ASSUME NEW lo \in Int, d.lo <= lo, lo <= d.hi
      PROVE  Follows(a, [d EXCEPT !.lo = lo], how, upto)
    <2> DEFINE e == [d EXCEPT !.lo = lo]
    <2>1. /\ IsRecord(e, DecoderFields) /\ e.hi = d.hi /\ e.state = d.state /\ e.lo = lo /\ e.header = d.header
          /\ e.visEnd = d.visEnd /\ e.lines = d.lines /\ e.events = d.events
        BY DEF Follows, Hears, IsRecord, DecoderFields
    <2> HIDE DEF e
    <2>2. Hears(e, how, upto)
        BY <1>3, <2>1 DEF Follows, Hears
    <2>3. \A y : Agrees(y, d) => Agrees(y, e)
        BY <1>3, <2>1 DEF Agrees, Follows, Hears
    <2>4. Told(a, e)
        BY <2>1, <2>3, ToldNothing DEF Follows
    <2>5. QED
        BY <2>2, <2>4 DEF Follows, e
<1>4. CASE h = Nothing
    <2> DEFINE lo == Max({d.lo, d.hi - IdleWindow})
    <2>1. d.lo \in Int /\ d.hi \in Int /\ d.lo <= d.hi /\ d.hi - IdleWindow \in Int /\ d.hi - IdleWindow <= d.hi
        BY DecoderSizes DEF Follows, Hears
    <2>2. lo \in {d.lo, d.hi - IdleWindow} /\ d.lo <= lo
        BY <2>1, LargerOf
    <2> HIDE DEF lo
    <2>3. Follows(a, [d EXCEPT !.lo = lo], how, upto)
        BY <1>3, <2>1, <2>2
    <2>4. QED
        BY <1>4, <2>3 DEF FeedHeader, lo, h
<1>5. CASE h # Nothing /\ h.family = "none"
    <2>1. PICK visEnd \in Int : visEnd = h.at + VisLength /\ visEnd <= d.hi
        BY <1>2, <1>5, DecoderSizes
    <2> DEFINE lo == Max({d.lo, visEnd - Preamble})
    <2>2. d.lo \in Int /\ d.hi \in Int /\ d.lo <= d.hi /\ visEnd - Preamble \in Int /\ visEnd - Preamble <= d.hi
        BY <2>1, DecoderSizes DEF Follows, Hears
    <2>3. lo \in {d.lo, visEnd - Preamble} /\ d.lo <= lo
        BY <2>2, LargerOf
    <2>4. DropUnknown(d, visEnd) = [d EXCEPT !.lo = lo]
        BY DEF DropUnknown
    <2>5. FeedHeader(d, h, rec) = DropUnknown(d, visEnd)
        BY <1>5, <2>1 DEF FeedHeader
    <2> HIDE DEF lo
    <2>6. Follows(a, [d EXCEPT !.lo = lo], how, upto)
        BY <1>3, <2>2, <2>3
    <2>7. QED
        BY <2>4, <2>5, <2>6 DEF h
<1>6. CASE h # Nothing /\ h.family # "none"
    <2> DEFINE visEnd == h.at + VisLength
               lines0 == FeedLines(NewLines(h.family, visEnd, d.lo), rec, visEnd)
               started == [kind |-> "started", header |-> h, count |-> 0, rows |-> <<>>]
               e == [d EXCEPT !.state = "decoding", !.header = h, !.visEnd = visEnd, !.lines = lines0]
               x == [e EXCEPT !.events = @ \o <<started>>]
    <2>1. LinesOk(lines0)
        <3>1. LinesOk(NewLines(h.family, visEnd, d.lo))
            BY EmptySequence DEF LinesOk, IsRecord, LineFields, NewLines
        <3>2. QED
            BY <3>1, FeedLinesKeeps
    <2>2. visEnd \in Int /\ visEnd <= d.hi
        BY <1>2, <1>6, DecoderSizes
    <2>3. started.kind = "started" /\ started.header = h
        OBVIOUS
    <2> HIDE DEF lines0, started
    <2>4. /\ IsRecord(e, DecoderFields) /\ e.hi = d.hi /\ e.state = "decoding" /\ e.lo = d.lo /\ e.header = h
          /\ e.visEnd = visEnd /\ e.lines = lines0 /\ e.events = d.events
        BY DEF Follows, Hears, IsRecord, DecoderFields
    <2> HIDE DEF e
    <2>5. /\ IsRecord(x, DecoderFields) /\ x.hi = d.hi /\ x.state = "decoding" /\ x.lo = d.lo /\ x.header = h
          /\ x.visEnd = visEnd /\ x.lines = lines0 /\ x.events = d.events \o <<started>>
        BY <2>4 DEF IsRecord, DecoderFields
    <2> HIDE DEF x
    <2>6. ASSUME NEW y, Agrees(y, d) PROVE \E b : Comes(y, started, b) /\ Agrees(b, x)
        <3> DEFINE b == [state |-> "decoding", header |-> h, floor |-> h.at]
        <3>1. b.state = "decoding" /\ b.header = h /\ b.floor = h.at
            OBVIOUS
        <3> HIDE DEF b
        <3>2. y.state = "idle" /\ y.floor \in Int /\ y.floor <= d.lo
            BY <2>6 DEF Agrees
        <3>3. h.at \in Nat /\ y.floor <= h.at
            BY <1>2, <1>6, <3>2 DEF Follows, Hears
        <3>4. Comes(y, started, b) /\ Agrees(b, x)
            BY <2>3, <2>5, <3>1, <3>2, <3>3 DEF Comes, Agrees
        <3>5. QED
            BY <3>4
    <2>7. Told(a, x) /\ IsSequence(x.events)
        BY <2>5, <2>6, ToldOne DEF Follows, Hears
    <2>8. Hears(x, how, upto)
        BY <1>2, <1>6, <2>1, <2>2, <2>5, <2>7 DEF Follows, Hears
    <2>9. FeedHeader(d, h, rec) = x
        BY <1>6 DEF FeedHeader, Lock, Emit, x, e, lines0, started
    <2>10. QED
        BY <2>7, <2>8, <2>9 DEF Follows, h
<1>7. QED
    BY <1>4, <1>5, <1>6

\* One event told, of a decoder that stays in its image.
LEMMA ProgressFollows ==
    ASSUME NEW a, NEW d, NEW how, NEW upto \in Int, Follows(a, d, how, upto), d.state = "decoding",
           NEW event, event.kind = "progress", event.header = d.header, NEW shown
    PROVE  LET e == [Emit(d, <<event>>) EXCEPT !.shown = shown]
           IN  Follows(a, e, how, upto) /\ e.state = "decoding"
PROOF
<1> DEFINE x == [d EXCEPT !.events = @ \o <<event>>]
           e == [x EXCEPT !.shown = shown]
<1>1. /\ IsRecord(x, DecoderFields) /\ x.hi = d.hi /\ x.state = d.state /\ x.lo = d.lo /\ x.header = d.header
      /\ x.visEnd = d.visEnd /\ x.lines = d.lines /\ x.events = d.events \o <<event>>
    BY DEF Follows, Hears, IsRecord, DecoderFields
<1> HIDE DEF x
<1>2. /\ IsRecord(e, DecoderFields) /\ e.hi = d.hi /\ e.state = d.state /\ e.lo = d.lo /\ e.header = d.header
      /\ e.visEnd = d.visEnd /\ e.lines = d.lines /\ e.events = d.events \o <<event>>
    BY <1>1 DEF IsRecord, DecoderFields
<1> HIDE DEF e
<1>3. ASSUME NEW y, Agrees(y, d) PROVE \E b : Comes(y, event, b) /\ Agrees(b, e)
    <2>1. Comes(y, event, y) /\ Agrees(y, e)
        BY <1>2, <1>3 DEF Comes, Agrees
    <2>2. QED
        BY <2>1
<1>4. Told(a, e) /\ IsSequence(e.events)
    BY <1>2, <1>3, ToldOne DEF Follows, Hears
<1>5. Hears(e, how, upto)
    BY <1>2, <1>4 DEF Follows, Hears
<1>6. [Emit(d, <<event>>) EXCEPT !.shown = shown] = e
    BY DEF Emit, e, x
<1>7. QED
    BY <1>2, <1>4, <1>5, <1>6 DEF Follows

\* New lines, if they are lines.
Relined(d, l) == [d EXCEPT !.lines = l]

\* New lines of the same image tell nothing.
LEMMA LinesFollow ==
    ASSUME NEW a, NEW d, NEW how, NEW upto \in Int, NEW l,
           Follows(a, d, how, upto), d.state = "decoding"
    PROVE  LET e == Relined(d, l)
           IN  /\ e.state = "decoding" /\ e.lines = l /\ Follows(a, e, "batch", upto)
               /\ LinesOk(l) => Follows(a, e, how, upto)
PROOF
<1> DEFINE e == Relined(d, l)
<1>1. /\ IsRecord(e, DecoderFields) /\ e.hi = d.hi /\ e.state = d.state /\ e.lo = d.lo /\ e.header = d.header
      /\ e.visEnd = d.visEnd /\ e.lines = l /\ e.events = d.events
    BY DEF Follows, Hears, IsRecord, DecoderFields, Relined
<1> HIDE DEF e
<1>2. \A y : Agrees(y, d) => Agrees(y, e)
    BY <1>1 DEF Agrees
<1>3. Told(a, e)
    BY <1>1, <1>2, ToldNothing DEF Follows
<1>4. Hears(e, "batch", upto) /\ (LinesOk(l) => Hears(e, how, upto))
    BY <1>1 DEF Follows, Hears
<1>5. QED
    BY <1>1, <1>3, <1>4 DEF Follows, e

\* The end of an image: the decoder starts over, behind the image's header.
LEMMA CompleteFollows ==
    ASSUME NEW a, NEW d, NEW how, NEW upto \in Int, Follows(a, d, how, upto), d.state = "decoding"
    PROVE  Follows(a, CompleteImage(d), how, upto)
PROOF
<1> DEFINE snap == IF d.trimmed THEN [lo |-> 0, hi |-> 0] ELSE [lo |-> d.lo, hi |-> d.hi]
           event == Event("complete", d, Lines)
           x == [d EXCEPT !.snapshot = snap]
           y == [x EXCEPT !.events = @ \o <<event>>]
           tail == TailStart(d)
           n == NewDecoder(y.hi)
           r == [n EXCEPT !.snapshot = y.snapshot, !.events = y.events]
           from == IF tail = -1 THEN d.hi ELSE tail
           e == IF tail = -1 THEN r ELSE [r EXCEPT !.lo = tail, !.hi = tail]
<1>1. event.kind = "complete" /\ event.header = d.header
    BY DEF Event
<1> HIDE DEF snap, event
<1>2. IsRecord(x, DecoderFields) /\ x.hi = d.hi /\ x.events = d.events
    BY DEF Follows, Hears, IsRecord, DecoderFields
<1> HIDE DEF x
<1>3. IsRecord(y, DecoderFields) /\ y.hi = d.hi /\ y.events = d.events \o <<event>>
    BY <1>2 DEF IsRecord, DecoderFields
<1> HIDE DEF y
<1>4. /\ IsRecord(n, DecoderFields) /\ n.state = "idle" /\ n.lo = d.hi /\ n.hi = d.hi
      /\ n.lines = NewLines("none", 0, 0)
    BY <1>3 DEF NewDecoder, IsRecord, DecoderFields
<1> HIDE DEF n
<1>5. /\ IsRecord(r, DecoderFields) /\ r.state = "idle" /\ r.lo = d.hi /\ r.hi = d.hi
      /\ r.lines = NewLines("none", 0, 0) /\ r.events = y.events
    BY <1>4 DEF IsRecord, DecoderFields
<1> HIDE DEF r
<1>6. /\ IsRecord(e, DecoderFields) /\ e.state = "idle" /\ e.lo = from /\ e.hi = from
      /\ e.lines = NewLines("none", 0, 0) /\ e.events = d.events \o <<event>>
    BY <1>3, <1>5 DEF IsRecord, DecoderFields
<1>7. from \in Int /\ from <= d.hi /\ d.header.at < from
    <2>1. /\ d.hi \in Int /\ d.header.at \in Nat /\ d.visEnd = d.header.at + VisLength /\ d.visEnd <= d.hi
        BY DEF Follows, Hears
    <2>2. d.header.at < d.hi
        BY <2>1, DecoderSizes
    <2>3. tail # -1 => tail = d.visEnd + Lines * Period - Slack /\ tail < d.hi
        BY DEF TailStart
    <2>4. tail # -1 => tail \in Int /\ d.header.at < tail /\ tail <= d.hi
        <3> HIDE DEF tail
        <3>1. QED
            BY <2>1, <2>3, DecoderSizes
    <2> HIDE DEF tail
    <2>5. QED
        BY <2>1, <2>2, <2>4
<1> HIDE DEF e, from, tail
<1>8. ASSUME NEW u, Agrees(u, d) PROVE \E b : Comes(u, event, b) /\ Agrees(b, e)
    <2> DEFINE b == [state |-> "idle", header |-> d.header, floor |-> from]
    <2>1. b.state = "idle" /\ b.floor = from
        OBVIOUS
    <2> HIDE DEF b
    <2>2. u.state = "decoding" /\ u.floor = d.header.at /\ u.header = d.header
        BY <1>8 DEF Agrees
    <2>3. Comes(u, event, b) /\ Agrees(b, e)
        BY <1>1, <1>6, <1>7, <2>1, <2>2 DEF Comes, Agrees
    <2>4. QED
        BY <2>3
<1>9. Told(a, e) /\ IsSequence(e.events)
    BY <1>6, <1>8, ToldOne DEF Follows, Hears
<1>10. LinesOk(e.lines)
    BY <1>6, EmptySequence DEF LinesOk, IsRecord, LineFields, NewLines
<1>11. Hears(e, how, upto)
    <2>1. d.hi \in Int /\ d.hi <= upto
        BY DEF Follows, Hears
    <2>2. from <= upto
        BY <1>7, <2>1
    <2>3. QED
        BY <1>6, <1>7, <1>9, <1>10, <2>2 DEF Hears
<1>12. CompleteImage(d) = e
    BY DEF CompleteImage, Restart, ResetDecoder, Emit, e, r, n, y, x, snap, event, tail
<1>13. QED
    BY <1>9, <1>11, <1>12 DEF Follows

\* The rows given out are numbers.
LEMMA GivenIs ==
    ASSUME NEW family, NEW from \in Int, NEW k \in Int
    PROVE  AllGiven(family, <<>>, [n \in 1 .. k |-> from + n]) \in Seq(Int)
PROOF
<1> DEFINE seq == [n \in 1 .. k |-> from + n]
           m == IF k < 0 THEN 0 ELSE k
           none == <<>>
           given == AllGiven(family, none, seq)
<1>a. Spans(seq, m)
    BY DEF Spans
<1>1. m \in Nat /\ \A n \in 1 .. m : seq[n] \in Int
    OBVIOUS
<1> HIDE DEF seq, m, none
<1>2. PICK v : /\ v[0] = none /\ v[m] = given
               /\ \A n \in 1 .. m : v[n] = GivenRow(v[n - 1], family, seq[n])
    BY <1>a, GivenUnrolls
<1>3. ASSUME NEW n \in Int PROVE RowsOut(family, n) \in Seq(Int)
    <2>1. <<2 * n - 1, 2 * n>> \in Seq(Int) /\ <<n, n - 1>> \in Seq(Int) /\ <<n>> \in Seq(Int)
        OBVIOUS
    <2>2. PDRows(n) \in Seq(Int) /\ Robot36Rows(n) \in Seq(Int)
        BY <2>1 DEF PDRows, Robot36Rows
    <2>3. QED
        BY <2>1, <2>2 DEF RowsOut
<1> DEFINE S == {n \in Nat : n <= m => v[n] \in Seq(Int)}
<1>4. 0 \in S
    <2>1. none \in Seq(Int)
        BY DEF none
    <2>2. QED
        BY <1>2, <2>1
<1>5. ASSUME NEW n \in Nat, n \in S PROVE n + 1 \in S
    <2> SUFFICES ASSUME n + 1 <= m PROVE v[n + 1] \in Seq(Int)
        OBVIOUS
    <2>1. n + 1 \in 1 .. m /\ (n + 1) - 1 = n /\ v[n] \in Seq(Int)
        BY <1>1, <1>5
    <2>2. v[n + 1] = GivenRow(v[n], family, seq[n + 1]) /\ RowsOut(family, seq[n + 1]) \in Seq(Int)
        BY <1>1, <1>2, <1>3, <2>1
    <2>3. GivenRow(v[n], family, seq[n + 1]) \in Seq(Int)
        BY <2>1, <2>2 DEF GivenRow
    <2>4. QED
        BY <2>2, <2>3
<1> HIDE DEF S
<1>6. m \in S
    BY <1>1, <1>4, <1>5, Inductive
<1>7. QED
    BY <1>1, <1>2, <1>6 DEF S, given, seq, none

\* Progress tells of rows, of the image under way.
LEMMA RowsFollow ==
    ASSUME NEW a, NEW d, NEW how, NEW upto \in Int, Follows(a, d, how, upto), d.state = "decoding",
           IsSequence(d.lines.rows), NEW from \in Int
    PROVE  Follows(a, Progress(d, from), how, upto) /\ Progress(d, from).state = "decoding"
PROOF
<1> DEFINE given == AllGiven(d.header.family, <<>>, [n \in 1 .. Len(d.lines.rows) - from |-> from + n])
           shown == AllShown(d, given)
           Good(x) == Follows(a, x, how, upto) /\ x.state = "decoding"
<1>1. Progress(d, from) = shown
    BY DEF Progress, AllGiven, GivenRow, AllShown, ShowRow, FoldLeft, MapThenFoldSet
<1>2. Len(d.lines.rows) - from \in Int
    BY OneAppended
<1>3. given \in Seq(Int)
    BY <1>2, GivenIs
<1> HIDE DEF given
<1> DEFINE k == Len(given)
<1>4. k \in Nat
    BY <1>3
<1>a. Spans(given, k)
    BY <1>3 DEF Spans
<1> HIDE DEF k
<1>5. PICK v : v[0] = d /\ v[k] = shown /\ \A n \in 1 .. k : v[n] = ShowRow(v[n - 1], given[n])
    BY <1>a, ShowUnrolls
<1> HIDE DEF shown
<1>6. ASSUME NEW x, Good(x), NEW row PROVE Good(ShowRow(x, row))
    <2>1. Event("progress", x, row).kind = "progress" /\ Event("progress", x, row).header = x.header
        BY DEF Event
    <2>2. Good([Emit(x, <<Event("progress", x, row)>>) EXCEPT !.shown = row])
        BY <1>6, <2>1, ProgressFollows
    <2>3. QED
        BY <1>6, <2>2 DEF ShowRow
<1> DEFINE S == {n \in Nat : n <= k => Good(v[n])}
<1>7. 0 \in S
    BY <1>5
<1> HIDE DEF Good
<1>8. ASSUME NEW n \in Nat, n \in S PROVE n + 1 \in S
    <2> SUFFICES ASSUME n + 1 <= k PROVE Good(v[n + 1])
        OBVIOUS
    <2>1. n + 1 \in 1 .. k /\ (n + 1) - 1 = n /\ Good(v[n])
        BY <1>4, <1>8
    <2>2. v[n + 1] = ShowRow(v[n], given[n + 1])
        BY <1>5, <2>1
    <2>3. QED
        BY <1>6, <2>1, <2>2
<1> HIDE DEF S
<1>9. k \in S
    BY <1>4, <1>7, <1>8, Inductive
<1>10. QED
    BY <1>1, <1>4, <1>5, <1>9 DEF S, Good

\* The decoder of the incremental path, and that of the batch path.
LEMMA IncrementalFollows ==
    ASSUME NEW a, NEW d, NEW upto \in Int, Follows(a, d, "rows", upto), d.state = "decoding",
           NEW rec, NEW off
    PROVE  Follows(a, FeedIncremental(d, rec, off), "rows", upto)
PROOF
<1> DEFINE l == FeedLines(d.lines, rec, d.hi)
           e == Relined(d, l)
           from == Len(d.lines.rows)
           p == Progress(e, from)
<1>1. LinesOk(d.lines) /\ LinesOk(l)
    BY FeedLinesKeeps DEF Follows, Hears
<1> HIDE DEF l
<1>2. Follows(a, e, "rows", upto) /\ e.state = "decoding" /\ e.lines = l
    BY <1>1, LinesFollow
<1>3. from \in Int
    BY <1>1, OneAppended DEF LinesOk
<1> HIDE DEF e, from
<1>4. IsSequence(e.lines.rows)
    BY <1>1, <1>2 DEF LinesOk
<1>5. Follows(a, p, "rows", upto) /\ p.state = "decoding"
    BY <1>2, <1>3, <1>4, RowsFollow
<1> HIDE DEF p
<1>6. Follows(a, IfComplete(p), "rows", upto)
    BY <1>5, CompleteFollows DEF IfComplete
<1>7. QED
    BY <1>6 DEF FeedIncremental, Painted, Relined, p, e, from, l

\* The batch path tells of rows or of the end of the image.
LEMMA BatchFollows ==
    ASSUME NEW a, NEW d, NEW upto \in Int, Follows(a, d, "batch", upto), d.state = "decoding",
           NEW rec, NEW off
    PROVE  Follows(a, FeedBatch(d, rec, off), "batch", upto)
PROOF
<1> SUFFICES ASSUME NEW l PROVE Follows(a, BatchPainted(d, l), "batch", upto)
    BY DEF FeedBatch
<1> DEFINE e == Relined(d, l)
           event == [Event("progress", d, Len(l.rows)) EXCEPT !.rows = l.rows]
           x == [Emit(e, <<event>>) EXCEPT !.shown = Len(l.rows)]
           y == Emit([d EXCEPT !.lines = l, !.shown = Len(l.rows)], <<event>>)
<1>1. Follows(a, e, "batch", upto) /\ e.state = "decoding" /\ e.lines = l
    BY LinesFollow
<1>2. Follows(a, CompleteImage(e), "batch", upto)
    <2> HIDE DEF e
    <2>1. QED
        BY <1>1, CompleteFollows
<1>3. event.kind = "progress" /\ event.header = e.header
    BY DEF Event, Follows, Hears, IsRecord, DecoderFields, Relined
<1> HIDE DEF event
<1>4. Follows(a, x, "batch", upto)
    <2> HIDE DEF e
    <2>1. QED
        BY <1>1, <1>3, ProgressFollows
<1>5. x = y
    BY DEF Emit, Follows, Hears, IsRecord, DecoderFields, Relined
<1> HIDE DEF x, y
<1>6. BatchPainted(d, l) \in {d, CompleteImage(e), y}
    BY DEF BatchPainted, Relined, e, y, event
<1>7. QED
    BY <1>2, <1>4, <1>5, <1>6

\* One round of a feed tells all that it does.
LEMMA FeedOnceFollows ==
    ASSUME NEW a, NEW d, NEW inc \in BOOLEAN, NEW how, how = (IF inc THEN "rows" ELSE "batch"),
           NEW upto \in Int, Follows(a, d, how, upto), NEW off,
           NEW rec, \A h \in rec.headers : h.at \in Nat
    PROVE  Follows(a, FeedOnce(d, rec, upto, inc, off), how, upto)
PROOF
<1> DEFINE c == EnforceBufferCap([d EXCEPT !.hi = upto], inc)
           e == IF c.state = "idle" THEN FeedHeader(c, FirstHeader(rec, c.lo, c.hi), rec) ELSE c
<1>1. Follows(a, c, how, upto)
    BY CapFollows
<1> HIDE DEF c
<1>2. Follows(a, e, how, upto)
    BY <1>1, HeaderFollows
<1> HIDE DEF e
<1>3. Follows(a, FeedFound(e, rec, inc, off), how, upto)
    <2>1. e.state \in {"idle", "decoding"}
        BY <1>2 DEF Follows, Hears
    <2>2. CASE e.state = "idle"
        BY <1>2, <2>2 DEF FeedFound
    <2>3. CASE e.state = "decoding" /\ inc
        BY <1>2, <2>3, IncrementalFollows DEF FeedFound
    <2>4. CASE e.state = "decoding" /\ ~inc
        BY <1>2, <2>4, BatchFollows DEF FeedFound
    <2>5. QED
        BY <2>1, <2>2, <2>3, <2>4
<1>4. QED
    BY <1>3 DEF FeedOnce, FeedJoined, c, e

\* And so does a feed, however many images end in it.
LEMMA FeedFollows ==
    ASSUME NEW a, NEW d, NEW inc \in BOOLEAN, NEW how, how = (IF inc THEN "rows" ELSE "batch"),
           NEW upto \in Int, Follows(a, d, how, upto), NEW off,
           NEW rec, \A h \in rec.headers : h.at \in Nat, IsFiniteSet(rec.headers)
    PROVE  Follows(a, Feed(d, rec, upto, inc, off), how, upto)
PROOF
<1> DEFINE k == Cardinality(rec.headers) + 1
           seq == [n \in 1 .. k |-> n]
           call == [rec |-> rec, upto |-> upto, inc |-> inc, off |-> off]
           fed == AllFed(call, d, seq)
           Good(x) == Follows(a, x, how, upto)
<1>1. k \in Nat
    BY FS_CardinalityType
<1>2. Feed(d, rec, upto, inc, off) = fed
    BY DEF Feed, AllFed, FeedRound, FoldLeft, MapThenFoldSet
<1>a. call.rec = rec /\ call.upto = upto /\ call.inc = inc /\ call.off = off
    OBVIOUS
<1> HIDE DEF k, call
<1>3. Spans(seq, k)
    BY <1>1 DEF Spans
<1> HIDE DEF seq
<1>4. PICK v : /\ v[0] = d /\ v[k] = fed
               /\ \A n \in 1 .. k : v[n] = FeedRound(v[n - 1], call)
    BY <1>3, AgainUnrolls
<1> HIDE DEF fed
<1>5. ASSUME NEW x, Good(x) PROVE Good(FeedRound(x, call))
    BY <1>a, <1>5, FeedOnceFollows DEF FeedRound
<1> HIDE DEF Good
<1> DEFINE S == {n \in Nat : n <= k => Good(v[n])}
<1>6. 0 \in S
    BY <1>4 DEF Good
<1>7. ASSUME NEW n \in Nat, n \in S PROVE n + 1 \in S
    <2> SUFFICES ASSUME n + 1 <= k PROVE Good(v[n + 1])
        OBVIOUS
    <2>1. n + 1 \in 1 .. k /\ (n + 1) - 1 = n /\ Good(v[n])
        BY <1>1, <1>7
    <2>2. v[n + 1] = FeedRound(v[n], call)
        BY <1>4, <2>1
    <2>3. QED
        BY <1>5, <2>1, <2>2
<1> HIDE DEF S
<1>8. k \in S
    BY <1>1, <1>6, <1>7, Inductive
<1>9. QED
    BY <1>1, <1>2, <1>4, <1>8 DEF S, Good

-----------------------------------------------------------------------------
(* The worker: its gallery has each image once, all of them from before    *)
(* floor, and it takes its decoder for what it is.                         *)

WorkerFields == {"scratch", "decoder", "decoding", "mode", "age", "quiet", "lines", "partial", "saved", "recordings"}

\* No later image begins before it.
Floor(d) == IF d.state = "decoding" THEN d.header.at ELSE d.lo

\* The images of s are different ones, all from before floor.
ImagesOnce(s, floor) ==
  /\ IsSequence(s) /\ floor \in Int
  /\ \A k \in 1 .. Len(s) : s[k].header.at \in Int /\ s[k].header.at < floor
  /\ \A j, k \in 1 .. Len(s) : s[j].header.at = s[k].header.at => j = k

\* The worker takes it that the decoder is in state st.
Takes(w, st) ==
  \/ st.state = "decoding" /\ w.decoding = TRUE /\ w.mode = st.header
  \/ st.state = "idle" /\ w.decoding = FALSE

WorkerOk(w, how, upto) ==
  /\ IsRecord(w, WorkerFields) /\ Hears(w.decoder, how, upto) /\ w.decoder.events = <<>>
  /\ ImagesOnce(w.saved, Floor(w.decoder)) /\ Takes(w, w.decoder)

\* Where the next image may begin is in the audio there has been.
LEMMA FloorIs ==
    ASSUME NEW d, NEW how, NEW upto \in Int, Hears(d, how, upto)
    PROVE  Floor(d) \in Int /\ Floor(d) <= d.hi /\ d.hi \in Int /\ d.hi <= upto
PROOF
<1>1. CASE d.state = "decoding"
    <2>1. d.header.at \in Int /\ d.visEnd = d.header.at + VisLength /\ d.visEnd <= d.hi /\ d.hi \in Int /\ d.hi <= upto
        BY <1>1 DEF Hears
    <2>2. d.header.at <= d.hi
        BY <2>1, DecoderSizes
    <2>3. QED
        BY <1>1, <2>1, <2>2 DEF Floor
<1>2. CASE d.state # "decoding"
    BY <1>2 DEF Hears, Floor
<1>3. QED
    BY <1>1, <1>2

\* Images that lie before a position lie before a later one.
LEMMA LaterFloor ==
    ASSUME NEW s, NEW floor, NEW later \in Int, ImagesOnce(s, floor), floor <= later
    PROVE  ImagesOnce(s, later)
PROOF
    BY DEF ImagesOnce

\* A new image behind all others.
LEMMA OneImageMore ==
    ASSUME NEW s, NEW image, NEW later \in Int, ImagesOnce(s, image.header.at),
           image.header.at < later
    PROVE  ImagesOnce(Append(s, image), later)
PROOF
<1> DEFINE t == Append(s, image)
           k == Len(s)
<1>1. /\ IsSequence(t) /\ k \in Nat /\ Len(t) = k + 1 /\ t[k + 1] = image
      /\ \A n \in 1 .. k : t[n] = s[n]
    BY OneAppended DEF ImagesOnce
<1> HIDE DEF t, k
<1>2. ASSUME NEW n \in 1 .. k PROVE t[n].header.at \in Int /\ t[n].header.at < image.header.at
    BY <1>1, <1>2 DEF ImagesOnce, k
<1>3. image.header.at \in Int /\ t[k + 1].header.at = image.header.at
    BY <1>1 DEF ImagesOnce
<1>4. ASSUME NEW n \in 1 .. k + 1 PROVE t[n].header.at \in Int /\ t[n].header.at < later
    <2>1. CASE n = k + 1
        BY <1>3, <2>1
    <2>2. CASE n # k + 1
        <3>1. n \in 1 .. k
            BY <1>1, <2>2
        <3>2. QED
            BY <1>2, <1>3, <3>1
    <2>3. QED
        BY <2>1, <2>2
<1>5. ASSUME NEW i \in 1 .. k + 1, NEW j \in 1 .. k + 1, t[i].header.at = t[j].header.at PROVE i = j
    <2>1. ASSUME NEW n \in 1 .. k PROVE t[n].header.at # t[k + 1].header.at
        BY <1>2, <1>3, <2>1
    <2>2. CASE i \in 1 .. k /\ j \in 1 .. k
        BY <1>1, <1>5, <2>2 DEF ImagesOnce, k
    <2>3. CASE i = k + 1 /\ j \in 1 .. k
        BY <1>5, <2>1, <2>3
    <2>4. CASE i \in 1 .. k /\ j = k + 1
        BY <1>5, <2>1, <2>4
    <2>5. QED
        BY <1>1, <2>2, <2>3, <2>4
<1>6. QED
    BY <1>1, <1>4, <1>5 DEF ImagesOnce, t

-----------------------------------------------------------------------------
(* The events of a flush, one after the other.                             *)

\* The decoder as it is once its events have been handed over.
SameDecoder(x, d) ==
  /\ IsRecord(x, DecoderFields) /\ x.events = <<>>
  /\ x.state = d.state /\ x.lo = d.lo /\ x.hi = d.hi /\ x.header = d.header /\ x.visEnd = d.visEnd
  /\ x.lines = d.lines /\ x.shown = d.shown /\ x.trimmed = d.trimmed

\* The worker, midway in the events, has got to st.
Hearing(w, st, d) ==
  /\ IsRecord(w, WorkerFields) /\ SameDecoder(w.decoder, d)
  /\ ImagesOnce(w.saved, st.floor) /\ Takes(w, st)

\* Resetting the watchdog leaves the decoder and the gallery alone.
LEMMA WatchdogReset ==
    ASSUME NEW w, IsRecord(w, WorkerFields)
    PROVE  LET x == ResetWatchdog(w)
           IN  /\ IsRecord(x, WorkerFields) /\ x.decoder = w.decoder /\ x.decoding = w.decoding
               /\ x.saved = w.saved /\ x.recordings = w.recordings /\ x.scratch = w.scratch
PROOF
    BY DEF ResetWatchdog, IsRecord, WorkerFields

\* The worker hears of a header.
LEMMA StartedHeard ==
    ASSUME NEW w, NEW a, NEW e, NEW b, NEW d, Hearing(w, a, d), Comes(a, e, b), e.kind = "started"
    PROVE  Hearing(Dispatch(w, e), b, d)
PROOF
<1> DEFINE x == [w EXCEPT !.decoding = TRUE, !.mode = e.header, !.age = 0, !.quiet = 0,
                          !.lines = 0, !.partial = <<>>]
<1>1. /\ IsRecord(x, WorkerFields) /\ x.decoder = w.decoder /\ x.decoding = TRUE /\ x.mode = e.header
      /\ x.saved = w.saved
    BY DEF Hearing, IsRecord, WorkerFields
<1>2. Dispatch(w, e) = x
    BY DEF Dispatch
<1> HIDE DEF x
<1>3. b.state = "decoding" /\ b.header = e.header /\ b.floor \in Int /\ a.floor <= b.floor
    BY DEF Comes
<1>4. ImagesOnce(x.saved, b.floor)
    BY <1>1, <1>3, LaterFloor DEF Hearing
<1>5. QED
    BY <1>1, <1>2, <1>3, <1>4 DEF Hearing, Takes

\* It hears of a row.
LEMMA ProgressHeard ==
    ASSUME NEW w, NEW a, NEW e, NEW b, NEW d, Hearing(w, a, d), Comes(a, e, b), e.kind = "progress"
    PROVE  Hearing(Dispatch(w, e), b, d)
PROOF
<1> DEFINE x == [w EXCEPT !.quiet = 0, !.lines = e.count, !.partial = e.rows]
<1>1. /\ IsRecord(x, WorkerFields) /\ x.decoder = w.decoder /\ x.decoding = w.decoding /\ x.mode = w.mode
      /\ x.saved = w.saved
    BY DEF Hearing, IsRecord, WorkerFields
<1>2. Dispatch(w, e) = x
    BY DEF Dispatch
<1> HIDE DEF x
<1>3. b = a
    BY DEF Comes
<1>4. QED
    BY <1>1, <1>2, <1>3 DEF Hearing, Takes

\* It hears of the end of the image, which it saves.
LEMMA CompleteHeard ==
    ASSUME NEW w, NEW a, NEW e, NEW b, NEW d, Hearing(w, a, d), Comes(a, e, b), e.kind = "complete"
    PROVE  Hearing(Dispatch(w, e), b, d)
PROOF
<1> DEFINE raw == w.decoder.snapshot
           image == [header |-> e.header, rows |-> e.rows, whole |-> TRUE, final |-> Final(e, raw)]
           more == IF raw.hi = raw.lo THEN w.recordings
                   ELSE Append(w.recordings, [header |-> e.header, lo |-> raw.lo, hi |-> raw.hi])
           kept == [w EXCEPT !.decoding = FALSE, !.decoder.snapshot = [lo |-> 0, hi |-> 0],
                             !.saved = Append(@, image),
                             !.recordings = IF raw.hi = raw.lo THEN @
                                            ELSE Append(@, [header |-> e.header, lo |-> raw.lo,
                                                            hi |-> raw.hi])]
           inner == [w.decoder EXCEPT !.snapshot = [lo |-> 0, hi |-> 0]]
           x == ResetWatchdog(kept)
<1>1. Dispatch(w, e) = x
    BY DEF Dispatch
<1>2. SameDecoder(inner, d)
    BY DEF Hearing, SameDecoder, IsRecord, DecoderFields
<1>3. image.header = e.header
    OBVIOUS
<1> HIDE DEF image
<1>4. /\ IsRecord(kept, WorkerFields) /\ kept.decoding = FALSE /\ kept.saved = Append(w.saved, image)
      /\ kept.decoder = inner
    BY DEF Hearing, IsRecord, WorkerFields
<1> HIDE DEF kept, inner
<1>5. IsRecord(x, WorkerFields) /\ x.decoder = kept.decoder /\ x.decoding = kept.decoding /\ x.saved = kept.saved
    BY <1>4, WatchdogReset
<1> HIDE DEF x
<1>6. b.state = "idle" /\ e.header = a.header /\ a.floor = e.header.at /\ a.floor < b.floor /\ b.floor \in Int
    BY DEF Comes
<1>7. ImagesOnce(Append(w.saved, image), b.floor)
    <2>1. ImagesOnce(w.saved, image.header.at) /\ image.header.at < b.floor
        BY <1>3, <1>6 DEF Hearing
    <2>2. QED
        BY <1>6, <2>1, OneImageMore
<1>8. QED
    BY <1>1, <1>2, <1>4, <1>5, <1>6, <1>7 DEF Hearing, Takes

\* So it keeps up with any event.
LEMMA EventHeard ==
    ASSUME NEW w, NEW a, NEW e, NEW b, NEW d, Hearing(w, a, d), Comes(a, e, b)
    PROVE  Hearing(Dispatch(w, e), b, d)
PROOF
<1>1. e.kind \in {"started", "progress", "complete"}
    BY DEF Comes
<1>2. QED
    BY <1>1, StartedHeard, ProgressHeard, CompleteHeard

\* A listener that understands a decoder understands it after its events.
LEMMA AllHeard ==
    ASSUME NEW a, NEW d, NEW w, NEW how, NEW upto, Follows(a, d, how, upto), Hearing(w, a, d)
    PROVE  \E b : Agrees(b, d) /\ Hearing(AllDispatched(w, d.events), b, d)
PROOF
<1> DEFINE ev == d.events
           k == Len(ev)
           all == AllDispatched(w, ev)
<1>1. k \in Nat /\ DOMAIN ev = 1 .. k
    BY OneAppended DEF Follows, Hears
<1>2. Spans(ev, k)
    BY <1>1 DEF Spans
<1>3. PICK tr : /\ tr[0] = a /\ Agrees(tr[k], d)
                /\ \A n \in 1 .. k : Comes(tr[n - 1], ev[n], tr[n])
    BY DEF Follows, Told
<1> HIDE DEF k, ev
<1>4. PICK v : v[0] = w /\ v[k] = all /\ \A n \in 1 .. k : v[n] = Dispatch(v[n - 1], ev[n])
    BY <1>2, DispatchUnrolls
<1> HIDE DEF all
<1> DEFINE S == {n \in Nat : n <= k => Hearing(v[n], tr[n], d)}
<1>5. 0 \in S
    BY <1>3, <1>4
<1>6. ASSUME NEW n \in Nat, n \in S PROVE n + 1 \in S
    <2> SUFFICES ASSUME n + 1 <= k PROVE Hearing(v[n + 1], tr[n + 1], d)
        OBVIOUS
    <2>1. n + 1 \in 1 .. k /\ (n + 1) - 1 = n /\ Hearing(v[n], tr[n], d)
        BY <1>1, <1>6
    <2>2. v[n + 1] = Dispatch(v[n], ev[n + 1]) /\ Comes(tr[n], ev[n + 1], tr[n + 1])
        BY <1>3, <1>4, <2>1
    <2>3. QED
        BY <2>1, <2>2, EventHeard
<1> HIDE DEF S
<1>7. k \in S
    BY <1>1, <1>5, <1>6, Inductive
<1>8. Hearing(all, tr[k], d)
    BY <1>1, <1>4, <1>7 DEF S
<1>9. QED
    BY <1>3, <1>8 DEF all, ev

\* The same of the images another caller keeps.
LEMMA OneKept ==
    ASSUME NEW s, NEW a, NEW e, NEW b, ImagesOnce(s, a.floor), Comes(a, e, b)
    PROVE  ImagesOnce(Keep(s, e), b.floor)
PROOF
<1>1. b.floor \in Int
    BY DEF Comes
<1>2. CASE e.kind = "complete"
    <2> DEFINE image == [header |-> e.header, rows |-> e.rows, whole |-> TRUE, final |-> e.header]
    <2>1. image.header = e.header
        OBVIOUS
    <2>2. Keep(s, e) = Append(s, image)
        BY <1>2 DEF Keep
    <2> HIDE DEF image
    <2>3. e.header = a.header /\ a.floor = e.header.at /\ a.floor < b.floor
        BY <1>2 DEF Comes
    <2>4. ImagesOnce(s, image.header.at) /\ image.header.at < b.floor
        BY <2>1, <2>3
    <2>5. QED
        BY <1>1, <2>2, <2>4, OneImageMore
<1>3. CASE e.kind # "complete"
    <2>1. Keep(s, e) = s
        BY <1>3 DEF Keep
    <2>2. a.floor <= b.floor
        <3>1. a.floor \in Int
            BY DEF ImagesOnce
        <3>2. QED
            BY <1>1, <1>3, <3>1 DEF Comes
    <2>3. QED
        BY <1>1, <2>1, <2>2, LaterFloor
<1>4. QED
    BY <1>2, <1>3

\* So does another caller with all of a feed.
LEMMA AllKept ==
    ASSUME NEW a, NEW d, NEW s, NEW how, NEW upto, Follows(a, d, how, upto), ImagesOnce(s, a.floor)
    PROVE  \E b : Agrees(b, d) /\ ImagesOnce(KeptOf(s, d.events), b.floor)
PROOF
<1> DEFINE ev == d.events
           k == Len(ev)
           all == KeptOf(s, ev)
<1>1. k \in Nat /\ DOMAIN ev = 1 .. k
    BY OneAppended DEF Follows, Hears
<1>2. Spans(ev, k)
    BY <1>1 DEF Spans
<1>3. PICK tr : /\ tr[0] = a /\ Agrees(tr[k], d)
                /\ \A n \in 1 .. k : Comes(tr[n - 1], ev[n], tr[n])
    BY DEF Follows, Told
<1> HIDE DEF k, ev
<1>4. PICK v : v[0] = s /\ v[k] = all /\ \A n \in 1 .. k : v[n] = Keep(v[n - 1], ev[n])
    BY <1>2, KeepUnrolls
<1> HIDE DEF all
<1> DEFINE S == {n \in Nat : n <= k => ImagesOnce(v[n], tr[n].floor)}
<1>5. 0 \in S
    BY <1>3, <1>4
<1>6. ASSUME NEW n \in Nat, n \in S PROVE n + 1 \in S
    <2> SUFFICES ASSUME n + 1 <= k PROVE ImagesOnce(v[n + 1], tr[n + 1].floor)
        OBVIOUS
    <2>1. n + 1 \in 1 .. k /\ (n + 1) - 1 = n /\ ImagesOnce(v[n], tr[n].floor)
        BY <1>1, <1>6
    <2>2. v[n + 1] = Keep(v[n], ev[n + 1]) /\ Comes(tr[n], ev[n + 1], tr[n + 1])
        BY <1>3, <1>4, <2>1
    <2>3. QED
        BY <2>1, <2>2, OneKept
<1> HIDE DEF S
<1>7. k \in S
    BY <1>1, <1>5, <1>6, Inductive
<1>8. ImagesOnce(all, tr[k].floor)
    BY <1>1, <1>4, <1>7 DEF S
<1>9. QED
    BY <1>3, <1>8 DEF all, ev

\* Whoever begins to listen understands the decoder, and its images are from
\* before the decoder's floor once it agrees with it.
LEMMA BeginsToFollow ==
    ASSUME NEW d, NEW how, NEW upto \in Int, NEW later \in Int, Hears(d, how, upto),
           d.events = <<>>, upto <= later
    PROVE  \E a : /\ Agrees(a, d) /\ Follows(a, d, how, later)
                  /\ a.floor = Floor(d) /\ a.state = d.state /\ a.header = d.header
PROOF
<1> DEFINE a == [state |-> d.state, header |-> d.header, floor |-> Floor(d)]
<1>1. a.floor = Floor(d) /\ a.state = d.state /\ a.header = d.header
    OBVIOUS
<1> HIDE DEF a
<1>2. Floor(d) \in Int /\ (d.state = "decoding" => Floor(d) = d.header.at) /\ (d.state = "idle" => Floor(d) <= d.lo)
    <2>1. Floor(d) \in Int
        BY FloorIs
    <2>2. QED
        BY <2>1 DEF Floor, Hears
<1>3. Agrees(a, d)
    <2>1. d.state \in {"idle", "decoding"}
        BY DEF Hears
    <2>2. QED
        BY <1>1, <1>2, <2>1 DEF Agrees
<1>4. Told(a, d)
    <2> DEFINE tr == [n \in {0} |-> a]
    <2>1. tr[0] = a /\ Len(d.events) = 0
        BY EmptySequence
    <2> HIDE DEF tr
    <2>2. QED
        BY <1>3, <2>1 DEF Told
<1>5. Hears(d, how, later)
    <2>1. d.hi \in Int /\ d.hi <= upto
        BY DEF Hears
    <2>2. d.hi <= later
        BY <2>1
    <2>3. QED
        BY <2>2 DEF Hears
<1>6. QED
    BY <1>1, <1>3, <1>4, <1>5 DEF Follows

\* Who agrees with the decoder knows where the next image may begin.
LEMMA AgreedFloor ==
    ASSUME NEW b, NEW d, NEW how, NEW upto \in Int, Hears(d, how, upto), Agrees(b, d), NEW s,
           ImagesOnce(s, b.floor)
    PROVE  ImagesOnce(s, Floor(d))
PROOF
<1>1. Floor(d) \in Int
    BY FloorIs
<1>2. b.floor <= Floor(d)
    BY <1>1 DEF Agrees, Floor
<1>3. QED
    BY <1>1, <1>2, LaterFloor

-----------------------------------------------------------------------------
(* A decoder that starts over, and a worker that does.                     *)

\* A decoder without an image, at position p.
Fresh(x, p) ==
  /\ IsRecord(x, DecoderFields) /\ x.state = "idle" /\ x.lo = p /\ x.hi = p
  /\ x.lines = NewLines("none", 0, 0) /\ x.shown = 0 /\ x.events = <<>>

\* A new decoder, and one that was reset, begin at a position without an image.
LEMMA FreshDecoder ==
    ASSUME NEW d, d.events = <<>>, NEW p
    PROVE  /\ Fresh(NewDecoder(p), p) /\ Fresh(ResetDecoder(d), d.hi)
           /\ Fresh([ResetDecoder(d) EXCEPT !.lo = p, !.hi = p], p)
PROOF
<1>1. ASSUME NEW q PROVE Fresh(NewDecoder(q), q)
    BY DEF NewDecoder, Fresh, IsRecord, DecoderFields
<1>2. Fresh(ResetDecoder(d), d.hi)
    <2> DEFINE n == NewDecoder(d.hi)
    <2>1. Fresh(n, d.hi)
        BY <1>1
    <2> HIDE DEF n
    <2>2. Fresh([n EXCEPT !.snapshot = d.snapshot, !.events = d.events], d.hi)
        BY <2>1 DEF Fresh, IsRecord, DecoderFields
    <2>3. QED
        BY <2>2 DEF ResetDecoder, n
<1> DEFINE r == ResetDecoder(d)
<1>3. Fresh(r, d.hi)
    BY <1>2
<1> HIDE DEF r
<1>4. Fresh([r EXCEPT !.lo = p, !.hi = p], p)
    BY <1>3 DEF Fresh, IsRecord, DecoderFields
<1>5. QED
    BY <1>1, <1>2, <1>4 DEF r

\* Such a decoder is in order.
LEMMA FreshHears ==
    ASSUME NEW x, NEW p \in Int, NEW how, NEW upto \in Int, Fresh(x, p), p <= upto
    PROVE  Hears(x, how, upto) /\ Floor(x) = p
PROOF
<1>1. LinesOk(x.lines)
    BY EmptySequence DEF LinesOk, IsRecord, LineFields, NewLines, Fresh
<1>2. QED
    BY <1>1, EmptySequence DEF Fresh, Hears, Floor

\* And so is a worker that starts over with it.
LEMMA StartsOver ==
    ASSUME NEW w, NEW p \in Int, NEW how, NEW upto \in Int, p <= upto,
           IsRecord(w, WorkerFields), Fresh(w.decoder, p), w.decoding = FALSE, ImagesOnce(w.saved, p)
    PROVE  WorkerOk(ResetWatchdog(w), how, upto)
PROOF
<1> DEFINE x == ResetWatchdog(w)
<1>1. IsRecord(x, WorkerFields) /\ x.decoder = w.decoder /\ x.decoding = w.decoding /\ x.saved = w.saved
    BY WatchdogReset
<1> HIDE DEF x
<1>2. Hears(w.decoder, how, upto) /\ Floor(w.decoder) = p
    BY FreshHears
<1>3. w.decoder.events = <<>> /\ w.decoder.state = "idle"
    BY DEF Fresh
<1>4. QED
    BY <1>1, <1>2, <1>3 DEF WorkerOk, Takes, x

\* A trip of the watchdog gives up the image on both sides, and saves it once.
LEMMA WatchdogKeeps ==
    ASSUME NEW w, NEW how, NEW upto \in Int, WorkerOk(w, how, upto)
    PROVE  WorkerOk(CheckWatchdog(w), how, upto)
PROOF
<1> DEFINE image == [header |-> w.mode, rows |-> w.partial, whole |-> FALSE, final |-> w.mode]
           kept == IF w.lines = 0 THEN w ELSE [w EXCEPT !.saved = Append(@, image)]
           x == [kept EXCEPT !.decoder = ResetDecoder(@), !.decoding = FALSE]
<1>1. CheckWatchdog(w) = w \/ (w.decoding /\ CheckWatchdog(w) = ResetWatchdog(x))
    BY DEF CheckWatchdog
<1>2. CASE w.decoding = TRUE
    <2>1. image.header = w.mode
        OBVIOUS
    <2> HIDE DEF image
    <2>2. /\ IsRecord(kept, WorkerFields) /\ kept.decoder = w.decoder
          /\ kept.saved = w.saved \/ kept.saved = Append(w.saved, image)
        BY DEF WorkerOk, IsRecord, WorkerFields
    <2> HIDE DEF kept
    <2>3. /\ IsRecord(x, WorkerFields) /\ x.decoder = ResetDecoder(w.decoder) /\ x.decoding = FALSE
          /\ x.saved = kept.saved
        BY <2>2 DEF IsRecord, WorkerFields
    <2> HIDE DEF x
    <2> DEFINE d == w.decoder
               p == d.hi
    <2>4. /\ d.events = <<>> /\ d.state = "decoding" /\ w.mode = d.header /\ Hears(d, how, upto)
          /\ ImagesOnce(w.saved, Floor(d))
        BY <1>2 DEF WorkerOk, Takes
    <2>5. Floor(d) = d.header.at /\ p \in Int /\ p <= upto /\ d.header.at < p
        <3>1. d.header.at \in Nat /\ d.visEnd = d.header.at + VisLength /\ d.visEnd <= p /\ p \in Int /\ p <= upto
            BY <2>4 DEF Hears
        <3> HIDE DEF p
        <3>2. d.header.at < p
            BY <3>1, DecoderSizes
        <3>3. QED
            BY <2>4, <3>1, <3>2 DEF Floor
    <2>6. Fresh(x.decoder, p)
        BY <2>3, <2>4, FreshDecoder, Zenon
    <2>7. ImagesOnce(x.saved, p)
        <3>1. ImagesOnce(w.saved, p)
            <4> HIDE DEF p
            <4>1. d.header.at <= p
                BY <2>4, <2>5 DEF Hears
            <4>2. QED
                BY <2>4, <2>5, <4>1, LaterFloor
        <3>2. ImagesOnce(Append(w.saved, image), p)
            <4>1. ImagesOnce(w.saved, image.header.at) /\ image.header.at < p
                BY <2>1, <2>4, <2>5
            <4>2. QED
                BY <2>5, <4>1, OneImageMore
        <3>3. QED
            BY <2>2, <2>3, <3>1, <3>2
    <2> HIDE DEF d, p
    <2>8. WorkerOk(ResetWatchdog(x), how, upto)
        BY <2>3, <2>5, <2>6, <2>7, StartsOver
    <2>9. QED
        BY <1>1, <2>8 DEF x, kept, image
<1>3. CASE w.decoding = FALSE
    <2> HIDE DEF x
    <2>1. QED
        BY <1>1, <1>3
<1>4. QED
    BY <1>2, <1>3 DEF WorkerOk, Takes

\* Time passes.
LEMMA OlderKeeps ==
    ASSUME NEW w, NEW how, NEW upto, WorkerOk(w, how, upto), NEW n
    PROVE  WorkerOk(Older(w, n), how, upto)
PROOF
<1>1. ASSUME NEW t, NEW q
      PROVE  LET x == [w EXCEPT !.age = t, !.quiet = q]
             IN  /\ IsRecord(x, WorkerFields) /\ x.decoder = w.decoder /\ x.decoding = w.decoding
                 /\ x.mode = w.mode /\ x.saved = w.saved
    BY DEF WorkerOk, IsRecord, WorkerFields
<1>2. ASSUME NEW t, NEW q PROVE WorkerOk([w EXCEPT !.age = t, !.quiet = q], how, upto)
    <2> DEFINE x == [w EXCEPT !.age = t, !.quiet = q]
    <2>1. /\ IsRecord(x, WorkerFields) /\ x.decoder = w.decoder /\ x.decoding = w.decoding
          /\ x.mode = w.mode /\ x.saved = w.saved
        BY <1>1, Zenon
    <2> HIDE DEF x
    <2>2. WorkerOk(x, how, upto)
        BY <2>1 DEF WorkerOk, Takes
    <2>3. QED
        BY <2>2 DEF x
<1>3. QED
    BY <1>2, Zenon DEF Older

\* A decoder in order stays so when more audio is there.
LEMMA MoreAudio ==
    ASSUME NEW d, NEW how, NEW upto \in Int, NEW later \in Int, Hears(d, how, upto), upto <= later
    PROVE  Hears(d, how, later)
PROOF
<1>1. d.hi \in Int /\ d.hi <= upto
    BY DEF Hears
<1>2. d.hi <= later
    BY <1>1
<1>3. QED
    BY <1>2 DEF Hears

How(inc) == IF inc THEN "rows" ELSE "batch"

\* A flush: the feed, its events in order, the watchdog.
LEMMA FlushKeeps ==
    ASSUME IsFiniteSet(audio.headers), \A h \in audio.headers : h.at \in Nat,
           incremental \in BOOLEAN,
           NEW w, NEW from \in Int, NEW upto \in Int, from <= upto, WorkerOk(w, How(incremental), from)
    PROVE  WorkerOk(Flush(w, upto), How(incremental), upto)
PROOF
<1> DEFINE d == w.decoder
           how == How(incremental)
           fed == Feed(d, audio, upto, incremental, cancel)
           calm == [fed EXCEPT !.events = <<>>]
           first == [w EXCEPT !.decoder = calm, !.scratch = upto]
           next == AllDispatched(first, fed.events)
<1>1. Hears(d, how, from) /\ d.events = <<>> /\ ImagesOnce(w.saved, Floor(d)) /\ Takes(w, d)
    BY DEF WorkerOk
<1>2. how = (IF incremental THEN "rows" ELSE "batch")
    BY DEF How
<1>3. Flush(w, upto) = IF w.scratch = upto THEN w ELSE CheckWatchdog(next)
    BY DEF Flush, AllDispatched
<1> HIDE DEF d, how
<1>4. PICK a : /\ Agrees(a, d) /\ Follows(a, d, how, upto)
               /\ a.floor = Floor(d) /\ a.state = d.state /\ a.header = d.header
    BY <1>1, BeginsToFollow
<1>5. Follows(a, fed, how, upto)
    BY <1>2, <1>4, FeedFollows
<1> HIDE DEF fed
<1>6. SameDecoder(calm, fed)
    BY <1>5 DEF Follows, Hears, SameDecoder, IsRecord, DecoderFields
<1> HIDE DEF calm
<1>7. /\ IsRecord(first, WorkerFields) /\ first.decoder = calm /\ first.decoding = w.decoding
      /\ first.mode = w.mode /\ first.saved = w.saved
    BY DEF WorkerOk, IsRecord, WorkerFields
<1> HIDE DEF first
<1>8. Hearing(first, a, fed)
    <2>1. Takes(first, a)
        BY <1>1, <1>4, <1>7 DEF Takes
    <2>2. QED
        BY <1>1, <1>4, <1>6, <1>7, <2>1 DEF Hearing
<1>9. PICK b : Agrees(b, fed) /\ Hearing(next, b, fed)
    BY <1>5, <1>8, AllHeard
<1> HIDE DEF next
<1>10. WorkerOk(next, how, upto)
    <2>1. Hears(fed, how, upto)
        BY <1>5 DEF Follows
    <2>2. SameDecoder(next.decoder, fed)
        BY <1>9 DEF Hearing
    <2>3. Hears(next.decoder, how, upto)
        BY <2>1, <2>2, EmptySequence DEF SameDecoder, Hears
    <2>4. ImagesOnce(next.saved, Floor(fed))
        BY <1>9, <2>1, AgreedFloor DEF Hearing
    <2>5. Floor(next.decoder) = Floor(fed)
        BY <2>2 DEF SameDecoder, Floor
    <2>6. Takes(next, next.decoder)
        BY <1>9, <2>2 DEF Hearing, Takes, Agrees, SameDecoder
    <2>7. QED
        BY <1>9, <2>2, <2>3, <2>4, <2>5, <2>6 DEF WorkerOk, Hearing, SameDecoder
<1>11. WorkerOk(w, how, upto)
    BY <1>1, MoreAudio DEF WorkerOk, d, how
<1>12. WorkerOk(CheckWatchdog(next), how, upto)
    BY <1>10, WatchdogKeeps
<1>13. QED
    BY <1>3, <1>11, <1>12 DEF how

-----------------------------------------------------------------------------
(* The inductive invariant.                                                *)

Following ==
  /\ audio \in Recordings /\ live \in BOOLEAN /\ incremental \in BOOLEAN /\ grain \in Nat /\ pos \in Nat
  /\ asked = 1 => live
  /\ Hears(decoder, How(incremental), pos) /\ decoder.events = <<>>
  /\ ImagesOnce(saved, Floor(decoder))
  /\ live => Takes(Worker, decoder)

\* What RecordingsAssumption says of one recording.
LEMMA RecordingIs ==
    ASSUME NEW rec \in Recordings
    PROVE  IsFiniteSet(rec.headers) /\ rec.end \in Nat /\ \A h \in rec.headers : h.at \in Nat
PROOF
    BY RecordingsAssumption

\* At the start there is no image.
LEMMA FollowingInit == Init => Following
PROOF
<1> SUFFICES ASSUME Init PROVE Following
    OBVIOUS
<1>1. /\ audio \in Recordings /\ live \in BOOLEAN /\ incremental \in BOOLEAN /\ pos = 0 /\ asked = 0
      /\ decoder = NewDecoder(0) /\ decoding = FALSE /\ saved = <<>>
    BY DEF Init
<1>2. grain \in Nat
    <2>1. grain \in Chunks \cup Pieces
        BY DEF Init
    <2>2. QED
        BY <2>1, RecordingsAssumption
<1>3. Fresh(decoder, 0)
    <2>1. Fresh(NewDecoder(0), 0)
        <3>1. PICK d : d = [events |-> <<>>]
            OBVIOUS
        <3>2. d.events = <<>>
            BY <3>1
        <3>3. QED
            BY <3>2, FreshDecoder, Zenon
    <2>2. QED
        BY <1>1, <2>1
<1>4. Hears(decoder, How(incremental), pos) /\ Floor(decoder) = 0
    BY <1>1, <1>3, FreshHears
<1>5. ImagesOnce(saved, 0)
    BY <1>1, EmptySequence DEF ImagesOnce
<1>6. Takes(Worker, decoder)
    <2>1. Worker.decoding = FALSE
        BY <1>1 DEF Worker
    <2>2. QED
        BY <1>3, <2>1 DEF Takes, Fresh
<1>7. QED
    BY <1>1, <1>2, <1>3, <1>4, <1>5, <1>6 DEF Following, Fresh

\* The invariant, as a fact about the worker as a record.
LEMMA WorkerIs ==
    ASSUME Following, live
    PROVE  WorkerOk(Worker, How(incremental), pos)
PROOF
<1>1. IsRecord(Worker, WorkerFields) /\ Worker.decoder = decoder /\ Worker.saved = saved
    BY DEF Worker, IsRecord, WorkerFields
<1>2. QED
    BY <1>1 DEF Following, WorkerOk

\* A worker that follows its decoder, in the next state.
LEMMA BecomesOk ==
    ASSUME NEW w, NEW how, NEW upto, WorkerOk(w, how, upto), Become(w),
           how = How(incremental'), upto = pos',
           audio' \in Recordings, live' \in BOOLEAN, incremental' \in BOOLEAN, grain' \in Nat, pos' \in Nat,
           asked' = 1 => live'
    PROVE  Following'
PROOF
<1>1. decoder' = w.decoder /\ decoding' = w.decoding /\ mode' = w.mode /\ saved' = w.saved
    BY DEF Become
<1>2. Hears(decoder', How(incremental'), pos') /\ decoder'.events = <<>> /\ ImagesOnce(saved', Floor(decoder'))
    BY <1>1 DEF WorkerOk
<1>3. Takes(Worker', decoder')
    <2>1. Worker'.decoding = decoding' /\ Worker'.mode = mode'
        BY DEF Worker
    <2>2. Takes(w, w.decoder)
        BY DEF WorkerOk
    <2>3. QED
        BY <1>1, <2>1, <2>2 DEF Takes
<1>4. QED
    BY <1>2, <1>3 DEF Following

\* feed_chunk.
LEMMA ChunkFollows ==
    ASSUME Following, Chunk
    PROVE  Following'
PROOF
<1>1. /\ live /\ pos < audio.end /\ pos' = Min({pos + grain, audio.end})
      /\ audio' = audio /\ live' = live /\ incremental' = incremental /\ grain' = grain /\ asked' = asked
    BY DEF Chunk
<1>2. /\ audio \in Recordings /\ live \in BOOLEAN /\ incremental \in BOOLEAN /\ grain \in Nat /\ pos \in Nat
      /\ asked = 1 => live
    BY DEF Following
<1>3. IsFiniteSet(audio.headers) /\ audio.end \in Nat /\ \A h \in audio.headers : h.at \in Nat
    BY <1>2, RecordingIs
<1>4. PICK n \in Nat : n = pos' /\ pos <= n
    <2>1. pos + grain \in Nat /\ pos <= pos + grain
        BY <1>2
    <2>2. Min({pos + grain, audio.end}) \in {pos + grain, audio.end}
        BY <1>3, <2>1, SmallerOf
    <2>3. pos' \in Nat /\ pos <= pos'
        BY <1>1, <1>2, <1>3, <2>1, <2>2
    <2>4. QED
        BY <2>3
<1>5. WorkerOk(Worker, How(incremental), pos)
    BY <1>1, WorkerIs
<1>6. PICK w : w = Older(Worker, n - pos)
    OBVIOUS
<1>7. WorkerOk(w, How(incremental), pos)
    BY <1>5, <1>6, OlderKeeps
<1>8. PICK x : x = (IF n - w.scratch >= FlushSamples(w) THEN Flush(w, n) ELSE w)
    OBVIOUS
<1>9. Become(x)
    BY <1>4, <1>6, <1>8 DEF Chunk
<1>10. WorkerOk(x, How(incremental), n)
    <2>1. WorkerOk(Flush(w, n), How(incremental), n)
        BY <1>2, <1>3, <1>4, <1>7, FlushKeeps
    <2>2. WorkerOk(w, How(incremental), n)
        BY <1>2, <1>4, <1>7, MoreAudio DEF WorkerOk
    <2>3. QED
        BY <1>8, <2>1, <2>2
<1>11. QED
    BY <1>1, <1>2, <1>4, <1>9, <1>10, BecomesOk

\* The tick of the watchdog.
LEMMA TickFollows ==
    ASSUME Following, Tick
    PROVE  Following'
PROOF
<1>1. /\ live /\ pos' = pos /\ audio' = audio /\ live' = live /\ incremental' = incremental /\ grain' = grain
      /\ asked' = asked
    BY DEF Tick
<1>2. /\ audio \in Recordings /\ live \in BOOLEAN /\ incremental \in BOOLEAN /\ grain \in Nat /\ pos \in Nat
      /\ asked = 1 => live
    BY DEF Following
<1>3. PICK w : w = Older(Worker, LineBudget + 1)
    OBVIOUS
<1>4. PICK x : x = CheckWatchdog(w)
    OBVIOUS
<1>5. WorkerOk(x, How(incremental), pos)
    <2>1. WorkerOk(w, How(incremental), pos)
        BY <1>1, <1>3, WorkerIs, OlderKeeps
    <2>2. QED
        BY <1>2, <1>4, <2>1, WatchdogKeeps
<1>6. Become(x)
    BY <1>3, <1>4 DEF Tick
<1>7. QED
    BY <1>1, <1>2, <1>5, <1>6, BecomesOk

\* The flush at the end of a capture.
LEMMA StoppedFollows ==
    ASSUME Following, Stopped
    PROVE  Following'
PROOF
<1>1. /\ pos' = pos /\ audio' = audio /\ live' = live /\ incremental' = incremental /\ grain' = grain
      /\ asked' = asked /\ asked = 1
    BY DEF Stopped
<1>2. /\ audio \in Recordings /\ live \in BOOLEAN /\ incremental \in BOOLEAN /\ grain \in Nat /\ pos \in Nat
      /\ live
    BY <1>1 DEF Following
<1>3. IsFiniteSet(audio.headers) /\ \A h \in audio.headers : h.at \in Nat
    BY <1>2, RecordingIs
<1>4. PICK x : x = Flush(Worker, pos)
    OBVIOUS
<1>5. WorkerOk(x, How(incremental), pos)
    <2>1. WorkerOk(Worker, How(incremental), pos)
        BY <1>2, WorkerIs
    <2>2. QED
        BY <1>2, <1>3, <1>4, <2>1, FlushKeeps
<1>6. Become(x)
    BY <1>4 DEF Stopped
<1>7. QED
    BY <1>1, <1>2, <1>5, <1>6, BecomesOk

\* The worker that starts over, wherever its decoder was.
LEMMA StartedOver ==
    ASSUME Following, live, NEW w, IsRecord(w, WorkerFields), w.decoding = FALSE, w.saved = saved,
           Fresh(w.decoder, pos), NEW how
    PROVE  WorkerOk(ResetWatchdog(w), how, pos)
PROOF
<1>1. /\ pos \in Nat /\ Hears(decoder, How(incremental), pos) /\ ImagesOnce(saved, Floor(decoder))
    BY DEF Following
<1>2. Floor(decoder) \in Int /\ Floor(decoder) <= pos
    <2>1. Floor(decoder) \in Int /\ Floor(decoder) <= decoder.hi /\ decoder.hi \in Int /\ decoder.hi <= pos
        BY <1>1, FloorIs
    <2>2. QED
        BY <1>1, <2>1
<1>3. ImagesOnce(w.saved, pos)
    BY <1>1, <1>2, LaterFloor
<1>4. PICK p \in Int : p = pos /\ p <= p
    BY <1>1
<1>5. Fresh(w.decoder, p) /\ ImagesOnce(w.saved, p)
    BY <1>3, <1>4
<1>6. WorkerOk(ResetWatchdog(w), how, p)
    BY <1>4, <1>5, StartsOver
<1>7. QED
    BY <1>4, <1>6

\* Clear and Start.
LEMMA ResetFollows ==
    ASSUME Following, Reset
    PROVE  Following'
PROOF
<1>1. /\ pos' = pos /\ audio' = audio /\ live' = live /\ incremental' = incremental /\ grain' = grain
      /\ asked' = 0 /\ asked = 1
    BY DEF Reset
<1>2. /\ audio \in Recordings /\ live \in BOOLEAN /\ incremental \in BOOLEAN /\ grain \in Nat /\ pos \in Nat
      /\ live /\ decoder.events = <<>>
    BY <1>1 DEF Following
<1> DEFINE d == [ResetDecoder(decoder) EXCEPT !.lo = pos, !.hi = pos]
           w == [Worker EXCEPT !.scratch = pos, !.decoding = FALSE, !.decoder = d]
<1>3. Become(ResetWatchdog(w))
    BY DEF Reset
<1>4. Fresh(d, pos)
    BY <1>2, FreshDecoder, Zenon
<1> HIDE DEF d
<1>5. IsRecord(w, WorkerFields) /\ w.decoding = FALSE /\ w.saved = saved /\ w.decoder = d
    BY DEF Worker, IsRecord, WorkerFields
<1> HIDE DEF w
<1>6. PICK x : x = ResetWatchdog(w)
    OBVIOUS
<1>7. WorkerOk(x, How(incremental), pos)
    BY <1>2, <1>4, <1>5, <1>6, StartedOver
<1>8. QED
    BY <1>1, <1>2, <1>3, <1>6, <1>7, BecomesOk

\* A setting that replaces the decoder.
LEMMA RebuildFollows ==
    ASSUME Following, Rebuild
    PROVE  Following'
PROOF
<1>1. /\ pos' = pos /\ audio' = audio /\ live' = live /\ incremental' = ~incremental /\ grain' = grain
      /\ asked' = asked /\ live
    BY DEF Rebuild
<1>2. /\ audio \in Recordings /\ live \in BOOLEAN /\ incremental \in BOOLEAN /\ grain \in Nat /\ pos \in Nat
      /\ decoder.events = <<>>
    BY DEF Following
<1> DEFINE d == NewDecoder(pos)
           w == [Worker EXCEPT !.scratch = pos, !.decoding = FALSE, !.decoder = d]
<1>3. Become(ResetWatchdog(w))
    BY DEF Rebuild
<1>4. Fresh(d, pos)
    BY <1>2, FreshDecoder, Zenon
<1> HIDE DEF d
<1>5. IsRecord(w, WorkerFields) /\ w.decoding = FALSE /\ w.saved = saved /\ w.decoder = d
    BY DEF Worker, IsRecord, WorkerFields
<1> HIDE DEF w
<1>6. PICK x : x = ResetWatchdog(w)
    OBVIOUS
<1>7. PICK how : how = How(incremental')
    OBVIOUS
<1>8. WorkerOk(x, how, pos)
    BY <1>1, <1>2, <1>4, <1>5, <1>6, StartedOver
<1>9. QED
    <2>1. incremental' \in BOOLEAN
        BY <1>1, <1>2
    <2>2. QED
        BY <1>1, <1>2, <1>3, <1>6, <1>7, <1>8, <2>1, BecomesOk

\* The cancel event alone changes nothing.
LEMMA RequestCancelFollows ==
    ASSUME Following, RequestCancel
    PROVE  Following'
PROOF
<1>1. /\ live /\ pos' = pos /\ audio' = audio /\ live' = live /\ incremental' = incremental /\ grain' = grain
    BY DEF RequestCancel
<1>2. /\ audio \in Recordings /\ live \in BOOLEAN /\ incremental \in BOOLEAN /\ grain \in Nat /\ pos \in Nat
    BY DEF Following
<1>3. PICK w : w = Worker
    OBVIOUS
<1>4. WorkerOk(w, How(incremental), pos)
    BY <1>1, <1>3, WorkerIs
<1>5. Become(w)
    BY <1>3 DEF Worker, Become, RequestCancel, workerVars
<1>6. QED
    BY <1>1, <1>2, <1>4, <1>5, BecomesOk

\* Another caller of the decoder.
LEMMA PieceFollows ==
    ASSUME Following, Piece
    PROVE  Following'
PROOF
<1>1. /\ ~live /\ pos < audio.end /\ pos' = Min({pos + grain, audio.end})
      /\ audio' = audio /\ live' = live /\ incremental' = incremental /\ grain' = grain /\ asked' = asked
    BY DEF Piece
<1>2. /\ audio \in Recordings /\ live \in BOOLEAN /\ incremental \in BOOLEAN /\ grain \in Nat /\ pos \in Nat
      /\ asked = 1 => live
      /\ Hears(decoder, How(incremental), pos) /\ decoder.events = <<>> /\ ImagesOnce(saved, Floor(decoder))
    BY DEF Following
<1>3. IsFiniteSet(audio.headers) /\ audio.end \in Nat /\ \A h \in audio.headers : h.at \in Nat
    BY <1>2, RecordingIs
<1>4. PICK n \in Nat : n = pos' /\ pos <= n
    <2>1. pos + grain \in Nat /\ pos <= pos + grain
        BY <1>2
    <2>2. Min({pos + grain, audio.end}) \in {pos + grain, audio.end}
        BY <1>3, <2>1, SmallerOf
    <2>3. pos' \in Nat /\ pos <= pos'
        BY <1>1, <1>2, <1>3, <2>1, <2>2
    <2>4. QED
        BY <2>3
<1>5. PICK how : how = How(incremental)
    OBVIOUS
<1>6. how = (IF incremental THEN "rows" ELSE "batch")
    BY <1>5 DEF How
<1>c. PICK off : off = FALSE
    OBVIOUS
<1>7. PICK fed : fed = Feed(decoder, audio, n, incremental, off)
    OBVIOUS
<1>8. PICK a : Agrees(a, decoder) /\ Follows(a, decoder, how, n) /\ a.floor = Floor(decoder)
    BY <1>2, <1>4, <1>5, BeginsToFollow
<1>9. Follows(a, fed, how, n)
    <2>1. incremental \in BOOLEAN /\ Follows(a, decoder, how, n)
        BY <1>2, <1>8
    <2>2. IsFiniteSet(audio.headers) /\ \A h \in audio.headers : h.at \in Nat
        BY <1>3
    <2>3. Follows(a, Feed(decoder, audio, n, incremental, off), how, n)
        BY <1>6, <2>1, <2>2, FeedFollows
    <2>4. QED
        BY <1>7, <2>3
<1> DEFINE calm == [fed EXCEPT !.events = <<>>]
<1>10. decoder' = calm /\ saved' = KeptOf(saved, fed.events)
    BY <1>4, <1>7, <1>c DEF Piece, KeptOf
<1>11. SameDecoder(calm, fed)
    BY <1>9 DEF Follows, Hears, SameDecoder, IsRecord, DecoderFields
<1> HIDE DEF calm
<1>12. PICK b : Agrees(b, fed) /\ ImagesOnce(KeptOf(saved, fed.events), b.floor)
    BY <1>2, <1>8, <1>9, AllKept
<1>13. Hears(fed, how, n)
    BY <1>9 DEF Follows
<1>14. ImagesOnce(KeptOf(saved, fed.events), Floor(fed))
    BY <1>12, <1>13, AgreedFloor
<1>15. Hears(calm, how, n) /\ calm.events = <<>> /\ Floor(calm) = Floor(fed)
    BY <1>11, <1>13, EmptySequence DEF SameDecoder, Hears, Floor
<1>16. Hears(decoder', How(incremental'), pos') /\ decoder'.events = <<>> /\ ImagesOnce(saved', Floor(decoder'))
    BY <1>1, <1>4, <1>5, <1>10, <1>14, <1>15
<1>17. QED
    BY <1>1, <1>2, <1>3, <1>4, <1>16 DEF Following

\* Every step keeps the invariant.
LEMMA FollowingNext == Following /\ [Next]_vars => Following'
PROOF
<1> SUFFICES ASSUME Following, [Next]_vars PROVE Following'
    OBVIOUS
<1>1. CASE Chunk
    BY <1>1, ChunkFollows
<1>2. CASE Tick
    BY <1>2, TickFollows
<1>3. CASE RequestCancel
    BY <1>3, RequestCancelFollows
<1>4. CASE Reset
    BY <1>4, ResetFollows
<1>5. CASE Stopped
    BY <1>5, StoppedFollows
<1>6. CASE Rebuild
    BY <1>6, RebuildFollows
<1>7. CASE Piece
    BY <1>7, PieceFollows
<1>8. CASE UNCHANGED vars
    BY <1>8 DEF Following, vars, workerVars, Worker
<1>9. QED
    BY <1>1, <1>2, <1>3, <1>4, <1>5, <1>6, <1>7, <1>8 DEF Next

\* What it says of the worker and the gallery.
LEMMA FollowingAgrees == Following => WorkerAgrees
PROOF
<1> SUFFICES ASSUME Following PROVE WorkerAgrees
    OBVIOUS
<1>1. ImagesOnce(saved, Floor(decoder)) /\ (live => Takes(Worker, decoder))
    BY DEF Following
<1>2. DOMAIN saved = 1 .. Len(saved)
    BY <1>1, OneAppended DEF ImagesOnce
<1>3. \A j, k \in DOMAIN saved : saved[j].header.at = saved[k].header.at => j = k
    BY <1>1, <1>2 DEF ImagesOnce
<1>4. live => /\ decoding <=> decoder.state = "decoding"
              /\ decoding => mode = decoder.header
    <2>1. Worker.decoding = decoding /\ Worker.mode = mode
        BY DEF Worker
    <2>2. QED
        BY <1>1, <2>1 DEF Takes
<1>5. QED
    BY <1>3, <1>4 DEF WorkerAgrees

\* The worker takes its decoder to be inside an image exactly when it is, and
\* of the same image, after a completed image, a trip of the watchdog, Clear
\* and a rebuilt decoder alike; and no image is delivered twice (_flush,
\* _dispatch, _check_rx_watchdog, reset of RxWorker; _reset_and_refeed_tail).
THEOREM WorkerFollowsDecoder == Spec => []WorkerAgrees
PROOF
<1>1. Init => Following
    BY FollowingInit
<1>2. Following /\ [Next]_vars => Following'
    BY FollowingNext
<1>3. Following => WorkerAgrees
    BY FollowingAgrees
<1>4. QED
    BY <1>1, <1>2, <1>3, PTL DEF Spec

-----------------------------------------------------------------------------
(* Candidates in order, and what a line needs of the audio.                *)

\* The greatest of a set, when one is known.
LEMMA GreatestIs ==
    ASSUME NEW S, S \subseteq Int, NEW k \in S, \A y \in S : k >= y
    PROVE  Max(S) = k
PROOF
<1> DEFINE P(x) == x \in S /\ \A y \in S : x >= y
<1>1. P(k)
    OBVIOUS
<1>2. \A x : P(x) => x = k
    <2> SUFFICES ASSUME NEW x, P(x) PROVE x = k
        OBVIOUS
    <2>1. x >= k /\ k >= x /\ x \in Int /\ k \in Int
        OBVIOUS
    <2>2. QED
        BY <2>1
<1>3. Max(S) = CHOOSE x : P(x)
    BY DEF Max
<1> HIDE DEF P
<1>4. QED
    BY <1>1, <1>2, <1>3

\* Positions in order: each of the set once, every one before the next.
LEMMA AscendingIs ==
    ASSUME NEW S, S \subseteq Int, IsFiniteSet(S)
    PROVE  LET s == Ascending(S)
           IN  /\ s \in Seq(Int) /\ Len(s) = Cardinality(S)
               /\ \A n \in 1 .. Len(s) : s[n] \in S
               /\ \A n, m \in 1 .. Len(s) : n < m => s[n] < s[m]
               /\ \A c \in S : \E n \in 1 .. Len(s) : s[n] = c
PROOF
<1> DEFINE k == Cardinality(S)
           below(c) == {x \in S : x < c}
           rank == [c \in S |-> Cardinality(below(c)) + 1]
           s == Ascending(S)
<1>1. k \in Nat
    BY FS_CardinalityType
<1>2. ASSUME NEW c \in S PROVE IsFiniteSet(below(c)) /\ Cardinality(below(c)) \in Nat /\ rank[c] \in 1 .. k
    <2>1. below(c) \in SUBSET S
        OBVIOUS
    <2>2. IsFiniteSet(below(c)) /\ Cardinality(below(c)) <= k /\ (k = Cardinality(below(c)) => S = below(c))
        BY <2>1, FS_Subset
    <2>3. Cardinality(below(c)) \in Nat
        BY <2>2, FS_CardinalityType
    <2>4. c \notin below(c)
        OBVIOUS
    <2>5. rank[c] = Cardinality(below(c)) + 1
        OBVIOUS
    <2> HIDE DEF below, rank, k
    <2>6. QED
        BY <1>1, <2>2, <2>3, <2>4, <2>5
<1>3. ASSUME NEW c \in S, NEW d \in S, c < d PROVE rank[c] < rank[d]
    <2>0. c \in Int /\ d \in Int
        OBVIOUS
    <2>1. below(c) \in SUBSET below(d) /\ c \in below(d) /\ c \notin below(c)
        <3>1. \A x \in S : x < c => x < d
            BY <1>3, <2>0
        <3>2. ~(c < c)
            BY <2>0
        <3>3. QED
            BY <1>3, <3>1, <3>2
    <2>2. IsFiniteSet(below(d)) /\ Cardinality(below(d)) \in Nat /\ Cardinality(below(c)) \in Nat
        BY <1>2
    <2>3. /\ Cardinality(below(c)) <= Cardinality(below(d))
          /\ Cardinality(below(d)) = Cardinality(below(c)) => below(d) = below(c)
        BY <2>1, <2>2, FS_Subset
    <2>4. rank[c] = Cardinality(below(c)) + 1 /\ rank[d] = Cardinality(below(d)) + 1
        OBVIOUS
    <2> HIDE DEF below, rank
    <2>5. QED
        BY <2>1, <2>2, <2>3, <2>4
<1>4. \A c \in S : rank[c] = Cardinality(below(c)) + 1
    OBVIOUS
<1>4a. rank \in [S -> 1 .. k]
    BY <1>2
<1> HIDE DEF rank, k
<1>5. \A c, d \in S : rank[c] = rank[d] => c = d
    <2> SUFFICES ASSUME NEW c \in S, NEW d \in S, rank[c] = rank[d] PROVE c = d
        OBVIOUS
    <2>0. rank[c] \in 1 .. k /\ rank[d] \in 1 .. k
        BY <1>2
    <2>1. c \in Int /\ d \in Int /\ rank[c] \in Int /\ rank[d] \in Int
        BY <1>1, <2>0
    <2>2. ~(c < d) /\ ~(d < c)
        BY <1>3, <2>1
    <2>3. QED
        BY <2>1, <2>2
<1>6. \A n \in 1 .. k : \E c \in S : rank[c] = n
    <2>1. rank \in Injection(S, 1 .. k)
        BY <1>4a, <1>5, Fun_IsInj
    <2>2. IsFiniteSet(1 .. k) /\ Cardinality(1 .. k) = k
        BY <1>1, FS_Interval
    <2>3. rank \in Surjection(S, 1 .. k)
        BY <2>1, <2>2, FS_Injection DEF k
    <2>4. QED
        BY <2>3, Fun_SurjectionProperties
<1>7. DOMAIN s = 1 .. k /\ \A n \in 1 .. k : s[n] = CHOOSE c \in S : Cardinality(below(c)) = n - 1
    BY DEF Ascending, k
<1>8. ASSUME NEW n \in 1 .. k PROVE s[n] \in S /\ rank[s[n]] = n
    <2>1. PICK c \in S : rank[c] = n
        BY <1>6
    <2>2. Cardinality(below(c)) = n - 1
        BY <1>2, <1>4, <2>1
    <2>3. s[n] \in S /\ Cardinality(below(s[n])) = n - 1
        BY <1>7, <2>2
    <2>4. rank[s[n]] = Cardinality(below(s[n])) + 1
        BY <1>4, <2>3
    <2>5. rank[s[n]] = n
        <3> HIDE DEF below, s
        <3>1. QED
            BY <1>1, <2>3, <2>4
    <2>6. QED
        BY <2>3, <2>5
<1>9. s \in Seq(Int) /\ Len(s) = k
    <2>1. s = [n \in 1 .. k |-> s[n]]
        BY SMTT(60) DEF Ascending, k
    <2>2. \A n \in 1 .. k : s[n] \in Int
        BY <1>8
    <2> HIDE DEF s
    <2>3. QED
        BY <1>1, <2>1, <2>2
<1>10. ASSUME NEW n \in 1 .. k, NEW m \in 1 .. k, n < m PROVE s[n] < s[m]
    <2>1. s[n] \in S /\ s[m] \in S /\ s[n] \in Int /\ s[m] \in Int /\ rank[s[n]] = n /\ rank[s[m]] = m
        BY <1>8
    <2>2. ~(s[m] < s[n]) /\ s[m] # s[n]
        BY <1>3, <1>10, <2>1
    <2>3. QED
        BY <2>1, <2>2
<1>11. ASSUME NEW c \in S PROVE \E n \in 1 .. k : s[n] = c
    <2>1. rank[c] \in 1 .. k
        BY <1>2
    <2>2. s[rank[c]] \in S /\ rank[s[rank[c]]] = rank[c]
        BY <1>8, <2>1
    <2>3. s[rank[c]] = c
        BY <1>5, <2>2
    <2>4. QED
        BY <2>1, <2>3
<1> HIDE DEF s
<1>12. QED
    BY <1>8, <1>9, <1>10, <1>11 DEF k, s

\* The greatest of five.
LEMMA GreatestOfFive ==
    ASSUME NEW u \in Int, NEW w \in Int, NEW x \in Int, NEW y \in Int, NEW z \in Int
    PROVE  LET S == {u, w, x, y, z} IN Max(S) \in S /\ \A n \in S : n <= Max(S)
PROOF
<1> DEFINE S == {u, w, x, y, z}
<1>1. PICK a \in {u, w} : u <= a /\ w <= a
    BY LargerOf
<1>1a. PICK b \in {a, x} : a <= b /\ x <= b
    BY <1>1, LargerOf
<1>1b. PICK c \in {b, y} : b <= c /\ y <= c
    BY <1>1, <1>1a, LargerOf
<1>2. PICK d \in {c, z} : c <= d /\ z <= d
    BY <1>1, <1>1a, <1>1b, LargerOf
<1>2a. a \in Int /\ b \in Int /\ c \in Int /\ d \in Int
    BY <1>1, <1>1a, <1>1b, <1>2
<1>3. d \in S /\ S \subseteq Int /\ \A n \in S : d >= n
    BY <1>1, <1>1a, <1>1b, <1>2, <1>2a
<1> HIDE DEF S
<1>4. Max(S) = d
    BY <1>3, GreatestIs
<1>5. QED
    BY <1>3, <1>4 DEF S

\* What a line needs of the audio, before and behind its sync.
LEMMA ChannelsOf ==
    ASSUME NEW family
    PROVE  Before(family) \in Nat /\ Ready(family) \in Nat \ {0}
PROOF
<1> DEFINE line == LineOf(family)
           Is(a, b, c, d) == /\ line.channels = {a, b, c, d}
                             /\ \A x \in {a, b, c, d} : x.from \in Int /\ x.to \in Int
                             /\ a.to > 0
<1>1. \A x, y \in Int : Channel(x, y).from = x /\ Channel(x, y).to = y
    BY DEF Channel
<1>2. \E a, b, c, d : Is(a, b, c, d)
    <2>1. line \in {ScottieLine, MartinLine, WraaseLine, PasokonLine, PDLine, Robot36Line}
        BY DEF LineOf
    <2>2. CASE line = ScottieLine
        <3>1. Is(Channel(1, 3), Channel(-5, -3), Channel(-3, 0), Channel(1, 3))
            BY <1>1, <2>2 DEF ScottieLine
        <3>2. QED
            BY <3>1
    <2>3. CASE line = MartinLine
        <3>1. Is(Channel(1, 3), Channel(3, 5), Channel(5, 7), Channel(5, 7))
            BY <1>1, <2>3 DEF MartinLine
        <3>2. QED
            BY <3>1
    <2>4. CASE line = WraaseLine
        <3>1. Is(Channel(1, 3), Channel(3, 6), Channel(6, 8), Channel(6, 8))
            BY <1>1, <2>4 DEF WraaseLine
        <3>2. QED
            BY <3>1
    <2>5. CASE line = PasokonLine
        <3>1. Is(Channel(1, 2), Channel(3, 4), Channel(5, 7), Channel(5, 7))
            BY <1>1, <2>5 DEF PasokonLine
        <3>2. QED
            BY <3>1
    <2>6. CASE line = PDLine
        <3>1. Is(Channel(1, 2), Channel(2, 4), Channel(4, 6), Channel(6, 8))
            BY <1>1, <2>6 DEF PDLine
        <3>2. QED
            BY <3>1
    <2>7. CASE line = Robot36Line
        <3>1. Is(Channel(1, 5), Channel(6, 7), Channel(6, 7), Channel(6, 7))
            BY <1>1, <2>7 DEF Robot36Line
        <3>2. QED
            BY <3>1
    <2> HIDE DEF line, Is
    <2>8. QED
        BY <2>1, <2>2, <2>3, <2>4, <2>5, <2>6, <2>7
<1>3. PICK a, b, c, d : Is(a, b, c, d)
    BY <1>2
<1>4. Before(family) = Max({0, -a.from, -b.from, -c.from, -d.from})
    <2>1. {0} \cup {-x.from : x \in line.channels} = {0, -a.from, -b.from, -c.from, -d.from}
        BY <1>3
    <2>2. QED
        BY <2>1 DEF Before
<1>5. Ready(family) = Max({a.to, a.to, b.to, c.to, d.to})
    <2>1. {x.to : x \in line.channels} = {a.to, a.to, b.to, c.to, d.to}
        BY <1>3
    <2>2. QED
        BY <2>1 DEF Ready
<1>6. /\ a.to \in Int /\ b.to \in Int /\ c.to \in Int /\ d.to \in Int /\ a.to > 0
      /\ -a.from \in Int /\ -b.from \in Int /\ -c.from \in Int /\ -d.from \in Int
    BY <1>3
<1> HIDE DEF line, Is
<1>7. Before(family) \in Int /\ 0 <= Before(family)
    <2>0. PICK u \in Int, w \in Int, x \in Int, y \in Int, z \in Int :
              u = 0 /\ w = -a.from /\ x = -b.from /\ y = -c.from /\ z = -d.from
        BY <1>6
    <2> DEFINE S == {u, w, x, y, z}
    <2>1. Max(S) \in S /\ \A n \in S : n <= Max(S)
        BY GreatestOfFive
    <2>2. S \subseteq Int /\ 0 \in S
        BY <2>0
    <2>3. QED
        BY <1>4, <2>0, <2>1, <2>2
<1>8. Ready(family) \in Int /\ a.to <= Ready(family)
    <2> DEFINE S == {a.to, a.to, b.to, c.to, d.to}
    <2>1. Max(S) \in S /\ \A n \in S : n <= Max(S)
        BY <1>6, GreatestOfFive
    <2>2. S \subseteq Int /\ a.to \in S
        BY <1>6
    <2>3. QED
        BY <1>5, <2>1, <2>2
<1>9. QED
    BY <1>6, <1>7, <1>8

-----------------------------------------------------------------------------
(* The lines of an image, and a grid over what was heard of it.            *)

\* Where the sync of the n-th line of the image behind header h is.
LineAt(h, n) == h.at + VisLength + Before(h.family) + (n - 1) * Period
\* The candidate c is of that line, give or take j.
IsLine(h, n, c, j) == c - LineAt(h, n) \in -j .. j
OnSomeLine(h, c, j) == \E n \in 1 .. Lines : IsLine(h, n, c, j)
Behind(h, c, j) == LineAt(h, Lines) + j < c

\* Of the candidates of S the last line has one, and two that are near each other.
HeardWell(h, S, j) ==
    /\ \E c \in S : IsLine(h, Lines, c, j)
    /\ \E n, m \in 1 .. Lines :
          n < m /\ m - n <= MaxAnchorGap /\ \E c, d \in S : IsLine(h, n, c, j) /\ IsLine(h, m, d, j)

\* All candidates are of lines of the image, or it was heard well and they are
\* of lines or behind it.
OfImage(h, S, j) ==
    /\ \A c \in S : OnSomeLine(h, c, j) \/ Behind(h, c, j)
    /\ (\E c \in S : Behind(h, c, j)) => HeardWell(h, S, j)

\* A line is a period behind the one before it.
LEMMA LineAtIs ==
    ASSUME NEW h, h.at \in Int
    PROVE  /\ \A n \in Int : LineAt(h, n) \in Int /\ LineAt(h, n + 1) = LineAt(h, n) + Period
           /\ \A n \in Int : LineAt(h, n) = LineAt(h, 1) + (n - 1) * Period
           /\ \A n, m \in Int : n <= m => LineAt(h, n) <= LineAt(h, m)
           /\ \A n, m \in Int : n < m => LineAt(h, n) + Period <= LineAt(h, m)
           /\ LineAt(h, 1) = h.at + VisLength + Before(h.family)
PROOF
<1> DEFINE base == h.at + VisLength + Before(h.family)
<1>1. base \in Int /\ Period \in Nat \ {0}
    BY ChannelsOf, DecoderSizes, Sizes
<1>2. \A n \in Int : LineAt(h, n) = base + (n - 1) * Period
    BY DEF LineAt
<1> HIDE DEF base
<1>3. \A n \in Int : (n - 1) * Period \in Int
    BY <1>1
<1>4. \A n \in Int : LineAt(h, n) \in Int
    BY <1>1, <1>2, <1>3
<1>5. LineAt(h, 1) = base
    <2>1. (1 - 1) * Period = 0
        BY <1>1
    <2>2. LineAt(h, 1) = base + (1 - 1) * Period
        BY <1>2
    <2>3. QED
        BY <1>1, <2>1, <2>2
<1>6. ASSUME NEW n \in Int, NEW m \in Int, n < m PROVE LineAt(h, n) + Period <= LineAt(h, m)
    <2>1. (m - 1) * Period = (n - 1) * Period + (m - n) * Period
        BY <1>1, <1>6
    <2>2. (m - n) * Period >= Period /\ (m - n) * Period \in Int
        BY <1>1, <1>6
    <2>3. (n - 1) * Period \in Int /\ (m - 1) * Period \in Int /\ Period \in Int
        BY <1>1, <1>3
    <2>4. LineAt(h, n) = base + (n - 1) * Period /\ LineAt(h, m) = base + (m - 1) * Period
        BY <1>2
    <2>5. QED
        BY <1>1, <2>1, <2>2, <2>3, <2>4
<1>7. ASSUME NEW n \in Int PROVE LineAt(h, n + 1) = LineAt(h, n) + Period
    <2>1. (n + 1 - 1) * Period = (n - 1) * Period + Period
        BY <1>1
    <2>2. n + 1 \in Int /\ (n - 1) * Period \in Int
        BY <1>1
    <2>3. LineAt(h, n) = base + (n - 1) * Period /\ LineAt(h, n + 1) = base + (n + 1 - 1) * Period
        BY <1>2, <2>2
    <2>4. QED
        BY <1>1, <2>1, <2>2, <2>3
<1>8. \A n, m \in Int : n <= m => LineAt(h, n) <= LineAt(h, m)
    <2> SUFFICES ASSUME NEW n \in Int, NEW m \in Int, n <= m PROVE LineAt(h, n) <= LineAt(h, m)
        OBVIOUS
    <2>1. CASE n = m
        BY <1>4, <2>1
    <2>2. CASE n # m
        <3>1. n < m /\ LineAt(h, n) \in Int /\ LineAt(h, m) \in Int
            BY <1>4, <2>2
        <3>2. QED
            BY <1>1, <1>6, <3>1
    <2>3. QED
        BY <2>1, <2>2
<1>9. QED
    BY <1>2, <1>4, <1>5, <1>6, <1>7, <1>8 DEF base

\* Candidates of lines are in the order of their lines.
LEMMA LineOrder ==
    ASSUME NEW h, h.at \in Int, NEW j \in Nat, 2 * j <= Tolerance,
           NEW n \in Int, NEW m \in Int, NEW c \in Int, NEW d \in Int,
           IsLine(h, n, c, j), IsLine(h, m, d, j)
    PROVE  /\ c <= d => n <= m
           /\ n < m => c < d
           /\ c = d => n = m
PROOF
<1> DEFINE x == LineAt(h, n)
           y == LineAt(h, m)
<1>1. /\ x \in Int /\ y \in Int /\ c - x \in -j .. j /\ d - y \in -j .. j
      /\ n < m => x + Period <= y
      /\ m < n => y + Period <= x
    BY LineAtIs DEF IsLine
<1>2. Period = 4 * Tolerance /\ Tolerance \in Nat \ {0}
    BY Sizes
<1> HIDE DEF x, y
<1>3. (n < m => c < d) /\ (m < n => d < c)
    BY <1>1, <1>2
<1>4. QED
    BY <1>3

\* The candidates that are of lines come first, and the others are behind them.
LEMMA LinesFirst ==
    ASSUME NEW h, h.at \in Int, NEW j \in Nat, 2 * j <= Tolerance,
           NEW cands \in Seq(Int), cands # <<>>,
           \A a, b \in 1 .. Len(cands) : a < b => cands[a] < cands[b],
           NEW S, \A c \in S : \E i \in 1 .. Len(cands) : cands[i] = c,
           \A i \in 1 .. Len(cands) : cands[i] \in S, OfImage(h, S, j)
    PROVE  \E m \in 1 .. Len(cands) :
              /\ \A i \in 1 .. m : OnSomeLine(h, cands[i], j)
              /\ \A i \in 1 .. Len(cands) : i > m => Behind(h, cands[i], j)
              /\ \A i \in 1 .. Len(cands) : OnSomeLine(h, cands[i], j) => i <= m
PROOF
<1> DEFINE K == Len(cands)
           behind == {i \in 1 .. K : Behind(h, cands[i], j)}
<1>1. K \in Nat \ {0}
    OBVIOUS
<1>1a. \A i \in 1 .. K : cands[i] \in Int
    OBVIOUS
<1>2. \A i \in 1 .. K : OnSomeLine(h, cands[i], j) \/ Behind(h, cands[i], j)
    BY DEF OfImage
<1>3. ASSUME NEW c \in Int, OnSomeLine(h, c, j) PROVE ~Behind(h, c, j)
    <2>1. PICK n \in 1 .. Lines : IsLine(h, n, c, j)
        BY <1>3 DEF OnSomeLine
    <2>2. n \in Int /\ Lines \in Int /\ n <= Lines
        BY Sizes
    <2>3. LineAt(h, n) <= LineAt(h, Lines) /\ LineAt(h, n) \in Int /\ LineAt(h, Lines) \in Int
        BY <2>2, LineAtIs
    <2>4. QED
        BY <2>1, <2>3 DEF IsLine, Behind
<1> HIDE DEF K
<1>4. CASE behind = {}
    <2>1. \A i \in 1 .. K : OnSomeLine(h, cands[i], j)
        BY <1>2, <1>4
    <2>2. K \in 1 .. K /\ \A i \in 1 .. K : ~(i > K) /\ i <= K
        BY <1>1
    <2>3. QED
        BY <2>1, <2>2 DEF K
<1>5. CASE behind # {}
    <2>1. behind \subseteq Nat
        OBVIOUS
    <2>2. PICK b \in behind : \A y \in behind : b <= y
        BY <1>5, <2>1, LeastOf
    <2>3. b \in 1 .. K /\ Behind(h, cands[b], j)
        BY <2>2
    <2>4. \A i \in 1 .. b - 1 : OnSomeLine(h, cands[i], j)
        <3> SUFFICES ASSUME NEW i \in 1 .. b - 1 PROVE OnSomeLine(h, cands[i], j)
            OBVIOUS
        <3>1. i \in 1 .. K /\ ~(b <= i)
            BY <1>1, <2>3
        <3>2. i \notin behind
            BY <2>2, <3>1
        <3>3. QED
            BY <1>2, <3>1, <3>2
    <2>5. \A i \in 1 .. K : i > b - 1 => Behind(h, cands[i], j)
        <3> SUFFICES ASSUME NEW i \in 1 .. K, i > b - 1 PROVE Behind(h, cands[i], j)
            OBVIOUS
        <3>1. b = i \/ b < i
            BY <1>1, <2>3
        <3>2. cands[b] <= cands[i]
            BY <1>1a, <2>3, <3>1 DEF K
        <3>3. LineAt(h, Lines) \in Int /\ cands[b] \in Int /\ cands[i] \in Int
            BY <1>1a, <2>3, LineAtIs, Sizes DEF K
        <3>4. QED
            BY <2>3, <3>2, <3>3 DEF Behind
    <2>6. \A i \in 1 .. K : OnSomeLine(h, cands[i], j) => i <= b - 1
        <3> SUFFICES ASSUME NEW i \in 1 .. K, OnSomeLine(h, cands[i], j) PROVE i <= b - 1
            OBVIOUS
        <3>1. ~Behind(h, cands[i], j)
            BY <1>1a, <1>3 DEF K
        <3>2. ~(i > b - 1)
            BY <2>5, <3>1
        <3>3. QED
            BY <1>1, <2>3, <3>2
    <2>7. b - 1 \in 1 .. K
        <3>1. \E c \in S : Behind(h, c, j)
            BY <2>3 DEF K
        <3>2. PICK c \in S : IsLine(h, Lines, c, j)
            BY <3>1 DEF OfImage, HeardWell
        <3>3. PICK i \in 1 .. K : cands[i] = c
            BY DEF K
        <3>4. Lines \in 1 .. Lines
            BY Sizes
        <3>5. OnSomeLine(h, cands[i], j)
            BY <3>2, <3>3, <3>4 DEF OnSomeLine
        <3>6. i <= b - 1
            BY <2>6, <3>5
        <3>7. QED
            BY <1>1, <2>3, <3>6
    <2>8. QED
        BY <2>4, <2>5, <2>6, <2>7 DEF K
<1>6. QED
    BY <1>4, <1>5

\* Of two candidates near each other, with others between them perhaps, two in
\* a row are near each other.
LEMMA NeighboursNear ==
    ASSUME NEW m \in Nat, NEW slot \in [1 .. m -> Nat],
           \A a, b \in 1 .. m : a <= b => slot[a] <= slot[b],
           NEW i \in 1 .. m, NEW k \in 1 .. m, slot[i] < slot[k], slot[k] - slot[i] <= MaxAnchorGap
    PROVE  \E n \in 1 .. m - 1 : slot[n + 1] - slot[n] \in 1 .. MaxAnchorGap
PROOF
<1> DEFINE above == {x \in 1 .. m : slot[x] > slot[i]}
<1>0. \A x \in 1 .. m : slot[x] \in Nat
    OBVIOUS
<1>1. above \subseteq Nat /\ k \in above
    BY <1>0
<1>2. PICK b \in above : \A y \in above : b <= y
    BY <1>1, LeastOf
<1>3. b \in 1 .. m /\ slot[b] > slot[i] /\ b <= k
    BY <1>1, <1>2
<1>4. ~(b <= i)
    BY <1>0, <1>3
<1>5. b - 1 \in 1 .. m /\ i <= b - 1 /\ b - 1 \in 1 .. m - 1 /\ (b - 1) + 1 = b /\ ~(b <= b - 1)
    BY <1>3, <1>4
<1>6. ~(slot[b - 1] > slot[i])
    BY <1>2, <1>5
<1>7. slot[i] <= slot[b - 1] /\ slot[b] <= slot[k]
    BY <1>3, <1>5
<1>8. slot[b] - slot[b - 1] \in 1 .. MaxAnchorGap
    <2>1. slot[b] \in Nat /\ slot[b - 1] \in Nat /\ slot[i] \in Nat /\ slot[k] \in Nat
        BY <1>0, <1>3, <1>5
    <2>2. PICK p \in Nat, q \in Nat, r \in Nat, t \in Nat :
              p = slot[i] /\ q = slot[b - 1] /\ r = slot[b] /\ t = slot[k]
        BY <2>1
    <2>3. p <= q /\ ~(q > p) /\ r > p /\ r <= t /\ t - p <= 4
        BY <1>3, <1>6, <1>7, <2>2 DEF MaxAnchorGap
    <2>4. r - q \in 1 .. 4
        BY <2>3
    <2>5. QED
        BY <2>2, <2>4 DEF MaxAnchorGap
<1>9. QED
    BY <1>5, <1>8

\* The grid over the candidates of an image: every line up to the last one
\* heard, each where it is, and all of them once the last was heard.
LEMMA GridRight ==
    ASSUME NEW h, h.at \in Int, NEW j \in Nat, 2 * j <= Tolerance,
           NEW S, S \subseteq Int, IsFiniteSet(S), OfImage(h, S, j)
    PROVE  LET g == WalkSyncGrid(Ascending(S), LineAt(h, 1))
           IN  /\ g \in Seq(Int) /\ Len(g) <= Lines
               /\ \A n \in 1 .. Len(g) : IsLine(h, n, g[n], j)
               /\ S # {} => Len(g) = Lines \/ (Len(g) >= 1 /\ IsLine(h, Len(g), Max(S), j))
               /\ (\E c \in S : IsLine(h, Lines, c, j)) => Len(g) = Lines
PROOF
<1> DEFINE cands == Ascending(S)
           hint == LineAt(h, 1)
           g == WalkSyncGrid(cands, hint)
<1>0. Lines \in Nat \ {0} /\ hint \in Int
    BY Sizes, LineAtIs
<1>1. /\ cands \in Seq(Int) /\ Len(cands) = Cardinality(S)
      /\ \A n \in 1 .. Len(cands) : cands[n] \in S
      /\ \A n, m \in 1 .. Len(cands) : n < m => cands[n] < cands[m]
      /\ \A c \in S : \E n \in 1 .. Len(cands) : cands[n] = c
    BY AscendingIs
<1> HIDE DEF cands
<1>2. CASE S = {}
    <2>1. ~(\E n \in 1 .. Len(cands) : TRUE) /\ Len(cands) \in Nat
        BY <1>1, <1>2
    <2>2. cands = <<>>
        BY <1>1, <2>1
    <2>3. g = <<>>
        BY <2>2 DEF WalkSyncGrid
    <2>4. g \in Seq(Int) /\ Len(g) = 0
        <3> HIDE DEF g
        <3>1. QED
            BY <2>3
    <2>5. QED
        BY <1>0, <1>2, <2>4 DEF cands
<1>3. CASE S # {}
    <2>1. cands # <<>>
        <3>1. PICK c \in S : TRUE
            BY <1>3
        <3>2. PICK n \in 1 .. Len(cands) : cands[n] = c
            BY <1>1
        <3>3. QED
            BY <1>1, <3>2
    <2>2. PICK m \in 1 .. Len(cands) :
              /\ \A i \in 1 .. m : OnSomeLine(h, cands[i], j)
              /\ \A i \in 1 .. Len(cands) : i > m => Behind(h, cands[i], j)
              /\ \A i \in 1 .. Len(cands) : OnSomeLine(h, cands[i], j) => i <= m
        BY <1>1, <2>1, LinesFirst
    <2> DEFINE no(c) == CHOOSE n \in 1 .. Lines : IsLine(h, n, c, j)
               slot == [i \in 1 .. m |-> no(cands[i]) - 1]
    <2>3. ASSUME NEW i \in 1 .. m
          PROVE  /\ cands[i] \in Int /\ i \in 1 .. Len(cands) /\ slot[i] + 1 \in 1 .. Lines /\ slot[i] \in Nat
                 /\ slot[i] <= Lines - 1 /\ IsLine(h, slot[i] + 1, cands[i], j)
        <3>1. no(cands[i]) \in 1 .. Lines /\ IsLine(h, no(cands[i]), cands[i], j)
            BY <2>2 DEF OnSomeLine
        <3>2. slot[i] = no(cands[i]) - 1
            OBVIOUS
        <3>3. cands[i] \in Int /\ i \in 1 .. Len(cands)
            BY <1>1
        <3> HIDE DEF slot, no
        <3>4. slot[i] + 1 = no(cands[i]) /\ slot[i] \in Nat /\ slot[i] <= Lines - 1
            BY <1>0, <3>1, <3>2
        <3>5. QED
            BY <3>1, <3>3, <3>4
    <2>4. slot \in [1 .. m -> Nat]
        BY <2>3
    <2> HIDE DEF slot
    <2>5. ASSUME NEW i \in 1 .. m PROVE cands[i] - (hint + slot[i] * Period) \in -j .. j
        <3>0. PICK n \in Nat : n = slot[i]
            BY <2>3
        <3>1. PICK p \in Int : p = n + 1
            OBVIOUS
        <3>2. LineAt(h, p) = hint + (p - 1) * Period
            BY LineAtIs
        <3>2a. p - 1 = n
            BY <3>1
        <3>3. IsLine(h, slot[i] + 1, cands[i], j)
            BY <2>3
        <3>4. QED
            BY <3>0, <3>1, <3>2, <3>2a, <3>3 DEF IsLine
    <2>6. ASSUME NEW i \in 1 .. m, NEW k \in 1 .. m, i <= k PROVE slot[i] <= slot[k]
        <3>1. i = k \/ i < k
            BY <2>6
        <3>2. cands[i] <= cands[k] /\ cands[i] \in Int /\ cands[k] \in Int
            BY <1>1, <2>3, <3>1, SMTT(60)
        <3>2a. PICK p \in Nat, q \in Nat : p = slot[i] /\ q = slot[k]
            BY <2>3
        <3>2b. p + 1 \in Int /\ q + 1 \in Int /\ IsLine(h, p + 1, cands[i], j) /\ IsLine(h, q + 1, cands[k], j)
            BY <2>3, <3>2a
        <3>3. p + 1 <= q + 1
            BY <3>2, <3>2b, LineOrder
        <3>4. QED
            BY <3>2a, <3>3
    <2>7. ASSUME NEW c \in S, NEW n \in 1 .. Lines, IsLine(h, n, c, j)
          PROVE  \E i \in 1 .. m : cands[i] = c /\ slot[i] = n - 1
        <3>1. PICK i \in 1 .. Len(cands) : cands[i] = c
            BY <1>1
        <3>2. OnSomeLine(h, cands[i], j)
            BY <2>7, <3>1 DEF OnSomeLine
        <3>3. i \in 1 .. m
            BY <2>2, <3>1, <3>2
        <3>4. slot[i] + 1 = n
            BY <2>3, <2>7, <3>1, <3>3, LineOrder
        <3>5. slot[i] = n - 1
            BY <2>3, <3>3, <3>4
        <3>6. QED
            BY <3>1, <3>3, <3>5
    <2>8. ASSUME NEW c \in S, IsLine(h, Lines, c, j) PROVE slot[m] = Lines - 1
        <3>1. PICK i \in 1 .. m : slot[i] = Lines - 1
            BY <1>0, <2>7, <2>8
        <3>2. m \in 1 .. m /\ i <= m
            BY <1>1
        <3>3. Lines - 1 <= slot[m] /\ slot[m] <= Lines - 1 /\ slot[m] \in Nat
            BY <2>3, <2>6, <3>1, <3>2
        <3>4. QED
            BY <1>0, <3>3
    <2>9. m < Len(cands) => /\ slot[m] = Lines - 1
                            /\ \E i \in 1 .. m - 1 : slot[i + 1] - slot[i] \in 1 .. MaxAnchorGap
        <3> SUFFICES ASSUME m < Len(cands)
                     PROVE  /\ slot[m] = Lines - 1
                            /\ \E i \in 1 .. m - 1 : slot[i + 1] - slot[i] \in 1 .. MaxAnchorGap
            OBVIOUS
        <3>1. m + 1 \in 1 .. Len(cands) /\ m + 1 > m
            BY <1>1
        <3>2. Behind(h, cands[m + 1], j) /\ cands[m + 1] \in S
            BY <1>1, <2>2, <3>1
        <3>3. HeardWell(h, S, j)
            BY <3>2 DEF OfImage
        <3>4. slot[m] = Lines - 1
            BY <2>8, <3>3 DEF HeardWell
        <3>5. PICK n \in 1 .. Lines, p \in 1 .. Lines :
                  n < p /\ p - n <= MaxAnchorGap /\ \E c, d \in S : IsLine(h, n, c, j) /\ IsLine(h, p, d, j)
            BY <3>3 DEF HeardWell
        <3>6. PICK i \in 1 .. m, k \in 1 .. m : slot[i] = n - 1 /\ slot[k] = p - 1
            BY <2>7, <3>5
        <3>7. slot[i] < slot[k] /\ slot[k] - slot[i] <= MaxAnchorGap
            BY <3>5, <3>6 DEF MaxAnchorGap
        <3>8. m \in Nat
            BY <1>1
        <3>9. \E x \in 1 .. m - 1 : slot[x + 1] - slot[x] \in 1 .. MaxAnchorGap
            BY <2>4, <2>6, <3>7, <3>8, NeighboursNear
        <3>10. QED
            BY <3>4, <3>9
    <2>10. OnLines(cands, m, slot, hint, j)
        <3>1. slot[m] = Lines - 1 => slot[m] >= Lines - 1
            BY <1>0
        <3>2. QED
            BY <2>5, <2>6, <2>9, <3>1 DEF OnLines
    <2>11. m \in 1 .. m /\ slot[m] \in Nat /\ slot[m] <= Lines - 1
        BY <1>1, <2>3
    <2>12. /\ Len(g) = IF slot[m] < Lines THEN slot[m] + 1 ELSE Lines
           /\ \A n \in 1 .. Len(g) : g[n] - (hint + (n - 1) * Period) \in -j .. j
        BY <1>0, <1>1, <2>1, <2>4, <2>10, GridIsExact
    <2>13. g \in Seq(Int)
        BY <1>0, <1>1, GridIsRegular
    <2> HIDE DEF g
    <2>14. Len(g) = slot[m] + 1
        BY <1>0, <2>11, <2>12
    <2>15. ASSUME NEW n \in 1 .. Len(g) PROVE IsLine(h, n, g[n], j)
        <3>1. n \in Int
            OBVIOUS
        <3>2. LineAt(h, n) = hint + (n - 1) * Period
            BY <3>1, LineAtIs
        <3>3. QED
            BY <2>12, <3>2 DEF IsLine
    <2>16. Len(g) = Lines \/ (Len(g) >= 1 /\ IsLine(h, Len(g), Max(S), j))
        <3>1. CASE m < Len(cands)
            BY <1>0, <2>9, <2>14, <3>1
        <3>2. CASE ~(m < Len(cands))
            <4>1. m = Len(cands)
                BY <1>1, <3>2
            <4>2. cands[m] \in S /\ \A c \in S : cands[m] >= c
                <5>1. ASSUME NEW c \in S PROVE cands[m] >= c
                    <6>1. PICK n \in 1 .. Len(cands) : cands[n] = c
                        BY <1>1
                    <6>2. n < m \/ n = m
                        BY <1>1, <4>1
                    <6>3. cands[n] < cands[m] \/ cands[n] = cands[m]
                        BY <1>1, <6>2
                    <6>4. cands[n] \in Int /\ cands[m] \in Int
                        BY <1>1
                    <6>5. QED
                        BY <6>1, <6>3, <6>4
                <5>2. QED
                    BY <1>1, <5>1
            <4>3. Max(S) = cands[m]
                BY <4>2, GreatestIs
            <4>4. QED
                BY <2>3, <2>11, <2>14, <4>3
        <3>3. QED
            BY <3>1, <3>2
    <2>17. (\E c \in S : IsLine(h, Lines, c, j)) => Len(g) = Lines
        BY <1>0, <2>8, <2>14
    <2>18. Len(g) <= Lines
        BY <1>0, <2>11, <2>14
    <2>19. QED
        BY <2>13, <2>15, <2>16, <2>17, <2>18 DEF g, cands, hint
<1>4. QED
    BY <1>2, <1>3

-----------------------------------------------------------------------------
(* The line decoder.                                                       *)

\* The candidates behind the header of an image.
Syncs(rec, h) == {c \in rec.pulses : h.at + VisLength <= c}

\* Header h of recording rec is of an image whose candidates are where its lines are.
Readable(rec, h, j) ==
    /\ h \in rec.headers /\ h.family # "none" /\ h.at \in Int
    /\ IsFiniteSet(rec.pulses) /\ rec.pulses \subseteq Int
    /\ 2 * j <= Tolerance /\ 2 * j <= Margin /\ j <= VisLength
    /\ Ready(h.family) <= Period /\ OfImage(h, Syncs(rec, h), j)

\* The rows are of the lines of the image behind h.
RowsAre(rec, h, rows, j) ==
    /\ h \in rec.headers /\ h.family # "none" /\ IsSequence(rows)
    /\ \A n \in 1 .. Len(rows) : IsLine(h, n, rows[n].at, j)

\* An unfinished image that was heard well can go on: no candidate is missing,
\* and the audio of its next line is there.
CanGoOn(l, rec, h, j) ==
    /\ \A c \in Syncs(rec, h) : c < l.searched => c \in l.syncs
    /\ l.lo + j <= LineAt(h, Len(l.rows) + 1) /\ l.lo <= l.searched

\* A line decoder that is in order, for the image behind h.
LinesRight(l, rec, h, j) ==
    /\ LinesOk(l) /\ l.family = h.family /\ l.visEnd = h.at + VisLength
    /\ l.lo \in Int /\ l.hi \in Int /\ l.searched \in Int
    /\ l.syncs \subseteq {c \in Syncs(rec, h) : c < l.searched}
    /\ RowsAre(rec, h, l.rows, j)
    /\ HeardWell(h, Syncs(rec, h), j) /\ Len(l.rows) < Lines => CanGoOn(l, rec, h, j)

\* The greatest of a finite set is one of it.
LEMMA GreatestThere ==
    ASSUME NEW S, S \subseteq Int, IsFiniteSet(S), S # {}
    PROVE  Max(S) \in S /\ \A c \in S : c <= Max(S)
PROOF
<1> DEFINE s == Ascending(S)
<1>1. /\ s \in Seq(Int) /\ Len(s) = Cardinality(S)
      /\ \A n \in 1 .. Len(s) : s[n] \in S
      /\ \A n, m \in 1 .. Len(s) : n < m => s[n] < s[m]
      /\ \A c \in S : \E n \in 1 .. Len(s) : s[n] = c
    BY AscendingIs
<1> HIDE DEF s
<1>2. PICK c \in S : TRUE
    OBVIOUS
<1>3. PICK n \in 1 .. Len(s) : s[n] = c
    BY <1>1
<1>4. PICK m \in 1 .. Len(s) : m = Len(s)
    BY <1>1, <1>3
<1>5. ASSUME NEW d \in S PROVE s[m] >= d
    <2>1. PICK i \in 1 .. Len(s) : s[i] = d
        BY <1>1
    <2>2. i < m \/ i = m
        BY <1>1, <1>4
    <2>3. s[i] < s[m] \/ s[i] = s[m]
        BY <1>1, <2>2
    <2>4. s[i] \in Int /\ s[m] \in Int
        BY <1>1
    <2>5. QED
        BY <2>1, <2>3, <2>4
<1>6. s[m] \in S
    BY <1>1
<1>7. Max(S) = s[m]
    BY <1>5, <1>6, GreatestIs
<1>8. \A d \in S : d \in Int
    OBVIOUS
<1>9. QED
    BY <1>5, <1>6, <1>7, <1>8

\* The candidates before s are of the image too, if those behind its lines
\* came after all of its own.
LEMMA SoFarOfImage ==
    ASSUME NEW rec, NEW h, NEW j \in Nat, Readable(rec, h, j), NEW s \in Int,
           NEW S, S \subseteq {c \in Syncs(rec, h) : c < s},
           HeardWell(h, Syncs(rec, h), j) => \A c \in Syncs(rec, h) : c < s => c \in S
    PROVE  OfImage(h, S, j)
PROOF
<1> DEFINE all == Syncs(rec, h)
<1>1. /\ h.at \in Int /\ all \subseteq Int /\ OfImage(h, all, j) /\ S \subseteq all
      /\ \A c \in S : c < s
    BY DEF Readable, Syncs
<1> HIDE DEF all
<1>2. \A c \in S : OnSomeLine(h, c, j) \/ Behind(h, c, j)
    BY <1>1 DEF OfImage
<1>3. ASSUME NEW b \in S, Behind(h, b, j) PROVE HeardWell(h, S, j)
    <2>1. HeardWell(h, all, j)
        BY <1>1, <1>3 DEF OfImage
    <2>2. \A c \in all : c < s => c \in S
        BY <2>1 DEF all
    <2>3. ASSUME NEW n \in 1 .. Lines, NEW c \in all, IsLine(h, n, c, j) PROVE c \in S
        <3>1. n \in Int /\ Lines \in Int /\ n <= Lines
            BY Sizes
        <3>2. LineAt(h, n) <= LineAt(h, Lines) /\ LineAt(h, n) \in Int /\ LineAt(h, Lines) \in Int
            BY <1>1, <3>1, LineAtIs
        <3>3. c \in Int /\ b \in Int /\ b < s
            BY <1>1
        <3>4. c < s
            BY <1>1, <1>3, <2>3, <3>2, <3>3 DEF IsLine, Behind
        <3>5. QED
            BY <2>2, <3>4
    <2>4. Lines \in 1 .. Lines
        BY Sizes
    <2>5. \E c \in S : IsLine(h, Lines, c, j)
        BY <2>1, <2>3, <2>4 DEF HeardWell
    <2>6. PICK n \in 1 .. Lines, m \in 1 .. Lines :
              n < m /\ m - n <= MaxAnchorGap /\ \E c, d \in all : IsLine(h, n, c, j) /\ IsLine(h, m, d, j)
        BY <2>1 DEF HeardWell
    <2>7. \E c, d \in S : IsLine(h, n, c, j) /\ IsLine(h, m, d, j)
        BY <2>3, <2>6
    <2>8. QED
        BY <2>5, <2>6, <2>7 DEF HeardWell
<1>4. QED
    BY <1>2, <1>3 DEF OfImage

\* An unfinished line decoder has the candidates that make a grid right.
LEMMA CandidatesRight ==
    ASSUME NEW rec, NEW h, NEW j \in Nat, NEW l, Readable(rec, h, j), LinesRight(l, rec, h, j),
           Len(l.rows) < Lines
    PROVE  OfImage(h, l.syncs, j)
PROOF
<1>1. l.searched \in Int /\ l.syncs \subseteq {c \in Syncs(rec, h) : c < l.searched}
    BY DEF LinesRight
<1>2. HeardWell(h, Syncs(rec, h), j) => \A c \in Syncs(rec, h) : c < l.searched => c \in l.syncs
    BY DEF LinesRight, CanGoOn
<1>3. QED
    BY <1>1, <1>2, SoFarOfImage

\* Its grid, as far as the candidates go.
LEMMA GridOf ==
    ASSUME NEW rec, NEW h, NEW j \in Nat, NEW l, Readable(rec, h, j), LinesRight(l, rec, h, j)
    PROVE  LET g == Grid(l)
           IN  /\ l.syncs \subseteq Int /\ IsFiniteSet(l.syncs)
               /\ g \in Seq(Int) /\ Len(g) <= Lines
               /\ Len(l.rows) < Lines =>
                     /\ \A n \in 1 .. Len(g) : IsLine(h, n, g[n], j)
                     /\ l.syncs # {} => Len(g) = Lines \/ (Len(g) >= 1 /\ IsLine(h, Len(g), Max(l.syncs), j))
                     /\ (\E c \in l.syncs : IsLine(h, Lines, c, j)) => Len(g) = Lines
PROOF
<1> DEFINE g == Grid(l)
<1>1. /\ h.at \in Int /\ 2 * j <= Tolerance /\ l.syncs \subseteq rec.pulses /\ IsFiniteSet(rec.pulses)
      /\ rec.pulses \subseteq Int /\ l.family = h.family /\ l.visEnd = h.at + VisLength
    BY DEF Readable, LinesRight, Syncs
<1>2. l.syncs \subseteq Int /\ IsFiniteSet(l.syncs)
    BY <1>1, FS_Subset
<1>3. LineAt(h, 1) \in Int /\ LineAt(h, 1) = h.at + VisLength + Before(h.family)
    BY <1>1, LineAtIs
<1>4. g = WalkSyncGrid(Ascending(l.syncs), LineAt(h, 1))
    BY <1>1, <1>3 DEF Grid, Hint, Line0Hint
<1>5. g \in Seq(Int) /\ Len(g) <= Lines
    <2>1. Ascending(l.syncs) \in Seq(Int)
        BY <1>2, AscendingIs
    <2>2. QED
        BY <1>3, <1>4, <2>1, GridIsRegular
<1> HIDE DEF g
<1>6. ASSUME Len(l.rows) < Lines
      PROVE  /\ \A n \in 1 .. Len(g) : IsLine(h, n, g[n], j)
             /\ l.syncs # {} => Len(g) = Lines \/ (Len(g) >= 1 /\ IsLine(h, Len(g), Max(l.syncs), j))
             /\ (\E c \in l.syncs : IsLine(h, Lines, c, j)) => Len(g) = Lines
    <2>1. OfImage(h, l.syncs, j)
        BY <1>6, CandidatesRight
    <2>2. QED
        BY <1>1, <1>2, <1>4, <2>1, GridRight
<1>7. QED
    BY <1>2, <1>5, <1>6 DEF g

\* More audio is searched for candidates, and none of the image's is missed.
LEMMA UpdateRight ==
    ASSUME NEW rec, NEW h, NEW j \in Nat, NEW l, NEW upto \in Int, Readable(rec, h, j),
           LinesRight(l, rec, h, j), l.searched <= upto
    PROVE  LET x == UpdateSyncs([l EXCEPT !.hi = upto], rec)
           IN  LinesRight(x, rec, h, j) /\ x.hi = upto /\ x.searched = upto
PROOF
<1> DEFINE y == [l EXCEPT !.hi = upto]
           from == Max({y.visEnd, y.searched - Period, y.lo})
           more == y.syncs \cup {c \in rec.pulses : from <= c /\ c < y.hi}
           x == [y EXCEPT !.syncs = more, !.searched = y.hi]
<1>1. /\ LinesOk(y) /\ y.hi = upto /\ y.family = l.family /\ y.visEnd = l.visEnd /\ y.lo = l.lo
      /\ y.searched = l.searched /\ y.syncs = l.syncs /\ y.rows = l.rows
    BY DEF LinesRight, LinesOk, IsRecord, LineFields
<1>2. UpdateSyncs(y, rec) = [y EXCEPT !.syncs = @ \cup {c \in rec.pulses : from <= c /\ c < y.hi}, !.searched = y.hi]
    BY DEF UpdateSyncs
<1>3. UpdateSyncs(y, rec) = x
    BY <1>1, <1>2 DEF LinesOk, IsRecord, LineFields
<1> HIDE DEF y
<1>4. /\ LinesOk(x) /\ x.hi = upto /\ x.family = l.family /\ x.visEnd = l.visEnd /\ x.lo = l.lo
      /\ x.searched = upto /\ x.syncs = more /\ x.rows = l.rows
    <2> HIDE DEF more
    <2>1. QED
        BY <1>1 DEF LinesOk, IsRecord, LineFields
<1> HIDE DEF x
<1>5. /\ h.at \in Int /\ rec.pulses \subseteq Int /\ l.lo \in Int /\ l.searched \in Int
      /\ l.visEnd = h.at + VisLength /\ VisLength \in Int /\ l.visEnd \in Int /\ Period \in Nat
    BY DecoderSizes, SMTT(60) DEF Readable, LinesRight
<1>6. /\ from \in Int /\ l.visEnd <= from
      /\ \A c \in Int : l.visEnd <= c /\ l.searched - Period <= c /\ l.lo <= c => from <= c
    <2>1. PICK u \in Int, w \in Int, z \in Int : u = l.visEnd /\ w = l.searched - Period /\ z = l.lo
        BY <1>5
    <2> DEFINE S == {u, w, z, z, z}
    <2>2. Max(S) \in S /\ \A n \in S : n <= Max(S)
        BY GreatestOfFive
    <2>3. {y.visEnd, y.searched - Period, y.lo} = S
        BY <1>1, <2>1
    <2>4. from \in S /\ \A n \in S : n <= from
        BY <2>2, <2>3
    <2> HIDE DEF from
    <2>5. QED
        BY <2>1, <2>4
<1> HIDE DEF from
<1>7. \A c \in more : c \in Syncs(rec, h) /\ c < upto
    <2>1. \A c \in l.syncs : c \in Syncs(rec, h) /\ c < l.searched /\ c \in Int
        BY <1>5 DEF LinesRight, Syncs
    <2>2. \A c \in l.syncs : c < upto
        BY <1>5, <2>1
    <2>3. \A c \in rec.pulses : from <= c => h.at + VisLength <= c
        BY <1>5, <1>6
    <2>4. QED
        BY <1>1, <2>1, <2>2, <2>3 DEF Syncs
<1>8. ASSUME CanGoOn(l, rec, h, j) PROVE CanGoOn(x, rec, h, j)
    <2>1. ASSUME NEW c \in Syncs(rec, h), c < upto PROVE c \in more
        <3>1. c \in Int /\ l.visEnd <= c /\ c \in rec.pulses
            BY <1>5 DEF Syncs
        <3>2. CASE c < l.searched
            BY <1>1, <1>8, <3>2 DEF CanGoOn
        <3>3. CASE ~(c < l.searched)
            <4>1. l.lo <= c /\ l.searched - Period <= c
                BY <1>5, <1>8, <3>1, <3>3 DEF CanGoOn
            <4>2. QED
                BY <1>1, <1>6, <2>1, <3>1, <4>1
        <3>4. QED
            BY <3>2, <3>3
    <2>2. l.lo <= upto
        BY <1>5, <1>8 DEF CanGoOn
    <2> HIDE DEF more
    <2>3. QED
        BY <1>4, <1>8, <2>1, <2>2 DEF CanGoOn
<1> HIDE DEF more
<1>9. LinesRight(x, rec, h, j)
    BY <1>4, <1>7, <1>8 DEF LinesRight
<1>10. QED
    BY <1>3, <1>4, <1>9 DEF y

\* The row painted next, from the line at at.
WithRow(l, row) == [l EXCEPT !.rows = Append(@, row)]

\* A row painted where the next line is leaves the decoder in order.
LEMMA RowRight ==
    ASSUME NEW rec, NEW h, NEW j \in Nat, NEW l, NEW row, Readable(rec, h, j), LinesRight(l, rec, h, j),
           IsLine(h, Len(l.rows) + 1, row.at, j)
    PROVE  LET x == WithRow(l, row)
           IN  /\ LinesRight(x, rec, h, j) /\ x.hi = l.hi /\ x.searched = l.searched
               /\ Len(l.rows) \in Nat /\ Len(x.rows) = Len(l.rows) + 1
PROOF
<1> DEFINE x == WithRow(l, row)
           k == Len(l.rows)
<1>1. LinesOk(l) /\ IsSequence(l.rows)
    BY DEF LinesRight, LinesOk
<1>2. /\ IsSequence(Append(l.rows, row)) /\ k \in Nat /\ Len(Append(l.rows, row)) = k + 1
      /\ \A n \in 1 .. k : Append(l.rows, row)[n] = l.rows[n]
      /\ Append(l.rows, row)[k + 1] = row
    BY <1>1, OneAppended
<1>3. /\ LinesOk(x) /\ x.hi = l.hi /\ x.family = l.family /\ x.visEnd = l.visEnd /\ x.lo = l.lo
      /\ x.searched = l.searched /\ x.syncs = l.syncs /\ x.rows = Append(l.rows, row)
    BY <1>1, <1>2 DEF LinesOk, IsRecord, LineFields, WithRow
<1> HIDE DEF x, k
<1>4. RowsAre(rec, h, x.rows, j)
    <2>1. ASSUME NEW n \in 1 .. k + 1 PROVE IsLine(h, n, x.rows[n].at, j)
        <3>1. CASE n = k + 1
            <4>1. x.rows[n] = row
                BY <1>2, <1>3, <3>1
            <4>2. QED
                BY <3>1, <4>1 DEF k
        <3>2. CASE n # k + 1
            <4>1. n \in 1 .. k
                BY <1>2, <3>2
            <4>2. x.rows[n] = l.rows[n]
                BY <1>2, <1>3, <4>1
            <4>3. QED
                BY <4>1, <4>2 DEF LinesRight, RowsAre, k
        <3>3. QED
            BY <3>1, <3>2
    <2>2. QED
        BY <1>2, <1>3, <2>1 DEF LinesRight, RowsAre
<1>5. Len(x.rows) < Lines => k < Lines
    BY <1>2, <1>3, Sizes
<1>6. CanGoOn(l, rec, h, j) => CanGoOn(x, rec, h, j)
    <2>1. /\ LineAt(h, k + 1) \in Int /\ LineAt(h, k + 1 + 1) = LineAt(h, k + 1) + Period /\ Period \in Nat
          /\ l.lo \in Int
        <3>1. k + 1 \in Int /\ h.at \in Int
            BY <1>2 DEF Readable
        <3>2. QED
            BY <3>1, LineAtIs, Sizes DEF LinesRight
    <2>2. l.lo + j <= LineAt(h, k + 1) => l.lo + j <= LineAt(h, k + 1 + 1)
        BY <2>1
    <2>3. QED
        BY <1>2, <1>3, <2>2 DEF CanGoOn, k
<1>7. LinesRight(x, rec, h, j)
    BY <1>3, <1>4, <1>5, <1>6 DEF LinesRight, k
<1>8. QED
    BY <1>2, <1>3, <1>7 DEF x, k

\* The audio there is goes beyond the last line.
AllCame(l, h, j) == LineAt(h, Lines) + j + Ready(h.family) <= l.searched

\* A line that is painted is painted where it is, and one whose audio has come
\* is painted.
LEMMA PaintRight ==
    ASSUME NEW rec, NEW h, NEW j \in Nat, NEW l, Readable(rec, h, j), LinesRight(l, rec, h, j),
           l.hi = l.searched
    PROVE  LET x == TryDecodeNext(l, Grid(l))
           IN  /\ LinesRight(x, rec, h, j) /\ x.hi = l.hi /\ x.searched = l.searched
               /\ Len(l.rows) \in Nat /\ Len(x.rows) \in Nat /\ Len(l.rows) <= Len(x.rows)
               /\ HeardWell(h, Syncs(rec, h), j) /\ AllCame(l, h, j) /\ Len(l.rows) < Lines =>
                     Len(x.rows) = Len(l.rows) + 1
PROOF
<1> DEFINE g == Grid(l)
           k == Len(l.rows)
           at == g[k + 1]
           row == [at |-> at, whole |-> WholeLine(l.family, at, l.lo, l.hi)]
           x == TryDecodeNext(l, g)
           stays == at < l.lo \/ l.hi < at + Ready(l.family)
<1>1. /\ l.syncs \subseteq Int /\ IsFiniteSet(l.syncs) /\ g \in Seq(Int) /\ Len(g) <= Lines
      /\ k < Lines =>
            /\ \A n \in 1 .. Len(g) : IsLine(h, n, g[n], j)
            /\ (\E c \in l.syncs : IsLine(h, Lines, c, j)) => Len(g) = Lines
    BY GridOf
<1> HIDE DEF g
<1>2. k \in Nat /\ Len(g) \in Nat /\ Lines \in Nat \ {0} /\ h.at \in Int /\ l.family = h.family
      /\ Ready(h.family) \in Nat \ {0} /\ l.lo \in Int /\ l.searched \in Int
    BY <1>1, Sizes, OneAppended, ChannelsOf DEF LinesRight, LinesOk, Readable
<1> HIDE DEF k
<1>3. x = IF Cardinality(l.syncs) < 2 \/ k >= Len(g) \/ stays THEN l ELSE WithRow(l, row)
    BY DEF TryDecodeNext, DecodeAt, WithRow, k
<1>4. row.at = at
    OBVIOUS
<1> HIDE DEF x, row, stays
<1>5. ASSUME k < Len(g) PROVE k < Lines /\ k + 1 \in 1 .. Len(g) /\ at \in Int /\ IsLine(h, k + 1, at, j)
    <2>1. k < Lines /\ k + 1 \in 1 .. Len(g)
        BY <1>1, <1>2, <1>5
    <2>2. QED
        BY <1>1, <2>1
<1> HIDE DEF at
<1>6. ASSUME k < Len(g), ~stays, x = WithRow(l, row)
      PROVE  LinesRight(x, rec, h, j) /\ x.hi = l.hi /\ x.searched = l.searched /\ Len(x.rows) = k + 1
    <2>1. IsLine(h, Len(l.rows) + 1, row.at, j)
        BY <1>4, <1>5, <1>6 DEF k
    <2>2. QED
        BY <1>6, <2>1, RowRight DEF k
<1>7. ASSUME HeardWell(h, Syncs(rec, h), j), AllCame(l, h, j), k < Lines
      PROVE  ~(Cardinality(l.syncs) < 2) /\ ~(k >= Len(g)) /\ ~stays
    <2>1. CanGoOn(l, rec, h, j)
        BY <1>7 DEF LinesRight, k
    <2>2. ASSUME NEW n \in 1 .. Lines PROVE LineAt(h, n) <= LineAt(h, Lines) /\ LineAt(h, n) \in Int
        <3>1. n \in Int /\ Lines \in Int /\ n <= Lines
            BY <1>2
        <3>2. QED
            BY <1>2, <3>1, LineAtIs
    <2>3. LineAt(h, Lines) \in Int
        BY <1>2, LineAtIs
    <2>4. ASSUME NEW c \in Syncs(rec, h), NEW n \in 1 .. Lines, IsLine(h, n, c, j)
          PROVE  c \in l.syncs /\ c \in Int
        <3>1. c \in Int
            BY DEF Syncs, Readable
        <3>2. PICK x1 \in Int, y1 \in Int, r \in Nat \ {0}, s1 \in Int :
                  x1 = LineAt(h, n) /\ y1 = LineAt(h, Lines) /\ r = Ready(h.family) /\ s1 = l.searched
            BY <1>2, <2>2, <2>3
        <3>3. x1 <= y1 /\ c - x1 \in -j .. j /\ y1 + j + r <= s1
            BY <1>7, <2>2, <2>4, <3>2 DEF IsLine, AllCame
        <3>4. PICK b \in Int : b = c
            BY <3>1
        <3>5. b < s1
            BY <3>3, <3>4
        <3>6. QED
            BY <2>1, <3>1, <3>2, <3>4, <3>5 DEF CanGoOn
    <2>5. Len(g) = Lines
        <3>1. Lines \in 1 .. Lines
            BY <1>2
        <3>2. QED
            BY <1>1, <1>7, <2>4, <3>1 DEF HeardWell, k
    <2>6. ~(Cardinality(l.syncs) < 2)
        <3>1. PICK n \in 1 .. Lines, m \in 1 .. Lines :
                  n < m /\ \E c, d \in Syncs(rec, h) : IsLine(h, n, c, j) /\ IsLine(h, m, d, j)
            BY <1>7 DEF HeardWell
        <3>2. PICK c \in l.syncs, d \in l.syncs : IsLine(h, n, c, j) /\ IsLine(h, m, d, j)
            BY <2>4, <3>1
        <3>3. c # d
            <4>1. n \in Int /\ m \in Int /\ c \in Int /\ d \in Int /\ 2 * j <= Tolerance
                BY <1>1 DEF Readable
            <4>2. c < d
                BY <1>2, <3>1, <3>2, <4>1, LineOrder
            <4>3. QED
                BY <4>1, <4>2
        <3>4. {c, d} \subseteq l.syncs
            OBVIOUS
        <3>5. IsFiniteSet({c}) /\ Cardinality({c}) = 1 /\ d \notin {c} /\ {c} \cup {d} = {c, d}
            BY <3>3, FS_Singleton
        <3>6. Cardinality({c, d}) = 2
            <4>1. PICK S : S = {c}
                OBVIOUS
            <4>2. IsFiniteSet(S) /\ Cardinality(S) = 1 /\ d \notin S
                BY <3>5, <4>1
            <4>3. Cardinality(S \cup {d}) = 1 + 1
                BY <4>2, FS_AddElement
            <4>4. QED
                BY <3>5, <4>1, <4>3
        <3>7. Cardinality({c, d}) <= Cardinality(l.syncs) /\ Cardinality(l.syncs) \in Nat
            BY <1>1, <3>4, FS_Subset, FS_CardinalityType
        <3>8. QED
            BY <3>6, <3>7
    <2>7. k < Len(g)
        BY <1>7, <2>5
    <2>8. IsLine(h, k + 1, at, j) /\ at \in Int /\ k + 1 \in 1 .. Lines
        BY <1>2, <1>5, <2>5, <2>7
    <2>9. ~stays
        <3>1. LineAt(h, k + 1) <= LineAt(h, Lines) /\ LineAt(h, k + 1) \in Int
            BY <2>2, <2>8
        <3>2. l.lo + j <= LineAt(h, k + 1)
            BY <2>1 DEF CanGoOn, k
        <3>3. LineAt(h, Lines) + j + Ready(h.family) <= l.searched
            BY <1>7 DEF AllCame
        <3>4. PICK x1 \in Int, y1 \in Int, r \in Nat \ {0}, s1 \in Int, a1 \in Int, lo1 \in Int :
                  /\ x1 = LineAt(h, k + 1) /\ y1 = LineAt(h, Lines) /\ r = Ready(h.family) /\ s1 = l.searched
                  /\ a1 = at /\ lo1 = l.lo
            BY <1>2, <2>3, <2>8, <3>1
        <3>5. x1 <= y1 /\ a1 - x1 \in -j .. j /\ y1 + j + r <= s1 /\ lo1 + j <= x1
            BY <2>8, <3>1, <3>2, <3>3, <3>4 DEF IsLine
        <3>6. ~(a1 < lo1) /\ ~(s1 < a1 + r)
            BY <3>5
        <3>7. QED
            BY <1>2, <3>4, <3>6 DEF stays
    <2>10. QED
        BY <1>2, <2>6, <2>7, <2>9
<1>8. CASE Cardinality(l.syncs) < 2 \/ k >= Len(g) \/ stays
    <2>1. x = l
        BY <1>3, <1>8
    <2>2. QED
        BY <1>2, <1>7, <1>8, <2>1 DEF k, x, g
<1>9. CASE ~(Cardinality(l.syncs) < 2 \/ k >= Len(g) \/ stays)
    <2>1. x = WithRow(l, row) /\ k < Len(g)
        BY <1>2, <1>3, <1>9
    <2>2. LinesRight(x, rec, h, j) /\ x.hi = l.hi /\ x.searched = l.searched /\ Len(x.rows) = k + 1
        BY <1>6, <1>9, <2>1
    <2>3. k + 1 \in Nat /\ k <= k + 1
        BY <1>2
    <2>4. QED
        BY <1>2, <2>2, <2>3 DEF k, x, g
<1>10. QED
    BY <1>8, <1>9

\* All lines whose audio has come are painted, each where it is.
LEMMA PaintedRight ==
    ASSUME NEW rec, NEW h, NEW j \in Nat, NEW l, Readable(rec, h, j), LinesRight(l, rec, h, j),
           l.hi = l.searched
    PROVE  LET x == AllPainted(l, [n \in 1 .. Lines |-> n])
           IN  /\ LinesRight(x, rec, h, j) /\ x.hi = l.hi /\ x.searched = l.searched
               /\ HeardWell(h, Syncs(rec, h), j) /\ AllCame(l, h, j) => ~(Len(x.rows) < Lines)
PROOF
<1> DEFINE seq == [n \in 1 .. Lines |-> n]
           x == AllPainted(l, seq)
           Done == HeardWell(h, Syncs(rec, h), j) /\ AllCame(l, h, j)
           Good(y) == LinesRight(y, rec, h, j) /\ y.hi = l.hi /\ y.searched = l.searched /\ Len(y.rows) \in Nat
<1>1. Lines \in Nat /\ Spans(seq, Lines)
    BY GridAssumption DEF Spans
<1> HIDE DEF seq
<1>2. PICK v : v[0] = l /\ v[Lines] = x
               /\ \A n \in 1 .. Lines : v[n] = TryDecodeNext(v[n - 1], Grid(v[n - 1]))
    BY <1>1, PaintUnrolls
<1> HIDE DEF x
<1> DEFINE S == {n \in Nat : n <= Lines => Good(v[n]) /\ (Done => n <= Len(v[n].rows))}
<1>3. 0 \in S
    <2>1. Len(l.rows) \in Nat
        BY OneAppended DEF LinesRight, LinesOk
    <2>2. QED
        BY <1>2, <2>1
<1>4. ASSUME NEW n \in Nat, n \in S PROVE n + 1 \in S
    <2> SUFFICES ASSUME n + 1 <= Lines
                 PROVE  Good(v[n + 1]) /\ (Done => n + 1 <= Len(v[n + 1].rows))
        OBVIOUS
    <2>1. n + 1 \in 1 .. Lines /\ (n + 1) - 1 = n /\ Good(v[n]) /\ (Done => n <= Len(v[n].rows))
        BY <1>1, <1>4
    <2> DEFINE y == v[n]
               z == v[n + 1]
    <2>2. z = TryDecodeNext(y, Grid(y))
        BY <1>2, <2>1
    <2>3. Good(y) /\ (Done => n <= Len(y.rows))
        BY <2>1
    <2> HIDE DEF y, z
    <2>4. /\ LinesRight(z, rec, h, j) /\ z.hi = y.hi /\ z.searched = y.searched
          /\ Len(y.rows) \in Nat /\ Len(z.rows) \in Nat /\ Len(y.rows) <= Len(z.rows)
          /\ HeardWell(h, Syncs(rec, h), j) /\ AllCame(y, h, j) /\ Len(y.rows) < Lines =>
                 Len(z.rows) = Len(y.rows) + 1
        BY <2>2, <2>3, PaintRight
    <2>5. Done => HeardWell(h, Syncs(rec, h), j) /\ AllCame(y, h, j)
        BY <2>3 DEF AllCame
    <2>6. Done => n + 1 <= Len(z.rows)
        <3> SUFFICES ASSUME Done PROVE n + 1 <= Len(z.rows)
            OBVIOUS
        <3>1. PICK p \in Nat, q \in Nat : p = Len(y.rows) /\ q = Len(z.rows)
            BY <2>4
        <3>2. n <= p /\ p <= q /\ (p < Lines => q = p + 1)
            BY <2>3, <2>4, <2>5, <3>1
        <3> HIDE DEF Done
        <3>3. n + 1 <= q
            BY <1>1, <2>1, <3>2
        <3>4. QED
            BY <3>1, <3>3
    <2>7. Good(z)
        BY <2>3, <2>4
    <2>8. QED
        BY <2>6, <2>7 DEF z
<1> HIDE DEF S
<1>5. Lines \in S
    BY <1>1, <1>3, <1>4, Inductive
<1>6. Good(x) /\ (Done => Lines <= Len(x.rows))
    BY <1>1, <1>2, <1>5 DEF S
<1>7. Done => ~(Len(x.rows) < Lines)
    BY <1>1, <1>6
<1>8. QED
    BY <1>6, <1>7 DEF x, seq

\* Audio that no line needs may be given up.
Shorter(l, lo) == [l EXCEPT !.lo = lo]
LEMMA ShrinkRight ==
    ASSUME NEW rec, NEW h, NEW j \in Nat, NEW l, NEW lo \in Int, LinesRight(l, rec, h, j),
           lo <= l.searched,
           HeardWell(h, Syncs(rec, h), j) /\ Len(l.rows) < Lines => lo + j <= LineAt(h, Len(l.rows) + 1)
    PROVE  LET x == Shorter(l, lo)
           IN  LinesRight(x, rec, h, j) /\ x.hi = l.hi /\ x.searched = l.searched /\ x.rows = l.rows
               /\ x.family = l.family /\ x.syncs = l.syncs /\ x.lo = lo
PROOF
<1> DEFINE x == Shorter(l, lo)
<1>1. /\ LinesOk(x) /\ x.hi = l.hi /\ x.family = l.family /\ x.visEnd = l.visEnd /\ x.lo = lo
      /\ x.searched = l.searched /\ x.syncs = l.syncs /\ x.rows = l.rows
    BY DEF LinesRight, LinesOk, IsRecord, LineFields, Shorter
<1> HIDE DEF x
<1>2. HeardWell(h, Syncs(rec, h), j) /\ Len(x.rows) < Lines => CanGoOn(x, rec, h, j)
    BY <1>1 DEF LinesRight, CanGoOn
<1>3. LinesRight(x, rec, h, j)
    BY <1>1, <1>2 DEF LinesRight
<1>4. QED
    BY <1>1, <1>3 DEF x

\* Pruning keeps the audio of the next line.
LEMMA PruneRight ==
    ASSUME NEW rec, NEW h, NEW j \in Nat, NEW l, Readable(rec, h, j), LinesRight(l, rec, h, j),
           l.hi = l.searched
    PROVE  LET x == Prune(l, Grid(l))
           IN  LinesRight(x, rec, h, j) /\ x.hi = l.hi /\ x.searched = l.searched /\ x.rows = l.rows
PROOF
<1> DEFINE g == Grid(l)
           k == Len(l.rows)
           next == NextSync(l, g)
           to == next - Lookback(l.family)
           x == Prune(l, g)
<1>1. /\ l.syncs \subseteq Int /\ IsFiniteSet(l.syncs) /\ g \in Seq(Int) /\ Len(g) <= Lines
      /\ k < Lines =>
            /\ \A n \in 1 .. Len(g) : IsLine(h, n, g[n], j)
            /\ l.syncs # {} => Len(g) = Lines \/ (Len(g) >= 1 /\ IsLine(h, Len(g), Max(l.syncs), j))
    BY GridOf
<1> HIDE DEF g
<1>2. /\ k \in Nat /\ Len(g) \in Nat /\ Lines \in Nat \ {0} /\ h.at \in Int /\ l.family = h.family
      /\ l.searched \in Int /\ Margin \in Nat /\ 2 * j <= Margin /\ Period \in Nat
      /\ Before(l.family) \in Nat
    BY <1>1, Sizes, OneAppended, ChannelsOf, MarginAssumption DEF LinesRight, LinesOk, Readable
<1> HIDE DEF k
<1>3. CASE l.rows = <<>> \/ l.syncs = {}
    <2>1. x = l
        BY <1>3 DEF Prune
    <2>2. QED
        BY <2>1 DEF x, g
<1>4. CASE ~(l.rows = <<>> \/ l.syncs = {})
    <2>1. x = PruneTo(l, to)
        BY <1>4 DEF Prune
    <2> HIDE DEF x
    <2>2. next = IF k < Len(g) THEN g[k + 1] ELSE Max(l.syncs) + Period
        BY DEF NextSync, k
    <2>3. Max(l.syncs) \in Int
        BY <1>1, <1>4, GreatestThere
    <2>4. next \in Int
        <3>1. CASE k < Len(g)
            <4>1. k + 1 \in 1 .. Len(g)
                BY <1>2, <3>1
            <4>2. QED
                BY <1>1, <2>2, <3>1, <4>1
        <3>2. CASE ~(k < Len(g))
            BY <1>2, <2>2, <2>3, <3>2
        <3>3. QED
            BY <3>1, <3>2
    <2>5. ASSUME k < Lines PROVE next <= LineAt(h, k + 1) + j /\ LineAt(h, k + 1) \in Int
        <3>0. LineAt(h, k + 1) \in Int
            <4>1. k + 1 \in Int
                BY <1>2
            <4>2. QED
                BY <1>2, <4>1, LineAtIs
        <3>1. CASE k < Len(g)
            <4>1. k + 1 \in 1 .. Len(g)
                BY <1>2, <3>1
            <4>2. IsLine(h, k + 1, next, j)
                BY <1>1, <2>2, <2>5, <3>1, <4>1
            <4>3. QED
                BY <2>4, <3>0, <4>2 DEF IsLine
        <3>2. CASE ~(k < Len(g))
            <4>1. Len(g) # Lines /\ Len(g) <= k
                BY <1>2, <2>5, <3>2
            <4>2. IsLine(h, Len(g), Max(l.syncs), j)
                BY <1>1, <1>4, <2>5, <4>1
            <4>3. PICK n \in Int, m \in Int : n = Len(g) /\ m = k
                BY <1>2
            <4>3a. h.at \in Int
                BY <1>2
            <4>4. LineAt(h, n) \in Int /\ LineAt(h, n + 1) = LineAt(h, n) + Period
                BY <4>3a, LineAtIs
            <4>5. LineAt(h, n + 1) <= LineAt(h, m + 1)
                <5>1. n + 1 \in Int /\ m + 1 \in Int /\ n + 1 <= m + 1
                    BY <4>1, <4>3
                <5>2. QED
                    BY <1>2, <5>1, LineAtIs
            <4>6. PICK p \in Int, q \in Int, r \in Int :
                      p = LineAt(h, n) /\ q = LineAt(h, m + 1) /\ r = Max(l.syncs)
                BY <2>3, <3>0, <4>3, <4>4
            <4>7. r - p \in -j .. j /\ p + Period <= q
                BY <4>2, <4>3, <4>4, <4>5, <4>6 DEF IsLine
            <4>8. r + Period <= q + j
                BY <1>2, <4>7
            <4>9. next = r + Period
                BY <2>2, <3>2, <4>6
            <4>10. QED
                BY <3>0, <4>3, <4>6, <4>8, <4>9
        <3>3. QED
            BY <3>1, <3>2
    <2>6. Lookback(l.family) = Before(l.family) + Margin
        BY DEF Lookback
    <2>7. to \in Int
        BY <1>2, <2>4, <2>6
    <2>8. k < Lines => to + j <= LineAt(h, k + 1)
        <3> SUFFICES ASSUME k < Lines PROVE to + j <= LineAt(h, k + 1)
            OBVIOUS
        <3>1. PICK p \in Int, b \in Nat, y \in Int : p = LineAt(h, k + 1) /\ b = Before(l.family) /\ y = next
            BY <1>2, <2>4, <2>5
        <3>2. y <= p + j
            BY <2>5, <3>1
        <3>3. to = y - (b + Margin)
            BY <2>6, <3>1
        <3> HIDE DEF to
        <3>4. to + j <= p
            BY <1>2, <3>2, <3>3
        <3>5. QED
            BY <3>1, <3>4
    <2> HIDE DEF to
    <2>9. x = l \/ (to <= l.hi /\ x = Shorter(l, to))
        BY <2>1 DEF PruneTo, Shorter
    <2>10. ASSUME to <= l.hi
           PROVE  LET z == Shorter(l, to)
                  IN  LinesRight(z, rec, h, j) /\ z.hi = l.hi /\ z.searched = l.searched /\ z.rows = l.rows
        <3>1. to <= l.searched
            BY <2>10
        <3>2. HeardWell(h, Syncs(rec, h), j) /\ Len(l.rows) < Lines => to + j <= LineAt(h, Len(l.rows) + 1)
            BY <2>8 DEF k
        <3>3. QED
            BY <2>7, <3>1, <3>2, ShrinkRight
    <2>11. QED
        BY <2>9, <2>10 DEF x, g
<1>5. QED
    BY <1>3, <1>4

\* The cap on a decode that stalls takes nothing from one that can go on.
LEMMA StallRight ==
    ASSUME NEW rec, NEW h, NEW j \in Nat, NEW l, Readable(rec, h, j), LinesRight(l, rec, h, j),
           l.hi = l.searched,
           HeardWell(h, Syncs(rec, h), j) /\ AllCame(l, h, j) => ~(Len(l.rows) < Lines)
    PROVE  LET x == EnforceStallCap(l)
           IN  LinesRight(x, rec, h, j) /\ x.searched = l.searched
PROOF
<1> DEFINE k == Len(l.rows)
           long == (Lines * Period * 3) \div 2
           lo == l.hi - long - Lookback(l.family) - Margin
           y == Shorter(l, lo)
           few == {c \in l.syncs : c >= lo}
           x == [y EXCEPT !.syncs = few]
<1>1. /\ k \in Nat /\ Lines \in Nat \ {0} /\ h.at \in Int /\ l.family = h.family /\ l.visEnd = h.at + VisLength
      /\ l.searched \in Int /\ l.hi = l.searched /\ Margin \in Nat /\ 2 * j <= Margin /\ Period \in Nat
      /\ Before(h.family) \in Nat /\ Ready(h.family) \in Nat /\ Ready(h.family) <= Period
      /\ Lines * Period \in Nat /\ VisLength \in Nat /\ l.syncs \subseteq Syncs(rec, h)
    BY Sizes, OneAppended, ChannelsOf, MarginAssumption, DecoderSizes DEF LinesRight, LinesOk, Readable
<1> HIDE DEF k
<1>2. Lookback(l.family) = Before(h.family) + Margin
    BY <1>1 DEF Lookback
<1>3. long \in Nat /\ Lines * Period <= long
    <2>1. \A b \in Nat : (b * 3) \div 2 \in Nat /\ b <= (b * 3) \div 2
        OBVIOUS
    <2>2. QED
        BY <1>1, <2>1
<1> HIDE DEF long
<1>4. lo \in Int /\ lo <= l.searched
    BY <1>1, <1>2, <1>3, SMTT(60)
<1>5. ASSUME HeardWell(h, Syncs(rec, h), j), k < Lines
      PROVE  lo + j <= h.at + VisLength
    <2>1. ~(LineAt(h, Lines) + j + Ready(h.family) <= l.searched)
        BY <1>5 DEF AllCame, k
    <2>2. LineAt(h, Lines) = h.at + VisLength + Before(h.family) + (Lines - 1) * Period
        BY DEF LineAt
    <2>3. (Lines - 1) * Period = Lines * Period - Period
        <3>1. \A a, b \in Int : (a - 1) * b = a * b - b
            OBVIOUS
        <3>2. Lines \in Int /\ Period \in Int
            BY <1>1
        <3>3. QED
            BY <3>1, <3>2
    <2>3a. PICK e \in Int : e = h.at + VisLength
        BY <1>1
    <2>3b. PICK b \in Nat : b = Lines * Period
        BY <1>1
    <2>4. PICK f \in Nat, r \in Nat, s \in Int :
              b = Lines * Period /\ f = Before(h.family) /\ r = Ready(h.family) /\ e = h.at + VisLength
              /\ s = l.searched
        BY <1>1, <2>3a, <2>3b
    <2>5. ~(e + f + (b - Period) + j + r <= s) /\ r <= Period /\ b <= long
        BY <1>1, <1>3, <2>1, <2>2, <2>3, <2>4
    <2>6. lo = s - long - (f + Margin) - Margin
        BY <1>1, <1>2, <2>4
    <2> HIDE DEF lo
    <2>7. lo + j <= e
        BY <1>1, <1>3, <1>4, <2>5, <2>6
    <2>8. QED
        BY <2>4, <2>7
<1>6. EnforceStallCap(l) = KeepFrom(l, lo)
    BY DEF EnforceStallCap, long
<1> HIDE DEF lo
<1>7. HeardWell(h, Syncs(rec, h), j) /\ k < Lines => lo + j <= LineAt(h, k + 1)
    <2> SUFFICES ASSUME HeardWell(h, Syncs(rec, h), j), k < Lines PROVE lo + j <= LineAt(h, k + 1)
        OBVIOUS
    <2>1. LineAt(h, 1) <= LineAt(h, k + 1) /\ LineAt(h, 1) \in Int /\ LineAt(h, k + 1) \in Int
        <3>1. k + 1 \in Int /\ 1 <= k + 1
            BY <1>1
        <3>2. QED
            BY <1>1, <3>1, LineAtIs
    <2>2. LineAt(h, 1) = h.at + VisLength + Before(h.family)
        BY <1>1, LineAtIs
    <2>3. PICK p \in Int, q \in Int, e \in Int, f \in Nat :
              p = LineAt(h, 1) /\ q = LineAt(h, k + 1) /\ e = h.at + VisLength /\ f = Before(h.family)
        BY <1>1, <2>1
    <2>4. lo + j <= e /\ p = e + f /\ p <= q
        BY <1>5, <2>1, <2>2, <2>3
    <2>5. lo + j <= q
        BY <1>4, <2>4
    <2>6. QED
        BY <2>3, <2>5
<1>8. /\ LinesRight(y, rec, h, j) /\ y.searched = l.searched /\ y.rows = l.rows /\ y.syncs = l.syncs
      /\ y.family = l.family /\ y.lo = lo /\ y.hi = l.hi
    <2>1. HeardWell(h, Syncs(rec, h), j) /\ Len(l.rows) < Lines => lo + j <= LineAt(h, Len(l.rows) + 1)
        BY <1>7 DEF k
    <2>2. QED
        BY <1>4, <2>1, ShrinkRight
<1>9. HeardWell(h, Syncs(rec, h), j) /\ k < Lines => few = l.syncs
    <2> SUFFICES ASSUME HeardWell(h, Syncs(rec, h), j), k < Lines PROVE few = l.syncs
        OBVIOUS
    <2>1. ASSUME NEW c \in l.syncs PROVE c >= lo
        <3>1. c \in Int /\ h.at + VisLength <= c
            BY <1>1 DEF Syncs, Readable
        <3>2. PICK e \in Int : e = h.at + VisLength /\ lo + j <= e
            BY <1>1, <1>5
        <3>3. QED
            BY <1>4, <3>1, <3>2
    <2>2. QED
        BY <2>1
<1>10. few \subseteq l.syncs
    OBVIOUS
<1>11. KeepFrom(l, lo) = l \/ KeepFrom(l, lo) = x
    <2>1. x = [l EXCEPT !.lo = lo, !.syncs = few]
        BY DEF LinesRight, LinesOk, IsRecord, LineFields, Shorter
    <2>2. [l EXCEPT !.lo = lo, !.syncs = {c \in @ : c >= lo}] = [l EXCEPT !.lo = lo, !.syncs = few]
        BY DEF LinesRight, LinesOk, IsRecord, LineFields
    <2>3. QED
        BY <2>1, <2>2 DEF KeepFrom
<1> HIDE DEF few, y
<1>12. /\ LinesOk(x) /\ x.hi = y.hi /\ x.family = y.family /\ x.visEnd = y.visEnd /\ x.lo = y.lo
       /\ x.searched = y.searched /\ x.syncs = few /\ x.rows = y.rows
    BY <1>8 DEF LinesRight, LinesOk, IsRecord, LineFields
<1> HIDE DEF x
<1>13. HeardWell(h, Syncs(rec, h), j) /\ k < Lines => (CanGoOn(y, rec, h, j) => CanGoOn(x, rec, h, j))
    BY <1>8, <1>9, <1>12 DEF CanGoOn
<1>14. LinesRight(x, rec, h, j)
    BY <1>8, <1>10, <1>12, <1>13 DEF LinesRight, k
<1>15. QED
    BY <1>6, <1>8, <1>11, <1>12, <1>14

\* A feed leaves the line decoder in order.
LEMMA FeedLinesRight ==
    ASSUME NEW rec, NEW h, NEW j \in Nat, NEW l, NEW upto \in Int, Readable(rec, h, j),
           LinesRight(l, rec, h, j), l.searched <= upto
    PROVE  LET x == FeedLines(l, rec, upto)
           IN  LinesRight(x, rec, h, j) /\ x.searched = upto
PROOF
<1> DEFINE heard == UpdateSyncs([l EXCEPT !.hi = upto], rec)
           painted == AllPainted(heard, [n \in 1 .. Lines |-> n])
           pruned == Prune(painted, Grid(painted))
<1>1. FeedLines(l, rec, upto) = EnforceStallCap(pruned)
    BY DEF FeedLines, AllPainted, painted, heard
<1>2. LinesRight(heard, rec, h, j) /\ heard.hi = upto /\ heard.searched = upto
    BY UpdateRight
<1> HIDE DEF heard
<1>3. /\ LinesRight(painted, rec, h, j) /\ painted.hi = upto /\ painted.searched = upto
      /\ HeardWell(h, Syncs(rec, h), j) /\ AllCame(heard, h, j) => ~(Len(painted.rows) < Lines)
    BY <1>2, PaintedRight
<1> HIDE DEF painted
<1>4. /\ LinesRight(pruned, rec, h, j) /\ pruned.hi = upto /\ pruned.searched = upto
      /\ pruned.rows = painted.rows
    BY <1>3, PruneRight
<1> HIDE DEF pruned
<1>5. HeardWell(h, Syncs(rec, h), j) /\ AllCame(pruned, h, j) => ~(Len(pruned.rows) < Lines)
    BY <1>2, <1>3, <1>4 DEF AllCame
<1>6. LinesRight(EnforceStallCap(pruned), rec, h, j) /\ EnforceStallCap(pruned).searched = upto
    BY <1>4, <1>5, StallRight
<1>7. QED
    BY <1>1, <1>6

\* A new line decoder is in order.
LEMMA NewLinesRight ==
    ASSUME NEW rec, NEW h, NEW j \in Nat, NEW lo \in Int, Readable(rec, h, j), lo <= h.at
    PROVE  LET l == NewLines(h.family, h.at + VisLength, lo)
           IN  LinesRight(l, rec, h, j) /\ l.searched = lo
PROOF
<1> DEFINE l == NewLines(h.family, h.at + VisLength, lo)
<1>1. /\ LinesOk(l) /\ l.family = h.family /\ l.visEnd = h.at + VisLength /\ l.lo = lo /\ l.hi = lo
      /\ l.searched = lo /\ l.syncs = {} /\ l.rows = <<>>
    BY EmptySequence DEF LinesOk, IsRecord, LineFields, NewLines
<1> HIDE DEF l
<1>2. h.at \in Int /\ VisLength \in Nat \ {0} /\ j <= VisLength /\ Before(h.family) \in Nat
      /\ rec.pulses \subseteq Int /\ h \in rec.headers /\ h.family # "none"
    BY DecoderSizes, ChannelsOf DEF Readable
<1>3. RowsAre(rec, h, l.rows, j)
    BY <1>1, <1>2, EmptySequence DEF RowsAre
<1>4. CanGoOn(l, rec, h, j)
    <2>1. ASSUME NEW c \in Syncs(rec, h) PROVE ~(c < lo)
        <3>1. c \in Int /\ h.at + VisLength <= c
            BY <1>2 DEF Syncs
        <3>2. QED
            BY <1>2, <3>1
    <2>2. LineAt(h, 1) = h.at + VisLength + Before(h.family)
        BY <1>2, LineAtIs
    <2>3. lo + j <= LineAt(h, 1)
        BY <1>2, <2>2
    <2>4. Len(l.rows) + 1 = 1
        BY <1>1, EmptySequence
    <2>5. QED
        BY <1>1, <2>1, <2>3, <2>4 DEF CanGoOn
<1>5. LinesRight(l, rec, h, j)
    BY <1>1, <1>3, <1>4 DEF LinesRight
<1>6. QED
    BY <1>1, <1>5 DEF l

-----------------------------------------------------------------------------
(* The batch path.                                                         *)

\* The lines of the grid whose start is in the buffer, as a fold with a name.
KeepStart(s, d, at) == IF d.lo <= at /\ at < d.hi THEN Append(s, at) ELSE s
AllTrimmed(d, base, seq) == FoldLeft(LAMBDA s, at : KeepStart(s, d, at), base, seq)

\* The lines kept after each one.
LEMMA TrimUnrolls ==
    ASSUME NEW base, NEW seq, NEW k, NEW d, Spans(seq, k)
    PROVE  \E v : /\ v[0] = base /\ v[k] = AllTrimmed(d, base, seq)
                  /\ \A n \in 1 .. k : v[n] = KeepStart(v[n - 1], d, seq[n])
PROOF
<1>0. k \in Nat /\ DOMAIN seq = 1 .. k
    BY DEF Spans
<1> DEFINE Is(g, n) == g = [s \in SUBSET (1 .. n) |-> IF s = {} THEN base ELSE KeepStart(g[s \ {Max(s)}], d, seq[Max(s)])]
           S == {n \in Nat : \E g : Is(g, n)}
<1>1. 0 \in S
    <2>1. SUBSET (1 .. 0) = {{}}
        OBVIOUS
    <2>2. Is([s \in SUBSET (1 .. 0) |-> base], 0)
        BY <2>1
    <2>3. QED
        BY <2>2
<1>2. ASSUME NEW n \in Nat, n \in S PROVE n + 1 \in S
    <2>1. PICK g : Is(g, n)
        BY <1>2
    <2> DEFINE u == [t \in SUBSET (1 .. n) |-> KeepStart(g[t], d, seq[n + 1])]
               h == [s \in SUBSET (1 .. n + 1) |-> IF n + 1 \in s THEN u[s \ {n + 1}] ELSE g[s]]
    <2> HIDE DEF Is
    <2>2. \A s \in SUBSET (1 .. n + 1) :
             h[s] = IF s = {} THEN base ELSE KeepStart(h[s \ {Max(s)}], d, seq[Max(s)])
        <3> TAKE s \in SUBSET (1 .. n + 1)
        <3>1. CASE n + 1 \in s
            <4>1. /\ Max(s) = n + 1 /\ s # {} /\ s \ {n + 1} \in SUBSET (1 .. n)
                  /\ h[s] = u[s \ {n + 1}] /\ h[s \ {n + 1}] = g[s \ {n + 1}]
                BY <3>1, OneLarger, Zenon
            <4>2. u[s \ {n + 1}] = KeepStart(g[s \ {n + 1}], d, seq[n + 1])
                BY <4>1
            <4> HIDE DEF h, u
            <4>3. QED
                BY <4>1, <4>2
        <3>2. CASE n + 1 \notin s
            <4>1. s \in SUBSET (1 .. n) /\ h[s] = g[s] /\ h[s \ {Max(s)}] = g[s \ {Max(s)}]
                BY <3>2, OneLarger, Zenon
            <4>2. g[s] = IF s = {} THEN base ELSE KeepStart(g[s \ {Max(s)}], d, seq[Max(s)])
                BY <2>1, <4>1 DEF Is
            <4> HIDE DEF h, u
            <4>3. QED
                BY <4>1, <4>2
        <3>3. QED
            BY <3>1, <3>2
    <2> HIDE DEF u
    <2>3. h = [s \in SUBSET (1 .. n + 1) |-> h[s]]
        OBVIOUS
    <2> HIDE DEF h
    <2>4. Is(h, n + 1)
        BY <2>2, <2>3 DEF Is
    <2>5. QED
        BY <2>4
<1>3. \E g : Is(g, k)
    <2> HIDE DEF Is
    <2>1. QED
        BY <1>0, <1>1, <1>2, Inductive
<1> DEFINE w == CHOOSE g : Is(g, k)
<1>4. Is(w, k)
    <2> HIDE DEF Is
    <2>1. QED
        BY <1>3
<1>5. AllTrimmed(d, base, seq) = w[1 .. k]
    BY <1>0 DEF FoldLeft, MapThenFoldSet, AllTrimmed
<1> HIDE DEF w
<1> DEFINE v == [n \in 0 .. k |-> w[1 .. n]]
<1>6. v[0] = base
    <2>1. v[0] = w[1 .. 0] /\ 1 .. 0 = {} /\ {} \in SUBSET (1 .. k)
        BY <1>0
    <2>2. w[{}] = base
        BY <1>4, <2>1
    <2>3. QED
        BY <2>1, <2>2
<1>7. ASSUME NEW n \in 1 .. k PROVE v[n] = KeepStart(v[n - 1], d, seq[n])
    <2>1. v[n] = w[1 .. n] /\ v[n - 1] = w[1 .. n - 1] /\ n \in Nat
        BY <1>0
    <2>2. Max(1 .. n) = n /\ (1 .. n) \ {n} = 1 .. n - 1 /\ 1 .. n # {} /\ 1 .. n \in SUBSET (1 .. k)
        <3>1. n \in Nat /\ n \in 1 .. n
            BY <1>0
        <3>2. Max(1 .. n) = n
            BY <3>1, LargestOf
        <3>3. QED
            BY <1>0, <3>1, <3>2
    <2>3. w[1 .. n] = KeepStart(w[1 .. n - 1], d, seq[n])
        BY <1>4, <2>2
    <2> HIDE DEF v
    <2>4. QED
        BY <2>1, <2>3
<1>8. v[k] = w[1 .. k]
    BY <1>0
<1>9. QED
    BY <1>5, <1>6, <1>7, <1>8

\* The lines are in order, and none is before lo.
InOrder(g, lo) ==
    /\ g \in Seq(Int)
    /\ \A n \in 1 .. Len(g) : lo <= g[n]
    /\ \A n, m \in 1 .. Len(g) : n < m => g[n] < g[m]

\* Of lines in order that all lie behind its beginning, a buffer has the first ones.
LEMMA TrimIs ==
    ASSUME NEW d, d.hi \in Int, NEW g, InOrder(g, d.lo)
    PROVE  LET t == AllTrimmed(d, <<>>, g)
           IN  /\ t \in Seq(Int) /\ Len(t) <= Len(g) /\ \A n \in 1 .. Len(t) : t[n] = g[n]
               /\ \A n \in 1 .. Len(t) : t[n] < d.hi
               /\ Len(t) = Len(g) \/ (Len(g) >= 1 /\ g[Len(g)] >= d.hi)
PROOF
<1> DEFINE k == Len(g)
           none == <<>>
           t == AllTrimmed(d, none, g)
           Good(s, n) == /\ s \in Seq(Int) /\ Len(s) <= n /\ \A i \in 1 .. Len(s) : s[i] = g[i] /\ s[i] < d.hi
                         /\ Len(s) = n \/ (n >= 1 /\ g[n] >= d.hi)
<1>0. g \in Seq(Int)
    BY DEF InOrder
<1>1. k \in Nat /\ Spans(g, k)
    BY <1>0 DEF Spans
<1>2. none \in Seq(Int) /\ Len(none) = 0
    OBVIOUS
<1>2a. Good(none, 0)
    BY <1>2
<1> HIDE DEF none, k
<1>3. PICK v : v[0] = none /\ v[k] = t /\ \A n \in 1 .. k : v[n] = KeepStart(v[n - 1], d, g[n])
    BY <1>1, TrimUnrolls
<1> HIDE DEF t
<1> DEFINE S == {n \in Nat : n <= k => Good(v[n], n)}
<1>4. 0 \in S
    <2> HIDE DEF Good
    <2>1. QED
        BY <1>2a, <1>3
<1>5. ASSUME NEW n \in Nat, n \in S PROVE n + 1 \in S
    <2> SUFFICES ASSUME n + 1 <= k PROVE Good(v[n + 1], n + 1)
        OBVIOUS
    <2>0. n + 1 \in 1 .. k /\ (n + 1) - 1 = n /\ n <= k
        BY <1>1
    <2>0a. k = Len(g)
        BY DEF k
    <2>1. n + 1 \in 1 .. k /\ (n + 1) - 1 = n /\ n <= k /\ 1 .. k = 1 .. Len(g)
        BY <2>0, <2>0a
    <2>2. Good(v[n], n)
        BY <1>5, <2>1
    <2>3. PICK s : s = v[n]
        OBVIOUS
    <2>4. PICK a \in Int : a = g[n + 1]
        <3>1. n + 1 \in 1 .. Len(g)
            BY <2>1
        <3>2. g[n + 1] \in Int
            BY <1>0, <3>1
        <3>3. QED
            BY <3>2
    <2>5. v[n + 1] = KeepStart(s, d, a) /\ d.lo <= a
        BY <1>3, <2>1, <2>3, <2>4 DEF InOrder
    <2>6. /\ s \in Seq(Int) /\ Len(s) \in Nat /\ Len(s) <= n
          /\ \A i \in 1 .. Len(s) : s[i] = g[i] /\ s[i] < d.hi
          /\ Len(s) = n \/ (n >= 1 /\ g[n] >= d.hi)
        BY <2>2, <2>3
    <2>7. CASE a < d.hi
        <3>1. Len(s) = n
            <4> SUFFICES ASSUME n >= 1, g[n] >= d.hi PROVE FALSE
                BY <2>6
            <4>1. n \in 1 .. k /\ n < n + 1
                BY <1>1, <2>1
            <4>1a. n \in 1 .. Len(g) /\ n + 1 \in 1 .. Len(g)
                BY <2>1, <4>1
            <4>2. g[n] < g[n + 1] /\ g[n] \in Int
                BY <1>0, <4>1, <4>1a DEF InOrder
            <4>3. QED
                BY <2>4, <2>7, <4>2
        <3>2. v[n + 1] = Append(s, a)
            BY <2>5, <2>7 DEF KeepStart
        <3>3. /\ Append(s, a) \in Seq(Int) /\ Len(Append(s, a)) = n + 1
              /\ \A i \in 1 .. n : Append(s, a)[i] = s[i]
              /\ Append(s, a)[n + 1] = a
            BY <2>6, <3>1
        <3>4. ASSUME NEW i \in 1 .. n + 1 PROVE Append(s, a)[i] = g[i] /\ Append(s, a)[i] < d.hi
            <4>1. CASE i = n + 1
                BY <2>4, <2>7, <3>3, <4>1
            <4>2. CASE i # n + 1
                <5>1. i \in 1 .. n
                    BY <4>2
                <5>2. QED
                    BY <2>6, <3>1, <3>3, <5>1
            <4>3. QED
                BY <4>1, <4>2
        <3>5. QED
            BY <3>2, <3>3, <3>4
    <2>8. CASE ~(a < d.hi)
        <3>1. v[n + 1] = s
            BY <2>5, <2>8 DEF KeepStart
        <3>2. Len(s) <= n + 1 /\ n + 1 >= 1 /\ g[n + 1] >= d.hi
            BY <2>4, <2>6, <2>8
        <3>3. QED
            BY <2>6, <3>1, <3>2
    <2>9. QED
        BY <2>7, <2>8
<1> HIDE DEF S
<1>6. Good(t, k)
    <2>1. k \in S
        BY <1>1, <1>4, <1>5, Inductive
    <2>2. Good(v[k], k)
        BY <1>1, <2>1 DEF S
    <2>3. QED
        BY <1>3, <2>2
<1>7. QED
    BY <1>6 DEF t, none, k

\* The batch path paints each line where it is.
LEMMA BatchRight ==
    ASSUME NEW rec, NEW j \in Nat, NEW d, Readable(rec, d.header, j), d.visEnd = d.header.at + VisLength,
           d.lo \in Int, d.hi \in Int, d.lo <= d.header.at
    PROVE  LET rows == BatchLines(d, rec).rows
           IN  /\ RowsAre(rec, d.header, rows, j)
               /\ Len(rows) \in Nat /\ \A n \in 1 .. Len(rows) : rows[n].at \in Int /\ rows[n].at < d.hi
               /\ Len(rows) > 0 => Syncs(rec, d.header) # {}
               /\ (\E c \in Syncs(rec, d.header) : c < d.hi /\ IsLine(d.header, Lines, c, j))
                  /\ LineAt(d.header, Lines) + j < d.hi => Len(rows) = Lines
PROOF
<1> DEFINE h == d.header
           S == {c \in rec.pulses : d.visEnd <= c /\ c < d.hi}
           n0 == NewLines(h.family, d.visEnd, d.lo)
           l == [n0 EXCEPT !.hi = d.hi, !.syncs = S]
           g == Grid(l)
           t == AllTrimmed(d, <<>>, g)
<1>1. /\ h.at \in Int /\ VisLength \in Nat /\ d.visEnd = h.at + VisLength /\ rec.pulses \subseteq Int
      /\ IsFiniteSet(rec.pulses) /\ 2 * j <= Tolerance /\ j <= VisLength /\ h \in rec.headers /\ h.family # "none"
      /\ Before(h.family) \in Nat
    BY DecoderSizes, ChannelsOf DEF Readable
<1>2. S \subseteq Int /\ IsFiniteSet(S)
    BY <1>1, FS_Subset
<1>3. S = {c \in Syncs(rec, h) : c < d.hi}
    BY <1>1 DEF Syncs
<1> HIDE DEF S
<1>4. OfImage(h, S, j)
    BY <1>3, SoFarOfImage
<1>5. l.family = h.family /\ l.visEnd = d.visEnd /\ l.syncs = S
    BY DEF NewLines
<1>6. BatchLines(d, rec).rows = PixelRows(d, TrimToBuffer(d, g))
    BY DEF BatchLines, NewLines, S
<1> HIDE DEF l, n0
<1>7. LineAt(h, 1) \in Int /\ LineAt(h, 1) = h.at + VisLength + Before(h.family)
    <2> HIDE DEF h
    <2>1. h.at \in Int
        BY <1>1
    <2>2. QED
        BY <2>1, LineAtIs
<1>8. g = WalkSyncGrid(Ascending(S), LineAt(h, 1))
    BY <1>1, <1>5, <1>7 DEF Grid, Hint, Line0Hint
<1> HIDE DEF h
<1>9. /\ g \in Seq(Int) /\ \A n \in 1 .. Len(g) : IsLine(h, n, g[n], j)
      /\ (\E c \in S : IsLine(h, Lines, c, j)) => Len(g) = Lines
    BY <1>1, <1>2, <1>4, <1>8, GridRight
<1>10. TrimToBuffer(d, g) = t
    BY DEF TrimToBuffer, AllTrimmed, KeepStart, FoldLeft, MapThenFoldSet
<1> HIDE DEF g
<1>11. ASSUME NEW n \in 1 .. Len(g) PROVE d.lo <= g[n]
    <2>1. n \in Int /\ 1 <= n /\ g[n] \in Int
        BY <1>9
    <2>2. LineAt(h, 1) <= LineAt(h, n) /\ LineAt(h, n) \in Int
        BY <1>1, <2>1, LineAtIs
    <2>3. g[n] - LineAt(h, n) \in -j .. j
        BY <1>9 DEF IsLine
    <2>4. d.lo <= h.at
        BY DEF h
    <2>5. PICK p \in Int, q \in Int, f \in Nat, a \in Int, x \in Int :
              p = LineAt(h, 1) /\ q = LineAt(h, n) /\ f = Before(h.family) /\ a = h.at /\ x = g[n]
        BY <1>1, <1>7, <2>1, <2>2
    <2>6. p <= q /\ p = a + VisLength + f /\ x - q \in -j .. j /\ d.lo <= a
        BY <1>7, <2>2, <2>3, <2>4, <2>5
    <2>7. d.lo <= x
        BY <1>1, <2>6, SMTT(60)
    <2>8. QED
        BY <2>5, <2>7
<1>12. ASSUME NEW n \in 1 .. Len(g), NEW m \in 1 .. Len(g), n < m PROVE g[n] < g[m]
    <2>1. g[n] \in Int /\ g[m] \in Int /\ n \in Int /\ m \in Int /\ IsLine(h, n, g[n], j) /\ IsLine(h, m, g[m], j)
        BY <1>9
    <2>2. QED
        BY <1>1, <1>12, <2>1, LineOrder
<1>13. /\ t \in Seq(Int) /\ Len(t) <= Len(g) /\ \A n \in 1 .. Len(t) : t[n] = g[n]
       /\ \A n \in 1 .. Len(t) : t[n] < d.hi
       /\ Len(t) = Len(g) \/ (Len(g) >= 1 /\ g[Len(g)] >= d.hi)
    <2>1. InOrder(g, d.lo)
        BY <1>9, <1>11, <1>12 DEF InOrder
    <2>2. QED
        BY <1>9, <2>1, TrimIs
<1> HIDE DEF t
<1> DEFINE rows == PixelRows(d, t)
<1>14. /\ DOMAIN rows = 1 .. Len(t) /\ \A n \in 1 .. Len(t) : rows[n].at = t[n]
       /\ rows = [n \in 1 .. Len(t) |-> rows[n]]
    <2>1. DOMAIN t = 1 .. Len(t)
        BY <1>13
    <2>2. QED
        BY <2>1 DEF PixelRows
<1> HIDE DEF rows
<1>15. IsSequence(rows) /\ Len(rows) = Len(t)
    <2> DEFINE T == {rows[n] : n \in 1 .. Len(t)}
    <2>1. Len(t) \in Nat
        BY <1>13
    <2>2. rows \in [1 .. Len(t) -> T]
        BY <1>14
    <2> HIDE DEF T
    <2>3. rows \in Seq(T) /\ Len(rows) = Len(t)
        BY <2>1, <2>2
    <2>4. QED
        BY <2>3 DEF IsSequence
<1>16. ASSUME NEW n \in 1 .. Len(rows) PROVE IsLine(h, n, rows[n].at, j)
    <2>1. n \in 1 .. Len(t) /\ n \in 1 .. Len(g)
        BY <1>9, <1>13, <1>15
    <2>2. rows[n].at = g[n]
        BY <1>13, <1>14, <2>1
    <2>3. QED
        BY <1>9, <2>1, <2>2
<1>17. RowsAre(rec, h, rows, j)
    BY <1>1, <1>15, <1>16 DEF RowsAre
<1>18. /\ Len(rows) \in Nat /\ \A n \in 1 .. Len(rows) : rows[n].at \in Int /\ rows[n].at < d.hi
       /\ Len(rows) > 0 => Syncs(rec, h) # {}
    <2>1. ASSUME S = {} PROVE Len(g) = 0
        <3>1. Cardinality(S) = 0
            BY <2>1, FS_EmptySet
        <3>2. Ascending(S) \in Seq(Int) /\ Len(Ascending(S)) = Cardinality(S)
            BY <1>2, AscendingIs
        <3>3. Ascending(S) = <<>>
            BY <3>1, <3>2
        <3>4. WalkSyncGrid(<<>>, LineAt(h, 1)) = <<>>
            BY DEF WalkSyncGrid
        <3>5. QED
            BY <1>8, <3>3, <3>4
    <2>2. Len(t) > 0 => S # {}
        BY <1>9, <1>13, <2>1
    <2>3. QED
        BY <1>3, <1>13, <1>14, <1>15, <2>2
<1>19. ASSUME NEW c \in Syncs(rec, h), c < d.hi, IsLine(h, Lines, c, j), LineAt(h, Lines) + j < d.hi
       PROVE  Len(rows) = Lines
    <2>1. Len(g) = Lines
        BY <1>3, <1>9, <1>19 DEF h
    <2>2. Lines \in 1 .. Lines /\ Lines \in Nat
        BY Sizes
    <2>3. IsLine(h, Lines, g[Lines], j) /\ g[Lines] \in Int
        BY <1>9, <2>1, <2>2
    <2>4. LineAt(h, Lines) \in Int
        BY <1>1, <2>2, LineAtIs
    <2>5. g[Lines] < d.hi
        BY <1>19, <2>3, <2>4 DEF IsLine
    <2>6. Len(t) = Len(g)
        BY <1>13, <2>1, <2>3, <2>5
    <2>7. QED
        BY <1>15, <2>1, <2>6
<1>20. QED
    BY <1>6, <1>10, <1>17, <1>18, <1>19 DEF rows, h, S

-----------------------------------------------------------------------------
(* The decoder: the rows it tells of are in their places.                  *)

\* What the theorem needs of every header of the recording.
AllReadable(rec, j) ==
    \A h \in rec.headers : h.at \in Nat /\ (h.family # "none" => Readable(rec, h, j))

\* Events tell of rows that are in their places.
EventRight(e, rec, j) == RowsAre(rec, e.header, e.rows, j)
EventsRight(events, rec, j) == \A n \in 1 .. Len(events) : EventRight(events[n], rec, j)

\* A decoder inside an image has its rows in place and can go on with them;
\* the batch decoder still has the header.
ImageRight(d, how, rec, j) ==
    d.state = "decoding" =>
        /\ d.header \in rec.headers /\ d.header.family # "none"
        /\ how = "rows" => LinesRight(d.lines, rec, d.header, j) /\ d.lines.searched <= d.hi
        /\ how = "batch" => d.lo <= d.header.at

Proper(d, how, rec, j) == ImageRight(d, how, rec, j) /\ EventsRight(d.events, rec, j)

\* No rows are in their places.
LEMMA NoRowsAre ==
    ASSUME NEW rec, NEW h \in rec.headers, h.family # "none", NEW j
    PROVE  RowsAre(rec, h, <<>>, j)
PROOF
    BY EmptySequence DEF RowsAre

\* One event more.
LEMMA OneEventMore ==
    ASSUME NEW rec, NEW j, NEW events, NEW e, IsSequence(events), EventsRight(events, rec, j),
           EventRight(e, rec, j)
    PROVE  EventsRight(events \o <<e>>, rec, j)
PROOF
<1> DEFINE t == Append(events, e)
           k == Len(events)
<1>1. /\ k \in Nat /\ Len(t) = k + 1 /\ t[k + 1] = e /\ events \o <<e>> = t
      /\ \A n \in 1 .. k : t[n] = events[n]
    BY OneAppended
<1>2. \A n \in 1 .. k : EventRight(events[n], rec, j)
    BY DEF EventsRight
<1> HIDE DEF t, k
<1>3. ASSUME NEW n \in 1 .. k + 1 PROVE EventRight(t[n], rec, j)
    <2>1. CASE n = k + 1
        BY <1>1, <2>1
    <2>2. CASE n # k + 1
        <3>1. n \in 1 .. k
            BY <1>1, <2>2
        <3>2. QED
            BY <1>1, <1>2, <3>1
    <2>3. QED
        BY <2>1, <2>2
<1>4. QED
    BY <1>1, <1>3 DEF EventsRight

\* More audio, and the cap, which only the path of the rows has.
LEMMA CapProper ==
    ASSUME NEW d, NEW a, NEW inc \in BOOLEAN, NEW how, how = (IF inc THEN "rows" ELSE "batch"),
           NEW upto \in Int, Follows(a, d, how, upto), NEW rec, NEW j \in Nat,
           Proper(d, how, rec, j)
    PROVE  Proper(EnforceBufferCap([d EXCEPT !.hi = upto], inc), how, rec, j)
PROOF
<1> DEFINE e == [d EXCEPT !.hi = upto]
           x == [e EXCEPT !.lo = e.hi - DecodeCap, !.trimmed = TRUE]
<1>0. EnforceBufferCap(e, inc) = e \/ (inc /\ EnforceBufferCap(e, inc) = x)
    BY DEF EnforceBufferCap
<1>1. /\ IsRecord(e, DecoderFields) /\ e.hi = upto /\ e.state = d.state /\ e.lo = d.lo /\ e.header = d.header
      /\ e.lines = d.lines /\ e.events = d.events
    BY DEF Follows, Hears, IsRecord, DecoderFields
<1> HIDE DEF e
<1>2. /\ x.hi = upto /\ x.state = d.state /\ x.header = d.header
      /\ x.lines = d.lines /\ x.events = d.events
    BY <1>1 DEF IsRecord, DecoderFields
<1> HIDE DEF x
<1>3. d.state = "decoding" /\ how = "rows" => d.lines.searched <= upto
    <2>1. d.hi \in Int /\ d.hi <= upto
        BY DEF Follows, Hears
    <2> SUFFICES ASSUME d.state = "decoding", how = "rows" PROVE d.lines.searched <= upto
        OBVIOUS
    <2>2. d.lines.searched \in Int /\ d.lines.searched <= d.hi
        BY DEF Proper, ImageRight, LinesRight
    <2>3. QED
        BY <2>1, <2>2
<1>4. Proper(e, how, rec, j)
    BY <1>1, <1>3 DEF Proper, ImageRight
<1>5. inc => Proper(x, how, rec, j)
    BY <1>2, <1>3 DEF Proper, ImageRight
<1>6. QED
    BY <1>0, <1>4, <1>5 DEF e

\* The first header of the buffer is one of the recording.
LEMMA FirstIs ==
    ASSUME NEW rec, \A h \in rec.headers : h.at \in Nat, NEW lo, NEW hi
    PROVE  LET h == FirstHeader(rec, lo, hi)
           IN  h # Nothing => h \in rec.headers /\ lo <= h.at /\ h.at + VisLength <= hi
PROOF
<1> DEFINE h == FirstHeader(rec, lo, hi)
           found == HeadersIn(rec, lo, hi)
<1>1. h = Nothing \/ h \in found
    <2>1. CASE found = {}
        BY <2>1 DEF FirstHeader
    <2>2. CASE found # {}
        <3>1. found \subseteq rec.headers
            BY DEF HeadersIn
        <3> DEFINE N == {x.at : x \in found}
        <3>2. N \subseteq Nat /\ N # {}
            BY <2>2, <3>1
        <3>3. PICK n \in N : \A m \in N : n <= m
            BY <3>2, LeastOf
        <3>4. \E x \in found : \A y \in found : x.at <= y.at
            BY <3>3
        <3> HIDE DEF found
        <3>5. (CHOOSE x \in found : \A y \in found : x.at <= y.at) \in found
            BY <3>4
        <3>6. QED
            BY <2>2, <3>5 DEF FirstHeader, found
    <2>3. QED
        BY <2>1, <2>2
<1> HIDE DEF h
<1>2. QED
    BY <1>1 DEF HeadersIn, h

\* A header locks a decoder that is in order; any other leaves it without an image.
LEMMA HeaderProper ==
    ASSUME NEW d, NEW a, NEW how, NEW upto \in Int, Follows(a, d, how, upto), d.state = "idle",
           NEW rec, NEW j \in Nat, AllReadable(rec, j), Proper(d, how, rec, j)
    PROVE  Proper(FeedHeader(d, FirstHeader(rec, d.lo, d.hi), rec), how, rec, j)
PROOF
<1> DEFINE h == FirstHeader(rec, d.lo, d.hi)
<1>0. \A x \in rec.headers : x.at \in Nat
    BY DEF AllReadable
<1>1. h # Nothing => h \in rec.headers /\ d.lo <= h.at /\ h.at + VisLength <= d.hi
    BY <1>0, FirstIs
<1> HIDE DEF h
<1>2. ASSUME NEW lo PROVE Proper([d EXCEPT !.lo = lo], how, rec, j)
    <2> DEFINE e == [d EXCEPT !.lo = lo]
    <2>1. e.state = d.state /\ e.events = d.events
        BY DEF Follows, Hears, IsRecord, DecoderFields
    <2> HIDE DEF e
    <2>2. Proper(e, how, rec, j)
        BY <2>1 DEF Proper, ImageRight
    <2>3. QED
        BY <2>2 DEF e
<1>3. CASE h = Nothing
    BY <1>2, <1>3 DEF FeedHeader, h
<1>4. CASE h # Nothing /\ h.family = "none"
    BY <1>2, <1>4 DEF FeedHeader, DropUnknown, h
<1>5. CASE h # Nothing /\ h.family # "none"
    <2> DEFINE visEnd == h.at + VisLength
               new == NewLines(h.family, visEnd, d.lo)
               lines0 == FeedLines(new, rec, visEnd)
               started == [kind |-> "started", header |-> h, count |-> 0, rows |-> <<>>]
               e == [d EXCEPT !.state = "decoding", !.header = h, !.visEnd = visEnd, !.lines = lines0]
               x == [e EXCEPT !.events = @ \o <<started>>]
    <2>1. /\ h \in rec.headers /\ h.at \in Nat /\ d.lo <= h.at /\ h.at + VisLength <= d.hi
          /\ Readable(rec, h, j)
        BY <1>1, <1>5 DEF AllReadable
    <2>2. d.lo \in Int /\ d.hi \in Int
        BY DEF Follows, Hears
    <2>3. PICK v \in Int : v = visEnd /\ d.lo <= v /\ v <= d.hi
        BY <2>1, <2>2, DecoderSizes
    <2>4. LinesRight(new, rec, h, j) /\ new.searched = d.lo
        BY <2>1, <2>2, NewLinesRight
    <2> HIDE DEF new, visEnd
    <2>5. LinesRight(lines0, rec, h, j) /\ lines0.searched = v
        <3>1. new.searched <= v
            BY <2>3, <2>4
        <3>2. LinesRight(FeedLines(new, rec, v), rec, h, j) /\ FeedLines(new, rec, v).searched = v
            BY <2>1, <2>4, <3>1, FeedLinesRight
        <3>3. QED
            BY <2>3, <3>2
    <2>6. started.header = h /\ started.rows = <<>>
        OBVIOUS
    <2> HIDE DEF lines0, started
    <2>7. /\ IsRecord(e, DecoderFields) /\ e.hi = d.hi /\ e.state = "decoding" /\ e.lo = d.lo /\ e.header = h
          /\ e.lines = lines0 /\ e.events = d.events
        BY DEF Follows, Hears, IsRecord, DecoderFields
    <2> HIDE DEF e
    <2>8. /\ x.hi = d.hi /\ x.state = "decoding" /\ x.lo = d.lo /\ x.header = h
          /\ x.lines = lines0 /\ x.events = d.events \o <<started>>
        BY <2>7 DEF IsRecord, DecoderFields
    <2> HIDE DEF x
    <2>9. EventsRight(x.events, rec, j)
        <3>1. IsSequence(d.events) /\ EventsRight(d.events, rec, j) /\ EventRight(started, rec, j)
            BY <1>5, <2>1, <2>6, NoRowsAre DEF Follows, Hears, Proper, EventRight
        <3>2. QED
            BY <2>8, <3>1, OneEventMore
    <2>10. ImageRight(x, how, rec, j)
        BY <1>5, <2>1, <2>3, <2>5, <2>8 DEF ImageRight
    <2>11. FeedHeader(d, h, rec) = x
        BY <1>5 DEF FeedHeader, Lock, Emit, x, e, lines0, started, visEnd, new
    <2>12. QED
        BY <2>9, <2>10, <2>11 DEF Proper, h
<1>6. QED
    BY <1>3, <1>4, <1>5

\* Another event of the image, at the same place.
LEMMA TellProper ==
    ASSUME NEW a, NEW d, NEW how, NEW upto \in Int, Follows(a, d, how, upto), NEW rec, NEW j,
           Proper(d, how, rec, j), NEW event, EventRight(event, rec, j), NEW shown
    PROVE  LET e == [Emit(d, <<event>>) EXCEPT !.shown = shown]
           IN  /\ Proper(e, how, rec, j) /\ e.header = d.header /\ e.lines = d.lines
PROOF
<1> DEFINE x == [d EXCEPT !.events = @ \o <<event>>]
           e == [x EXCEPT !.shown = shown]
<1>1. /\ IsRecord(x, DecoderFields) /\ x.hi = d.hi /\ x.state = d.state /\ x.lo = d.lo /\ x.header = d.header
      /\ x.lines = d.lines /\ x.events = d.events \o <<event>>
    BY DEF Follows, Hears, IsRecord, DecoderFields
<1> HIDE DEF x
<1>2. /\ e.hi = d.hi /\ e.state = d.state /\ e.lo = d.lo /\ e.header = d.header
      /\ e.lines = d.lines /\ e.events = d.events \o <<event>>
    BY <1>1 DEF IsRecord, DecoderFields
<1> HIDE DEF e
<1>3. EventsRight(e.events, rec, j)
    BY <1>2, OneEventMore DEF Follows, Hears, Proper
<1>4. ImageRight(e, how, rec, j)
    BY <1>2 DEF Proper, ImageRight
<1>5. [Emit(d, <<event>>) EXCEPT !.shown = shown] = e
    BY DEF Emit, e, x
<1>6. QED
    BY <1>2, <1>3, <1>4, <1>5 DEF Proper

\* The end of an image leaves the decoder without one; the rows told of are its lines'.
LEMMA CompleteProper ==
    ASSUME NEW a, NEW d, NEW how, NEW upto \in Int, Follows(a, d, how, upto), NEW rec, NEW j,
           EventsRight(d.events, rec, j), RowsAre(rec, d.header, d.lines.rows, j), NEW to
    PROVE  Proper(CompleteImage(d), to, rec, j)
PROOF
<1> DEFINE snap == IF d.trimmed THEN [lo |-> 0, hi |-> 0] ELSE [lo |-> d.lo, hi |-> d.hi]
           event == Event("complete", d, Lines)
           x == [d EXCEPT !.snapshot = snap]
           y == [x EXCEPT !.events = @ \o <<event>>]
           tail == TailStart(d)
           n == NewDecoder(y.hi)
           r == [n EXCEPT !.snapshot = y.snapshot, !.events = y.events]
           e == IF tail = -1 THEN r ELSE [r EXCEPT !.lo = tail, !.hi = tail]
<1>1. event.header = d.header /\ event.rows = d.lines.rows
    BY DEF Event
<1> HIDE DEF snap, event
<1>2. IsRecord(x, DecoderFields) /\ x.events = d.events
    BY DEF Follows, Hears, IsRecord, DecoderFields
<1> HIDE DEF x
<1>3. IsRecord(y, DecoderFields) /\ y.events = d.events \o <<event>>
    BY <1>2 DEF IsRecord, DecoderFields
<1> HIDE DEF y
<1>4. IsRecord(n, DecoderFields) /\ n.state = "idle"
    BY <1>3 DEF NewDecoder, IsRecord, DecoderFields
<1> HIDE DEF n
<1>5. IsRecord(r, DecoderFields) /\ r.state = "idle" /\ r.events = y.events
    BY <1>4 DEF IsRecord, DecoderFields
<1> HIDE DEF r, tail
<1>6. e.state = "idle" /\ e.events = d.events \o <<event>>
    BY <1>3, <1>5 DEF IsRecord, DecoderFields
<1> HIDE DEF e
<1>7. EventsRight(e.events, rec, j)
    <2>1. EventRight(event, rec, j)
        BY <1>1 DEF EventRight
    <2>2. QED
        BY <1>6, <2>1, OneEventMore DEF Follows, Hears
<1>8. CompleteImage(d) = e
    BY DEF CompleteImage, Restart, ResetDecoder, Emit, e, r, n, y, x, snap, event, tail
<1>9. QED
    BY <1>6, <1>7, <1>8 DEF Proper, ImageRight

\* The rows shown one after the other.
LEMMA ShownProper ==
    ASSUME NEW a, NEW d, NEW how, NEW upto \in Int, Follows(a, d, how, upto), d.state = "decoding",
           NEW rec, NEW j \in Nat, Proper(d, how, rec, j), RowsAre(rec, d.header, d.lines.rows, j),
           NEW from \in Int
    PROVE  LET x == Progress(d, from)
           IN  Proper(x, how, rec, j) /\ x.header = d.header /\ x.lines = d.lines
PROOF
<1> DEFINE given == AllGiven(d.header.family, <<>>, [n \in 1 .. Len(d.lines.rows) - from |-> from + n])
           shown == AllShown(d, given)
           Good(x) == /\ Follows(a, x, how, upto) /\ x.state = "decoding" /\ Proper(x, how, rec, j)
                      /\ x.header = d.header /\ x.lines = d.lines
<1>1. Progress(d, from) = shown
    BY DEF Progress, AllGiven, GivenRow, AllShown, ShowRow, FoldLeft, MapThenFoldSet
<1>2. Len(d.lines.rows) - from \in Int
    BY OneAppended DEF RowsAre
<1>3. given \in Seq(Int)
    BY <1>2, GivenIs
<1> HIDE DEF given
<1> DEFINE k == Len(given)
<1>4. k \in Nat
    BY <1>3
<1>a. Spans(given, k)
    BY <1>3 DEF Spans
<1> HIDE DEF k
<1>5. PICK v : v[0] = d /\ v[k] = shown /\ \A n \in 1 .. k : v[n] = ShowRow(v[n - 1], given[n])
    BY <1>a, ShowUnrolls
<1> HIDE DEF shown
<1>6. ASSUME NEW x, Good(x), NEW row PROVE Good(ShowRow(x, row))
    <2> DEFINE e == Event("progress", x, row)
    <2>1. e.kind = "progress" /\ e.header = x.header /\ e.rows = x.lines.rows
        BY DEF Event
    <2> HIDE DEF e
    <2>2. EventRight(e, rec, j)
        BY <1>6, <2>1 DEF EventRight
    <2> DEFINE y == [Emit(x, <<e>>) EXCEPT !.shown = row]
    <2>3. Follows(a, y, how, upto) /\ y.state = "decoding"
        BY <1>6, <2>1, ProgressFollows
    <2>4. Proper(y, how, rec, j) /\ y.header = x.header /\ y.lines = x.lines
        BY <1>6, <2>2, TellProper
    <2> HIDE DEF y
    <2>5. Good(y)
        BY <1>6, <2>3, <2>4
    <2>6. ShowRow(x, row) = x \/ ShowRow(x, row) = y
        BY DEF ShowRow, y, e
    <2>7. QED
        BY <1>6, <2>5, <2>6
<1> DEFINE S == {n \in Nat : n <= k => Good(v[n])}
<1>7. 0 \in S
    BY <1>5
<1> HIDE DEF Good
<1>8. ASSUME NEW n \in Nat, n \in S PROVE n + 1 \in S
    <2> SUFFICES ASSUME n + 1 <= k PROVE Good(v[n + 1])
        OBVIOUS
    <2>1. n + 1 \in 1 .. k /\ (n + 1) - 1 = n /\ Good(v[n])
        BY <1>4, <1>8
    <2>2. v[n + 1] = ShowRow(v[n], given[n + 1])
        BY <1>5, <2>1
    <2>3. QED
        BY <1>6, <2>1, <2>2
<1> HIDE DEF S
<1>9. k \in S
    BY <1>4, <1>7, <1>8, Inductive
<1>10. QED
    BY <1>1, <1>4, <1>5, <1>9 DEF S, Good

\* New lines that are in order.
LEMMA RelinedProper ==
    ASSUME NEW a, NEW d, NEW how, NEW upto, Follows(a, d, how, upto), d.state = "decoding",
           NEW rec, NEW j \in Nat, Proper(d, how, rec, j), NEW l,
           how = "rows" => LinesRight(l, rec, d.header, j) /\ l.searched <= d.hi
    PROVE  Proper(Relined(d, l), how, rec, j) /\ Relined(d, l).header = d.header /\ Relined(d, l).lines = l
           /\ Relined(d, l).events = d.events
PROOF
<1> DEFINE e == Relined(d, l)
<1>1. /\ e.hi = d.hi /\ e.state = d.state /\ e.lo = d.lo /\ e.header = d.header
      /\ e.lines = l /\ e.events = d.events
    BY DEF Follows, Hears, IsRecord, DecoderFields, Relined
<1> HIDE DEF e
<1>2. Proper(e, how, rec, j)
    BY <1>1 DEF Proper, ImageRight
<1>3. QED
    BY <1>1, <1>2 DEF e

\* The path of the rows.
LEMMA IncrementalProper ==
    ASSUME NEW a, NEW d, NEW upto \in Int, Follows(a, d, "rows", upto), d.state = "decoding",
           NEW rec, NEW j \in Nat, AllReadable(rec, j), Proper(d, "rows", rec, j), NEW off
    PROVE  Proper(FeedIncremental(d, rec, off), "rows", rec, j)
PROOF
<1> DEFINE l == FeedLines(d.lines, rec, d.hi)
           e == Relined(d, l)
           from == Len(d.lines.rows)
           p == Progress(e, from)
<1>1. /\ LinesRight(d.lines, rec, d.header, j) /\ d.lines.searched <= d.hi /\ d.hi \in Int
      /\ Readable(rec, d.header, j) /\ LinesOk(d.lines)
    BY DEF Proper, ImageRight, Follows, Hears, AllReadable
<1>2. LinesRight(l, rec, d.header, j) /\ l.searched = d.hi
    BY <1>1, FeedLinesRight
<1> HIDE DEF l
<1>3. LinesOk(l) /\ l.searched <= d.hi /\ RowsAre(rec, d.header, l.rows, j)
    BY <1>1, <1>2 DEF LinesRight
<1>4. Follows(a, e, "rows", upto) /\ e.state = "decoding"
    BY <1>3, LinesFollow
<1>5. Proper(e, "rows", rec, j) /\ e.header = d.header /\ e.lines = l
    BY <1>2, <1>3, RelinedProper
<1>6. from \in Int
    BY <1>1, OneAppended DEF LinesOk
<1> HIDE DEF e, from
<1>7. RowsAre(rec, e.header, e.lines.rows, j) /\ IsSequence(e.lines.rows)
    BY <1>3, <1>5 DEF RowsAre
<1>8. Follows(a, p, "rows", upto) /\ p.state = "decoding"
    BY <1>4, <1>6, <1>7, RowsFollow
<1>9. Proper(p, "rows", rec, j) /\ p.header = e.header /\ p.lines = e.lines
    BY <1>4, <1>5, <1>6, <1>7, ShownProper
<1> HIDE DEF p
<1>10. Proper(CompleteImage(p), "rows", rec, j)
    <2>1. EventsRight(p.events, rec, j) /\ RowsAre(rec, p.header, p.lines.rows, j)
        BY <1>7, <1>9 DEF Proper
    <2>2. QED
        BY <1>8, <2>1, CompleteProper
<1>11. Proper(IfComplete(p), "rows", rec, j)
    BY <1>9, <1>10 DEF IfComplete
<1>12. QED
    BY <1>11 DEF FeedIncremental, Painted, Relined, p, e, from, l

\* The batch path, which decodes its whole buffer each time.
LEMMA BatchProper ==
    ASSUME NEW a, NEW d, NEW upto \in Int, Follows(a, d, "batch", upto), d.state = "decoding",
           NEW rec, NEW j \in Nat, AllReadable(rec, j), Proper(d, "batch", rec, j), NEW off
    PROVE  Proper(FeedBatch(d, rec, off), "batch", rec, j)
PROOF
<1> DEFINE l == BatchLines(d, rec)
<1>1. /\ Readable(rec, d.header, j) /\ d.visEnd = d.header.at + VisLength /\ d.lo \in Int /\ d.hi \in Int
      /\ d.lo <= d.header.at
    BY DEF Proper, ImageRight, Follows, Hears, AllReadable
<1>2. RowsAre(rec, d.header, l.rows, j)
    BY <1>1, BatchRight
<1>3. FeedBatch(d, rec, off) = d \/ FeedBatch(d, rec, off) = BatchPainted(d, l)
    BY DEF FeedBatch
<1> HIDE DEF l
<1> DEFINE e == Relined(d, l)
           event == [Event("progress", d, Len(l.rows)) EXCEPT !.rows = l.rows]
           x == [Emit(e, <<event>>) EXCEPT !.shown = Len(l.rows)]
           y == Emit([d EXCEPT !.lines = l, !.shown = Len(l.rows)], <<event>>)
<1>4. Follows(a, e, "batch", upto) /\ e.state = "decoding"
    BY LinesFollow
<1>5. Proper(e, "batch", rec, j) /\ e.header = d.header /\ e.lines = l /\ e.events = d.events
    <2>1. PICK how : how = "batch"
        OBVIOUS
    <2>2. how = "rows" => LinesRight(l, rec, d.header, j) /\ l.searched <= d.hi
        BY <2>1
    <2>3. QED
        BY <2>1, <2>2, RelinedProper
<1>6. Proper(CompleteImage(e), "batch", rec, j)
    <2> HIDE DEF e
    <2>1. EventsRight(e.events, rec, j) /\ RowsAre(rec, e.header, e.lines.rows, j)
        BY <1>2, <1>5 DEF Proper
    <2>2. QED
        BY <1>4, <2>1, CompleteProper
<1>7. event.header = d.header /\ event.rows = l.rows
    BY DEF Event
<1> HIDE DEF event
<1>8. EventRight(event, rec, j)
    BY <1>2, <1>7 DEF EventRight
<1>9. Proper(x, "batch", rec, j)
    <2> HIDE DEF e
    <2>1. QED
        BY <1>4, <1>5, <1>8, TellProper
<1>10. x = y
    BY DEF Emit, Follows, Hears, IsRecord, DecoderFields, Relined
<1> HIDE DEF x, y
<1>11. BatchPainted(d, l) \in {d, CompleteImage(e), y}
    BY DEF BatchPainted, Relined, e, y, event
<1>12. QED
    BY <1>3, <1>6, <1>9, <1>10, <1>11

\* One round of a feed.
LEMMA FeedOnceProper ==
    ASSUME NEW a, NEW d, NEW inc \in BOOLEAN, NEW how, how = (IF inc THEN "rows" ELSE "batch"),
           NEW upto \in Int, Follows(a, d, how, upto), NEW off,
           NEW rec, NEW j \in Nat, AllReadable(rec, j), Proper(d, how, rec, j)
    PROVE  Proper(FeedOnce(d, rec, upto, inc, off), how, rec, j)
PROOF
<1> DEFINE c == EnforceBufferCap([d EXCEPT !.hi = upto], inc)
           e == IF c.state = "idle" THEN FeedHeader(c, FirstHeader(rec, c.lo, c.hi), rec) ELSE c
<1>0. \A h \in rec.headers : h.at \in Nat
    BY DEF AllReadable
<1>1. Follows(a, c, how, upto) /\ Proper(c, how, rec, j)
    BY CapFollows, CapProper
<1> HIDE DEF c
<1>2. Follows(a, e, how, upto)
    BY <1>0, <1>1, HeaderFollows
<1>3. Proper(e, how, rec, j)
    BY <1>1, HeaderProper
<1> HIDE DEF e
<1>4. Proper(FeedFound(e, rec, inc, off), how, rec, j)
    <2>1. e.state \in {"idle", "decoding"}
        BY <1>2 DEF Follows, Hears
    <2>2. CASE e.state = "idle"
        BY <1>3, <2>2 DEF FeedFound
    <2>3. CASE e.state = "decoding" /\ inc
        BY <1>2, <1>3, <2>3, IncrementalProper DEF FeedFound
    <2>4. CASE e.state = "decoding" /\ ~inc
        BY <1>2, <1>3, <2>4, BatchProper DEF FeedFound
    <2>5. QED
        BY <2>1, <2>2, <2>3, <2>4
<1>5. QED
    BY <1>4 DEF FeedOnce, FeedJoined, c, e

\* A feed, however many images end in it.
LEMMA FeedProper ==
    ASSUME NEW a, NEW d, NEW inc \in BOOLEAN, NEW how, how = (IF inc THEN "rows" ELSE "batch"),
           NEW upto \in Int, Follows(a, d, how, upto), NEW off,
           NEW rec, NEW j \in Nat, AllReadable(rec, j), IsFiniteSet(rec.headers), Proper(d, how, rec, j)
    PROVE  Proper(Feed(d, rec, upto, inc, off), how, rec, j)
PROOF
<1> DEFINE k == Cardinality(rec.headers) + 1
           seq == [n \in 1 .. k |-> n]
           call == [rec |-> rec, upto |-> upto, inc |-> inc, off |-> off]
           fed == AllFed(call, d, seq)
           Good(x) == Follows(a, x, how, upto) /\ Proper(x, how, rec, j)
<1>0. \A h \in rec.headers : h.at \in Nat
    BY DEF AllReadable
<1>1. k \in Nat
    BY FS_CardinalityType
<1>2. Feed(d, rec, upto, inc, off) = fed
    BY DEF Feed, AllFed, FeedRound, FoldLeft, MapThenFoldSet
<1>a. call.rec = rec /\ call.upto = upto /\ call.inc = inc /\ call.off = off
    OBVIOUS
<1> HIDE DEF k, call
<1>3. Spans(seq, k)
    BY <1>1 DEF Spans
<1> HIDE DEF seq
<1>4. PICK v : /\ v[0] = d /\ v[k] = fed
               /\ \A n \in 1 .. k : v[n] = FeedRound(v[n - 1], call)
    BY <1>3, AgainUnrolls
<1> HIDE DEF fed
<1>5. ASSUME NEW x, Good(x) PROVE Good(FeedRound(x, call))
    <2> DEFINE y == FeedOnce(x, rec, upto, inc, off)
    <2>1. Follows(a, y, how, upto)
        BY <1>0, <1>5, FeedOnceFollows
    <2>2. Proper(y, how, rec, j)
        BY <1>5, FeedOnceProper
    <2>3. FeedRound(x, call) = x \/ FeedRound(x, call) = y
        BY <1>a DEF FeedRound
    <2> HIDE DEF y
    <2>4. QED
        BY <1>5, <2>1, <2>2, <2>3
<1> HIDE DEF Good
<1> DEFINE S == {n \in Nat : n <= k => Good(v[n])}
<1>6. 0 \in S
    BY <1>4 DEF Good
<1>7. ASSUME NEW n \in Nat, n \in S PROVE n + 1 \in S
    <2> SUFFICES ASSUME n + 1 <= k PROVE Good(v[n + 1])
        OBVIOUS
    <2>1. n + 1 \in 1 .. k /\ (n + 1) - 1 = n /\ Good(v[n])
        BY <1>1, <1>7
    <2>2. v[n + 1] = FeedRound(v[n], call)
        BY <1>4, <2>1
    <2>3. QED
        BY <1>5, <2>1, <2>2
<1> HIDE DEF S
<1>8. k \in S
    BY <1>1, <1>6, <1>7, Inductive
<1>9. QED
    BY <1>1, <1>2, <1>4, <1>8 DEF S, Good

-----------------------------------------------------------------------------
(* The worker: the rows it was told of, and those of its gallery.          *)

\* The images of s have their rows in place.
SavedRight(s, rec, j) == \A k \in 1 .. Len(s) : RowsAre(rec, s[k].header, s[k].rows, j)

\* And so has the image under way.
Placed(w, rec, j) ==
    SavedRight(w.saved, rec, j) /\ (w.decoding = TRUE => RowsAre(rec, w.mode, w.partial, j))

\* One image more.
LEMMA OneSavedMore ==
    ASSUME NEW rec, NEW j, NEW s, NEW image, IsSequence(s), SavedRight(s, rec, j),
           RowsAre(rec, image.header, image.rows, j)
    PROVE  SavedRight(Append(s, image), rec, j)
PROOF
<1> DEFINE t == Append(s, image)
           k == Len(s)
<1>1. /\ k \in Nat /\ Len(t) = k + 1 /\ t[k + 1] = image
      /\ \A n \in 1 .. k : t[n] = s[n]
    BY OneAppended
<1>2. \A n \in 1 .. k : RowsAre(rec, s[n].header, s[n].rows, j)
    BY DEF SavedRight
<1> HIDE DEF t, k
<1>3. ASSUME NEW n \in 1 .. k + 1 PROVE RowsAre(rec, t[n].header, t[n].rows, j)
    <2>1. CASE n = k + 1
        BY <1>1, <2>1
    <2>2. CASE n # k + 1
        <3>1. n \in 1 .. k
            BY <1>1, <2>2
        <3>2. QED
            BY <1>1, <1>2, <3>1
    <2>3. QED
        BY <2>1, <2>2
<1>4. QED
    BY <1>1, <1>3 DEF SavedRight, t

\* Resetting the watchdog of a worker that is in no image.
LEMMA ResetPlaced ==
    ASSUME NEW w, IsRecord(w, WorkerFields), w.decoding = FALSE, NEW rec, NEW j, SavedRight(w.saved, rec, j)
    PROVE  Placed(ResetWatchdog(w), rec, j)
PROOF
    BY WatchdogReset DEF Placed

\* An event leaves the rows the worker has in place.
LEMMA EventPlaced ==
    ASSUME NEW w, NEW a, NEW e, NEW b, NEW d, Hearing(w, a, d), Comes(a, e, b),
           NEW rec, NEW j, Placed(w, rec, j), EventRight(e, rec, j)
    PROVE  Placed(Dispatch(w, e), rec, j)
PROOF
<1>1. IsRecord(w, WorkerFields) /\ IsSequence(w.saved) /\ SavedRight(w.saved, rec, j)
    BY DEF Hearing, ImagesOnce, Placed
<1>2. CASE e.kind = "started"
    <2> DEFINE x == [w EXCEPT !.decoding = TRUE, !.mode = e.header, !.age = 0, !.quiet = 0,
                              !.lines = 0, !.partial = <<>>]
    <2>1. x.mode = e.header /\ x.saved = w.saved /\ x.partial = <<>>
        BY <1>1 DEF IsRecord, WorkerFields
    <2>2. Dispatch(w, e) = x
        BY <1>2 DEF Dispatch
    <2> HIDE DEF x
    <2>3. RowsAre(rec, e.header, <<>>, j)
        BY NoRowsAre DEF EventRight, RowsAre
    <2>4. QED
        BY <1>1, <2>1, <2>2, <2>3 DEF Placed
<1>3. CASE e.kind = "progress"
    <2> DEFINE x == [w EXCEPT !.quiet = 0, !.lines = e.count, !.partial = e.rows]
    <2>1. x.mode = w.mode /\ x.saved = w.saved /\ x.partial = e.rows
        BY <1>1 DEF IsRecord, WorkerFields
    <2>2. Dispatch(w, e) = x
        BY <1>3 DEF Dispatch
    <2> HIDE DEF x
    <2>3. w.mode = e.header
        BY <1>3 DEF Hearing, Takes, Comes
    <2>4. QED
        BY <1>1, <2>1, <2>2, <2>3 DEF Placed, EventRight
<1>4. CASE e.kind = "complete"
    <2> DEFINE raw == w.decoder.snapshot
               image == [header |-> e.header, rows |-> e.rows, whole |-> TRUE, final |-> Final(e, raw)]
               kept == [w EXCEPT !.decoding = FALSE, !.decoder.snapshot = [lo |-> 0, hi |-> 0],
                                 !.saved = Append(@, image),
                                 !.recordings = IF raw.hi = raw.lo THEN @
                                                ELSE Append(@, [header |-> e.header, lo |-> raw.lo,
                                                                hi |-> raw.hi])]
               x == ResetWatchdog(kept)
    <2>1. Dispatch(w, e) = x
        BY <1>4 DEF Dispatch
    <2>2. image.header = e.header /\ image.rows = e.rows
        OBVIOUS
    <2> HIDE DEF image
    <2>3. IsRecord(kept, WorkerFields) /\ kept.decoding = FALSE /\ kept.saved = Append(w.saved, image)
        BY <1>1 DEF IsRecord, WorkerFields
    <2> HIDE DEF kept
    <2>4. SavedRight(kept.saved, rec, j)
        BY <1>1, <2>2, <2>3, OneSavedMore DEF EventRight
    <2>5. QED
        BY <2>1, <2>3, <2>4, ResetPlaced
<1>5. e.kind \in {"started", "progress", "complete"}
    BY DEF Comes
<1>6. QED
    BY <1>2, <1>3, <1>4, <1>5

\* And so do all events of a flush.
LEMMA EventsPlaced ==
    ASSUME NEW a, NEW d, NEW w, NEW how, NEW upto, Follows(a, d, how, upto), Hearing(w, a, d),
           NEW rec, NEW j, Placed(w, rec, j), EventsRight(d.events, rec, j)
    PROVE  Placed(AllDispatched(w, d.events), rec, j)
PROOF
<1> DEFINE ev == d.events
           k == Len(ev)
           all == AllDispatched(w, ev)
<1>1. k \in Nat /\ DOMAIN ev = 1 .. k
    BY OneAppended DEF Follows, Hears
<1>2. Spans(ev, k)
    BY <1>1 DEF Spans
<1>3. PICK tr : /\ tr[0] = a
                /\ \A n \in 1 .. k : Comes(tr[n - 1], ev[n], tr[n])
    BY DEF Follows, Told
<1>3a. \A n \in 1 .. k : EventRight(ev[n], rec, j)
    BY DEF EventsRight
<1> HIDE DEF k, ev
<1>4. PICK v : v[0] = w /\ v[k] = all /\ \A n \in 1 .. k : v[n] = Dispatch(v[n - 1], ev[n])
    BY <1>2, DispatchUnrolls
<1> HIDE DEF all
<1> DEFINE S == {n \in Nat : n <= k => Hearing(v[n], tr[n], d) /\ Placed(v[n], rec, j)}
<1>5. 0 \in S
    BY <1>3, <1>4
<1>6. ASSUME NEW n \in Nat, n \in S PROVE n + 1 \in S
    <2> SUFFICES ASSUME n + 1 <= k PROVE Hearing(v[n + 1], tr[n + 1], d) /\ Placed(v[n + 1], rec, j)
        OBVIOUS
    <2>1. n + 1 \in 1 .. k /\ (n + 1) - 1 = n /\ Hearing(v[n], tr[n], d) /\ Placed(v[n], rec, j)
        BY <1>1, <1>6
    <2>2. /\ v[n + 1] = Dispatch(v[n], ev[n + 1]) /\ Comes(tr[n], ev[n + 1], tr[n + 1])
          /\ EventRight(ev[n + 1], rec, j)
        BY <1>3, <1>3a, <1>4, <2>1
    <2>3. Hearing(v[n + 1], tr[n + 1], d)
        BY <2>1, <2>2, EventHeard
    <2>4. Placed(v[n + 1], rec, j)
        BY <2>1, <2>2, EventPlaced
    <2>5. QED
        BY <2>3, <2>4
<1> HIDE DEF S
<1>7. k \in S
    BY <1>1, <1>5, <1>6, Inductive
<1>8. QED
    BY <1>1, <1>4, <1>7 DEF S, all, ev

\* Time passes.
LEMMA OlderPlaced ==
    ASSUME NEW w, NEW how, NEW upto, WorkerOk(w, how, upto), NEW n, NEW rec, NEW j, Placed(w, rec, j)
    PROVE  Placed(Older(w, n), rec, j) /\ Older(w, n).decoder = w.decoder
PROOF
<1>1. ASSUME NEW t, NEW q
      PROVE  LET x == [w EXCEPT !.age = t, !.quiet = q]
             IN  /\ x.decoding = w.decoding /\ x.mode = w.mode /\ x.saved = w.saved
                 /\ x.partial = w.partial /\ x.decoder = w.decoder
    BY DEF WorkerOk, IsRecord, WorkerFields
<1>2. ASSUME NEW t, NEW q
      PROVE  Placed([w EXCEPT !.age = t, !.quiet = q], rec, j) /\ [w EXCEPT !.age = t, !.quiet = q].decoder = w.decoder
    <2> DEFINE x == [w EXCEPT !.age = t, !.quiet = q]
    <2>1. /\ x.decoding = w.decoding /\ x.mode = w.mode /\ x.saved = w.saved
          /\ x.partial = w.partial /\ x.decoder = w.decoder
        BY <1>1
    <2> HIDE DEF x
    <2>2. Placed(x, rec, j) /\ x.decoder = w.decoder
        BY <2>1 DEF Placed
    <2>3. QED
        BY <2>2 DEF x
<1>3. QED
    BY <1>2, Zenon DEF Older

\* A decoder that starts over has no image.
LEMMA FreshProper ==
    ASSUME NEW x, NEW p, Fresh(x, p), NEW how, NEW rec, NEW j
    PROVE  Proper(x, how, rec, j)
PROOF
    BY EmptySequence DEF Fresh, Proper, ImageRight, EventsRight

\* The watchdog saves the rows there are.
LEMMA WatchdogPlaced ==
    ASSUME NEW w, NEW how, NEW upto, WorkerOk(w, how, upto), NEW rec, NEW j,
           Placed(w, rec, j), Proper(w.decoder, how, rec, j)
    PROVE  Placed(CheckWatchdog(w), rec, j) /\ Proper(CheckWatchdog(w).decoder, how, rec, j)
PROOF
<1> DEFINE image == [header |-> w.mode, rows |-> w.partial, whole |-> FALSE, final |-> w.mode]
           kept == IF w.lines = 0 THEN w ELSE [w EXCEPT !.saved = Append(@, image)]
           x == [kept EXCEPT !.decoder = ResetDecoder(@), !.decoding = FALSE]
<1>1. CheckWatchdog(w) = w \/ (w.decoding /\ CheckWatchdog(w) = ResetWatchdog(x))
    BY DEF CheckWatchdog
<1>2. CASE w.decoding = TRUE
    <2>1. image.header = w.mode /\ image.rows = w.partial
        OBVIOUS
    <2> HIDE DEF image
    <2>2. /\ IsRecord(kept, WorkerFields) /\ kept.decoder = w.decoder
          /\ kept.saved = w.saved \/ kept.saved = Append(w.saved, image)
        BY DEF WorkerOk, IsRecord, WorkerFields
    <2> HIDE DEF kept
    <2>3. /\ IsRecord(x, WorkerFields) /\ x.decoder = ResetDecoder(w.decoder) /\ x.decoding = FALSE
          /\ x.saved = kept.saved
        BY <2>2 DEF IsRecord, WorkerFields
    <2> HIDE DEF x
    <2>4. SavedRight(x.saved, rec, j)
        <3>1. IsSequence(w.saved) /\ SavedRight(w.saved, rec, j) /\ RowsAre(rec, w.mode, w.partial, j)
            BY <1>2 DEF WorkerOk, ImagesOnce, Placed
        <3>2. SavedRight(Append(w.saved, image), rec, j)
            BY <2>1, <3>1, OneSavedMore
        <3>3. QED
            BY <2>2, <2>3, <3>1, <3>2
    <2>5. Placed(ResetWatchdog(x), rec, j)
        BY <2>3, <2>4, ResetPlaced
    <2>6. Proper(ResetWatchdog(x).decoder, how, rec, j)
        <3>1. ResetWatchdog(x).decoder = ResetDecoder(w.decoder)
            BY <2>3, WatchdogReset
        <3>2. Fresh(ResetDecoder(w.decoder), w.decoder.hi)
            BY FreshDecoder, Zenon DEF WorkerOk
        <3>3. QED
            BY <3>1, <3>2, FreshProper
    <2>7. QED
        BY <1>1, <2>5, <2>6 DEF x, kept, image
<1>3. CASE w.decoding = FALSE
    <2> HIDE DEF x
    <2>1. QED
        BY <1>1, <1>3
<1>4. QED
    BY <1>2, <1>3 DEF WorkerOk, Takes

\* A flush.
LEMMA FlushPlaced ==
    ASSUME IsFiniteSet(audio.headers), incremental \in BOOLEAN, NEW j \in Nat, AllReadable(audio, j),
           NEW w, NEW from \in Int, NEW upto \in Int, from <= upto, WorkerOk(w, How(incremental), from),
           Placed(w, audio, j), Proper(w.decoder, How(incremental), audio, j)
    PROVE  Placed(Flush(w, upto), audio, j) /\ Proper(Flush(w, upto).decoder, How(incremental), audio, j)
PROOF
<1> DEFINE d == w.decoder
           how == How(incremental)
           fed == Feed(d, audio, upto, incremental, cancel)
           calm == [fed EXCEPT !.events = <<>>]
           first == [w EXCEPT !.decoder = calm, !.scratch = upto]
           next == AllDispatched(first, fed.events)
<1>0. \A h \in audio.headers : h.at \in Nat
    BY DEF AllReadable
<1>1. Hears(d, how, from) /\ d.events = <<>> /\ ImagesOnce(w.saved, Floor(d)) /\ Takes(w, d)
    BY DEF WorkerOk
<1>2. how = (IF incremental THEN "rows" ELSE "batch")
    BY DEF How
<1>3. Flush(w, upto) = IF w.scratch = upto THEN w ELSE CheckWatchdog(next)
    BY DEF Flush, AllDispatched
<1>3a. Proper(d, how, audio, j)
    OBVIOUS
<1> HIDE DEF d, how
<1>4. PICK a : /\ Agrees(a, d) /\ Follows(a, d, how, upto)
               /\ a.floor = Floor(d) /\ a.state = d.state /\ a.header = d.header
    BY <1>1, BeginsToFollow
<1>5. Follows(a, fed, how, upto)
    BY <1>0, <1>2, <1>4, FeedFollows
<1>5a. Proper(fed, how, audio, j)
    BY <1>2, <1>3a, <1>4, FeedProper
<1> HIDE DEF fed
<1>6. SameDecoder(calm, fed)
    BY <1>5 DEF Follows, Hears, SameDecoder, IsRecord, DecoderFields
<1> HIDE DEF calm
<1>7. /\ IsRecord(first, WorkerFields) /\ first.decoder = calm /\ first.decoding = w.decoding
      /\ first.mode = w.mode /\ first.saved = w.saved /\ first.partial = w.partial
    BY DEF WorkerOk, IsRecord, WorkerFields
<1> HIDE DEF first
<1>8. Hearing(first, a, fed)
    <2>1. Takes(first, a)
        BY <1>1, <1>4, <1>7 DEF Takes
    <2>2. QED
        BY <1>1, <1>4, <1>6, <1>7, <2>1 DEF Hearing
<1>8a. Placed(first, audio, j)
    BY <1>7 DEF Placed
<1>9. PICK b : Agrees(b, fed) /\ Hearing(next, b, fed)
    BY <1>5, <1>8, AllHeard
<1>9a. Placed(next, audio, j)
    BY <1>5, <1>5a, <1>8, <1>8a, EventsPlaced DEF Proper
<1> HIDE DEF next
<1>10. Proper(next.decoder, how, audio, j)
    <2>1. SameDecoder(next.decoder, fed)
        BY <1>9 DEF Hearing
    <2>2. QED
        BY <1>5a, <2>1, EmptySequence DEF SameDecoder, Proper, ImageRight, EventsRight
<1>11. WorkerOk(next, how, upto)
    <2>1. Hears(fed, how, upto)
        BY <1>5 DEF Follows
    <2>2. SameDecoder(next.decoder, fed)
        BY <1>9 DEF Hearing
    <2>3. Hears(next.decoder, how, upto)
        BY <2>1, <2>2, EmptySequence DEF SameDecoder, Hears
    <2>4. ImagesOnce(next.saved, Floor(fed))
        BY <1>9, <2>1, AgreedFloor DEF Hearing
    <2>5. Floor(next.decoder) = Floor(fed)
        BY <2>2 DEF SameDecoder, Floor
    <2>6. Takes(next, next.decoder)
        BY <1>9, <2>2 DEF Hearing, Takes, Agrees, SameDecoder
    <2>7. QED
        BY <1>9, <2>2, <2>3, <2>4, <2>5, <2>6 DEF WorkerOk, Hearing, SameDecoder
<1>12. Placed(CheckWatchdog(next), audio, j) /\ Proper(CheckWatchdog(next).decoder, how, audio, j)
    BY <1>9a, <1>10, <1>11, WatchdogPlaced
<1>13. QED
    BY <1>3, <1>3a, <1>12 DEF how, d

\* The images another caller keeps.
LEMMA KeptPlaced ==
    ASSUME NEW s, IsSequence(s), NEW events, IsSequence(events), NEW rec, NEW j,
           SavedRight(s, rec, j), EventsRight(events, rec, j)
    PROVE  SavedRight(KeptOf(s, events), rec, j)
PROOF
<1> DEFINE k == Len(events)
           all == KeptOf(s, events)
<1>1. k \in Nat /\ DOMAIN events = 1 .. k
    BY OneAppended
<1>2. Spans(events, k)
    BY <1>1 DEF Spans
<1>3. \A n \in 1 .. k : EventRight(events[n], rec, j)
    BY DEF EventsRight
<1> HIDE DEF k
<1>4. PICK v : v[0] = s /\ v[k] = all /\ \A n \in 1 .. k : v[n] = Keep(v[n - 1], events[n])
    BY <1>2, KeepUnrolls
<1> HIDE DEF all
<1>5. ASSUME NEW x, NEW e, IsSequence(x), SavedRight(x, rec, j), EventRight(e, rec, j)
      PROVE  IsSequence(Keep(x, e)) /\ SavedRight(Keep(x, e), rec, j)
    <2> DEFINE image == [header |-> e.header, rows |-> e.rows, whole |-> TRUE, final |-> e.header]
    <2>1. image.header = e.header /\ image.rows = e.rows
        OBVIOUS
    <2>2. Keep(x, e) = x \/ Keep(x, e) = Append(x, image)
        BY DEF Keep
    <2> HIDE DEF image
    <2>3. SavedRight(Append(x, image), rec, j) /\ IsSequence(Append(x, image))
        BY <1>5, <2>1, OneSavedMore, OneAppended DEF EventRight
    <2>4. QED
        BY <1>5, <2>2, <2>3
<1> DEFINE S == {n \in Nat : n <= k => IsSequence(v[n]) /\ SavedRight(v[n], rec, j)}
<1>6. 0 \in S
    BY <1>4
<1>7. ASSUME NEW n \in Nat, n \in S PROVE n + 1 \in S
    <2> SUFFICES ASSUME n + 1 <= k PROVE IsSequence(v[n + 1]) /\ SavedRight(v[n + 1], rec, j)
        OBVIOUS
    <2>1. n + 1 \in 1 .. k /\ (n + 1) - 1 = n /\ IsSequence(v[n]) /\ SavedRight(v[n], rec, j)
        BY <1>1, <1>7
    <2>2. v[n + 1] = Keep(v[n], events[n + 1]) /\ EventRight(events[n + 1], rec, j)
        BY <1>3, <1>4, <2>1
    <2>3. QED
        BY <1>5, <2>1, <2>2
<1> HIDE DEF S
<1>8. k \in S
    BY <1>1, <1>6, <1>7, Inductive
<1>9. QED
    BY <1>1, <1>4, <1>8 DEF S, all

-----------------------------------------------------------------------------
(* The rows of the specification.                                          *)

\* A recording whose syncs are steady.  Every candidate behind a header is on
\* a line of its image, give or take j, or lies behind the image; then the
\* image's last line and two lines near each other were heard.  A line's audio
\* ends within the period, and a header belongs to the image that begins there.
Steady(rec, j) ==
    /\ 2 * j <= Tolerance /\ 2 * j <= Margin /\ j <= VisLength
    /\ \A h \in rec.headers : h.family # "none" =>
          Ready(h.family) <= Period /\ OfImage(h, Syncs(rec, h), j)
    /\ \A i \in rec.images, h \in rec.headers : i.at = h.at => i.family = h.family

\* Every row that was painted, kept or told of is in its place.
InPlace(j) == Proper(decoder, How(incremental), audio, j)
Gallery(j) == SavedRight(saved, audio, j) /\ (live => Placed(Worker, audio, j))
RowsInPlace(j) == Following /\ (Steady(audio, j) => InPlace(j) /\ Gallery(j))

\* Such a recording can be read.
LEMMA SteadyReadable ==
    ASSUME NEW rec \in Recordings, NEW j \in Nat, Steady(rec, j)
    PROVE  AllReadable(rec, j)
PROOF
<1>1. IsFiniteSet(rec.pulses) /\ rec.pulses \subseteq Int /\ \A h \in rec.headers : h.at \in Nat
    BY RecordingsAssumption
<1>2. ASSUME NEW h \in rec.headers, h.family # "none" PROVE Readable(rec, h, j)
    BY <1>1, <1>2 DEF Readable, Steady
<1>3. QED
    BY <1>1, <1>2 DEF AllReadable

\* A worker whose rows are in place, in the next state.
LEMMA BecomesPlaced ==
    ASSUME NEW w, NEW how, NEW j, Become(w), how = How(incremental'), audio' = audio,
           Placed(w, audio, j), Proper(w.decoder, how, audio, j)
    PROVE  InPlace(j)' /\ Gallery(j)'
PROOF
<1>1. /\ decoder' = w.decoder /\ decoding' = w.decoding /\ mode' = w.mode /\ saved' = w.saved
      /\ partial' = w.partial
    BY DEF Become
<1>2. /\ Worker'.decoding = decoding' /\ Worker'.mode = mode' /\ Worker'.saved = saved'
      /\ Worker'.partial = partial'
    BY DEF Worker
<1>3. Placed(Worker', audio', j)
    BY <1>1, <1>2 DEF Placed
<1>4. SavedRight(saved', audio', j)
    BY <1>1 DEF Placed
<1>5. QED
    BY <1>1, <1>3, <1>4 DEF InPlace, Gallery

\* What holds of the worker as a record.
LEMMA WorkerPlaced ==
    ASSUME Following, live, NEW j, Gallery(j), InPlace(j)
    PROVE  /\ WorkerOk(Worker, How(incremental), pos) /\ Placed(Worker, audio, j)
           /\ Proper(Worker.decoder, How(incremental), audio, j)
PROOF
<1>1. Worker.decoder = decoder
    BY DEF Worker
<1>2. QED
    BY <1>1, WorkerIs DEF Gallery, InPlace

\* feed_chunk.
LEMMA ChunkPlaces ==
    ASSUME Following, Chunk, NEW j \in Nat, AllReadable(audio, j), Gallery(j), InPlace(j)
    PROVE  InPlace(j)' /\ Gallery(j)'
PROOF
<1>1. /\ live /\ pos < audio.end /\ pos' = Min({pos + grain, audio.end})
      /\ audio' = audio /\ incremental' = incremental
    BY DEF Chunk
<1>2. audio \in Recordings /\ incremental \in BOOLEAN /\ grain \in Nat /\ pos \in Nat
    BY DEF Following
<1>3. IsFiniteSet(audio.headers) /\ audio.end \in Nat
    BY <1>2, RecordingIs
<1>4. PICK n \in Nat : n = pos' /\ pos <= n
    <2>1. pos + grain \in Nat /\ pos <= pos + grain
        BY <1>2
    <2>2. Min({pos + grain, audio.end}) \in {pos + grain, audio.end}
        BY <1>3, <2>1, SmallerOf
    <2>3. pos' \in Nat /\ pos <= pos'
        BY <1>1, <1>2, <1>3, <2>1, <2>2
    <2>4. QED
        BY <2>3
<1>5. /\ WorkerOk(Worker, How(incremental), pos) /\ Placed(Worker, audio, j)
      /\ Proper(Worker.decoder, How(incremental), audio, j)
    BY <1>1, WorkerPlaced
<1>6. PICK w : w = Older(Worker, n - pos)
    OBVIOUS
<1>7. /\ WorkerOk(w, How(incremental), pos) /\ Placed(w, audio, j)
      /\ Proper(w.decoder, How(incremental), audio, j)
    BY <1>5, <1>6, OlderKeeps, OlderPlaced
<1>8. PICK x : x = (IF n - w.scratch >= FlushSamples(w) THEN Flush(w, n) ELSE w)
    OBVIOUS
<1>9. Become(x)
    BY <1>4, <1>6, <1>8 DEF Chunk
<1>10. Placed(x, audio, j) /\ Proper(x.decoder, How(incremental), audio, j)
    <2>1. Placed(Flush(w, n), audio, j) /\ Proper(Flush(w, n).decoder, How(incremental), audio, j)
        BY <1>2, <1>3, <1>4, <1>7, FlushPlaced
    <2>2. QED
        BY <1>7, <1>8, <2>1
<1>11. QED
    BY <1>1, <1>9, <1>10, BecomesPlaced

\* The tick of the watchdog.
LEMMA TickPlaces ==
    ASSUME Following, Tick, NEW j \in Nat, Gallery(j), InPlace(j)
    PROVE  InPlace(j)' /\ Gallery(j)'
PROOF
<1>1. live /\ audio' = audio /\ incremental' = incremental
    BY DEF Tick
<1>2. PICK w : w = Older(Worker, LineBudget + 1)
    OBVIOUS
<1>3. PICK x : x = CheckWatchdog(w)
    OBVIOUS
<1>4. /\ WorkerOk(Worker, How(incremental), pos) /\ Placed(Worker, audio, j)
      /\ Proper(Worker.decoder, How(incremental), audio, j)
    BY <1>1, WorkerPlaced
<1>5. /\ WorkerOk(w, How(incremental), pos) /\ Placed(w, audio, j)
      /\ Proper(w.decoder, How(incremental), audio, j)
    BY <1>2, <1>4, OlderKeeps, OlderPlaced
<1>6. Placed(x, audio, j) /\ Proper(x.decoder, How(incremental), audio, j)
    BY <1>3, <1>5, WatchdogPlaced
<1>7. Become(x)
    BY <1>2, <1>3 DEF Tick
<1>8. QED
    BY <1>1, <1>6, <1>7, BecomesPlaced

\* The flush at the end of a capture.
LEMMA StoppedPlaces ==
    ASSUME Following, Stopped, NEW j \in Nat, AllReadable(audio, j), Gallery(j), InPlace(j)
    PROVE  InPlace(j)' /\ Gallery(j)'
PROOF
<1>1. audio' = audio /\ incremental' = incremental /\ asked = 1
    BY DEF Stopped
<1>2. audio \in Recordings /\ incremental \in BOOLEAN /\ pos \in Nat /\ live
    BY <1>1 DEF Following
<1>3. IsFiniteSet(audio.headers)
    BY <1>2, RecordingIs
<1>4. PICK x : x = Flush(Worker, pos)
    OBVIOUS
<1>5. /\ WorkerOk(Worker, How(incremental), pos) /\ Placed(Worker, audio, j)
      /\ Proper(Worker.decoder, How(incremental), audio, j)
    BY <1>2, WorkerPlaced
<1>6. Placed(x, audio, j) /\ Proper(x.decoder, How(incremental), audio, j)
    BY <1>2, <1>3, <1>4, <1>5, FlushPlaced
<1>7. Become(x)
    BY <1>4 DEF Stopped
<1>8. QED
    BY <1>1, <1>6, <1>7, BecomesPlaced

\* A worker that starts over.
LEMMA OverPlaces ==
    ASSUME NEW d, NEW p, Fresh(d, p), NEW j, SavedRight(saved, audio, j), audio' = audio,
           Become(ResetWatchdog([Worker EXCEPT !.scratch = p, !.decoding = FALSE, !.decoder = d]))
    PROVE  InPlace(j)' /\ Gallery(j)'
PROOF
<1> DEFINE w == [Worker EXCEPT !.scratch = p, !.decoding = FALSE, !.decoder = d]
<1>1. IsRecord(w, WorkerFields) /\ w.decoding = FALSE /\ w.saved = saved /\ w.decoder = d
    BY DEF Worker, IsRecord, WorkerFields
<1>2. PICK x : x = ResetWatchdog(w)
    OBVIOUS
<1>3. Become(x)
    BY <1>2
<1> HIDE DEF w
<1>4. Placed(x, audio, j)
    BY <1>1, <1>2, ResetPlaced
<1>5. x.decoder = d
    BY <1>1, <1>2, WatchdogReset
<1>6. PICK how : how = How(incremental')
    OBVIOUS
<1>7. Proper(x.decoder, how, audio, j)
    BY <1>5, FreshProper
<1>8. QED
    BY <1>3, <1>4, <1>6, <1>7, BecomesPlaced

\* Clear, Start, and a setting that replaces the decoder.
LEMMA ResetPlaces ==
    ASSUME Following, Reset \/ Rebuild, NEW j \in Nat, Gallery(j)
    PROVE  InPlace(j)' /\ Gallery(j)'
PROOF
<1>1. SavedRight(saved, audio, j) /\ decoder.events = <<>>
    BY DEF Gallery, Following
<1>2. CASE Reset
    <2> DEFINE d == [ResetDecoder(decoder) EXCEPT !.lo = pos, !.hi = pos]
    <2>1. Become(ResetWatchdog([Worker EXCEPT !.scratch = pos, !.decoding = FALSE, !.decoder = d]))
        BY <1>2 DEF Reset
    <2>2. Fresh(d, pos) /\ audio' = audio
        BY <1>1, <1>2, FreshDecoder, Zenon DEF Reset
    <2> HIDE DEF d
    <2>3. QED
        BY <1>1, <2>1, <2>2, OverPlaces, Zenon
<1>3. CASE Rebuild
    <2> DEFINE d == NewDecoder(pos)
    <2>1. Become(ResetWatchdog([Worker EXCEPT !.scratch = pos, !.decoding = FALSE, !.decoder = d]))
        BY <1>3 DEF Rebuild
    <2>2. Fresh(d, pos) /\ audio' = audio
        BY <1>1, <1>3, FreshDecoder, Zenon DEF Rebuild
    <2> HIDE DEF d
    <2>3. QED
        BY <1>1, <2>1, <2>2, OverPlaces, Zenon
<1>4. QED
    BY <1>2, <1>3

\* Another caller of the decoder.
LEMMA PiecePlaces ==
    ASSUME Following, Piece, NEW j \in Nat, AllReadable(audio, j), Gallery(j), InPlace(j)
    PROVE  InPlace(j)' /\ Gallery(j)'
PROOF
<1>1. /\ ~live /\ pos < audio.end /\ pos' = Min({pos + grain, audio.end})
      /\ audio' = audio /\ live' = live /\ incremental' = incremental
    BY DEF Piece
<1>2. /\ audio \in Recordings /\ live \in BOOLEAN /\ incremental \in BOOLEAN /\ grain \in Nat /\ pos \in Nat
      /\ Hears(decoder, How(incremental), pos) /\ decoder.events = <<>> /\ IsSequence(saved)
    BY DEF Following, ImagesOnce
<1>3. IsFiniteSet(audio.headers) /\ audio.end \in Nat /\ \A h \in audio.headers : h.at \in Nat
    BY <1>2, RecordingIs
<1>4. PICK n \in Nat : n = pos' /\ pos <= n
    <2>1. pos + grain \in Nat /\ pos <= pos + grain
        BY <1>2
    <2>2. Min({pos + grain, audio.end}) \in {pos + grain, audio.end}
        BY <1>3, <2>1, SmallerOf
    <2>3. pos' \in Nat /\ pos <= pos'
        BY <1>1, <1>2, <1>3, <2>1, <2>2
    <2>4. QED
        BY <2>3
<1>5. PICK how : how = How(incremental)
    OBVIOUS
<1>6. how = (IF incremental THEN "rows" ELSE "batch")
    BY <1>5 DEF How
<1>c. PICK off : off = FALSE
    OBVIOUS
<1>7. PICK fed : fed = Feed(decoder, audio, n, incremental, off)
    OBVIOUS
<1>8. PICK a : Follows(a, decoder, how, n)
    BY <1>2, <1>4, <1>5, BeginsToFollow
<1>9. Follows(a, fed, how, n) /\ Proper(fed, how, audio, j)
    <2>1. incremental \in BOOLEAN /\ Follows(a, decoder, how, n) /\ n \in Int
        BY <1>2, <1>4, <1>8
    <2>2. IsFiniteSet(audio.headers) /\ \A h \in audio.headers : h.at \in Nat
        BY <1>3
    <2>3. Follows(a, Feed(decoder, audio, n, incremental, off), how, n)
        BY <1>6, <2>1, <2>2, FeedFollows
    <2>4. Proper(decoder, how, audio, j)
        BY <1>5 DEF InPlace
    <2>5. Proper(Feed(decoder, audio, n, incremental, off), how, audio, j)
        BY <1>6, <2>1, <2>2, <2>4, FeedProper
    <2>6. QED
        BY <1>7, <2>3, <2>5
<1> DEFINE calm == [fed EXCEPT !.events = <<>>]
<1>10. decoder' = calm /\ saved' = KeptOf(saved, fed.events)
    BY <1>4, <1>7, <1>c DEF Piece, KeptOf
<1>11. SameDecoder(calm, fed)
    BY <1>9 DEF Follows, Hears, SameDecoder, IsRecord, DecoderFields
<1> HIDE DEF calm
<1>12. Proper(calm, how, audio, j)
    BY <1>9, <1>11, EmptySequence DEF SameDecoder, Proper, ImageRight, EventsRight
<1>13. SavedRight(KeptOf(saved, fed.events), audio, j)
    <2>1. IsSequence(fed.events) /\ EventsRight(fed.events, audio, j)
        BY <1>9 DEF Follows, Hears, Proper
    <2>2. QED
        BY <1>2, <2>1, KeptPlaced DEF Gallery
<1>14. InPlace(j)'
    BY <1>1, <1>5, <1>10, <1>12 DEF InPlace
<1>15. Gallery(j)'
    BY <1>1, <1>10, <1>13 DEF Gallery
<1>16. QED
    BY <1>14, <1>15

\* At the start there are no rows.
LEMMA RowsInit == ASSUME NEW j \in Nat PROVE Init => RowsInPlace(j)
PROOF
<1> SUFFICES ASSUME Init PROVE RowsInPlace(j)
    OBVIOUS
<1>1. Following
    BY FollowingInit
<1>2. decoder = NewDecoder(0) /\ decoding = FALSE /\ saved = <<>>
    BY DEF Init
<1>3. InPlace(j)
    <2>1. Fresh(decoder, 0)
        <3>1. PICK d : d = [events |-> <<>>]
            OBVIOUS
        <3>2. d.events = <<>>
            BY <3>1
        <3>3. QED
            BY <1>2, <3>2, FreshDecoder, Zenon
    <2>2. QED
        BY <2>1, FreshProper DEF InPlace
<1>4. Gallery(j)
    <2>1. Worker.decoding = FALSE /\ Worker.saved = saved
        BY <1>2 DEF Worker
    <2>2. SavedRight(saved, audio, j)
        BY <1>2, EmptySequence DEF SavedRight
    <2>3. QED
        BY <2>1, <2>2 DEF Gallery, Placed
<1>5. QED
    BY <1>1, <1>3, <1>4 DEF RowsInPlace

\* Every step leaves the rows in their places.
LEMMA RowsNext == ASSUME NEW j \in Nat PROVE RowsInPlace(j) /\ [Next]_vars => RowsInPlace(j)'
PROOF
<1> SUFFICES ASSUME RowsInPlace(j), [Next]_vars PROVE RowsInPlace(j)'
    OBVIOUS
<1>1. Following /\ Following' /\ audio' = audio
    <2>1. Following
        BY DEF RowsInPlace
    <2>2. Following'
        BY <2>1, FollowingNext
    <2>3. audio' = audio
        BY DEF Next, Chunk, Tick, RequestCancel, Reset, Stopped, Rebuild, Piece, vars
    <2>4. QED
        BY <2>1, <2>2, <2>3
<1>2. ASSUME Steady(audio, j) PROVE InPlace(j)' /\ Gallery(j)'
    <2>1. InPlace(j) /\ Gallery(j) /\ AllReadable(audio, j)
        <3>1. audio \in Recordings
            BY <1>1 DEF Following
        <3>2. QED
            BY <1>2, <3>1, SteadyReadable DEF RowsInPlace
    <2>2. CASE Chunk
        BY <1>1, <2>1, <2>2, ChunkPlaces
    <2>3. CASE Tick
        BY <1>1, <2>1, <2>3, TickPlaces
    <2>4. CASE RequestCancel \/ UNCHANGED vars
        <3>1. /\ decoder' = decoder /\ incremental' = incremental /\ live' = live /\ saved' = saved
              /\ Worker' = Worker
            BY <2>4 DEF RequestCancel, vars, workerVars, Worker
        <3>2. QED
            BY <1>1, <2>1, <3>1 DEF InPlace, Gallery
    <2>5. CASE Reset \/ Rebuild
        BY <1>1, <2>1, <2>5, ResetPlaces
    <2>6. CASE Stopped
        BY <1>1, <2>1, <2>6, StoppedPlaces
    <2>7. CASE Piece
        BY <1>1, <2>1, <2>7, PiecePlaces
    <2>8. QED
        BY <2>2, <2>3, <2>4, <2>5, <2>6, <2>7 DEF Next
<1>3. QED
    BY <1>1, <1>2 DEF RowsInPlace

\* A row that is in its place is on its true line.
LEMMA RowsAreRight ==
    ASSUME NEW j \in Nat, NEW rec, Steady(rec, j), NEW h, h.at \in Int, NEW rows, RowsAre(rec, h, rows, j),
           NEW i \in rec.images, i.at = h.at, NEW n \in DOMAIN rows
    PROVE  Near(rows[n].at, TrueLine(i, n))
PROOF
<1>1. h \in rec.headers /\ DOMAIN rows = 1 .. Len(rows)
    BY OneAppended DEF RowsAre
<1>2. i.family = h.family
    BY <1>1 DEF Steady
<1>3. TrueLine(i, n) = LineAt(h, n)
    BY <1>2 DEF TrueLine, LineAt
<1>4. rows[n].at - LineAt(h, n) \in -j .. j
    BY <1>1 DEF RowsAre, IsLine
<1>5. PICK x : x = rows[n].at - LineAt(h, n)
    OBVIOUS
<1>6. Tolerance \in Nat /\ 2 * j <= Tolerance
    BY GridAssumption DEF Tolerance, Steady
<1>7. x \in -Tolerance .. Tolerance
    BY <1>4, <1>5, <1>6
<1>8. QED
    BY <1>3, <1>5, <1>7 DEF Near

\* In a steady recording every row is on its true line.
LEMMA RowsOnLines ==
    ASSUME NEW j \in Nat, RowsInPlace(j), Steady(audio, j)
    PROVE  RowsOnTheirLines
PROOF
<1>1. Following /\ InPlace(j) /\ Gallery(j)
    BY DEF RowsInPlace
<1>2. AllReadable(audio, j)
    BY <1>1, SteadyReadable DEF Following
<1>3. ASSUME NEW h, NEW rows, RowsAre(audio, h, rows, j) PROVE RowsRight(h, rows)
    <2>1. h.at \in Int
        BY <1>2, <1>3 DEF RowsAre, AllReadable
    <2>2. ASSUME NEW i \in audio.images, i.at = h.at, NEW n \in DOMAIN rows
          PROVE  Near(rows[n].at, TrueLine(i, n))
        BY <1>3, <2>1, <2>2, RowsAreRight
    <2>3. QED
        BY <2>2 DEF RowsRight
<1>4. ASSUME NEW k \in DOMAIN saved PROVE RowsRight(saved[k].header, saved[k].rows)
    <2>1. DOMAIN saved = 1 .. Len(saved)
        BY <1>1, OneAppended DEF Following, ImagesOnce
    <2>2. RowsAre(audio, saved[k].header, saved[k].rows, j)
        BY <1>1, <2>1 DEF Gallery, SavedRight
    <2>3. QED
        BY <1>3, <2>2
<1>5. ASSUME decoder.state = "decoding", incremental = TRUE PROVE RowsRight(decoder.header, decoder.lines.rows)
    <2>1. RowsAre(audio, decoder.header, decoder.lines.rows, j)
        BY <1>1, <1>5 DEF InPlace, Proper, ImageRight, How, LinesRight
    <2>2. QED
        BY <1>3, <2>1
<1>6. incremental \in BOOLEAN
    BY <1>1 DEF Following
<1>7. QED
    BY <1>4, <1>5, <1>6 DEF RowsOnTheirLines

\* Of a recording whose syncs are steady, every row that is saved or being
\* painted is cut within a quarter line of where its line really is: however
\* the audio was cut into chunks or pieces, whichever syncs of an image alone
\* were missed, on both paths, through trims, caps, completions, trips of the
\* watchdog, Clear and rebuilds (walk_sync_grid, select_anchor, feed and _prune
\* of IncrementalDecoder, Decoder.feed, RxWorker).
THEOREM RowsStayOnTheirLines ==
    ASSUME NEW j \in Nat
    PROVE  Spec => [](Steady(audio, j) => RowsOnTheirLines)
PROOF
<1>1. Init => RowsInPlace(j)
    BY RowsInit
<1>2. RowsInPlace(j) /\ [Next]_vars => RowsInPlace(j)'
    BY RowsNext
<1>3. RowsInPlace(j) => (Steady(audio, j) => RowsOnTheirLines)
    BY RowsOnLines
<1>4. QED
    BY <1>1, <1>2, <1>3, PTL DEF Spec

-----------------------------------------------------------------------------
(* Images end when their last line has come.                               *)

\* The rows of a line decoder are of audio that has come, and of an image of
\* which something was heard.
LinesCame(l, rec, h) ==
    /\ l.hi = l.searched
    /\ \A n \in 1 .. Len(l.rows) : l.rows[n].at \in Int /\ l.rows[n].at + Ready(h.family) <= l.hi
    /\ Len(l.rows) > 0 => Syncs(rec, h) # {}

\* An image that was heard well is painted when its last line has come.
LinesDone(l, rec, h, j) ==
    HeardWell(h, Syncs(rec, h), j) /\ AllCame(l, h, j) => ~(Len(l.rows) < Lines)

\* A row is painted when its audio has come.
LEMMA PaintCame ==
    ASSUME NEW rec, NEW h, NEW j \in Nat, NEW l, Readable(rec, h, j), LinesRight(l, rec, h, j),
           LinesCame(l, rec, h)
    PROVE  LinesCame(TryDecodeNext(l, Grid(l)), rec, h)
PROOF
<1> DEFINE g == Grid(l)
           k == Len(l.rows)
           at == g[k + 1]
           row == [at |-> at, whole |-> WholeLine(l.family, at, l.lo, l.hi)]
           x == TryDecodeNext(l, g)
           stays == at < l.lo \/ l.hi < at + Ready(l.family)
<1>1. l.hi = l.searched /\ l.family = h.family
    BY DEF LinesRight, LinesCame
<1>2. LinesRight(x, rec, h, j) /\ x.hi = l.hi /\ x.searched = l.searched
    BY <1>1, PaintRight
<1>3. x = IF Cardinality(l.syncs) < 2 \/ k >= Len(g) \/ stays THEN l ELSE WithRow(l, row)
    BY DEF TryDecodeNext, DecodeAt, WithRow
<1>4. row.at = at
    OBVIOUS
<1>5. /\ l.syncs \subseteq Int /\ IsFiniteSet(l.syncs) /\ g \in Seq(Int) /\ Len(g) \in Nat /\ Len(g) <= Lines
      /\ Lines \in Nat /\ k \in Nat /\ Ready(h.family) \in Nat /\ l.hi \in Int
    BY <1>1, GridOf, Sizes, OneAppended, ChannelsOf DEF LinesRight, LinesOk
<1> HIDE DEF g, k, at, row, x, stays
<1>6. ASSUME x = l PROVE LinesCame(x, rec, h)
    BY <1>6
<1>7. ASSUME ~(Cardinality(l.syncs) < 2), ~(k >= Len(g)), ~stays, x = WithRow(l, row)
      PROVE  LinesCame(x, rec, h)
    <2>1. k + 1 \in 1 .. Len(g)
        BY <1>5, <1>7
    <2>2. at \in Int
        BY <1>5, <2>1 DEF at
    <2>3. at + Ready(h.family) <= l.hi
        BY <1>1, <1>5, <1>7, <2>2 DEF stays
    <2>4. l.syncs # {} /\ l.syncs \subseteq Syncs(rec, h)
        <3>1. Cardinality({}) = 0
            BY FS_EmptySet
        <3>2. l.syncs # {}
            <4> SUFFICES ASSUME l.syncs = {} PROVE FALSE
                OBVIOUS
            <4>1. Cardinality(l.syncs) = 0
                BY <3>1
            <4>2. QED
                BY <1>7, <4>1
        <3>3. QED
            BY <3>2 DEF LinesRight
    <2>5. /\ x.rows = Append(l.rows, row) /\ Len(x.rows) = k + 1 /\ x.rows[k + 1] = row
          /\ \A n \in 1 .. k : x.rows[n] = l.rows[n]
        BY <1>7, OneAppended DEF LinesRight, LinesOk, IsRecord, LineFields, WithRow, k
    <2>6. ASSUME NEW n \in 1 .. k + 1
          PROVE  x.rows[n].at \in Int /\ x.rows[n].at + Ready(h.family) <= x.hi
        <3>1. CASE n = k + 1
            BY <1>2, <1>4, <2>2, <2>3, <2>5, <3>1
        <3>2. CASE n # k + 1
            <4>1. n \in 1 .. k
                BY <1>5, <3>2
            <4>2. x.rows[n] = l.rows[n]
                BY <2>5, <4>1
            <4>3. QED
                BY <1>2, <4>1, <4>2 DEF LinesCame, k
        <3>3. QED
            BY <3>1, <3>2
    <2>7. QED
        BY <1>1, <1>2, <2>4, <2>5, <2>6 DEF LinesCame
<1>8. QED
    BY <1>3, <1>6, <1>7 DEF x, g

\* The same of all rows painted in a feed.
LEMMA PaintedCame ==
    ASSUME NEW rec, NEW h, NEW j \in Nat, NEW l, Readable(rec, h, j), LinesRight(l, rec, h, j),
           LinesCame(l, rec, h)
    PROVE  LinesCame(AllPainted(l, [n \in 1 .. Lines |-> n]), rec, h)
PROOF
<1> DEFINE seq == [n \in 1 .. Lines |-> n]
           x == AllPainted(l, seq)
           Good(y) == LinesRight(y, rec, h, j) /\ LinesCame(y, rec, h)
<1>1. Lines \in Nat /\ Spans(seq, Lines)
    BY GridAssumption DEF Spans
<1> HIDE DEF seq
<1>2. PICK v : v[0] = l /\ v[Lines] = x
               /\ \A n \in 1 .. Lines : v[n] = TryDecodeNext(v[n - 1], Grid(v[n - 1]))
    BY <1>1, PaintUnrolls
<1> HIDE DEF x
<1>3. ASSUME NEW y, Good(y) PROVE Good(TryDecodeNext(y, Grid(y)))
    <2>1. y.hi = y.searched
        BY <1>3 DEF LinesCame
    <2>2. QED
        BY <1>3, <2>1, PaintRight, PaintCame
<1>4. Good(l)
    OBVIOUS
<1> HIDE DEF Good
<1> DEFINE S == {n \in Nat : n <= Lines => Good(v[n])}
<1>5. 0 \in S
    BY <1>2, <1>4
<1>6. ASSUME NEW n \in Nat, n \in S PROVE n + 1 \in S
    <2> SUFFICES ASSUME n + 1 <= Lines PROVE Good(v[n + 1])
        OBVIOUS
    <2>1. n + 1 \in 1 .. Lines /\ (n + 1) - 1 = n /\ Good(v[n])
        BY <1>1, <1>6
    <2>2. v[n + 1] = TryDecodeNext(v[n], Grid(v[n]))
        BY <1>2, <2>1
    <2>3. QED
        BY <1>3, <2>1, <2>2
<1> HIDE DEF S
<1>7. Lines \in S
    BY <1>1, <1>5, <1>6, Inductive
<1>8. QED
    BY <1>1, <1>2, <1>7 DEF S, Good, x, seq

\* And a feed paints all lines of an image that was heard well, once they have come.
LEMMA FeedLinesCome ==
    ASSUME NEW rec, NEW h, NEW j \in Nat, NEW l, NEW upto \in Int, Readable(rec, h, j),
           LinesRight(l, rec, h, j), LinesCame(l, rec, h), l.searched <= upto
    PROVE  LET x == FeedLines(l, rec, upto)
           IN  LinesRight(x, rec, h, j) /\ LinesCame(x, rec, h) /\ LinesDone(x, rec, h, j) /\ x.hi = upto
PROOF
<1> DEFINE y == [l EXCEPT !.hi = upto]
           heard == UpdateSyncs(y, rec)
           painted == AllPainted(heard, [n \in 1 .. Lines |-> n])
           pruned == Prune(painted, Grid(painted))
           x == EnforceStallCap(pruned)
<1>1. FeedLines(l, rec, upto) = x
    BY DEF FeedLines, AllPainted
<1>2. LinesRight(heard, rec, h, j) /\ heard.hi = upto /\ heard.searched = upto
    BY UpdateRight
<1>3. LinesCame(heard, rec, h)
    <2>1. heard.rows = l.rows
        BY DEF LinesRight, LinesOk, IsRecord, LineFields, UpdateSyncs
    <2> HIDE DEF heard
    <2>2. ASSUME NEW n \in 1 .. Len(l.rows)
          PROVE  l.rows[n].at \in Int /\ l.rows[n].at + Ready(h.family) <= upto
        <3>1. PICK at \in Int, r \in Nat : at = l.rows[n].at /\ r = Ready(h.family)
            BY ChannelsOf DEF LinesCame
        <3>2. at + r <= l.hi /\ l.hi \in Int /\ l.hi <= upto
            BY <3>1 DEF LinesCame, LinesRight
        <3>3. QED
            BY <3>1, <3>2
    <2>3. QED
        BY <1>2, <2>1, <2>2 DEF LinesCame
<1> HIDE DEF heard
<1>4. /\ LinesRight(painted, rec, h, j) /\ painted.hi = upto /\ painted.searched = upto
      /\ HeardWell(h, Syncs(rec, h), j) /\ AllCame(heard, h, j) => ~(Len(painted.rows) < Lines)
    BY <1>2, PaintedRight
<1>5. LinesCame(painted, rec, h)
    BY <1>2, <1>3, PaintedCame
<1> HIDE DEF painted
<1>6. /\ LinesRight(pruned, rec, h, j) /\ pruned.hi = upto /\ pruned.searched = upto
      /\ pruned.rows = painted.rows
    BY <1>4, PruneRight
<1> HIDE DEF pruned
<1>7. HeardWell(h, Syncs(rec, h), j) /\ AllCame(pruned, h, j) => ~(Len(pruned.rows) < Lines)
    BY <1>2, <1>4, <1>6 DEF AllCame
<1>8. LinesRight(x, rec, h, j) /\ x.searched = upto
    BY <1>6, <1>7, StallRight
<1>9. x.rows = pruned.rows /\ x.hi = pruned.hi
    <2>1. PICK lo : x = KeepFrom(pruned, lo)
        BY DEF EnforceStallCap
    <2>2. QED
        BY <1>6, <2>1 DEF KeepFrom, LinesRight, LinesOk, IsRecord, LineFields
<1> HIDE DEF x
<1>10. LinesCame(x, rec, h) /\ LinesDone(x, rec, h, j)
    BY <1>4, <1>5, <1>6, <1>7, <1>8, <1>9 DEF LinesCame, LinesDone, AllCame
<1>11. QED
    BY <1>1, <1>6, <1>8, <1>9, <1>10

-----------------------------------------------------------------------------
(* The end of an image, and the audio kept of it.                          *)

\* Every header of the recording is of a mode, its image is over before the
\* next one begins, and its lines are long compared with the jitter.
Separate(rec, j) ==
    /\ \A h \in rec.headers : /\ h.family # "none" /\ j < Ready(h.family)
                              /\ Before(h.family) + Ready(h.family) <= Period
    /\ \A g, h \in rec.headers : g # h /\ g.at <= h.at => g.at + VisLength + Lines * Period <= h.at

\* The first header of a stretch of audio.
IsFirst(rec, lo, hi, h) ==
    /\ h \in rec.headers /\ lo <= h.at /\ h.at + VisLength <= hi
    /\ \A g \in rec.headers : lo <= g.at /\ g.at + VisLength <= hi => h.at <= g.at

\* There is one header at a place.
LEMMA OneHeaderAt ==
    ASSUME NEW rec, NEW j, \A h \in rec.headers : h.at \in Nat, Separate(rec, j),
           NEW g \in rec.headers, NEW h \in rec.headers, g.at = h.at
    PROVE  g = h
PROOF
<1> SUFFICES ASSUME g # h PROVE FALSE
    OBVIOUS
<1>1. g.at \in Nat /\ g.at + VisLength + Lines * Period <= g.at
    BY DEF Separate
<1>2. PICK n \in Nat, v \in Nat, b \in Nat : n = g.at /\ v = VisLength /\ v # 0 /\ b = Lines * Period
    BY <1>1, DecoderSizes
<1>3. QED
    BY <1>1, <1>2

\* What detect_vis returns, and what it leaves.
LEMMA FirstHeaderIs ==
    ASSUME NEW rec, NEW j, \A h \in rec.headers : h.at \in Nat, Separate(rec, j), NEW lo, NEW hi
    PROVE  LET h == FirstHeader(rec, lo, hi)
           IN  /\ h # Nothing => IsFirst(rec, lo, hi, h)
               /\ h = Nothing => \A g \in rec.headers : ~(lo <= g.at /\ g.at + VisLength <= hi)
PROOF
<1> DEFINE h == FirstHeader(rec, lo, hi)
           found == HeadersIn(rec, lo, hi)
           Least(x) == x \in found /\ \A other \in found : x.at <= other.at
<1>1. CASE found = {}
    BY <1>1 DEF FirstHeader, HeadersIn
<1>2. CASE found # {}
    <2>1. found \subseteq rec.headers
        BY DEF HeadersIn
    <2> DEFINE N == {x.at : x \in found}
    <2>2. N \subseteq Nat /\ N # {}
        BY <1>2, <2>1
    <2>3. PICK n \in N : \A m \in N : n <= m
        BY <2>2, LeastOf
    <2>4. \E x : Least(x)
        BY <2>3
    <2>5. h = CHOOSE x \in found : \A other \in found : x.at <= other.at
        BY <1>2 DEF FirstHeader
    <2>6. Least(h)
        <3> HIDE DEF found
        <3>1. \E x \in found : \A other \in found : x.at <= other.at
            BY <2>4
        <3>2. /\ (CHOOSE x \in found : \A other \in found : x.at <= other.at) \in found
              /\ \A other \in found : (CHOOSE x \in found : \A o \in found : x.at <= o.at).at <= other.at
            BY <3>1
        <3>3. QED
            BY <2>5, <3>2
    <2> HIDE DEF h
    <2>7. h.at \in Nat /\ IsFirst(rec, lo, hi, h)
        BY <2>1, <2>6 DEF HeadersIn, IsFirst
    <2>8. h # Nothing
        <3>1. Nothing.at = -1
            BY DEF Nothing
        <3>2. QED
            BY <2>7, <3>1
    <2>9. QED
        BY <2>7, <2>8 DEF h
<1>3. QED
    BY <1>1, <1>2

\* There is no other.
LEMMA FirstHeaderOf ==
    ASSUME NEW rec, NEW j, \A h \in rec.headers : h.at \in Nat, Separate(rec, j), NEW lo, NEW hi,
           NEW h, IsFirst(rec, lo, hi, h)
    PROVE  FirstHeader(rec, lo, hi) = h
PROOF
<1> DEFINE g == FirstHeader(rec, lo, hi)
<1>1. /\ g # Nothing => IsFirst(rec, lo, hi, g)
      /\ g = Nothing => \A x \in rec.headers : ~(lo <= x.at /\ x.at + VisLength <= hi)
    BY FirstHeaderIs
<1> HIDE DEF g
<1>2. IsFirst(rec, lo, hi, g)
    BY <1>1 DEF IsFirst
<1>3. g \in rec.headers /\ h \in rec.headers /\ g.at <= h.at /\ h.at <= g.at
    BY <1>2 DEF IsFirst
<1>4. g.at = h.at
    BY <1>3
<1>5. QED
    BY <1>3, <1>4, OneHeaderAt DEF g

\* Audio that joins a stretch leaves its first header the first.
LEMMA FirstHeaderStays ==
    ASSUME NEW rec, NEW j, \A h \in rec.headers : h.at \in Nat, Separate(rec, j), NEW lo, NEW hi \in Int,
           NEW upto \in Int, hi <= upto, NEW h \in rec.headers, FirstHeader(rec, lo, hi) = h
    PROVE  FirstHeader(rec, lo, upto) = h
PROOF
<1>1. IsFirst(rec, lo, hi, h)
    <2>1. h # Nothing
        <3>1. Nothing.at = -1 /\ h.at \in Nat
            BY DEF Nothing
        <3>2. QED
            BY <3>1
    <2>2. QED
        BY <2>1, FirstHeaderIs
<1>2. h.at \in Nat /\ h.at + VisLength <= hi /\ VisLength \in Nat
    BY <1>1, DecoderSizes DEF IsFirst
<1>3. ASSUME NEW g \in rec.headers, lo <= g.at, ~(h.at <= g.at) PROVE g.at + VisLength <= hi
    BY <1>2, <1>3
<1>4. h.at + VisLength <= upto
    BY <1>2
<1>5. \A g \in rec.headers : lo <= g.at /\ g.at + VisLength <= upto => h.at <= g.at
    BY <1>1, <1>3 DEF IsFirst
<1>6. IsFirst(rec, lo, upto, h)
    BY <1>1, <1>4, <1>5 DEF IsFirst
<1>7. QED
    BY <1>6, FirstHeaderOf

-----------------------------------------------------------------------------
(* Events that end no image.                                               *)

\* t is s and then events none of which ends an image.
GoesOn(s, t) ==
    /\ IsSequence(s) /\ IsSequence(t) /\ Len(s) \in Nat /\ Len(t) \in Nat /\ Len(s) <= Len(t)
    /\ \A n \in 1 .. Len(s) : t[n] = s[n]
    /\ \A n \in 1 .. Len(t) : n > Len(s) => t[n].kind # "complete"

\* Events go on from themselves.
LEMMA GoesOnSame == ASSUME NEW s, IsSequence(s) PROVE GoesOn(s, s)
PROOF
<1>1. Len(s) \in Nat
    BY OneAppended
<1>2. \A n \in 1 .. Len(s) : ~(n > Len(s))
    BY <1>1
<1>3. QED
    BY <1>1, <1>2 DEF GoesOn

\* One more event, of a row or a header.
LEMMA GoesOnOne ==
    ASSUME NEW s, IsSequence(s), NEW e, e.kind # "complete"
    PROVE  GoesOn(s, s \o <<e>>)
PROOF
<1> DEFINE t == Append(s, e)
           k == Len(s)
<1>1. /\ k \in Nat /\ Len(t) = k + 1 /\ t[k + 1] = e /\ s \o <<e>> = t /\ IsSequence(t)
      /\ \A n \in 1 .. k : t[n] = s[n]
    BY OneAppended
<1> HIDE DEF t
<1>2. ASSUME NEW n \in 1 .. Len(t), n > k PROVE t[n].kind # "complete"
    <2>1. n = k + 1
        BY <1>1, <1>2
    <2>2. QED
        BY <1>1, <2>1
<1>3. k <= Len(t) /\ Len(t) \in Nat
    BY <1>1
<1>4. GoesOn(s, t)
    BY <1>1, <1>2, <1>3 DEF GoesOn
<1>5. QED
    BY <1>1, <1>4

\* Going on twice is going on.
LEMMA GoesOnBoth ==
    ASSUME NEW s, NEW t, NEW u, GoesOn(s, t), GoesOn(t, u)
    PROVE  GoesOn(s, u)
PROOF
<1> DEFINE k == Len(s)
           m == Len(t)
           p == Len(u)
<1>1. k \in Nat /\ m \in Nat /\ p \in Nat /\ k <= m /\ m <= p
    BY DEF GoesOn
<1>2. ASSUME NEW n \in 1 .. k PROVE u[n] = s[n]
    <2>1. n \in 1 .. m
        BY <1>1
    <2>2. QED
        BY <2>1 DEF GoesOn
<1>3. ASSUME NEW n \in 1 .. p, n > k PROVE u[n].kind # "complete"
    <2>1. CASE n > m
        BY <2>1 DEF GoesOn
    <2>2. CASE ~(n > m)
        <3>1. n \in 1 .. m
            BY <1>1, <2>2
        <3>2. u[n] = t[n] /\ t[n].kind # "complete"
            BY <1>3, <3>1 DEF GoesOn
        <3>3. QED
            BY <3>2
    <2>3. QED
        BY <2>1, <2>2
<1>4. k <= p
    BY <1>1
<1>5. QED
    BY <1>1, <1>2, <1>3, <1>4 DEF GoesOn

\* A decoder that told of such events only and is in the same image.
Continues(d, e) ==
    /\ IsRecord(e, DecoderFields) /\ GoesOn(d.events, e.events)
    /\ e.state = d.state /\ e.lo = d.lo /\ e.hi = d.hi /\ e.header = d.header /\ e.visEnd = d.visEnd
    /\ e.lines = d.lines /\ e.trimmed = d.trimmed /\ e.snapshot = d.snapshot

\* Progress does.
LEMMA ProgressContinues ==
    ASSUME NEW d, IsRecord(d, DecoderFields), IsSequence(d.events), IsSequence(d.lines.rows),
           NEW from \in Int
    PROVE  Continues(d, Progress(d, from))
PROOF
<1> DEFINE given == AllGiven(d.header.family, <<>>, [n \in 1 .. Len(d.lines.rows) - from |-> from + n])
           shown == AllShown(d, given)
           Good(x) == Continues(d, x)
<1>1. Progress(d, from) = shown
    BY DEF Progress, AllGiven, GivenRow, AllShown, ShowRow, FoldLeft, MapThenFoldSet
<1>2. Len(d.lines.rows) - from \in Int
    BY OneAppended
<1>3. given \in Seq(Int)
    BY <1>2, GivenIs
<1> HIDE DEF given
<1> DEFINE k == Len(given)
<1>4. k \in Nat
    BY <1>3
<1>a. Spans(given, k)
    BY <1>3 DEF Spans
<1> HIDE DEF k
<1>5. PICK v : v[0] = d /\ v[k] = shown /\ \A n \in 1 .. k : v[n] = ShowRow(v[n - 1], given[n])
    BY <1>a, ShowUnrolls
<1> HIDE DEF shown
<1>6. ASSUME NEW x, Good(x), NEW row PROVE Good(ShowRow(x, row))
    <2> DEFINE e == Event("progress", x, row)
               y == [x EXCEPT !.events = @ \o <<e>>]
               z == [y EXCEPT !.shown = row]
    <2>1. e.kind = "progress"
        BY DEF Event
    <2>2. ShowRow(x, row) = x \/ ShowRow(x, row) = z
        BY DEF ShowRow, Emit
    <2> HIDE DEF e
    <2>3. /\ IsRecord(y, DecoderFields) /\ y.events = x.events \o <<e>>
          /\ y.state = x.state /\ y.lo = x.lo /\ y.hi = x.hi /\ y.header = x.header /\ y.visEnd = x.visEnd
          /\ y.lines = x.lines /\ y.trimmed = x.trimmed /\ y.snapshot = x.snapshot
        BY <1>6 DEF Continues, IsRecord, DecoderFields
    <2> HIDE DEF y
    <2>4. /\ IsRecord(z, DecoderFields) /\ z.events = y.events
          /\ z.state = y.state /\ z.lo = y.lo /\ z.hi = y.hi /\ z.header = y.header /\ z.visEnd = y.visEnd
          /\ z.lines = y.lines /\ z.trimmed = y.trimmed /\ z.snapshot = y.snapshot
        BY <2>3 DEF IsRecord, DecoderFields
    <2> HIDE DEF z
    <2>5. GoesOn(d.events, z.events)
        <3>1. GoesOn(d.events, x.events) /\ IsSequence(x.events)
            BY <1>6 DEF Continues, GoesOn
        <3>2. GoesOn(x.events, x.events \o <<e>>)
            BY <2>1, <3>1, GoesOnOne
        <3>3. QED
            BY <2>3, <2>4, <3>1, <3>2, GoesOnBoth
    <2>6. Good(z)
        BY <1>6, <2>3, <2>4, <2>5 DEF Continues
    <2>7. QED
        BY <1>6, <2>2, <2>6
<1>7. Good(d)
    BY GoesOnSame DEF Continues
<1> HIDE DEF Good
<1> DEFINE S == {n \in Nat : n <= k => Good(v[n])}
<1>8. 0 \in S
    BY <1>5, <1>7
<1>9. ASSUME NEW n \in Nat, n \in S PROVE n + 1 \in S
    <2> SUFFICES ASSUME n + 1 <= k PROVE Good(v[n + 1])
        OBVIOUS
    <2>1. n + 1 \in 1 .. k /\ (n + 1) - 1 = n /\ Good(v[n])
        BY <1>4, <1>9
    <2>2. v[n + 1] = ShowRow(v[n], given[n + 1])
        BY <1>5, <2>1
    <2>3. QED
        BY <1>6, <2>1, <2>2
<1> HIDE DEF S
<1>10. k \in S
    BY <1>4, <1>8, <1>9, Inductive
<1>11. QED
    BY <1>1, <1>4, <1>5, <1>10 DEF S, Good

-----------------------------------------------------------------------------
(* A decoder inside an image has its audio from the header on, unless the  *)
(* beginning was given up, and has not painted all of its lines.           *)
Entire(d, how, rec, j) ==
    /\ d.state = "decoding" =>
          /\ d.trimmed \/ FirstHeader(rec, d.lo, d.hi) = d.header
          /\ how = "rows" => /\ LinesCame(d.lines, rec, d.header) /\ LinesDone(d.lines, rec, d.header, j)
                             /\ Len(d.lines.rows) < Lines
    /\ how = "batch" => d.shown \in Int /\ d.shown < Lines

\* The audio kept of the image behind h is empty, or begins with h and, on the
\* incremental path, holds its last line.
Shot(s, rec, h, how) ==
    \/ s.hi = s.lo
    \/ /\ FirstHeader(rec, s.lo, s.hi) = h
       /\ how = "rows" => h.at + VisLength + (Lines - 1) * Period <= s.hi

\* More audio.
LEMMA CapEntire ==
    ASSUME NEW a, NEW d, NEW inc \in BOOLEAN, NEW how, NEW upto \in Int, Follows(a, d, how, upto),
           NEW rec, NEW j \in Nat, AllReadable(rec, j), Separate(rec, j), Proper(d, how, rec, j),
           Entire(d, how, rec, j)
    PROVE  LET c == EnforceBufferCap([d EXCEPT !.hi = upto], inc)
           IN  /\ Entire(c, how, rec, j) /\ c.hi = upto /\ c.events = d.events /\ c.snapshot = d.snapshot
               /\ c.state = d.state /\ c.header = d.header /\ (c.state = "idle" => c.lo = d.lo)
PROOF
<1> DEFINE e == [d EXCEPT !.hi = upto]
           x == [e EXCEPT !.lo = e.hi - DecodeCap, !.trimmed = TRUE]
<1>0. EnforceBufferCap(e, inc) = e \/ (e.state = "decoding" /\ EnforceBufferCap(e, inc) = x)
    BY DEF EnforceBufferCap
<1>1. /\ IsRecord(e, DecoderFields) /\ e.hi = upto /\ e.state = d.state /\ e.lo = d.lo /\ e.header = d.header
      /\ e.lines = d.lines /\ e.events = d.events /\ e.snapshot = d.snapshot /\ e.trimmed = d.trimmed
      /\ e.shown = d.shown
    BY DEF Follows, Hears, IsRecord, DecoderFields
<1> HIDE DEF e
<1>2. /\ x.hi = upto /\ x.state = e.state /\ x.header = e.header /\ x.trimmed = TRUE
      /\ x.lines = e.lines /\ x.events = e.events /\ x.snapshot = e.snapshot /\ x.shown = e.shown
    BY <1>1 DEF IsRecord, DecoderFields
<1> HIDE DEF x
<1>3. ASSUME d.state = "decoding", FirstHeader(rec, d.lo, d.hi) = d.header
      PROVE  FirstHeader(rec, e.lo, e.hi) = e.header
    <2>1. d.hi \in Int /\ d.hi <= upto /\ d.header \in rec.headers /\ \A h \in rec.headers : h.at \in Nat
        BY <1>3 DEF Follows, Hears, Proper, ImageRight, AllReadable
    <2>2. FirstHeader(rec, d.lo, upto) = d.header
        BY <1>3, <2>1, FirstHeaderStays
    <2>3. QED
        BY <1>1, <2>2
<1>4. Entire(e, how, rec, j)
    BY <1>1, <1>3 DEF Entire
<1>5. Entire(x, how, rec, j)
    BY <1>1, <1>2 DEF Entire
<1>6. QED
    BY <1>0, <1>1, <1>2, <1>4, <1>5 DEF e

\* A new line decoder has painted no row when it has the header.
LEMMA LockedCame ==
    ASSUME NEW rec, NEW h, NEW j \in Nat, NEW lo \in Int, Readable(rec, h, j), lo <= h.at,
           j < Ready(h.family)
    PROVE  LET l == FeedLines(NewLines(h.family, h.at + VisLength, lo), rec, h.at + VisLength)
           IN  LinesCame(l, rec, h) /\ LinesDone(l, rec, h, j) /\ Len(l.rows) < Lines
PROOF
<1> DEFINE new == NewLines(h.family, h.at + VisLength, lo)
           l == FeedLines(new, rec, h.at + VisLength)
<1>1. LinesRight(new, rec, h, j) /\ new.searched = lo
    BY NewLinesRight
<1>2. LinesCame(new, rec, h)
    <2>1. new.hi = lo /\ new.rows = <<>>
        BY DEF NewLines
    <2>2. QED
        BY <1>1, <2>1, EmptySequence DEF LinesCame
<1> HIDE DEF new
<1>3. PICK v \in Int : v = h.at + VisLength /\ lo <= v
    BY DecoderSizes DEF Readable
<1>4. /\ LinesRight(l, rec, h, j) /\ LinesCame(l, rec, h) /\ LinesDone(l, rec, h, j) /\ l.hi = v
    <2>1. new.searched <= v
        BY <1>1, <1>3
    <2>2. LET x == FeedLines(new, rec, v)
          IN  LinesRight(x, rec, h, j) /\ LinesCame(x, rec, h) /\ LinesDone(x, rec, h, j) /\ x.hi = v
        BY <1>1, <1>2, <2>1, FeedLinesCome
    <2>3. QED
        BY <1>3, <2>2
<1> HIDE DEF l
<1>5. Len(l.rows) \in Nat /\ Lines \in Nat \ {0}
    BY <1>4, OneAppended, Sizes DEF LinesRight, LinesOk
<1>6. ASSUME 1 \in 1 .. Len(l.rows) PROVE FALSE
    <2>1. l.rows[1].at \in Int /\ l.rows[1].at + Ready(h.family) <= v
        BY <1>4, <1>6 DEF LinesCame
    <2>2. l.rows[1].at - LineAt(h, 1) \in -j .. j
        BY <1>4, <1>6 DEF LinesRight, RowsAre, IsLine
    <2>3. h.at \in Int /\ Before(h.family) \in Nat /\ Ready(h.family) \in Nat
        BY ChannelsOf DEF Readable
    <2>4. LineAt(h, 1) = h.at + VisLength + Before(h.family)
        BY <2>3, LineAtIs
    <2>5. PICK x \in Int, r \in Nat, b \in Nat : x = l.rows[1].at /\ r = Ready(h.family) /\ b = Before(h.family)
        BY <2>1, <2>3
    <2>6. LineAt(h, 1) = v + b
        BY <1>3, <2>4, <2>5
    <2>7. x + r <= v /\ x - (v + b) \in -j .. j /\ j < r
        BY <2>1, <2>2, <2>5, <2>6
    <2>8. QED
        BY <2>7
<1>7. Len(l.rows) < Lines
    BY <1>5, <1>6
<1>8. QED
    BY <1>4, <1>7 DEF l, new

\* A header locked, or none found.
LEMMA HeaderEntire ==
    ASSUME NEW a, NEW d, NEW how, NEW upto \in Int, Follows(a, d, how, upto), d.state = "idle",
           NEW rec, NEW j \in Nat, AllReadable(rec, j), Separate(rec, j),
           Entire(d, how, rec, j)
    PROVE  LET e == FeedHeader(d, FirstHeader(rec, d.lo, d.hi), rec)
           IN  /\ Entire(e, how, rec, j) /\ e.hi = d.hi /\ GoesOn(d.events, e.events) /\ e.snapshot = d.snapshot
               /\ \/ /\ e.state = "idle" /\ e.lo \in Int /\ d.lo <= e.lo
                     /\ \A g \in rec.headers : d.lo <= g.at => ~(g.at + VisLength <= d.hi)
                  \/ e.state = "decoding" /\ d.lo <= e.header.at
PROOF
<1> DEFINE h == FirstHeader(rec, d.lo, d.hi)
<1>0. \A x \in rec.headers : x.at \in Nat
    BY DEF AllReadable
<1>1. /\ h # Nothing => IsFirst(rec, d.lo, d.hi, h)
      /\ h = Nothing => \A g \in rec.headers : ~(d.lo <= g.at /\ g.at + VisLength <= d.hi)
    BY <1>0, FirstHeaderIs
<1>a. IsRecord(d, DecoderFields) /\ IsSequence(d.events) /\ d.lo \in Int /\ d.hi \in Int /\ d.lo <= d.hi
    BY DEF Follows, Hears
<1> HIDE DEF h
<1>2. CASE h = Nothing
    <2> DEFINE lo == Max({d.lo, d.hi - IdleWindow})
               e == [d EXCEPT !.lo = lo]
    <2>1. d.hi - IdleWindow \in Int
        BY <1>a, DecoderSizes
    <2>2. lo \in {d.lo, d.hi - IdleWindow} /\ d.lo <= lo
        BY <1>a, <2>1, LargerOf
    <2> HIDE DEF lo
    <2>3. /\ e.hi = d.hi /\ e.state = d.state /\ e.lo = lo /\ e.events = d.events /\ e.snapshot = d.snapshot
          /\ e.shown = d.shown
        BY <1>a DEF IsRecord, DecoderFields
    <2>4. FeedHeader(d, h, rec) = e
        BY <1>2 DEF FeedHeader, lo
    <2> HIDE DEF e
    <2>5. GoesOn(d.events, e.events)
        BY <1>a, <2>3, GoesOnSame
    <2>6. Entire(e, how, rec, j)
        BY <2>3 DEF Entire
    <2>7. QED
        BY <1>1, <1>2, <1>a, <2>1, <2>2, <2>3, <2>4, <2>5, <2>6 DEF h
<1>3. CASE h # Nothing
    <2> DEFINE visEnd == h.at + VisLength
               lines0 == FeedLines(NewLines(h.family, visEnd, d.lo), rec, visEnd)
               started == [kind |-> "started", header |-> h, count |-> 0, rows |-> <<>>]
               e == [d EXCEPT !.state = "decoding", !.header = h, !.visEnd = visEnd, !.lines = lines0]
               x == [e EXCEPT !.events = @ \o <<started>>]
    <2>1. IsFirst(rec, d.lo, d.hi, h)
        BY <1>1, <1>3
    <2>2. h \in rec.headers /\ d.lo <= h.at /\ h.family # "none" /\ j < Ready(h.family)
        BY <2>1 DEF IsFirst, Separate
    <2>3. Readable(rec, h, j)
        BY <2>2 DEF AllReadable
    <2>4. LinesCame(lines0, rec, h) /\ LinesDone(lines0, rec, h, j) /\ Len(lines0.rows) < Lines
        BY <1>a, <2>2, <2>3, LockedCame
    <2>5. started.kind # "complete"
        OBVIOUS
    <2> HIDE DEF lines0, started, visEnd
    <2>6. /\ IsRecord(e, DecoderFields) /\ e.hi = d.hi /\ e.state = "decoding" /\ e.lo = d.lo /\ e.header = h
          /\ e.lines = lines0 /\ e.events = d.events /\ e.snapshot = d.snapshot /\ e.shown = d.shown
        BY <1>a DEF IsRecord, DecoderFields
    <2> HIDE DEF e
    <2>7. /\ x.hi = d.hi /\ x.state = "decoding" /\ x.lo = d.lo /\ x.header = h
          /\ x.lines = lines0 /\ x.events = d.events \o <<started>> /\ x.snapshot = d.snapshot /\ x.shown = d.shown
        BY <2>6 DEF IsRecord, DecoderFields
    <2> HIDE DEF x
    <2>8. GoesOn(d.events, x.events)
        BY <1>a, <2>5, <2>7, GoesOnOne
    <2>9. FirstHeader(rec, x.lo, x.hi) = x.header
        BY <2>7 DEF h
    <2>10. Entire(x, how, rec, j)
        BY <2>4, <2>7, <2>9 DEF Entire
    <2>11. FeedHeader(d, h, rec) = x
        BY <1>3, <2>2 DEF FeedHeader, Lock, Emit, x, e, lines0, started, visEnd
    <2>12. QED
        BY <2>2, <2>7, <2>8, <2>10, <2>11 DEF h
<1>4. QED
    BY <1>2, <1>3

-----------------------------------------------------------------------------
(* One round of a feed stays in the image, or ends it.                     *)

\* It goes on: an image that was heard well still lacks its last line.
Stays(e, y, how, rec, j, off) ==
    /\ GoesOn(e.events, y.events) /\ y.snapshot = e.snapshot /\ y.hi = e.hi /\ y.state = e.state
    /\ y.header = e.header /\ y.lo = e.lo /\ Entire(y, how, rec, j)
    /\ e.state = "decoding" /\ ~off /\ HeardWell(e.header, Syncs(rec, e.header), j) =>
          ~(LineAt(e.header, Lines) + j + Ready(e.header.family) <= e.hi)

\* It ends: the last line has come, and the audio kept is that of the image.
Ends(e, y, how, rec, j) ==
    /\ e.state = "decoding" /\ y.state = "idle" /\ y.lo = y.hi /\ y.lo \in Int
    /\ e.header.at < y.lo /\ y.hi <= e.hi /\ Entire(y, how, rec, j)
    /\ \E s, event : /\ GoesOn(e.events, s) /\ y.events = s \o <<event>>
                     /\ event.kind = "complete" /\ event.header = e.header
    /\ Shot(y.snapshot, rec, e.header, how)
    /\ LineAt(e.header, Lines) < e.hi + j /\ Syncs(rec, e.header) # {}

\* What completion does.
LEMMA CompleteEnds ==
    ASSUME NEW a, NEW d, NEW how, NEW upto \in Int, Follows(a, d, how, upto), d.state = "decoding",
           NEW rec, NEW j \in Nat,
           d.trimmed \/ FirstHeader(rec, d.lo, d.hi) = d.header,
           how = "rows" => d.header.at + VisLength + (Lines - 1) * Period <= d.hi
    PROVE  LET y == CompleteImage(d)
           IN  /\ y.state = "idle" /\ y.lo = y.hi /\ y.lo \in Int /\ d.header.at < y.lo /\ y.hi <= d.hi
               /\ Entire(y, how, rec, j) /\ Shot(y.snapshot, rec, d.header, how)
               /\ \E event : /\ y.events = d.events \o <<event>>
                             /\ event.kind = "complete" /\ event.header = d.header
PROOF
<1> DEFINE snap == IF d.trimmed THEN [lo |-> 0, hi |-> 0] ELSE [lo |-> d.lo, hi |-> d.hi]
           event == Event("complete", d, Lines)
           x == [d EXCEPT !.snapshot = snap]
           y == [x EXCEPT !.events = @ \o <<event>>]
           tail == TailStart(d)
           n == NewDecoder(y.hi)
           r == [n EXCEPT !.snapshot = y.snapshot, !.events = y.events]
           from == IF tail = -1 THEN d.hi ELSE tail
           e == IF tail = -1 THEN r ELSE [r EXCEPT !.lo = tail, !.hi = tail]
<1>1. event.kind = "complete" /\ event.header = d.header
    BY DEF Event
<1>1a. Shot(snap, rec, d.header, how)
    BY DEF Shot
<1> HIDE DEF snap, event
<1>2. IsRecord(x, DecoderFields) /\ x.hi = d.hi /\ x.events = d.events /\ x.snapshot = snap
    BY DEF Follows, Hears, IsRecord, DecoderFields
<1> HIDE DEF x
<1>3. IsRecord(y, DecoderFields) /\ y.hi = d.hi /\ y.events = d.events \o <<event>> /\ y.snapshot = snap
    BY <1>2 DEF IsRecord, DecoderFields
<1> HIDE DEF y
<1>4. IsRecord(n, DecoderFields) /\ n.state = "idle" /\ n.lo = d.hi /\ n.hi = d.hi /\ n.shown = 0
    BY <1>3 DEF NewDecoder, IsRecord, DecoderFields
<1> HIDE DEF n
<1>5. /\ IsRecord(r, DecoderFields) /\ r.state = "idle" /\ r.lo = d.hi /\ r.hi = d.hi /\ r.shown = 0
      /\ r.events = y.events /\ r.snapshot = snap
    BY <1>3, <1>4 DEF IsRecord, DecoderFields
<1> HIDE DEF r
<1>6. /\ e.state = "idle" /\ e.lo = from /\ e.hi = from /\ e.shown = 0
      /\ e.events = d.events \o <<event>> /\ e.snapshot = snap
    BY <1>3, <1>5 DEF IsRecord, DecoderFields
<1>7. from \in Int /\ from <= d.hi /\ d.header.at < from
    <2>1. /\ d.hi \in Int /\ d.header.at \in Nat /\ d.visEnd = d.header.at + VisLength /\ d.visEnd <= d.hi
        BY DEF Follows, Hears
    <2>2. d.header.at < d.hi
        BY <2>1, DecoderSizes
    <2>3. tail # -1 => tail = d.visEnd + Lines * Period - Slack /\ tail < d.hi
        BY DEF TailStart
    <2>4. tail # -1 => tail \in Int /\ d.header.at < tail /\ tail <= d.hi
        <3> HIDE DEF tail
        <3>1. QED
            BY <2>1, <2>3, DecoderSizes
    <2> HIDE DEF tail
    <2>5. QED
        BY <2>1, <2>2, <2>4
<1> HIDE DEF e, from, tail
<1>8. Entire(e, how, rec, j)
    <2>1. 0 < Lines
        BY Sizes
    <2>2. QED
        BY <1>6, <2>1 DEF Entire
<1>9. CompleteImage(d) = e
    BY DEF CompleteImage, Restart, ResetDecoder, Emit, e, r, n, y, x, snap, event, tail
<1>10. QED
    BY <1>1, <1>1a, <1>6, <1>7, <1>8, <1>9

\* Where the last line of an image lies from its header.
LEMMA LastLineIs ==
    ASSUME NEW h, h.at \in Int
    PROVE  /\ Lines \in 1 .. Lines /\ (Lines - 1) * Period \in Nat /\ LineAt(h, Lines) \in Int
           /\ (Lines - 1) * Period + Period = Lines * Period
           /\ LineAt(h, Lines) = h.at + VisLength + Before(h.family) + (Lines - 1) * Period
PROOF
<1>1. Lines \in Nat \ {0} /\ Period \in Nat
    BY Sizes
<1>2. \A m, p \in Nat : m > 0 => (m - 1) * p \in Nat /\ (m - 1) * p + p = m * p
    <2>1. ASSUME NEW m \in Nat, NEW p \in Nat, m > 0 PROVE (m - 1) * p \in Nat /\ (m - 1) * p + p = m * p
        <3>1. PICK k \in Nat : k = m - 1
            BY <2>1
        <3>2. k * p \in Nat /\ k * p + p = (k + 1) * p /\ m = k + 1
            BY <3>1
        <3>3. QED
            BY <3>1, <3>2
    <2>2. QED
        BY <2>1
<1>3. (Lines - 1) * Period \in Nat /\ (Lines - 1) * Period + Period = Lines * Period
    BY <1>1, <1>2
<1>4. LineAt(h, Lines) \in Int
    BY <1>1, LineAtIs
<1>5. QED
    BY <1>1, <1>3, <1>4 DEF LineAt

\* The path of the rows.
LEMMA IncrementalEnds ==
    ASSUME NEW a, NEW d, NEW upto \in Int, Follows(a, d, "rows", upto), d.state = "decoding",
           NEW rec, NEW j \in Nat, AllReadable(rec, j), Separate(rec, j), Proper(d, "rows", rec, j),
           Entire(d, "rows", rec, j), NEW off
    PROVE  LET y == FeedIncremental(d, rec, off)
           IN  Stays(d, y, "rows", rec, j, off) \/ Ends(d, y, "rows", rec, j)
PROOF
<1> DEFINE h == d.header
           l == FeedLines(d.lines, rec, d.hi)
           e == Relined(d, l)
           from == Len(d.lines.rows)
           p == Progress(e, from)
           y == IfComplete(p)
<1>1. /\ LinesRight(d.lines, rec, h, j) /\ d.lines.searched <= d.hi /\ d.hi \in Int /\ h \in rec.headers
      /\ Readable(rec, h, j) /\ LinesOk(d.lines) /\ IsRecord(d, DecoderFields) /\ IsSequence(d.events)
      /\ LinesCame(d.lines, rec, h) /\ LinesDone(d.lines, rec, h, j) /\ Len(d.lines.rows) < Lines
      /\ d.trimmed \/ FirstHeader(rec, d.lo, d.hi) = h
    BY DEF Proper, ImageRight, Follows, Hears, AllReadable, Entire
<1>2. CASE off \/ d.lines.hi = d.hi
    <2>1. FeedIncremental(d, rec, off) = d
        BY <1>2 DEF FeedIncremental
    <2>2. ~off => (HeardWell(h, Syncs(rec, h), j) => ~(LineAt(h, Lines) + j + Ready(h.family) <= d.hi))
        BY <1>1, <1>2 DEF LinesCame, LinesDone, AllCame
    <2>3. Stays(d, d, "rows", rec, j, off)
        BY <1>1, <2>2, GoesOnSame DEF Stays
    <2>4. QED
        BY <2>1, <2>3
<1>3. CASE ~(off \/ d.lines.hi = d.hi)
    <2>1. LinesRight(l, rec, h, j) /\ LinesCame(l, rec, h) /\ LinesDone(l, rec, h, j) /\ l.hi = d.hi
        BY <1>1, FeedLinesCome
    <2> HIDE DEF l, h
    <2>2. LinesOk(l) /\ l.searched <= d.hi /\ IsSequence(l.rows)
        BY <1>1, <2>1 DEF LinesOk, LinesRight, LinesCame
    <2>3. Follows(a, e, "rows", upto) /\ e.state = "decoding"
        BY <2>2, LinesFollow
    <2>4. /\ IsRecord(e, DecoderFields) /\ e.hi = d.hi /\ e.lo = d.lo /\ e.header = h /\ e.lines = l
          /\ e.events = d.events /\ e.trimmed = d.trimmed /\ e.snapshot = d.snapshot
        BY <1>1 DEF IsRecord, DecoderFields, Relined, h
    <2>5. from \in Int
        BY <1>1, OneAppended DEF LinesOk
    <2> HIDE DEF e, from
    <2>6. Follows(a, p, "rows", upto) /\ p.state = "decoding"
        BY <2>2, <2>3, <2>4, <2>5, RowsFollow
    <2>7. Continues(e, p)
        BY <1>1, <2>2, <2>4, <2>5, ProgressContinues
    <2> HIDE DEF p
    <2>8. /\ p.header = h /\ p.lines = l /\ p.hi = d.hi /\ p.lo = d.lo /\ p.snapshot = d.snapshot
          /\ GoesOn(d.events, p.events)
          /\ p.trimmed \/ FirstHeader(rec, p.lo, p.hi) = h
        BY <1>1, <2>4, <2>7 DEF Continues
    <2>9. FeedIncremental(d, rec, off) = y
        BY <1>3 DEF FeedIncremental, Painted, Relined, p, e, from, l
    <2>10. Len(l.rows) \in Nat /\ Lines \in Nat
        BY <2>2, OneAppended, Sizes
    <2>11. CASE Len(l.rows) < Lines
        <3>1. y = p
            BY <2>8, <2>10, <2>11 DEF IfComplete, Complete
        <3>2. Entire(p, "rows", rec, j)
            BY <2>1, <2>8, <2>11 DEF Entire
        <3>3. HeardWell(h, Syncs(rec, h), j) => ~(LineAt(h, Lines) + j + Ready(h.family) <= d.hi)
            BY <2>1, <2>11 DEF LinesCame, LinesDone, AllCame
        <3>4. Stays(d, p, "rows", rec, j, off)
            BY <2>6, <2>8, <3>2, <3>3 DEF Stays, h
        <3>5. QED
            BY <2>9, <3>1, <3>4
    <2>12. CASE ~(Len(l.rows) < Lines)
        <3>1. y = CompleteImage(p)
            BY <2>8, <2>10, <2>12 DEF IfComplete, Complete
        <3>2. /\ h.at \in Int /\ Before(h.family) \in Nat /\ Ready(h.family) \in Nat /\ j < Ready(h.family)
              /\ VisLength \in Nat
            BY <1>1, ChannelsOf, DecoderSizes DEF Readable, Separate
        <3>3. /\ Lines \in 1 .. Lines /\ (Lines - 1) * Period \in Nat /\ LineAt(h, Lines) \in Int
              /\ LineAt(h, Lines) = h.at + VisLength + Before(h.family) + (Lines - 1) * Period
            BY <3>2, LastLineIs
        <3>4. Lines \in 1 .. Len(l.rows)
            BY <2>10, <2>12, <3>3
        <3>5. PICK at \in Int, r \in Nat : at = l.rows[Lines].at /\ r = Ready(h.family)
            BY <2>1, <3>2, <3>4 DEF LinesCame
        <3>6. at + r <= d.hi /\ at - LineAt(h, Lines) \in -j .. j /\ j < r
            BY <2>1, <3>2, <3>4, <3>5 DEF LinesCame, LinesRight, RowsAre, IsLine
        <3>7. LineAt(h, Lines) < d.hi + j /\ LineAt(h, Lines) <= d.hi
            BY <1>1, <3>3, <3>6
        <3>8. h.at + VisLength + (Lines - 1) * Period <= d.hi
            <4>1. PICK b \in Nat, m \in Nat, v \in Int :
                      b = Before(h.family) /\ m = (Lines - 1) * Period /\ v = h.at + VisLength
                BY <3>2, <3>3
            <4>2. v + b + m <= d.hi
                BY <3>3, <3>7, <4>1
            <4>3. v + m <= d.hi
                BY <1>1, <4>2
            <4>4. QED
                BY <4>1, <4>3
        <3>9. Syncs(rec, h) # {}
            BY <2>1, <3>4 DEF LinesCame
        <3>10. LET z == CompleteImage(p)
               IN  /\ z.state = "idle" /\ z.lo = z.hi /\ z.lo \in Int /\ p.header.at < z.lo /\ z.hi <= p.hi
                   /\ Entire(z, "rows", rec, j) /\ Shot(z.snapshot, rec, p.header, "rows")
                   /\ \E event : /\ z.events = p.events \o <<event>>
                                 /\ event.kind = "complete" /\ event.header = p.header
            BY <2>6, <2>8, <3>8, CompleteEnds
        <3>11. Ends(d, y, "rows", rec, j)
            BY <2>8, <3>1, <3>7, <3>9, <3>10 DEF Ends, h
        <3>12. QED
            BY <2>9, <3>11
    <2>13. QED
        BY <2>11, <2>12
<1>4. QED
    BY <1>2, <1>3

\* The batch path.
LEMMA BatchEnds ==
    ASSUME NEW a, NEW d, NEW upto \in Int, Follows(a, d, "batch", upto), d.state = "decoding",
           NEW rec, NEW j \in Nat, AllReadable(rec, j), Separate(rec, j), Proper(d, "batch", rec, j),
           Entire(d, "batch", rec, j), NEW off
    PROVE  LET y == FeedBatch(d, rec, off)
           IN  Stays(d, y, "batch", rec, j, off) \/ Ends(d, y, "batch", rec, j)
PROOF
<1> DEFINE h == d.header
           l == BatchLines(d, rec)
           k == Len(l.rows)
<1>1. /\ Readable(rec, h, j) /\ d.visEnd = h.at + VisLength /\ d.lo \in Int /\ d.hi \in Int
      /\ d.lo <= h.at /\ IsRecord(d, DecoderFields) /\ IsSequence(d.events) /\ h \in rec.headers
      /\ d.trimmed \/ FirstHeader(rec, d.lo, d.hi) = h
      /\ d.shown \in Int /\ d.shown < Lines
    BY DEF Proper, ImageRight, Follows, Hears, AllReadable, Entire
<1>2. /\ RowsAre(rec, h, l.rows, j) /\ k \in Nat
      /\ \A n \in 1 .. k : l.rows[n].at \in Int /\ l.rows[n].at < d.hi
      /\ k > 0 => Syncs(rec, h) # {}
      /\ (\E c \in Syncs(rec, h) : c < d.hi /\ IsLine(h, Lines, c, j))
         /\ LineAt(h, Lines) + j < d.hi => k = Lines
    BY <1>1, BatchRight
<1>3. FeedBatch(d, rec, off) = IF off THEN d ELSE BatchPainted(d, l)
    BY DEF FeedBatch
<1> HIDE DEF l, h, k
<1>4. /\ h.at \in Int /\ Before(h.family) \in Nat /\ Ready(h.family) \in Nat \ {0} /\ VisLength \in Nat
      /\ Lines \in 1 .. Lines /\ Lines \in Nat /\ LineAt(h, Lines) \in Int
    BY <1>1, ChannelsOf, DecoderSizes, LastLineIs DEF Readable
<1>5. ASSUME HeardWell(h, Syncs(rec, h), j), LineAt(h, Lines) + j + Ready(h.family) <= d.hi PROVE k = Lines
    <2>1. PICK c \in Syncs(rec, h) : IsLine(h, Lines, c, j)
        BY <1>5 DEF HeardWell
    <2>2. c \in Int
        BY <1>1 DEF Syncs, Readable
    <2>3. c < d.hi /\ LineAt(h, Lines) + j < d.hi
        BY <1>1, <1>4, <1>5, <2>1, <2>2 DEF IsLine
    <2>4. QED
        BY <1>2, <2>1, <2>3
<1>6. CASE off \/ k <= d.shown
    <2>1. FeedBatch(d, rec, off) = d
        BY <1>3, <1>6 DEF BatchPainted, k
    <2>2. k <= d.shown => k # Lines
        BY <1>1, <1>2, <1>4
    <2>3. Stays(d, d, "batch", rec, j, off)
        BY <1>1, <1>5, <1>6, <2>2, GoesOnSame DEF Stays, h
    <2>4. QED
        BY <2>1, <2>3
<1>7. CASE ~off /\ ~(k <= d.shown) /\ k < Lines
    <2> DEFINE event == [Event("progress", d, Len(l.rows)) EXCEPT !.rows = l.rows]
               x == [d EXCEPT !.lines = l, !.shown = k]
               y == [x EXCEPT !.events = @ \o <<event>>]
    <2>1. event.kind # "complete"
        BY DEF Event
    <2>2. FeedBatch(d, rec, off) = y
        BY <1>2, <1>3, <1>4, <1>7 DEF BatchPainted, Complete, Emit, k
    <2> HIDE DEF event
    <2>3. /\ IsRecord(x, DecoderFields) /\ x.hi = d.hi /\ x.state = d.state /\ x.lo = d.lo /\ x.header = d.header
          /\ x.events = d.events /\ x.snapshot = d.snapshot /\ x.trimmed = d.trimmed /\ x.shown = k
        BY <1>1 DEF IsRecord, DecoderFields
    <2> HIDE DEF x
    <2>4. /\ y.hi = d.hi /\ y.state = d.state /\ y.lo = d.lo /\ y.header = d.header /\ y.shown = k
          /\ y.events = d.events \o <<event>> /\ y.snapshot = d.snapshot /\ y.trimmed = d.trimmed
        BY <2>3 DEF IsRecord, DecoderFields
    <2> HIDE DEF y
    <2>5. GoesOn(d.events, y.events)
        BY <1>1, <2>1, <2>4, GoesOnOne
    <2>6. Entire(y, "batch", rec, j)
        BY <1>1, <1>2, <1>7, <2>4 DEF Entire, h
    <2>7. k # Lines
        BY <1>2, <1>4, <1>7
    <2>8. Stays(d, y, "batch", rec, j, off)
        BY <1>5, <2>4, <2>5, <2>6, <2>7 DEF Stays, h
    <2>9. QED
        BY <2>2, <2>8
<1>8. CASE ~off /\ ~(k <= d.shown) /\ ~(k < Lines)
    <2> DEFINE e == Relined(d, l)
    <2>1. FeedBatch(d, rec, off) = CompleteImage(e)
        BY <1>2, <1>3, <1>4, <1>8 DEF BatchPainted, Complete, Relined, k
    <2>2. Follows(a, e, "batch", upto) /\ e.state = "decoding"
        BY LinesFollow
    <2>3. /\ e.hi = d.hi /\ e.lo = d.lo /\ e.header = h /\ e.events = d.events /\ e.trimmed = d.trimmed
        BY <1>1 DEF IsRecord, DecoderFields, Relined, h
    <2> HIDE DEF e
    <2>4. LET z == CompleteImage(e)
          IN  /\ z.state = "idle" /\ z.lo = z.hi /\ z.lo \in Int /\ e.header.at < z.lo /\ z.hi <= e.hi
              /\ Entire(z, "batch", rec, j) /\ Shot(z.snapshot, rec, e.header, "batch")
              /\ \E event : /\ z.events = e.events \o <<event>>
                            /\ event.kind = "complete" /\ event.header = e.header
        <3>1. PICK how : how = "batch"
            OBVIOUS
        <3>2. how = "rows" => e.header.at + VisLength + (Lines - 1) * Period <= e.hi
            BY <3>1
        <3>3. QED
            BY <1>1, <2>2, <2>3, <3>1, <3>2, CompleteEnds
    <2>5. Lines \in 1 .. k /\ k > 0
        BY <1>2, <1>4, <1>8
    <2>6. l.rows[Lines].at \in Int /\ l.rows[Lines].at < d.hi /\ IsLine(h, Lines, l.rows[Lines].at, j)
        BY <1>2, <2>5 DEF RowsAre, k
    <2>7. LineAt(h, Lines) < d.hi + j
        BY <1>1, <1>4, <2>6 DEF IsLine
    <2>8. GoesOn(d.events, e.events)
        BY <1>1, <2>3, GoesOnSame
    <2>9. Ends(d, CompleteImage(e), "batch", rec, j)
        BY <1>2, <2>3, <2>4, <2>5, <2>7, <2>8 DEF Ends, h
    <2>10. QED
        BY <2>1, <2>9
<1>9. QED
    BY <1>6, <1>7, <1>8

-----------------------------------------------------------------------------
(* A round of a feed: it takes all the audio and ends no image, or it ends *)
(* the one the decoder is in, or the first one it finds.                   *)

\* A decoder that is late with nothing: an image that was heard well lacks its
\* last line, and no header in the buffer was overlooked.
Prompt(d, rec, j) ==
    /\ d.state = "decoding" /\ HeardWell(d.header, Syncs(rec, d.header), j) =>
          ~(LineAt(d.header, Lines) + j + Ready(d.header.family) <= d.hi)
    /\ d.state = "idle" => \A g \in rec.headers : d.lo <= g.at => ~(g.at + VisLength <= d.hi)

\* From decoder d a round without the end of an image leads to y.
Quiet(d, y, upto, off, rec, j) ==
    /\ GoesOn(d.events, y.events) /\ y.snapshot = d.snapshot /\ y.hi = upto
    /\ y.state = "decoding" => IF d.state = "decoding" THEN y.header = d.header ELSE d.lo <= y.header.at
    /\ y.state = "idle" => d.state = "idle" /\ y.lo \in Int /\ d.lo <= y.lo
    /\ ~off => Prompt(y, rec, j)

\* Or a round at whose end the image behind h is complete.
Ended(d, y, upto, how, rec, j, h) ==
    /\ y.state = "idle" /\ y.lo = y.hi /\ y.lo \in Int /\ y.hi <= upto
    /\ h \in rec.headers /\ h.at < y.lo
    /\ IF d.state = "decoding" THEN h = d.header ELSE d.lo <= h.at
    /\ \E s, event : /\ GoesOn(d.events, s) /\ y.events = s \o <<event>>
                     /\ event.kind = "complete" /\ event.header = h
    /\ Shot(y.snapshot, rec, h, how)
    /\ LineAt(h, Lines) < upto + j /\ Syncs(rec, h) # {}

\* What FeedFound does of a decoder that is idle, or inside an image.
LEMMA FoundEnds ==
    ASSUME NEW a, NEW e, NEW inc \in BOOLEAN, NEW how, how = (IF inc THEN "rows" ELSE "batch"),
           NEW upto \in Int, Follows(a, e, how, upto), NEW off, e.state = "decoding",
           NEW rec, NEW j \in Nat, AllReadable(rec, j), Separate(rec, j), Proper(e, how, rec, j),
           Entire(e, how, rec, j)
    PROVE  LET y == FeedFound(e, rec, inc, off)
           IN  Stays(e, y, how, rec, j, off) \/ (~off /\ Ends(e, y, how, rec, j))
PROOF
<1> DEFINE y == FeedFound(e, rec, inc, off)
<1>1. y = IF inc THEN FeedIncremental(e, rec, off) ELSE FeedBatch(e, rec, off)
    BY DEF FeedFound
<1>2. CASE off
    <2>1. y = e
        BY <1>1, <1>2 DEF FeedIncremental, FeedBatch
    <2>2. IsSequence(e.events)
        BY DEF Follows, Hears
    <2>3. Stays(e, e, how, rec, j, off)
        BY <1>2, <2>2, GoesOnSame DEF Stays
    <2>4. QED
        BY <2>1, <2>3
<1>3. CASE ~off /\ inc
    <2>1. how = "rows"
        BY <1>3
    <2>2. Stays(e, FeedIncremental(e, rec, off), "rows", rec, j, off) \/ Ends(e, FeedIncremental(e, rec, off), "rows", rec, j)
        BY <2>1, IncrementalEnds
    <2>3. QED
        BY <1>1, <1>3, <2>1, <2>2
<1>4. CASE ~off /\ ~inc
    <2>1. how = "batch"
        BY <1>4
    <2>2. Stays(e, FeedBatch(e, rec, off), "batch", rec, j, off) \/ Ends(e, FeedBatch(e, rec, off), "batch", rec, j)
        BY <2>1, BatchEnds
    <2>3. QED
        BY <1>1, <1>4, <2>1, <2>2
<1>5. QED
    BY <1>2, <1>3, <1>4

\* One round.
LEMMA RoundEnds ==
    ASSUME NEW a, NEW d, NEW inc \in BOOLEAN, NEW how, how = (IF inc THEN "rows" ELSE "batch"),
           NEW upto \in Int, Follows(a, d, how, upto), NEW off,
           NEW rec, NEW j \in Nat, AllReadable(rec, j), Separate(rec, j), Proper(d, how, rec, j),
           Entire(d, how, rec, j)
    PROVE  LET y == FeedOnce(d, rec, upto, inc, off)
           IN  /\ Entire(y, how, rec, j)
               /\ \/ Quiet(d, y, upto, off, rec, j)
                  \/ ~off /\ \E h : Ended(d, y, upto, how, rec, j, h)
PROOF
<1> DEFINE c == EnforceBufferCap([d EXCEPT !.hi = upto], inc)
           x == FeedHeader(c, FirstHeader(rec, c.lo, c.hi), rec)
           e == IF c.state = "idle" THEN x ELSE c
           y == FeedFound(e, rec, inc, off)
<1>0. \A h \in rec.headers : h.at \in Nat
    BY DEF AllReadable
<1>1. FeedOnce(d, rec, upto, inc, off) = y
    BY DEF FeedOnce, FeedJoined
<1>2. Follows(a, c, how, upto) /\ Proper(c, how, rec, j)
    BY CapFollows, CapProper
<1>3. /\ Entire(c, how, rec, j) /\ c.hi = upto /\ c.events = d.events /\ c.snapshot = d.snapshot
      /\ c.state = d.state /\ c.header = d.header /\ (c.state = "idle" => c.lo = d.lo)
    <2> HIDE DEF x, e, y
    <2>1. LET z == EnforceBufferCap([d EXCEPT !.hi = upto], inc)
          IN  /\ Entire(z, how, rec, j) /\ z.hi = upto /\ z.events = d.events /\ z.snapshot = d.snapshot
              /\ z.state = d.state /\ z.header = d.header /\ (z.state = "idle" => z.lo = d.lo)
        BY CapEntire
    <2>2. QED
        BY <2>1
<1> HIDE DEF c
<1>4. Follows(a, e, how, upto) /\ Proper(e, how, rec, j)
    <2>1. Follows(a, e, how, upto)
        BY <1>0, <1>2, HeaderFollows
    <2>2. Proper(e, how, rec, j)
        BY <1>2, HeaderProper
    <2>3. QED
        BY <2>1, <2>2
<1>5. c.state \in {"idle", "decoding"} /\ IsSequence(c.events) /\ c.lo \in Int
    BY <1>2 DEF Follows, Hears
<1>6. c.state = "idle" =>
          /\ Entire(x, how, rec, j) /\ x.hi = upto /\ GoesOn(d.events, x.events) /\ x.snapshot = d.snapshot
          /\ \/ /\ x.state = "idle" /\ x.lo \in Int /\ d.lo <= x.lo
                /\ \A g \in rec.headers : d.lo <= g.at => ~(g.at + VisLength <= upto)
             \/ x.state = "decoding" /\ d.lo <= x.header.at
    <2> SUFFICES ASSUME c.state = "idle"
                 PROVE  /\ Entire(x, how, rec, j) /\ x.hi = upto /\ GoesOn(d.events, x.events) /\ x.snapshot = d.snapshot
                        /\ \/ /\ x.state = "idle" /\ x.lo \in Int /\ d.lo <= x.lo
                              /\ \A g \in rec.headers : d.lo <= g.at => ~(g.at + VisLength <= upto)
                           \/ x.state = "decoding" /\ d.lo <= x.header.at
        OBVIOUS
    <2>1. /\ Entire(x, how, rec, j) /\ x.hi = c.hi /\ GoesOn(c.events, x.events) /\ x.snapshot = c.snapshot
          /\ \/ /\ x.state = "idle" /\ x.lo \in Int /\ c.lo <= x.lo
                /\ \A g \in rec.headers : c.lo <= g.at => ~(g.at + VisLength <= c.hi)
             \/ x.state = "decoding" /\ c.lo <= x.header.at
        BY <1>2, <1>3, HeaderEntire
    <2> HIDE DEF x
    <2>2. QED
        BY <1>3, <2>1
<1> HIDE DEF x
<1>7. /\ Entire(e, how, rec, j) /\ e.hi = upto /\ GoesOn(d.events, e.events) /\ e.snapshot = d.snapshot
      /\ e.state = "decoding" => IF d.state = "decoding" THEN e.header = d.header ELSE d.lo <= e.header.at
      /\ e.state = "idle" => /\ d.state = "idle" /\ e.lo \in Int /\ d.lo <= e.lo
                             /\ \A g \in rec.headers : d.lo <= g.at => ~(g.at + VisLength <= upto)
    <2>1. CASE c.state = "idle"
        BY <1>3, <1>6, <2>1
    <2>2. CASE c.state = "decoding"
        BY <1>3, <1>5, <2>2, GoesOnSame
    <2>3. QED
        BY <1>5, <2>1, <2>2
<1>8. e.state \in {"idle", "decoding"}
    BY <1>4 DEF Follows, Hears
<1> HIDE DEF e
<1>9. CASE e.state = "idle"
    <2>1. y = e
        BY <1>9 DEF FeedFound
    <2>2. d.lo \in Int /\ e.lo \in Int /\ d.lo <= e.lo
        BY <1>7, <1>9 DEF Follows, Hears
    <2>3. \A g \in rec.headers : e.lo <= g.at => ~(g.at + VisLength <= e.hi)
        <3>1. ASSUME NEW g \in rec.headers, e.lo <= g.at PROVE ~(g.at + VisLength <= e.hi)
            <4>1. g.at \in Nat
                BY <1>0
            <4>2. d.lo <= g.at
                BY <2>2, <3>1, <4>1
            <4>3. QED
                BY <1>7, <1>9, <4>2
        <3>2. QED
            BY <3>1
    <2>4. Prompt(e, rec, j)
        BY <1>9, <2>3 DEF Prompt
    <2>5. Quiet(d, e, upto, off, rec, j)
        BY <1>7, <1>9, <2>4 DEF Quiet
    <2>6. QED
        BY <1>1, <1>7, <2>1, <2>5
<1>10. CASE e.state = "decoding"
    <2>1. Stays(e, y, how, rec, j, off) \/ (~off /\ Ends(e, y, how, rec, j))
        BY <1>4, <1>7, <1>10, FoundEnds
    <2> HIDE DEF y
    <2>2. CASE Stays(e, y, how, rec, j, off)
        <3>1. /\ GoesOn(d.events, y.events) /\ y.snapshot = d.snapshot /\ y.hi = upto
              /\ y.state = "decoding" /\ y.header = e.header /\ Entire(y, how, rec, j)
            BY <1>7, <1>10, <2>2, GoesOnBoth DEF Stays
        <3>2. ~off => Prompt(y, rec, j)
            BY <1>7, <1>10, <2>2, <3>1 DEF Stays, Prompt
        <3>3. Quiet(d, y, upto, off, rec, j)
            BY <1>7, <1>10, <3>1, <3>2 DEF Quiet
        <3>4. QED
            BY <1>1, <3>1, <3>3
    <2>3. CASE ~off /\ Ends(e, y, how, rec, j)
        <3>1. e.header \in rec.headers
            BY <1>4, <1>10 DEF Proper, ImageRight
        <3>2. PICK s, event : /\ GoesOn(e.events, s) /\ y.events = s \o <<event>>
                              /\ event.kind = "complete" /\ event.header = e.header
            BY <2>3 DEF Ends
        <3>3. GoesOn(d.events, s)
            BY <1>7, <3>2, GoesOnBoth
        <3>4. Ended(d, y, upto, how, rec, j, e.header)
            BY <1>7, <1>10, <2>3, <3>1, <3>2, <3>3 DEF Ends, Ended
        <3>5. Entire(y, how, rec, j)
            BY <2>3 DEF Ends
        <3>6. QED
            BY <1>1, <2>3, <3>4, <3>5
    <2>4. QED
        BY <2>1, <2>2, <2>3
<1>11. QED
    BY <1>8, <1>9, <1>10

-----------------------------------------------------------------------------
(* A whole feed: the audio kept is that of the image that ended last, and  *)
(* where the flushes are small no second one ends in it.                   *)

\* The events end no image; not more than one.
Silent(s) == \A n \in 1 .. Len(s) : s[n].kind # "complete"
Single(s) == \A m, n \in 1 .. Len(s) : s[m].kind = "complete" /\ s[n].kind = "complete" => m = n

\* The audio kept is that of the image which the events end last.
Newest(s, shot, rec, how) ==
    \A n \in 1 .. Len(s) :
        s[n].kind = "complete" /\ (\A m \in 1 .. Len(s) : n < m => s[m].kind # "complete")
        => Shot(shot, rec, s[n].header, how)

\* Events that end no image change nothing of it.
LEMMA MoreEvents ==
    ASSUME NEW s, NEW t, GoesOn(s, t), NEW shot, NEW rec, NEW how
    PROVE  /\ Silent(s) => Silent(t)
           /\ Single(s) => Single(t)
           /\ Newest(s, shot, rec, how) => Newest(t, shot, rec, how)
PROOF
<1>1. Len(s) \in Nat /\ Len(t) \in Nat /\ Len(s) <= Len(t)
    BY DEF GoesOn
<1>2. ASSUME NEW n \in 1 .. Len(t), t[n].kind = "complete" PROVE n \in 1 .. Len(s) /\ t[n] = s[n]
    <2>1. ~(n > Len(s))
        BY <1>2 DEF GoesOn
    <2>2. n \in 1 .. Len(s)
        BY <1>1, <2>1
    <2>3. QED
        BY <2>2 DEF GoesOn
<1>3. ASSUME NEW n \in 1 .. Len(s) PROVE n \in 1 .. Len(t) /\ t[n] = s[n]
    BY <1>1 DEF GoesOn
<1>4. Silent(s) => Silent(t)
    BY <1>2 DEF Silent
<1>5. Single(s) => Single(t)
    BY <1>2 DEF Single
<1>6. ASSUME Newest(s, shot, rec, how), NEW n \in 1 .. Len(t), t[n].kind = "complete",
             \A m \in 1 .. Len(t) : n < m => t[m].kind # "complete"
      PROVE  Shot(shot, rec, t[n].header, how)
    <2>1. n \in 1 .. Len(s) /\ t[n] = s[n]
        BY <1>2, <1>6
    <2>2. \A m \in 1 .. Len(s) : n < m => s[m].kind # "complete"
        BY <1>3, <1>6
    <2>3. QED
        BY <1>6, <2>1, <2>2 DEF Newest
<1>7. Newest(s, shot, rec, how) => Newest(t, shot, rec, how)
    BY <1>6 DEF Newest
<1>8. QED
    BY <1>4, <1>5, <1>7

\* An event that ends an image.
LEMMA LastEvent ==
    ASSUME NEW s, IsSequence(s), NEW event, event.kind = "complete",
           NEW shot, NEW rec, NEW how, Shot(shot, rec, event.header, how)
    PROVE  /\ Newest(s \o <<event>>, shot, rec, how)
           /\ Silent(s) => Single(s \o <<event>>)
PROOF
<1> DEFINE t == Append(s, event)
           k == Len(s)
<1>1. /\ k \in Nat /\ Len(t) = k + 1 /\ t[k + 1] = event /\ s \o <<event>> = t
      /\ \A n \in 1 .. k : t[n] = s[n]
    BY OneAppended
<1> HIDE DEF t
<1>2. ASSUME NEW n \in 1 .. k + 1, \A m \in 1 .. k + 1 : n < m => t[m].kind # "complete"
      PROVE  n = k + 1
    <2>1. k + 1 \in 1 .. k + 1 /\ ~(n < k + 1)
        BY <1>1, <1>2
    <2>2. QED
        BY <1>1, <2>1
<1>3. Newest(t, shot, rec, how)
    BY <1>1, <1>2 DEF Newest
<1>4. ASSUME Silent(s), NEW n \in 1 .. k + 1, t[n].kind = "complete" PROVE n = k + 1
    <2>1. n \in 1 .. k => FALSE
        BY <1>1, <1>4 DEF Silent
    <2>2. QED
        BY <1>1, <2>1
<1>5. Silent(s) => Single(t)
    BY <1>1, <1>4 DEF Single
<1>6. QED
    BY <1>1, <1>3, <1>5

-----------------------------------------------------------------------------
\* The images still to come.
Ahead(d, g) == IF d.state = "decoding" THEN d.header.at < g.at ELSE d.lo <= g.at

\* None of which something is heard can end before the audio does.
Slow(d, rec, upto, j) ==
    \A g \in rec.headers : Ahead(d, g) /\ Syncs(rec, g) # {} => upto + j <= LineAt(g, Lines)

\* What a caller that is not flooded with audio sees of the first n rounds.
Calm(n, x, rec, upto, j) ==
    /\ Single(x.events) /\ Slow(x, rec, upto, j)
    /\ x.hi < upto => /\ x.state = "decoding" => Silent(x.events) /\ n = 0
                      /\ n >= 1 => rec.headers # {}
                      /\ n <= 1
    /\ ~(x.hi < upto) => n >= 1 /\ x.hi = upto /\ Prompt(x, rec, j)

\* A round without the end of an image, for such a caller.
LEMMA QuietCalm ==
    ASSUME NEW n \in Nat, NEW x, NEW rec, NEW upto \in Int, NEW j \in Nat, \A h \in rec.headers : h.at \in Nat,
           Calm(n, x, rec, upto, j), NEW y, NEW off, ~off, Quiet(x, y, upto, off, rec, j),
           x.state \in {"idle", "decoding"}, y.state \in {"idle", "decoding"},
           x.lo \in Int, x.state = "decoding" => x.header.at \in Nat, y.state = "decoding" => y.header.at \in Nat
    PROVE  Calm(n + 1, y, rec, upto, j)
PROOF
<1>1. ASSUME NEW g \in rec.headers, Ahead(y, g) PROVE Ahead(x, g)
    <2>1. g.at \in Nat
        OBVIOUS
    <2>2. CASE y.state = "decoding" /\ x.state = "decoding"
        BY <1>1, <2>2 DEF Ahead, Quiet
    <2>3. CASE y.state = "decoding" /\ x.state = "idle"
        <3>1. x.lo <= y.header.at /\ y.header.at < g.at
            BY <1>1, <2>3 DEF Ahead, Quiet
        <3>2. x.lo <= g.at
            BY <2>1, <2>3, <3>1
        <3>3. QED
            BY <2>3, <3>2 DEF Ahead
    <2>4. CASE y.state = "idle"
        <3>1. x.state = "idle" /\ y.lo \in Int /\ x.lo <= y.lo /\ y.lo <= g.at
            BY <1>1, <2>4 DEF Ahead, Quiet
        <3>2. x.lo <= g.at
            BY <2>1, <3>1
        <3>3. QED
            BY <3>1, <3>2 DEF Ahead
    <2>5. QED
        BY <2>2, <2>3, <2>4
<1>2. Slow(y, rec, upto, j)
    BY <1>1 DEF Calm, Slow
<1>3. Single(y.events)
    BY MoreEvents DEF Calm, Quiet
<1>4. y.hi = upto /\ Prompt(y, rec, j)
    BY DEF Quiet
<1>5. ~(y.hi < upto) /\ n + 1 >= 1
    BY <1>4
<1>6. QED
    BY <1>2, <1>3, <1>4, <1>5 DEF Calm

\* A round at whose end an image is complete, for such a caller.
LEMMA EndedCalm ==
    ASSUME NEW n \in Nat, NEW x, NEW rec, NEW upto \in Int, NEW j \in Nat, \A h \in rec.headers : h.at \in Nat,
           Calm(n, x, rec, upto, j), NEW y, NEW how, NEW h, Ended(x, y, upto, how, rec, j, h),
           x.state \in {"idle", "decoding"}, x.hi < upto
    PROVE  Calm(n + 1, y, rec, upto, j)
PROOF
<1>1. h \in rec.headers /\ h.at \in Nat /\ y.state = "idle" /\ y.lo = y.hi /\ y.lo \in Int /\ y.hi <= upto /\ h.at < y.lo
    BY DEF Ended
<1>2. x.state = "decoding" /\ h = x.header
    <2>1. x.state = "idle" => Ahead(x, h)
        BY DEF Ended, Ahead
    <2>2. LineAt(h, Lines) < upto + j /\ Syncs(rec, h) # {}
        BY DEF Ended
    <2>3. LineAt(h, Lines) \in Int
        BY <1>1, LastLineIs
    <2>4. x.state = "idle" => upto + j <= LineAt(h, Lines)
        BY <1>1, <2>1, <2>2 DEF Calm, Slow
    <2>5. x.state # "idle"
        BY <2>2, <2>3, <2>4
    <2>6. QED
        BY <2>5 DEF Ended
<1>3. n = 0 /\ Silent(x.events)
    BY <1>2 DEF Calm
<1>4. Slow(y, rec, upto, j)
    <2>1. ASSUME NEW g \in rec.headers, Ahead(y, g) PROVE Ahead(x, g)
        <3>1. g.at \in Nat /\ y.lo <= g.at
            BY <1>1, <2>1 DEF Ahead
        <3>2. h.at < g.at
            BY <1>1, <3>1
        <3>3. QED
            BY <1>2, <3>2 DEF Ahead
    <2>2. QED
        BY <2>1 DEF Calm, Slow
<1>5. Single(y.events)
    <2>1. PICK s, event : /\ GoesOn(x.events, s) /\ y.events = s \o <<event>>
                          /\ event.kind = "complete" /\ event.header = h
        BY DEF Ended
    <2>2. Shot(y.snapshot, rec, event.header, how)
        BY <2>1 DEF Ended
    <2>3. IsSequence(s) /\ Silent(s)
        BY <1>3, <2>1, MoreEvents DEF GoesOn
    <2>4. QED
        BY <2>1, <2>2, <2>3, LastEvent
<1>6. Prompt(y, rec, j)
    <2>1. ASSUME NEW g \in rec.headers, y.lo <= g.at PROVE ~(g.at + VisLength <= y.hi)
        <3>1. g.at \in Nat /\ VisLength \in Nat \ {0}
            BY DecoderSizes
        <3>2. PICK lo \in Int : lo = y.lo
            BY <1>1
        <3>3. y.hi = lo /\ lo <= g.at
            BY <1>1, <2>1, <3>2
        <3>4. QED
            BY <3>1, <3>2, <3>3
    <2>2. QED
        BY <1>1, <2>1 DEF Prompt
<1>7. ~(y.hi < upto) => y.hi = upto
    BY <1>1
<1>8. n + 1 >= 1 /\ n + 1 <= 1 /\ rec.headers # {}
    BY <1>1, <1>3
<1>9. QED
    BY <1>1, <1>4, <1>5, <1>6, <1>7, <1>8 DEF Calm

\* What a feed of decoder d leads to.
FeedGives(d, fed, how, upto, off, rec, j) ==
    /\ Entire(fed, how, rec, j) /\ Newest(fed.events, fed.snapshot, rec, how)
    /\ off => Silent(fed.events)
    /\ ~off /\ d.hi < upto /\ Slow(d, rec, upto, j) => Single(fed.events) /\ fed.hi = upto /\ Prompt(fed, rec, j)

\* All rounds of a feed.
LEMMA FeedEnds ==
    ASSUME NEW a, NEW d, NEW inc \in BOOLEAN, NEW how, how = (IF inc THEN "rows" ELSE "batch"),
           NEW upto \in Int, Follows(a, d, how, upto), d.events = <<>>, NEW off,
           NEW rec, NEW j \in Nat, AllReadable(rec, j), Separate(rec, j), IsFiniteSet(rec.headers),
           Proper(d, how, rec, j), Entire(d, how, rec, j)
    PROVE  FeedGives(d, Feed(d, rec, upto, inc, off), how, upto, off, rec, j)
PROOF
<1> DEFINE k == Cardinality(rec.headers) + 1
           seq == [n \in 1 .. k |-> n]
           call == [rec |-> rec, upto |-> upto, inc |-> inc, off |-> off]
           fed == AllFed(call, d, seq)
           slow == ~off /\ d.hi < upto /\ Slow(d, rec, upto, j)
           Good(n, x) == /\ Follows(a, x, how, upto) /\ Proper(x, how, rec, j) /\ Entire(x, how, rec, j)
                         /\ Newest(x.events, x.snapshot, rec, how)
                         /\ off => Silent(x.events)
                         /\ slow => Calm(n, x, rec, upto, j)
<1>0. \A h \in rec.headers : h.at \in Nat
    BY DEF AllReadable
<1>1. Cardinality(rec.headers) \in Nat /\ k \in Nat /\ k >= 1 /\ (rec.headers # {} => k >= 2)
    <2>1. Cardinality(rec.headers) \in Nat
        BY FS_CardinalityType
    <2>2. rec.headers # {} => Cardinality(rec.headers) # 0
        BY FS_EmptySet
    <2>3. QED
        BY <2>1, <2>2
<1>2. Feed(d, rec, upto, inc, off) = fed
    BY DEF Feed, AllFed, FeedRound, FoldLeft, MapThenFoldSet
<1>a. call.rec = rec /\ call.upto = upto /\ call.inc = inc /\ call.off = off
    OBVIOUS
<1> HIDE DEF k, call
<1>3. Spans(seq, k)
    BY <1>1 DEF Spans
<1> HIDE DEF seq
<1>4. PICK v : /\ v[0] = d /\ v[k] = fed
               /\ \A n \in 1 .. k : v[n] = FeedRound(v[n - 1], call)
    BY <1>3, AgainUnrolls
<1> HIDE DEF fed
<1>5. ASSUME NEW n \in Nat, NEW x, Good(n, x), x.hi < upto
      PROVE  Good(n + 1, FeedOnce(x, rec, upto, inc, off))
    <2> DEFINE y == FeedOnce(x, rec, upto, inc, off)
    <2>1. Follows(a, y, how, upto)
        BY <1>0, <1>5, FeedOnceFollows
    <2>2. Proper(y, how, rec, j)
        BY <1>5, FeedOnceProper
    <2>3. /\ Entire(y, how, rec, j)
          /\ Quiet(x, y, upto, off, rec, j) \/ (~off /\ \E h : Ended(x, y, upto, how, rec, j, h))
        BY <1>5, RoundEnds
    <2> HIDE DEF y
    <2>4. /\ x.state \in {"idle", "decoding"} /\ y.state \in {"idle", "decoding"} /\ x.lo \in Int
          /\ x.state = "decoding" => x.header.at \in Nat
          /\ y.state = "decoding" => y.header.at \in Nat
        BY <1>5, <2>1 DEF Follows, Hears
    <2>5. ASSUME Quiet(x, y, upto, off, rec, j) PROVE Good(n + 1, y)
        <3>1. /\ Newest(y.events, x.snapshot, rec, how) /\ y.snapshot = x.snapshot
              /\ off => Silent(y.events)
            BY <1>5, <2>5, MoreEvents DEF Quiet
        <3>2. slow => Calm(n + 1, y, rec, upto, j)
            BY <1>0, <1>5, <2>4, <2>5, QuietCalm
        <3>3. QED
            BY <2>1, <2>2, <2>3, <3>1, <3>2
    <2>6. ASSUME NEW h, ~off, Ended(x, y, upto, how, rec, j, h) PROVE Good(n + 1, y)
        <3>1. PICK s, event : /\ GoesOn(x.events, s) /\ y.events = s \o <<event>>
                              /\ event.kind = "complete" /\ event.header = h
            BY <2>6 DEF Ended
        <3>2. Shot(y.snapshot, rec, event.header, how) /\ IsSequence(s)
            BY <2>6, <3>1 DEF Ended, GoesOn
        <3>3. Newest(y.events, y.snapshot, rec, how)
            BY <3>1, <3>2, LastEvent
        <3>4. slow => Calm(n + 1, y, rec, upto, j)
            BY <1>0, <1>5, <2>4, <2>6, EndedCalm
        <3>5. QED
            BY <2>1, <2>2, <2>3, <2>6, <3>3, <3>4
    <2> HIDE DEF Good
    <2>7. QED
        BY <2>3, <2>5, <2>6 DEF y
<1>6. Good(0, d)
    <2>1. \A n \in 1 .. Len(d.events) : FALSE
        BY EmptySequence
    <2>2. Silent(d.events) /\ Single(d.events) /\ Newest(d.events, d.snapshot, rec, how)
        BY <2>1 DEF Silent, Single, Newest
    <2>3. slow => Calm(0, d, rec, upto, j)
        BY <2>2 DEF Calm
    <2>4. QED
        BY <2>2, <2>3
<1>7. ASSUME NEW n \in Nat, NEW x, Good(n, x), ~(x.hi < upto) PROVE Good(n + 1, x)
    <2>1. slow => Calm(n + 1, x, rec, upto, j)
        BY <1>7 DEF Calm
    <2>2. QED
        BY <1>7, <2>1
<1> DEFINE S == {n \in Nat : n <= k => Good(n, v[n])}
<1> HIDE DEF Good
<1>8. 0 \in S
    BY <1>4, <1>6
<1>9. ASSUME NEW n \in Nat, n \in S PROVE n + 1 \in S
    <2> SUFFICES ASSUME n + 1 <= k PROVE Good(n + 1, v[n + 1])
        OBVIOUS
    <2>1. n + 1 \in 1 .. k /\ (n + 1) - 1 = n /\ Good(n, v[n])
        BY <1>1, <1>9
    <2>2. v[n + 1] = FeedRound(v[n], call)
        BY <1>4, <2>1
    <2>3. CASE v[n].hi < upto
        <3>1. v[n + 1] = FeedOnce(v[n], rec, upto, inc, off)
            BY <1>a, <2>2, <2>3 DEF FeedRound
        <3>2. QED
            BY <1>5, <2>1, <2>3, <3>1
    <2>4. CASE ~(v[n].hi < upto)
        <3>1. v[n + 1] = v[n]
            BY <1>a, <2>2, <2>4 DEF FeedRound
        <3>2. QED
            BY <1>7, <2>1, <2>4, <3>1
    <2>5. QED
        BY <2>3, <2>4
<1> HIDE DEF S
<1>10. k \in S
    BY <1>1, <1>8, <1>9, Inductive
<1>11. Good(k, fed)
    BY <1>1, <1>4, <1>10 DEF S
<1>12. slow => Single(fed.events) /\ fed.hi = upto /\ Prompt(fed, rec, j)
    <2>1. slow => Calm(k, fed, rec, upto, j)
        BY <1>11 DEF Good
    <2>2. slow => ~(fed.hi < upto)
        <3>1. slow /\ fed.hi < upto => k <= 1 /\ rec.headers # {}
            BY <1>1, <2>1 DEF Calm
        <3>2. ~(k >= 2 /\ k <= 1)
            BY <1>1
        <3>3. QED
            BY <1>1, <3>1, <3>2
    <2>3. QED
        BY <2>1, <2>2 DEF Calm
<1>13. QED
    BY <1>2, <1>11, <1>12 DEF Good, FeedGives

-----------------------------------------------------------------------------
(* The worker: what it keeps of a finished image is of that image.         *)

\* What is kept has the image's header first, and its last line if strict.
RecordingsRight(s, rec, strict) ==
    /\ IsSequence(s)
    /\ \A k \in 1 .. Len(s) :
          /\ FirstHeader(rec, s[k].lo, s[k].hi) = s[k].header
          /\ strict => s[k].header.at + VisLength + (Lines - 1) * Period <= s[k].hi
FinalsRight(s) == \A k \in 1 .. Len(s) : s[k].final = s[k].header
Shows(w, rec, strict) == RecordingsRight(w.recordings, rec, strict) /\ FinalsRight(w.saved)

\* Audio handed over in time leaves no image still to come the time to end.
LEMMA PromptIsSlow ==
    ASSUME NEW d, NEW how, NEW from \in Int, Hears(d, how, from), NEW upto \in Int,
           NEW rec, NEW j \in Nat, AllReadable(rec, j), Separate(rec, j), Proper(d, how, rec, j),
           Prompt(d, rec, j), upto + j <= d.hi + (Lines - 1) * Period
    PROVE  Slow(d, rec, upto, j)
PROOF
<1> SUFFICES ASSUME NEW g \in rec.headers, Ahead(d, g), NEW c \in Syncs(rec, g)
             PROVE  upto + j <= LineAt(g, Lines)
    BY DEF Slow
<1>1. g.at \in Nat /\ Readable(rec, g, j) /\ d.hi \in Int /\ d.state \in {"idle", "decoding"}
    BY DEF AllReadable, Separate, Hears
<1>2. c \in Int /\ c \in rec.pulses /\ g.at + VisLength <= c /\ j <= VisLength /\ VisLength \in Nat
    BY <1>1, DecoderSizes DEF Syncs, Readable
<1>3. d.hi < g.at + VisLength
    <2>1. CASE d.state = "idle"
        <3>1. ~(g.at + VisLength <= d.hi)
            BY <2>1 DEF Prompt, Ahead
        <3>2. QED
            BY <1>1, <1>2, <3>1
    <2>2. CASE d.state = "decoding"
        <3> DEFINE h == d.header
        <3>1. h \in rec.headers /\ h.at < g.at
            BY <2>2 DEF Proper, ImageRight, Ahead
        <3>2. h.at \in Nat /\ Readable(rec, h, j) /\ h # g /\ j < Ready(h.family) /\ Before(h.family) + Ready(h.family) <= Period
            BY <3>1 DEF AllReadable, Separate
        <3>3. h.at + VisLength + Lines * Period <= g.at
            BY <1>1, <3>1, <3>2 DEF Separate
        <3>4. /\ (Lines - 1) * Period \in Nat /\ LineAt(h, Lines) \in Int
              /\ (Lines - 1) * Period + Period = Lines * Period
              /\ LineAt(h, Lines) = h.at + VisLength + Before(h.family) + (Lines - 1) * Period
            BY <3>2, LastLineIs
        <3>5. PICK b \in Nat, r \in Nat : b = Before(h.family) /\ r = Ready(h.family)
            BY <3>2, ChannelsOf DEF Readable
        <3>6. PICK m \in Nat, p \in Nat, x \in Nat, v \in Nat, l \in Int :
                  m = (Lines - 1) * Period /\ p = Period /\ x = h.at /\ v = VisLength /\ l = LineAt(h, Lines)
            BY <1>2, <3>2, <3>4, DecoderSizes
        <3>7. x + v + (m + p) <= g.at /\ l = x + v + b + m /\ b + r <= p /\ j < r
            BY <3>2, <3>3, <3>4, <3>5, <3>6
        <3>8. l + j < g.at /\ l + r <= g.at /\ x + v <= g.at
            BY <1>1, <3>7
        <3>9. c \in Syncs(rec, h) /\ Behind(h, c, j)
            <4>1. x + v <= c /\ l + j < c
                BY <1>1, <1>2, <3>8
            <4>2. QED
                BY <1>2, <3>6, <4>1 DEF Syncs, Behind
        <3>10. HeardWell(h, Syncs(rec, h), j)
            BY <3>2, <3>9 DEF Readable, OfImage
        <3>11. ~(l + j + r <= d.hi)
            BY <2>2, <3>5, <3>6, <3>10 DEF Prompt
        <3>12. QED
            BY <1>1, <1>2, <3>8, <3>11
    <2>3. QED
        BY <1>1, <2>1, <2>2
<1>4. /\ (Lines - 1) * Period \in Nat /\ Before(g.family) \in Nat
      /\ LineAt(g, Lines) = g.at + VisLength + Before(g.family) + (Lines - 1) * Period
    BY <1>1, LastLineIs, ChannelsOf DEF Readable
<1>5. PICK m \in Nat, b \in Nat : m = (Lines - 1) * Period /\ b = Before(g.family)
    BY <1>4
<1>6. upto + j <= d.hi + m /\ LineAt(g, Lines) = g.at + VisLength + b + m
    BY <1>4, <1>5
<1>7. QED
    BY <1>1, <1>2, <1>3, <1>6

\* The second decode puts no other image in the place of the first.
LEMMA FinalIs ==
    ASSUME NEW e, NEW raw, NEW rec, rec = audio, e.header.family # "none",
           raw.hi = raw.lo \/ FirstHeader(rec, raw.lo, raw.hi) = e.header
    PROVE  Final(e, raw) = e.header
PROOF
<1> DEFINE again == DecodeWav(audio, raw.lo, raw.hi)
<1>1. raw.hi = raw.lo => Final(e, raw) = e.header
    BY DEF Final
<1>2. ASSUME ~(raw.hi = raw.lo) PROVE again = e.header \/ again = Nothing
    <2>1. again = DecodeHeader(e.header, audio, raw.hi)
        BY <1>2 DEF DecodeWav
    <2>2. QED
        BY <2>1 DEF DecodeHeader, DecodeFrom, IfWhole
<1>3. Nothing.family = "none"
    BY DEF Nothing
<1> HIDE DEF again
<1>4. Final(e, raw) = e.header \/ (Final(e, raw) = again /\ again.family = e.header.family)
    BY DEF Final, again
<1>5. QED
    BY <1>1, <1>2, <1>3, <1>4

\* One image more that is its own.
LEMMA OneFinalMore ==
    ASSUME NEW s, IsSequence(s), FinalsRight(s), NEW image, image.final = image.header
    PROVE  FinalsRight(Append(s, image))
PROOF
<1> DEFINE t == Append(s, image)
           k == Len(s)
<1>1. k \in Nat /\ Len(t) = k + 1 /\ t[k + 1] = image /\ \A n \in 1 .. k : t[n] = s[n]
    BY OneAppended
<1> HIDE DEF t, k
<1>2. ASSUME NEW n \in 1 .. k + 1 PROVE t[n].final = t[n].header
    <2>1. n = k + 1 \/ n \in 1 .. k
        BY <1>1
    <2>2. QED
        BY <1>1, <2>1 DEF FinalsRight, k
<1>3. QED
    BY <1>1, <1>2 DEF FinalsRight, t

\* One recording more.
LEMMA OneRecordingMore ==
    ASSUME NEW s, NEW rec, NEW strict, RecordingsRight(s, rec, strict), NEW r, NEW how,
           r.hi # r.lo, Shot(r, rec, r.header, how), strict => how = "rows"
    PROVE  RecordingsRight(Append(s, r), rec, strict)
PROOF
<1> DEFINE t == Append(s, r)
           k == Len(s)
           Fine(x) == /\ FirstHeader(rec, x.lo, x.hi) = x.header
                      /\ strict => x.header.at + VisLength + (Lines - 1) * Period <= x.hi
<1>1. IsSequence(t) /\ k \in Nat /\ Len(t) = k + 1 /\ t[k + 1] = r /\ \A n \in 1 .. k : t[n] = s[n]
    BY OneAppended DEF RecordingsRight
<1>2. Fine(r)
    BY DEF Shot
<1>3. \A n \in 1 .. k : Fine(s[n])
    BY DEF RecordingsRight
<1> HIDE DEF t, k, Fine
<1>4. ASSUME NEW n \in 1 .. k + 1 PROVE Fine(t[n])
    <2>1. n = k + 1 \/ n \in 1 .. k
        BY <1>1
    <2>2. QED
        BY <1>1, <1>2, <1>3, <2>1
<1>5. QED
    BY <1>1, <1>4 DEF RecordingsRight, Fine, t

\* All the events that end an image are of that of the audio kept.
AllShot(s, shot, rec, how) == \A n \in 1 .. Len(s) : s[n].kind = "complete" => Shot(shot, rec, s[n].header, how)

\* So it is when they end only one.
LEMMA ShotOfAll ==
    ASSUME NEW s, NEW shot, NEW rec, NEW how, Newest(s, shot, rec, how), Single(s), Len(s) \in Nat
    PROVE  AllShot(s, shot, rec, how)
PROOF
<1> SUFFICES ASSUME NEW n \in 1 .. Len(s), s[n].kind = "complete" PROVE Shot(shot, rec, s[n].header, how)
    BY DEF AllShot
<1>1. ASSUME NEW m \in 1 .. Len(s), n < m, s[m].kind = "complete" PROVE FALSE
    <2>1. m = n
        BY <1>1 DEF Single
    <2>2. QED
        BY <1>1, <2>1
<1>2. QED
    BY <1>1 DEF Newest

\* An event, for a worker whose decoder keeps the audio of the image it ends.
LEMMA EventShows ==
    ASSUME NEW w, NEW a, NEW e, NEW b, NEW d, Hearing(w, a, d), Comes(a, e, b),
           NEW rec, rec = audio, NEW j, NEW how, NEW strict, Shows(w, rec, strict), EventRight(e, rec, j),
           e.kind = "complete" => Shot(w.decoder.snapshot, rec, e.header, how), strict => how = "rows"
    PROVE  LET x == Dispatch(w, e)
           IN  /\ Shows(x, rec, strict) /\ x.scratch = w.scratch
               /\ x.decoder.snapshot = w.decoder.snapshot \/ x.decoder.snapshot = [lo |-> 0, hi |-> 0]
PROOF
<1>1. IsRecord(w, WorkerFields) /\ IsSequence(w.saved) /\ IsRecord(w.decoder, DecoderFields)
    BY DEF Hearing, ImagesOnce, SameDecoder
<1>2. CASE e.kind = "started"
    <2> DEFINE x == [w EXCEPT !.decoding = TRUE, !.mode = e.header, !.age = 0, !.quiet = 0,
                              !.lines = 0, !.partial = <<>>]
    <2>1. x.recordings = w.recordings /\ x.saved = w.saved /\ x.scratch = w.scratch /\ x.decoder = w.decoder
        BY <1>1 DEF IsRecord, WorkerFields
    <2>2. Dispatch(w, e) = x
        BY <1>2 DEF Dispatch
    <2> HIDE DEF x
    <2>3. QED
        BY <2>1, <2>2 DEF Shows
<1>3. CASE e.kind = "progress"
    <2> DEFINE x == [w EXCEPT !.quiet = 0, !.lines = e.count, !.partial = e.rows]
    <2>1. x.recordings = w.recordings /\ x.saved = w.saved /\ x.scratch = w.scratch /\ x.decoder = w.decoder
        BY <1>1 DEF IsRecord, WorkerFields
    <2>2. Dispatch(w, e) = x
        BY <1>3 DEF Dispatch
    <2> HIDE DEF x
    <2>3. QED
        BY <2>1, <2>2 DEF Shows
<1>4. CASE e.kind = "complete"
    <2> DEFINE raw == w.decoder.snapshot
               image == [header |-> e.header, rows |-> e.rows, whole |-> TRUE, final |-> Final(e, raw)]
               r == [header |-> e.header, lo |-> raw.lo, hi |-> raw.hi]
               kept == [w EXCEPT !.decoding = FALSE, !.decoder.snapshot = [lo |-> 0, hi |-> 0],
                                 !.saved = Append(@, image),
                                 !.recordings = IF raw.hi = raw.lo THEN @ ELSE Append(@, r)]
               inner == [w.decoder EXCEPT !.snapshot = [lo |-> 0, hi |-> 0]]
               x == ResetWatchdog(kept)
    <2>1. Dispatch(w, e) = x
        BY <1>4 DEF Dispatch
    <2>2. Shot(raw, rec, e.header, how)
        BY <1>4
    <2>3. e.header.family # "none"
        BY DEF EventRight, RowsAre
    <2>4. Final(e, raw) = e.header
        BY <2>2, <2>3, FinalIs DEF Shot
    <2>5. image.final = image.header
        BY <2>4
    <2>6. r.header = e.header /\ r.lo = raw.lo /\ r.hi = raw.hi
        OBVIOUS
    <2>7. inner.snapshot = [lo |-> 0, hi |-> 0]
        BY <1>1 DEF IsRecord, DecoderFields
    <2> HIDE DEF image, r, raw
    <2>8. /\ IsRecord(kept, WorkerFields) /\ kept.decoding = FALSE /\ kept.saved = Append(w.saved, image)
          /\ kept.recordings = (IF raw.hi = raw.lo THEN w.recordings ELSE Append(w.recordings, r))
          /\ kept.scratch = w.scratch /\ kept.decoder = inner
        BY <1>1 DEF IsRecord, WorkerFields
    <2> HIDE DEF kept, inner
    <2>9. /\ x.saved = kept.saved /\ x.recordings = kept.recordings /\ x.scratch = kept.scratch
          /\ x.decoder = kept.decoder
        BY <2>8, WatchdogReset
    <2> HIDE DEF x
    <2>10. FinalsRight(x.saved)
        BY <1>1, <2>5, <2>8, <2>9, OneFinalMore DEF Shows
    <2>11. RecordingsRight(x.recordings, rec, strict)
        <3>1. CASE raw.hi = raw.lo
            BY <2>8, <2>9, <3>1 DEF Shows
        <3>2. CASE raw.hi # raw.lo
            <4>1. Shot(r, rec, r.header, how)
                BY <2>2, <2>6 DEF Shot
            <4>2. RecordingsRight(Append(w.recordings, r), rec, strict)
                BY <2>6, <3>2, <4>1, OneRecordingMore DEF Shows
            <4>3. QED
                BY <2>8, <2>9, <3>2, <4>2
        <3>3. QED
            BY <3>1, <3>2
    <2>12. QED
        BY <2>1, <2>7, <2>8, <2>9, <2>10, <2>11 DEF Shows
<1>5. e.kind \in {"started", "progress", "complete"}
    BY DEF Comes
<1>6. QED
    BY <1>2, <1>3, <1>4, <1>5

-----------------------------------------------------------------------------
\* All events of a flush.
LEMMA EventsShow ==
    ASSUME NEW a, NEW d, NEW w, NEW how, NEW upto, Follows(a, d, how, upto), Hearing(w, a, d),
           NEW rec, rec = audio, NEW j, EventsRight(d.events, rec, j),
           NEW strict, strict => how = "rows", Shows(w, rec, strict),
           AllShot(d.events, w.decoder.snapshot, rec, how)
    PROVE  LET all == AllDispatched(w, d.events)
           IN  Shows(all, rec, strict) /\ all.scratch = w.scratch
PROOF
<1> DEFINE ev == d.events
           k == Len(ev)
           all == AllDispatched(w, ev)
           Kept(x) == \A n \in 1 .. k : ev[n].kind = "complete" => Shot(x.decoder.snapshot, rec, ev[n].header, how)
<1>1. k \in Nat /\ DOMAIN ev = 1 .. k
    BY OneAppended DEF Follows, Hears
<1>2. Spans(ev, k)
    BY <1>1 DEF Spans
<1>3. PICK tr : /\ tr[0] = a
                /\ \A n \in 1 .. k : Comes(tr[n - 1], ev[n], tr[n])
    BY DEF Follows, Told
<1>3a. \A n \in 1 .. k : EventRight(ev[n], rec, j)
    BY DEF EventsRight
<1>3b. Kept(w)
    BY DEF AllShot
<1> HIDE DEF k, ev
<1>4. PICK v : v[0] = w /\ v[k] = all /\ \A n \in 1 .. k : v[n] = Dispatch(v[n - 1], ev[n])
    BY <1>2, DispatchUnrolls
<1> HIDE DEF all
<1>5. ASSUME NEW x, NEW y, Kept(x),
             y.decoder.snapshot = x.decoder.snapshot \/ y.decoder.snapshot = [lo |-> 0, hi |-> 0]
      PROVE  Kept(y)
    <2>1. CASE y.decoder.snapshot = x.decoder.snapshot
        BY <1>5, <2>1
    <2>2. CASE y.decoder.snapshot = [lo |-> 0, hi |-> 0]
        BY <2>2 DEF Shot
    <2>3. QED
        BY <1>5, <2>1, <2>2
<1> DEFINE Good(n) == /\ Hearing(v[n], tr[n], d) /\ Shows(v[n], rec, strict) /\ v[n].scratch = w.scratch
                      /\ Kept(v[n])
           S == {n \in Nat : n <= k => Good(n)}
<1> HIDE DEF Kept
<1>6. 0 \in S
    BY <1>3, <1>3b, <1>4
<1>7. ASSUME NEW n \in Nat, n \in S PROVE n + 1 \in S
    <2> SUFFICES ASSUME n + 1 <= k PROVE Good(n + 1)
        OBVIOUS
    <2>1. n + 1 \in 1 .. k /\ (n + 1) - 1 = n /\ Good(n)
        BY <1>1, <1>7
    <2>2. /\ v[n + 1] = Dispatch(v[n], ev[n + 1]) /\ Comes(tr[n], ev[n + 1], tr[n + 1])
          /\ EventRight(ev[n + 1], rec, j)
        BY <1>3, <1>3a, <1>4, <2>1
    <2>3. Hearing(v[n + 1], tr[n + 1], d)
        BY <2>1, <2>2, EventHeard
    <2>4. ev[n + 1].kind = "complete" => Shot(v[n].decoder.snapshot, rec, ev[n + 1].header, how)
        BY <2>1 DEF Kept
    <2>5. /\ Shows(v[n + 1], rec, strict) /\ v[n + 1].scratch = v[n].scratch
          /\ v[n + 1].decoder.snapshot = v[n].decoder.snapshot \/ v[n + 1].decoder.snapshot = [lo |-> 0, hi |-> 0]
        <3> DEFINE x == v[n]
                   e == ev[n + 1]
                   t == tr[n]
                   u == tr[n + 1]
        <3>1. /\ Hearing(x, t, d) /\ Comes(t, e, u) /\ Shows(x, rec, strict) /\ EventRight(e, rec, j)
              /\ e.kind = "complete" => Shot(x.decoder.snapshot, rec, e.header, how)
            BY <2>1, <2>2, <2>4
        <3> HIDE DEF x, e, t, u
        <3>2. LET y == Dispatch(x, e)
              IN  /\ Shows(y, rec, strict) /\ y.scratch = x.scratch
                  /\ y.decoder.snapshot = x.decoder.snapshot \/ y.decoder.snapshot = [lo |-> 0, hi |-> 0]
            BY <3>1, EventShows
        <3>3. QED
            BY <2>2, <3>2 DEF x, e
    <2>6. Kept(v[n + 1])
        BY <1>5, <2>1, <2>5
    <2>7. QED
        BY <2>1, <2>3, <2>5, <2>6
<1> HIDE DEF S
<1>8. k \in S
    BY <1>1, <1>6, <1>7, Inductive
<1>9. QED
    BY <1>1, <1>4, <1>8 DEF S, all, ev

\* Time passes.
LEMMA OlderShows ==
    ASSUME NEW w, IsRecord(w, WorkerFields), NEW n, NEW rec, NEW strict, Shows(w, rec, strict)
    PROVE  Shows(Older(w, n), rec, strict) /\ Older(w, n).scratch = w.scratch /\ Older(w, n).decoder = w.decoder
PROOF
<1>1. ASSUME NEW t, NEW q
      PROVE  LET x == [w EXCEPT !.age = t, !.quiet = q]
             IN  Shows(x, rec, strict) /\ x.scratch = w.scratch /\ x.decoder = w.decoder
    <2> DEFINE x == [w EXCEPT !.age = t, !.quiet = q]
    <2>1. x.recordings = w.recordings /\ x.saved = w.saved /\ x.scratch = w.scratch /\ x.decoder = w.decoder
        BY DEF IsRecord, WorkerFields
    <2> HIDE DEF x
    <2>2. Shows(x, rec, strict)
        BY <2>1 DEF Shows
    <2>3. QED
        BY <2>1, <2>2 DEF x
<1>2. QED
    BY <1>1, Zenon DEF Older

\* A decoder without an image.
LEMMA FreshShows ==
    ASSUME NEW x, NEW p \in Int, Fresh(x, p), NEW rec, NEW j \in Nat, AllReadable(rec, j), NEW how
    PROVE  Entire(x, how, rec, j) /\ Prompt(x, rec, j) /\ x.hi = p
PROOF
<1>1. x.state = "idle" /\ x.lo = p /\ x.hi = p /\ x.shown = 0
    BY DEF Fresh
<1>2. Entire(x, how, rec, j)
    <2>1. 0 < Lines
        BY Sizes
    <2>2. QED
        BY <1>1, <2>1 DEF Entire
<1>3. ASSUME NEW g \in rec.headers, p <= g.at PROVE ~(g.at + VisLength <= p)
    <2>1. g.at \in Nat /\ VisLength \in Nat \ {0}
        BY DecoderSizes DEF AllReadable
    <2>2. QED
        BY <1>3, <2>1
<1>4. QED
    BY <1>1, <1>2, <1>3 DEF Prompt

\* The watchdog.
LEMMA WatchdogShows ==
    ASSUME NEW w, NEW how, NEW upto \in Int, WorkerOk(w, how, upto), NEW rec, NEW strict, Shows(w, rec, strict)
    PROVE  LET x == CheckWatchdog(w)
           IN  /\ Shows(x, rec, strict) /\ x.scratch = w.scratch
               /\ x.decoder = w.decoder \/ Fresh(x.decoder, w.decoder.hi)
PROOF
<1> DEFINE image == [header |-> w.mode, rows |-> w.partial, whole |-> FALSE, final |-> w.mode]
           kept == IF w.lines = 0 THEN w ELSE [w EXCEPT !.saved = Append(@, image)]
           x == [kept EXCEPT !.decoder = ResetDecoder(@), !.decoding = FALSE]
           y == ResetWatchdog(x)
<1>1. CheckWatchdog(w) = w \/ CheckWatchdog(w) = y
    BY DEF CheckWatchdog
<1>2. image.final = image.header
    OBVIOUS
<1> HIDE DEF image
<1>3. IsRecord(w, WorkerFields) /\ IsSequence(w.saved) /\ w.decoder.events = <<>>
    BY DEF WorkerOk, ImagesOnce
<1>4. /\ IsRecord(kept, WorkerFields) /\ kept.decoder = w.decoder /\ kept.scratch = w.scratch
      /\ kept.recordings = w.recordings
      /\ kept.saved = w.saved \/ kept.saved = Append(w.saved, image)
    BY <1>3 DEF IsRecord, WorkerFields
<1> HIDE DEF kept
<1>5. /\ IsRecord(x, WorkerFields) /\ x.decoder = ResetDecoder(w.decoder) /\ x.scratch = w.scratch
      /\ x.recordings = w.recordings /\ x.saved = kept.saved
    BY <1>4 DEF IsRecord, WorkerFields
<1> HIDE DEF x
<1>6. y.decoder = x.decoder /\ y.saved = x.saved /\ y.recordings = x.recordings /\ y.scratch = x.scratch
    BY <1>5, WatchdogReset
<1> HIDE DEF y
<1>7. FinalsRight(Append(w.saved, image))
    BY <1>2, <1>3, OneFinalMore DEF Shows
<1>8. Shows(y, rec, strict)
    BY <1>4, <1>5, <1>6, <1>7 DEF Shows
<1>9. Fresh(y.decoder, w.decoder.hi)
    BY <1>3, <1>5, <1>6, FreshDecoder, Zenon
<1>10. QED
    BY <1>1, <1>5, <1>6, <1>8, <1>9

\* The decoder has its audio from the header on; a worker that has not been
\* asked to cancel is late with nothing.
Holds(d, from, how, off, rec, j) ==
    Entire(d, how, rec, j) /\ (~off => Prompt(d, rec, j) /\ d.hi = from)

\* A flush.
LEMMA FlushShows ==
    ASSUME IsFiniteSet(audio.headers), incremental \in BOOLEAN, NEW j \in Nat, AllReadable(audio, j), Separate(audio, j),
           NEW w, NEW from \in Int, NEW upto \in Int, from <= upto, WorkerOk(w, How(incremental), from),
           Proper(w.decoder, How(incremental), audio, j),
           Holds(w.decoder, w.scratch, How(incremental), cancel, audio, j),
           NEW strict, strict => incremental, Shows(w, audio, strict),
           ~cancel => upto + j <= w.scratch + (Lines - 1) * Period
    PROVE  LET x == Flush(w, upto)
           IN  /\ Shows(x, audio, strict) /\ x.scratch = upto
               /\ Holds(x.decoder, upto, How(incremental), cancel, audio, j)
PROOF
<1> DEFINE d == w.decoder
           how == How(incremental)
           fed == Feed(d, audio, upto, incremental, cancel)
           calm == [fed EXCEPT !.events = <<>>]
           first == [w EXCEPT !.decoder = calm, !.scratch = upto]
           next == AllDispatched(first, fed.events)
<1>0. \A h \in audio.headers : h.at \in Nat
    BY DEF AllReadable
<1>1. Hears(d, how, from) /\ d.events = <<>> /\ ImagesOnce(w.saved, Floor(d)) /\ Takes(w, d)
    BY DEF WorkerOk
<1>2. how = (IF incremental THEN "rows" ELSE "batch") /\ (strict => how = "rows")
    BY DEF How
<1>3. Flush(w, upto) = IF w.scratch = upto THEN w ELSE CheckWatchdog(next)
    BY DEF Flush, AllDispatched
<1>3a. Proper(d, how, audio, j) /\ Holds(d, w.scratch, how, cancel, audio, j)
    OBVIOUS
<1> HIDE DEF d, how
<1>4. CASE w.scratch = upto
    <2>1. Flush(w, upto) = w
        BY <1>3, <1>4
    <2>2. QED
        BY <1>3a, <1>4, <2>1 DEF d, how
<1>5. CASE ~(w.scratch = upto)
    <2>1. PICK a : /\ Agrees(a, d) /\ Follows(a, d, how, upto)
                   /\ a.floor = Floor(d) /\ a.state = d.state /\ a.header = d.header
        BY <1>1, BeginsToFollow
    <2>2. Follows(a, fed, how, upto)
        BY <1>0, <1>2, <2>1, FeedFollows
    <2>3. Proper(fed, how, audio, j)
        BY <1>2, <1>3a, <2>1, FeedProper
    <2>4. FeedGives(d, fed, how, upto, cancel, audio, j)
        <3>1. Entire(d, how, audio, j)
            BY <1>3a DEF Holds
        <3>2. QED
            BY <1>1, <1>2, <1>3a, <2>1, <3>1, FeedEnds
    <2>5. ~cancel => d.hi < upto /\ Slow(d, audio, upto, j)
        <3> SUFFICES ASSUME ~cancel PROVE d.hi < upto /\ Slow(d, audio, upto, j)
            OBVIOUS
        <3>1. Prompt(d, audio, j) /\ d.hi = w.scratch /\ upto + j <= d.hi + (Lines - 1) * Period
            BY <1>3a DEF Holds
        <3>2. d.hi \in Int /\ d.hi <= from
            BY <1>1 DEF Hears
        <3>3. d.hi < upto
            BY <1>5, <3>1, <3>2
        <3>4. Slow(d, audio, upto, j)
            BY <1>1, <1>3a, <3>1, PromptIsSlow
        <3>5. QED
            BY <3>3, <3>4
    <2> HIDE DEF fed
    <2>6. IsRecord(fed, DecoderFields) /\ Len(fed.events) \in Nat
        BY <2>2, OneAppended DEF Follows, Hears
    <2>7. SameDecoder(calm, fed) /\ calm.snapshot = fed.snapshot
        BY <2>6 DEF SameDecoder, IsRecord, DecoderFields
    <2> HIDE DEF calm
    <2>8. /\ IsRecord(first, WorkerFields) /\ first.decoder = calm /\ first.decoding = w.decoding
          /\ first.mode = w.mode /\ first.saved = w.saved /\ first.recordings = w.recordings /\ first.scratch = upto
        BY DEF WorkerOk, IsRecord, WorkerFields
    <2> HIDE DEF first
    <2>9. Hearing(first, a, fed)
        <3>1. Takes(first, a)
            BY <1>1, <2>1, <2>8 DEF Takes
        <3>2. QED
            BY <1>1, <2>1, <2>7, <2>8, <3>1 DEF Hearing
    <2>10. AllShot(fed.events, first.decoder.snapshot, audio, how)
        <3>1. CASE cancel
            BY <2>4, <3>1 DEF FeedGives, Silent, AllShot
        <3>2. CASE ~cancel
            BY <2>4, <2>5, <2>6, <2>7, <2>8, <3>2, ShotOfAll DEF FeedGives
        <3>3. QED
            BY <3>1, <3>2
    <2>11. Shows(next, audio, strict) /\ next.scratch = upto
        <3>1. Shows(first, audio, strict)
            BY <2>8 DEF Shows
        <3>2. EventsRight(fed.events, audio, j)
            BY <2>3 DEF Proper
        <3>3. LET all == AllDispatched(first, fed.events)
              IN  Shows(all, audio, strict) /\ all.scratch = first.scratch
            <4>1. strict => how = "rows"
                BY <1>2
            <4>2. QED
                BY <2>2, <2>9, <2>10, <3>1, <3>2, <4>1, EventsShow
        <3>4. QED
            BY <2>8, <3>3
    <2>12. PICK b : Agrees(b, fed) /\ Hearing(next, b, fed)
        BY <2>2, <2>9, AllHeard
    <2> HIDE DEF next
    <2>13. SameDecoder(next.decoder, fed)
        BY <2>12 DEF Hearing
    <2>14. WorkerOk(next, how, upto)
        <3>1. Hears(fed, how, upto)
            BY <2>2 DEF Follows
        <3>2. Hears(next.decoder, how, upto)
            BY <2>13, <3>1, EmptySequence DEF SameDecoder, Hears
        <3>3. ImagesOnce(next.saved, Floor(fed))
            BY <2>12, <3>1, AgreedFloor DEF Hearing
        <3>4. Floor(next.decoder) = Floor(fed)
            BY <2>13 DEF SameDecoder, Floor
        <3>5. Takes(next, next.decoder)
            BY <2>12, <2>13 DEF Hearing, Takes, Agrees, SameDecoder
        <3>6. QED
            BY <2>12, <2>13, <3>2, <3>3, <3>4, <3>5 DEF WorkerOk, Hearing, SameDecoder
    <2>15. Holds(next.decoder, upto, how, cancel, audio, j)
        <3>1. Holds(fed, upto, how, cancel, audio, j)
            BY <2>4, <2>5 DEF FeedGives, Holds
        <3>2. QED
            BY <2>13, <3>1 DEF SameDecoder, Holds, Entire, Prompt
    <2> DEFINE x == CheckWatchdog(next)
    <2>16. /\ Shows(x, audio, strict) /\ x.scratch = upto
           /\ x.decoder = next.decoder \/ Fresh(x.decoder, next.decoder.hi)
        BY <2>11, <2>14, WatchdogShows
    <2> HIDE DEF x
    <2>17. Holds(x.decoder, upto, how, cancel, audio, j)
        <3>1. CASE x.decoder = next.decoder
            BY <2>15, <3>1
        <3>2. CASE Fresh(x.decoder, next.decoder.hi)
            <4>1. next.decoder.hi \in Int
                BY <2>14 DEF WorkerOk, Hears
            <4>2. QED
                BY <2>15, <3>2, <4>1, FreshShows DEF Holds
        <3>3. QED
            BY <2>16, <3>1, <3>2
    <2>18. QED
        BY <1>3, <1>5, <2>16, <2>17 DEF x, how
<1>6. QED
    BY <1>4, <1>5

-----------------------------------------------------------------------------
(* Another caller keeps the audio of the image that ended last.            *)

\* The last of the images kept is that of the event which was the last to end one.
LastKept(images, s, n) ==
    \E m \in 1 .. n : /\ s[m].kind = "complete" /\ images[Len(images)].header = s[m].header
                      /\ \A l \in 1 .. n : m < l => s[l].kind # "complete"

\* One event.
LEMMA KeepShows ==
    ASSUME NEW base, NEW images, IsSequence(images), FinalsRight(images), NEW s, NEW n \in Nat,
           images = base \/ LastKept(images, s, n)
    PROVE  LET more == Keep(images, s[n + 1])
           IN  IsSequence(more) /\ FinalsRight(more) /\ (more = base \/ LastKept(more, s, n + 1))
PROOF
<1> DEFINE e == s[n + 1]
           image == [header |-> e.header, rows |-> e.rows, whole |-> TRUE, final |-> e.header]
           more == Keep(images, e)
<1>1. CASE e.kind = "complete"
    <2>1. more = Append(images, image) /\ image.header = e.header /\ image.final = image.header
        BY <1>1 DEF Keep
    <2> HIDE DEF image, more
    <2>2. IsSequence(more) /\ FinalsRight(more) /\ more[Len(more)] = image
        BY <2>1, OneAppended, OneFinalMore
    <2>3. n + 1 \in 1 .. n + 1 /\ \A l \in 1 .. n + 1 : ~(n + 1 < l)
        OBVIOUS
    <2>4. LastKept(more, s, n + 1)
        BY <1>1, <2>1, <2>2, <2>3 DEF LastKept
    <2>5. QED
        BY <2>2, <2>4 DEF more
<1>2. CASE e.kind # "complete"
    <2>1. more = images
        BY <1>2 DEF Keep
    <2> HIDE DEF more
    <2>2. ASSUME LastKept(images, s, n) PROVE LastKept(images, s, n + 1)
        <3>1. PICK m \in 1 .. n : /\ s[m].kind = "complete" /\ images[Len(images)].header = s[m].header
                                  /\ \A l \in 1 .. n : m < l => s[l].kind # "complete"
            BY <2>2 DEF LastKept
        <3>2. m \in 1 .. n + 1
            OBVIOUS
        <3>3. ASSUME NEW l \in 1 .. n + 1, m < l PROVE s[l].kind # "complete"
            <4>1. l = n + 1 \/ l \in 1 .. n
                OBVIOUS
            <4>2. QED
                BY <1>2, <3>1, <3>3, <4>1
        <3>4. QED
            BY <3>1, <3>2, <3>3 DEF LastKept
    <2>3. QED
        BY <2>1, <2>2 DEF more
<1>3. QED
    BY <1>1, <1>2

\* All events of a feed.
LEMMA KeptShows ==
    ASSUME NEW base, IsSequence(base), FinalsRight(base), NEW events, IsSequence(events),
           NEW shot, NEW rec, NEW how, Newest(events, shot, rec, how)
    PROVE  LET all == KeptOf(base, events)
           IN  /\ FinalsRight(all)
               /\ all = base \/ Shot(shot, rec, all[Len(all)].header, how)
PROOF
<1> DEFINE k == Len(events)
           all == KeptOf(base, events)
<1>1. k \in Nat /\ DOMAIN events = 1 .. k
    BY OneAppended
<1>2. Spans(events, k)
    BY <1>1 DEF Spans
<1>3. \A n \in 1 .. k : /\ events[n].kind = "complete"
                        /\ \A m \in 1 .. k : n < m => events[m].kind # "complete"
                        => Shot(shot, rec, events[n].header, how)
    BY DEF Newest
<1> HIDE DEF k
<1>4. PICK v : v[0] = base /\ v[k] = all /\ \A n \in 1 .. k : v[n] = Keep(v[n - 1], events[n])
    BY <1>2, KeepUnrolls
<1> HIDE DEF all
<1> DEFINE Good(n) == IsSequence(v[n]) /\ FinalsRight(v[n]) /\ (v[n] = base \/ LastKept(v[n], events, n))
           S == {n \in Nat : n <= k => Good(n)}
<1>5. 0 \in S
    BY <1>4
<1>6. ASSUME NEW n \in Nat, n \in S PROVE n + 1 \in S
    <2> SUFFICES ASSUME n + 1 <= k PROVE Good(n + 1)
        OBVIOUS
    <2>1. n + 1 \in 1 .. k /\ (n + 1) - 1 = n /\ Good(n)
        BY <1>1, <1>6
    <2>2. v[n + 1] = Keep(v[n], events[n + 1])
        BY <1>4, <2>1
    <2>3. QED
        BY <2>1, <2>2, KeepShows
<1> HIDE DEF S
<1>7. k \in S
    BY <1>1, <1>5, <1>6, Inductive
<1>8. FinalsRight(all) /\ (all = base \/ LastKept(all, events, k))
    BY <1>1, <1>4, <1>7 DEF S
<1>9. ASSUME LastKept(all, events, k) PROVE Shot(shot, rec, all[Len(all)].header, how)
    BY <1>3, <1>9 DEF LastKept
<1>10. QED
    BY <1>8, <1>9 DEF all

-----------------------------------------------------------------------------
(* The audio kept, in the specification.                                   *)

\* What is held back at a time is shorter than the body of an image less one
\* line and the jitter: no image that follows another can end in one flush.
Flushes == {FlushIdle, FlushDecoding, FlushBatch}
SmallFlushes(j) ==
    Flushes \subseteq Nat /\ \A f \in Flushes, c \in Chunks : f + c + j <= (Lines - 1) * Period

\* Recordings that were disturbed may lack the last line.
Undisturbed == incremental /\ meddling = 0

\* The decoder has its audio, and what was kept of it is right.
Audible(j) ==
    /\ meddling \in Nat
    /\ Entire(decoder, How(incremental), audio, j)
    /\ RecordingsRight(recordings, audio, Undisturbed) /\ FinalsRight(saved)
    /\ live => /\ grain \in Chunks /\ scratch \in Int
               /\ \E f \in Flushes : pos - scratch <= f
               /\ Holds(decoder, scratch, How(incremental), cancel, audio, j)
Distinct(j) == Steady(audio, j) /\ Separate(audio, j)
Shown(j) == RowsInPlace(j) /\ (Distinct(j) => Audible(j))

\* A disturbance leaves less to show.
LEMMA LessStrict ==
    ASSUME NEW s, NEW rec, NEW strict, RecordingsRight(s, rec, strict), NEW other, ~other
    PROVE  RecordingsRight(s, rec, other)
PROOF
    BY DEF RecordingsRight

\* The worker as a record.
LEMMA WorkerShows ==
    ASSUME NEW j, Audible(j), live
    PROVE  /\ IsRecord(Worker, WorkerFields) /\ Worker.scratch = scratch /\ Worker.decoder = decoder
           /\ Shows(Worker, audio, Undisturbed)
           /\ Holds(Worker.decoder, Worker.scratch, How(incremental), cancel, audio, j)
PROOF
<1>1. /\ IsRecord(Worker, WorkerFields) /\ Worker.scratch = scratch /\ Worker.decoder = decoder
      /\ Worker.recordings = recordings /\ Worker.saved = saved
    BY DEF Worker, IsRecord, WorkerFields
<1>2. QED
    BY <1>1 DEF Audible, Shows

\* A worker in the next state.
LEMMA BecomesAudible ==
    ASSUME NEW j, NEW w, Become(w), NEW strict, Shows(w, audio, strict), strict = Undisturbed', audio' = audio,
           meddling' \in Nat, grain' \in Chunks, NEW how, how = How(incremental'), NEW off, off = cancel',
           Holds(w.decoder, w.scratch, how, off, audio, j),
           w.scratch \in Int, NEW f \in Flushes, pos' - w.scratch <= f
    PROVE  Audible(j)'
PROOF
<1>1. scratch' = w.scratch /\ decoder' = w.decoder /\ saved' = w.saved /\ recordings' = w.recordings
    BY DEF Become
<1>2. RecordingsRight(recordings', audio', Undisturbed') /\ FinalsRight(saved')
    BY <1>1 DEF Shows
<1>3. Entire(decoder', How(incremental'), audio', j)
    BY <1>1 DEF Holds
<1>4. Holds(decoder', scratch', How(incremental'), cancel', audio', j)
    BY <1>1
<1>5. scratch' \in Int /\ \E g \in Flushes : pos' - scratch' <= g
    BY <1>1
<1>6. QED
    BY <1>2, <1>3, <1>4, <1>5 DEF Audible, Flushes

-----------------------------------------------------------------------------
\* What holds of the recording and the decoder whenever rows are in place.
LEMMA DistinctIs ==
    ASSUME NEW j \in Nat, RowsInPlace(j), Distinct(j)
    PROVE  /\ Following /\ InPlace(j) /\ AllReadable(audio, j) /\ Separate(audio, j)
           /\ audio \in Recordings /\ IsFiniteSet(audio.headers) /\ audio.end \in Nat
           /\ incremental \in BOOLEAN /\ pos \in Nat /\ grain \in Nat
PROOF
<1>1. Steady(audio, j) /\ Separate(audio, j) /\ Following /\ InPlace(j)
    BY DEF Distinct, RowsInPlace
<1>2. audio \in Recordings /\ incremental \in BOOLEAN /\ pos \in Nat /\ grain \in Nat
    BY <1>1 DEF Following
<1>3. QED
    BY <1>1, <1>2, SteadyReadable, RecordingIs

\* feed_chunk.
LEMMA ChunkAudible ==
    ASSUME NEW j \in Nat, SmallFlushes(j), RowsInPlace(j), Distinct(j), Audible(j), Chunk
    PROVE  Audible(j)'
PROOF
<1>1. /\ live /\ pos < audio.end /\ pos' = Min({pos + grain, audio.end})
      /\ audio' = audio /\ incremental' = incremental /\ grain' = grain /\ cancel' = cancel /\ meddling' = meddling
    BY DEF Chunk
<1>2. /\ Following /\ InPlace(j) /\ AllReadable(audio, j) /\ Separate(audio, j)
      /\ IsFiniteSet(audio.headers) /\ audio.end \in Nat
      /\ incremental \in BOOLEAN /\ pos \in Nat /\ grain \in Nat
    BY DistinctIs
<1>3. PICK f \in Flushes : pos - scratch <= f
    BY <1>1 DEF Audible
<1>4. /\ f \in Nat /\ f + grain + j <= (Lines - 1) * Period /\ grain \in Chunks /\ scratch \in Int
      /\ (Lines - 1) * Period \in Int /\ meddling \in Nat
    BY <1>1, <1>3, DecoderSizes DEF Audible, SmallFlushes
<1>5. PICK n \in Nat : n = pos' /\ pos <= n /\ n <= pos + grain
    <2>1. pos + grain \in Nat /\ pos <= pos + grain
        BY <1>2
    <2>2. Min({pos + grain, audio.end}) \in {pos + grain, audio.end} /\ Min({pos + grain, audio.end}) <= pos + grain
        BY <1>2, <2>1, SmallerOf
    <2>3. pos' \in Nat /\ pos <= pos' /\ pos' <= pos + grain
        BY <1>1, <1>2, <2>1, <2>2
    <2>4. QED
        BY <2>3
<1>6. PICK how : how = How(incremental)
    OBVIOUS
<1>7. PICK strict : strict = Undisturbed
    OBVIOUS
<1>8. PICK w : w = Older(Worker, n - pos)
    OBVIOUS
<1>9. WorkerOk(w, how, pos) /\ Proper(w.decoder, how, audio, j)
    <2>1. WorkerOk(Worker, How(incremental), pos) /\ Worker.decoder = decoder
        BY <1>1, <1>2, WorkerIs DEF Worker
    <2>2. WorkerOk(w, how, pos)
        BY <1>6, <1>8, <2>1, OlderKeeps
    <2>3. IsRecord(Worker, WorkerFields)
        BY <2>1 DEF WorkerOk
    <2>4. w.decoder = decoder
        BY <1>8, <2>1, <2>3, OlderShows, WorkerShows, <1>1
    <2>5. QED
        BY <1>2, <1>6, <2>2, <2>4 DEF InPlace
<1>10. Shows(w, audio, strict) /\ w.scratch = scratch /\ Holds(w.decoder, w.scratch, how, cancel, audio, j)
    <2>1. /\ IsRecord(Worker, WorkerFields) /\ Worker.scratch = scratch /\ Worker.decoder = decoder
          /\ Shows(Worker, audio, strict)
          /\ Holds(Worker.decoder, Worker.scratch, how, cancel, audio, j)
        BY <1>1, <1>6, <1>7, WorkerShows
    <2>2. Shows(w, audio, strict) /\ w.scratch = Worker.scratch /\ w.decoder = Worker.decoder
        BY <1>8, <2>1, OlderShows
    <2>3. QED
        BY <2>1, <2>2
<1>11. CASE n - w.scratch >= FlushSamples(w)
    <2>1. PICK x : x = Flush(w, n)
        OBVIOUS
    <2>2. Become(x)
        BY <1>5, <1>8, <1>11, <2>1 DEF Chunk
    <2>3. n + j <= w.scratch + (Lines - 1) * Period
        <3>1. PICK m \in Int : m = (Lines - 1) * Period
            BY <1>4
        <3>2. QED
            BY <1>2, <1>3, <1>4, <1>5, <1>10, <3>1
    <2>4. /\ Shows(x, audio, strict) /\ x.scratch = n
          /\ Holds(x.decoder, n, how, cancel, audio, j)
        <3>1. strict => incremental
            BY <1>7 DEF Undisturbed
        <3>2. WorkerOk(w, How(incremental), pos) /\ Proper(w.decoder, How(incremental), audio, j)
              /\ Holds(w.decoder, w.scratch, How(incremental), cancel, audio, j)
            BY <1>6, <1>9, <1>10
        <3>3. pos \in Int /\ n \in Int
            BY <1>2
        <3>4. LET y == Flush(w, n)
              IN  /\ Shows(y, audio, strict) /\ y.scratch = n
                  /\ Holds(y.decoder, n, How(incremental), cancel, audio, j)
            BY <1>2, <1>5, <1>10, <2>3, <3>1, <3>2, <3>3, FlushShows
        <3>5. QED
            BY <1>6, <2>1, <3>4
    <2>5. strict = Undisturbed' /\ how = How(incremental')
        BY <1>1, <1>6, <1>7 DEF Undisturbed
    <2>6. x.scratch \in Int /\ pos' - x.scratch <= f
        <3>1. n - n <= f /\ n \in Int
            BY <1>4
        <3>2. pos' = n /\ x.scratch = n
            BY <1>5, <2>4
        <3>3. QED
            BY <3>1, <3>2
    <2>7. Holds(x.decoder, x.scratch, how, cancel, audio, j)
        BY <2>4
    <2>8. QED
        BY <1>1, <1>3, <1>4, <2>2, <2>4, <2>5, <2>6, <2>7, BecomesAudible
<1>12. CASE ~(n - w.scratch >= FlushSamples(w))
    <2>1. Become(w)
        BY <1>5, <1>8, <1>12 DEF Chunk
    <2>2. PICK g \in Flushes : g = FlushSamples(w)
        BY DEF Flushes, FlushSamples
    <2>3. n - w.scratch <= g
        BY <1>4, <1>10, <1>12, <2>2 DEF SmallFlushes
    <2>4. strict = Undisturbed' /\ how = How(incremental') /\ w.scratch \in Int
        BY <1>1, <1>4, <1>6, <1>7, <1>10 DEF Undisturbed
    <2>5. QED
        BY <1>1, <1>4, <1>5, <1>10, <2>1, <2>2, <2>3, <2>4, BecomesAudible
<1>13. QED
    BY <1>11, <1>12

\* The flush at the end of a capture.
LEMMA StoppedAudible ==
    ASSUME NEW j \in Nat, SmallFlushes(j), RowsInPlace(j), Distinct(j), Audible(j), Stopped
    PROVE  Audible(j)'
PROOF
<1>1. /\ asked = 1 /\ pos' = pos /\ audio' = audio /\ incremental' = incremental /\ grain' = grain
      /\ cancel' = cancel /\ meddling' = meddling
    BY DEF Stopped
<1>2. /\ Following /\ InPlace(j) /\ AllReadable(audio, j) /\ Separate(audio, j)
      /\ IsFiniteSet(audio.headers) /\ incremental \in BOOLEAN /\ pos \in Nat
    BY DistinctIs
<1>2a. live
    BY <1>1, <1>2 DEF Following
<1>3. PICK f \in Flushes : pos - scratch <= f
    BY <1>2a DEF Audible
<1>4. /\ f \in Nat /\ f + grain + j <= (Lines - 1) * Period /\ grain \in Chunks /\ grain \in Nat /\ scratch \in Int
      /\ (Lines - 1) * Period \in Int /\ meddling \in Nat
    <2>1. grain \in Nat
        BY <1>2 DEF Following
    <2>2. QED
        BY <1>2a, <1>3, <2>1, DecoderSizes DEF Audible, SmallFlushes
<1>6. PICK how : how = How(incremental)
    OBVIOUS
<1>7. PICK strict : strict = Undisturbed
    OBVIOUS
<1>8. /\ WorkerOk(Worker, How(incremental), pos) /\ Proper(Worker.decoder, How(incremental), audio, j)
      /\ Worker.scratch = scratch /\ Shows(Worker, audio, strict)
      /\ Holds(Worker.decoder, Worker.scratch, How(incremental), cancel, audio, j)
    <2>1. /\ Worker.scratch = scratch /\ Worker.decoder = decoder
          /\ Shows(Worker, audio, strict)
          /\ Holds(Worker.decoder, Worker.scratch, How(incremental), cancel, audio, j)
        BY <1>2a, <1>7, WorkerShows
    <2>2. QED
        BY <1>2, <1>2a, <2>1, WorkerIs DEF InPlace
<1>9. pos + j <= Worker.scratch + (Lines - 1) * Period
    <2>1. PICK m \in Int : m = (Lines - 1) * Period
        BY <1>4
    <2>2. QED
        BY <1>2, <1>3, <1>4, <1>8, <2>1
<1>10. PICK x : x = Flush(Worker, pos)
    OBVIOUS
<1>11. Become(x)
    BY <1>10 DEF Stopped
<1>12. /\ Shows(x, audio, strict) /\ x.scratch = pos
       /\ Holds(x.decoder, pos, how, cancel, audio, j)
    <2>1. strict => incremental
        BY <1>7 DEF Undisturbed
    <2>2. pos \in Int /\ pos <= pos
        BY <1>2
    <2>3. LET y == Flush(Worker, pos)
          IN  /\ Shows(y, audio, strict) /\ y.scratch = pos
              /\ Holds(y.decoder, pos, How(incremental), cancel, audio, j)
        BY <1>2, <1>8, <1>9, <2>1, <2>2, FlushShows
    <2>4. QED
        BY <1>6, <1>10, <2>3
<1>13. strict = Undisturbed' /\ how = How(incremental')
    BY <1>1, <1>6, <1>7 DEF Undisturbed
<1>14. x.scratch \in Int /\ pos' - x.scratch <= f
    BY <1>1, <1>2, <1>4, <1>12
<1>15. Holds(x.decoder, x.scratch, how, cancel, audio, j)
    BY <1>12
<1>16. QED
    BY <1>1, <1>3, <1>4, <1>11, <1>12, <1>13, <1>14, <1>15, BecomesAudible

-----------------------------------------------------------------------------
\* The tick of the watchdog.
LEMMA TickAudible ==
    ASSUME NEW j \in Nat, RowsInPlace(j), Distinct(j), Audible(j), Tick
    PROVE  Audible(j)'
PROOF
<1>1. /\ live /\ pos' = pos /\ audio' = audio /\ incremental' = incremental /\ grain' = grain
      /\ cancel' = cancel /\ meddling' = meddling + 1
    BY DEF Tick
<1>2. /\ Following /\ AllReadable(audio, j) /\ pos \in Nat
    BY DistinctIs
<1>3. PICK f \in Flushes : pos - scratch <= f
    BY <1>1 DEF Audible
<1>4. meddling \in Nat /\ meddling' \in Nat /\ meddling' # 0 /\ grain \in Chunks /\ scratch \in Int
    BY <1>1 DEF Audible
<1>5. PICK how : how = How(incremental)
    OBVIOUS
<1>6. PICK strict : strict = Undisturbed'
    OBVIOUS
<1>7. ~strict
    BY <1>4, <1>6 DEF Undisturbed
<1>8. PICK w : w = Older(Worker, LineBudget + 1)
    OBVIOUS
<1>9. /\ WorkerOk(w, how, pos) /\ Shows(w, audio, strict) /\ w.scratch = scratch
      /\ Holds(w.decoder, w.scratch, how, cancel, audio, j)
    <2>1. /\ IsRecord(Worker, WorkerFields) /\ Worker.scratch = scratch /\ Worker.decoder = decoder
          /\ Shows(Worker, audio, Undisturbed)
          /\ Holds(Worker.decoder, Worker.scratch, how, cancel, audio, j)
        BY <1>1, <1>5, WorkerShows
    <2>2. Shows(Worker, audio, strict)
        BY <1>7, <2>1, LessStrict DEF Shows
    <2>3. Shows(w, audio, strict) /\ w.scratch = Worker.scratch /\ w.decoder = Worker.decoder
        BY <1>8, <2>1, <2>2, OlderShows
    <2>4. WorkerOk(w, how, pos)
        BY <1>1, <1>2, <1>5, <1>8, WorkerIs, OlderKeeps
    <2>5. QED
        BY <2>1, <2>3, <2>4
<1>10. PICK x : x = CheckWatchdog(w)
    OBVIOUS
<1>11. Become(x)
    BY <1>8, <1>10 DEF Tick
<1>12. /\ Shows(x, audio, strict) /\ x.scratch = scratch
       /\ x.decoder = w.decoder \/ Fresh(x.decoder, w.decoder.hi)
    <2>1. pos \in Int
        BY <1>2
    <2>2. LET y == CheckWatchdog(w)
          IN  /\ Shows(y, audio, strict) /\ y.scratch = w.scratch
              /\ y.decoder = w.decoder \/ Fresh(y.decoder, w.decoder.hi)
        BY <1>9, <2>1, WatchdogShows
    <2>3. QED
        BY <1>9, <1>10, <2>2
<1>13. Holds(x.decoder, x.scratch, how, cancel, audio, j)
    <2>1. CASE x.decoder = w.decoder
        BY <1>9, <1>12, <2>1
    <2>2. CASE Fresh(x.decoder, w.decoder.hi)
        <3>1. w.decoder.hi \in Int
            BY <1>9 DEF WorkerOk, Hears
        <3>2. Entire(x.decoder, how, audio, j) /\ Prompt(x.decoder, audio, j) /\ x.decoder.hi = w.decoder.hi
            BY <1>2, <2>2, <3>1, FreshShows
        <3>3. QED
            BY <1>9, <1>12, <3>2 DEF Holds
    <2>3. QED
        BY <1>12, <2>1, <2>2
<1>14. how = How(incremental') /\ grain' \in Chunks /\ x.scratch \in Int /\ pos' - x.scratch <= f
    BY <1>1, <1>3, <1>4, <1>5, <1>12
<1>15. QED
    BY <1>1, <1>4, <1>6, <1>11, <1>12, <1>13, <1>14, BecomesAudible

\* A worker that starts over.
LEMMA OverAudible ==
    ASSUME NEW j \in Nat, AllReadable(audio, j), NEW d, pos \in Nat, Fresh(d, pos), audio' = audio, pos' = pos,
           Flushes \subseteq Nat, grain' \in Chunks, meddling' \in Nat,
           NEW strict, strict = Undisturbed', RecordingsRight(recordings, audio, strict), FinalsRight(saved),
           Become(ResetWatchdog([Worker EXCEPT !.scratch = pos, !.decoding = FALSE, !.decoder = d]))
    PROVE  Audible(j)'
PROOF
<1> DEFINE w == [Worker EXCEPT !.scratch = pos, !.decoding = FALSE, !.decoder = d]
<1>1. /\ IsRecord(w, WorkerFields) /\ w.saved = saved /\ w.recordings = recordings /\ w.decoder = d
      /\ w.scratch = pos
    BY DEF Worker, IsRecord, WorkerFields
<1>2. PICK x : x = ResetWatchdog(w)
    OBVIOUS
<1>3. Become(x)
    BY <1>2
<1> HIDE DEF w
<1>4. x.decoder = d /\ x.saved = saved /\ x.recordings = recordings /\ x.scratch = pos
    BY <1>1, <1>2, WatchdogReset
<1>5. Shows(x, audio, strict)
    BY <1>4 DEF Shows
<1>6. PICK how, off : how = How(incremental') /\ off = cancel'
    OBVIOUS
<1>7. Holds(x.decoder, x.scratch, how, off, audio, j)
    <2>1. pos \in Int
        OBVIOUS
    <2>2. Entire(d, how, audio, j) /\ Prompt(d, audio, j) /\ d.hi = pos
        BY <2>1, FreshShows
    <2>3. QED
        BY <1>4, <2>2 DEF Holds
<1>8. x.scratch \in Int /\ FlushIdle \in Flushes /\ pos' - x.scratch <= FlushIdle
    <2>1. FlushIdle \in Flushes
        BY DEF Flushes
    <2>2. FlushIdle \in Nat /\ pos - pos <= FlushIdle
        BY <2>1
    <2>3. QED
        BY <1>4, <2>1, <2>2
<1>9. QED
    BY <1>3, <1>5, <1>6, <1>7, <1>8, BecomesAudible

\* Clear, Start, and a setting that replaces the decoder.
LEMMA ResetAudible ==
    ASSUME NEW j \in Nat, SmallFlushes(j), RowsInPlace(j), Distinct(j), Audible(j), Reset \/ Rebuild
    PROVE  Audible(j)'
PROOF
<1>1. /\ Following /\ AllReadable(audio, j) /\ pos \in Nat /\ decoder.events = <<>> /\ Flushes \subseteq Nat
      /\ meddling \in Nat /\ RecordingsRight(recordings, audio, Undisturbed) /\ FinalsRight(saved)
    BY DistinctIs DEF Following, Audible, SmallFlushes
<1>2. live /\ audio' = audio /\ pos' = pos /\ grain' = grain
    BY <1>1 DEF Following, Reset, Rebuild
<1>3. grain' \in Chunks
    BY <1>2 DEF Audible
<1>4. PICK strict : strict = Undisturbed'
    OBVIOUS
<1>5. CASE Reset
    <2> DEFINE d == [ResetDecoder(decoder) EXCEPT !.lo = pos, !.hi = pos]
    <2>1. Become(ResetWatchdog([Worker EXCEPT !.scratch = pos, !.decoding = FALSE, !.decoder = d]))
        BY <1>5 DEF Reset
    <2>2. Fresh(d, pos)
        BY <1>1, FreshDecoder, Zenon
    <2> HIDE DEF d
    <2>3. meddling' = meddling /\ strict = Undisturbed
        BY <1>4, <1>5 DEF Reset, Undisturbed
    <2>4. RecordingsRight(recordings, audio, strict) /\ meddling' \in Nat
        BY <1>1, <2>3
    <2>5. QED
        BY <1>1, <1>2, <1>3, <1>4, <2>1, <2>2, <2>4, OverAudible, Zenon
<1>6. CASE Rebuild
    <2> DEFINE d == NewDecoder(pos)
    <2>1. Become(ResetWatchdog([Worker EXCEPT !.scratch = pos, !.decoding = FALSE, !.decoder = d]))
        BY <1>6 DEF Rebuild
    <2>2. Fresh(d, pos)
        BY <1>1, FreshDecoder, Zenon
    <2> HIDE DEF d
    <2>3. meddling' = meddling + 1
        BY <1>6 DEF Rebuild
    <2>4. meddling' \in Nat /\ meddling' # 0
        BY <1>1, <2>3
    <2>5. ~strict
        BY <1>4, <2>4 DEF Undisturbed
    <2>6. RecordingsRight(recordings, audio, strict)
        BY <1>1, <2>5, LessStrict
    <2>7. QED
        BY <1>1, <1>2, <1>3, <1>4, <2>1, <2>2, <2>4, <2>6, OverAudible, Zenon
<1>7. QED
    BY <1>5, <1>6

\* The cancel event alone, or nothing.
LEMMA CancelAudible ==
    ASSUME NEW j, Audible(j), RequestCancel \/ UNCHANGED vars
    PROVE  Audible(j)'
PROOF
<1>1. /\ audio' = audio /\ incremental' = incremental /\ live' = live /\ decoder' = decoder
      /\ saved' = saved /\ recordings' = recordings /\ grain' = grain /\ pos' = pos /\ scratch' = scratch
      /\ cancel' = cancel \/ cancel'
      /\ meddling' = meddling \/ meddling' = meddling + 1
    BY DEF RequestCancel, vars, workerVars
<1>2. meddling \in Nat /\ meddling' \in Nat
    BY <1>1 DEF Audible
<1>3. RecordingsRight(recordings, audio, Undisturbed')
    <2>1. CASE meddling' = meddling
        <3>1. PICK strict : strict = Undisturbed
            OBVIOUS
        <3>2. strict = Undisturbed' /\ RecordingsRight(recordings, audio, strict)
            BY <1>1, <2>1, <3>1 DEF Undisturbed, Audible
        <3>3. QED
            BY <3>2
    <2>2. CASE meddling' = meddling + 1
        <3>1. PICK strict : strict = Undisturbed'
            OBVIOUS
        <3>2. ~strict
            <4>1. meddling' # 0
                BY <1>2, <2>2
            <4>2. QED
                BY <3>1, <4>1 DEF Undisturbed
        <3>3. RecordingsRight(recordings, audio, strict)
            BY <3>2, LessStrict DEF Audible
        <3>4. QED
            BY <3>1, <3>3
    <2>3. QED
        BY <1>1, <2>1, <2>2
<1>4. live => Holds(decoder, scratch, How(incremental), cancel', audio, j)
    BY <1>1 DEF Audible, Holds
<1>5. QED
    BY <1>1, <1>2, <1>3, <1>4 DEF Audible

-----------------------------------------------------------------------------
\* Another caller of the decoder.
LEMMA PieceAudible ==
    ASSUME NEW j \in Nat, RowsInPlace(j), Distinct(j), Audible(j), Piece
    PROVE  Audible(j)'
PROOF
<1>1. /\ ~live /\ pos < audio.end /\ pos' = Min({pos + grain, audio.end})
      /\ audio' = audio /\ live' = live /\ incremental' = incremental /\ meddling' = meddling
    BY DEF Piece
<1>2. /\ Following /\ InPlace(j) /\ AllReadable(audio, j) /\ Separate(audio, j) /\ audio \in Recordings
      /\ IsFiniteSet(audio.headers) /\ audio.end \in Nat /\ incremental \in BOOLEAN /\ pos \in Nat /\ grain \in Nat
      /\ \A h \in audio.headers : h.at \in Nat
    BY DistinctIs, RecordingIs
<1>2a. /\ Hears(decoder, How(incremental), pos) /\ decoder.events = <<>> /\ IsSequence(saved)
       /\ meddling \in Nat /\ Entire(decoder, How(incremental), audio, j)
       /\ RecordingsRight(recordings, audio, Undisturbed) /\ FinalsRight(saved)
    BY <1>2 DEF Following, ImagesOnce, Audible
<1>4. PICK n \in Nat : n = pos' /\ pos <= n
    <2>1. pos + grain \in Nat /\ pos <= pos + grain
        BY <1>2
    <2>2. Min({pos + grain, audio.end}) \in {pos + grain, audio.end}
        BY <1>2, <2>1, SmallerOf
    <2>3. pos' \in Nat /\ pos <= pos'
        BY <1>1, <1>2, <2>1, <2>2
    <2>4. QED
        BY <2>3
<1>5. PICK how : how = How(incremental)
    OBVIOUS
<1>6. how = (IF incremental THEN "rows" ELSE "batch")
    BY <1>5 DEF How
<1>c. PICK off : off = FALSE
    OBVIOUS
<1>7. PICK fed : fed = Feed(decoder, audio, n, incremental, off)
    OBVIOUS
<1>8. PICK a : Follows(a, decoder, how, n)
    BY <1>2, <1>2a, <1>4, <1>5, BeginsToFollow
<1>9. Follows(a, fed, how, n) /\ FeedGives(decoder, fed, how, n, off, audio, j)
    <2>1. incremental \in BOOLEAN /\ Follows(a, decoder, how, n) /\ n \in Int
        BY <1>2, <1>4, <1>8
    <2>2. IsFiniteSet(audio.headers) /\ \A h \in audio.headers : h.at \in Nat
        BY <1>2
    <2>3. Follows(a, Feed(decoder, audio, n, incremental, off), how, n)
        BY <1>6, <2>1, <2>2, FeedFollows
    <2>4. Proper(decoder, how, audio, j) /\ Entire(decoder, how, audio, j)
        BY <1>2, <1>2a, <1>5 DEF InPlace
    <2>5. FeedGives(decoder, Feed(decoder, audio, n, incremental, off), how, n, off, audio, j)
        BY <1>2, <1>2a, <1>6, <2>1, <2>2, <2>4, FeedEnds
    <2>6. QED
        BY <1>7, <2>3, <2>5
<1> DEFINE calm == [fed EXCEPT !.events = <<>>]
           all == KeptOf(saved, fed.events)
           r == [header |-> Last(all).header, lo |-> fed.snapshot.lo, hi |-> fed.snapshot.hi]
<1>10. /\ decoder' = calm /\ saved' = all
       /\ recordings' = IF all = saved \/ fed.snapshot.hi = fed.snapshot.lo THEN recordings
                        ELSE Append(recordings, r)
    BY <1>4, <1>7, <1>c DEF Piece, KeptOf
<1>11. SameDecoder(calm, fed)
    BY <1>9 DEF Follows, Hears, SameDecoder, IsRecord, DecoderFields
<1> HIDE DEF calm
<1>12. Entire(calm, how, audio, j)
    BY <1>9, <1>11 DEF FeedGives, SameDecoder, Entire
<1>13. /\ FinalsRight(all)
       /\ all = saved \/ Shot(fed.snapshot, audio, all[Len(all)].header, how)
    <2>1. IsSequence(fed.events) /\ Newest(fed.events, fed.snapshot, audio, how)
        BY <1>9 DEF Follows, Hears, FeedGives
    <2>2. QED
        BY <1>2a, <2>1, KeptShows
<1> HIDE DEF all
<1>14. PICK strict : strict = Undisturbed
    OBVIOUS
<1>15. strict => how = "rows"
    BY <1>6, <1>14 DEF Undisturbed
<1>16. RecordingsRight(recordings', audio, strict)
    <2>1. CASE all = saved \/ fed.snapshot.hi = fed.snapshot.lo
        BY <1>2a, <1>10, <1>14, <2>1
    <2>2. CASE ~(all = saved \/ fed.snapshot.hi = fed.snapshot.lo)
        <3>1. r.header = all[Len(all)].header /\ r.lo = fed.snapshot.lo /\ r.hi = fed.snapshot.hi
            BY DEF Last
        <3>2. recordings' = Append(recordings, r)
            BY <1>10, <2>2
        <3> HIDE DEF r
        <3>3. r.hi # r.lo /\ Shot(r, audio, r.header, how)
            BY <1>13, <2>2, <3>1 DEF Shot
        <3>4. RecordingsRight(recordings, audio, strict)
            BY <1>2a, <1>14
        <3>5. RecordingsRight(Append(recordings, r), audio, strict)
            BY <1>15, <3>3, <3>4, OneRecordingMore
        <3>6. QED
            BY <3>2, <3>5
    <2>3. QED
        BY <2>1, <2>2
<1>17. strict = Undisturbed' /\ how = How(incremental')
    BY <1>1, <1>5, <1>14 DEF Undisturbed
<1>18. QED
    BY <1>1, <1>2a, <1>10, <1>12, <1>13, <1>16, <1>17 DEF Audible

\* At the start nothing was kept.
LEMMA ShownInit == ASSUME NEW j \in Nat, SmallFlushes(j) PROVE Init => Shown(j)
PROOF
<1> SUFFICES ASSUME Init PROVE Shown(j)
    OBVIOUS
<1>1. RowsInPlace(j)
    BY RowsInit
<1> SUFFICES ASSUME Distinct(j) PROVE Audible(j)
    BY <1>1 DEF Shown
<1>2. /\ decoder = NewDecoder(0) /\ saved = <<>> /\ recordings = <<>> /\ meddling = 0 /\ pos = 0 /\ scratch = 0
      /\ live => grain \in Chunks
    BY DEF Init
<1>3. AllReadable(audio, j)
    BY <1>1, DistinctIs
<1>4. Fresh(decoder, 0)
    <2>1. PICK d : d = [events |-> <<>>]
        OBVIOUS
    <2>2. d.events = <<>>
        BY <2>1
    <2>3. QED
        BY <1>2, <2>2, FreshDecoder, Zenon
<1>5. PICK how : how = How(incremental)
    OBVIOUS
<1>6. Entire(decoder, how, audio, j) /\ Prompt(decoder, audio, j) /\ decoder.hi = 0
    <2>1. 0 \in Int
        OBVIOUS
    <2>2. QED
        BY <1>3, <1>4, <2>1, FreshShows
<1>7. RecordingsRight(recordings, audio, Undisturbed) /\ FinalsRight(saved)
    BY <1>2, EmptySequence DEF RecordingsRight, FinalsRight
<1>8. Holds(decoder, scratch, How(incremental), cancel, audio, j)
    BY <1>2, <1>5, <1>6 DEF Holds
<1>9. \E f \in Flushes : pos - scratch <= f
    <2>1. FlushIdle \in Flushes /\ FlushIdle \in Nat
        BY DEF Flushes, SmallFlushes
    <2>2. pos - scratch <= FlushIdle
        BY <1>2, <2>1
    <2>3. QED
        BY <2>1, <2>2
<1>10. QED
    BY <1>2, <1>5, <1>6, <1>7, <1>8, <1>9 DEF Audible

\* Every step keeps what is right.
LEMMA ShownNext ==
    ASSUME NEW j \in Nat, SmallFlushes(j)
    PROVE  Shown(j) /\ [Next]_vars => Shown(j)'
PROOF
<1> SUFFICES ASSUME Shown(j), [Next]_vars PROVE Shown(j)'
    OBVIOUS
<1>1. RowsInPlace(j) /\ RowsInPlace(j)'
    BY RowsNext DEF Shown
<1>2. audio' = audio
    BY DEF Next, Chunk, Tick, RequestCancel, Reset, Stopped, Rebuild, Piece, vars
<1>3. ASSUME Distinct(j) PROVE Audible(j)'
    <2>1. Audible(j)
        BY <1>3 DEF Shown
    <2>2. CASE Chunk
        BY <1>1, <1>3, <2>1, <2>2, ChunkAudible
    <2>3. CASE Tick
        BY <1>1, <1>3, <2>1, <2>3, TickAudible
    <2>4. CASE RequestCancel \/ UNCHANGED vars
        BY <2>1, <2>4, CancelAudible
    <2>5. CASE Reset \/ Rebuild
        BY <1>1, <1>3, <2>1, <2>5, ResetAudible
    <2>6. CASE Stopped
        BY <1>1, <1>3, <2>1, <2>6, StoppedAudible
    <2>7. CASE Piece
        BY <1>1, <1>3, <2>1, <2>7, PieceAudible
    <2>8. QED
        BY <2>2, <2>3, <2>4, <2>5, <2>6, <2>7 DEF Next
<1>4. Distinct(j)' => Distinct(j)
    BY <1>2 DEF Distinct
<1>5. QED
    BY <1>1, <1>3, <1>4 DEF Shown

\* What was kept is the image's own.
LEMMA ShownImages ==
    ASSUME NEW j \in Nat, Shown(j), Distinct(j)
    PROVE  SnapshotIsImage
PROOF
<1>1. /\ RecordingsRight(recordings, audio, Undisturbed) /\ FinalsRight(saved)
      /\ Following /\ Separate(audio, j) /\ AllReadable(audio, j)
    BY DistinctIs DEF Shown, Audible
<1>2. DOMAIN recordings = 1 .. Len(recordings) /\ DOMAIN saved = 1 .. Len(saved)
    BY <1>1, OneAppended DEF RecordingsRight, Following, ImagesOnce
<1>3. ASSUME NEW k \in DOMAIN recordings
      PROVE  /\ FirstHeader(audio, recordings[k].lo, recordings[k].hi) = recordings[k].header
             /\ incremental /\ meddling = 0 =>
                  recordings[k].header.at + VisLength + (Lines - 1) * Period <= recordings[k].hi
    BY <1>1, <1>2 DEF RecordingsRight, Undisturbed
<1>4. \A m \in DOMAIN saved : saved[m].final = saved[m].header
    BY <1>1, <1>2 DEF FinalsRight
<1>5. QED
    BY <1>3, <1>4 DEF SnapshotIsImage

\* Of a recording whose syncs are steady, every header of a mode and no image
\* within another, the audio kept of a finished image begins with this image's
\* header and, undisturbed and row by row, holds its last line; so the second
\* decode of it never puts another image in its place.  This holds if no flush
\* is as long as the body of an image less a line: then two images never end
\* in one flush, whose snapshot is only that of the last
\* (IncrementalDecoder._retained_buffer_trimmed, Decoder.feed,
\* RxWorker._flush and _dispatch).
THEOREM SnapshotsAreImages ==
    ASSUME NEW j \in Nat, SmallFlushes(j)
    PROVE  Spec => [](Distinct(j) => SnapshotIsImage)
PROOF
<1>1. Init => Shown(j)
    BY ShownInit
<1>2. Shown(j) /\ [Next]_vars => Shown(j)'
    BY ShownNext
<1>3. Shown(j) => (Distinct(j) => SnapshotIsImage)
    BY ShownImages
<1>4. QED
    BY <1>1, <1>2, <1>3, PTL DEF Spec

=============================================================================
