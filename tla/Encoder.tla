------------------------------ MODULE Encoder ------------------------------
(***************************************************************************)
(* The SSTV encoder, core/encoder.py over the PySSTV library: the tones of *)
(* an image one after the other, and for how long, from the end of the VIS *)
(* header.  The classes of the library that are used as they are have      *)
(* their constants here too: what the encoder sends is compared with what  *)
(* the decoders make of it from the mode table, which is another list of   *)
(* numbers.                                                                *)
(*                                                                         *)
(* Pixels are not modelled: a scan is one part, with the image rows whose  *)
(* colour it carries.                                                      *)
(***************************************************************************)
EXTENDS Modes, Sequences

VARIABLES
    sending,   \* the mode being encoded, or NoMode
    line,      \* lines sent
    part,      \* parts of this line sent
    clock      \* length of the image so far

encVars == <<sending, line, part, clock>>

NoMode == "none"

\* A scan carries the channel ch, "shows" says of which colour.
Part(kind, ch, shows, rows, time) ==
    [kind |-> kind, ch |-> ch, shows |-> shows, rows |-> rows, time |-> time]
Sync(time) == Part("sync", "", "", {}, time)
Gap(time) == Part("gap", "", "", {}, time)
Scan(ch, rows, time) == Part("scan", ch, ch, rows, time)

\* A PySSTV class: lines is how often its loop over the rows runs.
Class(vis, width, height, lines) ==
    [vis |-> vis, width |-> width, height |-> height, lines |-> lines]

----------------------------------------------------------------------------
(* The lines that each family of classes sends.                            *)

\* PySSTV's Martin, Pasokon: a gap before each channel and after the last.
Gapped(l, c1, c2, c3, sync, gap, scan) ==
    <<Sync(sync), Gap(gap), Scan(c1, {l}, scan), Gap(gap), Scan(c2, {l}, scan),
      Gap(gap), Scan(c3, {l}, scan), Gap(gap)>>
SendMartin(l, scan) == Gapped(l, "G", "B", "R", 4862, 572, scan)
SendPasokon(l) == Gapped(l, "R", "G", "B", 25, 5, 640)

\* fault: the split of PySSTV, whose channels are a gap shorter
SendScottieShort(l, scan) ==
    <<Gap(1500), Scan("G", {l}, scan - 1500), Gap(1500),
      Gap(1500), Scan("B", {l}, scan - 1500), Gap(1500),
      Sync(9000), Gap(1500), Scan("R", {l}, scan - 1500)>>

\* The encoder's own Scottie: the sync comes before red.
SendScottie(l, scan) ==
    <<Gap(1500), Scan("G", {l}, scan), Gap(1500), Scan("B", {l}, scan),
      Sync(9000), Gap(1500), Scan("R", {l}, scan)>>

\* PySSTV's Wraase SC2: a porch before red; SC2-120 has one before every
\* channel as well.
SendWraase180(l) ==
    <<Sync(11045), Gap(1000), Scan("R", {l}, 470000), Scan("G", {l}, 470000),
      Scan("B", {l}, 470000)>>
SendWraase120(l) ==
    <<Sync(11045), Gap(1000), Gap(1000), Scan("R", {l}, 312000),
      Gap(1000), Scan("G", {l}, 312000), Gap(1000), Scan("B", {l}, 312000)>>

\* PySSTV's PD: two rows a line.
SendPD(l, scan) ==
    LET both == {2 * l, 2 * l + 1}
    IN  <<Sync(20000), Gap(2080), Scan("Y0", {2 * l}, scan), Scan("Cr", both, scan),
          Scan("Cb", both, scan), Scan("Y1", {2 * l + 1}, scan)>>

\* Robot36LinePair: two rows in two halves, each with its own sync; a half
\* is a line here.  Chroma is the mean of both rows, red in the even half.
SendRobot36(l) ==
    LET chroma == IF Even(l) THEN "Cr" ELSE "Cb"
    IN  <<Sync(9000), Gap(3000), Scan("Y", {l}, 88000), Gap(4500), Gap(1500),
          Part("scan", "C", chroma, PairOf(l), 44000)>>

PDWidth(m) == CASE m = "pd_160" -> 512 [] m = "pd_290" -> 800
                [] m \in {"pd_50", "pd_90"} -> 320 [] OTHER -> 640
PDPixel(m) == CASE m \in {"pd_50", "pd_180", "pd_290"} -> 286 [] m = "pd_90" -> 532
                [] m = "pd_120" -> 190 [] OTHER -> 382
ScottieSCAN(m) == CASE m \in {"scottie_s1", "scottie_s3"} -> 138240
                    [] m = "scottie_dx" -> 345600 [] OTHER -> 88064
MartinSCAN(m) == IF m \in {"martin_m1", "martin_m3"} THEN 146432 ELSE 73216

Parts(m, l) ==
    CASE m \in MartinModes  -> SendMartin(l, MartinSCAN(m))
      [] m \in ScottieModes -> SendScottie(l, ScottieSCAN(m))
      [] m \in PDModes      -> SendPD(l, PDWidth(m) * PDPixel(m))
      [] m \in PasokonModes -> SendPasokon(l)
      [] m = "wraase_sc2_180" -> SendWraase180(l)
      [] m = "wraase_sc2_120" -> SendWraase120(l)
      [] OTHER              -> SendRobot36(l)

\* _PYSSTV_CLASSES: VIS_CODE, WIDTH, HEIGHT.
MartinM1 == Class(44, 320, 256, 256)
ScottieS1 == Class(60, 320, 256, 256)
PDClass(vis, m, height) == Class(vis, PDWidth(m), height, height \div 2)
ClassOf(m) ==
    CASE m = "martin_m1" -> MartinM1
      [] m = "martin_m2" -> [MartinM1 EXCEPT !.vis = 40]
      [] m = "martin_m3" -> [MartinM1 EXCEPT !.vis = 36, !.height = 128, !.lines = 128]
      [] m = "martin_m4" -> [MartinM1 EXCEPT !.vis = 32, !.height = 128, !.lines = 128]
      [] m = "scottie_s1" -> ScottieS1
      [] m = "scottie_s2" -> [ScottieS1 EXCEPT !.vis = 56]
      [] m = "scottie_dx" -> [ScottieS1 EXCEPT !.vis = 76]
      [] m = "scottie_s3" -> [ScottieS1 EXCEPT !.vis = 52, !.height = 128, !.lines = 128]
      [] m = "scottie_s4" -> [ScottieS1 EXCEPT !.vis = 48, !.height = 128, !.lines = 128]
      [] m = "pd_50"  -> PDClass(93, m, 256)
      [] m = "pd_90"  -> PDClass(99, m, 256)
      [] m = "pd_120" -> PDClass(95, m, 496)
      [] m = "pd_160" -> PDClass(98, m, 400)
      [] m = "pd_180" -> PDClass(96, m, 496)
      [] m = "pd_240" -> PDClass(97, m, 496)
      [] m = "pd_290" -> PDClass(94, m, 616)
      [] m = "wraase_sc2_120" -> Class(63, 320, 256, 256)
      [] m = "wraase_sc2_180" -> Class(55, 320, 256, 256)
      [] m = "pasokon_p3" -> Class(113, 640, 496, 496)
      [] m = "pasokon_p5" -> Class(114, 640, 496, 496)
      [] m = "pasokon_p7" -> Class(243, 640, 496, 496)
      [] OTHER -> Class(8, 320, 240, 240)

\* Seven bits of the VIS code are sent.
VisSent(m) == ClassOf(m).vis % 128

----------------------------------------------------------------------------
EncInit == sending = NoMode /\ line = 0 /\ part = 0 /\ clock = 0

\* encode: the image is brought to the class's size, the header sent.
EncodeImage(m) ==
    /\ sending = NoMode
    /\ sending' = m /\ line' = 0 /\ part' = 0 /\ clock' = 0

Coming == Parts(sending, line)[part + 1]

\* gen_image_tuples: the next tone.
Send ==
    /\ sending # NoMode /\ line < ClassOf(sending).lines
    /\ clock' = clock + Coming.time
    /\ IF part + 1 < Len(Parts(sending, line))
         THEN part' = part + 1 /\ UNCHANGED line
         ELSE part' = 0 /\ line' = line + 1
    /\ UNCHANGED sending

Over == sending # NoMode /\ line = ClassOf(sending).lines
Return ==
    /\ Over
    /\ sending' = NoMode /\ line' = 0 /\ part' = 0 /\ clock' = 0

EncNext == (\E m \in Mode : EncodeImage(m)) \/ Send \/ Return
EncSpec == EncInit /\ [][EncNext]_encVars

----------------------------------------------------------------------------
(* Properties.                                                             *)

InLine == sending # NoMode /\ line < ClassOf(sending).lines
Table == MODE_TABLE[sending]

\* SC2-120's decoder leaves out the porch of each channel (the note at its
\* entry of the mode table): it cuts every channel one porch early.
Early == IF sending = "wraase_sc2_120" THEN WraasePorch ELSE 0

(* The sync of every line is sent where the decoders' grid, anchored at    *)
(* the end of the header, expects it (line0_sync_hint, walk_sync_grid).    *)
SyncsOnGrid == InLine /\ Coming.kind = "sync" => clock = SyncOf(Table, line)

(* Every channel is sent where and for as long as the decoder of its mode  *)
(* reads it, and painted as the colour and on the rows it was made of.     *)
ScansAreRead ==
    InLine /\ Coming.kind = "scan"
        => LET slice == Slices(sending)[Coming.ch]
           IN  /\ clock = SyncOf(Table, line) + slice.at + Early
               /\ Coming.time = slice.span - Early
               /\ Coming.shows = TakenFor(line, Coming.ch)
               /\ Coming.rows = RowsPainted(sending, line, Coming.ch)

(* An image is as long as the table says, which the receiver's watchdog    *)
(* and its buffers go by, and its header and its rows name its mode and    *)
(* its size.                                                               *)
LengthAsListed == Over => clock = TotalDuration(Table)
KnownByItsHeader ==
    sending # NoMode
        => /\ ModeFromVis(VisSent(sending)) = {sending}
           /\ ClassOf(sending).width = Table.width
           /\ ClassOf(sending).height = DisplayHeight(Table)
           /\ ClassOf(sending).lines = Table.height

\* What this program sends, its decoders read where it was sent.
HeardAsSent == SyncsOnGrid /\ ScansAreRead /\ LengthAsListed /\ KnownByItsHeader
=============================================================================
