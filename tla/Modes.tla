------------------------------- MODULE Modes -------------------------------
(***************************************************************************)
(* The mode table of core/modes.py, and where the decoders of              *)
(* core/decoder.py and core/incremental_decoder.py cut the channels of a   *)
(* line.                                                                   *)
(*                                                                         *)
(* The floating-point milliseconds of the code are whole numbers here, in  *)
(* a unit of each family: microseconds, half microseconds for Wraase       *)
(* SC2, the mode's own time unit (1000/4800 ms, ...) for Pasokon.          *)
(***************************************************************************)
EXTENDS Integers, FiniteSets

RGB == {"R", "G", "B"}
YC == {"Y", "C"}
PairChannels == {"Y0", "Cr", "Cb", "Y1"}

\* A ModeSpec: layout is color_layout without its order, beforeRed its
\* sync_position, height the number of syncs.
Spec3(vis, width, height, sync, porch, line) ==
    [vis |-> vis, width |-> width, height |-> height, sync |-> sync, porch |-> porch,
     line |-> line, layout |-> RGB, beforeRed |-> FALSE]

MartinSync == 4862
MartinPorch == 572
Martin(vis, height, scan) ==
    Spec3(vis, 320, height, MartinSync, MartinPorch, MartinSync + 4 * MartinPorch + 3 * scan)

ScottieSync == 9000
ScottiePorch == 1500
Scottie(vis, height, scan) ==
    [Spec3(vis, 320, height, ScottieSync, ScottiePorch,
           ScottieSync + 3 * ScottiePorch + 3 * scan) EXCEPT !.beforeRed = TRUE]

Robot36Sync == 9000
Robot36SyncPorch == 3000
Robot36YScan == 88000
Robot36Gap == 4500
Robot36Porch == 1500
Robot36CScan == 44000
Robot36 ==
    [Spec3(8, 320, 240, Robot36Sync, Robot36SyncPorch,
           Robot36Sync + Robot36SyncPorch + Robot36YScan + Robot36Gap + Robot36Porch + Robot36CScan)
     EXCEPT !.layout = YC]

\* One sync covers two image rows.
PDSync == 20000
PDPorch == 2080
PD(vis, width, height, channel) ==
    [Spec3(vis, width, height, PDSync, PDPorch, PDSync + PDPorch + 4 * channel)
     EXCEPT !.layout = PairChannels]

WraaseSync == 11045
WraasePorch == 1000
Wraase180Scan == 470000
Wraase120Scan == 312000
Wraase(vis, line) == Spec3(vis, 320, 256, WraaseSync, WraasePorch, WraaseSync + WraasePorch + line)

PasokonSync == 25
PasokonScan == 640
PasokonGap == 5
Pasokon(vis) ==
    Spec3(vis, 640, 496, PasokonSync, PasokonGap, PasokonSync + 4 * PasokonGap + 3 * PasokonScan)

MartinModes == {"martin_m1", "martin_m2", "martin_m3", "martin_m4"}
ScottieModes == {"scottie_s1", "scottie_s2", "scottie_dx", "scottie_s3", "scottie_s4"}
PDModes == {"pd_50", "pd_90", "pd_120", "pd_160", "pd_180", "pd_240", "pd_290"}
WraaseModes == {"wraase_sc2_120", "wraase_sc2_180"}
PasokonModes == {"pasokon_p3", "pasokon_p5", "pasokon_p7"}
Mode == {"robot_36"} \cup MartinModes \cup ScottieModes \cup PDModes
            \cup WraaseModes \cup PasokonModes

MODE_TABLE == [m \in Mode |->
    CASE m = "martin_m1"  -> Martin(44, 256, 146432)
      [] m = "martin_m2"  -> Martin(40, 256, 73216)
      [] m = "martin_m3"  -> Martin(36, 128, 146432)
      [] m = "martin_m4"  -> Martin(32, 128, 73216)
      [] m = "scottie_s1" -> Scottie(60, 256, 138240)
      [] m = "scottie_s2" -> Scottie(56, 256, 88064)
      [] m = "scottie_dx" -> Scottie(76, 256, 345600)
      [] m = "scottie_s3" -> Scottie(52, 128, 138240)
      [] m = "scottie_s4" -> Scottie(48, 128, 88064)
      [] m = "robot_36"   -> Robot36
      [] m = "pd_50"      -> PD(93, 320, 128, 320 * 286)
      [] m = "pd_90"      -> PD(99, 320, 128, 320 * 532)
      [] m = "pd_120"     -> PD(95, 640, 248, 640 * 190)
      [] m = "pd_160"     -> PD(98, 512, 200, 512 * 382)
      [] m = "pd_180"     -> PD(96, 640, 248, 640 * 286)
      [] m = "pd_240"     -> PD(97, 640, 248, 640 * 382)
      [] m = "pd_290"     -> PD(94, 800, 308, 800 * 286)
      [] m = "wraase_sc2_120" -> Wraase(63, 3 * (WraasePorch + Wraase120Scan))
      [] m = "wraase_sc2_180" -> Wraase(55, 3 * Wraase180Scan)
      [] m = "pasokon_p3" -> Pasokon(113)
      [] m = "pasokon_p5" -> Pasokon(114)
      [] OTHER -> Pasokon(115)]

\* Rows of the image, four channels being two rows.
DisplayHeight(spec) ==
    IF Cardinality(spec.layout) = 4 THEN 2 * spec.height ELSE spec.height
\* Length of the image, in the mode's unit.
TotalDuration(spec) == spec.line * spec.height
\* The mode of a VIS code; the codes are those of the table.
ModeFromVis(code) == {m \in Mode : MODE_TABLE[m].vis = code}

----------------------------------------------------------------------------
(* Where a line is cut: for each channel, how far from the line's sync its *)
(* pixels begin and how long they last.                                    *)

Slice(at, span) == [at |-> at, span |-> span]

\* Every decoder takes the scan from what the line leaves for it.
DecodeMartin(spec) ==
    LET scan == (spec.line - spec.sync - 4 * spec.porch) \div 3
        g == spec.sync + spec.porch
    IN  [c \in RGB |-> CASE c = "G" -> Slice(g, scan)
                         [] c = "B" -> Slice(g + scan + spec.porch, scan)
                         [] OTHER   -> Slice(g + 2 * (scan + spec.porch), scan)]

ScottieScan(spec) == (spec.line - spec.sync - 3 * spec.porch) \div 3
\* Green and blue lie before the sync.
DecodeScottie(spec) ==
    LET scan == ScottieScan(spec)
    IN  [c \in RGB |-> CASE c = "G" -> Slice(-(2 * scan + spec.porch), scan)
                         [] c = "B" -> Slice(-scan, scan)
                         [] OTHER   -> Slice(spec.sync + spec.porch, scan)]

DecodeWraase(spec) ==
    LET scan == (spec.line - spec.sync - spec.porch) \div 3
        r == spec.sync + spec.porch
    IN  [c \in RGB |-> CASE c = "R" -> Slice(r, scan)
                         [] c = "G" -> Slice(r + scan, scan)
                         [] OTHER   -> Slice(r + 2 * scan, scan)]

DecodePasokon(spec) ==
    LET scan == (spec.line - spec.sync - 4 * spec.porch) \div 3
        r == spec.sync + spec.porch
    IN  [c \in RGB |-> CASE c = "R" -> Slice(r, scan)
                         [] c = "G" -> Slice(r + scan + spec.porch, scan)
                         [] OTHER   -> Slice(r + 2 * (scan + spec.porch), scan)]

DecodePD(spec) ==
    LET scan == (spec.line - spec.sync - spec.porch) \div 4
        y0 == spec.sync + spec.porch
    IN  [c \in PairChannels |-> CASE c = "Y0" -> Slice(y0, scan)
                                  [] c = "Cr" -> Slice(y0 + scan, scan)
                                  [] c = "Cb" -> Slice(y0 + 2 * scan, scan)
                                  [] OTHER    -> Slice(y0 + 3 * scan, scan)]

\* robot36_dsp, from the constants of the table.
YOffset == Robot36Sync + Robot36SyncPorch
COffset == YOffset + Robot36YScan + Robot36Gap + Robot36Porch
DecodeRobot36 ==
    [c \in YC |-> IF c = "Y" THEN Slice(YOffset, Robot36YScan) ELSE Slice(COffset, Robot36CScan)]

\* _PIXEL_DECODERS
Slices(m) ==
    LET spec == MODE_TABLE[m]
    IN  CASE m \in MartinModes  -> DecodeMartin(spec)
          [] m \in ScottieModes -> DecodeScottie(spec)
          [] m \in PDModes      -> DecodePD(spec)
          [] m \in WraaseModes  -> DecodeWraase(spec)
          [] m \in PasokonModes -> DecodePasokon(spec)
          [] OTHER              -> DecodeRobot36

\* What a channel of a line is taken for, and the image rows it is painted
\* on.  Robot 36 takes red chroma from even lines and blue from odd ones, and
\* copies each to the other row of the pair.
Even(row) == row % 2 = 0
PairOf(row) == IF Even(row) THEN {row, row + 1} ELSE {row - 1, row}
TakenFor(line, c) == IF c = "C" THEN (IF Even(line) THEN "Cr" ELSE "Cb") ELSE c
RowsPainted(m, line, c) ==
    CASE m \in PDModes /\ c = "Y0" -> {2 * line}
      [] m \in PDModes /\ c = "Y1" -> {2 * line + 1}
      [] m \in PDModes /\ c \in {"Cr", "Cb"} -> {2 * line, 2 * line + 1}
      [] c = "C" -> PairOf(line)
      [] OTHER -> {line}

\* fault: the Scottie sync is taken to begin the line
FirstSyncAtStart(spec) == 0
\* first_sync_offset_samples, and the grid that the syncs of an image lie on.
FirstSync(spec) ==
    IF spec.beforeRed THEN 2 * (spec.porch + ScottieScan(spec)) ELSE 0
SyncOf(spec, line) == FirstSync(spec) + line * spec.line
=============================================================================
