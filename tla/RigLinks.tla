------------------------------ MODULE RigLinks ------------------------------
(***************************************************************************)
(* The rig backend of the running application: the settings choose one     *)
(* connection mode, and with it one family of backends.  The others stay   *)
(* unopened.  Tuning, which uses whichever there is, is followed by itself *)
(* against what the backends have in common.                               *)
(***************************************************************************)
EXTENDS RigWire, FlexLink, TciLink, BandTune

VARIABLE mode  \* the family of the backend in use, or "tune"

Modes == {"wire", "flex", "tci", "tune"}

LinksInit ==
    /\ mode \in Modes
    /\ WireInit(IF mode = "wire" THEN Kinds ELSE {"line"})
    /\ FlexInit
    /\ TciInit
    /\ TuneInit
    /\ mode # "tune" => /\ setup.policy = "none" /\ ~setup.mapped /\ setup.reports = "asked"
                       /\ knobs.freq = 1 /\ knobs.mode = "USB"

LinksNext ==
    \/ mode = "wire" /\ WireNext /\ UNCHANGED <<mode, flexVars, tciVars, tuneVars>>
    \/ mode = "flex" /\ FlexNext /\ UNCHANGED <<mode, wireVars, tciVars, tuneVars>>
    \/ mode = "tci"  /\ TciNext  /\ UNCHANGED <<mode, wireVars, flexVars, tuneVars>>
    \/ mode = "tune" /\ TuneNext /\ UNCHANGED <<mode, wireVars, flexVars, tciVars>>

LinksSpec == LinksInit /\ [][LinksNext]_<<mode, wireVars, flexVars, tciVars, tuneVars>>

\* What the backend, or the tune, tells whoever asked is what the radio did.
\* One answer is excused: a CI-V set, an unkey too, that is acknowledged by an
\* overdue OK of an earlier set.  The code reports it as done although the rig
\* may have missed it, since the OK names no command (serial_rig.py:463-464);
\* here told is "?" then, and nothing is claimed.
ToldTrue == AnswersTrue /\ TuneToldTrue
=============================================================================
