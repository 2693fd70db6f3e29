------------------------------ MODULE BandTune ------------------------------
(***************************************************************************)
(* Tuning to an entry of the band plan: the popup of ui/radio_panel.py, the *)
(* mode the settings ask for (radio/band_plan.py), and the command the poll *)
(* thread sends and then verifies (_RigPollWorker.tune in ui/main_window.   *)
(* py).                                                                     *)
(*                                                                         *)
(* A backend reports the frequency when asked, or from what the radio last *)
(* pushed, or not at all.  The radio may refuse a command, or take it and  *)
(* stay where it is (a locked dial), and the operator turns its knobs.     *)
(***************************************************************************)
EXTENDS Naturals, Sequences

CONSTANTS
    MaxTunes,      \* bound: entries picked
    MaxTurns,      \* bound: turns of the radio's own knobs
    SettleRetries  \* _FREQ_SETTLE_RETRIES

ASSUME TuneAssumption == MaxTunes \in Nat /\ MaxTurns \in Nat /\ SettleRetries \in Nat

VARIABLES
    setup,   \* [policy, reports, mapped]: the settings and the backend, fixed
    knobs,   \* [freq, mode]: where the radio is
    pushed,  \* the frequency the radio pushed last
    popup,   \* the band menu is open
    onAir,   \* a transmission is in flight
    orders,  \* tunes queued for the poll thread
    tune,    \* the tune under way
    picks, turns

tuneVars == <<setup, knobs, pushed, popup, onAir, orders, tune, picks, turns>>

\* Frequencies are 1 and 2; 0 is "not reported".
BandPlan == {[freq |-> 1, mode |-> "USB"], [freq |-> 2, mode |-> "LSB"], [freq |-> 2, mode |-> "FM"]}
NoTune == [at |-> "none"]

\* mode_family and DATA_MODE_BY_PROTOCOL.
FamilyOf(mode) == CASE mode = "PKTUSB" -> "USB" [] mode = "PKTLSB" -> "LSB" [] OTHER -> mode
DataMode == [USB |-> "PKTUSB", LSB |-> "PKTLSB"]

\* resolve_tune_mode: nothing at all, the data variant where there is one, or
\* the plain mode.
Resolved(mode) ==
    IF setup.policy = "none" THEN ""
    ELSE IF setup.policy = "data" /\ setup.mapped /\ FamilyOf(mode) \in DOMAIN DataMode
    THEN DataMode[FamilyOf(mode)]
    ELSE mode

TuneInit ==
    /\ setup \in [policy : {"none", "voice", "data"}, mapped : BOOLEAN,
                  reports : {"asked", "pushed", "nothing"}]
    /\ knobs \in [freq : {1, 2}, mode : {"USB", "PKTUSB"}]
    /\ pushed = knobs.freq
    /\ popup = FALSE /\ onAir = FALSE /\ orders = <<>> /\ tune = NoTune
    /\ picks = 0 /\ turns = 0

----------------------------------------------------------------------------
(* The window.  The button is dead during a transmission; an entry of a     *)
(* menu that is already open is not.                                        *)

OpenMenu ==
    /\ ~onAir /\ ~popup /\ picks < MaxTunes
    /\ popup' = TRUE
    /\ UNCHANGED <<setup, knobs, pushed, onAir, orders, tune, picks, turns>>

\* _on_tune_requested
Pick(entry) ==
    LET mode == Resolved(entry.mode) IN
    /\ popup /\ popup' = FALSE /\ picks' = picks + 1
    /\ orders' = Append(orders, [freq |-> entry.freq, mode |-> mode,
                                 exact |-> mode # "" /\ mode # entry.mode])
    /\ UNCHANGED <<setup, knobs, pushed, onAir, tune, turns>>

TxToggles ==
    /\ picks > 0 /\ onAir' = ~onAir
    /\ UNCHANGED <<setup, knobs, pushed, popup, orders, tune, picks, turns>>

----------------------------------------------------------------------------
(* The poll thread.  tune() does not ask whether a transmission runs.       *)

Verify == IF tune.set THEN "verify" ELSE "end"
Go(at) == tune' = [tune EXCEPT !.at = at]
Failed(what, at) == tune' = [tune EXCEPT !.at = at, !.errors = @ \cup {what}]
KeepOthers == UNCHANGED <<setup, popup, onAir, picks, turns>>

TuneBegins ==
    /\ tune = NoTune /\ orders # <<>>
    /\ orders' = Tail(orders)
    /\ tune' = [at |-> "freq", order |-> Head(orders), set |-> TRUE, errors |-> {},
                left |-> SettleRetries, fits |-> FALSE,
                \* history
                reached |-> FALSE, old |-> FALSE]
    /\ KeepOthers /\ UNCHANGED <<knobs, pushed>>

AfterFreq == IF tune.order.mode = "" THEN Verify ELSE "read"

\* set_freq raises, or is taken, and the radio moves or does not.
SetsFreq ==
    /\ tune.at = "freq"
    /\ \/ /\ tune' = [tune EXCEPT !.errors = {"frequency"}, !.set = FALSE,
                                  !.at = IF tune.order.mode = "" THEN "end" ELSE "read"]
          /\ UNCHANGED knobs
       \/ /\ \E moves \in BOOLEAN :
               knobs' = IF moves THEN [knobs EXCEPT !.freq = tune.order.freq] ELSE knobs
          /\ tune' = [tune EXCEPT !.at = AfterFreq,
                         !.reached = knobs'.freq = tune.order.freq,
                         !.old = pushed = tune.order.freq /\ knobs.freq # pushed]
    /\ KeepOthers /\ UNCHANGED <<pushed, orders>>

\* Does the mode the radio is in serve?  Exactly the data mode asked for, or
\* any of the same sideband.  A mode that cannot be read does not.
Serves(mode) ==
    IF tune.order.exact THEN mode = tune.order.mode
    ELSE FamilyOf(mode) = FamilyOf(tune.order.mode)

ReadsMode ==
    /\ tune.at = "read"
    /\ \E mode \in {knobs.mode, ""} :
          tune' = IF Serves(mode) THEN [tune EXCEPT !.at = Verify, !.fits = TRUE]
                  ELSE [tune EXCEPT !.at = "mode"]
    /\ KeepOthers /\ UNCHANGED <<knobs, pushed, orders>>

\* set_mode raises, or is taken, and the radio follows or does not.
SetsMode ==
    /\ tune.at = "mode"
    /\ \/ Failed("mode", Verify) /\ UNCHANGED knobs
       \/ /\ \E follows \in BOOLEAN :
               knobs' = IF follows THEN [knobs EXCEPT !.mode = tune.order.mode] ELSE knobs
          /\ tune' = [tune EXCEPT !.at = Verify, !.fits = TRUE]
    /\ KeepOthers /\ UNCHANGED <<pushed, orders>>

ReadBack == CASE setup.reports = "asked"   -> knobs.freq
              [] setup.reports = "pushed"  -> pushed
              [] setup.reports = "nothing" -> 0

\* _verify_freq_settled: a backend that reports no frequency is believed,
\* another is asked a few times.
Verifies ==
    /\ tune.at = "verify"
    /\ \/ Failed("frequency", "end")
       \/ ReadBack \in {0, tune.order.freq} /\ Go("end")
       \/ /\ ReadBack \notin {0, tune.order.freq}
          /\ IF tune.left > 0 THEN tune' = [tune EXCEPT !.left = @ - 1]
             ELSE Failed("frequency", "end")
    /\ KeepOthers /\ UNCHANGED <<knobs, pushed, orders>>

\* The errors, if any, are shown.
TuneEnds ==
    /\ tune.at = "end"
    /\ tune' = NoTune
    /\ KeepOthers /\ UNCHANGED <<knobs, pushed, orders>>

----------------------------------------------------------------------------
(* The radio.                                                               *)

TurnKnob ==
    /\ turns < MaxTurns /\ turns' = turns + 1
    /\ \/ knobs' = [knobs EXCEPT !.freq = 3 - @]
       \/ \E mode \in {"USB", "PKTUSB", "LSB"} \ {knobs.mode} :
             knobs' = [knobs EXCEPT !.mode = mode]
    /\ tune' = IF tune # NoTune /\ tune.at # "freq" /\ knobs'.freq = tune.order.freq
               THEN [tune EXCEPT !.reached = TRUE] ELSE tune
    /\ UNCHANGED <<setup, pushed, popup, onAir, orders, picks>>

PushesFreq ==
    /\ pushed # knobs.freq
    /\ pushed' = knobs.freq
    /\ UNCHANGED <<setup, knobs, popup, onAir, orders, tune, picks, turns>>

TuneNext ==
    \/ OpenMenu \/ TxToggles
    \/ \E entry \in BandPlan : Pick(entry)
    \/ TuneBegins \/ SetsFreq \/ ReadsMode \/ SetsMode \/ Verifies \/ TuneEnds
    \/ TurnKnob \/ PushesFreq

----------------------------------------------------------------------------
(* Properties.                                                              *)

\* A tune that reports no failure was one: the radio has been on the frequency
\* since (but for a backend that reports none, or whose last push, of before
\* the tune, named it already), and it was in a mode that serves or took the
\* command.  The mode is seen to even when the frequency failed.
TuneToldTrue ==
    tune.at = "end" =>
        /\ tune.errors = {} /\ setup.reports # "nothing" /\ ~tune.old => tune.reached
        /\ tune.order.mode # "" /\ "mode" \notin tune.errors => tune.fits

\* radio_panel.py:267: "Enable the Band Plan button only when a rig is
\* connected and idle."
NotTunedOnAir == tune # NoTune /\ tune.at = "freq" => ~onAir
=============================================================================
