------------------------------- MODULE Daemon -------------------------------
(***************************************************************************)
(* The rigctld processes this program starts (radio/rigctld_launcher.py):  *)
(* Connect starts one when the configuration asks for it, the Settings     *)
(* dialog starts one on a button.  Each side keeps its process in a field, *)
(* _rigctld_proc, and a process nobody's field names is nobody's to stop.  *)
(* Accepting the dialog hands its process to the main window.              *)
(*                                                                         *)
(* A process gets a number when it is started; 0 is an empty field.        *)
(***************************************************************************)
EXTENDS Naturals, FiniteSets

CONSTANT MaxProcs      \* bound: processes started

ASSUME ProcsAssumption == MaxProcs \in Nat \ {0}

Procs == 1 .. MaxProcs
Nobody == 0

VARIABLES
    born,       \* processes started so far
    alive,      \* the processes that run
    own,        \* the main window's _rigctld_proc
    dialog,     \* the Settings dialog is open
    dlgProc     \* its _rigctld_proc

dialogVars == <<dialog, dlgProc>>
daemonVars == <<born, alive, own, dialogVars>>

DaemonInit ==
    /\ born = 0 /\ alive = {} /\ own = Nobody
    /\ dialog = FALSE /\ dlgProc = Nobody

\* A process is started; it may leave at once: a port that is taken, a
\* serial line that is not there.
Launch ==
    /\ born < MaxProcs
    /\ born' = born + 1
    /\ \E up \in BOOLEAN : alive' = IF up THEN alive \cup {born + 1} ELSE alive

\* What terminate(), or kill() if it is ignored, leaves of the processes.
Stopped(p) == alive \ {p}

KillRigctld ==
    /\ alive' = Stopped(own)
    /\ own' = Nobody

\* Accept: the dialog's process replaces the main window's, which is killed.
Adopt ==
    IF dlgProc # Nobody
        THEN /\ own' = dlgProc
             /\ alive' = IF own # Nobody THEN Stopped(own) ELSE alive
        ELSE UNCHANGED <<own, alive>>

\* A connect attempt failed: a process that has left is forgotten, so that
\* the next attempt starts another.
ForgetDead == own' = IF own \in alive THEN own ELSE Nobody

DialogLaunch ==
    /\ dialog /\ dlgProc = Nobody
    /\ Launch
    /\ dlgProc' = born'
    /\ UNCHANGED <<own, dialog>>

DialogStop ==
    /\ dialog /\ dlgProc # Nobody
    /\ alive' = Stopped(dlgProc)
    /\ dlgProc' = Nobody
    /\ UNCHANGED <<born, own, dialog>>

\* Cancel, Escape, the dialog's close button, or Qt closing it to quit.
DialogReject ==
    /\ dialog
    /\ alive' = IF dlgProc # Nobody THEN Stopped(dlgProc) ELSE alive
    /\ dialog' = FALSE /\ dlgProc' = Nobody
    /\ UNCHANGED <<born, own>>

DialogAccept ==
    /\ dialog
    /\ Adopt
    /\ dialog' = FALSE /\ dlgProc' = Nobody
    /\ UNCHANGED born

\* rigctld leaves by itself.
Dies ==
    /\ \E p \in alive : alive' = alive \ {p}
    /\ UNCHANGED <<born, own, dialogVars>>

-----------------------------------------------------------------------------
(* Every running process is somebody's to stop: the main window's, or the  *)
(* open dialog's.  "the old process was leaked: still holding the serial   *)
(* port" (main_window.py, _open_settings).                                 *)
NoOrphanDaemon == alive \subseteq {own, dlgProc} /\ (~dialog => alive \subseteq {own})

=============================================================================
