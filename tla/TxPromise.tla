----------------------------- MODULE TxPromise ------------------------------
(***************************************************************************)
(* What TxWorker promises the threads that dispatch and stop transmissions *)
(* (class TxWorker of open_sstv/ui/workers.py), without its rig, its       *)
(* watchdog and its locks: dispatched transmissions run one at a time and  *)
(* in order, each ends with one outcome, and a Stop covers everything      *)
(* dispatched so far.                                                      *)
(*                                                                         *)
(* TxWorker implements this (its property PromiseKept); RemoteTx uses it   *)
(* as its worker.                                                          *)
(***************************************************************************)
EXTENDS Integers

CONSTANT MaxTx

VARIABLES
  issued,    \* transmissions dispatched
  slotsRun,  \* transmissions begun: the number of the current one
  covers,    \* those up to this number are stopped
  stop,      \* the stop flag
  stage,     \* "idle", "running" or "ending"
  outcome    \* how the current transmission, or the last one, ended

promiseVars == <<issued, slotsRun, covers, stop, stage, outcome>>

Init ==
  /\ issued = 0 /\ slotsRun = 0 /\ covers = 0 /\ stop = FALSE
  /\ stage = "idle" /\ outcome = "none"

Dispatch ==
  /\ issued < MaxTx
  /\ issued' = issued + 1
  /\ UNCHANGED <<slotsRun, covers, stop, stage, outcome>>

\* A transmission already stopped ends as it begins.
BeginCovered ==
  /\ stage = "idle" /\ slotsRun < issued
  /\ slotsRun + 1 <= covers
  /\ slotsRun' = slotsRun + 1
  /\ stage' = "ending" /\ outcome' = "aborted"
  /\ UNCHANGED <<issued, covers, stop>>

Begin ==
  /\ stage = "idle" /\ slotsRun < issued
  /\ slotsRun + 1 > covers
  /\ slotsRun' = slotsRun + 1
  /\ stop' = FALSE
  /\ stage' = "running" /\ outcome' = "none"
  /\ UNCHANGED <<issued, covers>>

\* It completes only if nothing stopped it.
Conclude ==
  /\ stage = "running"
  /\ stage' = "ending"
  /\ outcome' \in {"complete", "aborted", "error"}
  /\ stop => outcome' # "complete"
  /\ UNCHANGED <<issued, slotsRun, covers, stop>>

\* transmission_finished: the worker is idle.
End ==
  /\ stage = "ending"
  /\ stage' = "idle"
  /\ UNCHANGED <<issued, slotsRun, covers, stop, outcome>>

RequestStop ==
  /\ stop' = TRUE
  /\ covers' = issued
  /\ UNCHANGED <<issued, slotsRun, stage, outcome>>

\* The watchdog stops the current transmission only.
Overrun ==
  /\ stop' = TRUE
  /\ UNCHANGED <<issued, slotsRun, covers, stage, outcome>>

Next == \/ Dispatch \/ BeginCovered \/ Begin \/ Conclude \/ End
        \/ RequestStop \/ Overrun

Spec == Init /\ [][Next]_promiseVars

=============================================================================
