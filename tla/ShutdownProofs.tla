--------------------------- MODULE ShutdownProofs ---------------------------
(***************************************************************************)
(* That leaving the program leaves nothing behind (TornDown), drops the    *)
(* PTT (PttDropped) and takes no transmitting radio from under its unkey   *)
(* (RigNotPulled), for any number of connect attempts, stuck threads,      *)
(* pictures, processes and faults.                                         *)
(*                                                                         *)
(* Each stage of closeEvent establishes a fact about one group of threads  *)
(* or resources, and the rest of the argument is that nothing which still  *)
(* runs behind the stage undoes it: the clicks, timers and queued signals  *)
(* of the drain, the workers not yet stopped, the unkey threads.           *)
(***************************************************************************)
EXTENDS Shutdown, TLAPS

PastTx == {"workers", "logbook", "rig", "complete", "gone"}
PastDrain == {"drained", "unkeying"} \cup PastTx
PastWorkers == PastTx \ {"workers"}
BeforeOffline == {"open", "reclaim", "connects"}
Guis == BeforeOffline \cup {"offline", "drain"} \cup PastDrain

Shape ==
  /\ gui \in Guis
  /\ phase \in {"idle", "encoding", "arming", "playing", "unkeying"}
  /\ unkeyer \in [{"early", "last"} -> {"none", "running", "over"}]
  /\ running \subseteq Threads

\* The transmitter is on only while its worker knows which radio it keyed, or
\* after a PTT-off failed.
Carrier ==
  /\ keyed => phase \in {"playing", "unkeying"}
  /\ ptt => keyed \/ failed

\* Behind the wait for the transmission it has ended, or the last unkey was
\* sent, and is over or hangs in the radio.
LastUnkey == unkeyer["last"]
Unkeyed ==
  /\ LastUnkey # "none" => gui \in {"unkeying"} \cup PastTx
  /\ gui \in {"unkeying"} \cup PastTx => phase \notin {"encoding", "arming"}
  /\ gui = "unkeying" => LastUnkey # "none"
  /\ gui \in PastTx => Idle \/ LastUnkey # "none"
  /\ gui \in PastTx /\ LastUnkey = "running" => health = "hangs"
  /\ LastUnkey = "over" /\ ptt => failed

\* The threads of a stage that is over have ended or were detached.
Released ==
  /\ gui \notin BeforeOffline =>
        /\ launching => late
        /\ Connects \cap running \subseteq detached \/ late
  /\ gui \notin BeforeOffline \cup {"offline"} => Jobs \cap running \subseteq detached \/ late
  /\ gui \in PastTx => ("tx" \in running => "tx" \in detached)
  /\ gui \in PastWorkers => (Workers \ {"tx"}) \cap running \subseteq detached
  /\ fate = "aborted" => late

Captured ==
  /\ "audio" \in stuck => "audio" \in running
  /\ gui \in PastDrain /\ capturing => "audio" \in stuck \/ cut

Daemons ==
  /\ NoOrphanDaemon
  /\ alive \subseteq 1 .. born /\ born \in Nat
  /\ dlgProc # Nobody => dialog

IInv == Shape /\ Carrier /\ Unkeyed /\ Released /\ Captured /\ LogbookStaysClosed /\ Daemons

-----------------------------------------------------------------------------
LEMMA InitIInv == Init => IInv
  BY DEF Init, DaemonInit, IInv, Shape, Guis, BeforeOffline, PastDrain, PastTx, PastWorkers,
         Threads, Carrier, Unkeyed, LastUnkey, Released, Captured, LogbookStaysClosed, Daemons,
         NoOrphanDaemon, Nobody, Workers

\* The actions by what they touch.
Dialogs == OpenSettings \/ Settings \/ CloseSettings \/ Crashes
Radio == Disconnect \/ Lost \/ FinishDeferred
Attempting == LaunchAndConnect \/ Connect \/ LaunchTimer \/ ConnectTimeout
              \/ \E c \in Connects : ConnectEnds(c)
Offline == Decode \/ Export \/ DecodeEnds \/ ExportEnds
Pictures == ImageArrives \/ Receive \/ AudioStop

\* A click does not reach the window behind the drain.
LEMMA ActionsOf ==
  ASSUME [Next]_vars
  PROVE  \/ UNCHANGED vars \/ Dialogs \/ Radio \/ Attempting \/ Offline \/ Pictures
         \/ Transmit \/ Work \/ UnkeyThread \/ Dismiss \/ Close \/ Stage
  BY DEF Next, Operator, Answer, Event, Gone, Dialogs, Radio, Attempting, Offline, Pictures

\* A connect thread still to be begun.
LEMMA NextConnectIs == Connects \ started # {} => NextConnect \in Connects
  BY DEF NextConnect

\* Threads begin at a click, a connect's also when its rigctld had its half
\* second; they end by themselves or by a stage that stops them.
LEMMA StartConnects ==
  ASSUME Connects \ started # {}, StartConnect(NextConnect)
  PROVE  /\ running' \subseteq running \cup Connects /\ running \subseteq running'
         /\ \A t \in running' : t \in running \/ t \in Connects
  BY NextConnectIs DEF StartConnect

LEMMA ShapeStep == ASSUME Shape, [Next]_vars PROVE Shape'
  <1> USE DEF Shape, Guis, BeforeOffline, PastDrain, PastTx
  <1>1. CASE UNCHANGED vars \/ Dialogs \/ Radio \/ Pictures \/ Dismiss
    BY <1>1 DEF vars, windowVars, threadVars, txVars, Dialogs, OpenSettings, Settings,
           CloseSettings, Crashes, SettingsIdle, Radio, Disconnect, Lost, FinishDeferred,
           Pictures, ImageArrives, Receive, AudioStop, CaptureStep, Dismiss
  <1>2. CASE Attempting
    <2>1. UNCHANGED <<gui, phase, unkeyer>>
      BY <1>2 DEF Attempting, LaunchAndConnect, Connect, LaunchTimer, ConnectTimeout,
             ConnectEnds, txVars
    <2>2. running' \subseteq Threads
      BY <1>2, StartConnects
         DEF Attempting, LaunchAndConnect, Connect, LaunchTimer, ConnectTimeout,
             ConnectEnds, Finished, threadVars, Threads
    <2>3. QED
      BY <2>1, <2>2
  <1>3. CASE Offline
    <2>1. UNCHANGED <<gui, phase, unkeyer>>
      BY <1>3 DEF Offline, Decode, Export, Start, DecodeEnds, ExportEnds, JobEnds, txVars
    <2>2. running' \subseteq Threads
      BY <1>3 DEF Offline, Decode, Export, Start, DecodeEnds, ExportEnds, JobEnds, Finished,
             Threads, Jobs
    <2>3. QED
      BY <2>1, <2>2
  <1>4. CASE Transmit \/ Work \/ UnkeyThread
    <2>1. UNCHANGED <<gui, running>>
      BY <1>4 DEF Transmit, Work, Encoded, Key, Played, Unkey, TxStep, UnkeyThread, threadVars
    <2>2. phase' \in {"idle", "encoding", "arming", "playing", "unkeying"}
      BY <1>4 DEF Transmit, Work, Encoded, Key, Played, Unkey, UnkeyThread
    <2>3. unkeyer' \in [{"early", "last"} -> {"none", "running", "over"}]
      BY <1>4 DEF Transmit, Work, Encoded, Key, Played, Unkey, TxStep, UnkeyThread, EmergencyUnkey
    <2>4. QED
      BY <2>1, <2>2, <2>3
  <1>5. CASE Close \/ Stage
    <2>1. phase' = phase /\ running' \subseteq running
      BY <1>5 DEF Close, Stage, EarlyUnkey, AbortConnect, AbortOffline, Drain, StopTx, JoinLast,
             StopWorkers, CloseLogbook, CloseRig, Exit, StopOrDetach, Finished, threadVars, txVars
    <2>2. gui' \in Guis
      BY <1>5 DEF Close, Stage, EarlyUnkey, AbortConnect, AbortOffline, Drain, DrainEnds, StopTx,
             JoinLast, StopWorkers, CloseLogbook, CloseRig, Exit
    <2>3. unkeyer' \in [{"early", "last"} -> {"none", "running", "over"}]
      BY <1>5 DEF Close, Stage, EarlyUnkey, AbortConnect, AbortOffline, Drain, StopTx, JoinLast,
             StopWorkers, CloseLogbook, CloseRig, Exit
    <2>4. QED
      BY <2>1, <2>2, <2>3
  <1>6. QED
    BY <1>1, <1>2, <1>3, <1>4, <1>5, ActionsOf

-----------------------------------------------------------------------------
(* The transmission and its unkey.                                         *)

\* Only the transmit worker and the unkey threads touch the transmission.
LEMMA TxOnly ==
  ASSUME [Next]_vars
  PROVE  /\ UNCHANGED <<phase, keyed, ptt, failed>> \/ Transmit \/ Work \/ UnkeyThread
         /\ UNCHANGED health
  <1>1. CASE UNCHANGED vars \/ Dialogs \/ Radio \/ Pictures \/ Dismiss
    BY <1>1 DEF vars, txVars, Dialogs, OpenSettings, Settings,
           CloseSettings, Crashes, SettingsIdle, Radio, Disconnect, Lost, FinishDeferred,
           Pictures, ImageArrives, Receive, AudioStop, CaptureStep, Dismiss
  <1>2. CASE Attempting \/ Offline
    BY <1>2 DEF Attempting, LaunchAndConnect, Connect, LaunchTimer, ConnectTimeout,
           ConnectEnds, Offline, Decode, Export, Start, DecodeEnds, ExportEnds, JobEnds, txVars
  <1>3. CASE Close \/ Stage
    BY <1>3 DEF Close, Stage, EarlyUnkey, AbortConnect, AbortOffline, Drain, StopTx, JoinLast,
           StopWorkers, CloseLogbook, CloseRig, Exit, StageIdle, txVars
  <1>4. CASE Transmit \/ Work \/ UnkeyThread
    BY <1>4 DEF Transmit, Work, Encoded, Key, Played, Unkey, TxStep, UnkeyThread
  <1>5. QED
    BY <1>1, <1>2, <1>3, <1>4, ActionsOf

LEMMA CarrierStep == ASSUME Shape, Carrier, [Next]_vars PROVE Carrier'
  <1> USE DEF Shape, Carrier
  <1>1. CASE UNCHANGED <<phase, keyed, ptt, failed>>
    BY <1>1
  <1>2. CASE Transmit
    BY <1>2 DEF Transmit, Idle
  <1>3. CASE Encoded
    BY <1>3 DEF Encoded
  <1>4. CASE Key
    <2>1. phase' = "playing" /\ (ptt' => keyed')
      BY <1>4 DEF Key
    <2>2. QED
      BY <2>1
  <1>5. CASE Played
    BY <1>5 DEF Played
  <1>6. CASE Unkey
    <2>1. phase = "unkeying" /\ ~keyed'
      BY <1>6 DEF Unkey
    <2>2. ptt' => failed'
      BY <1>6 DEF Unkey, PttOff, NoPttOff
    <2>3. QED
      BY <2>1, <2>2
  <1>7. CASE UnkeyThread
    <2>1. UNCHANGED <<phase, keyed>>
      BY <1>7 DEF UnkeyThread
    <2>2. ptt' => keyed' \/ failed'
      BY <1>7, <2>1 DEF UnkeyThread, EmergencyUnkey, PttOff, NoPttOff
    <2>3. QED
      BY <2>1, <2>2
  <1>8. QED
    BY <1>1, <1>2, <1>3, <1>4, <1>5, <1>6, <1>7, TxOnly DEF Work

\* Only the unkey threads themselves and three stages touch the unkeys.
LEMMA UnkeyerOnly ==
  ASSUME [Next]_vars
  PROVE  UNCHANGED unkeyer \/ UnkeyThread \/ EarlyUnkey \/ StopTx
  BY ActionsOf
     DEF vars, txVars, Dialogs, OpenSettings, Settings,
           CloseSettings, Crashes, SettingsIdle, Radio, Disconnect, Lost, FinishDeferred,
           Pictures, ImageArrives, Receive, AudioStop, CaptureStep, Dismiss,
           Attempting, LaunchAndConnect, Connect, LaunchTimer, ConnectTimeout,
           ConnectEnds, Offline, Decode, Export, Start, DecodeEnds, ExportEnds, JobEnds,
           Transmit, Work, Encoded, Key, Played, Unkey, TxStep, Close, Stage, AbortConnect,
           AbortOffline, Drain, JoinLast, StopWorkers, CloseLogbook, CloseRig, Exit

\* Only closeEvent moves on.
LEMMA GuiOnly ==
  ASSUME [Next]_vars
  PROVE  UNCHANGED gui \/ Close \/ Stage
  BY ActionsOf
     DEF vars, Dialogs, OpenSettings, Settings,
           CloseSettings, Crashes, SettingsIdle, Radio, Disconnect, Lost, FinishDeferred,
           Pictures, ImageArrives, Receive, AudioStop, CaptureStep, Dismiss,
           Attempting, LaunchAndConnect, Connect, LaunchTimer, ConnectTimeout,
           ConnectEnds, Offline, Decode, Export, Start, DecodeEnds, ExportEnds, JobEnds,
           Transmit, Work, Encoded, Key, Played, Unkey, TxStep, UnkeyThread

LEMMA UnkeyedStep == ASSUME Shape, Carrier, Unkeyed, [Next]_vars PROVE Unkeyed'
  <1> USE DEF Shape, Guis, BeforeOffline, PastDrain, PastTx, Unkeyed, LastUnkey, Idle
  <1>0. health' = health
    BY TxOnly
  <1>1. CASE Transmit \/ Work
    <2>1. UNCHANGED <<gui, unkeyer>>
      BY <1>1 DEF Transmit, Work, Encoded, Key, Played, Unkey, TxStep
    <2>2. CASE gui \notin {"unkeying"} \cup PastTx
      BY <2>1, <2>2
    <2>3. CASE gui \in {"unkeying"} \cup PastTx
      <3>1. phase \in {"idle", "playing", "unkeying"}
        BY <2>3
      <3>2. Played \/ Unkey
        BY <1>1, <2>3, <3>1 DEF Transmit, Work, Encoded, Key
      <3>3. phase' \in {"idle", "unkeying"} /\ phase # "idle" /\ (ptt' => (ptt /\ (failed => failed')) \/ failed')
        BY <3>2 DEF Played, Unkey, PttOff, NoPttOff
      <3>4. QED
        BY <1>0, <2>1, <2>3, <3>3
    <2>4. QED
      BY <2>2, <2>3
  <1>2. CASE UnkeyThread
    <2>1. PICK k \in {"early", "last"} : EmergencyUnkey(k)
      BY <1>2 DEF UnkeyThread
    <2>2. UNCHANGED <<gui, phase>> /\ unkeyer[k] = "running"
          /\ unkeyer' = [unkeyer EXCEPT ![k] = "over"]
      BY <1>2, <2>1 DEF UnkeyThread, EmergencyUnkey
    <2>3. ptt' => (ptt /\ failed' = failed /\ ~keyed) \/ failed'
      BY <2>1 DEF EmergencyUnkey, PttOff, NoPttOff
    <2>4. ptt' => failed'
      BY <2>3 DEF Carrier
    <2>5. QED
      BY <1>0, <2>2, <2>4
  <1>3. CASE EarlyUnkey
    <2>1. UNCHANGED <<phase, ptt, failed>> /\ gui' = "connects" /\ unkeyer'["last"] = unkeyer["last"]
          /\ gui = "reclaim"
      BY <1>3 DEF EarlyUnkey
    <2>2. QED
      BY <1>0, <2>1
  <1>4. CASE StopTx
    <2>1. /\ UNCHANGED <<phase, ptt, failed>> /\ gui = "drained"
          /\ \/ phase = "idle" /\ gui' = "workers" /\ UNCHANGED unkeyer
             \/ /\ phase \in {"playing", "unkeying"} /\ gui' = "unkeying"
                /\ unkeyer'["last"] = "running"
      BY <1>4 DEF StopTx
    <2>2. QED
      BY <1>0, <2>1
  <1>5. CASE JoinLast
    BY <1>0, <1>5 DEF JoinLast, Joined, Hung
  <1>6. CASE /\ UNCHANGED <<phase, ptt, failed, unkeyer>>
             /\ UNCHANGED gui \/ Close \/ (Stage /\ ~StopTx /\ ~JoinLast /\ ~EarlyUnkey)
    <2>1. \/ gui' = gui
          \/ gui \notin PastTx \cup {"unkeying"} /\ gui' \notin PastTx \cup {"unkeying"}
          \/ gui \in PastTx /\ gui' \in PastTx
      BY <1>6 DEF Close, Stage, AbortConnect, AbortOffline, Drain, DrainEnds, StopWorkers,
             CloseLogbook, CloseRig, Exit
    <2>2. QED
      BY <1>0, <1>6, <2>1
  <1>7. QED
    <2>1. UNCHANGED unkeyer \/ UnkeyThread \/ EarlyUnkey \/ StopTx
      BY UnkeyerOnly
    <2>2. UNCHANGED <<phase, ptt, failed>> \/ Transmit \/ Work \/ UnkeyThread
      BY TxOnly
    <2>3. UNCHANGED gui \/ Close \/ Stage
      BY GuiOnly
    <2>4. QED
      BY <1>1, <1>2, <1>3, <1>4, <1>5, <1>6, <2>1, <2>2, <2>3

-----------------------------------------------------------------------------
(* The threads.                                                            *)

LEMMA ThreadsOnly ==
  ASSUME [Next]_vars
  PROVE  \/ UNCHANGED <<running, detached, launching, late, fate>>
         \/ Attempting \/ Offline \/ Stage
  BY ActionsOf
     DEF vars, windowVars, threadVars, connectVars, historyVars, Dialogs, OpenSettings, Settings,
           CloseSettings, Crashes, SettingsIdle, Radio, Disconnect, Lost, FinishDeferred,
           Pictures, ImageArrives, Receive, AudioStop, CaptureStep, Dismiss,
           Transmit, Work, Encoded, Key, Played, Unkey, TxStep, UnkeyThread, Close, StageIdle

\* A thread begun before closeEvent, or in its drain and then late.
LEMMA ReleasedBegun ==
  ASSUME Released, Attempting \/ Offline
  PROVE  Released'
  <1> USE DEF Released, BeforeOffline, PastTx, PastWorkers
  <1>1. CASE LaunchAndConnect
    <2>1. gui \in {"open", "drain"} /\ (gui = "drain" => late') /\ (late => late')
          /\ UNCHANGED <<gui, running, detached, fate>>
      BY <1>1 DEF LaunchAndConnect, CanConnect, Clicks, Late, windowVars, threadVars
    <2>2. QED
      BY <2>1
  <1>2. CASE Connect
    <2>1. gui \in {"open", "drain"} /\ (gui = "drain" => late') /\ (late => late')
          /\ UNCHANGED <<gui, detached, launching, fate>>
      BY <1>2 DEF Connect, CanConnect, Clicks, Late, windowVars
    <2>2. QED
      BY <2>1
  <1>3. CASE LaunchTimer
    <2>1. launching /\ ~launching' /\ UNCHANGED <<gui, detached, fate, late>>
      BY <1>3 DEF LaunchTimer, windowVars, historyVars
    <2>2. \A t \in running' : t \in running \/ t \in Connects
      BY <1>3, StartConnects DEF LaunchTimer
    <2>3. \A t \in running' \cap (Workers \cup Jobs) : t \in running
      BY <2>2, ThreadsAssumption DEF Threads
    <2>4. gui \notin BeforeOffline => late'
      BY <2>1
    <2>5. "tx" \in Workers
      BY DEF Workers
    <2>6. QED
      BY <2>1, <2>3, <2>4, <2>5
  <1>4. CASE ConnectTimeout \/ \E c \in Connects : ConnectEnds(c)
    <2>1. running' \subseteq running /\ UNCHANGED <<gui, detached, fate, late, launching>>
      BY <1>4 DEF ConnectTimeout, ConnectEnds, Finished, windowVars, threadVars, historyVars
    <2>2. QED
      BY <2>1
  <1>5. CASE Decode \/ Export
    <2>1. gui \in {"open", "drain"} /\ (gui = "drain" => late') /\ (late => late')
          /\ UNCHANGED <<gui, detached, launching, fate>>
      BY <1>5 DEF Decode, Export, Start, Clicks, Late, windowVars, connectVars
    <2>2. QED
      BY <2>1
  <1>6. CASE DecodeEnds \/ ExportEnds
    <2>1. running' \subseteq running /\ UNCHANGED <<gui, detached, fate, late, launching>>
      BY <1>6 DEF DecodeEnds, ExportEnds, JobEnds, Finished, connectVars, historyVars
    <2>2. QED
      BY <2>1
  <1>7. QED
    BY <1>1, <1>2, <1>3, <1>4, <1>5, <1>6 DEF Attempting, Offline

\* What a stage waits for has ended when it is over, or was detached.
LEMMA WaitedFor ==
  ASSUME NEW ts, StopOrDetach(ts)
  PROVE  /\ ts \cap running' \subseteq detached' /\ running' \subseteq running
         /\ detached \subseteq detached'
  BY DEF StopOrDetach

LEMMA ReleasedStage == ASSUME Shape, Released, Stage PROVE Released'
  <1> USE DEF Shape, Guis, Released, BeforeOffline, PastDrain, PastTx, PastWorkers
  <1>1. CASE EarlyUnkey \/ Drain
    BY <1>1 DEF EarlyUnkey, Drain, DrainEnds, StageIdle, connectVars
  <1>2. CASE AbortConnect
    BY <1>2, WaitedFor DEF AbortConnect, CancelConnect, StageIdle
  <1>3. CASE AbortOffline
    BY <1>3, WaitedFor DEF AbortOffline, StageIdle, connectVars
  <1>4. CASE StopTx
    BY <1>4 DEF StopTx, Finished, StageIdle, connectVars
  <1>5. CASE JoinLast
    BY <1>5 DEF JoinLast, StageIdle, connectVars
  <1>6. CASE StopWorkers
    BY <1>6, WaitedFor DEF StopWorkers, StageIdle, connectVars
  <1>7. CASE CloseLogbook \/ CloseRig
    BY <1>7 DEF CloseLogbook, CloseRig, StageIdle, connectVars
  <1>8. CASE Exit
    <2>1. gui = "complete" /\ UNCHANGED <<running, detached, launching, late>>
      BY <1>8 DEF Exit, threadVars, connectVars, historyVars
    <2>2. fate' = "aborted" => detached = {} /\ running # {}
      BY <1>8 DEF Exit
    <2>3. fate' = "aborted" => late
      <3>1. SUFFICES ASSUME detached = {}, NEW t \in running PROVE late
        BY <2>2
      <3>2. CASE t \in Workers
        BY <2>1, <3>1, <3>2
      <3>3. CASE t \in Connects \cup Jobs
        BY <2>1, <3>1, <3>3
      <3>4. QED
        BY <3>2, <3>3 DEF Threads
    <2>4. gui' = "gone"
      BY <1>8 DEF Exit
    <2>5. QED
      BY <2>1, <2>3, <2>4
  <1>9. QED
    BY <1>1, <1>2, <1>3, <1>4, <1>5, <1>6, <1>7, <1>8 DEF Stage

LEMMA ReleasedStep == ASSUME Shape, Released, [Next]_vars PROVE Released'
  <1>1. CASE UNCHANGED <<running, detached, launching, late, fate>> /\ UNCHANGED gui
    BY <1>1 DEF Released
  <1>2. CASE Close
    BY <1>2 DEF Close, StageIdle, connectVars, Released, BeforeOffline, PastTx, PastWorkers
  <1>3. QED
    BY <1>1, <1>2, ThreadsOnly, GuiOnly, ReleasedBegun, ReleasedStage

-----------------------------------------------------------------------------
(* The capture and the logbook.                                            *)

LEMMA CapturedStep == ASSUME Shape, Captured, [Next]_vars PROVE Captured'
  <1>1. stuck' = stuck
    BY ActionsOf
       DEF vars, threadVars, Dialogs, OpenSettings, Settings,
           CloseSettings, Crashes, SettingsIdle, Radio, Disconnect, Lost, FinishDeferred,
           Pictures, ImageArrives, Receive, AudioStop, CaptureStep, Dismiss,
           Attempting, LaunchAndConnect, Connect, LaunchTimer, ConnectTimeout,
           ConnectEnds, Offline, Decode, Export, Start, DecodeEnds, ExportEnds, JobEnds,
           Transmit, Work, Encoded, Key, Played, Unkey, TxStep, UnkeyThread, Close, Stage,
           EarlyUnkey, AbortConnect, AbortOffline, Drain, StopTx, JoinLast, StopWorkers,
           CloseLogbook, CloseRig, Exit, StageIdle
  <1>2. "audio" \in Workers /\ "audio" \notin Connects /\ "audio" \notin Jobs
    BY ThreadsAssumption DEF Workers
  <1>3. "audio" \in stuck /\ "audio" \in running => "audio" \in running'
    <2>1. CASE UNCHANGED running
      BY <2>1
    <2>2. CASE Attempting
      BY <1>2, <2>2, StartConnects
         DEF Attempting, LaunchAndConnect, Connect, LaunchTimer, ConnectTimeout, ConnectEnds,
             Finished, threadVars
    <2>3. CASE Offline
      BY <1>2, <2>3
         DEF Offline, Decode, Export, Start, DecodeEnds, ExportEnds, JobEnds, Finished
    <2>4. CASE Stage
      BY <2>4
         DEF Stage, EarlyUnkey, AbortConnect, AbortOffline, Drain, StopTx, JoinLast, StopWorkers,
             CloseLogbook, CloseRig, Exit, StopOrDetach, Finished, threadVars
    <2>5. QED
      BY <2>1, <2>2, <2>3, <2>4, ThreadsOnly
  <1>4. capturing' => capturing
    BY ActionsOf
       DEF vars, captureVars, Dialogs, OpenSettings, Settings,
           CloseSettings, Crashes, SettingsIdle, Radio, Disconnect, Lost, FinishDeferred,
           Pictures, ImageArrives, Receive, AudioStop, CaptureStep, Dismiss,
           Attempting, LaunchAndConnect, Connect, LaunchTimer, ConnectTimeout,
           ConnectEnds, Offline, Decode, Export, Start, DecodeEnds, ExportEnds, JobEnds,
           Transmit, Work, Encoded, Key, Played, Unkey, TxStep, UnkeyThread, Close, Stage,
           EarlyUnkey, AbortConnect, AbortOffline, Drain, StopTx, JoinLast, StopWorkers,
           CloseLogbook, CloseRig, Exit
  <1>5. cut => cut'
    BY ActionsOf
       DEF vars, historyVars, Dialogs, OpenSettings, Settings,
           CloseSettings, Crashes, SettingsIdle, Radio, Disconnect, Lost, FinishDeferred,
           Pictures, ImageArrives, Receive, AudioStop, CaptureStep, Dismiss,
           Attempting, LaunchAndConnect, Connect, LaunchTimer, ConnectTimeout,
           ConnectEnds, Offline, Decode, Export, Start, DecodeEnds, ExportEnds, JobEnds,
           Transmit, Work, Encoded, Key, Played, Unkey, TxStep, UnkeyThread, Close, Stage,
           EarlyUnkey, AbortConnect, AbortOffline, Drain, DrainEnds, StopTx, JoinLast, StopWorkers,
           CloseLogbook, CloseRig, Exit
  <1>6. gui' \in PastDrain => gui \in PastDrain \/ Drain
    BY GuiOnly
       DEF Shape, Guis, BeforeOffline, PastDrain, PastTx, Close, Stage, EarlyUnkey, AbortConnect,
           AbortOffline, StopTx, JoinLast, StopWorkers, CloseLogbook, CloseRig, Exit
  <1>7. Drain => ~capturing \/ "audio" \in stuck \/ cut'
    BY DEF Drain, DrainEnds
  <1>8. QED
    BY <1>1, <1>3, <1>4, <1>5, <1>6, <1>7 DEF Captured

LEMMA LogbookStep == ASSUME Shape, LogbookStaysClosed, [Next]_vars PROVE LogbookStaysClosed'
  <1>1. logbook' = logbook \/ ~logbook' \/ gui = "open"
    BY ActionsOf
       DEF vars, captureVars, Dialogs, OpenSettings, Settings,
           CloseSettings, Crashes, SettingsIdle, Radio, Disconnect, Lost, FinishDeferred,
           Pictures, ImageArrives, CaptureQso, Receive, AudioStop, CaptureStep, Dismiss,
           Attempting, LaunchAndConnect, Connect, LaunchTimer, ConnectTimeout,
           ConnectEnds, Offline, Decode, Export, Start, DecodeEnds, ExportEnds, JobEnds,
           Transmit, Work, Encoded, Key, Played, Unkey, TxStep, UnkeyThread, Close, Stage,
           EarlyUnkey, AbortConnect, AbortOffline, Drain, StopTx, JoinLast, StopWorkers,
           CloseLogbook, CloseRig, Exit
  <1>2. gui' \in {"rig", "complete", "gone"} =>
           gui \in {"rig", "complete", "gone"} \/ CloseLogbook
    BY GuiOnly
       DEF Shape, Close, Stage, EarlyUnkey, AbortConnect,
           AbortOffline, Drain, DrainEnds, StopTx, JoinLast, StopWorkers, CloseRig, Exit
  <1>3. QED
    BY <1>1, <1>2 DEF LogbookStaysClosed, CloseLogbook

-----------------------------------------------------------------------------
(* The rigctld processes.                                                  *)

\* Every process is stopped by the side that started it, or handed over.
LEMMA DaemonMoves ==
  ASSUME [Next]_vars
  PROVE  \/ UNCHANGED daemonVars
         \/ own = Nobody /\ Launch /\ own' = born' /\ UNCHANGED dialogVars
         \/ ForgetDead /\ UNCHANGED <<born, alive, dialogVars>>
         \/ KillRigctld /\ UNCHANGED <<born, dialogVars>>
         \/ dialog' = TRUE /\ UNCHANGED <<born, alive, own, dlgProc>>
         \/ DialogLaunch \/ DialogStop \/ DialogReject \/ DialogAccept \/ Dies
  <1>1. CASE UNCHANGED vars \/ Pictures \/ Dismiss \/ Offline \/ Transmit \/ Work \/ UnkeyThread
             \/ Close
    BY <1>1 DEF vars, daemonVars, dialogVars, Pictures, ImageArrives, Receive, AudioStop,
           CaptureStep, Dismiss, Offline, Decode, Export, Start, DecodeEnds, ExportEnds, JobEnds,
           Transmit, Work, Encoded, Key, Played, Unkey, TxStep, UnkeyThread, Close, StageIdle
  <1>2. CASE Dialogs
    BY <1>2 DEF Dialogs, OpenSettings, Settings, CloseSettings, Crashes
  <1>3. CASE Radio
    BY <1>3 DEF Radio, Disconnect, Lost, LetGo, FinishDeferred, daemonVars
  <1>4. CASE Attempting
    BY <1>4 DEF Attempting, LaunchAndConnect, Connect, LaunchTimer, ConnectTimeout, ConnectEnds,
           daemonVars
  <1>5. CASE Stage
    BY <1>5 DEF Stage, EarlyUnkey, AbortConnect, AbortOffline, Drain, StopTx, JoinLast,
           StopWorkers, CloseLogbook, CloseRig, Exit, StageIdle, daemonVars
  <1>6. QED
    BY <1>1, <1>2, <1>3, <1>4, <1>5, ActionsOf

LEMMA DaemonsStep == ASSUME Daemons, [Next]_vars PROVE Daemons'
  <1> USE DEF Daemons, NoOrphanDaemon, Nobody, dialogVars
  <1>1. CASE UNCHANGED daemonVars
    BY <1>1 DEF daemonVars
  <1>2. CASE own = Nobody /\ Launch /\ own' = born' /\ UNCHANGED dialogVars
    <2>1. alive \subseteq {dlgProc} /\ (~dialog => alive = {})
      BY <1>2
    <2>2. alive' \subseteq alive \cup {born + 1} /\ born' = born + 1 /\ own' = born + 1
      BY <1>2 DEF Launch
    <2>3. QED
      BY <1>2, <2>1, <2>2
  <1>3. CASE ForgetDead /\ UNCHANGED <<born, alive, dialogVars>>
    BY <1>3 DEF ForgetDead
  <1>4. CASE KillRigctld /\ UNCHANGED <<born, dialogVars>>
    BY <1>4 DEF KillRigctld, Stopped
  <1>5. CASE dialog' = TRUE /\ UNCHANGED <<born, alive, own, dlgProc>>
    BY <1>5
  <1>6. CASE DialogLaunch
    <2>1. alive \subseteq {own} /\ dialog /\ dialog' = dialog /\ own' = own
      BY <1>6 DEF DialogLaunch
    <2>2. alive' \subseteq alive \cup {born + 1} /\ born' = born + 1 /\ dlgProc' = born + 1
      BY <1>6 DEF DialogLaunch, Launch
    <2>3. QED
      BY <2>1, <2>2
  <1>7. CASE DialogStop \/ DialogReject \/ DialogAccept
    <2>1. alive \subseteq {own, dlgProc} /\ Nobody \notin alive
      OBVIOUS
    <2>2. CASE DialogStop
      <3>1. dlgProc' = Nobody /\ alive' = alive \ {dlgProc} /\ UNCHANGED <<own, born>>
        BY <2>2 DEF DialogStop, Stopped
      <3>2. QED
        BY <2>1, <3>1
    <2>3. CASE DialogReject
      <3>1. /\ dlgProc' = Nobody /\ UNCHANGED <<own, born>>
            /\ dlgProc # Nobody => alive' = alive \ {dlgProc}
            /\ dlgProc = Nobody => alive' = alive
        BY <2>3 DEF DialogReject, Stopped
      <3>2. alive' \subseteq {own} /\ alive' \subseteq alive
        BY <2>1, <3>1
      <3>3. QED
        BY <3>1, <3>2
    <2>4. CASE DialogAccept
      <3>1. dlgProc' = Nobody /\ UNCHANGED born /\ Adopt
        BY <2>4 DEF DialogAccept
      <3>2. CASE dlgProc # Nobody
        <4>1. own' = dlgProc /\ (own # Nobody => alive' = alive \ {own})
              /\ (own = Nobody => alive' = alive)
          BY <3>1, <3>2 DEF Adopt, Stopped
        <4>2. alive' \subseteq {own'} /\ alive' \subseteq alive
          BY <2>1, <4>1
        <4>3. QED
          BY <3>1, <4>2
      <3>3. CASE dlgProc = Nobody
        <4>1. own' = own /\ alive' = alive
          BY <3>1, <3>3 DEF Adopt
        <4>2. QED
          BY <2>1, <3>1, <3>3, <4>1
      <3>4. QED
        BY <3>2, <3>3
    <2>5. QED
      BY <1>7, <2>2, <2>3, <2>4
  <1>8. CASE Dies
    BY <1>8 DEF Dies
  <1>9. QED
    BY <1>1, <1>2, <1>3, <1>4, <1>5, <1>6, <1>7, <1>8, DaemonMoves

-----------------------------------------------------------------------------
LEMMA IInvStep == IInv /\ [Next]_vars => IInv'
  BY ShapeStep, CarrierStep, UnkeyedStep, ReleasedStep, CapturedStep, LogbookStep, DaemonsStep
     DEF IInv

LEMMA IInvAlways == Spec => []IInv
  BY InitIInv, IInvStep, PTL DEF Spec

\* What the program ran is over when it is gone: its threads have ended or were
\* detached (not so for one begun in the drain), its capture was stopped, its
\* store stays closed, and no rigctld is left without somebody to stop it.
THEOREM NothingLeftBehind == Spec => []TornDown
  <1>1. IInv => TornDown
    <2> SUFFICES ASSUME IInv PROVE TornDown
      OBVIOUS
    <2>1. ThreadsReleased /\ LogbookStaysClosed /\ NoOrphanDaemon
      BY DEF IInv, Released, ThreadsReleased, Daemons
    <2>2. CaptureStopped
      BY DEF IInv, Captured, Released, CaptureStopped, PastDrain, PastTx, PastWorkers, Workers
    <2>3. QED
      BY <2>1, <2>2 DEF TornDown
  <1>2. QED
    BY <1>1, IInvAlways, PTL

\* The radio is left transmitting only if a PTT-off failed or is hanging still.
THEOREM CarrierDropped == Spec => []PttDropped
  <1>1. IInv => PttDropped
    BY DEF IInv, Shape, Carrier, Unkeyed, LastUnkey, Idle, PastTx, PttDropped
  <1>2. QED
    BY <1>1, IInvAlways, PTL

\* A transmission that is on the air has been asked to stop, and would not,
\* when its radio is closed at the end.
LEMMA AskedBefore ==
  ASSUME IInv, ptt, Idle \/ (gui = "rig" /\ Reachable)
  PROVE  Tried
  <1>1. CASE Idle
    BY <1>1 DEF IInv, Carrier, Idle, Tried
  <1>2. CASE gui = "rig" /\ Reachable /\ ~Idle
    <2>1. LastUnkey \in {"running", "over"}
      BY <1>2 DEF IInv, Shape, Unkeyed, LastUnkey, PastTx
    <2>2. CASE LastUnkey = "over"
      BY <2>2 DEF IInv, Unkeyed, Tried
    <2>3. CASE LastUnkey = "running"
      <3>1. Hung /\ unkeyer["last"] = "running" /\ "last" \in DOMAIN unkeyer
        BY <1>2, <2>3 DEF IInv, Shape, Unkeyed, LastUnkey, PastTx, Hung
      <3>2. QED
        BY <3>1 DEF Tried
    <2>4. QED
      BY <2>1, <2>2, <2>3
  <1>3. QED
    BY <1>1, <1>2

\* Only these steps close a backend or take a rigctld from under it.
LEMMA PullsOnly ==
  ASSUME [Next]_vars, Pulls
  PROVE  \/ Idle \/ dialog # dialog'
         \/ gui = "rig" /\ Reachable
  <1>1. Reachable /\ ~Reachable' /\ (own' # own \/ linked' # linked)
    BY DEF Pulls
  <1>2. CASE UNCHANGED <<own, linked>>
    BY <1>1, <1>2
  <1>3. CASE Radio
    BY <1>1, <1>3 DEF Radio, Disconnect, Lost, LetGo, FinishDeferred
  <1>4. CASE LaunchAndConnect
    BY <1>4 DEF LaunchAndConnect, CanConnect
  <1>5. CASE \E c \in Connects : ConnectEnds(c)
    BY <1>5 DEF ConnectEnds
  <1>6. CASE Dialogs
    <2>1. linked' = linked
      BY <1>6 DEF Dialogs, OpenSettings, Settings, CloseSettings, Crashes, SettingsIdle, rigVars
    <2>2. own' # own
      BY <1>1, <2>1
    <2>3. DialogAccept
      BY <1>6, <2>2 DEF Dialogs, OpenSettings, Settings, CloseSettings, Crashes, DialogLaunch,
             DialogStop, DialogReject, Dies
    <2>4. dialog /\ dialog' = FALSE
      BY <2>3 DEF DialogAccept
    <2>5. QED
      BY <2>4
  <1>7. CASE CloseRig
    BY <1>1, <1>7 DEF CloseRig
  <1>8. QED
    <2>1. \/ UNCHANGED <<own, linked>>
          \/ Radio \/ LaunchAndConnect \/ (\E c \in Connects : ConnectEnds(c))
          \/ Dialogs \/ CloseRig
      BY ActionsOf
         DEF vars, rigVars, daemonVars, Pictures, ImageArrives, Receive, AudioStop,
             CaptureStep, Dismiss, Offline, Decode, Export, Start, DecodeEnds, ExportEnds,
             JobEnds, Transmit, Work, Encoded, Key, Played, Unkey, TxStep, UnkeyThread, Close,
             StageIdle, Attempting, Connect, LaunchTimer, ConnectTimeout, Stage, EarlyUnkey,
             AbortConnect, AbortOffline, Drain, StopTx, JoinLast, StopWorkers, CloseLogbook, Exit
    <2>2. QED
      BY <1>2, <1>3, <1>4, <1>5, <1>6, <1>7, <2>1

\* A radio that transmits is closed, or its rigctld killed, only once a PTT-off
\* failed or hangs, the Settings dialog's hand-over apart.
THEOREM NoneIsPulled == Spec => RigNotPulled
  <1>1. IInv /\ [Next]_vars => [Pulls /\ ptt => Tried \/ dialog # dialog']_vars
    BY PullsOnly, AskedBefore
  <1>2. QED
    BY <1>1, IInvAlways, PTL DEF Spec, RigNotPulled
=============================================================================
