--------------------------- MODULE TransmitProofs ---------------------------
(***************************************************************************)
(* The safety of a transmission: of the worker that keys and unkeys the    *)
(* radio (TxWorker), for every set of radios and every number of           *)
(* transmissions and unkey attempts, and of the audio it plays meanwhile   *)
(* (AudioOut), for any devices and sinks, any number of blocks,            *)
(* transmissions and resets, and any stopping threads.                     *)
(***************************************************************************)
EXTENDS TxWorker, AudioOut, SequenceTheorems, WellFoundedInduction, TLAPS

-----------------------------------------------------------------------------
(* The transmit worker *)

\* Every signal emitted is counted once: queued, just taken, or begun.
Counting ==
  /\ issued = queued + slotsRun + (IF w = "begin" THEN 1 ELSE 0)
  /\ covers <= issued
  /\ txId <= 2 * slotsRun
  /\ w = "setup" => txId < 2 * slotsRun
  /\ Running => slotsRun >= 1 /\ txId >= 1
  /\ w = "ending" => slotsRun >= 1
  /\ Running => outcome = "none"
  /\ tries < UnkeyAttempts

\* A watchdog that holds _tx_id_lock is the current transmission's own.
OwnWatchdog ==
  \A i \in TxIds : dog[i] \in {"unkeying", "flagging", "cutting"}
                     => i = txId /\ slotsRun \in ownStop

CoveredCancelled == \A n \in cancelled : n <= covers

\* _keyed_rig names the worker's rig from before the key to after the unkey.
KeyedWhileOnAir ==
  /\ w \in {"idle", "begin", "setup", "encoding", "arming", "claiming"}
       => keyedRig = NoRig
  /\ w \in {"keying", "settling", "playing", "unkeying"} => keyedRig = txRig
  /\ w \in {"concluding", "ending"} => ptt \subseteq warned

IInv == /\ TypeOK /\ Counting /\ OwnWatchdog /\ CoveredCancelled
        /\ StopFlagExact /\ CancelledNeverRuns
        /\ KeyedWhileOnAir /\ CarrierAccounted

-----------------------------------------------------------------------------
\* An emergency unkey never hides a radio that is on the air.
LEMMA EmergencyKeepsCarrier ==
  ASSUME IInv, EmergencyUnkey, UNCHANGED <<w, keyedRig, txRig>>
  PROVE  /\ ptt' \in SUBSET Radios /\ warned' \in SUBSET Radios
         /\ KeyedWhileOnAir' /\ CarrierAccounted'
  <1>1. ptt \in SUBSET Radios /\ warned \in SUBSET Radios
    BY DEF IInv, TypeOK
  <1>2. /\ ptt' \in SUBSET Radios /\ warned' \in SUBSET Radios
        /\ ptt' \ warned' \subseteq ptt \ warned
    BY <1>1 DEF EmergencyUnkey, UnkeyWorks, UnkeyFails, Transmitter
  <1>3. QED
    BY <1>1, <1>2 DEF IInv, KeyedWhileOnAir, CarrierAccounted

LEMMA InitInv == Init => IInv
  <1> SUFFICES ASSUME Init PROVE IInv
    OBVIOUS
  <1>1. TypeOK
    <2>1. /\ 0 \in 0..MaxTx /\ 0 \in 0..(2 * MaxTx) /\ 0 \in 0..(UnkeyAttempts - 1)
          /\ Manual \in Rigs /\ NoRig \in Rigs \cup {NoRig}
      BY WorkerAssumption DEF Rigs
    <2>2. /\ dog \in [TxIds -> {"off", "armed", "fired", "unkeying", "flagging", "cutting"}]
          /\ stopper \in [Stoppers -> {"outside", "unkeying", "flagging", "cutting"}]
      BY DEF Init
    <2>3. QED
      BY <2>1, <2>2 DEF Init, TypeOK, WorkerAt
  <1>2. Counting
    BY WorkerAssumption DEF Init, Counting, Running
  <1>3. OwnWatchdog /\ CoveredCancelled
    BY DEF Init, OwnWatchdog, CoveredCancelled
  <1>4. StopFlagExact /\ CancelledNeverRuns /\ KeyedWhileOnAir /\ CarrierAccounted
    BY DEF Init, StopFlagExact, CancelledNeverRuns, KeyedWhileOnAir,
           CarrierAccounted, Running
  <1>5. QED
    BY <1>1, <1>2, <1>3, <1>4 DEF IInv

\* The GUI's steps touch the queue and the current rig only.
LEMMA GuiSteps ==
  ASSUME IInv, Dispatch \/ \E r \in Rigs : SetRig(r)
  PROVE  IInv'
  <1>1. CASE Dispatch
    <2>1. TypeOK' /\ Counting'
      BY <1>1, WorkerAssumption
      DEF Dispatch, IInv, TypeOK, Counting, Running, workerVars, radioVars, Slots
    <2>2. QED
      BY <1>1, <2>1
      DEF Dispatch, IInv, workerVars, radioVars, OwnWatchdog, CoveredCancelled,
          StopFlagExact, CancelledNeverRuns, Running,
          KeyedWhileOnAir, CarrierAccounted
  <1>2. CASE \E r \in Rigs : SetRig(r)
    <2>1. TypeOK'
      BY <1>2 DEF SetRig, IInv, TypeOK, workerVars, requestVars, radioVars, historyVars
    <2>2. QED
      BY <1>2, <2>1
      DEF SetRig, IInv, workerVars, requestVars, radioVars, historyVars, Counting,
          OwnWatchdog, CoveredCancelled, StopFlagExact, CancelledNeverRuns,
          Running, KeyedWhileOnAir, CarrierAccounted
  <1>3. QED
    BY <1>1, <1>2

LEMMA StartStep == ASSUME IInv, StartSlot PROVE IInv'
  <1>1. TypeOK' /\ Counting'
    BY WorkerAssumption
    DEF StartSlot, WorkerTo, IInv, TypeOK, Counting, Running, WorkerAt, radioVars,
        historyVars
  <1>2. QED
    BY <1>1
    DEF StartSlot, WorkerTo, IInv, radioVars, historyVars, OwnWatchdog,
        CoveredCancelled, StopFlagExact, CancelledNeverRuns, Running,
        KeyedWhileOnAir, CarrierAccounted

\* A slot begins while no watchdog holds the lock, with the flag cleared
\* exactly if no stop covers it.
LEMMA BeginStep == ASSUME IInv, BeginSlot PROVE IInv'
  <1>1. TypeOK' /\ Counting'
    <2>1. /\ slotsRun + 1 \in 0..MaxTx /\ txId + 1 \in 0..(2 * MaxTx)
          /\ txId + 1 < 2 * (slotsRun + 1)
      BY WorkerAssumption DEF BeginSlot, IInv, TypeOK, Counting
    <2>2. TypeOK'
      BY <2>1
      DEF BeginSlot, WorkerTo, IInv, TypeOK, WorkerAt, radioVars
    <2>3. Counting'
      BY <2>1, WorkerAssumption
      DEF BeginSlot, WorkerTo, IInv, TypeOK, Counting, Running
    <2>4. QED
      BY <2>2, <2>3
  <1>2. OwnWatchdog'
    BY DEF BeginSlot, TxIdLockFree, OwnWatchdog
  <1>3. CoveredCancelled' /\ CancelledNeverRuns'
    <2>1. slotsRun \in Nat /\ covers \in Nat
      BY WorkerAssumption DEF IInv, TypeOK
    <2>2. slotsRun + 1 > covers => slotsRun + 1 \notin cancelled
      BY <2>1, WorkerAssumption DEF IInv, CoveredCancelled, TypeOK, Slots
    <2>3. QED
      BY <2>2
      DEF BeginSlot, WorkerTo, IInv, CoveredCancelled, CancelledNeverRuns, Running
  <1>4. StopFlagExact'
    BY WorkerAssumption DEF BeginSlot, WorkerTo, IInv, TypeOK, StopFlagExact, Running
  <1>5. KeyedWhileOnAir' /\ CarrierAccounted'
    <2>1. keyedRig = NoRig /\ keyedRig' = NoRig /\ ptt \subseteq warned
      BY WorkerAssumption DEF BeginSlot, IInv, TypeOK, KeyedWhileOnAir, CarrierAccounted
    <2>2. QED
      BY <2>1 DEF BeginSlot, WorkerTo, KeyedWhileOnAir, CarrierAccounted, radioVars
  <1>6. QED
    BY <1>1, <1>2, <1>3, <1>4, <1>5 DEF IInv

LEMMA TakeTxIdStep == ASSUME IInv, TakeTxId PROVE IInv'
  <1>1. /\ txId + 1 \in 0..(2 * MaxTx) /\ txId + 1 <= 2 * slotsRun
        /\ 1 <= txId + 1
    BY WorkerAssumption DEF TakeTxId, IInv, TypeOK, Counting
  <1>2. TypeOK'
    BY <1>1
    DEF TakeTxId, WorkerTo, IInv, TypeOK, WorkerAt, requestVars, radioVars, historyVars
  <1>3. Counting'
    BY <1>1, WorkerAssumption
    DEF TakeTxId, WorkerTo, IInv, TypeOK, Counting, Running, requestVars
  <1>4. OwnWatchdog'
    BY DEF TakeTxId, TxIdLockFree, OwnWatchdog
  <1>5. QED
    BY <1>2, <1>3, <1>4
    DEF TakeTxId, WorkerTo, IInv, requestVars, radioVars, historyVars,
        CoveredCancelled, StopFlagExact, CancelledNeverRuns, Running,
        KeyedWhileOnAir, CarrierAccounted

\* Steps that move only the worker's own variables, before the key and in
\* playback.
LEMMA OwnSteps ==
  ASSUME IInv, \/ Encode \/ SynthesizeTone \/ Settle
               \/ PlayReturns \/ PlayRaises \/ HealthLost
  PROVE  IInv'
  <1>1. CASE Encode \/ SynthesizeTone
    <2>1. TypeOK' /\ Counting'
      BY <1>1, WorkerAssumption
      DEF Encode, SynthesizeTone, WorkerTo, WorkerOnly, IInv, TypeOK, Counting,
          Running, WorkerAt, requestVars, radioVars, historyVars
    <2>2. OwnWatchdog' /\ CoveredCancelled' /\ StopFlagExact' /\ CancelledNeverRuns'
      BY <1>1
      DEF Encode, SynthesizeTone, WorkerTo, WorkerOnly, IInv, OwnWatchdog,
          CoveredCancelled, StopFlagExact, CancelledNeverRuns, Running,
          requestVars, historyVars
    <2>3. KeyedWhileOnAir' /\ CarrierAccounted'
      <3>1. keyedRig = NoRig /\ ptt \subseteq warned
        BY <1>1, WorkerAssumption
        DEF Encode, SynthesizeTone, IInv, TypeOK, KeyedWhileOnAir, CarrierAccounted
      <3>2. QED
        BY <1>1, <3>1
        DEF Encode, SynthesizeTone, WorkerTo, WorkerOnly, KeyedWhileOnAir,
            CarrierAccounted, radioVars
    <2>4. QED
      BY <2>1, <2>2, <2>3 DEF IInv
  <1>2. CASE Settle \/ PlayReturns \/ PlayRaises
    <2>0. slotsRun \in Slots
      BY <1>2, WorkerAssumption
      DEF Settle, PlayReturns, PlayRaises, IInv, TypeOK, Counting, Running, Slots
    <2>1. TypeOK'
      BY <1>2, <2>0
      DEF Settle, PlayReturns, PlayRaises, WorkerTo, WorkerOnly, IInv, TypeOK,
          WorkerAt, requestVars, radioVars, historyVars
    <2>2. Counting'
      BY <1>2
      DEF Settle, PlayReturns, PlayRaises, WorkerTo, WorkerOnly, IInv, Counting,
          Running, requestVars, radioVars, historyVars
    <2>3. QED
      BY <1>2, <2>1, <2>2
      DEF Settle, PlayReturns, PlayRaises, WorkerTo, WorkerOnly, IInv, OwnWatchdog,
          CoveredCancelled, StopFlagExact, CancelledNeverRuns, Running,
          KeyedWhileOnAir, CarrierAccounted, requestVars, radioVars, historyVars
  <1>3. CASE HealthLost
    <2>1. slotsRun \in Slots
      BY <1>3, WorkerAssumption DEF HealthLost, IInv, TypeOK, Counting, Running, Slots
    <2>2. TypeOK'
      BY <1>3, <2>1 DEF HealthLost, WorkerTo, IInv, TypeOK, WorkerAt, radioVars
    <2>3. QED
      BY <1>3, <2>2
      DEF HealthLost, WorkerTo, IInv, Counting, OwnWatchdog, CoveredCancelled,
          StopFlagExact, CancelledNeverRuns, Running, KeyedWhileOnAir,
          CarrierAccounted, radioVars
  <1>4. QED
    BY <1>1, <1>2, <1>3

LEMMA ArmStep == ASSUME IInv, ArmWatchdog PROVE IInv'
  <1>1. txId \in TxIds
    BY WorkerAssumption DEF ArmWatchdog, IInv, TypeOK, Counting, Running, TxIds
  <1>2. TypeOK' /\ Counting'
    BY <1>1
    DEF ArmWatchdog, IInv, TypeOK, Counting, Running, WorkerAt, requestVars,
        radioVars, historyVars
  <1>3. OwnWatchdog'
    BY <1>1 DEF ArmWatchdog, IInv, TypeOK, OwnWatchdog, requestVars, historyVars
  <1>4. keyedRig = NoRig /\ ptt \subseteq warned
    BY WorkerAssumption DEF ArmWatchdog, IInv, TypeOK, KeyedWhileOnAir, CarrierAccounted
  <1>5. QED
    BY <1>2, <1>3, <1>4
    DEF ArmWatchdog, IInv, CoveredCancelled, StopFlagExact, CancelledNeverRuns,
        Running, KeyedWhileOnAir, CarrierAccounted, requestVars, radioVars,
        historyVars

LEMMA ClaimStep == ASSUME IInv, ClaimRig PROVE IInv'
  <1>1. TypeOK' /\ Counting'
    BY DEF ClaimRig, WorkerTo, IInv, TypeOK, Counting, Running, WorkerAt,
           requestVars, radioVars, historyVars
  <1>2. ptt \subseteq warned
    BY WorkerAssumption DEF ClaimRig, IInv, TypeOK, KeyedWhileOnAir, CarrierAccounted
  <1>3. QED
    BY <1>1, <1>2
    DEF ClaimRig, WorkerTo, IInv, OwnWatchdog, CoveredCancelled, StopFlagExact,
        CancelledNeverRuns, Running, KeyedWhileOnAir, CarrierAccounted,
        requestVars, radioVars, historyVars

\* The key may put the worker's rig on the air, which _keyed_rig names by now.
LEMMA KeyStep == ASSUME IInv, Key PROVE IInv'
  <1>1. /\ ptt' \in SUBSET Radios /\ warned' \in SUBSET Radios
        /\ ptt' \subseteq warned' \cup {keyedRig}
    <2>1. /\ ptt \in SUBSET Radios /\ warned \in SUBSET Radios /\ keyedRig = txRig
          /\ ptt \subseteq warned \cup {keyedRig}
      BY DEF Key, IInv, TypeOK, KeyedWhileOnAir, CarrierAccounted
    <2>2. QED
      BY <2>1 DEF Key, KeyWorks, KeyFails, Transmitter
  <1>2. TypeOK'
    BY <1>1, WorkerAssumption
    DEF Key, WorkerTo, IInv, TypeOK, WorkerAt, requestVars, historyVars
  <1>3. Counting'
    BY WorkerAssumption
    DEF Key, WorkerTo, IInv, TypeOK, Counting, Running, requestVars
  <1>4. KeyedWhileOnAir' /\ CarrierAccounted'
    BY <1>1 DEF Key, WorkerTo, IInv, KeyedWhileOnAir, CarrierAccounted
  <1>5. QED
    BY <1>2, <1>3, <1>4
    DEF Key, WorkerTo, IInv, OwnWatchdog, CoveredCancelled, StopFlagExact,
        CancelledNeverRuns, Running, requestVars, historyVars

\* An unkey that works, or the warning after the last try, accounts for the
\* radio: _keyed_rig is not needed any more.
LEMMA UnkeyStep == ASSUME IInv, Unkey PROVE IInv'
  <1>0. /\ ptt \in SUBSET Radios /\ warned \in SUBSET Radios /\ keyedRig = txRig
        /\ ptt \subseteq warned \cup {keyedRig} /\ w = "unkeying"
    BY DEF Unkey, IInv, TypeOK, KeyedWhileOnAir, CarrierAccounted
  <1>1. /\ ptt' \in SUBSET Radios /\ warned' \in SUBSET Radios
        /\ ptt' \subseteq warned' \cup {keyedRig}
        /\ w' = "concluding" => ptt' \subseteq warned'
        /\ w' \in {"unkeying", "concluding"}
    BY <1>0 DEF Unkey, UnkeyWorks, UnkeyFails, Transmitter, WorkerTo
  <1>2. tries' \in 0..(UnkeyAttempts - 1)
    BY WorkerAssumption DEF Unkey, LastTry, IInv, TypeOK
  <1>3. TypeOK'
    BY <1>1, <1>2 DEF Unkey, IInv, TypeOK, WorkerAt, requestVars, historyVars
  <1>4. Counting'
    BY <1>0, <1>1, <1>2, WorkerAssumption
    DEF Unkey, IInv, TypeOK, Counting, Running, requestVars
  <1>5. KeyedWhileOnAir' /\ CarrierAccounted'
    BY <1>0, <1>1 DEF Unkey, KeyedWhileOnAir, CarrierAccounted
  <1>6. QED
    BY <1>0, <1>1, <1>3, <1>4, <1>5
    DEF Unkey, IInv, OwnWatchdog, CoveredCancelled, StopFlagExact,
        CancelledNeverRuns, Running, requestVars, historyVars

LEMMA EndingSteps == ASSUME IInv, Conclude \/ EndSlot PROVE IInv'
  <1>1. CASE Conclude
    <2>1. TypeOK' /\ Counting'
      BY <1>1
      DEF Conclude, WorkerTo, IInv, TypeOK, Counting, Running, WorkerAt,
          requestVars, radioVars, historyVars
    <2>2. OwnWatchdog'
      BY <1>1 DEF Conclude, IInv, TypeOK, OwnWatchdog, requestVars, historyVars
    <2>3. QED
      BY <1>1, <2>1, <2>2
      DEF Conclude, WorkerTo, IInv, CoveredCancelled, StopFlagExact,
          CancelledNeverRuns, Running, KeyedWhileOnAir, CarrierAccounted,
          requestVars, radioVars, historyVars
  <1>2. CASE EndSlot
    <2>1. /\ 0 \in 0..(UnkeyAttempts - 1) /\ 0 < UnkeyAttempts
          /\ Manual \in Rigs /\ NoRig \in Rigs \cup {NoRig}
      BY WorkerAssumption DEF Rigs
    <2>2. TypeOK' /\ Counting'
      BY <1>2, <2>1
      DEF EndSlot, WorkerTo, IInv, TypeOK, Counting, Running, WorkerAt,
          requestVars, radioVars, historyVars
    <2>3. QED
      BY <1>2, <2>2
      DEF EndSlot, WorkerTo, IInv, OwnWatchdog, CoveredCancelled, StopFlagExact,
          CancelledNeverRuns, Running, KeyedWhileOnAir, CarrierAccounted,
          requestVars, radioVars, historyVars
  <1>3. QED
    BY <1>1, <1>2

-----------------------------------------------------------------------------
\* The watchdog that passes the stale check is the current transmission's, and
\* _tx_id_lock keeps it so until it has set the flag and cut the audio.
LEMMA WatchdogStep ==
  ASSUME IInv, NEW i \in TxIds, Watchdog(i)
  PROVE  IInv'
  <1>0. dog \in [TxIds -> {"off", "armed", "fired", "unkeying", "flagging", "cutting"}]
    BY DEF IInv, TypeOK
  <1>1. CASE WatchdogFires(i)
    <2>1. TypeOK' /\ OwnWatchdog'
      BY <1>0, <1>1
      DEF WatchdogFires, DogTo, DogOnly, IInv, TypeOK, OwnWatchdog, workerVars, radioVars
    <2>2. QED
      BY <1>1, <2>1
      DEF WatchdogFires, DogOnly, IInv, Counting, CoveredCancelled, StopFlagExact,
          CancelledNeverRuns, Running, KeyedWhileOnAir, CarrierAccounted,
          workerVars, radioVars
  <1>2. CASE WatchdogChecks(i)
    <2>1. txId >= 1 => slotsRun \in Slots
      BY WorkerAssumption DEF IInv, TypeOK, Counting, Slots
    <2>2. i \in 1..(2 * MaxTx)
      BY DEF TxIds
    <2>3. /\ TypeOK' /\ OwnWatchdog'
          /\ \/ ownStop' = ownStop
             \/ ownStop' = {slotsRun}
      BY <1>0, <1>2, <2>1, <2>2
      DEF WatchdogChecks, TxIdLockFree, Stale, DogTo, DogOnly, IInv, TypeOK,
          OwnWatchdog, workerVars, radioVars
    <2>4. StopFlagExact'
      BY <1>2, <2>3
      DEF WatchdogChecks, DogOnly, IInv, StopFlagExact, Running, workerVars
    <2>5. QED
      BY <1>2, <2>3, <2>4
      DEF WatchdogChecks, DogOnly, IInv, Counting, CoveredCancelled,
          CancelledNeverRuns, Running, KeyedWhileOnAir, CarrierAccounted,
          workerVars, radioVars
  <1>3. CASE WatchdogUnkeys(i)
    <2>1. /\ ptt' \in SUBSET Radios /\ warned' \in SUBSET Radios
          /\ KeyedWhileOnAir' /\ CarrierAccounted'
      BY <1>3, EmergencyKeepsCarrier DEF WatchdogUnkeys, DogOnly, workerVars
    <2>2. TypeOK' /\ OwnWatchdog'
      BY <1>0, <1>3, <2>1
      DEF WatchdogUnkeys, DogTo, DogOnly, IInv, TypeOK, OwnWatchdog, workerVars
    <2>3. QED
      BY <1>3, <2>1, <2>2
      DEF WatchdogUnkeys, DogOnly, IInv, Counting, CoveredCancelled, StopFlagExact,
          CancelledNeverRuns, Running, workerVars
  <1>4. CASE WatchdogStops(i)
    <2>1. slotsRun \in ownStop
      BY <1>4 DEF WatchdogStops, IInv, OwnWatchdog
    <2>2. TypeOK' /\ OwnWatchdog'
      BY <1>0, <1>4
      DEF WatchdogStops, DogTo, DogOnly, IInv, TypeOK, OwnWatchdog, workerVars, radioVars
    <2>3. QED
      BY <1>4, <2>1, <2>2
      DEF WatchdogStops, DogOnly, IInv, Counting, CoveredCancelled, StopFlagExact,
          CancelledNeverRuns, Running, KeyedWhileOnAir, CarrierAccounted,
          workerVars, radioVars
  <1>5. CASE WatchdogCuts(i)
    <2>1. TypeOK' /\ OwnWatchdog'
      BY <1>0, <1>5
      DEF WatchdogCuts, DogTo, CutAudio, IInv, TypeOK, OwnWatchdog, requestVars,
          radioVars, historyVars
    <2>2. QED
      BY <1>5, <2>1
      DEF WatchdogCuts, IInv, Counting, CoveredCancelled, StopFlagExact,
          CancelledNeverRuns, Running, KeyedWhileOnAir, CarrierAccounted,
          requestVars, radioVars, historyVars
  <1>6. QED
    BY <1>1, <1>2, <1>3, <1>4, <1>5 DEF Watchdog

\* A Stop covers everything dispatched, the current transmission included.
LEMMA StopperStep ==
  ASSUME IInv, NEW s \in Stoppers, CallStop(s) \/ Stopper(s)
  PROVE  IInv'
  <1>0. stopper \in [Stoppers -> {"outside", "unkeying", "flagging", "cutting"}]
    BY DEF IInv, TypeOK
  <1>1. CASE CallStop(s)
    <2>1. TypeOK'
      BY <1>0, <1>1
      DEF CallStop, StopperTo, IInv, TypeOK, workerVars, requestVars, radioVars, historyVars
    <2>2. QED
      BY <1>1, <2>1
      DEF CallStop, IInv, Counting, OwnWatchdog, CoveredCancelled, StopFlagExact,
          CancelledNeverRuns, Running, KeyedWhileOnAir, CarrierAccounted,
          workerVars, requestVars, radioVars, historyVars
  <1>2. CASE StopperUnkeys(s)
    <2>1. /\ ptt' \in SUBSET Radios /\ warned' \in SUBSET Radios
          /\ KeyedWhileOnAir' /\ CarrierAccounted'
      BY <1>2, EmergencyKeepsCarrier DEF StopperUnkeys, workerVars
    <2>2. TypeOK'
      BY <1>0, <1>2, <2>1
      DEF StopperUnkeys, StopperTo, IInv, TypeOK, workerVars, requestVars, historyVars
    <2>3. QED
      BY <1>2, <2>1, <2>2
      DEF StopperUnkeys, IInv, Counting, OwnWatchdog, CoveredCancelled, StopFlagExact,
          CancelledNeverRuns, Running, workerVars, requestVars, historyVars
  <1>3. CASE RequestStop(s)
    <2>1. slotsRun \in Nat /\ issued \in Nat /\ covers \in Nat /\ queued \in Nat
      BY WorkerAssumption DEF IInv, TypeOK
    <2>2. TypeOK'
      BY <1>0, <1>3
      DEF RequestStop, CoverQueued, StopperTo, IInv, TypeOK, workerVars, radioVars, Slots
    <2>3. Counting'
      BY <1>3, <2>1
      DEF RequestStop, CoverQueued, IInv, Counting, Running, workerVars
    <2>4. CoveredCancelled' /\ CancelledNeverRuns'
      <3>1. covers <= issued /\ \A n \in cancelled : n \in 1..MaxTx /\ n <= covers
        BY DEF IInv, Counting, CoveredCancelled, TypeOK, Slots
      <3>2. \A n \in cancelled' : n <= issued
        BY <1>3, <2>1, <3>1, WorkerAssumption DEF RequestStop
      <3>3. slotsRun \in cancelled' => slotsRun \in cancelled
        BY <1>3, <2>1 DEF RequestStop
      <3>4. QED
        BY <1>3, <3>2, <3>3
        DEF RequestStop, CoverQueued, IInv, CoveredCancelled, CancelledNeverRuns,
            Running, workerVars
    <2>5. StopFlagExact'
      BY <1>3, <2>1
      DEF RequestStop, CoverQueued, IInv, Counting, StopFlagExact, Running, workerVars
    <2>6. QED
      BY <1>3, <2>2, <2>3, <2>4, <2>5
      DEF RequestStop, IInv, OwnWatchdog, KeyedWhileOnAir, CarrierAccounted,
          workerVars, radioVars
  <1>4. CASE StopperCuts(s)
    <2>1. TypeOK'
      BY <1>0, <1>4
      DEF StopperCuts, StopperTo, CutAudio, IInv, TypeOK, requestVars, radioVars, historyVars
    <2>2. QED
      BY <1>4, <2>1
      DEF StopperCuts, IInv, Counting, OwnWatchdog, CoveredCancelled, StopFlagExact,
          CancelledNeverRuns, Running, KeyedWhileOnAir, CarrierAccounted,
          requestVars, radioVars, historyVars
  <1>5. QED
    BY <1>1, <1>2, <1>3, <1>4 DEF Stopper

-----------------------------------------------------------------------------
LEMMA NextInv == IInv /\ [Next]_vars => IInv'
  <1> SUFFICES ASSUME IInv, [Next]_vars PROVE IInv'
    OBVIOUS
  <1>1. CASE Dispatch \/ \E r \in Rigs : SetRig(r)
    BY <1>1, GuiSteps
  <1>2. CASE Worker
    BY <1>2, StartStep, BeginStep, TakeTxIdStep, OwnSteps, ArmStep, ClaimStep,
       KeyStep, UnkeyStep, EndingSteps DEF Worker
  <1>3. CASE Playback
    BY <1>3, OwnSteps DEF Playback
  <1>4. CASE \E i \in TxIds : Watchdog(i)
    BY <1>4, WatchdogStep
  <1>5. CASE \E s \in Stoppers : CallStop(s) \/ Stopper(s)
    BY <1>5, StopperStep
  <1>6. CASE UNCHANGED vars
    BY <1>6
    DEF vars, workerVars, requestVars, radioVars, historyVars, IInv, TypeOK, Counting,
        OwnWatchdog, CoveredCancelled, StopFlagExact, CancelledNeverRuns, Running,
        KeyedWhileOnAir, CarrierAccounted
  <1>7. QED
    BY <1>1, <1>2, <1>3, <1>4, <1>5, <1>6 DEF Next

LEMMA Inductive == Spec => []IInv
  BY InitInv, NextInv, PTL DEF Spec

\* Every variable stays in its set: the slot and id counters never run past the
\* transmissions dispatched, the unkey attempts never past their limit.
THEOREM TypeCorrect == Spec => []TypeOK
  <1>1. IInv => TypeOK
    BY DEF IInv
  <1>2. QED
    BY <1>1, Inductive, PTL

\* The flag a transmission runs under is its own: no Stop that covers it is
\* lost and none for an earlier one, or a stale watchdog's, reaches it.
THEOREM StopExact == Spec => []StopFlagExact
  <1>1. IInv => StopFlagExact
    BY DEF IInv
  <1>2. QED
    BY <1>1, Inductive, PTL

\* A Stop cancels what is queued behind the transmission it interrupts.
THEOREM StopCancelsQueue == Spec => []CancelledNeverRuns
  <1>1. IInv => CancelledNeverRuns
    BY DEF IInv
  <1>2. QED
    BY <1>1, Inductive, PTL

\* A radio on the air is within reach of an emergency unkey or announced.
THEOREM NoForgottenCarrier == Spec => []CarrierAccounted
  <1>1. IInv => CarrierAccounted
    BY DEF IInv
  <1>2. QED
    BY <1>1, Inductive, PTL

\* A transmission is never reported complete once a Stop covers it, and its
\* outcome is reported once.
THEOREM StoppedNeverCompletes == Spec => NoCompletionAfterStop
  <1>1. IInv /\ [Next]_vars
          => [slotsRun' = slotsRun /\ outcome' # outcome
                => /\ outcome = "none"
                   /\ outcome' = "complete" => slotsRun > covers]_vars
    <2> SUFFICES ASSUME IInv, Next, slotsRun' = slotsRun, outcome' # outcome
                 PROVE  /\ outcome = "none"
                        /\ outcome' = "complete" => slotsRun > covers
      OBVIOUS
    <2>1. slotsRun \in Nat /\ covers \in Nat
      BY WorkerAssumption DEF IInv, TypeOK
    <2>2. Encode \/ Conclude
      <3>1. ~BeginSlot
        BY <2>1 DEF BeginSlot
      <3>2. CASE Worker
        BY <3>1, <3>2
        DEF Worker, StartSlot, TakeTxId, SynthesizeTone, ArmWatchdog, ClaimRig, Key,
            Settle, Unkey, EndSlot
      <3>3. CASE ~Worker
        BY <3>3
        DEF Next, Dispatch, SetRig, Playback, PlayReturns, PlayRaises, HealthLost,
            Watchdog, WatchdogFires, WatchdogChecks, WatchdogUnkeys, WatchdogStops,
            WatchdogCuts, DogOnly, CallStop, Stopper, StopperUnkeys, RequestStop,
            StopperCuts, workerVars
      <3>4. QED
        BY <3>2, <3>3
    <2>3. Running
      BY <2>2 DEF Encode, Conclude, Running
    <2>4. outcome = "none"
      BY <2>3 DEF IInv, Counting
    <2>5. outcome' = "complete" => slotsRun > covers
      <3>1. outcome' = "complete" => ~stop
        BY <2>2 DEF Encode, Conclude
      <3>2. QED
        BY <2>1, <2>3, <3>1 DEF IInv, StopFlagExact
    <2>6. QED
      BY <2>4, <2>5
  <1>2. QED
    BY <1>1, Inductive, PTL DEF Spec, NoCompletionAfterStop
-----------------------------------------------------------------------------
(* A transmission whose audio was cut.                                     *)

\* Slots that will still be played or are being played.
Ahead(n) == n > slotsRun \/ (n = slotsRun /\ w \notin {"idle", "begin"})

\* What a stop that has raised the flag and not yet cut the audio can hit.
LateCut ==
  \A s \in Stoppers, n \in Slots :
    stopper[s] = "cutting" /\ covers < n /\ n <= issued /\ Ahead(n)
      => n \in amidStop

CutInv ==
  /\ cutAudio => w \in {"playing", "unkeying", "concluding", "ending"}
  /\ cutAudio /\ Running => stop \/ slotsRun \in amidStop
  /\ \A i \in TxIds : dog[i] = "cutting" => stop
  /\ LateCut
  /\ CompleteWasPlayed

LEMMA CutInit == Init => CutInv
  BY DEF Init, CutInv, LateCut, CompleteWasPlayed, Running

LEMMA CutWorker ==
  ASSUME IInv, CutInv, Worker \/ Playback
  PROVE  CutInv'
  <1>0. /\ slotsRun \in Nat /\ covers \in Nat /\ issued \in Nat
        /\ \A n \in Slots : n \in Nat
        /\ dog \in [TxIds -> {"off", "armed", "fired", "unkeying", "flagging", "cutting"}]
    BY WorkerAssumption DEF IInv, TypeOK, Slots
  <1>1. CASE StartSlot
    BY <1>0, <1>1
    DEF StartSlot, WorkerTo, CutInv, LateCut, Ahead, CompleteWasPlayed, Running,
        radioVars, historyVars
  <1>2. CASE BeginSlot
    BY <1>0, <1>2
    DEF BeginSlot, TxIdLockFree, WorkerTo, CutInv, LateCut, Ahead,
        CompleteWasPlayed, Running, radioVars
  <1>3. CASE \/ TakeTxId \/ Encode \/ SynthesizeTone \/ ClaimRig \/ Key \/ Settle
             \/ Unkey \/ PlayReturns \/ PlayRaises
    BY <1>3
    DEF TakeTxId, Encode, SynthesizeTone, ClaimRig, Key, Settle, Unkey, PlayReturns,
        PlayRaises, WorkerTo, WorkerOnly, CutInv, LateCut, Ahead,
        CompleteWasPlayed, Running, requestVars, radioVars, historyVars
  <1>4. CASE ArmWatchdog
    BY <1>0, <1>4
    DEF ArmWatchdog, CutInv, LateCut, Ahead, CompleteWasPlayed, Running,
        requestVars, radioVars, historyVars
  <1>5. CASE HealthLost
    BY <1>5
    DEF HealthLost, WorkerTo, CutInv, LateCut, Ahead, CompleteWasPlayed, Running,
        radioVars
  <1>6. CASE Conclude
    BY <1>0, <1>6
    DEF Conclude, WorkerTo, CutInv, LateCut, Ahead, CompleteWasPlayed, Running,
        requestVars, radioVars, historyVars
  <1>7. CASE EndSlot
    BY <1>0, <1>7
    DEF EndSlot, WorkerTo, CutInv, LateCut, Ahead, CompleteWasPlayed, Running,
        requestVars, radioVars
  <1>8. QED
    BY <1>1, <1>2, <1>3, <1>4, <1>5, <1>6, <1>7 DEF Worker, Playback

LEMMA CutOthers ==
  ASSUME IInv, CutInv,
         \/ Dispatch \/ \E r \in Rigs : SetRig(r)
         \/ \E i \in TxIds : Watchdog(i)
         \/ \E s \in Stoppers : CallStop(s) \/ Stopper(s)
  PROVE  CutInv'
  <1>0. /\ slotsRun \in Nat /\ covers \in Nat /\ issued \in Nat
        /\ \A n \in Slots : n \in Nat
        /\ dog \in [TxIds -> {"off", "armed", "fired", "unkeying", "flagging", "cutting"}]
        /\ stopper \in [Stoppers -> {"outside", "unkeying", "flagging", "cutting"}]
    BY WorkerAssumption DEF IInv, TypeOK, Slots
  <1>1. CASE Dispatch
    BY <1>0, <1>1
    DEF Dispatch, CutInv, LateCut, Ahead, CompleteWasPlayed, Running, Stoppers,
        workerVars
  <1>2. CASE \E r \in Rigs : SetRig(r)
    BY <1>2
    DEF SetRig, CutInv, LateCut, Ahead, CompleteWasPlayed, Running, workerVars,
        requestVars, historyVars
  <1>3. CASE \E i \in TxIds : \/ WatchdogFires(i) \/ WatchdogChecks(i)
                              \/ WatchdogUnkeys(i) \/ WatchdogStops(i)
    BY <1>0, <1>3
    DEF WatchdogFires, WatchdogChecks, WatchdogUnkeys, WatchdogStops, DogTo, DogOnly,
        CutInv, LateCut, Ahead, CompleteWasPlayed, Running, workerVars
  <1>4. CASE \E i \in TxIds : WatchdogCuts(i)
    <2>1. stop
      BY <1>4 DEF WatchdogCuts, CutInv
    <2>2. QED
      BY <1>0, <1>4, <2>1
      DEF WatchdogCuts, DogTo, CutAudio, CutInv, LateCut, Ahead, CompleteWasPlayed,
          Running, requestVars, historyVars
  <1>5. CASE \E s \in Stoppers : CallStop(s) \/ StopperUnkeys(s) \/ RequestStop(s)
    BY <1>0, <1>5
    DEF CallStop, StopperUnkeys, RequestStop, CoverQueued, StopperTo, CutInv, LateCut,
        Ahead, CompleteWasPlayed, Running, workerVars, requestVars, historyVars
  <1>6. CASE \E s \in Stoppers : StopperCuts(s)
    <2>1. w = "playing" => stop \/ slotsRun \in amidStop
      <3>1. w = "playing" => slotsRun \in Slots /\ slotsRun <= issued /\ Ahead(slotsRun)
        BY <1>0, WorkerAssumption
        DEF IInv, TypeOK, Counting, Running, Ahead, Slots
      <3>2. QED
        BY <1>0, <1>6, <3>1
        DEF StopperCuts, IInv, StopFlagExact, Running, CutInv, LateCut
    <2>2. /\ UNCHANGED <<w, outcome, slotsRun, covers, issued, stop, amidStop, dog>>
          /\ cutAudio' = (cutAudio \/ w = "playing")
          /\ \A t \in Stoppers : stopper'[t] = "cutting" => stopper[t] = "cutting"
      BY <1>0, <1>6 DEF StopperCuts, StopperTo, CutAudio, requestVars, historyVars
    <2>3. QED
      BY <2>1, <2>2 DEF CutInv, LateCut, Ahead, CompleteWasPlayed, Running
  <1>7. QED
    BY <1>1, <1>2, <1>3, <1>4, <1>5, <1>6 DEF Watchdog, Stopper

\* A transmission cut off in mid-picture is never reported complete, unless it
\* was dispatched while the plane was between the halves of a stop.
THEOREM CutNeverComplete == Spec => []CompleteWasPlayed
  <1>1. IInv /\ CutInv /\ [Next]_vars => CutInv'
    <2>1. ASSUME CutInv, UNCHANGED vars PROVE CutInv'
      BY <2>1
      DEF vars, workerVars, requestVars, historyVars, CutInv, LateCut, Ahead,
          CompleteWasPlayed, Running
    <2>2. QED
      BY <2>1, CutWorker, CutOthers DEF Next
  <1>2. CutInv => CompleteWasPlayed
    BY DEF CutInv
  <1>3. QED
    BY <1>1, <1>2, CutInit, Inductive, PTL DEF Spec

\* A Stop ends what it was meant for, and nothing else.
THEOREM StopIsHonoured == Spec => []StopHonoured
  BY StopExact, StopCancelsQueue, CutNeverComplete, PTL DEF StopHonoured

---------------------------------------------------------------------------
(* TxWorker implements TxPromise, for every value of the constants. *)

LEMMA StageIs ==
  /\ w \in {"idle", "begin"} => Stage = "idle"
  /\ w = "ending" => Stage = "ending"
  /\ Running => Stage = "running"
  BY DEF Stage, Running

LEMMA StageIsNext ==
  /\ w' \in {"idle", "begin"} => Stage' = "idle"
  /\ w' = "ending" => Stage' = "ending"
  /\ Running' => Stage' = "running"
  BY DEF Stage, Running

\* Steps the promise does not see.
LEMMA StutterRefines ==
  ASSUME UNCHANGED <<issued, slotsRun, covers, stop, outcome>>,
         \/ UNCHANGED w
         \/ Running /\ Running'
         \/ w = "idle" /\ w' = "begin"
  PROVE  UNCHANGED Promise!promiseVars
  <1>1. CASE UNCHANGED w
    BY <1>1 DEF Stage, Promise!promiseVars
  <1>2. CASE (Running /\ Running') \/ (w = "idle" /\ w' = "begin")
    BY <1>2, StageIs, StageIsNext DEF Promise!promiseVars
  <1>3. QED
    BY <1>1, <1>2

\* The worker begins, covered or not, concludes and ends a transmission.
LEMMA WorkerRefines ==
  ASSUME IInv, Worker \/ Playback
  PROVE  [Promise!Next]_(Promise!promiseVars)
  <1>1. CASE \/ StartSlot \/ TakeTxId \/ SynthesizeTone \/ ArmWatchdog \/ ClaimRig
             \/ Key \/ Settle \/ Unkey \/ PlayReturns \/ PlayRaises
    BY <1>1, StutterRefines
    DEF StartSlot, TakeTxId, SynthesizeTone, ArmWatchdog, ClaimRig, Key, Settle,
        Unkey, PlayReturns, PlayRaises, WorkerTo, WorkerOnly, requestVars, Running
  <1>2. CASE BeginSlot
    <2>1. slotsRun < issued
      BY <1>2, WorkerAssumption DEF BeginSlot, IInv, TypeOK, Counting
    <2>2. Stage = "idle"
      BY <1>2, StageIs DEF BeginSlot
    <2>3. Stage' = IF w' = "ending" THEN "ending" ELSE "running"
      BY <1>2, StageIsNext DEF BeginSlot, WorkerTo, Running
    <2>4. Promise!BeginCovered \/ Promise!Begin
      BY <1>2, <2>1, <2>2, <2>3
      DEF BeginSlot, WorkerTo, Promise!BeginCovered, Promise!Begin
    <2>5. QED
      BY <2>4 DEF Promise!Next
  <1>3. CASE Encode
    <2>1. CASE Running'
      BY <1>3, <2>1, StutterRefines
      DEF Encode, WorkerTo, WorkerOnly, requestVars, Running
    <2>2. CASE ~Running'
      <3>1. Stage = "running" /\ Stage' = "ending"
        BY <1>3, <2>2, StageIs, StageIsNext DEF Encode, WorkerTo, Running
      <3>2. Promise!Conclude
        BY <1>3, <2>2, <3>1
        DEF Encode, WorkerTo, WorkerOnly, requestVars, Running, Promise!Conclude
      <3>3. QED
        BY <3>2 DEF Promise!Next
    <2>3. QED
      BY <2>1, <2>2
  <1>4. CASE Conclude
    <2>1. Stage = "running" /\ Stage' = "ending"
      BY <1>4, StageIs, StageIsNext DEF Conclude, WorkerTo, Running
    <2>2. Promise!Conclude
      BY <1>4, <2>1 DEF Conclude, requestVars, Promise!Conclude
    <2>3. QED
      BY <2>2 DEF Promise!Next
  <1>5. CASE EndSlot
    <2>1. Stage = "ending" /\ Stage' = "idle"
      BY <1>5, StageIs, StageIsNext DEF EndSlot, WorkerTo
    <2>2. Promise!End
      BY <1>5, <2>1 DEF EndSlot, requestVars, Promise!End
    <2>3. QED
      BY <2>2 DEF Promise!Next
  <1>6. CASE HealthLost
    <2>1. Stage' = Stage
      BY <1>6, StageIs, StageIsNext DEF HealthLost, WorkerTo, Running
    <2>2. Promise!Overrun
      BY <1>6, <2>1 DEF HealthLost, Promise!Overrun
    <2>3. QED
      BY <2>2 DEF Promise!Next
  <1>7. QED
    BY <1>1, <1>2, <1>3, <1>4, <1>5, <1>6 DEF Worker, Playback

\* The threads that dispatch and stop leave the worker where it is.
LEMMA OthersRefine ==
  ASSUME IInv,
         \/ Dispatch \/ \E r \in Rigs : SetRig(r)
         \/ \E i \in TxIds : Watchdog(i)
         \/ \E s \in Stoppers : CallStop(s) \/ Stopper(s)
  PROVE  [Promise!Next]_(Promise!promiseVars)
  <1>1. UNCHANGED <<w, slotsRun, outcome>>
    BY DEF Dispatch, SetRig, Watchdog, WatchdogFires, WatchdogChecks, WatchdogUnkeys,
           WatchdogStops, WatchdogCuts, DogOnly, CallStop, Stopper, StopperUnkeys,
           RequestStop, StopperCuts, workerVars, requestVars
  <1>2. UNCHANGED Stage
    BY <1>1 DEF Stage
  <1>3. CASE Dispatch
    <2>1. Promise!Dispatch
      BY <1>1, <1>2, <1>3 DEF Dispatch, Promise!Dispatch
    <2>2. QED
      BY <2>1 DEF Promise!Next
  <1>4. CASE \E s \in Stoppers : RequestStop(s)
    <2>1. Promise!RequestStop
      BY <1>1, <1>2, <1>4 DEF RequestStop, CoverQueued, Promise!RequestStop
    <2>2. QED
      BY <2>1 DEF Promise!Next
  <1>5. CASE \E i \in TxIds : WatchdogStops(i)
    <2>1. Promise!Overrun
      BY <1>1, <1>2, <1>5 DEF WatchdogStops, DogOnly, Promise!Overrun
    <2>2. QED
      BY <2>1 DEF Promise!Next
  <1>6. CASE \/ \E r \in Rigs : SetRig(r)
             \/ \E i \in TxIds : \/ WatchdogFires(i) \/ WatchdogChecks(i)
                                 \/ WatchdogUnkeys(i) \/ WatchdogCuts(i)
             \/ \E s \in Stoppers : CallStop(s) \/ StopperUnkeys(s) \/ StopperCuts(s)
    BY <1>1, <1>6, StutterRefines
    DEF SetRig, WatchdogFires, WatchdogChecks, WatchdogUnkeys, WatchdogCuts, DogOnly,
        CallStop, StopperUnkeys, StopperCuts, workerVars, requestVars
  <1>7. QED
    BY <1>3, <1>4, <1>5, <1>6 DEF Watchdog, Stopper

\* The detailed worker implements the abstract one: no watchdog, wedged audio,
\* failing rig or race of stops shows its callers anything but transmissions
\* run one by one in order, none of them after a Stop covered it.
THEOREM KeepsPromise == Spec => PromiseKept
  <1>1. Init => Promise!Init
    <2> SUFFICES ASSUME Init PROVE Promise!Init
      OBVIOUS
    <2>1. Stage = "idle"
      BY StageIs DEF Init
    <2>2. QED
      BY <2>1 DEF Init, Promise!Init
  <1>2. IInv /\ [Next]_vars => [Promise!Next]_(Promise!promiseVars)
    <2> SUFFICES ASSUME IInv, [Next]_vars
                 PROVE  [Promise!Next]_(Promise!promiseVars)
      OBVIOUS
    <2>1. CASE UNCHANGED vars
      BY <2>1, StutterRefines DEF vars, workerVars, requestVars
    <2>2. QED
      BY <2>1, WorkerRefines, OthersRefine DEF Next
  <1>3. QED
    BY <1>1, <1>2, Inductive, PTL DEF Spec, PromiseKept, Promise!Spec

-----------------------------------------------------------------------------
(* Its audio *)

\* From the count going up to its going down.
Counted == {"snapshot", "open", "publish", "route", "poll", "drain", "clear", "exit",
            "close", "leave"}
\* The stream is open and its thread has not begun to close it.
Opened == {"publish", "route", "poll", "drain", "clear", "exit"}

\* Who holds the lock, and what the transmission has and shows meanwhile.
GateInv ==
    /\ rx \in {"idle", "reset"}
    /\ engine = "down" => rx = "reset"
    /\ rx = "reset" => lock = "rx" /\ active = 0
    /\ active = IF tx \in Counted THEN 1 ELSE 0
    /\ stopping \in [StopThreads -> {"idle", "called", "abort"}]
    /\ \A s \in StopThreads : stopping[s] = "abort" => lock = s /\ slot
    /\ slot => tx \in {"route", "poll", "drain", "clear"}
    /\ tx \in Opened => stream \in {"running", "last", "ended"}
    /\ tx = "close" => stream = "closing"
    /\ tx \notin Opened \cup {"close"} => stream = "none"

-----------------------------------------------------------------------------
LEMMA GateHolds == ASSUME GateInv PROVE HandlesValid
  <1>1. engine = "down" => tx \notin Counted
    BY DEF GateInv
  <1>2. engine = "down" => stream = "none"
    BY <1>1 DEF GateInv, Counted, Opened
  <1>3. ASSUME NEW s \in StopThreads, stopping[s] = "abort"
        PROVE  stream \notin {"none", "closing"}
    BY <1>3 DEF GateInv, Opened
  <1>4. QED
    BY <1>2, <1>3 DEF HandlesValid

LEMMA GateInit == OutInit => GateInv
  BY AudioAssumption DEF OutInit, HostInit, GateInv, Counted, Opened

USE DEF Counted, Opened

\* The host's steps, between transmissions or before one is counted.
LEMMA GateHost == ASSUME GateInv, HostSteps PROVE GateInv'
  <1> USE AudioAssumption DEF GateInv, playVars, streamVars, stopVars
  <1>1. CASE RunIfTxIdle /\ UNCHANGED playVars
    BY <1>1 DEF RunIfTxIdle
  <1>2. CASE PaReset /\ UNCHANGED playVars
    BY <1>2 DEF PaReset
  <1>3. CASE Resolve /\ UNCHANGED playVars
    BY <1>3 DEF Resolve
  <1>4. CASE Query /\ UNCHANGED playVars
    <2>1. tx \in {"query", "requery"} /\ tx' \in {"keyed", "idle", "found"}
      BY <1>4 DEF Query
    <2>2. QED
      BY <1>4, <2>1 DEF Query
  <1>5. CASE Resolved /\ UNCHANGED playVars
    BY <1>5 DEF Resolved
  <1>6. CASE /\ Plug \/ ApplyQuery \/ SetOutputDevice \/ SetOutputDeviceName
                \/ MarkOutputDeviceStale
             /\ UNCHANGED playVars
    <2>1. UNCHANGED <<rx, engine, lock, active, tx>>
      BY <1>6 DEF Plug, ApplyQuery, SetOutputDevice, SetOutputDeviceName,
                  MarkOutputDeviceStale
    <2>2. QED
      BY <1>6, <2>1
  <1>7. QED
    BY <1>1, <1>2, <1>3, <1>4, <1>5, <1>6 DEF HostSteps, HostNext

\* The worker's thread.
LEMMA GatePlay ==
  ASSUME GateInv, Transmit \/ PlayStep \/ PollUnhealthy
  PROVE  GateInv'
  <1> USE AudioAssumption DEF GateInv, deviceVars, gateVars, streamVars, stopVars, Abort, Live
  <1>1. CASE Transmit
    BY <1>1 DEF Transmit
  <1>2. CASE Play
    BY <1>2 DEF Play
  <1>3. CASE Enter
    BY <1>3 DEF Enter
  <1>4. CASE Snapshot
    BY <1>4 DEF Snapshot
  <1>5. CASE OpenStream
    BY <1>5 DEF OpenStream
  <1>6. CASE Publish
    BY <1>6 DEF Publish
  <1>7. CASE Route
    BY <1>7 DEF Route
  <1>8. CASE PollEnded \/ PollStopped \/ PollStalled \/ PollUnhealthy
    BY <1>8 DEF PollEnded, PollStopped, PollStalled, PollUnhealthy
  <1>9. CASE PollDeliver \/ Drain
    BY <1>9 DEF PollDeliver, Drain
  <1>10. CASE Clear
    BY <1>10 DEF Clear
  <1>11. CASE Exit \/ CloseStream
    BY <1>11 DEF Exit, CloseStream
  <1>12. CASE Leave
    BY <1>12 DEF Leave
  <1>13. QED
    BY <1>1, <1>2, <1>3, <1>4, <1>5, <1>6, <1>7, <1>8, <1>9, <1>10, <1>11, <1>12 DEF PlayStep

\* PortAudio's thread, other programs and the stopping threads.
LEMMA GateOthers ==
  ASSUME GateInv,
         \/ Callback \/ Finished \/ Freeze \/ OtherPlays
         \/ \E s \in StopThreads : StopCall(s) \/ StopLock(s) \/ StopAbort(s)
  PROVE  GateInv'
  <1> USE AudioAssumption DEF GateInv, deviceVars, gateVars, streamVars, stopVars, Abort, Live
  <1>1. CASE Callback \/ Finished
    BY <1>1 DEF Callback, Finished
  <1>2. CASE Freeze \/ OtherPlays
    BY <1>2 DEF Freeze, OtherPlays
  <1>3. ASSUME NEW s \in StopThreads, StopCall(s) PROVE GateInv'
    BY <1>3 DEF StopCall
  <1>4. ASSUME NEW s \in StopThreads, StopLock(s) PROVE GateInv'
    BY <1>4 DEF StopLock
  <1>5. ASSUME NEW s \in StopThreads, StopAbort(s) PROVE GateInv'
    <2>1. lock = s /\ slot /\ lock # "rx" /\ tx \in Opened
      BY <1>5 DEF StopAbort
    <2>2. \A t \in StopThreads : stopping'[t] # "abort"
      BY <1>5, <2>1 DEF StopAbort
    <2>3. QED
      BY <1>5, <2>1, <2>2 DEF StopAbort
  <1>6. QED
    BY <1>1, <1>2, <1>3, <1>4, <1>5

LEMMA GateStep == ASSUME GateInv, [OutNext]_outVars PROVE GateInv'
  <1>1. CASE UNCHANGED outVars
    BY <1>1 DEF GateInv, outVars, hostVars, playVars, streamVars, stopVars
  <1>2. QED
    BY <1>1, GateHost, GatePlay, GateOthers DEF OutNext

\* PortAudio is never shut down under a transmission's stream, and no stop
\* aborts a stream that its own thread is closing (run_if_tx_idle, stop).
THEOREM HandlesStayValid == OutSpec => []HandlesValid
  <1>1. OutInit /\ [][OutNext]_outVars => []GateInv
    BY GateInit, GateStep, PTL
  <1>2. QED
    BY <1>1, GateHolds, PTL DEF OutSpec

-----------------------------------------------------------------------------
(* What was played is reported.  While nothing was dropped the hand-off     *)
(* queue holds exactly the blocks played and not yet reported, in order.    *)

Ending == {"drain", "clear", "exit", "close", "leave"}
Excused == failure # "none" \/ stopFlag \/ stray

QueueInv ==
    /\ position \in Nat /\ reported \in Nat /\ queue \in Seq(Nat) /\ dropped \in BOOLEAN
    /\ ~dropped => /\ reported + Len(queue) = position
                   /\ \A i \in 1 .. Len(queue) : queue[i] = reported + i

EndInv ==
    /\ QueueInv
    /\ stream = "last" => position = Total
    /\ stream = "ended" \/ tx \in Ending => Excused \/ position = Total
    /\ tx \in Ending \cap Opened => (failure = "none" => stream = "ended")
    /\ tx \in Ending \ {"drain"} => (failure = "none" => queue = <<>>)

LEMMA EndHolds == ASSUME EndInv PROVE PlayedIsReported
  <1> SUFFICES ASSUME tx = "leave", failure = "none", ~stopFlag, ~stray
               PROVE  position = Total /\ (reported = Total \/ dropped)
    BY DEF PlayedIsReported
  <1>1. position = Total /\ queue = <<>>
    BY DEF EndInv, Ending, Excused
  <1>2. QED
    BY <1>1, AudioAssumption DEF EndInv, QueueInv

LEMMA NothingQueued ==
  ASSUME position = 0, reported = 0, queue = <<>>, dropped = FALSE PROVE QueueInv
  <1>1. queue \in Seq(Nat) /\ Len(queue) = 0
    BY EmptySeq
  <1>2. \A i \in 1 .. Len(queue) : FALSE
    BY <1>1
  <1>3. reported + Len(queue) = position
    BY <1>1
  <1>4. position \in Nat /\ reported \in Nat
    OBVIOUS
  <1>5. dropped \in BOOLEAN
    OBVIOUS
  <1>6. QED
    BY <1>1, <1>2, <1>3, <1>4, <1>5 DEF QueueInv

LEMMA EndInit == OutInit => EndInv
  BY NothingQueued DEF OutInit, HostInit, EndInv, Ending

USE DEF Ending, Excused

\* Blocks taken from the queue are the next ones to report.
LEMMA DeliverQueue == ASSUME QueueInv, PollDeliver PROVE QueueInv'
  <1>1. CASE queue = <<>>
    BY <1>1 DEF PollDeliver, QueueInv
  <1>2. CASE queue # <<>>
    <2>1. /\ Head(queue) = queue[1] /\ Tail(queue) \in Seq(Nat) /\ queue[1] \in Nat
          /\ Len(queue) \in Nat \ {0} /\ Len(Tail(queue)) = Len(queue) - 1
          /\ \A i \in 1 .. Len(Tail(queue)) : Tail(queue)[i] = queue[i + 1]
      BY <1>2, HeadTailProperties DEF QueueInv
    <2>2. /\ reported' = Head(queue) /\ queue' = Tail(queue)
          /\ position' = position /\ dropped' = dropped
      BY <1>2 DEF PollDeliver
    <2>3. ~dropped => queue[1] = reported + 1 /\ reported + Len(queue) = position
      BY <2>1 DEF QueueInv
    <2>4. ASSUME ~dropped, NEW i \in 1 .. Len(Tail(queue))
          PROVE  Tail(queue)[i] = queue[1] + i
      <3>1. i + 1 \in 1 .. Len(queue) /\ queue[i + 1] = reported + (i + 1)
        BY <2>1, <2>4 DEF QueueInv
      <3>2. QED
        BY <2>1, <2>3, <2>4, <3>1 DEF QueueInv
    <2>5. QED
      BY <2>1, <2>2, <2>3, <2>4 DEF QueueInv
  <1>3. QED
    BY <1>1, <1>2

LEMMA DrainQueue == ASSUME QueueInv, Drain PROVE QueueInv' /\ queue' = <<>>
  <1>1. CASE queue = <<>>
    BY <1>1 DEF Drain, QueueInv
  <1>2. CASE queue # <<>>
    <2>1. Len(queue) \in 1 .. Len(queue) /\ Last(queue) \in Nat
      BY <1>2, EmptySeq DEF QueueInv, Last
    <2>2. ~dropped => Last(queue) = position
      BY <2>1 DEF QueueInv, Last
    <2>3. reported' = Last(queue) /\ queue' = <<>> /\ position' = position /\ dropped' = dropped
      BY <1>2 DEF Drain
    <2>4. QED
      BY <2>1, <2>2, <2>3 DEF QueueInv
  <1>3. QED
    BY <1>1, <1>2

LEMMA CallbackQueue == ASSUME QueueInv, Callback PROVE QueueInv'
  <1>1. CASE UNCHANGED <<position, queue, dropped>>
    BY <1>1 DEF Callback, QueueInv, clockVars
  <1>2. CASE position' = position + 1 /\ dropped' = TRUE /\ UNCHANGED queue
    BY <1>2 DEF Callback, QueueInv, clockVars
  <1>3. CASE /\ position' = position + 1
             /\ queue' = Append(queue, position') /\ UNCHANGED dropped
    <2>1. position' \in Nat /\ reported' = reported
      BY <1>3 DEF Callback, QueueInv, clockVars
    <2>2. /\ queue' \in Seq(Nat) /\ Len(queue') = Len(queue) + 1
          /\ \A i \in 1 .. Len(queue) : queue'[i] = queue[i]
          /\ queue'[Len(queue) + 1] = position'
      BY <1>3, <2>1, AppendProperties DEF QueueInv
    <2>3. ASSUME ~dropped, NEW i \in 1 .. Len(queue) + 1
          PROVE  queue'[i] = reported + i
      <3>1. Len(queue) \in Nat
        BY LenProperties DEF QueueInv
      <3>2. CASE i = Len(queue) + 1
        <4>1. queue'[i] = position + 1
          BY <1>3, <2>2, <3>2
        <4>2. reported + Len(queue) = position
          BY <2>3 DEF QueueInv
        <4>3. QED
          BY <3>1, <3>2, <4>1, <4>2 DEF QueueInv
      <3>3. CASE i \in 1 .. Len(queue)
        BY <2>2, <2>3, <3>3 DEF QueueInv
      <3>4. QED
        BY <3>1, <3>2, <3>3
    <2>4. QED
      BY <1>3, <2>1, <2>2, <2>3 DEF QueueInv
  <1>4. QED
    BY <1>1, <1>2, <1>3 DEF Callback

LEMMA EndHost == ASSUME EndInv, GateInv, HostSteps PROVE EndInv'
  <1>1. UNCHANGED <<position, reported, queue, dropped, stream, failure, stopFlag, stray>>
    BY DEF HostSteps, playVars, streamVars, audioVars, clockVars, stopVars
  <1>2. tx' = tx \/ tx' \notin Ending
    BY DEF HostSteps, HostNext, Plug, RunIfTxIdle, PaReset, ApplyQuery, SetOutputDevice,
           SetOutputDeviceName, MarkOutputDeviceStale, Resolve, Query, Resolved
  <1>3. QED
    BY <1>1, <1>2 DEF EndInv, QueueInv

LEMMA EndPlay ==
  ASSUME EndInv, GateInv, Transmit \/ PlayStep \/ PollUnhealthy
  PROVE  EndInv'
  <1> USE DEF EndInv, deviceVars, gateVars, streamVars, stopVars, audioVars, clockVars
  <1>1. CASE Transmit
    BY <1>1 DEF Transmit, QueueInv, GateInv
  <1>2. CASE Play \/ Enter \/ Snapshot
    BY <1>2 DEF Play, Enter, Snapshot, QueueInv, GateInv
  <1>3. CASE OpenStream
    BY <1>3 DEF OpenStream, QueueInv, GateInv
  <1>4. CASE Publish \/ Route
    BY <1>4 DEF Publish, Route, QueueInv
  <1>5. CASE PollEnded
    BY <1>5 DEF PollEnded, QueueInv
  <1>6. CASE PollStopped \/ PollStalled \/ PollUnhealthy
    <2>1. tx = "poll" /\ tx' \in {"drain", "clear"} /\ (stopFlag' = TRUE \/ failure' = "stalled")
      BY <1>6 DEF PollStopped, PollStalled, PollUnhealthy
    <2>2. stream' = "ended"
      BY <1>6, <2>1 DEF PollStopped, PollStalled, PollUnhealthy, Abort, Live, GateInv
    <2>3. UNCHANGED <<position, reported, queue, dropped>>
      BY <1>6 DEF PollStopped, PollStalled, PollUnhealthy
    <2>4. tx' = "clear" => failure' = "stalled"
      BY <1>6 DEF PollStopped, PollStalled, PollUnhealthy
    <2>5. QED
      BY <2>1, <2>2, <2>3, <2>4 DEF QueueInv
  <1>7. CASE PollDeliver
    <2>1. QueueInv'
      BY <1>7, DeliverQueue
    <2>2. QED
      BY <1>7, <2>1 DEF PollDeliver
  <1>8. CASE Drain
    <2>1. QueueInv' /\ queue' = <<>>
      BY <1>8, DrainQueue
    <2>2. QED
      BY <1>8, <2>1 DEF Drain
  <1>9. CASE Clear \/ Exit \/ CloseStream
    BY <1>9 DEF Clear, Exit, CloseStream, QueueInv
  <1>10. CASE Leave
    <2>1. QueueInv'
      <3>1. position' = 0 /\ reported' = 0 /\ queue' = <<>> /\ dropped' = FALSE
        BY <1>10 DEF Leave
      <3>2. queue' \in Seq(Nat) /\ Len(queue') = 0
        BY <3>1, EmptySeq
      <3>3. \A i \in 1 .. Len(queue') : FALSE
        BY <3>2
      <3>4. reported' + Len(queue') = position'
        BY <3>1, <3>2
      <3>5. position' \in Nat /\ reported' \in Nat
        BY <3>1
      <3>6. dropped' \in BOOLEAN
        BY <3>1
      <3>7. QED
        BY <3>2, <3>3, <3>4, <3>5, <3>6 DEF QueueInv
    <2>2. tx' = "idle" /\ stream' = "none"
      BY <1>10 DEF Leave, GateInv
    <2>3. QED
      BY <2>1, <2>2
  <1>11. QED
    BY <1>1, <1>2, <1>3, <1>4, <1>5, <1>6, <1>7, <1>8, <1>9, <1>10 DEF PlayStep

LEMMA EndOthers ==
  ASSUME EndInv, GateInv,
         \/ Callback \/ Finished \/ Freeze \/ OtherPlays
         \/ \E s \in StopThreads : StopCall(s) \/ StopLock(s) \/ StopAbort(s)
  PROVE  EndInv'
  <1> USE DEF EndInv, deviceVars, gateVars, streamVars, stopVars, audioVars, clockVars
  <1>1. CASE Callback
    <2>1. QueueInv'
      BY <1>1, CallbackQueue
    <2>2. stream = "running" /\ UNCHANGED <<tx, failure, stopFlag, stray>>
      BY <1>1 DEF Callback
    <2>3. tx \in Ending => Excused
      BY <2>2 DEF GateInv
    <2>4. tx \in Ending => tx \in Opened /\ failure # "none"
      BY <2>2 DEF GateInv
    <2>5. stream' = "ended" => stopFlag
      BY <1>1 DEF Callback
    <2>6. stream' = "last" => position' = Total
      BY <1>1 DEF Callback
    <2>7. QED
      BY <2>1, <2>2, <2>3, <2>4, <2>5, <2>6
  <1>2. CASE Finished
    BY <1>2 DEF Finished, QueueInv
  <1>3. CASE Freeze \/ OtherPlays
    BY <1>3 DEF Freeze, OtherPlays, QueueInv
  <1>4. ASSUME NEW s \in StopThreads, StopCall(s) \/ StopLock(s) PROVE EndInv'
    <2>1. UNCHANGED <<position, reported, queue, dropped, tx, stream, failure, stray>>
      BY <1>4 DEF StopCall, StopLock
    <2>2. stopFlag => stopFlag'
      BY <1>4 DEF StopCall, StopLock
    <2>3. QED
      BY <2>1, <2>2 DEF QueueInv
  <1>5. ASSUME NEW s \in StopThreads, StopAbort(s) PROVE EndInv'
    <2>1. UNCHANGED <<position, reported, queue, dropped, tx, failure, stopFlag>>
      BY <1>5 DEF StopAbort
    <2>2. stopFlag' \/ stray'
      BY <1>5 DEF StopAbort
    <2>3. stream' = "ended"
      BY <1>5 DEF StopAbort, Abort, Live, GateInv
    <2>4. QED
      BY <2>1, <2>2, <2>3 DEF QueueInv
  <1>6. QED
    BY <1>1, <1>2, <1>3, <1>4, <1>5

LEMMA EndStep == ASSUME EndInv, GateInv, [OutNext]_outVars PROVE EndInv'
  <1>1. CASE UNCHANGED outVars
    BY <1>1 DEF EndInv, QueueInv, outVars, hostVars, playVars, streamVars, stopVars, audioVars,
                clockVars
  <1>2. QED
    BY <1>1, EndHost, EndPlay, EndOthers DEF OutNext

\* A playback that nobody stopped and nothing broke was played to its last
\* block, and reported to it (play_blocking's loop and drain).
THEOREM AllPlayedIsReported == OutSpec => []PlayedIsReported
  <1>1. OutInit /\ [][OutNext]_outVars => []GateInv
    BY GateInit, GateStep, PTL
  <1>2. OutInit /\ [][OutNext]_outVars => []EndInv
    BY <1>1, EndInit, EndStep, PTL
  <1>3. QED
    BY <1>2, EndHolds, PTL DEF OutSpec

-----------------------------------------------------------------------------
(* Whose stream is moved.  Ours is the next one after the snapshot, unless  *)
(* another program's came between.                                          *)

RouteInv ==
    /\ inputs \in Nat /\ before \in Nat /\ ours \in Nat /\ blind \in BOOLEAN
    /\ tx = "route" => target.kind = "sink"
    /\ tx = "open" /\ target.kind = "sink" /\ ~blind => before = inputs
    /\ tx \in {"publish", "route"} /\ target.kind = "sink" /\ ~blind => ours = before + 1

LEMMA RouteInit == OutInit => RouteInv
  <1> SUFFICES ASSUME OutInit PROVE RouteInv
    OBVIOUS
  <1>1. blind \in BOOLEAN
    BY DEF OutInit
  <1>2. inputs = 0 /\ before = 0 /\ ours = 0 /\ tx = "idle"
    BY DEF OutInit, HostInit
  <1>3. QED
    BY <1>1, <1>2 DEF RouteInv

LEMMA RouteHost == ASSUME RouteInv, HostSteps PROVE RouteInv'
  <1>1. UNCHANGED <<inputs, before, ours, blind, target>>
    BY DEF HostSteps, playVars, streamVars, routeVars
  <1>2. tx' = tx \/ tx' \notin {"open", "publish", "route"}
    BY DEF HostSteps, HostNext, Plug, RunIfTxIdle, PaReset, ApplyQuery, SetOutputDevice,
           SetOutputDeviceName, MarkOutputDeviceStale, Resolve, Query, Resolved
  <1>3. QED
    BY <1>1, <1>2 DEF RouteInv

LEMMA RouteOthers ==
  ASSUME RouteInv, OutNext, ~HostSteps
  PROVE  RouteInv' /\ (strayed' => strayed \/ blind)
  <1> USE DEF RouteInv, routeVars, streamVars
  <1>1. CASE Snapshot
    <2>1. tx' = "open" /\ UNCHANGED <<inputs, ours, target, strayed>>
      BY <1>1 DEF Snapshot
    <2>2. CASE target.kind # "sink"
      BY <1>1, <2>1, <2>2 DEF Snapshot
    <2>3. CASE target.kind = "sink"
      <3>1. CASE before' = inputs /\ blind' = FALSE
        BY <2>1, <3>1
      <3>2. CASE before' = 0 /\ blind' = (inputs # 0)
        <4>1. blind' \in BOOLEAN
          BY <3>2
        <4>2. ~blind' => before' = inputs
          BY <3>2
        <4>3. QED
          BY <2>1, <3>2, <4>1, <4>2
      <3>3. QED
        BY <1>1, <2>3, <3>1, <3>2 DEF Snapshot
    <2>4. QED
      BY <2>2, <2>3
  <1>2. CASE OpenStream
    BY <1>2 DEF OpenStream
  <1>3. CASE Publish
    BY <1>3 DEF Publish
  <1>4. CASE Route
    BY <1>4 DEF Route, Move
  <1>5. CASE OtherPlays
    <2>1. blind' \in BOOLEAN /\ (~blind' => ~blind /\ tx # "open")
      BY <1>5 DEF OtherPlays
    <2>2. UNCHANGED <<ours, before, strayed, target, tx>> /\ inputs' = inputs + 1
      BY <1>5 DEF OtherPlays
    <2>3. QED
      BY <2>1, <2>2
  <1>6. CASE Leave
    BY <1>6 DEF Leave
  <1>7. CASE /\ UNCHANGED routeVars
             /\ \/ tx' \notin {"open", "publish", "route"}
                \/ tx' = tx /\ target' = target
    BY <1>7
  <1>8. CASE \/ Transmit \/ Play \/ Enter \/ PollEnded \/ PollStopped \/ PollStalled
             \/ PollUnhealthy \/ PollDeliver \/ Drain \/ Clear \/ Exit \/ CloseStream
    BY <1>7, <1>8 DEF Transmit, Play, Enter, PollEnded, PollStopped, PollStalled,
        PollUnhealthy, PollDeliver, Drain, Clear, Exit, CloseStream
  <1>9. CASE Callback \/ Finished \/ Freeze
    BY <1>7, <1>9 DEF Callback, Finished, Freeze
  <1>10. ASSUME NEW s \in StopThreads, StopCall(s) \/ StopLock(s) \/ StopAbort(s)
         PROVE  RouteInv' /\ (strayed' => strayed \/ blind)
    BY <1>7, <1>10 DEF StopCall, StopLock, StopAbort
  <1>11. QED
    BY <1>1, <1>2, <1>3, <1>4, <1>5, <1>6, <1>8, <1>9, <1>10 DEF OutNext, PlayStep

LEMMA RouteStep ==
  ASSUME RouteInv, [OutNext]_outVars PROVE RouteInv' /\ (strayed' => strayed \/ blind)
  <1>1. CASE UNCHANGED outVars
    BY <1>1 DEF RouteInv, outVars, hostVars, playVars, streamVars, routeVars
  <1>2. CASE HostSteps
    BY <1>2, RouteHost DEF HostSteps, playVars, routeVars
  <1>3. QED
    BY <1>1, <1>2, RouteOthers

\* The stream that is moved to the radio's sink is the transmission's own
\* (route_active_stream_to_sink), but for the two excuses of `blind`.
THEOREM OthersAreUntouched == OutSpec => OthersUntouched
  <1>1. OutInit /\ [][OutNext]_outVars => []RouteInv
    BY RouteInit, RouteStep, PTL
  <1>2. RouteInv /\ [OutNext]_outVars => [strayed' => strayed \/ blind]_outVars
    BY RouteStep
  <1>3. QED
    BY <1>1, <1>2, PTL DEF OutSpec, OthersUntouched

-----------------------------------------------------------------------------
(* Which device is opened.                                                  *)

\* A look-up by name finds nothing or an entry of that name, on the API asked
\* for where the list has one there.
LEMMA FirstOf ==
  ASSUME NEW S, S \subseteq Nat, S # {} PROVE Min(S) \in S
  <1>1. \E x \in S : \A y \in S : ~(<<y, x>> \in OpToRel(<, Nat))
    BY NatLessThanWellFounded, WFMin
  <1>2. PICK x \in S : \A y \in S : ~(<<y, x>> \in OpToRel(<, Nat))
    BY <1>1
  <1>3. ASSUME NEW y \in S PROVE x =< y
    <2>1. <<y, x>> \in Nat \X Nat /\ ~(<<y, x>>[1] < <<y, x>>[2])
      BY <1>2 DEF OpToRel
    <2>2. QED
      BY <2>1
  <1>4. QED
    BY <1>3 DEF Min

\* An AudioDevice, as far as the proof has to know it.
IsDevice(d) ==
    /\ d.kind \in {"default", "portaudio", "sink"}
    /\ d.kind = "default" => d = Default

\* With PortAudio's list as it is, the device is one of that name.
Serves(d, list, name, api) ==
    /\ d.kind \in {"portaudio", "sink"}
    /\ d.kind = "portaudio" /\ d.at \in DOMAIN list =>
          /\ list[d.at].name = name
          /\ api # "" /\ (\E i \in Named(list, name) : list[i].api = api) =>
                list[d.at].api = api

LEMMA PickFinds ==
  ASSUME NEW list, DOMAIN list \subseteq Nat, NEW name, NEW api,
         NEW d, d = PickByName(list, name, api)
  PROVE  /\ IsDevice(d)
         /\ d # Default => Serves(d, list, name, api) /\ Serves(d, list, name, "")
  <1> DEFINE matches == Named(list, name)
             twins == {i \in matches : list[i].api = api}
  <1>1. matches \subseteq DOMAIN list /\ twins \subseteq matches
    BY DEF Named
  <1>2. CASE name = "" \/ matches = {}
    BY <1>2 DEF PickByName, IsDevice, Default
  <1>3. CASE name # "" /\ api # "" /\ twins # {}
    <2>1. Min(twins) \in twins
      BY <1>1, <1>3, FirstOf
    <2>2. d = AudioDevice(list, Min(twins))
      BY <1>1, <1>3 DEF PickByName
    <2>3. d.kind = "portaudio" /\ d.at \in DOMAIN list
          /\ list[d.at].name = name /\ list[d.at].api = api
      BY <1>1, <2>1, <2>2 DEF AudioDevice, Named
    <2>4. QED
      BY <2>3 DEF IsDevice, Serves
  <1>4. CASE name # "" /\ matches # {} /\ ~(api # "" /\ twins # {})
    <2>1. Min(matches) \in matches
      BY <1>1, <1>4, FirstOf
    <2>2. d = AudioDevice(list, Min(matches))
      BY <1>1, <1>4 DEF PickByName
    <2>3. d.kind = "portaudio" /\ d.at \in DOMAIN list /\ list[d.at].name = name
      BY <1>1, <2>1, <2>2 DEF AudioDevice, Named
    <2>4. api # "" => ~\E i \in Named(list, name) : list[i].api = api
      BY <1>4
    <2>5. QED
      BY <2>3, <2>4 DEF IsDevice, Serves
  <1>5. QED
    BY <1>1, <1>2, <1>3, <1>4

\* The device suits the wish on PortAudio's list, or there is no wish.
Right(d, list, u) == u.name = "" \/ Serves(d, list, u.name, u.api)

HostTypes ==
    /\ \A i \in DOMAIN host : i \in Nat
    /\ os \in Lists /\ engine \in {"up", "down"}
    /\ generation \in Nat /\ resolved \in Nat /\ resolved <= generation
    /\ fresh = [found |-> fresh.found, generation |-> fresh.generation, wish |-> fresh.wish]
    /\ fresh.generation \in Nat /\ fresh.generation <= generation
    /\ gui = [found |-> gui.found, wish |-> gui.wish, busy |-> gui.busy]
    /\ gui.busy \in {"no", "found", "set"} /\ (gui.busy = "no" => gui = NoSave)
    /\ IsDevice(device) /\ IsDevice(gui.found) /\ IsDevice(fresh.found)
    /\ raced \in BOOLEAN /\ stale \in BOOLEAN

\* The chain from the look-up to the opening, link by link.
DeviceInv ==
    /\ HostTypes
    /\ ~raced =>
        /\ InWindow => gui = NoSave
        /\ gui # NoSave => gui.found = Default \/ Right(gui.found, host, gui.wish)
        /\ gui.busy = "set" => device = gui.found
        /\ tx \in {"query", "requery", "found"} => fresh.wish = wish
        /\ tx = "found" => Right(fresh.found, host, wish)
        /\ tx = "keyed" => Right(device, host, wish)
        /\ tx \in {"enter", "snapshot", "open"} => Right(target, host, wish)
        /\ /\ gui = NoSave /\ ~stale /\ generation = resolved /\ device # Default
           /\ tx \notin {"query", "requery", "found"}
           => Right(device, host, wish)

LEMMA NoDevices == DOMAIN <<>> = {}
  OBVIOUS

\* No save is under way: nothing was found, nothing is set.
LEMMA NoSaveIs ==
  /\ NoSave.busy = "no" /\ IsDevice(NoSave.found)
  /\ NoSave = [found |-> NoSave.found, wish |-> NoSave.wish, busy |-> NoSave.busy]
  BY DEF NoSave, IsDevice, Default

LEMMA NoSaveIsIdle == gui = NoSave => gui.busy = "no"
  <1>1. gui = NoSave => gui.busy = NoSave.busy
    OBVIOUS
  <1>2. QED
    BY <1>1, NoSaveIs

LEMMA LookUp ==
  ASSUME HostTypes, NEW list \in {host, <<>>}, NEW u, NEW api, u.api # "" => api = u.api,
         NEW d, d \in {Either(PickByName(list, u.name, api), FindSink(u.name)),
                       Either(PickByName(list, u.name, api), Default)}
  PROVE  IsDevice(d) /\ (d = Default \/ Right(d, host, u))
  <1> DEFINE p == PickByName(list, u.name, api)
  <1>1. DOMAIN list \subseteq Nat
    BY NoDevices DEF HostTypes
  <1>2. /\ IsDevice(p)
        /\ p # Default => Serves(p, list, u.name, api) /\ Serves(p, list, u.name, "")
    <2> HIDE DEF p
    <2>1. p = PickByName(list, u.name, api)
      BY DEF p
    <2>2. QED
      BY <1>1, <2>1, PickFinds
  <1>3. list = <<>> => p = Default
    BY NoDevices DEF PickByName, Named
  <1>4. p # Default => Right(p, host, u)
    <2>1. CASE u.api = ""
      BY <1>2, <1>3, <2>1 DEF Right
    <2>2. CASE u.api # ""
      BY <1>2, <1>3, <2>2 DEF Right
    <2>3. QED
      BY <2>1, <2>2
  <1>5. /\ IsDevice(FindSink(u.name)) /\ IsDevice(Default)
        /\ FindSink(u.name) # Default => Right(FindSink(u.name), host, u)
    BY DEF FindSink, PipeWireSink, Default, IsDevice, Right, Serves
  <1>6. QED
    BY <1>2, <1>4, <1>5 DEF Either

LEMMA DeviceInit == OutInit => DeviceInv
  <1> SUFFICES ASSUME OutInit PROVE DeviceInv
    OBVIOUS
  <1>1. /\ generation = 0 /\ resolved = 0 /\ fresh = NoFind /\ gui = NoSave /\ host = os
        /\ os \in Lists /\ engine = "up" /\ tx = "idle"
    BY DEF OutInit, HostInit
  <1>2. raced \in BOOLEAN /\ stale \in BOOLEAN
    BY DEF OutInit, HostInit
  <1>3. IsDevice(gui.found) /\ IsDevice(fresh.found)
    BY <1>1 DEF NoSave, NoFind, IsDevice, Default
  <1>4. \A i \in DOMAIN host : i \in Nat
    BY <1>1, ListsAssumption
  <1>5. /\ IsDevice(PickByName(host, wish.name, wish.api))
        /\ PickByName(host, wish.name, wish.api) # Default =>
              Serves(PickByName(host, wish.name, wish.api), host, wish.name, wish.api)
    BY <1>4, PickFinds
  <1>6. IsDevice(device) /\ (device = Default \/ Right(device, host, wish))
    BY <1>5 DEF OutInit, HostInit, Either, FindSink, PipeWireSink, Default, IsDevice, Right, Serves
  <1>7. HostTypes
    <2>1. /\ fresh = [found |-> fresh.found, generation |-> fresh.generation,
                      wish |-> fresh.wish]
          /\ fresh.generation = 0
      BY <1>1 DEF NoFind
    <2>2. gui = [found |-> gui.found, wish |-> gui.wish, busy |-> gui.busy] /\ gui.busy = "no"
      BY <1>1 DEF NoSave
    <2>3. QED
      BY <1>1, <1>2, <1>3, <1>4, <1>6, <2>1, <2>2 DEF HostTypes
  <1>8. gui.busy # "set"
    BY <1>1 DEF NoSave
  <1>9. QED
    BY <1>1, <1>6, <1>7, <1>8 DEF DeviceInv, InWindow

\* A reset starts a new generation and, inside a chain, breaks it.
LEMMA DeviceReset ==
  ASSUME DeviceInv, (RunIfTxIdle \/ PaReset \/ Plug \/ MarkOutputDeviceStale),
         UNCHANGED playVars
  PROVE  DeviceInv'
  <1> USE DEF HostTypes, playVars, streamVars
  <1>1. CASE RunIfTxIdle
    BY <1>1 DEF RunIfTxIdle, DeviceInv, InWindow
  <1>2. CASE Plug
    <2>1. os' \in Lists
      BY <1>2 DEF Plug, DeviceInv
    <2>2. QED
      BY <1>2, <2>1 DEF Plug, DeviceInv, InWindow
  <1>3. CASE MarkOutputDeviceStale
    BY <1>3 DEF MarkOutputDeviceStale, DeviceInv, InWindow
  <1>4. CASE PaReset
    <2>1. host' \in {os, <<>>} /\ os \in Lists
      BY <1>4 DEF PaReset, DeviceInv
    <2>2. \A i \in DOMAIN host' : i \in Nat
      BY <2>1, ListsAssumption, NoDevices
    <2>3. /\ engine' = "up" /\ generation' = generation + 1
          /\ UNCHANGED <<os, gui, wish, device, stale, resolved, tx, fresh, target>>
      BY <1>4 DEF PaReset
    <2>4. raced' \in BOOLEAN /\ (~raced' => ~raced /\ ~InWindow /\ gui = NoSave)
      BY <1>4 DEF PaReset, DeviceInv
    <2>5. HostTypes'
      BY <2>2, <2>3, <2>4 DEF DeviceInv
    <2>6. generation' # resolved'
      BY <2>3 DEF DeviceInv
    <2>7. ~raced' => gui'.busy # "set"
      BY <2>3, <2>4, NoSaveIsIdle
    <2>8. QED
      BY <2>3, <2>4, <2>5, <2>6, <2>7 DEF DeviceInv, InWindow
  <1>5. QED
    BY <1>1, <1>2, <1>3, <1>4

\* A save of Settings looks the device up, and breaks a chain it meets.
LEMMA DeviceSave ==
  ASSUME DeviceInv, ApplyQuery \/ SetOutputDevice \/ SetOutputDeviceName, UNCHANGED playVars
  PROVE  DeviceInv'
  <1>1. target' = target
    BY DEF playVars, streamVars
  <1>2. CASE ApplyQuery
    <2>1. PICK u \in Wishes :
             gui' = [wish |-> u, busy |-> "found",
                     found |-> Either(PickByName(AllDevices, u.name, u.api), FindSink(u.name))]
      BY <1>2 DEF ApplyQuery
    <2>2. IsDevice(gui'.found) /\ (gui'.found = Default \/ Right(gui'.found, host, u))
      <3>1. AllDevices \in {host, <<>>}
        BY DEF AllDevices
      <3>2. QED
        BY <2>1, <3>1, LookUp DEF DeviceInv
    <2>3. /\ gui' = [found |-> gui'.found, wish |-> gui'.wish, busy |-> gui'.busy]
          /\ gui'.busy = "found" /\ gui'.wish = u /\ gui' # NoSave
      BY <2>1 DEF NoSave
    <2>4. /\ UNCHANGED <<os, host, engine, generation, wish, device, stale, resolved, tx, fresh>>
          /\ raced' \in BOOLEAN /\ (~raced' => ~raced /\ ~InWindow)
      BY <1>2 DEF ApplyQuery, DeviceInv, HostTypes
    <2>5. HostTypes'
      BY <2>2, <2>3, <2>4 DEF DeviceInv, HostTypes
    <2>6. QED
      BY <1>1, <2>2, <2>3, <2>4, <2>5 DEF DeviceInv, InWindow
  <1>3. CASE SetOutputDevice
    <2>1. /\ gui' = [found |-> gui.found, wish |-> gui.wish, busy |-> "set"]
          /\ device' = gui.found /\ gui.busy = "found"
      BY <1>3 DEF SetOutputDevice, DeviceInv, HostTypes
    <2>2. gui # NoSave /\ gui' # NoSave /\ gui'.busy = "set"
          /\ gui'.found = gui.found /\ gui'.wish = gui.wish
      <3>1. gui # NoSave
        BY <2>1, NoSaveIsIdle
      <3>2. gui' = NoSave => gui'.busy = NoSave.busy
        OBVIOUS
      <3>3. gui'.busy = "set" /\ gui'.found = gui.found /\ gui'.wish = gui.wish
        BY <2>1
      <3>4. QED
        BY <3>1, <3>2, <3>3, NoSaveIs
    <2>3. /\ UNCHANGED <<os, host, engine, generation, wish, stale, resolved, tx, fresh>>
          /\ raced' \in BOOLEAN /\ (~raced' => ~raced /\ ~InWindow)
      BY <1>3 DEF SetOutputDevice, DeviceInv, HostTypes
    <2>4. HostTypes'
      BY <2>1, <2>2, <2>3 DEF DeviceInv, HostTypes
    <2>5. QED
      BY <1>1, <2>1, <2>2, <2>3, <2>4 DEF DeviceInv, InWindow
  <1>4. CASE SetOutputDeviceName
    <2>1. gui' = NoSave /\ wish' = gui.wish /\ gui.busy = "set"
      BY <1>4 DEF SetOutputDeviceName
    <2>saving. gui # NoSave
      BY <2>1, NoSaveIsIdle
    <2>2. /\ UNCHANGED <<os, host, engine, generation, device, stale, resolved, tx, fresh>>
          /\ raced' \in BOOLEAN /\ (~raced' => ~raced /\ ~InWindow)
      BY <1>4 DEF SetOutputDeviceName, DeviceInv, HostTypes
    <2>3. /\ NoSave = [found |-> NoSave.found, wish |-> NoSave.wish, busy |-> NoSave.busy]
          /\ NoSave.busy = "no" /\ IsDevice(NoSave.found)
      BY NoSaveIs
    <2>4. HostTypes'
      BY <2>1, <2>2, <2>3 DEF DeviceInv, HostTypes
    <2>5. QED
      BY <1>1, <2>saving, <2>1, <2>2, <2>3, <2>4 DEF DeviceInv, InWindow
  <1>5. QED
    BY <1>2, <1>3, <1>4

\* The worker resolves the device it has, or looks it up anew.
LEMMA DeviceResolve ==
  ASSUME DeviceInv, GateInv, Resolve \/ Query \/ Resolved, UNCHANGED playVars
  PROVE  DeviceInv'
  <1>1. target' = target
    BY DEF playVars, streamVars
  <1>2. CASE Resolve
    <2>1. /\ UNCHANGED <<os, host, engine, generation, gui, wish, device, resolved>>
          /\ raced' \in BOOLEAN /\ (~raced' => ~raced /\ gui = NoSave)
          /\ tx = "resolve"
      BY <1>2 DEF Resolve, DeviceInv, HostTypes
    <2>2. gui = NoSave => gui.busy # "set"
      BY NoSaveIsIdle
    <2>3. CASE wish.name = "" \/ (device # Default /\ ~stale /\ generation = resolved)
      <3>1. tx' = "keyed" /\ UNCHANGED <<stale, fresh>>
        BY <1>2, <2>3 DEF Resolve
      <3>2. HostTypes'
        BY <2>1, <3>1 DEF DeviceInv, HostTypes
      <3>3. ~raced' => Right(device, host, wish)
        BY <2>1, <2>3 DEF DeviceInv, Right
      <3>4. QED
        BY <1>1, <2>1, <2>2, <3>1, <3>2, <3>3 DEF DeviceInv, InWindow
    <2>4. CASE ~(wish.name = "" \/ (device # Default /\ ~stale /\ generation = resolved))
      <3> DEFINE f == IF device.kind = "sink" THEN FindSink(wish.name) ELSE Default
      <3>1. /\ stale' = FALSE
            /\ fresh' = [generation |-> generation, wish |-> wish, found |-> f]
            /\ tx' \in {"query", "requery", "found"}
            /\ tx' = "found" => device.kind = "sink" /\ wish.name \in sinks
        BY <1>2, <2>4 DEF Resolve
      <3>2. IsDevice(f) /\ (tx' = "found" => Right(f, host, wish))
        BY <3>1 DEF FindSink, PipeWireSink, Default, IsDevice, Right, Serves
      <3> HIDE DEF f
      <3>3. /\ fresh' = [found |-> fresh'.found, generation |-> fresh'.generation,
                         wish |-> fresh'.wish]
            /\ fresh'.found = f /\ fresh'.generation = generation /\ fresh'.wish = wish
        BY <3>1
      <3>4. /\ generation \in Nat /\ generation <= generation /\ stale' \in BOOLEAN
            /\ IsDevice(fresh'.found)
        <4>1. generation \in Nat /\ generation <= generation
          BY DEF DeviceInv, HostTypes
        <4>2. stale' \in BOOLEAN
          BY <3>1
        <4>3. QED
          BY <3>2, <3>3, <4>1, <4>2
      <3>5. HostTypes'
        BY <2>1, <3>3, <3>4 DEF DeviceInv, HostTypes
      <3>6. QED
        BY <1>1, <2>1, <2>2, <3>1, <3>2, <3>3, <3>5 DEF DeviceInv, InWindow
    <2>5. QED
      BY <2>3, <2>4
  <1>3. CASE Query
    <2> DEFINE u == fresh.wish
               api == IF u.api # "" THEN u.api ELSE device.entry.api
               found == Either(PickByName(AllDevices, u.name, api),
                               IF tx = "query" THEN FindSink(u.name) ELSE Default)
    <2>1. /\ UNCHANGED <<os, host, engine, generation, gui, wish, device, resolved>>
          /\ lock = "free" /\ tx \in {"query", "requery"}
      BY <1>3 DEF Query
    <2>2. raced' \in BOOLEAN /\ (~raced' => fresh.wish = wish /\ gui = NoSave)
      <3>1. raced' = (raced /\ ~(gui = NoSave /\ fresh.wish = wish))
        BY <1>3 DEF Query
      <3>2. ~raced => fresh.wish = wish /\ gui = NoSave
        BY <2>1 DEF DeviceInv, InWindow
      <3>3. QED
        BY <3>1, <3>2 DEF DeviceInv, HostTypes
    <2>3. gui = NoSave => gui.busy # "set"
      BY NoSaveIsIdle
    <2>4. AllDevices = host
      BY <2>1 DEF AllDevices, GateInv, DeviceInv, HostTypes
    <2>5. IsDevice(found) /\ (found = Default \/ Right(found, host, u))
      <3>1. AllDevices \in {host, <<>>} /\ (u.api # "" => api = u.api) /\ HostTypes
        BY <2>4 DEF DeviceInv
      <3>2. found \in {Either(PickByName(AllDevices, u.name, api), FindSink(u.name)),
                       Either(PickByName(AllDevices, u.name, api), Default)}
        OBVIOUS
      <3> HIDE DEF u, api, found
      <3>3. QED
        BY <3>1, <3>2, LookUp
    <2> HIDE DEF found
    <2>6. \/ /\ tx' = "keyed" /\ stale' = TRUE /\ fresh' = NoFind
             /\ AllDevices = <<>> /\ device # Default
          \/ tx' = "idle" /\ stale' = TRUE /\ fresh' = NoFind
          \/ /\ tx' = "found" /\ stale' = stale /\ found # Default
             /\ fresh' = [fresh EXCEPT !.found = found, !.generation = generation]
      BY <1>3 DEF Query, found
    <2>7. /\ NoFind = [found |-> NoFind.found, generation |-> NoFind.generation,
                       wish |-> NoFind.wish]
          /\ IsDevice(NoFind.found) /\ NoFind.generation = 0
      BY DEF NoFind, IsDevice, Default
    <2>8. CASE tx' = "keyed" /\ stale' = TRUE /\ fresh' = NoFind
               /\ AllDevices = <<>> /\ device # Default
      <3>1. HostTypes'
        BY <2>1, <2>2, <2>7, <2>8 DEF DeviceInv, HostTypes
      <3>2. Right(device, host, wish)
        BY <2>4, <2>8, NoDevices DEF Right, Serves, DeviceInv, HostTypes, IsDevice
      <3>3. QED
        BY <1>1, <2>1, <2>2, <2>3, <2>8, <3>1, <3>2 DEF DeviceInv, InWindow
    <2>9. CASE tx' = "idle" /\ stale' = TRUE /\ fresh' = NoFind
      <3>1. HostTypes'
        BY <2>1, <2>2, <2>7, <2>9 DEF DeviceInv, HostTypes
      <3>2. QED
        BY <1>1, <2>1, <2>2, <2>3, <2>9, <3>1 DEF DeviceInv, InWindow
    <2>10. CASE /\ tx' = "found" /\ stale' = stale /\ found # Default
                /\ fresh' = [fresh EXCEPT !.found = found, !.generation = generation]
      <3>1. /\ fresh' = [found |-> fresh'.found, generation |-> fresh'.generation,
                         wish |-> fresh'.wish]
            /\ fresh'.found = found /\ fresh'.generation = generation
            /\ fresh'.wish = fresh.wish
        BY <2>10 DEF DeviceInv, HostTypes
      <3>2. HostTypes'
        BY <2>1, <2>2, <2>5, <2>10, <3>1 DEF DeviceInv, HostTypes
      <3>3. ~raced' => Right(found, host, wish)
        BY <2>2, <2>5, <2>10
      <3>4. QED
        BY <1>1, <2>1, <2>2, <2>3, <2>10, <3>1, <3>2, <3>3 DEF DeviceInv, InWindow
    <2>11. QED
      BY <2>6, <2>8, <2>9, <2>10
  <1>4. CASE Resolved
    <2>1. /\ UNCHANGED <<os, host, engine, generation, gui, wish, stale, raced>>
          /\ tx = "found" /\ tx' = "keyed" /\ device' = fresh.found
          /\ resolved' = fresh.generation /\ fresh' = NoFind
      BY <1>4 DEF Resolved
    <2>2. /\ NoFind = [found |-> NoFind.found, generation |-> NoFind.generation,
                       wish |-> NoFind.wish]
          /\ IsDevice(NoFind.found) /\ NoFind.generation = 0
      BY DEF NoFind, IsDevice, Default
    <2>3. HostTypes'
      BY <2>1, <2>2 DEF DeviceInv, HostTypes
    <2>4. ~raced => Right(device', host, wish) /\ gui = NoSave
      BY <2>1 DEF DeviceInv, InWindow
    <2>5. gui = NoSave => gui.busy # "set"
      BY NoSaveIsIdle
    <2>6. QED
      BY <1>1, <2>1, <2>3, <2>4, <2>5 DEF DeviceInv, InWindow
  <1>5. QED
    BY <1>2, <1>3, <1>4

\* The transmission takes the device over and leaves the host alone.
LEMMA DevicePlay ==
  ASSUME DeviceInv, OutNext, ~HostSteps
  PROVE  DeviceInv'
  <1> USE DEF deviceVars, streamVars
  <1>1. UNCHANGED deviceVars
    BY DEF OutNext, PlayStep, Transmit, Play, Enter, Snapshot, OpenStream, Publish, Route,
        PollEnded, PollStopped, PollStalled, PollUnhealthy, PollDeliver, Drain, Clear, Exit,
        CloseStream, Leave, Callback, Finished, Freeze, OtherPlays, StopCall, StopLock,
        StopAbort
  <1>2. HostTypes'
    BY <1>1 DEF DeviceInv, HostTypes
  <1>3. CASE Play
    BY <1>1, <1>2, <1>3 DEF Play, DeviceInv, InWindow
  <1>4. CASE Transmit \/ Leave
    BY <1>1, <1>2, <1>4 DEF Transmit, Leave, DeviceInv, InWindow
  <1>5. CASE Enter \/ Snapshot \/ OpenStream
    BY <1>1, <1>2, <1>5 DEF Enter, Snapshot, OpenStream, DeviceInv, InWindow
  <1>6. CASE /\ target' = target
             /\ tx' = tx \/ {tx, tx'} \subseteq (Counted \ {"snapshot", "open"})
    BY <1>1, <1>2, <1>6 DEF DeviceInv, InWindow
  <1>7. CASE \/ Publish \/ Route \/ PollEnded \/ PollStopped \/ PollStalled
             \/ PollUnhealthy \/ PollDeliver \/ Drain \/ Clear \/ Exit \/ CloseStream
    BY <1>6, <1>7 DEF Publish, Route, PollEnded, PollStopped, PollStalled,
        PollUnhealthy, PollDeliver, Drain, Clear, Exit, CloseStream
  <1>8. CASE Callback \/ Finished \/ Freeze \/ OtherPlays
    BY <1>6, <1>8 DEF Callback, Finished, Freeze, OtherPlays
  <1>9. ASSUME NEW s \in StopThreads, StopCall(s) \/ StopLock(s) \/ StopAbort(s)
        PROVE  DeviceInv'
    BY <1>6, <1>9 DEF StopCall, StopLock, StopAbort
  <1>10. QED
    BY <1>3, <1>4, <1>5, <1>7, <1>8, <1>9 DEF OutNext, PlayStep

LEMMA DeviceStep == ASSUME DeviceInv, GateInv, [OutNext]_outVars PROVE DeviceInv'
  <1>1. CASE UNCHANGED outVars
    BY <1>1 DEF DeviceInv, HostTypes, InWindow, outVars, hostVars, playVars, streamVars
  <1>2. CASE HostSteps
    BY <1>2, DeviceReset, DeviceSave, DeviceResolve DEF HostSteps, HostNext
  <1>3. QED
    BY <1>1, <1>2, DevicePlay

\* A stream that opens, opens on the device of the wish.
LEMMA OpensRight ==
  ASSUME DeviceInv, [OutNext]_outVars, Opens, ~raced
  PROVE  target.kind = "sink" \/ (OnWished /\ (wish.api # "" => OnItsApi))
  <1>1. OpenStream
    <2> USE DEF streamVars
    <2>1. stream = "none" /\ stream' = "running"
      BY DEF Opens
    <2>2. stream' # stream
      BY <2>1
    <2>3. ~UNCHANGED stream /\ ~UNCHANGED outVars /\ ~HostSteps
      BY <2>2 DEF outVars, playVars, HostSteps
    <2>4. ~(Transmit \/ Play \/ Enter \/ Snapshot \/ Publish \/ Route \/ PollEnded
            \/ PollDeliver \/ Drain \/ Clear \/ Leave \/ Freeze \/ OtherPlays)
      BY <2>2 DEF Transmit, Play, Enter, Snapshot, Publish, Route, PollEnded, PollDeliver,
                  Drain, Clear, Leave, Freeze, OtherPlays
    <2>5. ~(PollStopped \/ PollStalled \/ PollUnhealthy \/ Exit \/ CloseStream
            \/ Callback \/ Finished)
      BY <2>1 DEF PollStopped, PollStalled, PollUnhealthy, Exit, CloseStream, Callback,
                  Finished, Abort, Live
    <2>6. \A s \in StopThreads : ~(StopCall(s) \/ StopLock(s) \/ StopAbort(s))
      BY <2>1 DEF StopCall, StopLock, StopAbort, Abort, Live
    <2>7. QED
      BY <2>3, <2>4, <2>5, <2>6 DEF OutNext, PlayStep
  <1>2. tx = "open" /\ wish.name # ""
    BY <1>1 DEF OpenStream, Opens
  <1>3. Serves(target, host, wish.name, wish.api)
    BY <1>2 DEF DeviceInv, Right
  <1>4. target.kind = "portaudio" =>
           target.at \in DOMAIN host /\ to' = host[target.at]
    BY <1>1 DEF OpenStream, Opens
  <1>5. QED
    BY <1>3, <1>4 DEF Serves, OnWished, OnItsApi

\* The transmission's audio goes to the configured device, whatever is
\* plugged, reset and saved, unless a reset or a save meets a look-up that is
\* still being used, and nobody else's audio is moved
\* (_resolve_output_device, play_blocking).
THEOREM AudioOnItsDevice == OutSpec => EachOnItsDevice
  <1>1. OutInit /\ [][OutNext]_outVars => []GateInv
    BY GateInit, GateStep, PTL
  <1>2. OutInit /\ [][OutNext]_outVars => []DeviceInv
    BY <1>1, DeviceInit, DeviceStep, PTL
  <1>3. DeviceInv /\ [OutNext]_outVars =>
           [Opens /\ ~raced =>
              target.kind = "sink" \/ (OnWished /\ (wish.api # "" => OnItsApi))]_outVars
    BY OpensRight
  <1>4. OutSpec => RightDevice
    BY <1>2, <1>3, PTL DEF OutSpec, RightDevice
  <1>5. QED
    BY <1>4, OthersAreUntouched DEF EachOnItsDevice
=============================================================================
