-------------------------- MODULE RigSessionProofs --------------------------
(***************************************************************************)
(* The types of RigSession, the single poll slot, the silence of the poll  *)
(* thread during transmissions, and who answers for a rig, for any number  *)
(* of attempts and transmissions and any failure threshold above one.      *)
(***************************************************************************)
EXTENDS RigSession, FiniteSetTheorems, SequenceTheorems, TLAPS

\* The slot is claimed while a poll is queued or running, and by one only.
PollSlot == queued + (IF busy THEN 1 ELSE 0) <= (IF claimed THEN 1 ELSE 0)

\* The poll thread is suspended exactly while a transmission is in flight.
SuspendedInFlight == suspended <=> inFlight > 0

Counts == inFlight <= txs /\ txQueued <= txs

IInv == TypeOK /\ PollSlot /\ SuspendedInFlight /\ Counts

-----------------------------------------------------------------------------
LEMMA AttemptsAreRigs == Attempts \subseteq Rigs /\ 0 \in Rigs /\ 1 \in Attempts
  BY BoundsAssumption DEF Attempts, Rigs

\* A signal taken leaves a queue of signals, and is about a rig; about an
\* attempt, if it is a connect thread's.
LEMMA TakeType ==
  ASSUME gui \in Seq(Signals), NEW s, Take(s)
  PROVE  /\ gui' \in Seq(Signals)
         /\ Head(gui).of \in Rigs
         /\ s \in {"succeeded", "failed", "finished"} => Head(gui).of \in Attempts
  <1>1. Head(gui) \in Signals /\ Tail(gui) \in Seq(Signals)
    BY HeadTailProperties DEF Take
  <1>2. QED
    BY <1>1, AttemptsAreRigs DEF Take, Signals

LEMMA PostType ==
  ASSUME gui \in Seq(Signals), NEW s, NEW a, Post(s, a),
         \/ s \in {"succeeded", "failed", "finished"} /\ a \in Attempts
         \/ s \in {"polled", "pollError", "lost", "txFinished"} /\ a \in Rigs
  PROVE  gui' \in Seq(Signals)
  <1>1. [sig |-> s, of |-> a] \in Signals
    BY DEF Signals
  <1>2. QED
    BY <1>1, AppendProperties DEF Post

LEMMA PushType ==
  ASSUME frames \in Seq(Frames), NEW h \in {"adopt", "disconnect"}, NEW a \in Rigs
  PROVE  Append(frames, [handler |-> h, of |-> a]) \in Seq(Frames)
  <1>1. [handler |-> h, of |-> a] \in Frames
    BY DEF Frames
  <1>2. QED
    BY <1>1, AppendProperties

LEMMA InitIInv == Init => IInv
  <1> SUFFICES ASSUME Init PROVE IInv
    OBVIOUS
  <1>1. gui \in Seq(Signals) /\ frames \in Seq(Frames)
    BY EmptySeq DEF Init
  <1>2. RigTypes
    BY AttemptsAreRigs DEF Init, RigTypes, Manual, None
  <1>3. FlagTypes
    BY DEF Init, FlagTypes
  <1>4. ThreadTypes
    BY DEF Init, ThreadTypes
  <1>5. CountTypes
    BY BoundsAssumption DEF Init, CountTypes
  <1>6. TypeOK
    BY <1>1, <1>2, <1>3, <1>4, <1>5 DEF Init, TypeOK, Phases
  <1>7. QED
    BY <1>6 DEF Init, IInv, PollSlot, SuspendedInFlight, Counts

\* Steps that leave the poll slot, the suspension and the counts alone.
LEMMA Elsewhere ==
  ASSUME IInv, UNCHANGED <<queued, busy, claimed, suspended, inFlight, txs, txQueued>>,
         TypeOK'
  PROVE  IInv'
  BY DEF IInv, PollSlot, SuspendedInFlight, Counts

LEMMA StartTypes ==
  ASSUME TypeOK, NEW isTci \in BOOLEAN, StartAttempt(isTci)
  PROVE  /\ started' \in 0 .. MaxAttempts /\ attempt' \in Rigs
         /\ thread' \in [Attempts -> {"none", "opening", "opened", "ran", "exited"}]
         /\ tci' \in [Attempts -> BOOLEAN]
         /\ timer' = TRUE /\ connecting' = TRUE
  BY BoundsAssumption
  DEF StartAttempt, TypeOK, CountTypes, ThreadTypes, Attempts, Rigs

\* Clicks and timers of the connect attempts.
LEMMA ConnectSteps ==
  ASSUME IInv,
         \/ \E isTci \in BOOLEAN : ClickConnect(isTci)
         \/ ClickConnectRigctld \/ RigctldLaunched \/ ClickCancel \/ ConnectTimeout
  PROVE  IInv'
  <1>1. ASSUME NEW isTci \in BOOLEAN, ClickConnect(isTci) PROVE IInv'
    <2>0. /\ started' \in 0 .. MaxAttempts /\ attempt' \in Rigs
          /\ thread' \in [Attempts -> {"none", "opening", "opened", "ran", "exited"}]
          /\ tci' \in [Attempts -> BOOLEAN]
          /\ timer' = TRUE /\ connecting' = TRUE
      BY <1>1, StartTypes DEF ClickConnect, IInv
    <2>1. gui' \in Seq(Signals) /\ frames' \in Seq(Frames)
      BY <1>1, <2>0
      DEF ClickConnect, Reenter, ownerVars, timerVars, pollVars, workerVars,
          IInv, TypeOK
    <2>2. RigTypes'
      BY <1>1, <2>0
      DEF ClickConnect, Reenter, ownerVars, timerVars, pollVars, workerVars,
          IInv, TypeOK, RigTypes
    <2>3. FlagTypes'
      BY <1>1, <2>0
      DEF ClickConnect, Reenter, ownerVars, timerVars, pollVars, workerVars,
          IInv, TypeOK, FlagTypes
    <2>4. ThreadTypes'
      BY <1>1, <2>0
      DEF ClickConnect, Reenter, ownerVars, timerVars, pollVars, workerVars,
          IInv, TypeOK, ThreadTypes
    <2>5. CountTypes' /\ phase' \in Phases
      BY <1>1, <2>0
      DEF ClickConnect, Reenter, ownerVars, timerVars, pollVars, workerVars,
          IInv, TypeOK, CountTypes, Phases
    <2>6. TypeOK'
      BY <2>1, <2>2, <2>3, <2>4, <2>5 DEF TypeOK, Phases
    <2>7. QED
      BY <1>1, <2>6, Elsewhere DEF ClickConnect, Reenter, pollVars, workerVars
  <1>2. CASE ClickConnectRigctld
    <2>1. gui' \in Seq(Signals) /\ frames' \in Seq(Frames)
      BY <1>2
      DEF ClickConnectRigctld, Reenter, ownerVars, timerVars, threadVars,
          pollVars, workerVars, IInv, TypeOK
    <2>2. RigTypes'
      BY <1>2
      DEF ClickConnectRigctld, Reenter, ownerVars, timerVars, threadVars,
          pollVars, workerVars, IInv, TypeOK, RigTypes
    <2>3. FlagTypes'
      BY <1>2
      DEF ClickConnectRigctld, Reenter, ownerVars, timerVars, threadVars,
          pollVars, workerVars, IInv, TypeOK, FlagTypes
    <2>4. ThreadTypes'
      BY <1>2
      DEF ClickConnectRigctld, Reenter, ownerVars, timerVars, threadVars,
          pollVars, workerVars, IInv, TypeOK, ThreadTypes
    <2>5. CountTypes' /\ phase' \in Phases
      BY <1>2
      DEF ClickConnectRigctld, Reenter, ownerVars, timerVars, threadVars,
          pollVars, workerVars, IInv, TypeOK, CountTypes, Phases
    <2>6. TypeOK'
      BY <2>1, <2>2, <2>3, <2>4, <2>5 DEF TypeOK, Phases
    <2>7. QED
      BY <1>2, <2>6, Elsewhere
      DEF ClickConnectRigctld, Reenter, pollVars, workerVars
  <1>3. CASE RigctldLaunched
    <2>0. /\ started' \in 0 .. MaxAttempts /\ attempt' \in Rigs
          /\ thread' \in [Attempts -> {"none", "opening", "opened", "ran", "exited"}]
          /\ tci' \in [Attempts -> BOOLEAN]
          /\ timer' = TRUE /\ connecting' = TRUE
      BY <1>3, StartTypes DEF RigctldLaunched, IInv
    <2>1. gui' \in Seq(Signals) /\ frames' \in Seq(Frames)
      BY <1>3, <2>0
      DEF RigctldLaunched, ownerVars, timerVars, pollVars, workerVars, IInv,
          TypeOK
    <2>2. RigTypes'
      BY <1>3, <2>0
      DEF RigctldLaunched, ownerVars, timerVars, pollVars, workerVars, IInv,
          TypeOK, RigTypes
    <2>3. FlagTypes'
      BY <1>3, <2>0
      DEF RigctldLaunched, ownerVars, timerVars, pollVars, workerVars, IInv,
          TypeOK, FlagTypes
    <2>4. ThreadTypes'
      BY <1>3, <2>0
      DEF RigctldLaunched, ownerVars, timerVars, pollVars, workerVars, IInv,
          TypeOK, ThreadTypes
    <2>5. CountTypes' /\ phase' \in Phases
      BY <1>3, <2>0
      DEF RigctldLaunched, ownerVars, timerVars, pollVars, workerVars, IInv,
          TypeOK, CountTypes, Phases
    <2>6. TypeOK'
      BY <2>1, <2>2, <2>3, <2>4, <2>5 DEF TypeOK, Phases
    <2>7. QED
      BY <1>3, <2>6, Elsewhere DEF RigctldLaunched, pollVars, workerVars
  <1>4. CASE ClickCancel
    <2>1. gui' \in Seq(Signals) /\ frames' \in Seq(Frames)
      BY <1>4
      DEF ClickCancel, Reenter, None, timerVars, pollVars, workerVars, IInv,
          TypeOK
    <2>2. RigTypes'
      BY <1>4, AttemptsAreRigs
      DEF ClickCancel, Reenter, None, timerVars, pollVars, workerVars, IInv,
          TypeOK, RigTypes
    <2>3. FlagTypes'
      BY <1>4
      DEF ClickCancel, Reenter, None, timerVars, pollVars, workerVars, IInv,
          TypeOK, FlagTypes
    <2>4. ThreadTypes'
      BY <1>4
      DEF ClickCancel, Reenter, None, timerVars, pollVars, workerVars, IInv,
          TypeOK, ThreadTypes
    <2>5. CountTypes' /\ phase' \in Phases
      BY <1>4
      DEF ClickCancel, Reenter, None, timerVars, pollVars, workerVars, IInv,
          TypeOK, CountTypes, Phases
    <2>6. TypeOK'
      BY <2>1, <2>2, <2>3, <2>4, <2>5 DEF TypeOK, Phases
    <2>7. QED
      BY <1>4, <2>6, Elsewhere
      DEF ClickCancel, Reenter, None, pollVars, workerVars
  <1>5. CASE ConnectTimeout
    <2>1. gui' \in Seq(Signals) /\ frames' \in Seq(Frames)
      BY <1>5
      DEF ConnectTimeout, ownerVars, timerVars, pollVars, workerVars, IInv,
          TypeOK
    <2>2. RigTypes'
      BY <1>5
      DEF ConnectTimeout, ownerVars, timerVars, pollVars, workerVars, IInv,
          TypeOK, RigTypes
    <2>3. FlagTypes'
      BY <1>5
      DEF ConnectTimeout, ownerVars, timerVars, pollVars, workerVars, IInv,
          TypeOK, FlagTypes
    <2>4. ThreadTypes'
      BY <1>5
      DEF ConnectTimeout, ownerVars, timerVars, pollVars, workerVars, IInv,
          TypeOK, ThreadTypes
    <2>5. CountTypes' /\ phase' \in Phases
      BY <1>5
      DEF ConnectTimeout, ownerVars, timerVars, pollVars, workerVars, IInv,
          TypeOK, CountTypes, Phases
    <2>6. TypeOK'
      BY <2>1, <2>2, <2>3, <2>4, <2>5 DEF TypeOK, Phases
    <2>7. QED
      BY <1>5, <2>6, Elsewhere DEF ConnectTimeout, pollVars, workerVars
  <1>6. QED
    BY <1>1, <1>2, <1>3, <1>4, <1>5

LEMMA AdoptTypes ==
  ASSUME TypeOK, NEW a \in Rigs, NEW polled \in BOOLEAN, Adopt(a, polled)
  PROVE  /\ rig' \in Rigs /\ errors' \in 0 .. FailThreshold + 1
         /\ frames' \in Seq(Frames)
         /\ connected' \in BOOLEAN /\ connecting' \in BOOLEAN
         /\ pollTimer' \in BOOLEAN
  <1>1. frames' \in Seq(Frames)
    BY PushType DEF Adopt, TypeOK
  <1>2. connected' \in BOOLEAN /\ connecting' \in BOOLEAN /\ pollTimer' \in BOOLEAN
    BY DEF Adopt, TypeOK, FlagTypes, panelVars
  <1>3. rig' \in Rigs /\ errors' \in 0 .. FailThreshold + 1
    BY BoundsAssumption DEF Adopt, SetRig
  <1>4. QED
    BY <1>1, <1>2, <1>3

LEMMA ReleaseTypes ==
  ASSUME TypeOK, NEW a \in Rigs, Release(a)
  PROVE  open' \in [Attempts -> BOOLEAN] /\ teardown' \in Rigs
  BY DEF Release, TypeOK, ThreadTypes, RigTypes

LEMMA DisconnectStep ==
  ASSUME IInv, Disconnect, gui' \in Seq(Signals)
  PROVE  IInv'
  <1>1. frames' \in Seq(Frames)
    BY PushType DEF Disconnect, IInv, TypeOK, RigTypes
  <1>2. open' \in [Attempts -> BOOLEAN] /\ teardown' \in Rigs
    BY ReleaseTypes DEF Disconnect, IInv, TypeOK, RigTypes, ThreadTypes
  <1>3. RigTypes'
    BY <1>2, AttemptsAreRigs
    DEF Disconnect, SetRig, Manual, None, IInv, TypeOK, RigTypes, attemptVars,
        pollVars, workerVars
  <1>4. FlagTypes'
    BY DEF Disconnect, Reenter, IInv, TypeOK, FlagTypes, attemptVars, pollVars
  <1>5. ThreadTypes'
    BY <1>2 DEF Disconnect, IInv, TypeOK, ThreadTypes, threadVars
  <1>6. CountTypes' /\ phase' \in Phases
    BY BoundsAssumption
    DEF Disconnect, SetRig, IInv, TypeOK, CountTypes, threadVars, pollVars, workerVars
  <1>7. TypeOK'
    BY <1>1, <1>3, <1>4, <1>5, <1>6 DEF TypeOK
  <1>8. QED
    BY <1>7, Elsewhere DEF Disconnect, pollVars, workerVars

\* Disconnects, and the ends of nested waits.
LEMMA DisconnectSteps ==
  ASSUME IInv, ClickDisconnect \/ OnLost \/ FrameEnds
  PROVE  IInv'
  <1>1. CASE ClickDisconnect
    BY <1>1, DisconnectStep DEF ClickDisconnect, IInv, TypeOK
  <1>2. CASE OnLost
    <2>1. gui' \in Seq(Signals)
      BY <1>2, TakeType DEF OnLost, IInv, TypeOK
    <2>2. CASE rig # Manual
      BY <1>2, <2>1, <2>2, DisconnectStep DEF OnLost
    <2>3. CASE rig = Manual
      <3>1. gui' \in Seq(Signals) /\ frames' \in Seq(Frames)
        BY <1>2, <2>3, <2>1
        DEF OnLost, panelVars, attemptVars, ownerVars, timerVars, threadVars,
            pollVars, workerVars, IInv, TypeOK
      <3>2. RigTypes'
        BY <1>2, <2>3
        DEF OnLost, panelVars, attemptVars, ownerVars, timerVars, threadVars,
            pollVars, workerVars, IInv, TypeOK, RigTypes
      <3>3. FlagTypes'
        BY <1>2, <2>3
        DEF OnLost, panelVars, attemptVars, ownerVars, timerVars, threadVars,
            pollVars, workerVars, IInv, TypeOK, FlagTypes
      <3>4. ThreadTypes'
        BY <1>2, <2>3
        DEF OnLost, panelVars, attemptVars, ownerVars, timerVars, threadVars,
            pollVars, workerVars, IInv, TypeOK, ThreadTypes
      <3>5. CountTypes' /\ phase' \in Phases
        BY <1>2, <2>3
        DEF OnLost, panelVars, attemptVars, ownerVars, timerVars, threadVars,
            pollVars, workerVars, IInv, TypeOK, CountTypes, Phases
      <3>6. TypeOK'
        BY <3>1, <3>2, <3>3, <3>4, <3>5 DEF TypeOK, Phases
      <3>7. QED
        BY <1>2, <2>3, <3>6, Elsewhere DEF OnLost, pollVars, workerVars
    <2>4. QED
      BY <2>2, <2>3
  <1>3. CASE FrameEnds
    <2> DEFINE f == frames[Len(frames)]
    <2>1. frames \in Seq(Frames) /\ frames # <<>>
      BY <1>3 DEF FrameEnds, IInv, TypeOK
    <2>2. /\ Len(frames) \in Nat \ {0}
          /\ \A i \in 1 .. Len(frames) : frames[i] \in Frames
      BY <2>1, ElementOfSeq, EmptySeq
    <2>3. f \in Frames /\ f.of \in Rigs
      BY <2>2 DEF Frames
    <2>4. frames' \in Seq(Frames)
      BY <1>3, <2>1, <2>2, SubSeqProperties DEF FrameEnds
    <2>5. open' \in [Attempts -> BOOLEAN] /\ teardown' \in Rigs /\ audio' \in Rigs
      <3>1. CASE Release(f.of)
        BY <1>3, <2>3, <3>1, ReleaseTypes, AttemptsAreRigs DEF FrameEnds, IInv, None
      <3>2. CASE ~Release(f.of)
        BY <1>3, <2>3, <3>2 DEF FrameEnds, IInv, TypeOK, ThreadTypes, RigTypes
      <3>3. QED
        BY <3>1, <3>2
    <2>6. gui' \in Seq(Signals) /\ frames' \in Seq(Frames)
      BY <1>3, <2>4
      DEF FrameEnds, panelVars, attemptVars, threadVars, pollVars, workerVars,
          IInv, TypeOK
    <2>7. RigTypes'
      BY <1>3, <2>5
      DEF FrameEnds, panelVars, attemptVars, threadVars, pollVars, workerVars,
          IInv, TypeOK, RigTypes
    <2>8. FlagTypes'
      BY <1>3
      DEF FrameEnds, panelVars, attemptVars, threadVars, pollVars, workerVars,
          IInv, TypeOK, FlagTypes
    <2>9. ThreadTypes'
      BY <1>3, <2>5
      DEF FrameEnds, panelVars, attemptVars, threadVars, pollVars, workerVars,
          IInv, TypeOK, ThreadTypes
    <2>10. CountTypes' /\ phase' \in Phases
      BY <1>3
      DEF FrameEnds, panelVars, attemptVars, threadVars, pollVars, workerVars,
          IInv, TypeOK, CountTypes, Phases
    <2>11. TypeOK'
      BY <2>6, <2>7, <2>8, <2>9, <2>10 DEF TypeOK, Phases
    <2>12. QED
      BY <1>3, <2>11, Elsewhere DEF FrameEnds, pollVars, workerVars
  <1>4. QED
    BY <1>1, <1>2, <1>3

\* What the connect and the poll threads report.
LEMMA ReportSteps ==
  ASSUME IInv, OnSucceeded \/ OnFailed \/ OnThreadFinished \/ OnPolled \/ OnPollError
  PROVE  IInv'
  <1>1. CASE OnSucceeded
    <2> DEFINE a == Head(gui).of
    <2>1. gui' \in Seq(Signals) /\ a \in Attempts /\ a \in Rigs
      BY <1>1, TakeType DEF OnSucceeded, IInv, TypeOK
    <2>2. CASE Adopt(a, pollTimer)
      <3> HIDE DEF a
      <3>1. pollTimer \in BOOLEAN
        BY DEF IInv, TypeOK, FlagTypes
      <3>2. /\ rig' \in Rigs /\ errors' \in 0 .. FailThreshold + 1
            /\ frames' \in Seq(Frames)
            /\ connected' \in BOOLEAN /\ connecting' \in BOOLEAN
            /\ pollTimer' \in BOOLEAN
        BY <2>1, <2>2, <3>1, AdoptTypes DEF IInv
      <3> USE DEF a
      <3>3. gui' \in Seq(Signals) /\ frames' \in Seq(Frames)
        BY <1>1, <2>1, <3>2
        DEF OnSucceeded, panelVars, pollVars, workerVars, IInv, TypeOK
      <3>4. RigTypes'
        BY <1>1, <2>1, <3>2
        DEF OnSucceeded, panelVars, pollVars, workerVars, IInv, TypeOK, RigTypes
      <3>5. FlagTypes'
        BY <1>1, <3>2
        DEF OnSucceeded, panelVars, pollVars, workerVars, IInv, TypeOK,
            FlagTypes
      <3>6. ThreadTypes'
        BY <1>1, <2>1
        DEF OnSucceeded, panelVars, pollVars, workerVars, IInv, TypeOK,
            ThreadTypes
      <3>7. CountTypes' /\ phase' \in Phases
        BY <1>1, <3>2
        DEF OnSucceeded, panelVars, pollVars, workerVars, IInv, TypeOK,
            CountTypes, Phases
      <3>8. TypeOK'
        BY <3>3, <3>4, <3>5, <3>6, <3>7 DEF TypeOK, Phases
      <3>9. QED
        BY <1>1, <3>8, Elsewhere DEF OnSucceeded, pollVars, workerVars
    <2>3. CASE ~Adopt(a, pollTimer)
      <3>1. gui' \in Seq(Signals) /\ frames' \in Seq(Frames)
        BY <1>1, <2>3, <2>1
        DEF OnSucceeded, panelVars, pollVars, workerVars, IInv,
            TypeOK
      <3>2. RigTypes'
        BY <1>1, <2>3, <2>1
        DEF OnSucceeded, panelVars, pollVars, workerVars, IInv,
            TypeOK, RigTypes
      <3>3. FlagTypes'
        BY <1>1, <2>3
        DEF OnSucceeded, panelVars, pollVars, workerVars, IInv,
            TypeOK, FlagTypes
      <3>4. ThreadTypes'
        BY <1>1, <2>3, <2>1
        DEF OnSucceeded, panelVars, pollVars, workerVars, IInv,
            TypeOK, ThreadTypes
      <3>5. CountTypes' /\ phase' \in Phases
        BY <1>1, <2>3
        DEF OnSucceeded, panelVars, pollVars, workerVars, IInv,
            TypeOK, CountTypes, Phases
      <3>6. TypeOK'
        BY <3>1, <3>2, <3>3, <3>4, <3>5 DEF TypeOK, Phases
      <3>7. QED
        BY <1>1, <3>6, Elsewhere
        DEF OnSucceeded, panelVars, pollVars, workerVars
    <2>4. QED
      BY <2>2, <2>3
  <1>2. CASE OnFailed
    <2>1. gui' \in Seq(Signals) /\ frames' \in Seq(Frames)
      BY <1>2, TakeType
      DEF OnFailed, ownerVars, timerVars, pollVars, workerVars, IInv, TypeOK
    <2>2. RigTypes'
      BY <1>2
      DEF OnFailed, ownerVars, timerVars, pollVars, workerVars, IInv, TypeOK,
          RigTypes
    <2>3. FlagTypes'
      BY <1>2
      DEF OnFailed, ownerVars, timerVars, pollVars, workerVars, IInv, TypeOK,
          FlagTypes
    <2>4. ThreadTypes'
      BY <1>2
      DEF OnFailed, ownerVars, timerVars, pollVars, workerVars, IInv, TypeOK,
          ThreadTypes
    <2>5. CountTypes' /\ phase' \in Phases
      BY <1>2
      DEF OnFailed, ownerVars, timerVars, pollVars, workerVars, IInv, TypeOK,
          CountTypes, Phases
    <2>6. TypeOK'
      BY <2>1, <2>2, <2>3, <2>4, <2>5 DEF TypeOK, Phases
    <2>7. QED
      BY <1>2, <2>6, Elsewhere DEF OnFailed, pollVars, workerVars
  <1>3. CASE OnThreadFinished
    <2>1. gui' \in Seq(Signals) /\ frames' \in Seq(Frames)
      BY <1>3, TakeType
      DEF OnThreadFinished, None, panelVars, ownerVars, timerVars, threadVars,
          pollVars, workerVars, IInv, TypeOK
    <2>2. RigTypes'
      BY <1>3, AttemptsAreRigs
      DEF OnThreadFinished, None, panelVars, ownerVars, timerVars, threadVars,
          pollVars, workerVars, IInv, TypeOK, RigTypes
    <2>3. FlagTypes'
      BY <1>3
      DEF OnThreadFinished, None, panelVars, ownerVars, timerVars, threadVars,
          pollVars, workerVars, IInv, TypeOK, FlagTypes
    <2>4. ThreadTypes'
      BY <1>3
      DEF OnThreadFinished, None, panelVars, ownerVars, timerVars, threadVars,
          pollVars, workerVars, IInv, TypeOK, ThreadTypes
    <2>5. CountTypes' /\ phase' \in Phases
      BY <1>3
      DEF OnThreadFinished, None, panelVars, ownerVars, timerVars, threadVars,
          pollVars, workerVars, IInv, TypeOK, CountTypes, Phases
    <2>6. TypeOK'
      BY <2>1, <2>2, <2>3, <2>4, <2>5 DEF TypeOK, Phases
    <2>7. QED
      BY <1>3, <2>6, Elsewhere DEF OnThreadFinished, None, pollVars, workerVars
  <1>4. CASE OnPolled
    <2>1. gui' \in Seq(Signals) /\ frames' \in Seq(Frames)
      BY <1>4, TakeType
      DEF OnPolled, panelVars, attemptVars, ownerVars, timerVars, threadVars,
          pollVars, workerVars, IInv, TypeOK
    <2>2. RigTypes'
      BY <1>4, TakeType
      DEF OnPolled, panelVars, attemptVars, ownerVars, timerVars, threadVars,
          pollVars, workerVars, IInv, TypeOK, RigTypes
    <2>3. FlagTypes'
      BY <1>4
      DEF OnPolled, panelVars, attemptVars, ownerVars, timerVars, threadVars,
          pollVars, workerVars, IInv, TypeOK, FlagTypes
    <2>4. ThreadTypes'
      BY <1>4
      DEF OnPolled, panelVars, attemptVars, ownerVars, timerVars, threadVars,
          pollVars, workerVars, IInv, TypeOK, ThreadTypes
    <2>5. CountTypes' /\ phase' \in Phases
      BY <1>4
      DEF OnPolled, panelVars, attemptVars, ownerVars, timerVars, threadVars,
          pollVars, workerVars, IInv, TypeOK, CountTypes, Phases
    <2>6. TypeOK'
      BY <2>1, <2>2, <2>3, <2>4, <2>5 DEF TypeOK, Phases
    <2>7. QED
      BY <1>4, <2>6, Elsewhere DEF OnPolled, pollVars, workerVars
  <1>5. CASE OnPollError
    <2>1. gui' \in Seq(Signals) /\ frames' \in Seq(Frames)
      BY <1>5, TakeType
      DEF OnPollError, attemptVars, ownerVars, timerVars, threadVars, pollVars,
          workerVars, IInv, TypeOK
    <2>2. RigTypes'
      BY <1>5
      DEF OnPollError, attemptVars, ownerVars, timerVars, threadVars, pollVars,
          workerVars, IInv, TypeOK, RigTypes
    <2>3. FlagTypes'
      BY <1>5
      DEF OnPollError, attemptVars, ownerVars, timerVars, threadVars, pollVars,
          workerVars, IInv, TypeOK, FlagTypes
    <2>4. ThreadTypes'
      BY <1>5
      DEF OnPollError, attemptVars, ownerVars, timerVars, threadVars, pollVars,
          workerVars, IInv, TypeOK, ThreadTypes
    <2>5. CountTypes' /\ phase' \in Phases
      BY <1>5
      DEF OnPollError, attemptVars, ownerVars, timerVars, threadVars, pollVars,
          workerVars, IInv, TypeOK, CountTypes, Phases
    <2>6. TypeOK'
      BY <2>1, <2>2, <2>3, <2>4, <2>5 DEF TypeOK, Phases
    <2>7. QED
      BY <1>5, <2>6, Elsewhere DEF OnPollError, pollVars, workerVars
  <1>6. QED
    BY <1>1, <1>2, <1>3, <1>4, <1>5

\* A transmission is asked for: the poll thread is suspended in the same step.
LEMMA RequestStep == ASSUME IInv, RequestTx PROVE IInv'
  <1>0. /\ inFlight' \in 0 .. MaxTx /\ txs' \in 0 .. MaxTx
        /\ txQueued' \in 0 .. MaxTx
        /\ inFlight' = inFlight + 1 /\ inFlight' <= txs' /\ txQueued' <= txs'
    BY BoundsAssumption DEF RequestTx, IInv, TypeOK, CountTypes, Counts
  <1>a. inFlight' > 0 /\ suspended'
    BY <1>0 DEF RequestTx, Lock, IInv, TypeOK, CountTypes
  <1>1. gui' \in Seq(Signals) /\ frames' \in Seq(Frames)
    BY DEF RequestTx, Lock, panelVars, attemptVars, ownerVars, threadVars,
        pollVars, IInv, TypeOK
  <1>2. RigTypes'
    BY DEF RequestTx, Lock, panelVars, attemptVars, ownerVars, threadVars,
        pollVars, IInv, TypeOK, RigTypes
  <1>3. FlagTypes'
    BY DEF RequestTx, Lock, panelVars, attemptVars, ownerVars, threadVars,
        pollVars, IInv, TypeOK, FlagTypes
  <1>4. ThreadTypes'
    BY DEF RequestTx, Lock, panelVars, attemptVars, ownerVars, threadVars,
        pollVars, IInv, TypeOK, ThreadTypes
  <1>5. CountTypes' /\ phase' \in Phases
    BY <1>0
    DEF RequestTx, Lock, panelVars, attemptVars, ownerVars, threadVars,
        pollVars, IInv, TypeOK, CountTypes, Phases
  <1>6. TypeOK'
    BY <1>1, <1>2, <1>3, <1>4, <1>5 DEF TypeOK, Phases
  <1>7. QED
    BY <1>0, <1>a, <1>6
    DEF RequestTx, IInv, PollSlot, SuspendedInFlight, Counts, pollVars

\* The start of the transmission suspends it once more.
LEMMA StartedStep == ASSUME IInv, OnTxStarted PROVE IInv'
  <1>0. inFlight > 0 /\ suspended'
    BY DEF OnTxStarted, Lock, IInv, TypeOK, CountTypes
  <1>1. gui' \in Seq(Signals) /\ frames' \in Seq(Frames)
    BY DEF OnTxStarted, Lock, panelVars, attemptVars, ownerVars, threadVars,
        pollVars, workerVars, IInv, TypeOK
  <1>2. RigTypes'
    BY DEF OnTxStarted, Lock, panelVars, attemptVars, ownerVars, threadVars,
        pollVars, workerVars, IInv, TypeOK, RigTypes
  <1>3. FlagTypes'
    BY DEF OnTxStarted, Lock, panelVars, attemptVars, ownerVars, threadVars,
        pollVars, workerVars, IInv, TypeOK, FlagTypes
  <1>4. ThreadTypes'
    BY DEF OnTxStarted, Lock, panelVars, attemptVars, ownerVars, threadVars,
        pollVars, workerVars, IInv, TypeOK, ThreadTypes
  <1>5. CountTypes' /\ phase' \in Phases
    BY DEF OnTxStarted, Lock, panelVars, attemptVars, ownerVars, threadVars,
        pollVars, workerVars, IInv, TypeOK, CountTypes, Phases
  <1>6. TypeOK'
    BY <1>1, <1>2, <1>3, <1>4, <1>5 DEF TypeOK, Phases
  <1>7. QED
    BY <1>0, <1>6
    DEF OnTxStarted, IInv, PollSlot, SuspendedInFlight, Counts, pollVars, workerVars

\* ... and set free only by the end of the last one in flight.
LEMMA FinishedStep == ASSUME IInv, OnTxFinished PROVE IInv'
  <1>1. gui' \in Seq(Signals)
    BY TakeType DEF OnTxFinished, IInv, TypeOK
  <1>2. /\ inFlight' = OneTxFewer /\ OneTxFewer \in 0 .. MaxTx
        /\ OneTxFewer <= inFlight
    BY BoundsAssumption DEF OnTxFinished, OneTxFewer, IInv, TypeOK, CountTypes
  <1>3. CASE OneTxFewer # 0
    <2>1. gui' \in Seq(Signals) /\ frames' \in Seq(Frames)
      BY <1>3, <1>2, <1>1
      DEF OnTxFinished, panelVars, attemptVars, timerVars,
          threadVars, pollVars, workerVars, IInv, TypeOK
    <2>2. RigTypes'
      BY <1>3, <1>2
      DEF OnTxFinished, panelVars, attemptVars, timerVars,
          threadVars, pollVars, workerVars, IInv, TypeOK, RigTypes
    <2>3. FlagTypes'
      BY <1>3, <1>2
      DEF OnTxFinished, panelVars, attemptVars, timerVars,
          threadVars, pollVars, workerVars, IInv, TypeOK, FlagTypes
    <2>4. ThreadTypes'
      BY <1>3, <1>2
      DEF OnTxFinished, panelVars, attemptVars, timerVars,
          threadVars, pollVars, workerVars, IInv, TypeOK, ThreadTypes
    <2>5. CountTypes' /\ phase' \in Phases
      BY <1>3, <1>2
      DEF OnTxFinished, panelVars, attemptVars, timerVars,
          threadVars, pollVars, workerVars, IInv, TypeOK, CountTypes, Phases
    <2>6. TypeOK'
      BY <2>1, <2>2, <2>3, <2>4, <2>5 DEF TypeOK, Phases
    <2>7. QED
      BY <1>2, <1>3, <2>6
      DEF OnTxFinished, OneTxFewer, IInv, TypeOK, CountTypes, PollSlot,
          SuspendedInFlight, Counts, pollVars, workerVars
  <1>4. CASE OneTxFewer = 0
    <2>1. Unlock
      BY <1>4 DEF OnTxFinished
    <2>2. /\ rig' \in Rigs /\ errors' \in 0 .. FailThreshold + 1
          /\ frames' \in Seq(Frames)
          /\ connected' \in BOOLEAN /\ connecting' \in BOOLEAN
          /\ pollTimer' \in BOOLEAN
      <3> DEFINE resumed == pollTimer \/ (wasActive /\ rig # Manual)
      <3>1. CASE adoptable = None
        <4>1. /\ UNCHANGED <<rig, errors, frames, panelVars>>
              /\ pollTimer' = resumed
          BY <2>1, <3>1 DEF Unlock
        <4>2. pollTimer' \in BOOLEAN
          BY <4>1
        <4>3. UNCHANGED <<rig, errors, frames, connected, connecting>>
          BY <4>1 DEF panelVars
        <4>4. connected' \in BOOLEAN /\ connecting' \in BOOLEAN
          BY <4>3 DEF IInv, TypeOK, FlagTypes
        <4>5. QED
          BY <4>2, <4>3, <4>4 DEF IInv, TypeOK, RigTypes, CountTypes
      <3>2. CASE adoptable # None
        <4>1. Adopt(adoptable, resumed)
          BY <2>1, <3>2 DEF Unlock
        <4>2. resumed \in BOOLEAN
          OBVIOUS
        <4>3. adoptable \in Rigs /\ TypeOK
          BY DEF IInv, TypeOK, RigTypes
        <4> HIDE DEF resumed
        <4>4. QED
          BY <4>1, <4>2, <4>3, AdoptTypes
      <3>3. QED
        BY <3>1, <3>2
    <2>3. /\ teardown' \in Rigs /\ adoptable' \in Rigs
          /\ open' \in [Attempts -> BOOLEAN] /\ suspended' = FALSE
          /\ wasActive' = FALSE
      BY <2>1, AttemptsAreRigs DEF Unlock, None
    <2>4. gui' \in Seq(Signals) /\ frames' \in Seq(Frames)
      BY <1>4, <1>2, <2>2, <2>3, <1>1
      DEF OnTxFinished, panelVars, attemptVars, timerVars, threadVars, pollVars,
          workerVars, IInv, TypeOK
    <2>5. RigTypes'
      BY <1>4, <1>2, <2>2, <2>3
      DEF OnTxFinished, panelVars, attemptVars, timerVars, threadVars, pollVars,
          workerVars, IInv, TypeOK, RigTypes
    <2>6. FlagTypes'
      BY <1>4, <1>2, <2>2, <2>3
      DEF OnTxFinished, panelVars, attemptVars, timerVars, threadVars, pollVars,
          workerVars, IInv, TypeOK, FlagTypes
    <2>7. ThreadTypes'
      BY <1>4, <1>2, <2>2, <2>3
      DEF OnTxFinished, panelVars, attemptVars, timerVars, threadVars, pollVars,
          workerVars, IInv, TypeOK, ThreadTypes
    <2>8. CountTypes' /\ phase' \in Phases
      BY <1>4, <1>2, <2>2, <2>3
      DEF OnTxFinished, panelVars, attemptVars, timerVars, threadVars, pollVars,
          workerVars, IInv, TypeOK, CountTypes, Phases
    <2>9. TypeOK'
      BY <2>4, <2>5, <2>6, <2>7, <2>8 DEF TypeOK, Phases
    <2>10. QED
      BY <1>2, <1>4, <2>3, <2>9
      DEF OnTxFinished, IInv, TypeOK, CountTypes, PollSlot, SuspendedInFlight, Counts,
          pollVars, workerVars
  <1>5. QED
    BY <1>3, <1>4

\* The connect threads' steps.
LEMMA ThreadSteps ==
  ASSUME IInv, NEW a \in Attempts,
         Opens(a) \/ Resolves(a) \/ ThreadExits(a) \/ LateClose(a)
  PROVE  IInv'
  <1>1. gui' \in Seq(Signals)
    BY PostType DEF Opens, Resolves, ThreadExits, LateClose, IInv, TypeOK
  <1>2. CASE Opens(a)
    <2>1. gui' \in Seq(Signals) /\ frames' \in Seq(Frames)
      BY <1>2, <1>1
      DEF Opens, panelVars, attemptVars, ownerVars, timerVars, pollVars,
          workerVars, IInv, TypeOK
    <2>2. RigTypes'
      BY <1>2
      DEF Opens, panelVars, attemptVars, ownerVars, timerVars, pollVars,
          workerVars, IInv, TypeOK, RigTypes
    <2>3. FlagTypes'
      BY <1>2
      DEF Opens, panelVars, attemptVars, ownerVars, timerVars, pollVars,
          workerVars, IInv, TypeOK, FlagTypes
    <2>4. ThreadTypes'
      BY <1>2
      DEF Opens, panelVars, attemptVars, ownerVars, timerVars, pollVars,
          workerVars, IInv, TypeOK, ThreadTypes
    <2>5. CountTypes' /\ phase' \in Phases
      BY <1>2
      DEF Opens, panelVars, attemptVars, ownerVars, timerVars, pollVars,
          workerVars, IInv, TypeOK, CountTypes, Phases
    <2>6. TypeOK'
      BY <2>1, <2>2, <2>3, <2>4, <2>5 DEF TypeOK, Phases
    <2>7. QED
      BY <1>2, <2>6, Elsewhere DEF Opens, pollVars, workerVars
  <1>3. CASE Resolves(a)
    <2>1. gui' \in Seq(Signals) /\ frames' \in Seq(Frames)
      BY <1>3, <1>1
      DEF Resolves, panelVars, attemptVars, ownerVars, timerVars, pollVars,
          workerVars, IInv, TypeOK
    <2>2. RigTypes'
      BY <1>3
      DEF Resolves, panelVars, attemptVars, ownerVars, timerVars, pollVars,
          workerVars, IInv, TypeOK, RigTypes
    <2>3. FlagTypes'
      BY <1>3
      DEF Resolves, panelVars, attemptVars, ownerVars, timerVars, pollVars,
          workerVars, IInv, TypeOK, FlagTypes
    <2>4. ThreadTypes'
      BY <1>3
      DEF Resolves, panelVars, attemptVars, ownerVars, timerVars, pollVars,
          workerVars, IInv, TypeOK, ThreadTypes
    <2>5. CountTypes' /\ phase' \in Phases
      BY <1>3
      DEF Resolves, panelVars, attemptVars, ownerVars, timerVars, pollVars,
          workerVars, IInv, TypeOK, CountTypes, Phases
    <2>6. TypeOK'
      BY <2>1, <2>2, <2>3, <2>4, <2>5 DEF TypeOK, Phases
    <2>7. QED
      BY <1>3, <2>6, Elsewhere DEF Resolves, pollVars, workerVars
  <1>4. CASE ThreadExits(a)
    <2>1. gui' \in Seq(Signals) /\ frames' \in Seq(Frames)
      BY <1>4, <1>1
      DEF ThreadExits, panelVars, attemptVars, ownerVars, timerVars, pollVars,
          workerVars, IInv, TypeOK
    <2>2. RigTypes'
      BY <1>4
      DEF ThreadExits, panelVars, attemptVars, ownerVars, timerVars, pollVars,
          workerVars, IInv, TypeOK, RigTypes
    <2>3. FlagTypes'
      BY <1>4
      DEF ThreadExits, panelVars, attemptVars, ownerVars, timerVars, pollVars,
          workerVars, IInv, TypeOK, FlagTypes
    <2>4. ThreadTypes'
      BY <1>4
      DEF ThreadExits, panelVars, attemptVars, ownerVars, timerVars, pollVars,
          workerVars, IInv, TypeOK, ThreadTypes
    <2>5. CountTypes' /\ phase' \in Phases
      BY <1>4
      DEF ThreadExits, panelVars, attemptVars, ownerVars, timerVars, pollVars,
          workerVars, IInv, TypeOK, CountTypes, Phases
    <2>6. TypeOK'
      BY <2>1, <2>2, <2>3, <2>4, <2>5 DEF TypeOK, Phases
    <2>7. QED
      BY <1>4, <2>6, Elsewhere DEF ThreadExits, pollVars, workerVars
  <1>5. CASE LateClose(a)
    <2>1. gui' \in Seq(Signals) /\ frames' \in Seq(Frames)
      BY <1>5, <1>1
      DEF LateClose, panelVars, attemptVars, ownerVars, timerVars, threadVars,
          pollVars, workerVars, IInv, TypeOK
    <2>2. RigTypes'
      BY <1>5
      DEF LateClose, panelVars, attemptVars, ownerVars, timerVars, threadVars,
          pollVars, workerVars, IInv, TypeOK, RigTypes
    <2>3. FlagTypes'
      BY <1>5
      DEF LateClose, panelVars, attemptVars, ownerVars, timerVars, threadVars,
          pollVars, workerVars, IInv, TypeOK, FlagTypes
    <2>4. ThreadTypes'
      BY <1>5
      DEF LateClose, panelVars, attemptVars, ownerVars, timerVars, threadVars,
          pollVars, workerVars, IInv, TypeOK, ThreadTypes
    <2>5. CountTypes' /\ phase' \in Phases
      BY <1>5
      DEF LateClose, panelVars, attemptVars, ownerVars, timerVars, threadVars,
          pollVars, workerVars, IInv, TypeOK, CountTypes, Phases
    <2>6. TypeOK'
      BY <2>1, <2>2, <2>3, <2>4, <2>5 DEF TypeOK, Phases
    <2>7. QED
      BY <1>5, <2>6, Elsewhere DEF LateClose, pollVars, workerVars
  <1>6. QED
    BY <1>2, <1>3, <1>4, <1>5

\* The slot goes from the timer to the queue, to the poll, and back.
LEMMA PollSteps == ASSUME IInv, PollTick \/ PollBegins \/ PollEnds PROVE IInv'
  <1>1. CASE PollTick
    <2>0. queued = 0 /\ ~busy /\ queued' = 1 /\ claimed' /\ ~busy'
      BY <1>1 DEF PollTick, IInv, TypeOK, CountTypes, PollSlot
    <2>1. gui' \in Seq(Signals) /\ frames' \in Seq(Frames)
      BY <1>1
      DEF PollTick, panelVars, attemptVars, ownerVars, timerVars, threadVars,
          workerVars, IInv, TypeOK
    <2>2. RigTypes'
      BY <1>1
      DEF PollTick, panelVars, attemptVars, ownerVars, timerVars, threadVars,
          workerVars, IInv, TypeOK, RigTypes
    <2>3. FlagTypes'
      BY <1>1
      DEF PollTick, panelVars, attemptVars, ownerVars, timerVars, threadVars,
          workerVars, IInv, TypeOK, FlagTypes
    <2>4. ThreadTypes'
      BY <1>1
      DEF PollTick, panelVars, attemptVars, ownerVars, timerVars, threadVars,
          workerVars, IInv, TypeOK, ThreadTypes
    <2>5. CountTypes' /\ phase' \in Phases
      BY <1>1, <2>0
      DEF PollTick, panelVars, attemptVars, ownerVars, timerVars, threadVars,
          workerVars, IInv, TypeOK, CountTypes, Phases
    <2>6. TypeOK'
      BY <2>1, <2>2, <2>3, <2>4, <2>5 DEF TypeOK, Phases
    <2>7. QED
      BY <2>0, <1>1, <2>6
      DEF PollTick, IInv, TypeOK, CountTypes, PollSlot, SuspendedInFlight, Counts,
          workerVars
  <1>2. CASE PollBegins
    <2>0. queued = 1 /\ ~busy /\ claimed /\ queued' = 0
      BY <1>2 DEF PollBegins, IInv, TypeOK, CountTypes, PollSlot
    <2>1. PollSlot'
      <3>1. CASE suspended
        <4>1. ~busy'
          BY <1>2, <2>0, <3>1 DEF PollBegins
        <4>2. QED
          BY <2>0, <4>1 DEF PollSlot
      <3>2. CASE ~suspended
        <4>1. claimed'
          BY <1>2, <2>0, <3>2 DEF PollBegins
        <4>2. QED
          BY <2>0, <4>1 DEF PollSlot
      <3>3. QED
        BY <3>1, <3>2
    <2>2. gui' \in Seq(Signals) /\ frames' \in Seq(Frames)
      BY <1>2
      DEF PollBegins, panelVars, attemptVars, ownerVars, timerVars, threadVars,
          workerVars, IInv, TypeOK
    <2>3. RigTypes'
      BY <1>2
      DEF PollBegins, panelVars, attemptVars, ownerVars, timerVars, threadVars,
          workerVars, IInv, TypeOK, RigTypes
    <2>4. FlagTypes'
      BY <1>2
      DEF PollBegins, panelVars, attemptVars, ownerVars, timerVars, threadVars,
          workerVars, IInv, TypeOK, FlagTypes
    <2>5. ThreadTypes'
      BY <1>2
      DEF PollBegins, panelVars, attemptVars, ownerVars, timerVars, threadVars,
          workerVars, IInv, TypeOK, ThreadTypes
    <2>6. CountTypes' /\ phase' \in Phases
      BY <1>2, <2>0
      DEF PollBegins, panelVars, attemptVars, ownerVars, timerVars, threadVars,
          workerVars, IInv, TypeOK, CountTypes, Phases
    <2>7. TypeOK'
      BY <2>2, <2>3, <2>4, <2>5, <2>6 DEF TypeOK, Phases
    <2>8. QED
      BY <1>2, <2>1, <2>7 DEF PollBegins, IInv, SuspendedInFlight, Counts, workerVars
  <1>3. CASE PollEnds
    <2>1. gui' \in Seq(Signals)
      <3>1. \A s \in {"polled", "pollError", "lost"} :
               <<[sig |-> s, of |-> polling]>> \in Seq(Signals)
        <4>1. ASSUME NEW s \in {"polled", "pollError", "lost"}
              PROVE  [sig |-> s, of |-> polling] \in Signals
          BY DEF Signals, IInv, TypeOK, RigTypes, RigTypes, RigTypes, RigTypes, RigTypes
        <4>2. QED
          BY <4>1
      <3>2. <<>> \in Seq(Signals)
        BY EmptySeq
      <3>3. CASE Post("polled", polling)
        BY <3>3, PostType DEF IInv, TypeOK, RigTypes, RigTypes, RigTypes, RigTypes, RigTypes
      <3>4. CASE ~Post("polled", polling)
        <4> DEFINE lost == IF errors + 1 = FailThreshold
                           THEN <<[sig |-> "lost", of |-> polling]>> ELSE <<>>
                   failed == <<[sig |-> "pollError", of |-> polling]>>
        <4>1. lost \in Seq(Signals) /\ failed \in Seq(Signals)
          BY <3>1, <3>2
        <4>2. gui' = gui \o failed \o lost
          BY <1>3, <3>4 DEF PollEnds
        <4> HIDE DEF lost, failed
        <4>3. gui \o failed \in Seq(Signals)
          BY <4>1, ConcatProperties DEF IInv, TypeOK
        <4>4. QED
          BY <4>1, <4>2, <4>3, ConcatProperties
      <3>5. QED
        BY <3>3, <3>4
    <2>2. errors' \in 0 .. FailThreshold + 1
      BY <1>3, BoundsAssumption DEF PollEnds, IInv, TypeOK, CountTypes
    <2>3. queued = 0 /\ queued' = 0 /\ ~busy' /\ ~claimed'
      BY <1>3 DEF PollEnds, IInv, TypeOK, CountTypes, PollSlot
    <2>4. gui' \in Seq(Signals) /\ frames' \in Seq(Frames)
      BY <1>3, <2>1
      DEF PollEnds, None, panelVars, attemptVars, ownerVars, timerVars,
          threadVars, workerVars, IInv, TypeOK
    <2>5. RigTypes'
      BY <1>3, AttemptsAreRigs
      DEF PollEnds, None, panelVars, attemptVars, ownerVars, timerVars,
          threadVars, workerVars, IInv, TypeOK, RigTypes
    <2>6. FlagTypes'
      BY <1>3
      DEF PollEnds, None, panelVars, attemptVars, ownerVars, timerVars,
          threadVars, workerVars, IInv, TypeOK, FlagTypes
    <2>7. ThreadTypes'
      BY <1>3
      DEF PollEnds, None, panelVars, attemptVars, ownerVars, timerVars,
          threadVars, workerVars, IInv, TypeOK, ThreadTypes
    <2>8. CountTypes' /\ phase' \in Phases
      BY <1>3, <2>2, <2>3
      DEF PollEnds, None, panelVars, attemptVars, ownerVars, timerVars,
          threadVars, workerVars, IInv, TypeOK, CountTypes, Phases
    <2>9. TypeOK'
      BY <2>4, <2>5, <2>6, <2>7, <2>8 DEF TypeOK, Phases
    <2>10. QED
      BY <2>3, <1>3, <2>9
      DEF PollEnds, IInv, TypeOK, CountTypes, PollSlot, SuspendedInFlight, Counts,
          workerVars
  <1>4. QED
    BY <1>1, <1>2, <1>3

\* The transmit worker's steps.
LEMMA WorkerSteps == ASSUME IInv, WorkerRuns PROVE IInv'
  <1>1. gui' \in Seq(Signals)
    BY PostType, AttemptsAreRigs
    DEF WorkerRuns, TxBegins, TxTakesRig, TxLosesRig, TxEnds, IInv, TypeOK,
        RigTypes, None
  <1>2. phase' \in Phases /\ txRig' \in Rigs
    BY AttemptsAreRigs
    DEF WorkerRuns, TxBegins, TxTakesRig, TxLosesRig, TxEnds, WorkerStep,
        IInv, TypeOK, RigTypes, None, Phases
  <1>3. txQueued' \in 0 .. MaxTx /\ txQueued' <= txQueued
    <2>1. txQueued \in 0 .. MaxTx /\ MaxTx \in Nat
      BY BoundsAssumption DEF IInv, TypeOK, CountTypes
    <2>2. txQueued' = txQueued \/ (txQueued > 0 /\ txQueued' = txQueued - 1)
      BY DEF WorkerRuns, TxBegins, TxTakesRig, TxLosesRig, TxEnds
    <2>3. QED
      BY <2>1, <2>2
  <1>4. UNCHANGED <<frames, rig, audio, freq, panelVars, attemptVars, ownerVars,
                    inFlight, timerVars, threadVars, open, closers, pollVars,
                    suspended, errors, txs, reentered>>
    BY DEF WorkerRuns, TxBegins, TxTakesRig, TxLosesRig, TxEnds, WorkerStep
  <1>5. RigTypes'
    BY <1>2, <1>4 DEF IInv, TypeOK, RigTypes, attemptVars, ownerVars, pollVars
  <1>6. FlagTypes'
    BY <1>4 DEF IInv, TypeOK, FlagTypes, panelVars, attemptVars, timerVars, pollVars
  <1>7. ThreadTypes'
    BY <1>4 DEF IInv, TypeOK, ThreadTypes, threadVars
  <1>8. CountTypes'
    BY <1>3, <1>4 DEF IInv, TypeOK, CountTypes, threadVars, pollVars
  <1>9. TypeOK'
    BY <1>1, <1>2, <1>4, <1>5, <1>6, <1>7, <1>8 DEF IInv, TypeOK
  <1>10. QED
    BY <1>3, <1>4, <1>9
    DEF IInv, TypeOK, CountTypes, PollSlot, SuspendedInFlight, Counts, pollVars

LEMMA StutterStep == ASSUME IInv, UNCHANGED vars PROVE IInv'
  <1>1. RigTypes' /\ ThreadTypes' /\ CountTypes'
    BY DEF vars, IInv, TypeOK, RigTypes, ThreadTypes, CountTypes, attemptVars,
           ownerVars, threadVars, pollVars, workerVars
  <1>2. FlagTypes'
    BY DEF vars, IInv, TypeOK, FlagTypes, panelVars, attemptVars, timerVars, pollVars
  <1>3. TypeOK'
    BY <1>1, <1>2 DEF vars, IInv, TypeOK, workerVars
  <1>4. QED
    BY <1>3, Elsewhere DEF vars, pollVars, workerVars

LEMMA NextIInv == IInv /\ [Next]_vars => IInv'
  <1> SUFFICES ASSUME IInv, [Next]_vars PROVE IInv'
    OBVIOUS
  <1>1. QED
    BY ConnectSteps, DisconnectSteps, ReportSteps, RequestStep, StartedStep, FinishedStep,
       ThreadSteps, PollSteps, WorkerSteps, StutterStep
    DEF Next, GuiHandles

-----------------------------------------------------------------------------
(* Theorems.                                                               *)

LEMMA Invariance == Spec => []IInv
  BY InitIInv, NextIInv, PTL DEF Spec

\* Every variable keeps its type; at most one poll is queued.
THEOREM TypeCorrect == Spec => []TypeOK
  <1>1. IInv => TypeOK
    BY DEF IInv
  <1>2. QED
    BY <1>1, Invariance, PTL

\* Only PollBegins makes the poll thread busy, and not while suspended.
LEMMA BeginsUnsuspended ==
  ASSUME IInv, [Next]_vars, busy', ~busy
  PROVE  inFlight = 0
  <1>1. PollBegins /\ ~suspended
    BY DEF Next, GuiHandles, WorkerRuns, ClickConnect, ClickConnectRigctld,
           RigctldLaunched, ClickCancel, ClickDisconnect, ConnectTimeout, FrameEnds,
           Disconnect, PollTick, RequestTx, OnTxStarted, OnSucceeded, OnFailed, OnThreadFinished,
           OnLost, OnPolled, OnPollError, OnTxFinished, Opens, Resolves, ThreadExits,
           LateClose, PollBegins, PollEnds, TxBegins, TxTakesRig, TxLosesRig, TxEnds, WorkerStep, pollVars, vars
  <1>2. QED
    BY <1>1 DEF IInv, SuspendedInFlight, TypeOK, CountTypes

\* No poll begins to touch the rig while a transmission is in flight.
THEOREM QuietTransmissions == Spec => QuietDuringTx
  <1>1. IInv /\ [Next]_vars => [(busy' /\ ~busy) => inFlight = 0]_vars
    BY BeginsUnsuspended
  <1>2. QED
    BY <1>1, Invariance, PTL DEF Spec, QuietDuringTx

-----------------------------------------------------------------------------
(* Who answers for a rig: the invariant *)

One(b) == IF b THEN 1 ELSE 0
Ends(q) == {i \in DOMAIN q : q[i].sig = "txFinished"}

\* A transmission is in flight from the click to the handling of its end.
TxCount == inFlight = txQueued + One(phase # "idle") + Cardinality(Ends(gui))

Succeeded(a) == [sig |-> "succeeded", of |-> a]
Reports(q, a) == \E i \in DOMAIN q : q[i] = Succeeded(a)
Once(q, a) == \A i, j \in DOMAIN q : q[i] = Succeeded(a) /\ q[j] = Succeeded(a) => i = j

Pursued(a) == thread[a] # "none" /\ ~cancel[a]
Trying == launching \/ adoptable # None \/ \E a \in Attempts : Pursued(a)

\* One attempt at a time, and its thread is not taken for another's.
OneTry ==
    /\ \A a \in Attempts : Pursued(a) => a = attempt /\ ~launching /\ adoptable = None
    /\ launching => adoptable = None
    /\ \A a \in Attempts : a > started => thread[a] = "none"
    /\ attempt <= started

\* A thread that is done was cancelled.
RetiredIn(q) == \A i \in DOMAIN q : q[i].sig = "finished" => cancel[q[i].of]
Retired == RetiredIn(gui)

\* While one is pursued there is no rig, and nothing of an earlier one is left.
FreshTry == Trying => rig = Manual /\ txRig = None /\ teardown = None /\ frames = <<>>

Deferrals ==
    /\ inFlight = 0 => adoptable = None /\ teardown = None /\ ~wasActive
    /\ teardown # None => rig = Manual /\ frames = <<>>

KeyedRig ==
    /\ phase \in {"idle", "begun"} => txRig = None
    /\ txRig # None => \/ rig = txRig
                       \/ /\ rig = Manual
                          /\ teardown = txRig \/ (frames # <<>> /\ frames[1].of = txRig)

Adopting == frames # <<>> /\ frames[1].handler = "adopt"

Nested ==
    /\ Len(frames) <= 1
    /\ frames # <<>> => /\ frames[1].of # None
                        /\ rig = IF Adopting THEN frames[1].of ELSE Manual

Panel == ~Adopting =>
    /\ connected <=> rig # Manual
    /\ connecting => rig = Manual
    /\ pollTimer => rig # Manual
    /\ rig # Manual => pollTimer \/ wasActive

\* The session, a deferral, the transmission or a waiting handler has it.
Held(a) == a \in {rig, adoptable, teardown, txRig} \/ (frames # <<>> /\ frames[1].of = a)

Owner(a) ==
    /\ Held(a) => open[a] /\ a \notin closers /\ ~Reports(gui, a)
    /\ a \in closers => ~Reports(gui, a)
    /\ Reports(gui, a) => open[a]
    /\ Held(a) \/ a \in closers \/ Reports(gui, a) => thread[a] \in {"ran", "exited"}
    /\ Once(gui, a)
    /\ thread[a] = "opened" => open[a]
    /\ open[a] => Held(a) \/ a \in closers \/ thread[a] = "opened" \/ Reports(gui, a)
Owners == \A a \in Attempts : Owner(a)

\* A loss still queued is of the rig there is, or of one that is gone; the
\* report of a new rig is behind it.
LossesIn(q) == \A i \in DOMAIN q : q[i].sig = "lost" =>
    /\ rig \in {Manual, q[i].of} /\ adoptable = None
    /\ \A j \in DOMAIN q, a \in Attempts : q[j] = Succeeded(a) /\ ~cancel[a] => i < j
Losses == LossesIn(gui)

\* A poll of a rig that is no longer the session's counts from zero.
StalePoll == busy /\ polling \notin {Manual, rig} => errors = 0

Kept == /\ OneTry /\ FreshTry /\ Deferrals /\ KeyedRig /\ Nested /\ Panel
        /\ Owners /\ Losses /\ Retired /\ StalePoll
RigInv == IInv /\ (~reentered => TxCount /\ Kept)

-----------------------------------------------------------------------------
(* The queue of the GUI thread *)

LEMMA EndsFinite ==
  ASSUME NEW q \in Seq(Signals)
  PROVE  IsFiniteSet(Ends(q)) /\ Cardinality(Ends(q)) \in Nat
  <1>1. IsFiniteSet(1 .. Len(q)) /\ Ends(q) \in SUBSET (1 .. Len(q))
    BY FS_Interval DEF Ends
  <1>2. QED
    BY <1>1, FS_Subset, FS_CardinalityType

\* Posting: the new signal is behind the others.
LEMMA Appended ==
  ASSUME NEW q \in Seq(Signals), NEW s \in Signals
  PROVE  LET r == Append(q, s) IN
         /\ r \in Seq(Signals) /\ DOMAIN r = DOMAIN q \cup {Len(q) + 1}
         /\ \A i \in DOMAIN q : r[i] = q[i] /\ i < Len(q) + 1
         /\ r[Len(q) + 1] = s /\ Len(q) + 1 \notin DOMAIN q
  BY AppendProperties

LEMMA AppendedEnds ==
  ASSUME NEW q \in Seq(Signals), NEW s \in Signals
  PROVE  Cardinality(Ends(Append(q, s))) = Cardinality(Ends(q)) + One(s.sig = "txFinished")
  <1> DEFINE r == Append(q, s)
             n == Len(q) + 1
  <1>1. /\ DOMAIN r = DOMAIN q \cup {n} /\ \A i \in DOMAIN q : r[i] = q[i]
        /\ r[n] = s /\ n \notin DOMAIN q
    BY Appended
  <1> HIDE DEF r, n
  <1>2. Ends(r) = IF s.sig = "txFinished" THEN Ends(q) \cup {n} ELSE Ends(q)
    BY <1>1 DEF Ends
  <1>3. n \notin Ends(q)
    BY <1>1 DEF Ends
  <1>4. IsFiniteSet(Ends(q)) /\ Cardinality(Ends(q)) \in Nat
    BY EndsFinite
  <1>5. Cardinality(Ends(q) \cup {n}) = Cardinality(Ends(q)) + 1
    BY <1>3, <1>4, FS_AddElement
  <1>6. Cardinality(Ends(r)) = Cardinality(Ends(q)) + One(s.sig = "txFinished")
    BY <1>2, <1>4, <1>5 DEF One
  <1>7. QED
    BY <1>6 DEF r

\* Taking: the others move up.
LEMMA Taken ==
  ASSUME NEW q \in Seq(Signals), q # <<>>
  PROVE  /\ Head(q) = q[1] /\ 1 \in DOMAIN q /\ Head(q) \in Signals /\ Tail(q) \in Seq(Signals)
         /\ \A i \in DOMAIN Tail(q) : i + 1 \in DOMAIN q /\ Tail(q)[i] = q[i + 1] /\ i + 1 # 1 /\ i \in Nat
         /\ \A i \in DOMAIN q \ {1} : i - 1 \in DOMAIN Tail(q) /\ Tail(q)[i - 1] = q[i] /\ i \in Nat
  <1>1. /\ Head(q) \in Signals /\ Tail(q) \in Seq(Signals) /\ Len(Tail(q)) = Len(q) - 1
        /\ \A i \in 1 .. Len(Tail(q)) : Tail(q)[i] = q[i + 1]
    BY HeadTailProperties
  <1>2. Len(q) \in Nat \ {0} /\ DOMAIN q = 1 .. Len(q) /\ DOMAIN Tail(q) = 1 .. (Len(q) - 1)
    BY <1>1
  <1>3. Head(q) = q[1]
    OBVIOUS
  <1>4. QED
    BY <1>1, <1>2, <1>3

LEMMA TakenEnds ==
  ASSUME NEW q \in Seq(Signals), q # <<>>
  PROVE  Cardinality(Ends(q)) = Cardinality(Ends(Tail(q))) + One(Head(q).sig = "txFinished")
  <1> DEFINE S == Ends(Tail(q))
             T == Ends(q) \ {1}
             f == [i \in S |-> i + 1]
  <1>1. f \in [S -> T] /\ S \subseteq Nat
    BY Taken DEF Ends
  <1>2. \A i, j \in S : f[i] = f[j] => i = j
    BY <1>1
  <1>3. ASSUME NEW t \in T PROVE \E i \in S : f[i] = t
    <2>1. t - 1 \in S /\ t \in Nat
      BY Taken DEF Ends
    <2>2. f[t - 1] = t
      BY <2>1
    <2>3. QED
      BY <2>1, <2>2
  <1>4. f \in Injection(S, T) /\ f \in Surjection(S, T)
    BY <1>1, <1>2, <1>3 DEF Injection, Surjection, IsInjective
  <1>5. IsFiniteSet(Ends(q)) /\ IsFiniteSet(T) /\ Cardinality(Ends(q)) \in Nat
    BY EndsFinite, FS_RemoveElement
  <1>6. Cardinality(S) = Cardinality(T)
    <2> HIDE DEF f, S, T
    <2>1. QED
      BY <1>4, <1>5, FS_Injection
  <1>7. Cardinality(T) = IF 1 \in Ends(q) THEN Cardinality(Ends(q)) - 1 ELSE Cardinality(Ends(q))
    BY <1>5, FS_RemoveElement
  <1>8. 1 \in Ends(q) <=> Head(q).sig = "txFinished"
    BY Taken DEF Ends
  <1>9. QED
    BY <1>5, <1>6, <1>7, <1>8 DEF One

\* Attempts are only ever cancelled.
Cancels == \A a \in Attempts : cancel[a] => cancel'[a]

LEMMA ReportsTaken ==
  ASSUME NEW q \in Seq(Signals), q # <<>>, NEW a
  PROVE  /\ Reports(q, a) <=> Reports(Tail(q), a) \/ Head(q) = Succeeded(a)
         /\ Once(q, a) => Once(Tail(q), a) /\ ~(Reports(Tail(q), a) /\ Head(q) = Succeeded(a))
  <1>1. Reports(q, a) <=> Reports(Tail(q), a) \/ Head(q) = Succeeded(a)
    <2>1. Reports(Tail(q), a) \/ Head(q) = Succeeded(a) => Reports(q, a)
      BY Taken DEF Reports
    <2>2. ASSUME NEW i \in DOMAIN q, q[i] = Succeeded(a)
          PROVE  Reports(Tail(q), a) \/ Head(q) = Succeeded(a)
      <3>1. CASE i = 1
        BY <2>2, <3>1, Taken
      <3>2. CASE i # 1
        <4>1. i - 1 \in DOMAIN Tail(q) /\ Tail(q)[i - 1] = q[i]
          BY <3>2, Taken
        <4>2. QED
          BY <2>2, <4>1 DEF Reports
      <3>3. QED
        BY <3>1, <3>2
    <2>3. QED
      BY <2>1, <2>2 DEF Reports
  <1>2. ASSUME Once(q, a)
        PROVE  Once(Tail(q), a) /\ ~(Reports(Tail(q), a) /\ Head(q) = Succeeded(a))
    <2>1. Once(Tail(q), a)
      <3> SUFFICES ASSUME NEW i \in DOMAIN Tail(q), NEW j \in DOMAIN Tail(q),
                          Tail(q)[i] = Succeeded(a), Tail(q)[j] = Succeeded(a)
                   PROVE  i = j
        BY DEF Once
      <3>1. i + 1 \in DOMAIN q /\ j + 1 \in DOMAIN q /\ q[i + 1] = Succeeded(a) /\ q[j + 1] = Succeeded(a)
            /\ i \in Nat /\ j \in Nat
        BY Taken
      <3>2. i + 1 = j + 1
        BY <1>2, <3>1 DEF Once
      <3>3. QED
        BY <3>1, <3>2
    <2>2. ~(Reports(Tail(q), a) /\ Head(q) = Succeeded(a))
      BY <1>2, Taken DEF Once, Reports
    <2>3. QED
      BY <2>1, <2>2
  <1>3. QED
    BY <1>1, <1>2

LEMMA ReportsAppended ==
  ASSUME NEW q \in Seq(Signals), NEW s \in Signals, NEW a
  PROVE  /\ Reports(Append(q, s), a) <=> Reports(q, a) \/ s = Succeeded(a)
         /\ Once(q, a) /\ (s = Succeeded(a) => ~Reports(q, a)) => Once(Append(q, s), a)
  <1> DEFINE r == Append(q, s)
             n == Len(q) + 1
  <1>1. /\ DOMAIN r = DOMAIN q \cup {n} /\ \A i \in DOMAIN q : r[i] = q[i]
        /\ r[n] = s /\ n \notin DOMAIN q
    BY Appended
  <1> HIDE DEF r, n
  <1>2. Reports(r, a) <=> Reports(q, a) \/ s = Succeeded(a)
    BY <1>1 DEF Reports
  <1>3. Once(q, a) /\ (s = Succeeded(a) => ~Reports(q, a)) => Once(r, a)
    BY <1>1 DEF Once, Reports
  <1>4. QED
    BY <1>2, <1>3 DEF r

LEMMA LossesSame ==
  ASSUME Losses, gui' = gui, rig' \in {rig, Manual}, adoptable' \in {adoptable, None}, Cancels
  PROVE  Losses'
  BY DEF Losses, LossesIn, Cancels, Manual, None

LEMMA LossesTaken ==
  ASSUME Losses, gui \in Seq(Signals), gui # <<>>, gui' = Tail(gui),
         rig' \in {rig, Manual}, adoptable' \in {adoptable, None}, Cancels
  PROVE  Losses'
  <1> SUFFICES ASSUME NEW i \in DOMAIN Tail(gui), Tail(gui)[i].sig = "lost"
               PROVE  /\ rig' \in {Manual, Tail(gui)[i].of} /\ adoptable' = None
                      /\ \A j \in DOMAIN Tail(gui), a \in Attempts :
                            Tail(gui)[j] = Succeeded(a) /\ ~cancel'[a] => i < j
    BY DEF Losses, LossesIn
  <1>1. i + 1 \in DOMAIN gui /\ gui[i + 1] = Tail(gui)[i] /\ i \in Nat
    BY Taken
  <1>2. /\ rig \in {Manual, gui[i + 1].of} /\ adoptable = None
        /\ \A j \in DOMAIN gui, a \in Attempts : gui[j] = Succeeded(a) /\ ~cancel[a] => i + 1 < j
    BY <1>1 DEF Losses, LossesIn
  <1>3. ASSUME NEW j \in DOMAIN Tail(gui), NEW a \in Attempts, Tail(gui)[j] = Succeeded(a), ~cancel'[a]
        PROVE  i < j
    <2>1. j + 1 \in DOMAIN gui /\ gui[j + 1] = Succeeded(a) /\ j \in Nat /\ ~cancel[a]
      BY <1>3, Taken DEF Cancels
    <2>2. QED
      BY <1>1, <1>2, <2>1
  <1>4. QED
    BY <1>1, <1>2, <1>3

LEMMA LossesAppended ==
  ASSUME NEW q \in Seq(Signals), LossesIn(q), NEW s \in Signals,
         s.sig = "lost" => /\ rig \in {Manual, s.of} /\ adoptable = None
                           /\ \A a \in Attempts : Reports(q, a) => cancel[a]
  PROVE  LossesIn(Append(q, s))
  <1> DEFINE n == Len(q) + 1
             r == Append(q, s)
  <1>1. /\ DOMAIN r = DOMAIN q \cup {n} /\ \A i \in DOMAIN q : r[i] = q[i] /\ i < n
        /\ r[n] = s /\ n \notin DOMAIN q
    BY Appended
  <1> HIDE DEF n, r
  <1>2. SUFFICES ASSUME NEW i \in DOMAIN r, r[i].sig = "lost"
                 PROVE  /\ rig \in {Manual, r[i].of} /\ adoptable = None
                        /\ \A j \in DOMAIN r, a \in Attempts : r[j] = Succeeded(a) /\ ~cancel[a] => i < j
    BY DEF LossesIn, r
  <1>3. CASE i \in DOMAIN q
    BY <1>1, <1>2, <1>3 DEF LossesIn
  <1>4. CASE i = n
    <2>1. s.sig = "lost"
      BY <1>1, <1>2, <1>4
    <2>2. \A a \in Attempts : s # Succeeded(a)
      BY <2>1 DEF Succeeded
    <2>3. QED
      BY <1>1, <1>4, <2>1, <2>2 DEF Reports
  <1>5. QED
    BY <1>1, <1>2, <1>3, <1>4

LEMMA RetiredTaken ==
  ASSUME Retired, TypeOK, gui # <<>>, gui' = Tail(gui), Cancels
  PROVE  Retired'
  <1> SUFFICES ASSUME NEW i \in DOMAIN Tail(gui), Tail(gui)[i].sig = "finished"
               PROVE  cancel'[Tail(gui)[i].of]
    BY DEF Retired, RetiredIn
  <1>1. i + 1 \in DOMAIN gui /\ gui[i + 1] = Tail(gui)[i] /\ Tail(gui)[i] \in Signals
    BY Taken DEF TypeOK
  <1>2. cancel[Tail(gui)[i].of] /\ Tail(gui)[i].of \in Attempts
    BY <1>1 DEF Retired, RetiredIn, Signals
  <1>3. QED
    BY <1>2 DEF Cancels

LEMMA RetiredSame ==
  ASSUME Retired, TypeOK, gui' = gui, Cancels
  PROVE  Retired'
  <1> SUFFICES ASSUME NEW i \in DOMAIN gui, gui[i].sig = "finished"
               PROVE  cancel'[gui[i].of]
    BY DEF Retired, RetiredIn
  <1>1. cancel[gui[i].of] /\ gui[i] \in Signals
    BY DEF Retired, RetiredIn, TypeOK
  <1>2. QED
    BY <1>1 DEF Cancels, Signals

LEMMA RetiredAppended ==
  ASSUME NEW q \in Seq(Signals), RetiredIn(q), NEW s \in Signals, s.sig = "finished" => cancel[s.of]
  PROVE  RetiredIn(Append(q, s))
  BY Appended DEF RetiredIn

\* A thread posts: the session, the attempts and the losses stay as they are.
LEMMA QueuePosted ==
  ASSUME TypeOK, Losses, Retired, NEW s \in Signals, gui' = Append(gui, s),
         UNCHANGED <<rig, adoptable, cancel>>, s.sig = "finished" => cancel[s.of],
         s.sig = "lost" => /\ rig \in {Manual, s.of} /\ adoptable = None
                           /\ \A a \in Attempts : Reports(gui, a) => cancel[a]
  PROVE  Losses' /\ Retired'
  <1>1. LossesIn(gui') /\ RetiredIn(gui')
    BY LossesAppended, RetiredAppended DEF TypeOK, Losses, Retired
  <1>2. QED
    BY <1>1 DEF LossesIn, RetiredIn, Losses, Retired

-----------------------------------------------------------------------------
(* Steps beside the session *)

LEMMA OwnersSame ==
  ASSUME Owners,
         \A a \in Attempts :
            /\ Held(a)' <=> Held(a)
            /\ open'[a] = open[a] /\ thread'[a] = thread[a]
            /\ a \in closers' <=> a \in closers
            /\ Reports(gui', a) <=> Reports(gui, a)
            /\ Once(gui, a) => Once(gui', a)
  PROVE  Owners'
  BY DEF Owners, Owner

\* A signal is handled that reports no success.
LEMMA OthersTaken ==
  ASSUME TypeOK, NEW s, s # "succeeded", Take(s)
  PROVE  \A a \in Attempts : /\ Reports(gui', a) <=> Reports(gui, a)
                             /\ Once(gui, a) => Once(gui', a)
  <1>1. gui \in Seq(Signals) /\ gui # <<>> /\ gui' = Tail(gui) /\ Head(gui).sig # "succeeded"
    BY DEF TypeOK, Take
  <1>2. \A a \in Attempts : Head(gui) # Succeeded(a)
    BY <1>1 DEF Succeeded
  <1>3. QED
    BY <1>1, <1>2, ReportsTaken

\* A signal is posted that reports no success.
LEMMA OthersPosted ==
  ASSUME TypeOK, NEW s \in Signals, s.sig # "succeeded", gui' = Append(gui, s)
  PROVE  \A a \in Attempts : /\ Reports(gui', a) <=> Reports(gui, a)
                             /\ Once(gui, a) => Once(gui', a)
  <1>1. \A a \in Attempts : s # Succeeded(a)
    BY DEF Succeeded
  <1>2. QED
    BY <1>1, ReportsAppended DEF TypeOK

SessionRests == UNCHANGED <<frames, rig, adoptable, teardown, txRig>>
OwnersRest == SessionRests /\ UNCHANGED <<open, closers>>

LEMMA HeldRests == ASSUME SessionRests PROVE \A a \in Attempts : Held(a)' <=> Held(a)
  BY DEF SessionRests, Held

LEMMA StaleRests ==
  ASSUME StalePoll, UNCHANGED <<busy, polling, rig, errors>>
  PROVE  StalePoll'
  BY DEF StalePoll

LEMMA CountRests ==
  ASSUME TxCount, UNCHANGED <<inFlight, txQueued, phase, gui>>
  PROVE  TxCount'
  BY DEF TxCount, One, Ends

\* Handling any signal but the end of a transmission.
LEMMA CountTaken ==
  ASSUME TypeOK, TxCount, UNCHANGED <<inFlight, txQueued, phase>>, NEW s, s # "txFinished", Take(s)
  PROVE  TxCount'
  <1>1. gui \in Seq(Signals) /\ gui # <<>> /\ gui' = Tail(gui) /\ Head(gui).sig # "txFinished"
    BY DEF TypeOK, Take
  <1>2. Tail(gui) \in Seq(Signals)
    BY <1>1, Taken
  <1>3. Cardinality(Ends(gui)) = Cardinality(Ends(gui')) + 0 /\ Cardinality(Ends(gui')) \in Nat
    BY <1>1, <1>2, TakenEnds, EndsFinite DEF One
  <1>4. QED
    BY <1>3 DEF TxCount, One

\* The attempt pursued may be given up; the session stays as it is.
LEMMA Aside ==
  ASSUME RigInv, ~reentered, OwnersRest, Cancels, attempt' \in {attempt, None},
         \A a \in Attempts : Pursued(a)' => Pursued(a) /\ a = attempt',
         UNCHANGED <<connected, launching, inFlight, wasActive, pollTimer, started, thread,
                     phase, txQueued, busy, polling, errors>>,
         connecting' => connecting,
         gui' = gui \/ \E s : s \notin {"succeeded", "txFinished"} /\ Take(s)
  PROVE  TxCount' /\ Kept'
  <1>1. TypeOK /\ TxCount /\ Kept
    BY DEF RigInv, IInv
  <1>2. TxCount'
    BY <1>1, CountRests, CountTaken
  <1>3. OneTry'
    BY <1>1 DEF Kept, OneTry, OwnersRest, SessionRests, Pursued, TypeOK, CountTypes, None
  <1>4. FreshTry' /\ Deferrals' /\ KeyedRig' /\ Nested' /\ Panel'
    <2>1. Trying' => Trying
      BY DEF Trying, OwnersRest, SessionRests
    <2>2. FreshTry'
      BY <1>1, <2>1 DEF Kept, FreshTry, OwnersRest, SessionRests
    <2>3. Deferrals' /\ KeyedRig' /\ Nested' /\ Panel'
      BY <1>1 DEF Kept, Deferrals, KeyedRig, Nested, Panel, Adopting, OwnersRest, SessionRests
    <2>4. QED
      BY <2>2, <2>3
  <1>5. Owners'
    <2>1. \A a \in Attempts : /\ Reports(gui', a) <=> Reports(gui, a)
                              /\ Once(gui, a) => Once(gui', a)
      BY <1>1, OthersTaken
    <2>2. QED
      BY <1>1, <2>1, HeldRests, OwnersSame DEF Kept, OwnersRest
  <1>6. Losses' /\ Retired'
    <2>1. gui' = gui \/ (gui # <<>> /\ gui' = Tail(gui))
      BY DEF Take
    <2>2. QED
      BY <1>1, <2>1, LossesSame, LossesTaken, RetiredSame, RetiredTaken
      DEF Kept, OwnersRest, SessionRests, TypeOK
  <1>7. StalePoll'
    BY <1>1, StaleRests DEF Kept, OwnersRest, SessionRests
  <1>8. QED
    BY <1>2, <1>3, <1>4, <1>5, <1>6, <1>7 DEF Kept

LEMMA CancelsSet ==
  ASSUME TypeOK, NEW a, cancel' = cancel \/ cancel' = [cancel EXCEPT ![a] = TRUE]
  PROVE  Cancels /\ \A b \in Attempts : (cancel'[b] <=> cancel[b] \/ (cancel' # cancel /\ b = a))
  BY DEF TypeOK, ThreadTypes, Cancels

LEMMA TimeoutKeeps ==
  ASSUME RigInv, ~reentered, ConnectTimeout
  PROVE  TxCount' /\ Kept'
  <1>1. TypeOK /\ OneTry
    BY DEF RigInv, IInv, Kept
  <1>2. /\ OwnersRest /\ attempt' = attempt /\ ~connecting'
        /\ UNCHANGED <<gui, connected, launching, inFlight, wasActive, pollTimer, started, thread,
                       phase, txQueued, busy, polling, errors>>
        /\ cancel' = [cancel EXCEPT ![attempt] = TRUE]
    BY DEF ConnectTimeout, ownerVars, timerVars, pollVars, workerVars, OwnersRest, SessionRests
  <1>3. Cancels
    BY <1>1, <1>2, CancelsSet
  <1>4. \A a \in Attempts : Pursued(a)' => Pursued(a) /\ a = attempt'
    BY <1>1, <1>2, <1>3 DEF Pursued, OneTry, Cancels
  <1>5. QED
    BY <1>2, <1>3, <1>4, Aside

LEMMA FailedKeeps ==
  ASSUME RigInv, ~reentered, OnFailed
  PROVE  TxCount' /\ Kept'
  <1>1. TypeOK /\ OneTry
    BY DEF RigInv, IInv, Kept
  <1>2. /\ OwnersRest /\ attempt' = attempt /\ (connecting' => connecting) /\ Take("failed")
        /\ UNCHANGED <<connected, launching, inFlight, wasActive, pollTimer, started, thread,
                       phase, txQueued, busy, polling, errors>>
        /\ cancel' = cancel \/ cancel' = [cancel EXCEPT ![Head(gui).of] = TRUE]
    BY DEF OnFailed, ownerVars, timerVars, pollVars, workerVars, OwnersRest, SessionRests
  <1>3. Cancels
    BY <1>1, <1>2, CancelsSet
  <1>4. \A a \in Attempts : Pursued(a)' => Pursued(a) /\ a = attempt'
    BY <1>1, <1>2, <1>3 DEF Pursued, OneTry, Cancels
  <1>5. QED
    BY <1>2, <1>3, <1>4, Aside

LEMMA FinishedKeeps ==
  ASSUME RigInv, ~reentered, OnThreadFinished
  PROVE  TxCount' /\ Kept'
  <1>1. TypeOK /\ OneTry /\ Retired
    BY DEF RigInv, IInv, Kept
  <1>2. /\ OwnersRest /\ connecting' = connecting /\ Take("finished") /\ cancel' = cancel
        /\ UNCHANGED <<connected, launching, inFlight, wasActive, pollTimer, started, thread,
                       phase, txQueued, busy, polling, errors>>
        /\ attempt' = IF Head(gui).of = attempt THEN None ELSE attempt
    BY DEF OnThreadFinished, ownerVars, timerVars, threadVars, panelVars, pollVars, workerVars,
           OwnersRest, SessionRests
  <1>3. Cancels
    BY <1>2 DEF Cancels
  <1>4. cancel[Head(gui).of]
    BY <1>1, <1>2, Taken DEF Take, TypeOK, Retired, RetiredIn
  <1>5. \A a \in Attempts : Pursued(a)' => Pursued(a) /\ a = attempt'
    BY <1>1, <1>2, <1>4 DEF Pursued, OneTry
  <1>6. QED
    BY <1>2, <1>3, <1>5, Aside

\* What a poll found is handled, and the report of a rig that is gone; a poll
\* is asked for.
LEMMA ReportsKeep ==
  ASSUME RigInv, ~reentered, OnPolled \/ OnPollError \/ (OnLost /\ rig = Manual) \/ PollTick
  PROVE  TxCount' /\ Kept'
  <1>1. TypeOK /\ OneTry
    BY DEF RigInv, IInv, Kept
  <1> DEFINE Rests == OwnersRest /\ UNCHANGED <<attempt, cancel, connected, launching, inFlight, wasActive,
                         pollTimer, started, thread, phase, txQueued, busy, polling, errors>>
  <1>2. CASE OnPolled
    <2>1. Take("polled")
      BY <1>2 DEF OnPolled
    <2>2. Rests /\ connecting' = connecting
      BY <1>2 DEF OnPolled, panelVars, attemptVars, ownerVars, timerVars, threadVars, pollVars,
                  workerVars, OwnersRest, SessionRests
    <2>3. Cancels /\ \A a \in Attempts : Pursued(a)' => Pursued(a) /\ a = attempt'
      BY <1>1, <2>2 DEF Pursued, OneTry, Cancels
    <2>4. QED
      BY <2>1, <2>2, <2>3, Aside
  <1>3. CASE OnPollError
    <2>1. Take("pollError")
      BY <1>3 DEF OnPollError
    <2>2. Rests /\ (connecting' => connecting)
      BY <1>3 DEF OnPollError, panelVars, attemptVars, ownerVars, timerVars, threadVars, pollVars,
                  workerVars, OwnersRest, SessionRests
    <2>3. Cancels /\ \A a \in Attempts : Pursued(a)' => Pursued(a) /\ a = attempt'
      BY <1>1, <2>2 DEF Pursued, OneTry, Cancels
    <2>4. QED
      BY <2>1, <2>2, <2>3, Aside
  <1>4. CASE OnLost /\ rig = Manual
    <2>1. Take("lost")
      BY <1>4 DEF OnLost
    <2>2. Rests /\ connecting' = connecting
      BY <1>4 DEF OnLost, panelVars, attemptVars, ownerVars, timerVars, threadVars, pollVars,
                  workerVars, OwnersRest, SessionRests
    <2>3. Cancels /\ \A a \in Attempts : Pursued(a)' => Pursued(a) /\ a = attempt'
      BY <1>1, <2>2 DEF Pursued, OneTry, Cancels
    <2>4. QED
      BY <2>1, <2>2, <2>3, Aside
  <1>5. CASE PollTick
    <2>1. Rests /\ connecting' = connecting /\ gui' = gui
      BY <1>5 DEF PollTick, panelVars, attemptVars, ownerVars, timerVars, threadVars, pollVars,
                  workerVars, OwnersRest, SessionRests
    <2>2. Cancels /\ \A a \in Attempts : Pursued(a)' => Pursued(a) /\ a = attempt'
      BY <1>1, <2>1 DEF Pursued, OneTry, Cancels
    <2>3. QED
      BY <2>1, <2>2, Aside
  <1>6. QED
    BY <1>2, <1>3, <1>4, <1>5

-----------------------------------------------------------------------------
(* The transmit worker and the poll thread *)

AttemptsRest == UNCHANGED <<launching, attempt, started, cancel, thread>>

LEMMA AttemptsKeep ==
  ASSUME OneTry, FreshTry, AttemptsRest, UNCHANGED <<frames, rig, adoptable, teardown>>,
         txRig' \in {txRig, rig, None}
  PROVE  OneTry' /\ FreshTry'
  <1>1. OneTry'
    BY DEF OneTry, AttemptsRest, Pursued
  <1>2. Trying' => Trying
    BY DEF Trying, Pursued, AttemptsRest
  <1>3. FreshTry'
    BY <1>2 DEF FreshTry, Manual, None
  <1>4. QED
    BY <1>1, <1>3

LEMMA OwnersUntouched ==
  ASSUME Owners, OwnersRest, UNCHANGED <<thread, gui>>
  PROVE  Owners'
  BY HeldRests, OwnersSame DEF OwnersRest

LEMMA QueueRests ==
  ASSUME Losses, Retired, TypeOK, UNCHANGED <<gui, rig, adoptable, cancel>>
  PROVE  Losses' /\ Retired'
  BY LossesSame, RetiredSame DEF Cancels

\* A request and the beginning of a transmission lock the controls.
LEMMA LockKeeps ==
  ASSUME RigInv, ~reentered, OwnersRest, AttemptsRest, Lock, inFlight' > 0,
         UNCHANGED <<gui, connected, connecting, phase, busy, polling, errors>>
  PROVE  Kept'
  <1>1. TypeOK /\ Kept
    BY DEF RigInv, IInv
  <1>2. OneTry' /\ FreshTry'
    BY <1>1, AttemptsKeep DEF Kept, OwnersRest, SessionRests
  <1>3. KeyedRig' /\ Nested'
    BY <1>1 DEF Kept, KeyedRig, Nested, Adopting, OwnersRest, SessionRests
  <1>4. Deferrals'
    BY <1>1 DEF Kept, Deferrals, OwnersRest, SessionRests
  <1>5. Panel'
    BY <1>1 DEF Kept, Panel, Adopting, Lock, OwnersRest, SessionRests
  <1>6. Owners' /\ Losses' /\ Retired' /\ StalePoll'
    BY <1>1, OwnersUntouched, QueueRests, StaleRests DEF Kept, AttemptsRest, OwnersRest, SessionRests
  <1>7. QED
    BY <1>2, <1>3, <1>4, <1>5, <1>6 DEF Kept

LEMMA RequestKeeps ==
  ASSUME RigInv, ~reentered, RequestTx
  PROVE  TxCount' /\ Kept'
  <1>1. /\ OwnersRest /\ AttemptsRest /\ Lock /\ inFlight' = inFlight + 1 /\ txQueued' = txQueued + 1
        /\ UNCHANGED <<gui, connected, connecting, phase, busy, polling, errors>>
    BY DEF RequestTx, panelVars, attemptVars, ownerVars, threadVars, pollVars, AttemptsRest,
           OwnersRest, SessionRests
  <1>2. inFlight \in Nat /\ txQueued \in Nat /\ gui \in Seq(Signals) /\ TxCount
    BY DEF RigInv, IInv, TypeOK, CountTypes
  <1>3. TxCount'
    BY <1>1, <1>2, EndsFinite DEF TxCount, One
  <1>4. QED
    BY <1>1, <1>2, <1>3, LockKeeps

LEMMA StartedKeeps ==
  ASSUME RigInv, ~reentered, OnTxStarted
  PROVE  TxCount' /\ Kept'
  <1>1. /\ OwnersRest /\ AttemptsRest /\ Lock /\ inFlight' = inFlight /\ inFlight > txQueued
        /\ UNCHANGED <<gui, connected, connecting, phase, busy, polling, errors, txQueued>>
    BY DEF OnTxStarted, panelVars, attemptVars, ownerVars, threadVars, pollVars, workerVars,
           AttemptsRest, OwnersRest, SessionRests
  <1>2. inFlight \in Nat /\ txQueued \in Nat /\ TxCount
    BY DEF RigInv, IInv, TypeOK, CountTypes
  <1>3. QED
    BY <1>1, <1>2, CountRests, LockKeeps

\* What the worker and the poll thread leave alone.
StationRests == /\ AttemptsRest
                /\ UNCHANGED <<frames, rig, adoptable, teardown, open, closers, connected, connecting,
                               inFlight, pollTimer, wasActive>>

LEMMA StationKeeps ==
  ASSUME RigInv, ~reentered, StationRests, txRig' \in {txRig, rig, None},
         Owners', KeyedRig', Losses', Retired', StalePoll'
  PROVE  Kept'
  <1>1. Kept
    BY DEF RigInv
  <1>2. OneTry' /\ FreshTry'
    BY <1>1, AttemptsKeep DEF Kept, StationRests
  <1>3. Deferrals' /\ Nested' /\ Panel'
    BY <1>1 DEF Kept, Deferrals, Nested, Panel, Adopting, StationRests
  <1>4. QED
    BY <1>2, <1>3 DEF Kept

LEMMA BeginsKeeps ==
  ASSUME RigInv, ~reentered, TxBegins
  PROVE  TxCount' /\ Kept'
  <1>1. TypeOK /\ Kept /\ TxCount
    BY DEF RigInv, IInv
  <1>2. /\ StationRests /\ phase = "idle" /\ phase' = "begun" /\ txQueued' = txQueued - 1
        /\ UNCHANGED <<gui, txRig, busy, polling, errors>> /\ OwnersRest
    BY DEF TxBegins, WorkerStep, panelVars, attemptVars, ownerVars, timerVars, threadVars, pollVars,
           StationRests, AttemptsRest, OwnersRest, SessionRests
  <1>3. TxCount'
    <2>1. txQueued \in Nat /\ inFlight \in Nat /\ Cardinality(Ends(gui)) \in Nat
      BY <1>1, EndsFinite DEF TypeOK, CountTypes
    <2>2. QED
      BY <1>1, <1>2, <2>1 DEF TxCount, One, StationRests
  <1>4. Owners' /\ Losses' /\ Retired' /\ StalePoll'
    BY <1>1, <1>2, OwnersUntouched, QueueRests, StaleRests
    DEF Kept, StationRests, AttemptsRest, OwnersRest, SessionRests
  <1>5. KeyedRig'
    BY <1>1, <1>2 DEF Kept, KeyedRig, StationRests
  <1>6. QED
    BY <1>2, <1>3, <1>4, <1>5, StationKeeps

LEMMA TakesRigKeeps ==
  ASSUME RigInv, ~reentered, TxTakesRig
  PROVE  TxCount' /\ Kept'
  <1>1. TypeOK /\ Kept /\ TxCount
    BY DEF RigInv, IInv
  <1>2. /\ StationRests /\ phase = "begun" /\ phase' = "running" /\ txRig' = rig
        /\ UNCHANGED <<gui, txQueued, busy, polling, errors>>
    BY DEF TxTakesRig, WorkerStep, panelVars, attemptVars, ownerVars, timerVars, threadVars, pollVars,
           StationRests, AttemptsRest
  <1>3. txRig = None
    BY <1>1, <1>2 DEF Kept, KeyedRig
  <1>4. TxCount'
    BY <1>1, <1>2 DEF TxCount, One, StationRests
  <1>5. \A a \in Attempts : Held(a)' <=> Held(a)
    BY <1>2, <1>3 DEF Held, StationRests, Attempts, None
  <1>6. Owners'
    BY <1>1, <1>2, <1>5, OwnersSame DEF Kept, StationRests, AttemptsRest
  <1>7. Losses' /\ Retired' /\ StalePoll'
    BY <1>1, <1>2, QueueRests, StaleRests DEF Kept, StationRests, AttemptsRest
  <1>8. KeyedRig'
    BY <1>2 DEF KeyedRig, StationRests
  <1>9. QED
    BY <1>2, <1>4, <1>6, <1>7, <1>8, StationKeeps

\* With no rig keyed and none in the session nobody reports a loss.
LEMMA LossPosted ==
  ASSUME RigInv, ~reentered, rig # Manual \/ txRig # None
  PROVE  adoptable = None /\ \A a \in Attempts : Reports(gui, a) => cancel[a]
  <1>1. Kept
    BY DEF RigInv
  <1>2. ~Trying
    BY <1>1 DEF Kept, FreshTry
  <1>3. \A a \in Attempts : Reports(gui, a) => thread[a] # "none"
    BY <1>1 DEF Kept, Owners, Owner
  <1>4. QED
    BY <1>2, <1>3 DEF Trying, Pursued

LEMMA LosesRigKeeps ==
  ASSUME RigInv, ~reentered, TxLosesRig
  PROVE  TxCount' /\ Kept'
  <1> DEFINE s == [sig |-> "lost", of |-> txRig]
  <1>1. TypeOK /\ Kept /\ TxCount /\ gui \in Seq(Signals)
    BY DEF RigInv, IInv, TypeOK
  <1>2. /\ StationRests /\ OwnersRest /\ phase = "running" /\ phase' = "unkeying" /\ txRig # None
        /\ UNCHANGED <<txRig, txQueued, busy, polling, errors>> /\ gui' = Append(gui, s)
    BY DEF TxLosesRig, WorkerStep, Post, panelVars, attemptVars, ownerVars, timerVars, threadVars,
           pollVars, StationRests, AttemptsRest, OwnersRest, SessionRests
  <1>3. s \in Signals /\ s.sig = "lost" /\ s.of = txRig
    BY <1>1 DEF TypeOK, RigTypes, Signals
  <1> HIDE DEF s
  <1>4. TxCount'
    <2>1. Cardinality(Ends(gui')) = Cardinality(Ends(gui)) + 0 /\ Cardinality(Ends(gui)) \in Nat
      BY <1>1, <1>2, <1>3, AppendedEnds, EndsFinite DEF One
    <2>2. QED
      BY <1>1, <1>2, <2>1 DEF TxCount, One, StationRests
  <1>5. Owners'
    <2>1. \A a \in Attempts : /\ Reports(gui', a) <=> Reports(gui, a)
                              /\ Once(gui, a) => Once(gui', a)
      BY <1>1, <1>2, <1>3, OthersPosted
    <2>2. QED
      BY <1>1, <1>2, <2>1, HeldRests, OwnersSame DEF Kept, OwnersRest, StationRests, AttemptsRest
  <1>6. Losses' /\ Retired'
    <2>1. rig \in {Manual, s.of}
      BY <1>1, <1>2, <1>3 DEF Kept, KeyedRig
    <2>2. adoptable = None /\ \A a \in Attempts : Reports(gui, a) => cancel[a]
      BY <1>2, LossPosted
    <2>3. QED
      BY <1>1, <1>2, <1>3, <2>1, <2>2, QueuePosted DEF Kept, StationRests, AttemptsRest
  <1>7. KeyedRig' /\ StalePoll'
    BY <1>1, <1>2, StaleRests DEF Kept, KeyedRig, StationRests
  <1>8. QED
    BY <1>2, <1>4, <1>5, <1>6, <1>7, StationKeeps

LEMMA TxEndsKeeps ==
  ASSUME RigInv, ~reentered, TxEnds
  PROVE  TxCount' /\ Kept'
  <1> DEFINE s == [sig |-> "txFinished", of |-> None]
  <1>1. TypeOK /\ Kept /\ TxCount /\ gui \in Seq(Signals)
    BY DEF RigInv, IInv, TypeOK
  <1>2. /\ StationRests /\ phase # "idle" /\ phase' = "idle" /\ txRig' = None
        /\ UNCHANGED <<txQueued, busy, polling, errors>> /\ gui' = Append(gui, s)
    BY DEF TxEnds, WorkerStep, Post, panelVars, attemptVars, ownerVars, timerVars, threadVars,
           pollVars, StationRests, AttemptsRest
  <1>3. s \in Signals /\ s.sig = "txFinished"
    BY AttemptsAreRigs DEF Signals, None
  <1> HIDE DEF s
  <1>4. TxCount'
    <2>1. Cardinality(Ends(gui')) = Cardinality(Ends(gui)) + 1 /\ Cardinality(Ends(gui)) \in Nat
      BY <1>1, <1>2, <1>3, AppendedEnds, EndsFinite DEF One
    <2>2. txQueued \in Nat
      BY <1>1 DEF TypeOK, CountTypes
    <2>3. QED
      BY <1>1, <1>2, <2>1, <2>2 DEF TxCount, One, StationRests
  <1>5. \A a \in Attempts : Held(a)' <=> Held(a)
    BY <1>1, <1>2 DEF Kept, KeyedRig, Held, StationRests, Attempts, None
  <1>6. Owners'
    <2>1. \A a \in Attempts : /\ Reports(gui', a) <=> Reports(gui, a)
                              /\ Once(gui, a) => Once(gui', a)
      BY <1>1, <1>2, <1>3, OthersPosted
    <2>2. QED
      BY <1>1, <1>2, <1>5, <2>1, OwnersSame DEF Kept, StationRests, AttemptsRest
  <1>7. Losses' /\ Retired'
    BY <1>1, <1>2, <1>3, QueuePosted DEF Kept, StationRests, AttemptsRest
  <1>8. KeyedRig' /\ StalePoll'
    BY <1>1, <1>2, StaleRests DEF Kept, KeyedRig, StationRests
  <1>9. QED
    BY <1>2, <1>4, <1>6, <1>7, <1>8, StationKeeps

LEMMA PollBeginsKeeps ==
  ASSUME RigInv, ~reentered, PollBegins
  PROVE  TxCount' /\ Kept'
  <1>1. TypeOK /\ Kept /\ TxCount
    BY DEF RigInv, IInv
  <1>2. /\ StationRests /\ OwnersRest /\ UNCHANGED <<gui, txRig, txQueued, phase, errors>>
        /\ UNCHANGED <<polling, busy>> \/ polling' = rig
    BY DEF PollBegins, panelVars, attemptVars, ownerVars, timerVars, threadVars, workerVars,
           StationRests, AttemptsRest, OwnersRest, SessionRests
  <1>3. TxCount'
    BY <1>1, <1>2, CountRests DEF StationRests
  <1>4. Owners' /\ Losses' /\ Retired'
    BY <1>1, <1>2, OwnersUntouched, QueueRests DEF Kept, StationRests, AttemptsRest
  <1>5. StalePoll'
    BY <1>1, <1>2 DEF Kept, StalePoll, StationRests
  <1>6. KeyedRig'
    BY <1>1, <1>2 DEF Kept, KeyedRig, StationRests
  <1>7. QED
    BY <1>2, <1>3, <1>4, <1>5, <1>6, StationKeeps

\* The poll thread posts what it found.
Found(s) == [sig |-> s, of |-> polling]

LEMMA PollPosts ==
  ASSUME TypeOK, NEW q \in Seq(Signals), LossesIn(q), RetiredIn(q),
         NEW s \in {"polled", "pollError", "lost"},
         s = "lost" => /\ rig \in {Manual, polling} /\ adoptable = None
                       /\ \A a \in Attempts : Reports(q, a) => cancel[a]
  PROVE  LET r == Append(q, Found(s)) IN
         /\ r \in Seq(Signals) /\ LossesIn(r) /\ RetiredIn(r)
         /\ Cardinality(Ends(r)) = Cardinality(Ends(q))
         /\ \A a \in Attempts : /\ Reports(r, a) <=> Reports(q, a)
                                /\ Once(q, a) => Once(r, a)
  <1>1. Found(s) \in Signals /\ Found(s).sig = s /\ Found(s).of = polling
    BY DEF Found, TypeOK, RigTypes, Signals
  <1>2. \A a \in Attempts : Found(s) # Succeeded(a)
    BY <1>1 DEF Succeeded
  <1> DEFINE m == Found(s)
  <1>3. m \in Signals /\ m.sig = s /\ m.of = polling /\ \A a \in Attempts : m # Succeeded(a)
    BY <1>1, <1>2
  <1> HIDE DEF m
  <1>4. Append(q, m) \in Seq(Signals)
    BY <1>3, Appended
  <1>5. LossesIn(Append(q, m)) /\ RetiredIn(Append(q, m))
    BY <1>3, LossesAppended, RetiredAppended
  <1>6. Cardinality(Ends(Append(q, m))) = Cardinality(Ends(q))
    <2>1. Cardinality(Ends(Append(q, m))) = Cardinality(Ends(q)) + One(m.sig = "txFinished")
      BY <1>3, AppendedEnds
    <2>2. Cardinality(Ends(q)) \in Nat /\ m.sig # "txFinished"
      BY <1>3, EndsFinite
    <2>3. QED
      BY <2>1, <2>2 DEF One
  <1>7. \A a \in Attempts : /\ Reports(Append(q, m), a) <=> Reports(q, a)
                            /\ Once(q, a) => Once(Append(q, m), a)
    BY <1>3, ReportsAppended
  <1>8. QED
    BY <1>4, <1>5, <1>6, <1>7 DEF m

\* The loss is of the session's rig: of another one a single failure is
\* counted, and the threshold is higher.
LEMMA PollEndsKeeps ==
  ASSUME RigInv, ~reentered, PollEnds
  PROVE  TxCount' /\ Kept'
  <1>1. TypeOK /\ Kept /\ TxCount /\ gui \in Seq(Signals)
    BY DEF RigInv, IInv, TypeOK
  <1>2. /\ StationRests /\ OwnersRest /\ UNCHANGED <<txRig, txQueued, phase>> /\ busy /\ ~busy'
    BY DEF PollEnds, panelVars, attemptVars, ownerVars, timerVars, threadVars, workerVars,
           StationRests, AttemptsRest, OwnersRest, SessionRests
  <1>3. LossesIn(gui) /\ RetiredIn(gui)
    BY <1>1 DEF Kept, Losses, Retired
  <1> DEFINE p == Append(gui, Found("pollError"))
  <1>4. \/ gui' = Append(gui, Found("polled"))
        \/ gui' = p
        \/ gui' = Append(p, Found("lost")) /\ polling # Manual /\ errors + 1 = FailThreshold
    <2>1. CASE Post("polled", polling)
      BY <2>1 DEF Post, Found
    <2>2. CASE ~Post("polled", polling)
      <3>1. /\ polling # Manual
            /\ gui' = gui \o <<Found("pollError")>>
                          \o IF errors + 1 = FailThreshold THEN <<Found("lost")>> ELSE <<>>
        BY <2>2 DEF PollEnds, Found
      <3>2. \A s \in {"pollError", "lost"} : Found(s) \in Signals
        BY <1>1 DEF Found, TypeOK, RigTypes, Signals
      <3> DEFINE e == Found("pollError")
                 l == Found("lost")
      <3>3. e \in Signals /\ l \in Signals
        BY <3>2
      <3> HIDE DEF e, l
      <3>4. gui \o <<e>> = Append(gui, e) /\ Append(gui, e) \in Seq(Signals)
        BY <1>1, <3>3
      <3>5. Append(gui, e) \o <<>> = Append(gui, e)
        BY <3>4
      <3>6. Append(gui, e) \o <<l>> = Append(Append(gui, e), l)
        BY <3>3, <3>4
      <3>7. QED
        BY <3>1, <3>4, <3>5, <3>6 DEF e, l
    <2>3. QED
      BY <2>1, <2>2
  <1> DEFINE Good(r) == /\ r \in Seq(Signals) /\ LossesIn(r) /\ RetiredIn(r)
                        /\ Cardinality(Ends(r)) = Cardinality(Ends(gui))
                        /\ \A a \in Attempts : /\ Reports(r, a) <=> Reports(gui, a)
                                               /\ Once(gui, a) => Once(r, a)
  <1>5. Good(Append(gui, Found("polled"))) /\ Good(p)
    BY <1>1, <1>3, PollPosts
  <1>6. ASSUME polling # Manual, errors + 1 = FailThreshold PROVE Good(Append(p, Found("lost")))
    <2>1. rig = polling
      <3>1. errors # 0
        BY <1>6, BoundsAssumption
      <3>2. QED
        BY <1>1, <1>2, <1>6, <3>1 DEF Kept, StalePoll
    <2>2. adoptable = None /\ \A a \in Attempts : Reports(gui, a) => cancel[a]
      BY <1>6, <2>1, LossPosted
    <2>3. p \in Seq(Signals) /\ LossesIn(p) /\ RetiredIn(p)
          /\ \A a \in Attempts : Reports(p, a) => cancel[a]
      BY <1>5, <2>2
    <2> HIDE DEF p
    <2>4. QED
      BY <1>1, <1>5, <2>1, <2>2, <2>3, PollPosts
  <1>7. Good(gui')
    <2> HIDE DEF Good, p
    <2>1. QED
      BY <1>4, <1>5, <1>6
  <1>8. TxCount'
    <2>1. Cardinality(Ends(gui')) = Cardinality(Ends(gui))
      BY <1>7
    <2>2. QED
      BY <1>1, <1>2, <2>1 DEF TxCount, One, StationRests
  <1>9. Owners'
    BY <1>1, <1>2, <1>7, HeldRests, OwnersSame DEF Kept, OwnersRest, StationRests, AttemptsRest
  <1>10. Losses' /\ Retired'
    <2>1. LossesIn(gui') /\ RetiredIn(gui') /\ UNCHANGED <<rig, adoptable, cancel>>
      BY <1>2, <1>7 DEF StationRests, AttemptsRest
    <2>2. QED
      BY <2>1 DEF LossesIn, RetiredIn, Losses, Retired
  <1>11. KeyedRig' /\ StalePoll'
    BY <1>1, <1>2 DEF Kept, KeyedRig, StalePoll, StationRests
  <1>12. QED
    BY <1>2, <1>8, <1>9, <1>10, <1>11, StationKeeps

-----------------------------------------------------------------------------
(* The connect threads *)

\* A step of attempt a's threads is nobody else's business.
LEMMA ThreadKeeps ==
  ASSUME RigInv, ~reentered, NEW a \in Attempts, SessionRests,
         UNCHANGED <<launching, attempt, started, cancel, connected, connecting, inFlight,
                     pollTimer, wasActive, busy, polling, errors, phase, txQueued>>,
         NEW t, t # "none", thread[a] # "none", thread' = [thread EXCEPT ![a] = t],
         gui' = gui \/ \E s \in {"succeeded", "failed", "finished"} :
                          Post(s, a) /\ (s = "finished" => cancel[a]),
         \A b \in Attempts : b # a => open'[b] = open[b] /\ (b \in closers' <=> b \in closers),
         Owner(a)'
  PROVE  TxCount' /\ Kept'
  <1>1. TypeOK /\ Kept /\ TxCount /\ gui \in Seq(Signals)
    BY DEF RigInv, IInv, TypeOK
  <1>2. \A b \in Attempts : thread'[b] = IF b = a THEN t ELSE thread[b]
    BY <1>1 DEF TypeOK, ThreadTypes
  <1>3. OneTry' /\ FreshTry'
    <2>1. \A b \in Attempts : Pursued(b)' <=> Pursued(b)
      BY <1>2 DEF Pursued
    <2>2. OneTry'
      BY <1>1, <1>2, <2>1 DEF Kept, OneTry, SessionRests
    <2>3. FreshTry'
      BY <1>1, <2>1 DEF Kept, FreshTry, Trying, SessionRests
    <2>4. QED
      BY <2>2, <2>3
  <1>4. Deferrals' /\ KeyedRig' /\ Nested' /\ Panel'
    BY <1>1 DEF Kept, Deferrals, KeyedRig, Nested, Panel, Adopting, SessionRests
  <1>5. StalePoll'
    BY <1>1, StaleRests DEF Kept, SessionRests
  <1>6. CASE gui' = gui
    <2>1. Owners'
      <3> SUFFICES ASSUME NEW b \in Attempts, b # a PROVE Owner(b)'
        BY DEF Owners
      <3>1. Owner(b) /\ (Held(b)' <=> Held(b)) /\ thread'[b] = thread[b]
        BY <1>1, <1>2, HeldRests DEF Kept, Owners
      <3>2. QED
        BY <1>6, <3>1 DEF Owner
    <2>2. TxCount' /\ Losses' /\ Retired'
      BY <1>1, <1>6, CountRests, QueueRests DEF Kept, SessionRests
    <2>3. QED
      BY <1>3, <1>4, <1>5, <2>1, <2>2 DEF Kept
  <1>7. ASSUME NEW s \in {"succeeded", "failed", "finished"}, Post(s, a), s = "finished" => cancel[a]
        PROVE  TxCount' /\ Kept'
    <2> DEFINE m == [sig |-> s, of |-> a]
    <2>1. gui' = Append(gui, m) /\ m \in Signals /\ m.sig = s /\ m.of = a
      BY <1>7 DEF Post, Signals
    <2>2. \A b \in Attempts : b # a => m # Succeeded(b)
      BY DEF Succeeded
    <2> HIDE DEF m
    <2>3. TxCount'
      <3>1. Cardinality(Ends(gui')) = Cardinality(Ends(gui)) + One(m.sig = "txFinished")
        BY <1>1, <2>1, AppendedEnds
      <3>2. Cardinality(Ends(gui)) \in Nat /\ m.sig # "txFinished"
        BY <1>1, <2>1, EndsFinite
      <3>3. QED
        BY <1>1, <3>1, <3>2 DEF TxCount, One
    <2>4. Owners'
      <3> SUFFICES ASSUME NEW b \in Attempts, b # a PROVE Owner(b)'
        BY DEF Owners
      <3>1. Owner(b) /\ (Held(b)' <=> Held(b)) /\ thread'[b] = thread[b]
        BY <1>1, <1>2, HeldRests DEF Kept, Owners
      <3>2. (Reports(gui', b) <=> Reports(gui, b)) /\ (Once(gui, b) => Once(gui', b))
        BY <1>1, <2>1, <2>2, ReportsAppended
      <3>3. QED
        BY <3>1, <3>2 DEF Owner
    <2>5. Losses' /\ Retired'
      BY <1>1, <1>7, <2>1, QueuePosted DEF Kept, SessionRests
    <2>6. QED
      BY <1>3, <1>4, <1>5, <2>3, <2>4, <2>5 DEF Kept
  <1>8. QED
    BY <1>6, <1>7

\* What a connect thread leaves alone.
ThreadRests == /\ SessionRests
               /\ UNCHANGED <<launching, attempt, started, cancel, connected, connecting, inFlight,
                              pollTimer, wasActive, busy, polling, errors, phase, txQueued>>

LEMMA OpensKeeps ==
  ASSUME RigInv, ~reentered, NEW a \in Attempts, Opens(a)
  PROVE  TxCount' /\ Kept'
  <1>1. TypeOK /\ Owner(a) /\ gui \in Seq(Signals)
    BY DEF RigInv, IInv, TypeOK, Kept, Owners
  <1>2. /\ ThreadRests /\ closers' = closers /\ thread[a] = "opening"
        /\ \/ thread' = [thread EXCEPT ![a] = "opened"] /\ open' = [open EXCEPT ![a] = TRUE] /\ gui' = gui
           \/ thread' = [thread EXCEPT ![a] = "ran"] /\ open' = open /\ (gui' = gui \/ Post("failed", a))
    BY DEF Opens, panelVars, attemptVars, ownerVars, timerVars, pollVars, workerVars,
           ThreadRests, SessionRests
  <1>3. ~Held(a) /\ a \notin closers /\ ~Reports(gui, a) /\ ~open[a] /\ ~Held(a)' /\ Once(gui, a)
    BY <1>1, <1>2, HeldRests DEF Owner, ThreadRests
  <1>4. ~Reports(gui', a) /\ Once(gui', a)
    <2>1. CASE gui' = gui
      BY <1>3, <2>1
    <2>2. CASE Post("failed", a)
      <3> DEFINE m == [sig |-> "failed", of |-> a]
      <3>1. gui' = Append(gui, m) /\ m \in Signals /\ m # Succeeded(a)
        BY <2>2 DEF Post, Signals, Succeeded
      <3> HIDE DEF m
      <3>2. QED
        BY <1>1, <1>3, <3>1, ReportsAppended
    <2>3. QED
      BY <1>2, <2>1, <2>2
  <1>5. CASE thread' = [thread EXCEPT ![a] = "opened"] /\ open' = [open EXCEPT ![a] = TRUE] /\ gui' = gui
    <2>1. Owner(a)'
      BY <1>1, <1>2, <1>3, <1>4, <1>5 DEF Owner, TypeOK, ThreadTypes
    <2>2. \A b \in Attempts : b # a => open'[b] = open[b]
      BY <1>1, <1>5 DEF TypeOK, ThreadTypes
    <2>3. QED
      BY <1>2, <1>5, <2>1, <2>2, ThreadKeeps DEF ThreadRests
  <1>6. CASE thread' = [thread EXCEPT ![a] = "ran"] /\ open' = open /\ (gui' = gui \/ Post("failed", a))
    <2>1. Owner(a)'
      BY <1>1, <1>2, <1>3, <1>4, <1>6 DEF Owner, TypeOK, ThreadTypes
    <2>2. QED
      BY <1>2, <1>6, <2>1, ThreadKeeps DEF ThreadRests
  <1>7. QED
    BY <1>2, <1>5, <1>6

LEMMA ResolvesKeeps ==
  ASSUME RigInv, ~reentered, NEW a \in Attempts, Resolves(a)
  PROVE  TxCount' /\ Kept'
  <1>1. TypeOK /\ Owner(a) /\ gui \in Seq(Signals)
    BY DEF RigInv, IInv, TypeOK, Kept, Owners
  <1>2. /\ ThreadRests /\ closers' = closers /\ thread[a] = "opened"
        /\ thread' = [thread EXCEPT ![a] = "ran"]
        /\ \/ open' = [open EXCEPT ![a] = FALSE] /\ (gui' = gui \/ Post("failed", a))
           \/ open' = open /\ Post("succeeded", a)
    BY DEF Resolves, panelVars, attemptVars, ownerVars, timerVars, pollVars, workerVars,
           ThreadRests, SessionRests
  <1>3. ~Held(a) /\ a \notin closers /\ ~Reports(gui, a) /\ open[a] /\ ~Held(a)' /\ Once(gui, a)
    BY <1>1, <1>2, HeldRests DEF Owner, ThreadRests
  <1>4. thread'[a] = "ran" /\ \A b \in Attempts : b # a => open'[b] = open[b]
    BY <1>1, <1>2 DEF TypeOK, ThreadTypes
  <1>5. CASE open' = [open EXCEPT ![a] = FALSE] /\ (gui' = gui \/ Post("failed", a))
    <2>1. ~Reports(gui', a) /\ Once(gui', a)
      <3>1. CASE gui' = gui
        BY <1>3, <3>1
      <3>2. CASE Post("failed", a)
        <4> DEFINE m == [sig |-> "failed", of |-> a]
        <4>1. gui' = Append(gui, m) /\ m \in Signals /\ m # Succeeded(a)
          BY <3>2 DEF Post, Signals, Succeeded
        <4> HIDE DEF m
        <4>2. QED
          BY <1>1, <1>3, <4>1, ReportsAppended
      <3>3. QED
        BY <1>5, <3>1, <3>2
    <2>2. Owner(a)'
      BY <1>1, <1>2, <1>3, <1>4, <1>5, <2>1 DEF Owner, TypeOK, ThreadTypes
    <2>3. QED
      BY <1>2, <1>4, <1>5, <2>2, ThreadKeeps DEF ThreadRests
  <1>6. CASE open' = open /\ Post("succeeded", a)
    <2>1. Reports(gui', a) /\ Once(gui', a)
      <3> DEFINE m == [sig |-> "succeeded", of |-> a]
      <3>1. gui' = Append(gui, m) /\ m \in Signals /\ m = Succeeded(a)
        BY <1>6 DEF Post, Signals, Succeeded
      <3> HIDE DEF m
      <3>2. QED
        BY <1>1, <1>3, <3>1, ReportsAppended
    <2>2. Owner(a)'
      BY <1>2, <1>3, <1>4, <1>6, <2>1 DEF Owner
    <2>3. QED
      BY <1>2, <1>4, <1>6, <2>2, ThreadKeeps DEF ThreadRests
  <1>7. QED
    BY <1>2, <1>5, <1>6

LEMMA ExitsKeeps ==
  ASSUME RigInv, ~reentered, NEW a \in Attempts, ThreadExits(a)
  PROVE  TxCount' /\ Kept'
  <1>1. TypeOK /\ Owner(a) /\ gui \in Seq(Signals)
    BY DEF RigInv, IInv, TypeOK, Kept, Owners
  <1>2. /\ ThreadRests /\ closers' = closers /\ open' = open /\ thread[a] = "ran" /\ cancel[a]
        /\ thread' = [thread EXCEPT ![a] = "exited"] /\ Post("finished", a)
    BY DEF ThreadExits, panelVars, attemptVars, ownerVars, timerVars, pollVars, workerVars,
           ThreadRests, SessionRests
  <1>3. (Held(a)' <=> Held(a)) /\ thread'[a] = "exited"
    BY <1>1, <1>2, HeldRests DEF ThreadRests, TypeOK, ThreadTypes
  <1>4. (Reports(gui', a) <=> Reports(gui, a)) /\ (Once(gui, a) => Once(gui', a))
    <2> DEFINE m == [sig |-> "finished", of |-> a]
    <2>1. gui' = Append(gui, m) /\ m \in Signals /\ m # Succeeded(a)
      BY <1>2 DEF Post, Signals, Succeeded
    <2> HIDE DEF m
    <2>2. QED
      BY <1>1, <2>1, ReportsAppended
  <1>5. Owner(a)'
    BY <1>1, <1>2, <1>3, <1>4 DEF Owner
  <1>6. QED
    BY <1>2, <1>5, ThreadKeeps DEF ThreadRests

LEMMA LateCloseKeeps ==
  ASSUME RigInv, ~reentered, NEW a \in Attempts, LateClose(a)
  PROVE  TxCount' /\ Kept'
  <1>1. TypeOK /\ Owner(a)
    BY DEF RigInv, IInv, TypeOK, Kept, Owners
  <1>2. /\ ThreadRests /\ closers' = closers \ {a} /\ a \in closers /\ thread' = thread /\ gui' = gui
        /\ open' = [open EXCEPT ![a] = FALSE]
    BY DEF LateClose, panelVars, attemptVars, ownerVars, timerVars, threadVars, pollVars, workerVars,
           ThreadRests, SessionRests
  <1>3. /\ ~Held(a) /\ ~Held(a)' /\ ~Reports(gui, a) /\ Once(gui, a)
        /\ thread[a] \notin {"none", "opened"}
    BY <1>1, <1>2, HeldRests DEF Owner, ThreadRests
  <1>4. Owner(a)'
    BY <1>1, <1>2, <1>3 DEF Owner, TypeOK, ThreadTypes
  <1>5. thread' = [thread EXCEPT ![a] = thread[a]]
    BY <1>1, <1>2 DEF TypeOK, ThreadTypes
  <1>6. \A b \in Attempts : b # a => open'[b] = open[b] /\ (b \in closers' <=> b \in closers)
    BY <1>1, <1>2 DEF TypeOK, ThreadTypes
  <1>7. QED
    BY <1>2, <1>3, <1>4, <1>5, <1>6, ThreadKeeps DEF ThreadRests

-----------------------------------------------------------------------------
(* The operator's clicks *)

\* Between transmissions the worker is idle and no end is waiting.
LEMMA Resting ==
  ASSUME RigInv, ~reentered, inFlight = 0
  PROVE  txQueued = 0 /\ phase = "idle" /\ Cardinality(Ends(gui)) = 0
  <1>1. txQueued \in Nat /\ Cardinality(Ends(gui)) \in Nat /\ TxCount
    BY EndsFinite DEF RigInv, IInv, TypeOK, CountTypes
  <1>2. QED
    BY <1>1 DEF TxCount, One

\* With no rig, no handler waiting and nothing keyed, attempts come and go.
LEMMA TryKeeps ==
  ASSUME RigInv, ~reentered, frames = <<>>, rig = Manual, txRig = None, teardown = None,
         adoptable = None, OwnersRest, ~connected', Cancels, OneTry',
         UNCHANGED <<gui, inFlight, wasActive, pollTimer, phase, txQueued, busy, polling, errors>>,
         \A a \in Attempts : thread'[a] = thread[a] \/ (thread[a] = "none" /\ thread'[a] = "opening")
  PROVE  TxCount' /\ Kept'
  <1>1. TypeOK /\ Kept /\ TxCount
    BY DEF RigInv, IInv
  <1>2. FreshTry'
    BY DEF FreshTry, OwnersRest, SessionRests
  <1>3. Deferrals' /\ KeyedRig' /\ Nested' /\ Panel'
    BY <1>1 DEF Kept, Deferrals, KeyedRig, Nested, Panel, Adopting, OwnersRest, SessionRests
  <1>4. Owners'
    <2> SUFFICES ASSUME NEW a \in Attempts PROVE Owner(a)'
      BY DEF Owners
    <2>1. Owner(a) /\ (Held(a)' <=> Held(a))
      BY <1>1, HeldRests DEF Kept, Owners, OwnersRest
    <2>2. QED
      BY <2>1 DEF Owner, OwnersRest
  <1>5. TxCount' /\ StalePoll'
    BY <1>1, CountRests, StaleRests DEF Kept, OwnersRest, SessionRests
  <1>6. Losses' /\ Retired'
    BY <1>1, LossesSame, RetiredSame DEF Kept, OwnersRest, SessionRests
  <1>7. QED
    BY <1>2, <1>3, <1>4, <1>5, <1>6 DEF Kept

\* The new attempt is the only one, under a number no thread had.
LEMMA StartTry ==
  ASSUME RigInv, ~reentered, NEW isTci, StartAttempt(isTci), adoptable = None, adoptable' = None,
         ~launching', cancel' = cancel, \A a \in Attempts : ~Pursued(a)
  PROVE  /\ OneTry'
         /\ \A a \in Attempts : thread'[a] = thread[a] \/ (thread[a] = "none" /\ thread'[a] = "opening")
  <1>1. TypeOK /\ OneTry
    BY DEF RigInv, IInv, Kept
  <1> DEFINE n == started + 1
  <1>2. n \in Attempts /\ started \in Nat /\ MaxAttempts \in Nat
    BY <1>1, BoundsAssumption DEF StartAttempt, TypeOK, CountTypes, Attempts
  <1>3. thread[n] = "none"
    BY <1>1, <1>2 DEF OneTry
  <1>4. /\ started' = n /\ attempt' = n
        /\ \A a \in Attempts : thread'[a] = IF a = n THEN "opening" ELSE thread[a]
    BY <1>1, <1>2 DEF StartAttempt, TypeOK, ThreadTypes
  <1>5. \A a \in Attempts : Pursued(a)' => a = n
    BY <1>4 DEF Pursued
  <1>6. \A a \in Attempts : a > n => thread'[a] = "none"
    BY <1>1, <1>2, <1>4 DEF OneTry, Attempts
  <1>7. OneTry'
    BY <1>2, <1>4, <1>5, <1>6 DEF OneTry
  <1>8. QED
    BY <1>3, <1>4, <1>7

\* Connect can be clicked only while nothing is tried and no rig is there.
LEMMA Clickable ==
  ASSUME RigInv, ~reentered, ButtonEnabled, ~connected, ~InProgress, frames = <<>>
  PROVE  /\ rig = Manual /\ txRig = None /\ teardown = None /\ adoptable = None /\ ~launching
         /\ \A a \in Attempts : ~Pursued(a)
  <1>1. TypeOK /\ Kept
    BY DEF RigInv, IInv
  <1>2. adoptable = None /\ ~launching /\ (attempt = None \/ cancel[attempt])
    BY DEF InProgress
  <1>3. \A a \in Attempts : ~Pursued(a)
    BY <1>1, <1>2 DEF Kept, OneTry, Pursued, Attempts, None
  <1>4. rig = Manual
    BY <1>1 DEF Kept, Panel, Adopting
  <1>5. txRig = None /\ teardown = None
    BY <1>1, Resting DEF ButtonEnabled, Kept, KeyedRig, Deferrals
  <1>6. QED
    BY <1>2, <1>3, <1>4, <1>5

LEMMA ConnectKeeps ==
  ASSUME RigInv, ~reentered, NEW isTci, ClickConnect(isTci), ~reentered'
  PROVE  TxCount' /\ Kept'
  <1>1. frames = <<>> /\ ButtonEnabled /\ ~connected /\ ~InProgress
    BY DEF ClickConnect, Reenter
  <1>2. /\ rig = Manual /\ txRig = None /\ teardown = None /\ adoptable = None /\ ~launching
        /\ \A a \in Attempts : ~Pursued(a)
    BY <1>1, Clickable
  <1>3. /\ OwnersRest /\ connected' = connected /\ launching' = launching /\ cancel' = cancel
        /\ UNCHANGED <<gui, inFlight, wasActive, pollTimer, phase, txQueued, busy, polling, errors>>
        /\ StartAttempt(isTci)
    BY DEF ClickConnect, ownerVars, timerVars, pollVars, workerVars, OwnersRest, SessionRests
  <1>4. adoptable' = None /\ ~launching' /\ ~connected'
    BY <1>1, <1>2, <1>3 DEF OwnersRest, SessionRests
  <1>5. QED
    BY <1>1, <1>2, <1>3, <1>4, StartTry, TryKeeps DEF Cancels

LEMMA LaunchedKeeps ==
  ASSUME RigInv, ~reentered, RigctldLaunched
  PROVE  TxCount' /\ Kept'
  <1>1. TypeOK /\ Kept /\ launching
    BY DEF RigInv, IInv, RigctldLaunched
  <1>2. /\ rig = Manual /\ txRig = None /\ teardown = None /\ frames = <<>> /\ adoptable = None
        /\ \A a \in Attempts : ~Pursued(a)
    BY <1>1 DEF Kept, FreshTry, Trying, OneTry
  <1>3. /\ OwnersRest /\ connected' = connected /\ ~launching' /\ cancel' = cancel
        /\ UNCHANGED <<gui, inFlight, wasActive, pollTimer, phase, txQueued, busy, polling, errors>>
        /\ StartAttempt(FALSE)
    BY DEF RigctldLaunched, ownerVars, timerVars, pollVars, workerVars, OwnersRest, SessionRests
  <1>4. adoptable' = None /\ ~connected'
    BY <1>1, <1>2, <1>3 DEF OwnersRest, SessionRests, Kept, Panel, Adopting
  <1>5. QED
    BY <1>2, <1>3, <1>4, StartTry, TryKeeps DEF Cancels

LEMMA ConnectRigctldKeeps ==
  ASSUME RigInv, ~reentered, ClickConnectRigctld, ~reentered'
  PROVE  TxCount' /\ Kept'
  <1>1. frames = <<>> /\ ButtonEnabled /\ ~connected /\ ~InProgress
    BY DEF ClickConnectRigctld, Reenter
  <1>2. /\ rig = Manual /\ txRig = None /\ teardown = None /\ adoptable = None
        /\ \A a \in Attempts : ~Pursued(a)
    BY <1>1, Clickable
  <1>3. /\ OwnersRest /\ UNCHANGED <<connected, cancel, thread, started, attempt>>
        /\ UNCHANGED <<gui, inFlight, wasActive, pollTimer, phase, txQueued, busy, polling, errors>>
    BY DEF ClickConnectRigctld, ownerVars, timerVars, threadVars, pollVars, workerVars,
           OwnersRest, SessionRests
  <1>4. OneTry'
    BY <1>2, <1>3 DEF RigInv, Kept, OneTry, Pursued, OwnersRest, SessionRests
  <1>5. QED
    BY <1>1, <1>2, <1>3, <1>4, TryKeeps DEF Cancels

LEMMA CancelKeeps ==
  ASSUME RigInv, ~reentered, ClickCancel, ~reentered'
  PROVE  TxCount' /\ Kept'
  <1>1. TypeOK /\ Kept
    BY DEF RigInv, IInv
  <1>2. frames = <<>> /\ inFlight = 0 /\ connecting
    BY DEF ClickCancel, Reenter, ButtonEnabled
  <1>3. rig = Manual /\ txRig = None /\ teardown = None /\ adoptable = None
    BY <1>1, <1>2, Resting DEF Kept, KeyedRig, Deferrals, Panel, Adopting
  <1>4. open' = open
    <2>1. open' = [a \in Attempts |-> open[a] /\ a # adoptable]
      BY DEF ClickCancel
    <2>2. \A a \in Attempts : open[a] \in BOOLEAN /\ a # adoptable
      BY <1>1, <1>3 DEF TypeOK, ThreadTypes, Attempts, None
    <2>3. \A a \in Attempts : (open[a] /\ a # adoptable) = open[a]
      BY <2>2
    <2>4. open = [a \in Attempts |-> open[a]]
      BY <1>1 DEF TypeOK, ThreadTypes
    <2>5. QED
      BY <2>1, <2>3, <2>4
  <1>5. /\ OwnersRest /\ ~connected' /\ ~launching' /\ attempt' = None /\ adoptable' = None
        /\ UNCHANGED <<thread, started>>
        /\ UNCHANGED <<gui, inFlight, wasActive, pollTimer, phase, txQueued, busy, polling, errors>>
        /\ cancel' = IF attempt = None THEN cancel ELSE [cancel EXCEPT ![attempt] = TRUE]
    BY <1>3, <1>4 DEF ClickCancel, timerVars, pollVars, workerVars, OwnersRest, SessionRests
  <1>6. Cancels /\ \A a \in Attempts : a = attempt => cancel'[a]
    BY <1>1, <1>5 DEF Cancels, TypeOK, ThreadTypes, Attempts, None
  <1>7. OneTry'
    <2>1. \A a \in Attempts : ~Pursued(a)'
      BY <1>1, <1>5, <1>6 DEF Kept, OneTry, Pursued, Cancels
    <2>2. QED
      BY <1>1, <1>5, <2>1 DEF Kept, OneTry, None, TypeOK, CountTypes
  <1>8. QED
    BY <1>2, <1>3, <1>5, <1>6, <1>7, TryKeeps

-----------------------------------------------------------------------------
(* The session begins and ends *)

\* Nobody reports a success other than the one that is handled.
LEMMA SuccessTaken ==
  ASSUME TypeOK, Take("succeeded"), NEW a, a = Head(gui).of
  PROVE  /\ a \in Attempts /\ Reports(gui, a) /\ gui[1] = Succeeded(a) /\ 1 \in DOMAIN gui
         /\ Once(gui, a) => ~Reports(gui', a)
         /\ \A b \in Attempts : /\ b # a => (Reports(gui', b) <=> Reports(gui, b))
                                /\ Once(gui, b) => Once(gui', b)
  <1>1. /\ gui \in Seq(Signals) /\ gui # <<>> /\ gui' = Tail(gui)
        /\ Head(gui) \in Signals /\ Head(gui).sig = "succeeded"
        /\ Head(gui) = gui[1] /\ 1 \in DOMAIN gui
    BY Taken DEF TypeOK, Take
  <1>2. Head(gui) = Succeeded(a) /\ a \in Attempts
    BY <1>1 DEF Signals, Succeeded
  <1>3. \A b : b # a => Head(gui) # Succeeded(b)
    BY <1>2 DEF Succeeded
  <1>4. QED
    BY <1>1, <1>2, <1>3, ReportsTaken

\* A rig taken over is the session's alone.
LEMMA AdoptHeld ==
  ASSUME NEW a \in Attempts, NEW p, Adopt(a, p), frames = <<>>,
         adoptable' = None, teardown' = None, txRig' = None
  PROVE  /\ \A b \in Attempts : Held(b)' <=> b = a
         /\ rig' = a /\ a # Manual /\ a # None /\ errors' = 0
         /\ \/ frames' = <<>> /\ connected' /\ ~connecting' /\ pollTimer'
            \/ frames' = <<[handler |-> "adopt", of |-> a]>>
  BY DEF Adopt, SetRig, Held, Attempts, Manual, None

LEMMA AdoptKeeps ==
  ASSUME Kept, NEW a \in Attempts, NEW p, Adopt(a, p), frames = <<>>,
         adoptable' = None, teardown' = None, txRig' = None, ~launching',
         UNCHANGED <<attempt, started, thread>>, \A b \in Attempts : ~Pursued(b)',
         inFlight' = 0 => ~wasActive',
         \A i \in DOMAIN gui' : gui'[i].sig # "lost", Owners', Retired'
  PROVE  Kept'
  <1>1. /\ rig' = a /\ a # Manual /\ a # None /\ errors' = 0
        /\ \/ frames' = <<>> /\ connected' /\ ~connecting' /\ pollTimer'
           \/ frames' = <<[handler |-> "adopt", of |-> a]>>
    BY AdoptHeld
  <1>2. OneTry' /\ FreshTry'
    BY DEF Kept, OneTry, FreshTry, Trying
  <1>3. Deferrals' /\ KeyedRig' /\ StalePoll' /\ Losses'
    BY <1>1 DEF Deferrals, KeyedRig, StalePoll, Losses, LossesIn
  <1>4. CASE frames' = <<>> /\ connected' /\ ~connecting' /\ pollTimer'
    <2>1. Nested' /\ Panel'
      BY <1>1, <1>4 DEF Nested, Panel, Adopting
    <2>2. QED
      BY <1>2, <1>3, <2>1 DEF Kept
  <1>5. CASE frames' = <<[handler |-> "adopt", of |-> a]>>
    <2>1. Adopting' /\ frames'[1].of = a /\ Len(frames') = 1
      BY <1>5 DEF Adopting
    <2>2. Nested'
      BY <1>1, <2>1 DEF Nested
    <2>3. Panel'
      BY <2>1 DEF Panel
    <2>4. QED
      BY <1>2, <1>3, <2>2, <2>3 DEF Kept
  <1>6. QED
    BY <1>1, <1>4, <1>5

\* A rig let go is closed, or left to the end of the transmission it keys.
LEMMA ReleaseOwners ==
  ASSUME TypeOK, Owners, NEW old \in Attempts, \A a \in Attempts : Held(a) <=> a = old,
         Release(old), teardown = None, txRig \in {None, old}, phase = "idle" => txRig = None,
         rig' = Manual, adoptable' = None, frames' = <<>>, UNCHANGED <<closers, thread, txRig>>,
         \A a \in Attempts : /\ Reports(gui', a) <=> Reports(gui, a)
                             /\ Once(gui, a) => Once(gui', a)
  PROVE  Owners'
  <1> SUFFICES ASSUME NEW a \in Attempts PROVE Owner(a)'
    BY DEF Owners
  <1>1. Owner(a)
    BY DEF Owners
  <1>2. CASE phase = "idle"
    <2>1. ~Held(a)'
      BY <1>2 DEF Held, Release, Idle, Attempts, Manual, None
    <2>2. open'[a] = (open[a] /\ a # old)
      BY <1>2 DEF Release, Idle
    <2>3. QED
      BY <1>1, <2>1, <2>2 DEF Owner
  <1>3. CASE phase # "idle"
    <2>1. Held(a)' <=> Held(a)
      BY <1>3 DEF Held, Release, Idle, Attempts, Manual, None
    <2>2. open' = open
      BY <1>3 DEF Release, Idle
    <2>3. QED
      BY <1>1, <2>1, <2>2 DEF Owner
  <1>4. QED
    BY <1>2, <1>3

\* While the worker is at it a transmission is in flight.
LEMMA WorkingInFlight ==
  ASSUME RigInv, ~reentered, phase # "idle"
  PROVE  inFlight # 0
  BY Resting

\* With a rig in the session it is all the session has.
LEMMA SessionHas ==
  ASSUME RigInv, ~reentered, rig # Manual, frames = <<>>
  PROVE  /\ adoptable = None /\ teardown = None /\ txRig \in {None, rig} /\ ~launching
         /\ rig \in Attempts /\ \A a \in Attempts : (Held(a) <=> a = rig) /\ ~Pursued(a)
  <1>1. TypeOK /\ Kept
    BY DEF RigInv, IInv
  <1>2. adoptable = None /\ ~launching /\ \A a \in Attempts : ~Pursued(a)
    BY <1>1 DEF Kept, FreshTry, Trying
  <1>3. teardown = None /\ txRig \in {None, rig}
    BY <1>1 DEF Kept, Deferrals, KeyedRig
  <1>4. rig \in Attempts
    BY <1>1 DEF TypeOK, RigTypes, Rigs, Attempts, Manual
  <1>5. \A a \in Attempts : Held(a) <=> a = rig
    BY <1>2, <1>3, <1>4 DEF Held, Attempts, None
  <1>6. QED
    BY <1>2, <1>3, <1>4, <1>5

LEMMA DisconnectKeeps ==
  ASSUME RigInv, ~reentered, Disconnect, ~reentered', rig # Manual,
         gui' = gui \/ Take("lost")
  PROVE  TxCount' /\ Kept'
  <1>1. TypeOK /\ Kept /\ TxCount
    BY DEF RigInv, IInv
  <1>2. frames = <<>>
    BY DEF Disconnect, Reenter
  <1>3. /\ adoptable = None /\ teardown = None /\ txRig \in {None, rig} /\ ~launching
        /\ rig \in Attempts /\ \A a \in Attempts : (Held(a) <=> a = rig) /\ ~Pursued(a)
    BY <1>2, SessionHas
  <1>4. /\ rig' = Manual /\ errors' = 0 /\ ~connected' /\ ~connecting' /\ ~pollTimer'
        /\ UNCHANGED <<attempt, launching, adoptable, inFlight, wasActive, started, thread, cancel,
                       closers, phase, txQueued, txRig>>
    BY DEF Disconnect, SetRig, attemptVars, threadVars, workerVars
  <1>5. \A a \in Attempts : /\ Reports(gui', a) <=> Reports(gui, a)
                            /\ Once(gui, a) => Once(gui', a)
    BY <1>1, OthersTaken
  <1>6. OneTry' /\ FreshTry'
    <2>1. \A a \in Attempts : ~Pursued(a)'
      BY <1>3, <1>4 DEF Pursued
    <2>2. ~Trying'
      BY <1>3, <1>4, <2>1 DEF Trying
    <2>3. QED
      BY <1>1, <1>3, <1>4, <2>1, <2>2 DEF Kept, OneTry, FreshTry
  <1>7. TxCount' /\ StalePoll'
    BY <1>1, <1>4, CountRests, CountTaken DEF StalePoll
  <1>8. Losses' /\ Retired'
    <2>1. gui' = gui \/ (gui # <<>> /\ gui' = Tail(gui))
      BY DEF Take
    <2>2. QED
      BY <1>1, <1>4, <2>1, LossesSame, LossesTaken, RetiredSame, RetiredTaken
      DEF Kept, TypeOK, Cancels
  <1>9. Panel'
    BY <1>4 DEF Panel
  <1>10. phase = "idle" => txRig = None
    BY <1>1 DEF Kept, KeyedRig
  <1>11. CASE audio = None
    <2>1. Release(rig) /\ frames' = <<>>
      BY <1>2, <1>11 DEF Disconnect
    <2>2. Owners'
      BY <1>1, <1>3, <1>4, <1>5, <1>10, <2>1, ReleaseOwners DEF Kept
    <2>3. Deferrals' /\ Nested'
      <3>1. teardown' # None => inFlight' # 0
        BY <1>3, <1>4, <2>1, WorkingInFlight DEF Release, Idle
      <3>2. QED
        BY <1>1, <1>3, <1>4, <2>1, <3>1 DEF Kept, Deferrals, Nested
    <2>4. KeyedRig'
      BY <1>1, <1>3, <1>4, <2>1 DEF Kept, KeyedRig, Release, Idle
    <2>5. QED
      BY <1>6, <1>7, <1>8, <1>9, <2>2, <2>3, <2>4 DEF Kept
  <1>12. CASE audio # None
    <2>1. /\ frames' = <<[handler |-> "disconnect", of |-> rig]>>
          /\ UNCHANGED <<teardown, open>>
      BY <1>2, <1>12 DEF Disconnect
    <2>2. \A a \in Attempts : Held(a)' <=> Held(a)
      BY <1>3, <1>4, <2>1 DEF Held, Attempts, Manual, None
    <2>3. Owners'
      BY <1>1, <1>4, <1>5, <2>1, <2>2, OwnersSame DEF Kept
    <2>4. Deferrals' /\ KeyedRig'
      BY <1>1, <1>3, <1>4, <2>1 DEF Kept, Deferrals, KeyedRig
    <2>5. Nested'
      BY <1>3, <1>4, <2>1 DEF Nested, Adopting, Attempts, None
    <2>6. QED
      BY <1>6, <1>7, <1>8, <1>9, <2>3, <2>4, <2>5 DEF Kept
  <1>13. QED
    BY <1>11, <1>12

LEMMA ClickDisconnectKeeps ==
  ASSUME RigInv, ~reentered, ClickDisconnect, ~reentered'
  PROVE  TxCount' /\ Kept'
  <1>1. Disconnect /\ gui' = gui /\ connected /\ frames = <<>>
    BY DEF ClickDisconnect, Disconnect, Reenter
  <1>2. rig # Manual
    BY <1>1 DEF RigInv, Kept, Panel, Adopting
  <1>3. QED
    BY <1>1, <1>2, DisconnectKeeps

LEMMA LostKeeps ==
  ASSUME RigInv, ~reentered, OnLost, ~reentered'
  PROVE  TxCount' /\ Kept'
  <1>1. Take("lost")
    BY DEF OnLost
  <1>2. CASE rig = Manual
    BY <1>2, ReportsKeep
  <1>3. CASE rig # Manual
    BY <1>1, <1>3, DisconnectKeeps DEF OnLost
  <1>4. QED
    BY <1>2, <1>3

\* A nested wait is over: the rig is the session's, or let go.
LEMMA FrameKeeps ==
  ASSUME RigInv, ~reentered, FrameEnds
  PROVE  TxCount' /\ Kept'
  <1>1. TypeOK /\ Kept /\ TxCount /\ Nested
    BY DEF RigInv, IInv, Kept
  <1> DEFINE f == frames[1]
  <1>2. /\ frames # <<>> /\ Len(frames) = 1 /\ f.of # None /\ frames' = <<>>
        /\ f \in Frames
    <2>1. frames \in Seq(Frames) /\ frames # <<>> /\ Len(frames) <= 1
      BY <1>1 DEF FrameEnds, TypeOK, Nested
    <2>2. Len(frames) = 1
      <3> DEFINE n == Len(frames)
      <3>1. n \in Nat /\ n # 0 /\ n <= 1
        BY <2>1, EmptySeq
      <3> HIDE DEF n
      <3>2. n = 1
        BY <3>1
      <3>3. QED
        BY <3>2 DEF n
    <2>3. frames' = SubSeq(frames, 1, 0)
      BY <2>2 DEF FrameEnds
    <2>4. frames' = <<>>
      BY <2>1, <2>3
    <2>5. f \in Frames
      BY <2>1, <2>2
    <2>6. QED
      BY <1>1, <2>1, <2>2, <2>4, <2>5 DEF Nested
  <1>3. f.of \in Attempts
    BY <1>2 DEF Frames, Rigs, Attempts, None
  <1>4. /\ UNCHANGED <<gui, rig, attempt, launching, adoptable, inFlight, wasActive, started, thread,
                       cancel, closers, phase, txQueued, txRig, busy, polling, errors>>
        /\ \/ /\ f.handler = "adopt" /\ connected' /\ ~connecting' /\ pollTimer'
              /\ UNCHANGED <<teardown, open>>
           \/ /\ f.handler = "disconnect" /\ Release(f.of)
              /\ UNCHANGED <<connected, connecting, pollTimer>>
    BY <1>2 DEF FrameEnds, panelVars, attemptVars, threadVars, pollVars, workerVars
  <1>5. rig = IF f.handler = "adopt" THEN f.of ELSE Manual
    BY <1>1, <1>2 DEF Nested, Adopting
  <1>6. ~Trying /\ teardown = None /\ adoptable = None
    BY <1>1, <1>2 DEF Kept, FreshTry, Deferrals, Trying
  <1>7. txRig \in {None, f.of}
    BY <1>1, <1>2, <1>5, <1>6 DEF Kept, KeyedRig, Manual, None
  <1> HIDE DEF f
  <1>8. OneTry' /\ FreshTry'
    <2>1. \A a \in Attempts : ~Pursued(a)'
      BY <1>4, <1>6 DEF Trying, Pursued
    <2>2. QED
      BY <1>1, <1>4, <1>6, <2>1 DEF Kept, OneTry, FreshTry, Trying
  <1>9. TxCount' /\ StalePoll' /\ Losses' /\ Retired'
    BY <1>1, <1>4, CountRests, StaleRests, QueueRests DEF Kept
  <1>10. CASE f.handler = "adopt"
    <2>1. /\ rig' = f.of /\ rig' # Manual /\ connected' /\ ~connecting' /\ pollTimer'
          /\ UNCHANGED <<teardown, open>>
      BY <1>2, <1>4, <1>5, <1>10 DEF Manual, None
    <2>2. \A a \in Attempts : Held(a)' <=> Held(a)
      BY <1>2, <1>4, <1>5, <1>10, <2>1 DEF Held, f
    <2>3. Owners'
      BY <1>1, <1>4, <2>1, <2>2, OwnersSame DEF Kept
    <2>4. Deferrals' /\ KeyedRig' /\ Nested' /\ Panel'
      BY <1>1, <1>2, <1>4, <1>5, <1>6, <1>7, <1>10, <2>1 DEF Kept, Deferrals, KeyedRig, Nested, Panel
    <2>5. QED
      BY <1>8, <1>9, <2>3, <2>4 DEF Kept
  <1>11. CASE f.handler = "disconnect"
    <2>1. Release(f.of) /\ UNCHANGED <<connected, connecting, pollTimer>> /\ rig = Manual
      BY <1>4, <1>5, <1>11
    <2>2. \A a \in Attempts : Held(a) <=> a = f.of
      BY <1>2, <1>6, <1>7, <2>1 DEF Held, Attempts, Manual, None, f
    <2>3. phase = "idle" => txRig = None
      BY <1>1 DEF Kept, KeyedRig
    <2>4. rig' = Manual /\ adoptable' = None
      BY <1>4, <1>6, <2>1
    <2>5. Owners'
      BY <1>1, <1>2, <1>3, <1>4, <1>6, <1>7, <2>1, <2>2, <2>3, <2>4, ReleaseOwners DEF Kept
    <2>6. Deferrals'
      <3>1. teardown' # None => inFlight' # 0
        BY <1>4, <1>6, <2>1, WorkingInFlight DEF Release, Idle
      <3>2. QED
        BY <1>1, <1>2, <1>4, <2>4, <3>1 DEF Kept, Deferrals
    <2>7. KeyedRig'
      BY <1>1, <1>4, <1>7, <2>1, <2>4 DEF Kept, KeyedRig, Release, Idle
    <2>8. Nested' /\ Panel'
      <3>1. ~Adopting
        BY <1>11 DEF Adopting, f
      <3>2. QED
        BY <1>1, <1>2, <1>4, <2>1, <3>1 DEF Kept, Nested, Panel
    <2>9. QED
      BY <1>8, <1>9, <2>5, <2>6, <2>7, <2>8 DEF Kept
  <1>12. QED
    BY <1>4, <1>10, <1>11

\* An attempt's success: adopted, put off, or closed if nobody waits for it.
LEMMA SucceededKeeps ==
  ASSUME RigInv, ~reentered, OnSucceeded
  PROVE  TxCount' /\ Kept'
  <1>1. TypeOK /\ Kept /\ TxCount /\ Take("succeeded") /\ Owners
    BY DEF RigInv, IInv, OnSucceeded, Kept
  <1> DEFINE a == Head(gui).of
  <1>2. /\ a \in Attempts /\ Reports(gui, a) /\ gui[1] = Succeeded(a) /\ 1 \in DOMAIN gui
        /\ Once(gui, a) => ~Reports(gui', a)
        /\ \A b \in Attempts : /\ b # a => (Reports(gui', b) <=> Reports(gui, b))
                               /\ Once(gui, b) => Once(gui', b)
    BY <1>1, SuccessTaken
  <1>3. /\ UNCHANGED <<attempt, launching, teardown, inFlight, wasActive, started, thread, open,
                       phase, txQueued, txRig, busy, polling>>
        /\ IF cancel[a]
           THEN /\ closers' = closers \cup {a}
                /\ UNCHANGED <<rig, errors, frames, connected, connecting, cancel, adoptable, pollTimer>>
           ELSE /\ cancel' = [cancel EXCEPT ![a] = TRUE] /\ closers' = closers
                /\ \/ /\ inFlight > 0 /\ adoptable' = a
                      /\ UNCHANGED <<rig, errors, frames, connected, connecting, pollTimer>>
                   \/ Adopt(a, pollTimer) /\ adoptable' = adoptable /\ inFlight = 0
    <2>1. inFlight \in Nat
      BY <1>1 DEF TypeOK, CountTypes
    <2>2. UNCHANGED <<attempt, launching, teardown, inFlight, wasActive, started, thread, open,
                       phase, txQueued, txRig, busy, polling>>
      BY DEF OnSucceeded, pollVars, workerVars
    <2>3. CASE cancel[a]
      BY <2>2, <2>3 DEF OnSucceeded, panelVars
    <2>4. CASE ~cancel[a]
      BY <2>1, <2>2, <2>4 DEF OnSucceeded, panelVars
    <2>5. QED
      BY <2>3, <2>4
  <1> HIDE DEF a
  <1>4. Owner(a) /\ Held(a) = FALSE /\ open[a] /\ thread[a] \in {"ran", "exited"} /\ ~Reports(gui', a)
        /\ Once(gui', a) /\ a \notin closers
    BY <1>1, <1>2 DEF Owners, Owner
  <1>5. TxCount'
    BY <1>1, <1>3, CountTaken
  <1>6. Cancels
    BY <1>1, <1>3, CancelsSet
  <1>7. gui' = Tail(gui) /\ gui # <<>> /\ gui \in Seq(Signals)
    BY <1>1 DEF Take, TypeOK
  <1>8. Retired'
    BY <1>1, <1>6, <1>7, RetiredTaken DEF Kept
  <1>9. CASE cancel[a]
    <2>1. SessionRests /\ cancel' = cancel /\ UNCHANGED <<errors, connected, connecting, pollTimer>>
          /\ closers' = closers \cup {a}
      BY <1>3, <1>9 DEF SessionRests
    <2>2. \A b \in Attempts : Pursued(b)' <=> Pursued(b)
      BY <1>3, <2>1 DEF Pursued
    <2>3. OneTry' /\ FreshTry'
      BY <1>1, <1>3, <2>1, <2>2 DEF Kept, OneTry, FreshTry, Trying, SessionRests
    <2>4. Deferrals' /\ KeyedRig' /\ Nested' /\ Panel'
      BY <1>1, <1>3, <2>1 DEF Kept, Deferrals, KeyedRig, Nested, Panel, Adopting, SessionRests
    <2>5. StalePoll'
      BY <1>1, <1>3, <2>1, StaleRests DEF Kept, SessionRests
    <2>6. Losses'
      BY <1>1, <1>6, <1>7, <2>1, LossesTaken DEF Kept, SessionRests
    <2>7. Owners'
      <3> SUFFICES ASSUME NEW b \in Attempts PROVE Owner(b)'
        BY DEF Owners
      <3>1. Owner(b) /\ (Held(b)' <=> Held(b))
        BY <1>1, <2>1, HeldRests DEF Owners
      <3>2. CASE b = a
        BY <1>3, <1>4, <2>1, <3>1, <3>2 DEF Owner
      <3>3. CASE b # a
        BY <1>2, <1>3, <2>1, <3>1, <3>3 DEF Owner
      <3>4. QED
        BY <3>2, <3>3
    <2>8. QED
      BY <1>5, <1>8, <2>3, <2>4, <2>5, <2>6, <2>7 DEF Kept
  <1>10. CASE ~cancel[a]
    <2>1. Pursued(a) /\ \A b \in Attempts : Pursued(b) => b = a
      BY <1>1, <1>2, <1>4, <1>10 DEF Pursued, Kept, OneTry
    <2>2. ~launching /\ adoptable = None
      BY <1>1, <1>2, <2>1 DEF Kept, OneTry
    <2>3. rig = Manual /\ txRig = None /\ teardown = None /\ frames = <<>>
      BY <1>1, <1>2, <2>1 DEF Kept, FreshTry, Trying
    <2>4. \A i \in DOMAIN gui' : gui'[i].sig # "lost"
      <3>1. ASSUME NEW i \in DOMAIN gui, gui[i].sig = "lost" PROVE FALSE
        <4>1. i < 1
          BY <1>1, <1>2, <1>10, <3>1 DEF Kept, Losses, LossesIn
        <4>2. i \in Nat \ {0}
          BY <1>7
        <4>3. QED
          BY <4>1, <4>2
      <3>2. QED
        BY <1>7, <3>1, Taken
    <2>5. cancel'[a] /\ \A b \in Attempts : ~Pursued(b)'
      BY <1>1, <1>2, <1>3, <1>6, <1>10, <2>1 DEF Pursued, Cancels, TypeOK, ThreadTypes
    <2>6. \A b \in Attempts : ~Held(b)
      BY <2>2, <2>3 DEF Held, Attempts, Manual, None
    <2>7. ASSUME \A b \in Attempts : Held(b)' <=> b = a PROVE Owners'
      <3> SUFFICES ASSUME NEW b \in Attempts PROVE Owner(b)'
        BY DEF Owners
      <3>1. Owner(b) /\ closers' = closers
        BY <1>1, <1>3, <1>10 DEF Owners
      <3>2. CASE b = a
        BY <1>3, <1>4, <2>7, <3>1, <3>2 DEF Owner
      <3>3. CASE b # a
        BY <1>2, <1>3, <2>6, <2>7, <3>1, <3>3 DEF Owner
      <3>4. QED
        BY <3>2, <3>3
    <2>8. CASE inFlight > 0 /\ adoptable' = a
               /\ UNCHANGED <<rig, errors, frames, connected, connecting, pollTimer>>
      <3>1. \A b \in Attempts : Held(b)' <=> b = a
        BY <1>2, <1>3, <2>3, <2>8 DEF Held, Attempts, Manual, None
      <3>2. Owners'
        BY <2>7, <3>1
      <3>3. OneTry' /\ FreshTry'
        BY <1>1, <1>3, <2>2, <2>3, <2>5, <2>8 DEF Kept, OneTry, FreshTry
      <3>4. Deferrals' /\ KeyedRig' /\ Nested' /\ Panel' /\ StalePoll'
        <4>1. inFlight' # 0 /\ teardown' = None /\ txRig' = None
          BY <1>3, <2>3, <2>8
        <4>2. Deferrals' /\ KeyedRig'
          BY <4>1 DEF Deferrals, KeyedRig
        <4>3. Nested' /\ Panel'
          BY <1>1, <1>3, <2>8 DEF Kept, Nested, Panel, Adopting
        <4>4. StalePoll'
          BY <1>1, <1>3, <2>8, StaleRests DEF Kept
        <4>5. QED
          BY <4>2, <4>3, <4>4
      <3>5. Losses'
        BY <2>4 DEF Losses, LossesIn
      <3>6. QED
        BY <1>5, <1>8, <3>2, <3>3, <3>4, <3>5 DEF Kept
    <2>9. CASE Adopt(a, pollTimer) /\ adoptable' = adoptable /\ inFlight = 0
      <3>1. adoptable' = None /\ teardown' = None /\ txRig' = None /\ ~launching'
        BY <1>3, <2>2, <2>3, <2>9
      <3>2. \A b \in Attempts : Held(b)' <=> b = a
        BY <1>2, <2>3, <2>9, <3>1, AdoptHeld
      <3>3. Owners'
        BY <2>7, <3>2
      <3>4. inFlight' = 0 => ~wasActive'
        BY <1>1, <1>3 DEF Kept, Deferrals
      <3>5. Kept'
        BY <1>1, <1>2, <1>3, <1>8, <2>3, <2>4, <2>5, <2>9, <3>1, <3>3, <3>4, AdoptKeeps
      <3>6. QED
        BY <1>5, <3>5
    <2>10. QED
      BY <1>3, <1>10, <2>8, <2>9
  <1>11. QED
    BY <1>9, <1>10

\* The end of a transmission is taken off the count.
LEMMA EndTaken ==
  ASSUME RigInv, ~reentered, OnTxFinished
  PROVE  /\ TxCount' /\ inFlight' = inFlight - 1 /\ inFlight' = OneTxFewer /\ inFlight' \in Nat
         /\ inFlight' = 0 => phase = "idle"
  <1>1. TypeOK /\ TxCount /\ Take("txFinished")
        /\ UNCHANGED <<txQueued, phase>> /\ inFlight' = OneTxFewer
    BY DEF RigInv, IInv, OnTxFinished, workerVars
  <1>2. gui \in Seq(Signals) /\ gui # <<>> /\ gui' = Tail(gui) /\ Head(gui).sig = "txFinished"
    BY <1>1 DEF TypeOK, Take
  <1>3. gui' \in Seq(Signals)
    BY <1>2, Taken
  <1>4. Cardinality(Ends(gui)) = Cardinality(Ends(gui')) + One(TRUE)
    BY <1>2, TakenEnds
  <1>5. Cardinality(Ends(gui)) = Cardinality(Ends(gui')) + 1
    BY <1>4 DEF One
  <1>6. Cardinality(Ends(gui')) \in Nat /\ inFlight \in Nat /\ txQueued \in Nat
    BY <1>1, <1>3, EndsFinite DEF TypeOK, CountTypes
  <1>7. inFlight = txQueued + One(phase # "idle") + Cardinality(Ends(gui')) + 1
    BY <1>1, <1>5, <1>6 DEF TxCount, One
  <1>8. inFlight' = inFlight - 1 /\ inFlight' \in Nat
    BY <1>1, <1>6, <1>7 DEF OneTxFewer, One
  <1>9. TxCount'
    BY <1>1, <1>6, <1>7, <1>8 DEF TxCount, One
  <1>10. inFlight' = 0 => phase = "idle"
    BY <1>6, <1>7, <1>8 DEF One
  <1>11. QED
    BY <1>1, <1>8, <1>9, <1>10

\* The end of a transmission with another one in flight changes nothing else;
\* the last one closes the rig that was lost, resumes the polls of the rig
\* there is, and takes over the rig that was put off.
LEMMA TxFinishedKeeps ==
  ASSUME RigInv, ~reentered, OnTxFinished
  PROVE  TxCount' /\ Kept'
  <1>1. TypeOK /\ Kept /\ TxCount' /\ Take("txFinished") /\ inFlight' = OneTxFewer
        /\ gui \in Seq(Signals) /\ gui # <<>> /\ gui' = Tail(gui)
    BY EndTaken DEF RigInv, IInv, OnTxFinished, TypeOK, Take
  <1>2. UNCHANGED <<attempt, launching, started, thread, cancel, closers, phase, txQueued, txRig,
                    busy, polling>>
    BY DEF OnTxFinished, attemptVars, threadVars, pollVars, workerVars
  <1>3. \A a \in Attempts : /\ Reports(gui', a) <=> Reports(gui, a)
                            /\ Once(gui, a) => Once(gui', a)
    BY <1>1, OthersTaken
  <1>4. Retired' /\ Cancels
    BY <1>1, <1>2, RetiredTaken DEF Kept, Cancels
  <1>5. \A b \in Attempts : Pursued(b)' <=> Pursued(b)
    BY <1>2 DEF Pursued
  <1>6. CASE OneTxFewer # 0
    <2>1. /\ SessionRests
          /\ UNCHANGED <<open, pollTimer, wasActive, errors, connected, connecting>>
      BY <1>2, <1>6 DEF OnTxFinished, timerVars, panelVars, SessionRests
    <2>2. OneTry' /\ FreshTry'
      BY <1>1, <1>2, <1>5, <2>1 DEF Kept, OneTry, FreshTry, Trying, SessionRests
    <2>3. Deferrals' /\ KeyedRig' /\ Nested' /\ Panel'
      BY <1>1, <1>2, <1>6, <2>1 DEF Kept, Deferrals, KeyedRig, Nested, Panel, Adopting, SessionRests
    <2>4. Owners'
      BY <1>1, <1>2, <1>3, <2>1, HeldRests, OwnersSame DEF Kept
    <2>5. Losses'
      BY <1>1, <1>4, <2>1, LossesTaken DEF Kept, SessionRests
    <2>6. StalePoll'
      BY <1>1, <1>2, <2>1, StaleRests DEF Kept, SessionRests
    <2>7. QED
      BY <1>1, <1>4, <2>2, <2>3, <2>4, <2>5, <2>6 DEF Kept
  <1>7. CASE OneTxFewer = 0
    <2>1. inFlight' = 0 /\ txRig = None
      BY <1>1, <1>7, EndTaken DEF Kept, KeyedRig
    <2>2. /\ teardown' = None /\ ~wasActive' /\ adoptable' = None
          /\ open' = [a \in Attempts |-> open[a] /\ a # teardown]
      BY <1>7 DEF OnTxFinished, Unlock
    <2>3. CASE adoptable = None
      <3>1. /\ UNCHANGED <<rig, errors, frames, connected, connecting>>
            /\ pollTimer' = (pollTimer \/ (wasActive /\ rig # Manual))
        BY <1>7, <2>3 DEF OnTxFinished, Unlock, panelVars
      <3>2. Trying' => Trying
        BY <1>2, <1>5, <2>2 DEF Trying
      <3>3. OneTry' /\ FreshTry'
        BY <1>1, <1>2, <1>5, <2>1, <2>2, <2>3, <3>1, <3>2 DEF Kept, OneTry, FreshTry
      <3>4. Deferrals' /\ KeyedRig' /\ Nested'
        BY <1>1, <1>2, <2>1, <2>2, <3>1 DEF Kept, Deferrals, KeyedRig, Nested, Adopting
      <3>5. Panel'
        <4>1. pollTimer \in BOOLEAN /\ wasActive \in BOOLEAN
          BY <1>1 DEF TypeOK, FlagTypes
        <4>2. QED
          BY <1>1, <2>2, <3>1, <4>1 DEF Kept, Panel, Adopting
      <3>6. Owners'
        <4> SUFFICES ASSUME NEW a \in Attempts PROVE Owner(a)'
          BY DEF Owners
        <4>1. Owner(a) /\ open'[a] = (open[a] /\ a # teardown)
          BY <1>1, <2>2 DEF Kept, Owners
        <4>2. CASE a = teardown
          <5>1. teardown # None /\ rig = Manual /\ frames = <<>>
            BY <1>1, <4>2 DEF Kept, Deferrals, Attempts, None
          <5>2. Held(a) /\ ~Held(a)'
            BY <1>2, <2>1, <2>2, <3>1, <4>2, <5>1 DEF Held, Attempts, Manual, None
          <5>3. QED
            BY <1>2, <1>3, <4>1, <4>2, <5>2 DEF Owner
        <4>3. CASE a # teardown
          <5>1. Held(a)' <=> Held(a)
            BY <1>2, <2>2, <2>3, <3>1, <4>3 DEF Held, Attempts, None
          <5>2. QED
            BY <1>2, <1>3, <4>1, <4>3, <5>1 DEF Owner
        <4>4. QED
          BY <4>2, <4>3
      <3>7. Losses'
        BY <1>1, <1>4, <2>2, <3>1, LossesTaken DEF Kept
      <3>8. StalePoll'
        BY <1>1, <1>2, <3>1, StaleRests DEF Kept
      <3>9. QED
        BY <1>1, <1>4, <3>3, <3>4, <3>5, <3>6, <3>7, <3>8 DEF Kept
    <2>4. CASE adoptable # None
      <3>1. rig = Manual /\ teardown = None /\ frames = <<>>
        BY <1>1, <2>4 DEF Kept, FreshTry, Trying
      <3>2. adoptable \in Attempts
        BY <1>1, <2>4 DEF TypeOK, RigTypes, Rigs, Attempts, None
      <3> DEFINE p == pollTimer \/ (wasActive /\ rig # Manual)
      <3>3. Adopt(adoptable, p)
        BY <1>7, <2>4 DEF OnTxFinished, Unlock
      <3> HIDE DEF p
      <3>4. ~launching' /\ txRig' = None /\ \A b \in Attempts : ~Pursued(b)'
        BY <1>1, <1>2, <1>5, <2>1, <2>4 DEF Kept, OneTry
      <3>5. \A b \in Attempts : Held(b)' <=> Held(b)
        <4>1. \A b \in Attempts : Held(b)' <=> b = adoptable
          BY <2>2, <3>1, <3>2, <3>3, <3>4, AdoptHeld
        <4>2. \A b \in Attempts : Held(b) <=> b = adoptable
          BY <2>1, <3>1 DEF Held, Attempts, Manual, None
        <4>3. QED
          BY <4>1, <4>2
      <3>6. \A a \in Attempts : open'[a] = open[a]
        BY <1>1, <2>2, <3>1 DEF TypeOK, ThreadTypes, Attempts, None
      <3>7. Owners'
        BY <1>1, <1>2, <1>3, <3>5, <3>6, OwnersSame DEF Kept
      <3>8. \A i \in DOMAIN gui' : gui'[i].sig # "lost"
        BY <1>1, <2>4, Taken DEF Kept, Losses, LossesIn
      <3>9. Kept'
        BY <1>1, <1>2, <1>4, <2>2, <3>1, <3>2, <3>3, <3>4, <3>7, <3>8, AdoptKeeps
      <3>10. QED
        BY <1>1, <3>9
    <2>5. QED
      BY <2>3, <2>4
  <1>8. QED
    BY <1>6, <1>7

-----------------------------------------------------------------------------
LEMMA InitRigInv == Init => RigInv
  <1> SUFFICES ASSUME Init PROVE RigInv
    OBVIOUS
  <1>1. IInv
    BY InitIInv
  <1>2. gui = <<>> /\ DOMAIN gui = {}
    BY DEF Init
  <1>3. TxCount
    <2>1. Ends(gui) = {}
      BY <1>2 DEF Ends
    <2>2. Cardinality(Ends(gui)) = 0
      BY <2>1, FS_EmptySet
    <2>3. QED
      BY <2>2 DEF Init, TxCount, One
  <1>4. \A a \in Attempts : thread[a] = "none" /\ ~open[a] /\ ~Reports(gui, a) /\ Once(gui, a)
    BY <1>2 DEF Init, Reports, Once
  <1>5. OneTry /\ FreshTry
    BY <1>4 DEF Init, OneTry, FreshTry, Trying, Pursued, None
  <1>6. Deferrals /\ KeyedRig /\ Nested /\ Panel /\ StalePoll
    BY DEF Init, Deferrals, KeyedRig, Nested, Panel, Adopting, StalePoll, Manual, None
  <1>7. Losses /\ Retired
    BY <1>2 DEF Losses, LossesIn, Retired, RetiredIn
  <1>8. Owners
    <2>1. \A a \in Attempts : ~Held(a)
      BY DEF Init, Held, Attempts, Manual, None
    <2>2. closers = {}
      BY DEF Init
    <2>3. QED
      BY <1>4, <2>1, <2>2 DEF Owners, Owner
  <1>9. QED
    BY <1>1, <1>3, <1>5, <1>6, <1>7, <1>8 DEF RigInv, Kept

LEMMA RigStep == RigInv /\ [Next]_vars => RigInv'
  <1> SUFFICES ASSUME RigInv, [Next]_vars PROVE RigInv'
    OBVIOUS
  <1>1. IInv'
    BY NextIInv DEF RigInv
  <1>2. CASE UNCHANGED vars
    <2>1. UNCHANGED <<gui, frames, rig, connected, connecting, launching, attempt, adoptable, teardown,
                      inFlight, pollTimer, wasActive, started, thread, cancel, open, closers, polling,
                      busy, errors, txQueued, phase, txRig, reentered>>
      BY <1>2 DEF vars, panelVars, attemptVars, ownerVars, timerVars, threadVars, pollVars, workerVars
    <2>2. ASSUME ~reentered PROVE TxCount' /\ Kept'
      BY <2>1, <2>2, Aside
      DEF RigInv, Kept, OneTry, Pursued, OwnersRest, SessionRests, Cancels
    <2>3. QED
      BY <1>1, <2>1, <2>2 DEF RigInv
  <1>3. ASSUME Next, ~reentered' PROVE TxCount' /\ Kept'
    <2>1. ~reentered
      BY <1>3 DEF Next
    <2>2. CASE GuiHandles
      BY <1>3, <2>1, <2>2, SucceededKeeps, FailedKeeps, FinishedKeeps, LostKeeps, ReportsKeep, TxFinishedKeeps
      DEF GuiHandles
    <2>3. CASE WorkerRuns
      BY <2>1, <2>3, BeginsKeeps, TakesRigKeeps, LosesRigKeeps, TxEndsKeeps DEF WorkerRuns
    <2>4. CASE PollTick \/ RequestTx \/ OnTxStarted \/ PollBegins \/ PollEnds \/ ConnectTimeout \/ FrameEnds
      BY <2>1, <2>4, ReportsKeep, RequestKeeps, StartedKeeps, PollBeginsKeeps, PollEndsKeeps,
         TimeoutKeeps, FrameKeeps
    <2>5. CASE \E a \in Attempts : Opens(a) \/ Resolves(a) \/ ThreadExits(a) \/ LateClose(a)
      BY <2>1, <2>5, OpensKeeps, ResolvesKeeps, ExitsKeeps, LateCloseKeeps
    <2>6. CASE (\E isTci \in BOOLEAN : ClickConnect(isTci)) \/ ClickConnectRigctld
                  \/ RigctldLaunched \/ ClickCancel \/ ClickDisconnect
      BY <1>3, <2>1, <2>6, ConnectKeeps, ConnectRigctldKeeps, LaunchedKeeps, CancelKeeps,
         ClickDisconnectKeeps
    <2>7. QED
      BY <1>3, <2>2, <2>3, <2>4, <2>5, <2>6 DEF Next
  <1>4. QED
    BY <1>1, <1>2, <1>3 DEF RigInv

\* Whoever opened a rig answers for it, it is watched while it is there, and
\* let go only for its own loss: for any number of attempts and transmissions.
THEOREM RigsStayKept == Spec => []RigsKept
  <1>1. RigInv => RigsKept
    <2> SUFFICES ASSUME RigInv PROVE RigsKept
      OBVIOUS
    <2>1. TypeOK
      BY DEF RigInv, IInv
    <2>2. RigsOwned
      <3> SUFFICES ASSUME ~reentered
                   PROVE  /\ \A a \in Attempts : open[a] => Owned(a)
                          /\ \A a \in {rig, adoptable, teardown, txRig} \ {None} : open[a]
        BY DEF RigsOwned
      <3>1. Kept
        BY DEF RigInv
      <3>2. ASSUME NEW a \in Attempts, open[a] PROVE Owned(a)
        <4>1. Held(a) \/ a \in closers \/ thread[a] = "opened" \/ Reports(gui, a)
          BY <3>1, <3>2 DEF Kept, Owners, Owner
        <4>2. frames # <<>> => 1 \in DOMAIN frames
          BY <2>1 DEF TypeOK
        <4>3. a = txRig => a \in {rig, teardown} \/ (frames # <<>> /\ frames[1].of = a)
          BY <3>1 DEF Kept, KeyedRig, Attempts, None
        <4>4. QED
          BY <4>1, <4>2, <4>3 DEF Owned, Held, Reports, Succeeded
      <3>3. ASSUME NEW a \in {rig, adoptable, teardown, txRig} \ {None} PROVE open[a]
        <4>1. a \in Attempts /\ Held(a)
          BY <2>1 DEF TypeOK, RigTypes, Rigs, Attempts, None, Held
        <4>2. QED
          BY <3>1, <4>1 DEF Kept, Owners, Owner
      <3>4. QED
        BY <3>2, <3>3
    <2>3. WatchedIffConnected
      BY DEF WatchedIffConnected, RigInv, Kept, Panel, Adopting, Deferrals
    <2>4. OwnLossOnly
      <3> SUFFICES ASSUME gui # <<>>, Head(gui).sig = "lost", ~reentered
                   PROVE  rig \in {Manual, Head(gui).of}
        BY DEF OwnLossOnly
      <3>1. 1 \in DOMAIN gui /\ Head(gui) = gui[1]
        BY <2>1, Taken DEF TypeOK
      <3>2. QED
        BY <3>1 DEF RigInv, Kept, Losses, LossesIn
    <2>5. QED
      BY <2>2, <2>3, <2>4 DEF RigsKept
  <1>2. QED
    BY <1>1, InitRigInv, RigStep, PTL DEF Spec
=============================================================================
