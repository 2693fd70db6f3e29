----------------------------- MODULE RadioProofs -----------------------------
(***************************************************************************)
(* What comes from the radio.                                              *)
(*                                                                         *)
(* First part: a rig backend tells the truth (ToldTrue), the end of a Flex *)
(* link reaches whoever waits on it (LossHandled) and TCI state and        *)
(* receive audio follow the session in use (FollowsSession), for any       *)
(* number of commands, connections, callers, link losses and runaway       *)
(* replies.  Each family of backends has an inductive invariant of its     *)
(* own; the other families stand still in its mode.                        *)
(*                                                                         *)
(* Second part: what the decoder hears is one capture session at its own   *)
(* rate and nothing of the station's own transmissions (HearsTheStream),   *)
(* and no click or auto-resume attempt is forgotten (NothingForgotten),    *)
(* for any number of sessions, swaps and events.  HearInv relates the      *)
(* decoder's queue to the streams; AnswersDue the signals on their way to  *)
(* the GUI to the button, the capture and the auto-resume.                 *)
(***************************************************************************)
EXTENDS RigLinks, RxCapture, FiniteSetTheorems, TLAPS

-----------------------------------------------------------------------------
(* The request/reply backends *)

Ops      == Reads \cup Sets
Calls    == [op : Ops, id : Nat, again : BOOLEAN]
Commands == [op : Ops, id : Nat, conn : Nat]
Frames   == [is : {"data", "ok", "refused", "knob", "runaway"}, op : Ops \cup {"none"}, id : Nat]

WireTypes ==
    /\ kind \in Kinds
    /\ conns \in Nat /\ conn \in 0 .. conns /\ issued \in Nat
    /\ call \in Calls \cup {NoCall}
    /\ InUse => call.id \in 1 .. issued
    /\ toRig \in Seq(Commands) /\ back \in Seq(Frames) /\ buf \in Seq(Frames)
    /\ \A i \in DOMAIN toRig : toRig[i].id \in 1 .. issued /\ toRig[i].conn \in 1 .. conns
    /\ kind = "line" => toRig = <<>> /\ ~InUse
    /\ kind # "civ" => overdue = {}
    /\ adrift \/ call.again => kind = "rigctld"

\* CI-V.  An acknowledgement under way is that of the command in progress, or
\* counted among the overdue ones.
Counted(f) ==
    /\ f.is # "runaway" /\ f.id <= issued
    /\ f.is = "ok" => \/ f.id \in overdue
                      \/ f.id = call.id /\ call.op \in Sets /\ (call.op = "unkey" => ~keyed)

\* The answer to the command in progress is under way at most once, behind
\* nothing that the rig has yet to take.
CivInv ==
    /\ \A i \in DOMAIN toRig : /\ toRig[i].op \in Sets => toRig[i].id \in overdue \cup {call.id}
                               /\ toRig[i].id = call.id => i = Len(toRig) /\ toRig[i].op = call.op
    /\ \A i \in DOMAIN back : Counted(back[i])
    /\ \A i \in DOMAIN buf : Counted(buf[i])
    /\ InUse =>
        /\ \A i \in DOMAIN back : back[i].id = call.id =>
              /\ toRig = <<>>
              /\ \A j \in DOMAIN back : back[j].id = call.id => i = j
              /\ \A j \in DOMAIN buf : buf[j].id # call.id
        /\ \A i \in DOMAIN buf : buf[i].id = call.id =>
              /\ toRig = <<>>
              /\ \A j \in DOMAIN buf : buf[j].id = call.id => i = j

\* rigctld.  What comes back on the socket in use answers the command in
\* progress, or begins with a runaway reply.
OwnReply(f) ==
    /\ f.id = call.id /\ f.op = call.op /\ f.is \in {"data", "ok", "refused"}
    /\ f.is = "ok" /\ f.op = "unkey" => ~keyed
    /\ f.is = "data" => f.op \in Reads
Coming ==
    \/ buf # <<>> /\ buf[1].is = "runaway"
    \/ buf = <<>> /\ back # <<>> /\ back[1].is = "runaway"
    \/ buf = <<>> /\ Len(back) = 1 /\ OwnReply(back[1])
    \/ back = <<>> /\ Len(buf) = 1 /\ OwnReply(buf[1])
RigctldInv ==
    /\ conn = 0 => back = <<>> /\ buf = <<>>
    /\ ~adrift =>
        /\ (back = <<>> /\ buf = <<>>) \/ (InUse /\ toRig = <<>> /\ Coming)
        /\ \A i \in DOMAIN toRig : toRig[i].conn = conn =>
              /\ InUse /\ toRig[i].id = call.id /\ toRig[i].op = call.op
              /\ i = Len(toRig) /\ back = <<>> /\ buf = <<>>

\* Nobody believes the transmitter off while a command keys it.
KeyAsks == call.op = "key" => told # "off"

WireInv ==
    /\ WireTypes /\ UnkeyToldIsUnkeyed /\ AnswersOwnCommand
    /\ KeyAsks
    /\ kind = "civ" => CivInv
    /\ kind = "rigctld" => RigctldInv

LEMMA EmptyQueue == ASSUME NEW S, NEW s \in Seq(S), Len(s) = 0 PROVE s = <<>>
  OBVIOUS

\* The head of a queue is taken.
LEMMA Popped ==
  ASSUME NEW S, NEW s \in Seq(S), s # <<>>
  PROVE  /\ Len(s) \in Nat /\ Len(s) > 0 /\ DOMAIN s = 1 .. Len(s) /\ 1 \in DOMAIN s
         /\ Head(s) = s[1] /\ Head(s) \in S
         /\ Tail(s) \in Seq(S) /\ Len(Tail(s)) = Len(s) - 1
         /\ DOMAIN Tail(s) = 1 .. Len(s) - 1
         /\ \A i \in DOMAIN Tail(s) : i + 1 \in DOMAIN s /\ Tail(s)[i] = s[i + 1]
         /\ Len(s) = 1 => Tail(s) = <<>>
  <1>1. Len(s) \in Nat /\ Len(s) > 0 /\ DOMAIN s = 1 .. Len(s) /\ 1 \in DOMAIN s
    OBVIOUS
  <1>2. Head(s) = s[1] /\ Head(s) \in S /\ Tail(s) \in Seq(S) /\ Len(Tail(s)) = Len(s) - 1
    BY <1>1
  <1>3. DOMAIN Tail(s) = 1 .. Len(s) - 1
    BY <1>1, <1>2
  <1>4. \A i \in DOMAIN Tail(s) : i + 1 \in DOMAIN s /\ Tail(s)[i] = s[i + 1]
    BY <1>1, <1>2, <1>3
  <1>5. Len(s) = 1 => Tail(s) = <<>>
    <2> DEFINE t == Tail(s)
    <2>1. Len(s) = 1 => Len(t) = 0
      BY <1>1, <1>2
    <2>2. t \in Seq(S)
      BY <1>2
    <2> HIDE DEF t
    <2>3. Len(s) = 1 => t = <<>>
      BY <2>1, <2>2, EmptyQueue
    <2>4. QED
      BY <2>3 DEF t
  <1>6. QED
    BY <1>1, <1>2, <1>3, <1>4, <1>5

\* Something joins the end of a queue.
LEMMA Pushed ==
  ASSUME NEW S, NEW s \in Seq(S), NEW x \in S
  PROVE  /\ Append(s, x) \in Seq(S) /\ Append(s, x) # <<>>
         /\ s \o <<x>> = Append(s, x) /\ s \o <<>> = s
         /\ Len(s) \in Nat /\ DOMAIN s = 1 .. Len(s)
         /\ Len(Append(s, x)) = Len(s) + 1 /\ DOMAIN Append(s, x) = 1 .. Len(s) + 1
         /\ Append(s, x)[Len(s) + 1] = x
         /\ \A i \in DOMAIN s : Append(s, x)[i] = s[i]
  OBVIOUS

LEMMA NothingIn == ASSUME NEW S PROVE <<>> \in Seq(S) /\ DOMAIN <<>> = {} /\ Len(<<>>) = 0
  OBVIOUS

\* CI-V and rigctld answer every command.
LEMMA AllAnswered ==
  ASSUME NEW op \in Ops, kind \in {"civ", "rigctld"}
  PROVE  Answered(op)
  BY DEF Answered, CivWaits, RigctldWaits, Ops

LEMMA NoCallIs == NoCall.op = "none" /\ NoCall.id = 0 /\ ~NoCall.again /\ NoCall.op \notin Ops
  BY DEF NoCall, Ops, Reads, Sets

\* Somebody is inside the backend exactly while a command is in progress.
LEMMA Calling ==
  ASSUME call \in Calls \cup {NoCall}
  PROVE  /\ InUse <=> call \in Calls
         /\ InUse <=> call.op \in Ops
         /\ ~InUse => call.op = "none" /\ call.id = 0 /\ call.again = FALSE
  <1>1. NoCall \notin Calls
    BY NoCallIs DEF Calls
  <1>2. \A c \in Calls : c.op \in Ops
    BY DEF Calls
  <1>3. QED
    BY NoCallIs, <1>1, <1>2 DEF InUse

LEMMA WireStarts ==
  ASSUME NEW kinds, kinds \subseteq Kinds, WireInit(kinds)
  PROVE  WireInv
  <1>1. call = NoCall /\ ~InUse /\ call.op = "none" /\ call.id = 0 /\ call.again = FALSE /\ took = NoReply
    BY Calling DEF WireInit, InUse
  <1>2. toRig = <<>> /\ back = <<>> /\ buf = <<>>
    BY DEF WireInit
  <1>3. WireTypes
    BY <1>1, <1>2 DEF WireInit, WireTypes
  <1>4. UnkeyToldIsUnkeyed /\ AnswersOwnCommand /\ KeyAsks
    BY <1>1 DEF WireInit, UnkeyToldIsUnkeyed, AnswersOwnCommand, KeyAsks
  <1>5. CivInv /\ RigctldInv
    BY <1>1, <1>2 DEF CivInv, RigctldInv
  <1>6. QED
    BY <1>3, <1>4, <1>5 DEF WireInv

-----------------------------------------------------------------------------
(* Ports: opened, closed, lost, back. *)

LEMMA WireOpens ==
  ASSUME WireInv, NEW k \in Kinds \ {"rigctld"}, OpenPort(k)
  PROVE  WireInv'
  <1>1. /\ kind = k /\ ~InUse /\ conns' = conns + 1 /\ conn' = conns + 1 /\ buf' = <<>>
        /\ keyed' = (kind # "line" /\ keyed)
        /\ UNCHANGED <<kind, up, call, toRig, back, issued, upsets, told, took, overdue, adrift>>
    BY DEF OpenPort
  <1>2. WireTypes'
    BY <1>1 DEF WireInv, WireTypes, InUse
  <1>3. UnkeyToldIsUnkeyed' /\ AnswersOwnCommand' /\ KeyAsks'
    BY <1>1 DEF WireInv, UnkeyToldIsUnkeyed, AnswersOwnCommand, KeyAsks
  <1>4. kind = "civ" => CivInv'
    <2>1. ~InUse' /\ DOMAIN buf' = {}
      BY <1>1 DEF InUse
    <2>2. \A i \in DOMAIN back : Counted(back[i]) => Counted(back[i])'
      BY <1>1, <2>1 DEF Counted
    <2>3. QED
      BY <1>1, <2>1, <2>2 DEF WireInv, CivInv
  <1>5. QED
    BY <1>1, <1>2, <1>3, <1>4 DEF WireInv

LEMMA WireCloses ==
  ASSUME WireInv, NEW k \in Kinds, ClosePort(k)
  PROVE  WireInv'
  <1>1. /\ ~InUse /\ conn' = 0 /\ buf' = <<>> /\ adrift' = FALSE
        /\ back' = (IF Serial THEN back ELSE <<>>)
        /\ keyed' => keyed
        /\ UNCHANGED <<kind, conns, up, call, toRig, issued, upsets, told, took, overdue>>
    BY DEF ClosePort, Drop
  <1>2. WireTypes'
    BY <1>1 DEF WireInv, WireTypes, InUse
  <1>3. UnkeyToldIsUnkeyed' /\ AnswersOwnCommand' /\ KeyAsks'
    BY <1>1 DEF WireInv, UnkeyToldIsUnkeyed, AnswersOwnCommand, KeyAsks
  <1>4. kind = "civ" => CivInv'
    BY <1>1 DEF WireInv, CivInv, Counted, InUse, Serial
  <1>5. kind = "rigctld" => RigctldInv'
    BY <1>1 DEF WireInv, WireTypes, RigctldInv, Serial
  <1>6. QED
    BY <1>1, <1>2, <1>3, <1>4, <1>5 DEF WireInv

LEMMA WireLost ==
  ASSUME WireInv, NEW stays \in BOOLEAN, LinkLost(stays)
  PROVE  WireInv'
  <1>1. /\ toRig' = <<>> /\ back' = <<>> /\ buf' = <<>> /\ (keyed' => keyed)
        /\ UNCHANGED <<kind, conn, conns, call, issued, told, took, overdue, adrift>>
    BY DEF LinkLost
  <1>2. WireTypes'
    BY <1>1 DEF WireInv, WireTypes, InUse
  <1>3. UnkeyToldIsUnkeyed' /\ AnswersOwnCommand' /\ KeyAsks'
    BY <1>1 DEF WireInv, UnkeyToldIsUnkeyed, AnswersOwnCommand, KeyAsks
  <1>4. CivInv' /\ RigctldInv'
    BY <1>1 DEF CivInv, RigctldInv
  <1>5. QED
    BY <1>2, <1>3, <1>4 DEF WireInv

\* Nothing that the invariant speaks of has changed.
LEMMA WireStutters ==
  ASSUME WireInv, UNCHANGED <<kind, conn, conns, call, toRig, back, buf, keyed, issued, told,
                              took, overdue, adrift>>
  PROVE  WireInv'
  BY DEF WireInv, WireTypes, UnkeyToldIsUnkeyed, AnswersOwnCommand, KeyAsks, CivInv, Counted, RigctldInv,
         Coming, OwnReply, InUse

LEMMA WireLine ==
  ASSUME WireInv, NEW op, DriveLine(op)
  PROVE  WireInv'
  <1>1. /\ kind = "line" /\ op \in {"key", "unkey"} /\ issued' = issued + 1
        /\ keyed' = IF conn # 0 /\ sound THEN op = "key" ELSE keyed
        /\ told' = Told(op, conn # 0 /\ sound)
        /\ UNCHANGED <<kind, conn, conns, call, toRig, back, buf, took, overdue, adrift>>
    BY DEF DriveLine
  <1>2. WireTypes'
    BY <1>1 DEF WireInv, WireTypes, InUse
  <1>3. told' = "off" => op = "unkey" /\ conn # 0 /\ sound
    BY <1>1 DEF Told
  <1>4. UnkeyToldIsUnkeyed'
    <2>1. told' = "off" => ~keyed'
      BY <1>1, <1>3
    <2>2. toRig' = <<>>
      BY <1>1 DEF WireInv, WireTypes
    <2>3. QED
      BY <2>1, <2>2 DEF UnkeyToldIsUnkeyed
  <1>5. AnswersOwnCommand' /\ KeyAsks'
    <2>1. call.op # "key"
      BY <1>1, NoCallIs DEF WireInv, WireTypes, InUse
    <2>2. QED
      BY <1>1, <2>1 DEF WireInv, AnswersOwnCommand, KeyAsks
  <1>6. QED
    BY <1>1, <1>2, <1>4, <1>5 DEF WireInv

-----------------------------------------------------------------------------
(* Commands written. *)

\* Only a successful unkey tells its caller that the transmitter is off.
LEMMA ToldOff ==
  ASSUME NEW op, NEW ok \in BOOLEAN
  PROVE  Told(op, ok) = "off" => \/ op = "unkey" /\ ok
                                 \/ op \notin {"key", "unkey"} /\ told = "off"
  BY DEF Told

\* Another command goes to the end of those the rig has yet to take.
LEMMA Queued ==
  ASSUME WireTypes, NEW op \in Ops, issued' \in Nat, issued' >= issued, NEW id \in 1 .. issued',
         conns' \in Nat, conns' >= conns, NEW s \in 1 .. conns', toRig' = Written(op, id, s)
  PROVE  /\ toRig' \in Seq(Commands) /\ toRig' # <<>>
         /\ Len(toRig) \in Nat /\ DOMAIN toRig = 1 .. Len(toRig)
         /\ Len(toRig') = Len(toRig) + 1 /\ DOMAIN toRig' = 1 .. Len(toRig) + 1
         /\ \A i \in DOMAIN toRig : toRig'[i] = toRig[i]
         /\ toRig'[Len(toRig) + 1] = [op |-> op, id |-> id, conn |-> s]
         /\ \A i \in DOMAIN toRig' : toRig'[i].id \in 1 .. issued' /\ toRig'[i].conn \in 1 .. conns'
         /\ \A i \in DOMAIN toRig' : toRig'[i].op = op \/ (i \in DOMAIN toRig /\ toRig'[i] = toRig[i])
  <1> DEFINE c == [op |-> op, id |-> id, conn |-> s]
  <1>1. c \in Commands /\ c.op = op /\ c.id = id /\ c.conn = s
    BY DEF Commands, WireTypes
  <1>2. toRig \in Seq(Commands) /\ toRig' = Append(toRig, c)
    BY DEF WireTypes, Written
  <1> HIDE DEF c
  <1>3. /\ toRig' \in Seq(Commands) /\ toRig' # <<>>
        /\ Len(toRig) \in Nat /\ DOMAIN toRig = 1 .. Len(toRig)
        /\ Len(toRig') = Len(toRig) + 1 /\ DOMAIN toRig' = 1 .. Len(toRig) + 1
        /\ \A i \in DOMAIN toRig : toRig'[i] = toRig[i]
        /\ toRig'[Len(toRig) + 1] = c
    BY <1>1, <1>2, Pushed
  <1>4. \A i \in DOMAIN toRig' : i \in DOMAIN toRig \/ i = Len(toRig) + 1
    BY <1>3
  <1>5. \A i \in DOMAIN toRig' : toRig'[i].id \in 1 .. issued' /\ toRig'[i].conn \in 1 .. conns'
    <2>1. issued \in Nat /\ conns \in Nat
          /\ \A i \in DOMAIN toRig : toRig[i].id \in 1 .. issued /\ toRig[i].conn \in 1 .. conns
      BY DEF WireTypes
    <2>2. TAKE i \in DOMAIN toRig'
    <2>3. CASE i \in DOMAIN toRig
      BY <1>3, <2>1, <2>3
    <2>4. CASE i = Len(toRig) + 1
      BY <1>1, <1>3, <2>4
    <2>5. QED
      BY <1>4, <2>3, <2>4
  <1>6. QED
    BY <1>1, <1>3, <1>4, <1>5 DEF c

LEMMA WireSendsSerial ==
  ASSUME WireInv, NEW k \in {"civ", "kenwood", "yaesu"}, NEW op \in Ops, SendSerial(k, op)
  PROVE  WireInv'
  <1>1. /\ kind = k /\ ~InUse /\ issued' = issued + 1 /\ took' = NoReply
        /\ UNCHANGED <<kind, conn, conns, back, keyed, overdue, adrift>>
    BY DEF SendSerial
  <1>2. issued \in Nat /\ AnswersOwnCommand'
    BY <1>1 DEF WireInv, WireTypes, AnswersOwnCommand
  <1>3. call.op = "none" /\ call.id = 0 /\ call \in Calls \cup {NoCall}
    BY <1>1, Calling DEF WireInv, WireTypes
  <1>4. CASE conn = 0 \/ ~sound
    <2>1. told' = Told(op, FALSE) /\ UNCHANGED <<call, toRig, buf>>
      BY <1>4 DEF SendSerial
    <2>2. WireTypes'
      BY <1>1, <1>2, <2>1 DEF WireInv, WireTypes, InUse
    <2>3. UnkeyToldIsUnkeyed' /\ KeyAsks'
      BY <1>1, <2>1, NoCallIs, ToldOff DEF WireInv, UnkeyToldIsUnkeyed, KeyAsks, InUse
    <2>4. kind = "civ" => CivInv'
      <3>1. \A f \in Frames : Counted(f) => Counted(f)'
        BY <1>1, <1>2, <2>1 DEF Counted, Frames
      <3>2. QED
        BY <1>1, <2>1, <3>1 DEF WireInv, WireTypes, CivInv, InUse
    <2>5. QED
      BY <1>1, <1>2, <2>2, <2>3, <2>4 DEF WireInv
  <1>5. CASE ~(conn = 0 \/ ~sound)
    <2>1. /\ buf' = <<>> /\ toRig' = Written(op, issued', conn)
          /\ IF Answered(op)
             THEN call' = [op |-> op, id |-> issued', again |-> FALSE] /\ Asking(op)
             ELSE told' = Told(op, TRUE) /\ UNCHANGED call
      BY <1>5 DEF SendSerial
    <2>2. conn \in 1 .. conns'
      BY <1>1, <1>5 DEF WireInv, WireTypes
    <2>3. /\ toRig' \in Seq(Commands) /\ toRig' # <<>>
          /\ Len(toRig) \in Nat /\ DOMAIN toRig = 1 .. Len(toRig)
          /\ Len(toRig') = Len(toRig) + 1 /\ DOMAIN toRig' = 1 .. Len(toRig) + 1
          /\ \A i \in DOMAIN toRig : toRig'[i] = toRig[i]
          /\ toRig'[Len(toRig) + 1] = [op |-> op, id |-> issued', conn |-> conn]
          /\ \A i \in DOMAIN toRig' : toRig'[i].id \in 1 .. issued' /\ toRig'[i].conn \in 1 .. conns'
          /\ \A i \in DOMAIN toRig' : toRig'[i].op = op \/ (i \in DOMAIN toRig /\ toRig'[i] = toRig[i])
      <3>1. WireTypes /\ conns' >= conns /\ conns' \in Nat /\ issued' \in Nat /\ issued' >= issued
            /\ issued' \in 1 .. issued'
        BY <1>1 DEF WireInv, WireTypes
      <3>2. QED
        BY <1>1, <2>1, <2>2, <3>1, Queued
    <2>4. [op |-> op, id |-> issued', again |-> FALSE] \in Calls
      BY <1>1, <1>2 DEF Calls
    <2>5. /\ call' \in Calls \cup {NoCall} /\ ~call'.again
          /\ call' = call \/ (call'.id = issued' /\ call'.op = op)
      <3>1. CASE Answered(op)
        <4>1. call' = [op |-> op, id |-> issued', again |-> FALSE]
          BY <2>1, <3>1
        <4>2. call'.id = issued' /\ call'.op = op /\ ~call'.again
          BY <4>1
        <4>3. QED
          BY <2>4, <4>1, <4>2
      <3>2. CASE ~Answered(op)
        <4>1. call' = call /\ ~InUse
          BY <1>1, <2>1, <3>2
        <4>2. QED
          BY <1>3, <4>1, Calling
      <3>3. QED
        BY <3>1, <3>2
    <2>6. InUse' => call'.id \in 1 .. issued'
      BY <1>1, <1>2, <2>5 DEF InUse
    <2>7. WireTypes'
      BY <1>1, <1>2, <2>1, <2>3, <2>5, <2>6, NothingIn DEF WireInv, WireTypes
    <2>8. UnkeyToldIsUnkeyed' /\ KeyAsks'
      <3>1. kind = "civ" /\ told' = "off" => told = "off" /\ op # "key"
        BY <2>1, AllAnswered DEF Asking
      <3>2. KeyAsks'
        <4>1. CASE Answered(op)
          BY <2>1, <4>1 DEF KeyAsks, Asking
        <4>2. CASE ~Answered(op)
          BY <1>3, <2>1, <4>2 DEF KeyAsks
        <4>3. QED
          BY <4>1, <4>2
      <3>3. QED
        BY <1>1, <2>3, <3>1, <3>2 DEF WireInv, UnkeyToldIsUnkeyed
    <2>9. kind = "civ" => CivInv'
      <3> SUFFICES ASSUME kind = "civ"
                   PROVE  CivInv'
        OBVIOUS
      <3>1. call'.id = issued' /\ call'.op = op /\ CivInv
        <4>1. call' = [op |-> op, id |-> issued', again |-> FALSE]
          BY <2>1, AllAnswered
        <4>2. QED
          BY <4>1 DEF WireInv
      <3>2. \A i \in DOMAIN toRig' :
              /\ toRig'[i].op \in Sets => toRig'[i].id \in overdue' \cup {call'.id}
              /\ toRig'[i].id = call'.id => i = Len(toRig') /\ toRig'[i].op = call'.op
        <4>1. TAKE i \in DOMAIN toRig'
        <4>2. CASE i \in DOMAIN toRig
          BY <1>1, <1>2, <1>3, <2>3, <3>1, <4>2 DEF CivInv, WireInv, WireTypes
        <4>3. CASE i = Len(toRig) + 1
          BY <2>3, <3>1, <4>3
        <4>4. QED
          BY <2>3, <4>2, <4>3
      <3>3. \A i \in DOMAIN back : Counted(back[i])' /\ back[i].id # issued'
        <4>1. \A i \in DOMAIN back : back[i] \in Frames /\ Counted(back[i])
          BY <3>1 DEF WireInv, WireTypes, CivInv
        <4>2. \A i \in DOMAIN back : /\ back[i].is # "runaway" /\ back[i].id <= issued /\ back[i].id \in Nat
                                     /\ back[i].is = "ok" => back[i].id \in overdue
          BY <1>3, <4>1 DEF Counted, Frames, Sets
        <4>3. QED
          BY <1>1, <1>2, <4>2 DEF Counted
      <3>4. DOMAIN buf' = {}
        BY <2>1
      <3>5. QED
        BY <1>1, <3>1, <3>2, <3>3, <3>4 DEF CivInv
    <2>10. QED
      BY <1>1, <1>2, <2>7, <2>8, <2>9 DEF WireInv
  <1>6. QED
    BY <1>4, <1>5

LEMMA WireSendsRigctld ==
  ASSUME WireInv, NEW op \in Ops, SendRigctld(op)
  PROVE  WireInv'
  <1>1. /\ kind = "rigctld" /\ ~InUse /\ issued' = issued + 1 /\ took' = NoReply
        /\ UNCHANGED <<kind, back, buf, keyed, overdue, adrift>>
    BY DEF SendRigctld
  <1>2. issued \in Nat /\ conns \in Nat /\ AnswersOwnCommand'
    BY <1>1 DEF WireInv, WireTypes, AnswersOwnCommand
  <1>3. CASE conn = 0 /\ ~up
    <2>1. told' = Told(op, FALSE) /\ UNCHANGED <<conn, conns, call, toRig>>
      BY <1>3 DEF SendRigctld
    <2>2. WireTypes'
      BY <1>1, <1>2, <2>1 DEF WireInv, WireTypes, InUse
    <2>3. UnkeyToldIsUnkeyed' /\ KeyAsks'
      BY <1>1, <2>1, NoCallIs, ToldOff DEF WireInv, UnkeyToldIsUnkeyed, KeyAsks, InUse
    <2>4. RigctldInv'
      BY <1>1, <2>1 DEF WireInv, RigctldInv, InUse
    <2>5. QED
      BY <1>1, <1>2, <2>2, <2>3, <2>4 DEF WireInv
  <1>4. CASE ~(conn = 0 /\ ~up)
    <2>1. /\ conns' = IF conn = 0 THEN conns + 1 ELSE conns
          /\ conn' = IF conn = 0 THEN conns + 1 ELSE conn
          /\ toRig' = toRig \/ toRig' = Written(op, issued', conn')
          /\ call' = [op |-> op, id |-> issued', again |-> FALSE]
          /\ Asking(op)
      BY <1>4 DEF SendRigctld
    <2>2. conn' \in 1 .. conns' /\ conns' >= conns /\ conns' \in Nat /\ (conn = 0 => conn' > conns)
      BY <1>2, <2>1 DEF WireInv, WireTypes
    <2>3. toRig' # toRig =>
          /\ toRig' \in Seq(Commands) /\ toRig' # <<>>
          /\ Len(toRig) \in Nat /\ DOMAIN toRig = 1 .. Len(toRig)
          /\ Len(toRig') = Len(toRig) + 1 /\ DOMAIN toRig' = 1 .. Len(toRig) + 1
          /\ \A i \in DOMAIN toRig : toRig'[i] = toRig[i]
          /\ toRig'[Len(toRig) + 1] = [op |-> op, id |-> issued', conn |-> conn']
          /\ \A i \in DOMAIN toRig' : toRig'[i].id \in 1 .. issued' /\ toRig'[i].conn \in 1 .. conns'
          /\ \A i \in DOMAIN toRig' : toRig'[i].op = op \/ (i \in DOMAIN toRig /\ toRig'[i] = toRig[i])
      <3>1. WireTypes /\ issued' \in Nat /\ issued' >= issued /\ issued' \in 1 .. issued'
        BY <1>1, <1>2 DEF WireInv
      <3>2. QED
        BY <2>1, <2>2, <3>1, Queued
    <2>4. call' \in Calls /\ call'.id = issued' /\ call'.op = op /\ ~call'.again
      BY <1>1, <1>2, <2>1 DEF Calls
    <2>5. /\ toRig' \in Seq(Commands)
          /\ \A i \in DOMAIN toRig' : toRig'[i].id \in 1 .. issued' /\ toRig'[i].conn \in 1 .. conns'
      <3>1. CASE toRig' = toRig
        BY <1>1, <1>2, <2>2, <3>1 DEF WireInv, WireTypes
      <3>2. QED
        BY <2>3, <3>1
    <2>6. WireTypes'
      BY <1>1, <1>2, <2>2, <2>4, <2>5 DEF WireInv, WireTypes
    <2>7. UnkeyToldIsUnkeyed' /\ KeyAsks'
      <3>1. told' = "off" => told = "off" /\ op # "key"
        BY <2>1 DEF Asking
      <3>2. KeyAsks'
        BY <2>4, <3>1 DEF KeyAsks
      <3>3. QED
        BY <1>1, <2>3, <3>1, <3>2 DEF WireInv, UnkeyToldIsUnkeyed
    <2>8. RigctldInv'
      <3>1. InUse'
        <4>1. NoCall.op \notin Ops
          BY DEF NoCall, Ops, Reads, Sets
        <4>2. QED
          BY <2>4, <4>1 DEF InUse
      <3>2. ~adrift => /\ back = <<>> /\ buf = <<>>
                       /\ \A i \in DOMAIN toRig : toRig[i].conn # conn'
        BY <1>1, <2>1, <2>2 DEF WireInv, WireTypes, RigctldInv
      <3>3. ~adrift => \A i \in DOMAIN toRig' : toRig'[i].conn = conn' =>
               toRig'[i].id = call'.id /\ toRig'[i].op = call'.op /\ i = Len(toRig')
        <4>1. CASE toRig' = toRig
          BY <3>2, <4>1
        <4>2. CASE toRig' # toRig
          <5>1. \A i \in DOMAIN toRig' : i \in DOMAIN toRig \/ i = Len(toRig) + 1
            BY <2>3, <4>2
          <5>2. QED
            BY <2>3, <2>4, <3>2, <4>2, <5>1
        <4>3. QED
          BY <4>1, <4>2
      <3>4. conn' # 0
        BY <2>2
      <3>5. QED
        BY <1>1, <3>1, <3>2, <3>3, <3>4 DEF RigctldInv
    <2>9. QED
      BY <1>1, <1>2, <2>6, <2>7, <2>8 DEF WireInv
  <1>5. QED
    BY <1>3, <1>4


-----------------------------------------------------------------------------
(* Commands that end. *)

\* A CI-V command ends: the frames of one whose answer was not heard count as
\* overdue from here on.
LEMMA CivEnds ==
  ASSUME WireTypes, CivInv, InUse, call' = NoCall, overdue \subseteq overdue',
         UNCHANGED <<toRig, back, keyed, issued>>,
         \A i \in DOMAIN buf' : \E j \in DOMAIN buf : buf'[i] = buf[j],
         call.op \in Sets /\ call.id \notin overdue' =>
            /\ toRig = <<>>
            /\ \A i \in DOMAIN back : back[i].id # call.id
            /\ \A i \in DOMAIN buf' : buf'[i].id # call.id
  PROVE  CivInv'
  <1>1. call'.op = "none" /\ call'.id = 0 /\ ~InUse'
    BY NoCallIs DEF InUse
  <1>2. \A i \in DOMAIN toRig' : /\ toRig'[i].op \in Sets => toRig'[i].id \in overdue' \cup {call'.id}
                                 /\ toRig'[i].id # call'.id
    <2>1. \A i \in DOMAIN toRig : toRig[i].id # 0
      BY DEF WireTypes
    <2>2. \A i \in DOMAIN toRig : toRig[i].op \in Sets /\ toRig[i].id = call.id => toRig[i].id \in overdue'
      BY DEF CivInv
    <2>3. QED
      BY <1>1, <2>1, <2>2 DEF CivInv
  <1>3. (\A i \in DOMAIN back : Counted(back[i]))'
    BY <1>1 DEF CivInv, Counted
  <1>4. (\A i \in DOMAIN buf : Counted(buf[i]))'
    <2>1. \A j \in DOMAIN buf : Counted(buf[j])
      BY DEF CivInv
    <2>2. \A i \in DOMAIN buf' : /\ buf'[i].is # "runaway" /\ buf'[i].id <= issued'
                                 /\ buf'[i].is = "ok" => buf'[i].id \in overdue'
      BY <2>1 DEF Counted
    <2>3. QED
      BY <2>2 DEF Counted
  <1>5. QED
    BY <1>1, <1>2, <1>3, <1>4 DEF CivInv

LEMMA WireHears ==
  ASSUME WireInv, Hear
  PROVE  WireInv'
  <1> DEFINE f == Head(buf)
  <1>1. /\ InUse /\ buf # <<>> /\ f.is # "runaway" /\ buf' = Tail(buf)
        /\ UNCHANGED <<kind, conn, conns, toRig, back, keyed, issued, adrift>>
    BY DEF Hear
  <1>2. WireTypes /\ call \in Calls /\ buf \in Seq(Frames) /\ call.id \in 1 .. issued /\ kind # "line"
    BY <1>1, Calling DEF WireInv, WireTypes
  <1>3. /\ DOMAIN buf = 1 .. Len(buf) /\ 1 \in DOMAIN buf /\ f = buf[1] /\ f \in Frames
        /\ buf' \in Seq(Frames)
        /\ \A i \in DOMAIN buf' : i + 1 \in DOMAIN buf /\ buf'[i] = buf[i + 1]
        /\ Len(buf) = 1 => buf' = <<>>
    BY <1>1, <1>2, Popped
  <1>4. \/ /\ f.is = "refused" /\ Done(call.op, FALSE) /\ took' = took
        \/ /\ Answers(f) /\ Done(call.op, f.id \notin overdue /\ ~adrift)
           /\ took' = [op |-> call.op, id |-> call.id, f |-> f, sure |-> ~adrift]
        \/ UNCHANGED <<call, told, took>>
    BY DEF Hear
  <1>5. /\ call' = NoCall \/ call' = call
        /\ overdue' = IF call' = NoCall /\ f.id # call.id THEN GaveUp ELSE overdue
    BY <1>4 DEF Done, Hear
  <1>6. overdue \subseteq overdue' /\ (kind # "civ" => overdue' = overdue)
    BY <1>5 DEF GaveUp
  <1> HIDE DEF f
  \* On a rigctld socket whose position is known, the reply is the only one.
  <1>7. kind = "rigctld" /\ ~adrift => OwnReply(f) /\ back = <<>> /\ toRig = <<>> /\ buf' = <<>>
    BY <1>1, <1>3 DEF WireInv, RigctldInv, Coming
  <1>8. WireTypes'
    BY <1>1, <1>2, <1>3, <1>5, <1>6, NoCallIs DEF WireTypes, InUse
  <1>9. UnkeyToldIsUnkeyed' /\ KeyAsks'
    <2>1. told' = "off" => \/ told = "off"
                           \/ call.op = "unkey" /\ Answers(f) /\ f.id \notin overdue /\ ~adrift
      BY <1>4, ToldOff DEF Done
    <2>2. KeyAsks'
      <3>1. CASE call' = NoCall
        BY <3>1, NoCallIs DEF KeyAsks
      <3>2. CASE call' # NoCall
        BY <1>4, <3>2 DEF Done, WireInv, KeyAsks
      <3>3. QED
        BY <3>1, <3>2
    <2>3. kind = "civ" /\ call.op = "unkey" /\ Answers(f) /\ f.id \notin overdue => ~keyed /\ toRig = <<>>
      <3>1. kind = "civ" => CivInv /\ Counted(f)
        BY <1>3 DEF WireInv, CivInv
      <3>2. kind = "civ" /\ call.op = "unkey" /\ Answers(f) => f.is = "ok"
        BY DEF Answers, CivReply, Reads
      <3>3. kind = "civ" /\ f.id = call.id => toRig = <<>>
        BY <1>1, <1>3, <3>1 DEF CivInv
      <3>4. QED
        BY <3>1, <3>2, <3>3 DEF Counted
    <2>4. kind = "rigctld" /\ call.op = "unkey" /\ Answers(f) /\ ~adrift => ~keyed /\ toRig = <<>>
      BY <1>7 DEF OwnReply, Answers, RprtReply, Reads
    <2>5. QED
      BY <1>1, <1>2, <2>1, <2>2, <2>3, <2>4 DEF WireInv, UnkeyToldIsUnkeyed
  <1>10. AnswersOwnCommand'
    <2>1. CASE took' = took
      BY <1>1, <1>6, <2>1 DEF WireInv, AnswersOwnCommand
    <2>2. CASE took' # took
      <3>1. /\ Answers(f)
            /\ took' = [op |-> call.op, id |-> call.id, f |-> f, sure |-> ~adrift]
        BY <1>4, <2>2
      <3>2. took'.op = call.op /\ took'.id = call.id /\ took'.f = f /\ took'.sure = ~adrift
        BY <3>1
      <3>3. kind = "rigctld" /\ ~adrift => f.op = call.op /\ f.id = call.id
        BY <1>7 DEF OwnReply
      <3>4. kind # "rigctld" /\ call.op \in Reads => f.op = call.op
        BY <1>2, <3>1 DEF Answers, CivReply, KenwoodReply, YaesuReply, WireTypes, Kinds
      <3>5. kind = "civ" /\ call.op \in Sets => f.id \in overdue \cup {call.id}
        <4>1. kind = "civ" /\ call.op \in Sets => f.is = "ok"
          BY <3>1 DEF Answers, CivReply, Sets, Reads
        <4>2. kind = "civ" => Counted(f)
          BY <1>3 DEF WireInv, CivInv
        <4>3. QED
          BY <4>1, <4>2 DEF Counted
      <3>6. QED
        BY <1>1, <1>6, <3>2, <3>3, <3>4, <3>5 DEF AnswersOwnCommand
    <2>3. QED
      BY <2>1, <2>2
  <1>11. kind = "civ" => CivInv'
    <2> SUFFICES ASSUME kind = "civ"
                 PROVE  CivInv'
      OBVIOUS
    <2>1. CivInv
      BY DEF WireInv
    <2>2. CASE call' = call
      <3>1. call' # NoCall
        BY <1>1, <2>2 DEF InUse
      <3>2. overdue' = overdue
        BY <1>5, <3>1
      <3>3. (\A i \in DOMAIN buf : Counted(buf[i]))'
        BY <1>1, <1>3, <2>1, <2>2, <3>2 DEF CivInv, Counted
      <3>4. \A i \in DOMAIN buf' : buf'[i].id = call.id =>
               /\ toRig = <<>>
               /\ \A j \in DOMAIN buf' : buf'[j].id = call.id => i = j
        <4>1. TAKE i \in DOMAIN buf'
        <4>2. HAVE buf'[i].id = call.id
        <4>3. toRig = <<>> /\ \A j \in DOMAIN buf : buf[j].id = call.id => i + 1 = j
          BY <1>1, <1>3, <2>1, <4>2 DEF CivInv
        <4>4. \A j \in DOMAIN buf' : buf'[j].id = call.id => i + 1 = j + 1
          BY <1>3, <4>3
        <4>5. \A j \in DOMAIN buf' : i \in Nat /\ j \in Nat
          BY <1>3
        <4>6. QED
          BY <4>3, <4>4, <4>5
      <3>5. \A i \in DOMAIN back : Counted(back[i])' /\ (back[i].id = call.id =>
               /\ toRig = <<>>
               /\ \A j \in DOMAIN back : back[j].id = call.id => i = j
               /\ \A j \in DOMAIN buf' : buf'[j].id # call.id)
        BY <1>1, <1>3, <2>1, <2>2, <3>2 DEF CivInv, Counted
      <3>6. QED
        BY <1>1, <2>1, <2>2, <3>2, <3>3, <3>4, <3>5 DEF CivInv
    <2>3. CASE call' = NoCall
      <3>1. \A i \in DOMAIN buf' : \E j \in DOMAIN buf : buf'[i] = buf[j]
        BY <1>3
      <3>2. call.op \in Sets /\ call.id \notin overdue' =>
              /\ toRig = <<>>
              /\ \A i \in DOMAIN back : back[i].id # call.id
              /\ \A i \in DOMAIN buf' : buf'[i].id # call.id
        <4>1. call.op \in Sets /\ call.id \notin overdue' => f.id = call.id
          BY <1>5, <2>3 DEF GaveUp
        <4>2. f.id = call.id => /\ toRig = <<>>
                                /\ \A j \in DOMAIN buf : buf[j].id = call.id => 1 = j
                                /\ \A i \in DOMAIN back : back[i].id # call.id
          BY <1>1, <1>3, <2>1 DEF CivInv
        <4>3. \A i \in DOMAIN buf' : i + 1 # 1
          BY <1>3
        <4>4. QED
          BY <1>3, <4>1, <4>2, <4>3
      <3>3. QED
        BY <1>1, <1>2, <1>6, <2>1, <2>3, <3>1, <3>2, CivEnds
    <2>4. QED
      BY <1>5, <2>2, <2>3
  <1>12. kind = "rigctld" => RigctldInv'
    BY <1>1, <1>7 DEF WireInv, RigctldInv
  <1>13. QED
    BY <1>1, <1>8, <1>9, <1>10, <1>11, <1>12 DEF WireInv

\* A command ends with nothing heard: by a timeout, a broken link, a runaway
\* reply.
LEMMA WireFails ==
  ASSUME WireInv, InUse, Done(call.op, FALSE), overdue' = GaveUp \/ (kind # "civ" /\ overdue' = overdue),
         UNCHANGED <<kind, conns, toRig, keyed, issued, took>>,
         \/ UNCHANGED <<conn, back, buf, adrift>> /\ kind # "rigctld"
         \/ Drop /\ kind # "civ"
  PROVE  WireInv'
  <1>1. call' = NoCall /\ WireTypes /\ kind # "line"
    BY DEF WireInv, WireTypes, Done
  <1>2. overdue \subseteq overdue' /\ (kind # "civ" => overdue' = overdue)
    BY DEF GaveUp
  <1>3. WireTypes'
    <2>1. back' = back \/ back' = <<>>
      BY DEF Drop
    <2>2. buf' = buf \/ buf' = <<>>
      BY DEF Drop
    <2>3. conn' \in 0 .. conns' /\ (adrift' => kind' = "rigctld") /\ ~call'.again /\ ~InUse'
      BY <1>1, NoCallIs DEF WireTypes, Drop, InUse
    <2>4. QED
      BY <1>1, <1>2, <2>1, <2>2, <2>3, NothingIn DEF WireTypes
  <1>4. told' = "off" => told = "off"
    BY ToldOff DEF Done
  <1>5. UnkeyToldIsUnkeyed' /\ KeyAsks'
    BY <1>1, <1>4, NoCallIs DEF WireInv, UnkeyToldIsUnkeyed, KeyAsks
  <1>6. AnswersOwnCommand'
    BY <1>2 DEF WireInv, AnswersOwnCommand
  <1>7. kind = "civ" => CivInv'
    <2> SUFFICES ASSUME kind = "civ"
                 PROVE  CivInv'
      OBVIOUS
    <2>1. CivInv /\ overdue' = GaveUp /\ UNCHANGED <<back, buf>>
      BY DEF WireInv
    <2>2. call.op \in Sets => call.id \in overdue'
      BY <2>1 DEF GaveUp
    <2>3. \A i \in DOMAIN buf' : \E j \in DOMAIN buf : buf'[i] = buf[j]
      BY <2>1
    <2>4. QED
      BY <1>1, <1>2, <2>1, <2>2, <2>3, CivEnds
  <1>8. kind = "rigctld" => RigctldInv'
    <2> SUFFICES ASSUME kind = "rigctld"
                 PROVE  RigctldInv'
      OBVIOUS
    <2>1. conn' = 0 /\ back' = <<>> /\ buf' = <<>>
      BY DEF Drop, Serial
    <2>2. \A i \in DOMAIN toRig' : toRig'[i].conn # 0
      BY <1>1 DEF WireTypes
    <2>3. QED
      BY <2>1, <2>2 DEF RigctldInv
  <1>9. QED
    BY <1>3, <1>5, <1>6, <1>7, <1>8 DEF WireInv

LEMMA WireRunaway ==
  ASSUME WireInv, Runaway
  PROVE  WireInv'
  <1>1. /\ InUse /\ buf # <<>> /\ Head(buf).is = "runaway" /\ Done(call.op, FALSE)
        /\ UNCHANGED <<kind, conns, toRig, keyed, issued, took, overdue>>
    BY DEF Runaway
  <1>2. WireTypes /\ buf \in Seq(Frames)
    BY DEF WireInv, WireTypes
  <1>3. 1 \in DOMAIN buf /\ Head(buf) = buf[1] /\ Tail(buf) \in Seq(Frames)
    BY <1>1, <1>2, Popped
  <1>4. kind # "civ"
    BY <1>1, <1>3 DEF WireInv, CivInv, Counted
  <1>5. CASE ~call.again
    <2>1. Drop
      BY <1>5 DEF Runaway
    <2>2. QED
      BY <1>1, <1>4, <2>1, WireFails
  <1>6. CASE call.again
    <2>1. /\ kind = "rigctld" /\ buf' = Tail(buf) /\ adrift' = TRUE /\ UNCHANGED <<conn, back>>
          /\ call' = NoCall
      BY <1>1, <1>2, <1>6 DEF Runaway, WireTypes, Done
    <2>2. WireTypes'
      BY <1>1, <1>2, <1>3, <2>1, NoCallIs DEF WireTypes, InUse
    <2>3. told' = "off" => told = "off"
      BY <1>1, ToldOff DEF Done
    <2>4. UnkeyToldIsUnkeyed' /\ KeyAsks' /\ AnswersOwnCommand'
      BY <1>1, <2>1, <2>3, NoCallIs DEF WireInv, UnkeyToldIsUnkeyed, KeyAsks, AnswersOwnCommand
    <2>5. RigctldInv'
      BY <1>1, <2>1 DEF WireInv, RigctldInv
    <2>6. QED
      BY <1>1, <2>1, <2>2, <2>4, <2>5 DEF WireInv
  <1>7. QED
    BY <1>5, <1>6

LEMMA WireDeadline ==
  ASSUME WireInv, Deadline
  PROVE  WireInv'
  BY WireFails DEF Deadline, Serial

LEMMA WireBroken ==
  ASSUME WireInv, Broken
  PROVE  WireInv'
  <1>1. InUse /\ UNCHANGED <<kind, keyed, issued, took>>
    BY DEF Broken
  <1>2. CASE Serial \/ call.again \/ ~up \/ conns = MaxConns
    BY <1>1, <1>2, WireFails DEF Broken, Serial
  <1>3. CASE ~(Serial \/ call.again \/ ~up \/ conns = MaxConns)
    <2>1. /\ kind = "rigctld" /\ conns' = conns + 1 /\ conn' = conns + 1
          /\ buf' = <<>> /\ back' = <<>> /\ adrift' = FALSE
          /\ toRig' = Written(call.op, call.id, conns + 1)
          /\ call' = [call EXCEPT !.again = TRUE] /\ UNCHANGED <<told, overdue>>
      BY <1>3 DEF Broken, Serial
    <2>2. WireTypes /\ call \in Calls /\ call.id \in 1 .. issued /\ call.op \in Ops
      BY <1>1, Calling DEF WireInv, WireTypes
    <2>3. call' \in Calls /\ call'.id = call.id /\ call'.op = call.op /\ InUse'
      <3>1. call' \in Calls /\ call'.id = call.id /\ call'.op = call.op
        BY <2>1, <2>2 DEF Calls
      <3>2. QED
        BY <2>2, <3>1, NoCallIs DEF InUse
    <2>4. /\ issued' \in Nat /\ issued' >= issued /\ call.id \in 1 .. issued'
          /\ conns' \in Nat /\ conns' >= conns /\ conns + 1 \in 1 .. conns'
      BY <1>1, <2>1, <2>2 DEF WireTypes
    <2>5. /\ toRig' \in Seq(Commands) /\ Len(toRig) \in Nat /\ DOMAIN toRig = 1 .. Len(toRig)
          /\ Len(toRig') = Len(toRig) + 1 /\ DOMAIN toRig' = 1 .. Len(toRig) + 1
          /\ \A i \in DOMAIN toRig : toRig'[i] = toRig[i]
          /\ toRig'[Len(toRig) + 1] = [op |-> call.op, id |-> call.id, conn |-> conns + 1]
          /\ \A i \in DOMAIN toRig' : toRig'[i].id \in 1 .. issued' /\ toRig'[i].conn \in 1 .. conns'
          /\ \A i \in DOMAIN toRig' : toRig'[i].op = call.op \/ (i \in DOMAIN toRig /\ toRig'[i] = toRig[i])
      BY <2>1, <2>2, <2>4, Queued
    <2>6. WireTypes'
      BY <1>1, <2>1, <2>2, <2>3, <2>4, <2>5, NothingIn DEF WireTypes
    <2>7. UnkeyToldIsUnkeyed' /\ KeyAsks' /\ AnswersOwnCommand'
      BY <1>1, <2>1, <2>3, <2>5 DEF WireInv, UnkeyToldIsUnkeyed, KeyAsks, AnswersOwnCommand
    <2>8. RigctldInv'
      <3>1. \A i \in DOMAIN toRig' : toRig'[i].conn = conn' =>
               toRig'[i].id = call'.id /\ toRig'[i].op = call'.op /\ i = Len(toRig')
        <4>1. TAKE i \in DOMAIN toRig'
        <4>2. CASE i \in DOMAIN toRig
          BY <2>1, <2>2, <2>5, <4>2 DEF WireTypes
        <4>3. CASE i = Len(toRig) + 1
          BY <2>3, <2>5, <4>3
        <4>4. QED
          BY <2>5, <4>2, <4>3
      <3>2. QED
        BY <2>1, <2>3, <3>1 DEF RigctldInv
    <2>9. QED
      BY <1>1, <2>1, <2>6, <2>7, <2>8 DEF WireInv
  <1>4. QED
    BY <1>2, <1>3

-----------------------------------------------------------------------------
(* The other end: commands taken, replies sent and delivered. *)

\* A rigctld stream of known position has nothing on it while the daemon still
\* has a command to take; that command is the last, and of the socket in use
\* only when it is the one in progress.
LEMMA RigctldPending ==
  ASSUME WireInv, kind = "rigctld", ~adrift, toRig # <<>>
  PROVE  /\ back = <<>> /\ buf = <<>>
         /\ toRig[1].conn = conn => /\ InUse /\ toRig[1].id = call.id /\ toRig[1].op = call.op
                                    /\ Len(toRig) = 1
  <1>1. toRig \in Seq(Commands)
    BY DEF WireInv, WireTypes
  <1>2. 1 \in DOMAIN toRig
    BY <1>1
  <1>3. QED
    BY <1>2 DEF WireInv, RigctldInv

LEMMA WireTakes ==
  ASSUME WireInv, NEW what, RigTakes(what)
  PROVE  WireInv'
  <1> DEFINE c == Head(toRig)
  <1>1. /\ toRig # <<>> /\ toRig' = Tail(toRig)
        /\ keyed' = IF what \in {"do", "mute"} /\ c.op \in {"key", "unkey"} THEN c.op = "key" ELSE keyed
        /\ UNCHANGED <<kind, conn, conns, call, buf, issued, told, took, overdue, adrift>>
    BY DEF RigTakes
  <1>2. WireTypes /\ toRig \in Seq(Commands) /\ back \in Seq(Frames) /\ kind # "line"
    BY <1>1 DEF WireInv, WireTypes
  <1>3. /\ DOMAIN toRig = 1 .. Len(toRig) /\ 1 \in DOMAIN toRig /\ c = toRig[1] /\ c \in Commands
        /\ toRig' \in Seq(Commands) /\ DOMAIN toRig' = 1 .. Len(toRig) - 1
        /\ Len(toRig) \in Nat /\ Len(toRig') = Len(toRig) - 1
        /\ \A i \in DOMAIN toRig' : i + 1 \in DOMAIN toRig /\ toRig'[i] = toRig[i + 1]
        /\ Len(toRig) = 1 => toRig' = <<>>
    BY <1>1, <1>2, Popped
  <1>4. c.op \in Ops /\ c.id \in 1 .. issued /\ c.conn \in 1 .. conns
    BY <1>2, <1>3 DEF WireTypes, Commands
  <1>5. \/ back' = back /\ (Serial \/ ~(c.conn = conn /\ sound))
        \/ \E r \in Frames : /\ back' = Append(back, r)
                             /\ r.id = c.id /\ r.op = c.op
                             /\ \/ r.is = "refused"
                                \/ r.is = "data" /\ c.op \in Reads
                                \/ r.is = "ok" /\ c.op \in Sets /\ what = "do"
                             /\ Serial \/ c.conn = conn
    <2>1. CASE Serial \/ (c.conn = conn /\ sound)
      <3>1. \/ /\ what = "refuse" /\ back' = back \o <<Frame("refused", c.op, c.id)>>
            \/ /\ what = "do" /\ c.op \in Reads /\ back' = back \o <<Frame("data", c.op, c.id)>>
            \/ /\ what = "do" /\ c.op \in Sets /\ back' = back \o <<Frame("ok", c.op, c.id)>>
            \/ /\ what \in {"miss", "mute"} \/ (c.op \in Sets /\ ~Answered(c.op))
               /\ back' = back \o <<>>
        <4>1. c.op \in Reads <=> c.op \notin Sets
          BY <1>4 DEF Ops, Reads, Sets
        <4>2. what \in {"do", "refuse", "miss", "mute"}
          BY DEF RigTakes
        <4>3. QED
          BY <2>1, <4>1, <4>2 DEF RigTakes
      <3>2. \A is \in {"refused", "data", "ok"} :
               /\ Frame(is, c.op, c.id) \in Frames /\ Frame(is, c.op, c.id).is = is
               /\ Frame(is, c.op, c.id).op = c.op /\ Frame(is, c.op, c.id).id = c.id
        BY <1>2, <1>4 DEF Frame, Frames, WireTypes
      <3>3. \A r \in Frames : back \o <<r>> = Append(back, r)
        BY <1>2, Pushed
      <3>4. back \o <<>> = back
        BY <1>2
      <3>5. what \in {"miss", "mute"} \/ ~Answered(c.op) => Serial
        BY <1>4, AllAnswered DEF RigTakes, Serial, WireTypes, Kinds
      <3>6. QED
        BY <2>1, <3>1, <3>2, <3>3, <3>4, <3>5
    <2>2. CASE ~(Serial \/ (c.conn = conn /\ sound))
      BY <2>2 DEF RigTakes
    <2>3. QED
      BY <2>1, <2>2
  <1> HIDE DEF c
  <1>6. WireTypes'
    <2>1. back' \in Seq(Frames)
      BY <1>2, <1>5, Pushed
    <2>2. \A i \in DOMAIN toRig' : toRig'[i].id \in 1 .. issued /\ toRig'[i].conn \in 1 .. conns
      BY <1>2, <1>3 DEF WireTypes
    <2>3. QED
      BY <1>1, <1>2, <1>3, <2>1, <2>2 DEF WireTypes, InUse
  <1>7. told = "off" /\ kind \in {"civ", "rigctld"} => (keyed' => keyed) /\ c.op # "key"
    BY <1>1, <1>3 DEF WireInv, UnkeyToldIsUnkeyed
  <1>8. UnkeyToldIsUnkeyed' /\ KeyAsks' /\ AnswersOwnCommand'
    BY <1>1, <1>2, <1>3, <1>7 DEF WireInv, UnkeyToldIsUnkeyed, KeyAsks, AnswersOwnCommand
  <1>9. kind = "civ" => CivInv'
    <2> SUFFICES ASSUME kind = "civ"
                 PROVE  CivInv'
      OBVIOUS
    <2>1. CivInv
      BY DEF WireInv
    \* Neither what is on its way nor what is in the buffer answers the
    \* command in progress: the rig has yet to take one.
    <2>2. /\ \A i \in DOMAIN back : Counted(back[i]) /\ (InUse => back[i].id # call.id)
          /\ \A i \in DOMAIN buf : Counted(buf[i]) /\ (InUse => buf[i].id # call.id)
      BY <1>1, <2>1 DEF CivInv
    <2>3. ~InUse => call.op = "none" /\ "none" \notin Sets
      BY <1>2, Calling DEF WireTypes, Sets
    <2>4. /\ \A i \in DOMAIN back : /\ back[i].is # "runaway" /\ back[i].id <= issued
                                    /\ back[i].is = "ok" => back[i].id \in overdue
          /\ \A i \in DOMAIN buf : /\ buf[i].is # "runaway" /\ buf[i].id <= issued
                                   /\ buf[i].is = "ok" => buf[i].id \in overdue
      BY <2>2, <2>3 DEF Counted
    <2>5. \A i \in DOMAIN toRig' : /\ toRig'[i].op \in Sets => toRig'[i].id \in overdue \cup {call.id}
                                   /\ toRig'[i].id = call.id => i = Len(toRig') /\ toRig'[i].op = call.op
      <3>1. TAKE i \in DOMAIN toRig'
      <3>2. i + 1 \in DOMAIN toRig /\ toRig'[i] = toRig[i + 1] /\ i \in Nat
        BY <1>3
      <3>3. QED
        BY <1>3, <2>1, <3>2 DEF CivInv
    <2>6. (\A i \in DOMAIN buf : Counted(buf[i]))'
      BY <1>1, <2>4 DEF Counted
    <2>7. CASE back' = back
      <3>1. (\A i \in DOMAIN back : Counted(back[i]))'
        BY <1>1, <2>4, <2>7 DEF Counted
      <3>2. QED
        BY <1>1, <2>2, <2>5, <2>6, <2>7, <3>1 DEF CivInv, InUse
    <2>8. CASE \E r \in Frames : /\ back' = Append(back, r) /\ r.id = c.id
                                 /\ \/ r.is \in {"refused", "data"}
                                    \/ r.is = "ok" /\ c.op \in Sets /\ what = "do"
      <3>1. PICK r \in Frames : /\ back' = Append(back, r) /\ r.id = c.id
                                /\ \/ r.is \in {"refused", "data"}
                                   \/ r.is = "ok" /\ c.op \in Sets /\ what = "do"
        BY <2>8
      <3>2. /\ DOMAIN back = 1 .. Len(back) /\ DOMAIN back' = 1 .. Len(back) + 1 /\ Len(back) \in Nat
            /\ back'[Len(back) + 1] = r /\ \A i \in DOMAIN back : back'[i] = back[i]
        BY <1>2, <3>1, Pushed
      <3>3. \A i \in DOMAIN back' : i \in DOMAIN back \/ i = Len(back) + 1
        BY <3>2
      <3>4. c.op \in Sets => c.id \in overdue \cup {call.id}
        BY <1>3, <2>1 DEF CivInv
      <3>5. c.id = call.id => toRig' = <<>> /\ c.op = call.op
        BY <1>3, <2>1 DEF CivInv
      <3>6. /\ r.is # "runaway" /\ r.id <= issued
            /\ r.is = "ok" => \/ r.id \in overdue
                              \/ r.id = call.id /\ call.op \in Sets /\ (call.op = "unkey" => ~keyed')
        <4>1. r.is = "ok" /\ c.op = "unkey" => ~keyed'
          BY <1>1, <3>1
        <4>2. r.is # "runaway" /\ r.id <= issued
          BY <1>2, <1>4, <3>1 DEF WireTypes
        <4>3. QED
          BY <3>1, <3>4, <3>5, <4>1, <4>2
      <3>7. (\A i \in DOMAIN back : Counted(back[i]))'
        BY <1>1, <2>4, <3>2, <3>3, <3>6 DEF Counted
      <3>8. InUse => \A i \in DOMAIN back' : back'[i].id = call.id =>
               i = Len(back) + 1 /\ toRig' = <<>>
        BY <2>2, <3>1, <3>2, <3>3, <3>5
      <3>9. QED
        BY <1>1, <2>2, <2>5, <2>6, <3>7, <3>8 DEF CivInv, InUse
    <2>9. QED
      BY <1>5, <2>7, <2>8
  <1>10. kind = "rigctld" => RigctldInv'
    <2> SUFFICES ASSUME kind = "rigctld"
                 PROVE  RigctldInv'
      OBVIOUS
    <2>1. conn = 0 => back' = <<>> /\ buf' = <<>>
      BY <1>1, <1>4, <1>5 DEF WireInv, RigctldInv, Serial
    <2>2. CASE adrift
      BY <1>1, <2>1, <2>2 DEF RigctldInv
    <2>3. CASE ~adrift
      <3>1. /\ back = <<>> /\ buf = <<>>
            /\ c.conn = conn => InUse /\ c.id = call.id /\ c.op = call.op /\ Len(toRig) = 1
        BY <1>1, <1>3, <2>3, RigctldPending
      <3>2. CASE c.conn = conn
        <4>1. toRig' = <<>> /\ InUse'
          BY <1>1, <1>3, <3>1, <3>2 DEF InUse
        <4>2. CASE back' = back
          BY <1>1, <2>1, <3>1, <4>1, <4>2 DEF RigctldInv
        <4>3. CASE \E r \in Frames : /\ back' = Append(back, r) /\ r.id = c.id /\ r.op = c.op
                                     /\ \/ r.is = "refused"
                                        \/ r.is = "data" /\ c.op \in Reads
                                        \/ r.is = "ok" /\ c.op \in Sets /\ what = "do"
          <5>1. PICK r \in Frames : /\ back' = Append(back, r) /\ r.id = c.id /\ r.op = c.op
                                    /\ \/ r.is = "refused"
                                       \/ r.is = "data" /\ c.op \in Reads
                                       \/ r.is = "ok" /\ c.op \in Sets /\ what = "do"
            BY <4>3
          <5>2. back' = <<r>> /\ Len(back') = 1 /\ back'[1] = r
            BY <1>2, <3>1, <5>1
          <5>3. r.is = "ok" /\ r.op = "unkey" => ~keyed'
            BY <1>1, <5>1
          <5>4. OwnReply(back[1])'
            BY <1>1, <3>1, <3>2, <5>1, <5>2, <5>3 DEF OwnReply
          <5>5. Coming'
            BY <1>1, <3>1, <5>2, <5>4 DEF Coming
          <5>6. QED
            BY <1>1, <2>1, <4>1, <5>5 DEF RigctldInv
        <4>4. QED
          BY <1>5, <4>2, <4>3
      <3>3. CASE c.conn # conn
        <4>1. back' = back
          BY <1>5, <3>3 DEF Serial
        <4>2. \A i \in DOMAIN toRig' : toRig'[i].conn = conn =>
                 InUse /\ toRig'[i].id = call.id /\ toRig'[i].op = call.op /\ i = Len(toRig')
          <5>1. TAKE i \in DOMAIN toRig'
          <5>2. i + 1 \in DOMAIN toRig /\ toRig'[i] = toRig[i + 1] /\ i \in Nat
            BY <1>3
          <5>3. QED
            BY <1>3, <2>3, <5>2 DEF WireInv, RigctldInv
        <4>3. QED
          BY <1>1, <3>1, <4>1, <4>2 DEF RigctldInv, InUse
      <3>4. QED
        BY <3>2, <3>3
    <2>4. QED
      BY <2>2, <2>3
  <1>11. QED
    BY <1>1, <1>6, <1>8, <1>9, <1>10 DEF WireInv

LEMMA WireDelivers ==
  ASSUME WireInv, Deliver
  PROVE  WireInv'
  <1> DEFINE f == Head(back)
  <1>1. /\ back # <<>> /\ back' = Tail(back) /\ buf' = Append(buf, f)
        /\ UNCHANGED <<kind, conn, conns, call, toRig, keyed, issued, told, took, overdue, adrift>>
    BY DEF Deliver
  <1>2. WireTypes /\ back \in Seq(Frames) /\ buf \in Seq(Frames)
    BY DEF WireInv, WireTypes
  <1>3. /\ DOMAIN back = 1 .. Len(back) /\ 1 \in DOMAIN back /\ f = back[1] /\ f \in Frames
        /\ back' \in Seq(Frames) /\ DOMAIN back' = 1 .. Len(back) - 1
        /\ \A i \in DOMAIN back' : i + 1 \in DOMAIN back /\ back'[i] = back[i + 1]
        /\ Len(back) = 1 => back' = <<>>
    BY <1>1, <1>2, Popped
  <1>4. /\ buf' \in Seq(Frames) /\ buf' # <<>> /\ Len(buf) \in Nat /\ DOMAIN buf = 1 .. Len(buf)
        /\ DOMAIN buf' = 1 .. Len(buf) + 1 /\ Len(buf') = Len(buf) + 1
        /\ buf'[Len(buf) + 1] = f /\ \A i \in DOMAIN buf : buf'[i] = buf[i]
    BY <1>1, <1>2, <1>3, Pushed
  <1> HIDE DEF f
  <1>5. WireTypes'
    BY <1>1, <1>2, <1>3, <1>4 DEF WireTypes, InUse
  <1>6. UnkeyToldIsUnkeyed' /\ KeyAsks' /\ AnswersOwnCommand'
    BY <1>1 DEF WireInv, UnkeyToldIsUnkeyed, KeyAsks, AnswersOwnCommand
  <1>7. \A i \in DOMAIN buf' : i \in DOMAIN buf \/ i = Len(buf) + 1
    BY <1>4
  <1>8. kind = "civ" => CivInv'
    <2> SUFFICES ASSUME kind = "civ"
                 PROVE  CivInv'
      OBVIOUS
    <2>1. CivInv
      BY DEF WireInv
    <2>2. (\A i \in DOMAIN back : Counted(back[i]))' /\ (\A i \in DOMAIN buf : Counted(buf[i]))'
      BY <1>1, <1>3, <1>4, <1>7, <2>1 DEF CivInv, Counted
    <2>3. ASSUME InUse, NEW i \in DOMAIN back', back'[i].id = call.id
          PROVE  /\ toRig = <<>>
                 /\ \A j \in DOMAIN back' : back'[j].id = call.id => i = j
                 /\ \A j \in DOMAIN buf' : buf'[j].id # call.id
      <3>1. i + 1 \in DOMAIN back /\ back[i + 1].id = call.id /\ i \in Nat /\ i + 1 # 1
        BY <1>3, <2>3
      <3>2. /\ toRig = <<>>
            /\ \A j \in DOMAIN back : back[j].id = call.id => i + 1 = j
            /\ \A j \in DOMAIN buf : buf[j].id # call.id
        BY <2>1, <2>3, <3>1 DEF CivInv
      <3>3. f.id # call.id
        BY <1>3, <3>1, <3>2
      <3>4. \A j \in DOMAIN back' : back'[j].id = call.id => i + 1 = j + 1 /\ j \in Nat
        BY <1>3, <3>2
      <3>5. \A j \in DOMAIN back' : back'[j].id = call.id => i = j
        BY <3>1, <3>4
      <3>6. \A j \in DOMAIN buf' : buf'[j].id # call.id
        BY <1>4, <1>7, <3>2, <3>3
      <3>7. QED
        BY <3>2, <3>5, <3>6
    <2>4. ASSUME InUse, NEW i \in DOMAIN buf', buf'[i].id = call.id
          PROVE  toRig = <<>> /\ \A j \in DOMAIN buf' : buf'[j].id = call.id => i = j
      <3>1. CASE i \in DOMAIN buf
        <4>1. toRig = <<>> /\ \A j \in DOMAIN buf : buf[j].id = call.id => i = j
          BY <1>4, <2>1, <2>4, <3>1 DEF CivInv
        <4>2. f.id # call.id
          BY <1>3, <1>4, <2>1, <2>4, <3>1 DEF CivInv
        <4>3. QED
          BY <1>4, <1>7, <4>1, <4>2
      <3>2. CASE i = Len(buf) + 1
        <4>1. f.id = call.id
          BY <1>4, <2>4, <3>2
        <4>2. toRig = <<>> /\ \A j \in DOMAIN buf : buf[j].id # call.id
          BY <1>3, <2>1, <2>4, <4>1 DEF CivInv
        <4>3. QED
          BY <1>4, <1>7, <3>2, <4>2
      <3>3. QED
        BY <1>7, <2>4, <3>1, <3>2
    <2>5. InUse' <=> InUse
      BY <1>1 DEF InUse
    <2>6. QED
      BY <1>1, <2>1, <2>2, <2>3, <2>4, <2>5 DEF CivInv
  <1>9. kind = "rigctld" => RigctldInv'
    <2> SUFFICES ASSUME kind = "rigctld"
                 PROVE  RigctldInv'
      OBVIOUS
    <2>1. conn # 0
      BY <1>1 DEF WireInv, RigctldInv
    <2>2. ~adrift => InUse /\ toRig = <<>> /\ Coming
      BY <1>1 DEF WireInv, RigctldInv
    <2>3. ~adrift => Coming'
      <3> SUFFICES ASSUME ~adrift
                   PROVE  Coming'
        OBVIOUS
      <3>1. CASE buf # <<>> /\ buf[1].is = "runaway"
        <4>1. 1 \in DOMAIN buf
          BY <1>2, <3>1
        <4>2. buf'[1] = buf[1]
          BY <1>4, <4>1
        <4>3. QED
          BY <1>4, <3>1, <4>2 DEF Coming
      <3>2. CASE buf = <<>>
        <4>1. buf' # <<>> /\ Len(buf') = 1 /\ buf'[1] = back[1]
          BY <1>3, <1>4, <3>2
        <4>2. CASE back[1].is = "runaway"
          BY <4>1, <4>2 DEF Coming
        <4>3. CASE Len(back) = 1 /\ OwnReply(back[1])
          <5>1. OwnReply(buf[1])'
            BY <1>1, <4>1, <4>3 DEF OwnReply
          <5>2. back' = <<>>
            BY <1>3, <4>3
          <5>3. QED
            BY <4>1, <5>1, <5>2 DEF Coming
        <4>4. QED
          BY <1>1, <2>2, <3>2, <4>2, <4>3 DEF Coming
      <3>3. QED
        BY <1>1, <2>2, <3>1, <3>2 DEF Coming
    <2>4. ~adrift => InUse' /\ toRig' = <<>>
      BY <1>1, <2>2 DEF InUse
    <2>5. QED
      BY <1>1, <2>1, <2>3, <2>4 DEF RigctldInv
  <1>10. QED
    BY <1>1, <1>5, <1>6, <1>8, <1>9 DEF WireInv

LEMMA WireUnasked ==
  ASSUME WireInv, Unasked
  PROVE  WireInv'
  <1>1. /\ kind # "line"
        /\ UNCHANGED <<kind, conn, conns, call, buf, keyed, issued, told, took, overdue, adrift>>
    BY DEF Unasked
  <1>2. WireTypes /\ back \in Seq(Frames) /\ toRig \in Seq(Commands) /\ "none" \notin Ops
    BY DEF WireInv, WireTypes, Ops, Reads, Sets
  <1>3. CASE kind = "rigctld"
    <2>1. /\ toRig # <<>> /\ Head(toRig).conn = conn /\ toRig' = Tail(toRig)
          /\ back' = back \o <<Frame("runaway", "none", 0), Frame("ok", "none", 0)>>
      BY <1>3 DEF Unasked
    <2>2. /\ Head(toRig) = toRig[1] /\ 1 \in DOMAIN toRig
          /\ toRig' \in Seq(Commands) /\ Len(toRig) = 1 => toRig' = <<>>
          /\ \A i \in DOMAIN toRig' : i + 1 \in DOMAIN toRig /\ toRig'[i] = toRig[i + 1]
      BY <1>2, <2>1, Popped
    <2>3. /\ Frame("runaway", "none", 0) \in Frames /\ Frame("ok", "none", 0) \in Frames
          /\ Frame("runaway", "none", 0).is = "runaway"
      BY DEF Frame, Frames
    <2>4. back' \in Seq(Frames) /\ (back = <<>> => back' # <<>> /\ back'[1].is = "runaway")
      BY <1>2, <2>1, <2>3
    <2>5. WireTypes'
      BY <1>1, <1>2, <1>3, <2>2, <2>4, <2>1, Popped DEF WireTypes, InUse
    <2>6. UnkeyToldIsUnkeyed' /\ KeyAsks' /\ AnswersOwnCommand'
      BY <1>1, <2>2 DEF WireInv, UnkeyToldIsUnkeyed, KeyAsks, AnswersOwnCommand
    <2>7. conn # 0
      BY <1>2, <2>1, <2>2 DEF WireTypes
    <2>8. ~adrift => InUse' /\ toRig' = <<>> /\ Coming'
      BY <1>1, <1>3, <2>1, <2>2, <2>4, RigctldPending DEF InUse, Coming
    <2>9. RigctldInv'
      BY <1>1, <2>7, <2>8 DEF RigctldInv
    <2>10. QED
      BY <1>1, <1>3, <2>5, <2>6, <2>9 DEF WireInv
  <1>4. CASE kind # "rigctld"
    <2>1. toRig' = toRig
      BY <1>4 DEF Unasked
    <2>2. PICK r \in Frames : back' = Append(back, r) /\ r.id = 0 /\ (kind = "civ" => r.is = "knob")
      <3>1. \A is \in {"knob", "data"} : Frame(is, "freq", 0) \in Frames /\ Frame(is, "freq", 0).id = 0
                                         /\ Frame(is, "freq", 0).is = is
        BY DEF Frame, Frames, Ops, Reads
      <3>2. \/ kind = "civ" /\ back' = back \o <<Frame("knob", "freq", 0)>>
            \/ kind # "civ" /\ back' = back \o <<Frame("data", "freq", 0)>>
        BY <1>4 DEF Unasked
      <3>3. \A r \in Frames : back \o <<r>> = Append(back, r)
        BY <1>2, Pushed
      <3>4. QED
        BY <3>1, <3>2, <3>3
    <2>3. /\ back' \in Seq(Frames) /\ DOMAIN back = 1 .. Len(back) /\ Len(back) \in Nat
          /\ DOMAIN back' = 1 .. Len(back) + 1
          /\ back'[Len(back) + 1] = r /\ \A i \in DOMAIN back : back'[i] = back[i]
      BY <1>2, <2>2, Pushed
    <2>4. WireTypes'
      BY <1>1, <1>2, <2>1, <2>3 DEF WireTypes, InUse
    <2>5. UnkeyToldIsUnkeyed' /\ KeyAsks' /\ AnswersOwnCommand'
      BY <1>1, <2>1 DEF WireInv, UnkeyToldIsUnkeyed, KeyAsks, AnswersOwnCommand
    <2>6. kind = "civ" => CivInv'
      <3> SUFFICES ASSUME kind = "civ"
                   PROVE  CivInv'
        OBVIOUS
      <3>1. CivInv
        BY DEF WireInv
      <3>2. \A i \in DOMAIN back' : i \in DOMAIN back \/ i = Len(back) + 1
        BY <2>3
      <3>3. r.id <= issued
        BY <1>2, <2>2 DEF WireTypes
      <3>4. (\A i \in DOMAIN back : Counted(back[i]))' /\ (\A i \in DOMAIN buf : Counted(buf[i]))'
        BY <1>1, <2>2, <2>3, <3>1, <3>2, <3>3 DEF CivInv, Counted
      <3>5. InUse => call.id # 0
        BY <1>2 DEF WireTypes
      <3>6. InUse => \A i \in DOMAIN back' : back'[i].id = call.id => i \in DOMAIN back
        BY <2>2, <2>3, <3>2, <3>5
      <3>7. QED
        BY <1>1, <2>1, <2>3, <3>1, <3>4, <3>6 DEF CivInv, InUse
    <2>7. QED
      BY <1>1, <1>4, <2>4, <2>5, <2>6 DEF WireInv
  <1>5. QED
    BY <1>3, <1>4

LEMMA WireKept ==
  ASSUME WireInv, WireNext \/ UNCHANGED wireVars
  PROVE  WireInv'
  <1>1. CASE OpenLine \/ OpenCiv \/ OpenKenwood \/ OpenYaesu
    <2>1. PICK k \in Kinds \ {"rigctld"} : OpenPort(k)
      BY <1>1 DEF OpenLine, OpenCiv, OpenKenwood, OpenYaesu, Kinds
    <2>2. QED
      BY <2>1, WireOpens
  <1>2. CASE CloseLine \/ CloseCiv \/ CloseKenwood \/ CloseYaesu \/ CloseRigctld
    <2>1. PICK k \in Kinds : ClosePort(k)
      BY <1>2 DEF CloseLine, CloseCiv, CloseKenwood, CloseYaesu, CloseRigctld, Kinds
    <2>2. QED
      BY <2>1, WireCloses
  <1>3. ASSUME NEW op \in Reads \cup Sets,
               SendCiv(op) \/ SendKenwood(op) \/ SendYaesu(op) \/ SendRigctld(op) \/ DriveLine(op)
        PROVE  WireInv'
    <2>1. op \in Ops
      BY DEF Ops
    <2>2. CASE SendRigctld(op)
      BY <2>1, <2>2, WireSendsRigctld
    <2>3. CASE DriveLine(op)
      BY <2>3, WireLine
    <2>4. CASE SendCiv(op) \/ SendKenwood(op) \/ SendYaesu(op)
      <3>1. PICK k \in {"civ", "kenwood", "yaesu"} : SendSerial(k, op)
        BY <2>4 DEF SendCiv, SendKenwood, SendYaesu
      <3>2. QED
        BY <2>1, <3>1, WireSendsSerial
    <2>5. QED
      BY <1>3, <2>2, <2>3, <2>4
  <1>4. CASE Hear
    BY <1>4, WireHears
  <1>5. CASE Runaway
    BY <1>5, WireRunaway
  <1>6. CASE Deadline
    BY <1>6, WireDeadline
  <1>7. CASE Broken
    BY <1>7, WireBroken
  <1>8. ASSUME NEW what \in {"do", "refuse", "miss", "mute"}, RigTakes(what)
        PROVE  WireInv'
    BY <1>8, WireTakes
  <1>9. CASE Deliver
    BY <1>9, WireDelivers
  <1>10. CASE Unasked
    BY <1>10, WireUnasked
  <1>11. CASE LinkBack
    BY <1>11, WireStutters DEF LinkBack
  <1>12. ASSUME NEW stays \in BOOLEAN, LinkLost(stays)
         PROVE  WireInv'
    BY <1>12, WireLost
  <1>13. CASE UNCHANGED wireVars
    BY <1>13, WireStutters DEF wireVars
  <1>14. QED
    BY <1>1, <1>2, <1>3, <1>4, <1>5, <1>6, <1>7, <1>8, <1>9, <1>10, <1>11, <1>12, <1>13 DEF WireNext
-----------------------------------------------------------------------------
(* FlexRadio *)

Doing == [at   : {"idle", "ask", "send", "wait", "answer", "slice", "detach", "take", "join", "sweep"},
          cmd  : {"none", "xmit", "subSlice", "subTx", "subAll"},
          seq  : Nat, sock : Nat,
          got  : {"none", "ok", "rejected", "failed"}]
ReaderStates == [at : {"none", "top", "recv", "exit", "sweep", "dead"}, on : Nat]

FlexTypes ==
    /\ links \in 0 .. MaxLinks /\ sock \in 0 .. links /\ reader \in 0 .. links
    /\ seq \in Nat
    /\ readers \in [1 .. MaxLinks -> ReaderStates]
    /\ do \in [FlexCallers -> Doing]

\* The caller that holds the lock is about to write on a socket; a caller that
\* waits is entered under a number of its own.
Commanding ==
    /\ \A c \in FlexCallers : do[c].at = "send" <=> holder = c
    /\ holder \in FlexCallers => sock # 0
    /\ \A c \in FlexCallers : do[c].at \in {"ask", "send", "wait", "answer"} => do[c].cmd # "none"
    /\ \A c \in FlexCallers : do[c].at = "wait" =>
          do[c].seq \in pending /\ do[c].seq <= seq /\ do[c].sock # 0
    /\ \A c, d \in FlexCallers :
          do[c].at = "wait" /\ do[d].at = "wait" /\ do[c].seq = do[d].seq => c = d

\* A reader leaves the socket in use only after it declared the loss, or was
\* asked to stop.
Reading ==
    /\ sock # 0 /\ ~stop /\ readers[sock].at \in {"sweep", "dead"} => lost
    /\ \A r \in 1 .. MaxLinks : readers[r].at = "exit" => readers[r].on \in cut
    /\ \A c \in FlexCallers : do[c].at = "join" => do[c].seq \in 1 .. MaxLinks

Down(c)    == do[c].at \in {"take", "join", "sweep"}
Closing(c) == do[c].at = "detach" \/ Down(c)
Live(r)    == readers[r].at \notin {"none", "dead"}

\* While openings and closings never overlap, the only live reader is that of
\* the socket in use, or one that a close() joins.
OneAtATime ==
    /\ \A c, d \in FlexCallers : Lifecycle(c) /\ Lifecycle(d) => c = d
    /\ \A c \in FlexCallers : (Closing(c) => stop) /\ (Down(c) => sock = 0)
    /\ sock # 0 => reader = sock
    /\ sock = 0 /\ reader # 0 => \E c \in FlexCallers : do[c].at = "take"
    /\ \A r \in 1 .. MaxLinks : Live(r) =>
          r = reader \/ \E c \in FlexCallers : do[c].at = "join" /\ do[c].seq = r
    /\ \A r \in 1 .. MaxLinks : readers[r].at \in {"recv", "exit"} => readers[r].on = r
    /\ lost /\ sock # 0 /\ ~stop => sock \in cut

FlexInv ==
    FlexTypes /\ Commanding /\ Reading /\ NobodyLeftWaiting /\ (~crossed => OneAtATime)

LEMMA IdleIsDoing == Idle \in Doing
  BY DEF Idle, Doing

LEMMA FlexStarts == FlexInit => FlexInv
  <1> SUFFICES ASSUME FlexInit
               PROVE  FlexInv
    OBVIOUS
  <1>1. FlexTypes
    BY FlexAssumption, IdleIsDoing DEF FlexInit, FlexTypes, ReaderStates
  <1>2. \A c \in FlexCallers : do[c].at = "idle" /\ do[c].cmd = "none"
    BY DEF FlexInit, Idle
  <1>3. \A r \in 1 .. MaxLinks : readers[r].at = "none"
    BY DEF FlexInit
  <1>4. Commanding
    BY <1>2, FlexAssumption DEF FlexInit, Commanding
  <1>5. Reading /\ NobodyLeftWaiting
    BY <1>2, <1>3 DEF FlexInit, Reading, NobodyLeftWaiting
  <1>6. OneAtATime
    BY <1>2, <1>3 DEF FlexInit, OneAtATime, Lifecycle, Opening, Closing, Down, Live
  <1>7. QED
    BY <1>1, <1>4, <1>5, <1>6 DEF FlexInv

\* What one caller's step does to all of them.
LEMMA Stepped ==
  ASSUME FlexTypes, NEW c \in FlexCallers, NEW rec \in Doing, Step(c, rec)
  PROVE  /\ do' \in [FlexCallers -> Doing]
         /\ do'[c] = rec
         /\ \A d \in FlexCallers : d # c => do'[d] = do[d]
  BY DEF FlexTypes, Step

\* A step that opens and closes nothing.
Elsewhere ==
    /\ \A c \in FlexCallers : /\ Lifecycle(c)' => Lifecycle(c)
                              /\ Closing(c) \/ Closing(c)' => do'[c] = do[c]
    /\ UNCHANGED <<sock, links, cut, stop, lost, reader, crossed>>

LEMMA OneAtATimeElsewhere ==
  ASSUME OneAtATime, Elsewhere, UNCHANGED readers
  PROVE  OneAtATime'
  BY DEF OneAtATime, Elsewhere, Closing, Down, Live

LEMMA ReadingElsewhere ==
  ASSUME Reading, Elsewhere, UNCHANGED readers
  PROVE  Reading'
  BY DEF Reading, Elsewhere, Closing, Down

\* A command is begun.
LEMMA FlexChecks ==
  ASSUME FlexInv, NEW c \in FlexCallers, StartCommand(c) \/ NextCommand(c)
  PROVE  FlexInv'
  <1>1. PICK cmd \in {"xmit", "subSlice", "subTx", "subAll"} :
           /\ Check(c, cmd)
           /\ do[c].at \in {"idle", "ask"}
           /\ cmd \in {"subSlice", "subTx", "subAll"} => Opening(c)
    <2>1. CASE StartCommand(c)
      BY <2>1 DEF StartCommand, Idle
    <2>2. CASE NextCommand(c)
      BY <2>2 DEF NextCommand, FlexInv, FlexTypes, Commanding, Doing, Opening
    <2>3. QED
      BY <2>1, <2>2
  <1>2. PICK at \in {"answer", "send"} :
           /\ do'[c].at = at /\ do'[c].cmd = cmd
           /\ do' \in [FlexCallers -> Doing]
           /\ \A d \in FlexCallers : d # c => do'[d] = do[d]
           /\ at = "send" => sock # 0 /\ holder' = c
           /\ at # "send" => holder' = holder
    <2>1. CASE sock = 0 \/ lost
      <3> DEFINE rec == [do[c] EXCEPT !.at = "answer", !.cmd = cmd, !.got = "failed"]
      <3>1. rec \in Doing /\ rec.at = "answer" /\ rec.cmd = cmd
        BY <1>1 DEF FlexInv, FlexTypes, Doing
      <3>2. Step(c, rec) /\ holder' = holder
        BY <1>1, <2>1 DEF Check
      <3>3. QED
        BY <3>1, <3>2, Stepped DEF FlexInv
    <2>2. CASE ~(sock = 0 \/ lost)
      <3> DEFINE rec == [do[c] EXCEPT !.at = "send", !.cmd = cmd]
      <3>1. rec \in Doing /\ rec.at = "send" /\ rec.cmd = cmd
        BY <1>1 DEF FlexInv, FlexTypes, Doing
      <3>2. Step(c, rec) /\ holder' = c
        BY <1>1, <2>2 DEF Check
      <3>3. QED
        BY <2>2, <3>1, <3>2, Stepped DEF FlexInv
    <2>3. QED
      BY <2>1, <2>2
  <1>3. holder = "free" /\ UNCHANGED <<sock, links, cut, stop, lost, sliceSeen, reader, readers,
                                        pending, seq, asked, crossed>>
    BY <1>1 DEF Check
  <1>4. Elsewhere
    BY <1>1, <1>2, <1>3 DEF Elsewhere, Lifecycle, Opening, Closing, Down
  <1>5. FlexTypes'
    BY <1>2, <1>3 DEF FlexInv, FlexTypes
  <1>6. Commanding'
    BY <1>1, <1>2, <1>3, FlexAssumption DEF FlexInv, Commanding
  <1>7. NobodyLeftWaiting'
    BY <1>1, <1>2, <1>3 DEF FlexInv, NobodyLeftWaiting
  <1>8. QED
    BY <1>3, <1>4, <1>5, <1>6, <1>7, OneAtATimeElsewhere, ReadingElsewhere DEF FlexInv

\* The command is written, or the socket refuses it.
LEMMA FlexSends ==
  ASSUME FlexInv, NEW c \in FlexCallers, NEW taken \in BOOLEAN, Send(c, taken)
  PROVE  FlexInv'
  <1>1. /\ holder = c /\ holder' = "free" /\ do[c].at = "send" /\ sock # 0
        /\ seq' = seq + 1
        /\ pending' = IF taken THEN pending \cup {seq'} ELSE pending
        /\ UNCHANGED <<sock, links, cut, stop, lost, sliceSeen, reader, readers, crossed>>
    BY DEF Send, FlexInv, Commanding
  <1> DEFINE sent    == [do[c] EXCEPT !.at = "wait", !.seq = seq', !.sock = sock]
             refused == [do[c] EXCEPT !.at = "answer", !.got = "failed"]
  <1>2. /\ sent \in Doing /\ sent.at = "wait" /\ sent.cmd = do[c].cmd
        /\ sent.seq = seq + 1 /\ sent.sock = sock
    <2>1. seq' \in Nat /\ sock \in Nat /\ do[c] \in Doing
      BY <1>1, FlexAssumption DEF FlexInv, FlexTypes
    <2>2. QED
      BY <1>1, <2>1 DEF Doing
  <1>3. refused \in Doing /\ refused.at = "answer" /\ refused.cmd = do[c].cmd
    BY DEF FlexInv, FlexTypes, Doing
  <1>4. Step(c, IF taken THEN sent ELSE refused)
    BY DEF Send
  <1> HIDE DEF sent, refused
  <1>5. /\ do' \in [FlexCallers -> Doing]
        /\ do'[c] = IF taken THEN sent ELSE refused
        /\ \A d \in FlexCallers : d # c => do'[d] = do[d]
    BY <1>2, <1>3, <1>4, Stepped DEF FlexInv
  <1>6. Elsewhere
    BY <1>1, <1>2, <1>3, <1>5 DEF Elsewhere, Lifecycle, Opening, Closing, Down
  <1>7. FlexTypes'
    BY <1>1, <1>5 DEF FlexInv, FlexTypes
  <1>8. Commanding'
    <2>1. Commanding /\ seq \in Nat /\ \A d \in FlexCallers : do[d].seq \in Nat
      BY DEF FlexInv, FlexTypes, Doing
    <2>2. \A d \in FlexCallers : do'[d].at = "send" <=> holder' = d
      BY <1>1, <1>2, <1>3, <1>5, <2>1, FlexAssumption DEF Commanding
    <2>3. \A d \in FlexCallers : do'[d].at \in {"ask", "send", "wait", "answer"} => do'[d].cmd # "none"
      BY <1>1, <1>2, <1>3, <1>5, <2>1 DEF Commanding
    <2>4. \A d \in FlexCallers : do'[d].at = "wait" =>
             do'[d].seq \in pending' /\ do'[d].seq <= seq' /\ do'[d].sock # 0
      BY <1>1, <1>2, <1>3, <1>5, <2>1 DEF Commanding
    <2>5. \A d, e \in FlexCallers :
             do'[d].at = "wait" /\ do'[e].at = "wait" /\ do'[d].seq = do'[e].seq => d = e
      <3>1. \A d \in FlexCallers : d # c /\ do'[d].at = "wait" => do'[d].seq # seq + 1
        BY <1>5, <2>1 DEF Commanding
      <3>2. QED
        BY <1>1, <1>2, <1>3, <1>5, <2>1, <3>1 DEF Commanding
    <2>6. QED
      BY <1>1, <2>2, <2>3, <2>4, <2>5, FlexAssumption DEF Commanding
  <1>9. NobodyLeftWaiting'
    BY <1>1, <1>2, <1>3, <1>5 DEF FlexInv, NobodyLeftWaiting
  <1>10. QED
    BY <1>1, <1>6, <1>7, <1>8, <1>9, OneAtATimeElsewhere, ReadingElsewhere DEF FlexInv

LEMMA FlexTimesOut ==
  ASSUME FlexInv, NEW c \in FlexCallers, ReplyTimeout(c)
  PROVE  FlexInv'
  <1> DEFINE rec == [do[c] EXCEPT !.at = "answer", !.got = "failed"]
  <1>1. /\ do[c].at = "wait" /\ pending' = pending \ {do[c].seq} /\ Step(c, rec)
        /\ UNCHANGED <<sock, links, cut, stop, lost, sliceSeen, reader, readers, seq, holder, crossed>>
    BY DEF ReplyTimeout
  <1>2. rec \in Doing /\ rec.at = "answer" /\ rec.cmd = do[c].cmd
    BY DEF FlexInv, FlexTypes, Doing
  <1> HIDE DEF rec
  <1>3. /\ do' \in [FlexCallers -> Doing] /\ do'[c] = rec
        /\ \A d \in FlexCallers : d # c => do'[d] = do[d]
    BY <1>1, <1>2, Stepped DEF FlexInv
  <1>4. Elsewhere
    BY <1>1, <1>2, <1>3 DEF Elsewhere, Lifecycle, Opening, Closing, Down
  <1>5. FlexTypes'
    BY <1>1, <1>3 DEF FlexInv, FlexTypes
  <1>6. Commanding'
    BY <1>1, <1>2, <1>3 DEF FlexInv, Commanding
  <1>7. NobodyLeftWaiting'
    BY <1>1, <1>2, <1>3 DEF FlexInv, NobodyLeftWaiting
  <1>8. QED
    BY <1>1, <1>4, <1>5, <1>6, <1>7, OneAtATimeElsewhere, ReadingElsewhere DEF FlexInv

\* A caller goes on from one stage of open() to the next, back to idle, or
\* begins the close() that a failed open() ends with.
Onward(c) ==
    /\ do[c].at \in {"answer", "slice"}
    /\ do'[c].at \in {"idle", "ask", "slice", "detach"}
    /\ do'[c].at = "ask" => do'[c].cmd # "none"
    /\ Lifecycle(c)' => Lifecycle(c)
    /\ do' \in [FlexCallers -> Doing]
    /\ \A d \in FlexCallers : d # c => do'[d] = do[d]
    /\ stop' = (stop \/ do'[c].at = "detach")
    /\ UNCHANGED <<sock, links, cut, lost, reader, readers, pending, seq, holder, crossed>>

LEMMA FlexOnward ==
  ASSUME FlexInv, NEW c \in FlexCallers, Onward(c)
  PROVE  FlexInv'
  <1>1. FlexTypes' /\ Reading'
    BY DEF Onward, FlexInv, FlexTypes, Reading
  <1>2. Commanding'
    BY DEF Onward, FlexInv, Commanding
  <1>3. NobodyLeftWaiting'
    BY DEF Onward, FlexInv, NobodyLeftWaiting
  <1>4. ASSUME ~crossed
        PROVE  OneAtATime'
    <2>1. OneAtATime
      BY <1>4 DEF FlexInv
    <2>2. \A d \in FlexCallers : Lifecycle(d)' => Lifecycle(d)
      BY DEF Onward, Lifecycle, Opening
    <2>3. \A d \in FlexCallers : (Closing(d)' => stop') /\ (Down(d)' => Down(d) /\ d # c)
      BY <2>1 DEF Onward, OneAtATime, Closing, Down
    <2>4. \A d \in FlexCallers : Down(d) => d # c /\ do'[d] = do[d]
      BY DEF Onward, Down
    <2>5. \A d, e \in FlexCallers : Lifecycle(d)' /\ Lifecycle(e)' => d = e
      BY <2>1, <2>2 DEF OneAtATime
    <2>6. \A d \in FlexCallers : Down(d)' => sock' = 0
      BY <2>1, <2>3 DEF OneAtATime, Onward
    <2>7. sock' = 0 /\ reader' # 0 => \E d \in FlexCallers : do'[d].at = "take"
      BY <2>1, <2>4 DEF OneAtATime, Onward, Down
    <2>8. \A r \in 1 .. MaxLinks : Live(r)' =>
             r = reader' \/ \E d \in FlexCallers : do'[d].at = "join" /\ do'[d].seq = r
      BY <2>1, <2>4 DEF OneAtATime, Onward, Down, Live
    <2>9. QED
      BY <2>1, <2>3, <2>5, <2>6, <2>7, <2>8 DEF Onward, OneAtATime
  <1>5. QED
    BY <1>1, <1>2, <1>3, <1>4 DEF FlexInv, Onward

LEMMA FlexFinishes ==
  ASSUME FlexInv, NEW c \in FlexCallers, Finish(c)
  PROVE  FlexInv'
  <1>1. Idle \in Doing /\ Idle.at = "idle" /\ Idle.cmd = "none"
    BY DEF Idle, Doing
  <1>2. PICK rec \in Doing : /\ Step(c, rec)
                             /\ rec.at \in {"idle", "ask", "slice", "detach"}
                             /\ rec.at = "ask" => rec.cmd # "none"
                             /\ do[c].cmd = "xmit" => rec.at = "idle" /\ rec.cmd = "none"
    <2> DEFINE askTx  == [Idle EXCEPT !.at = "ask", !.cmd = "subTx"]
               askAll == [Idle EXCEPT !.at = "ask", !.cmd = "subAll"]
               slice  == [Idle EXCEPT !.at = "slice"]
               detach == [Idle EXCEPT !.at = "detach"]
               next   == IF do[c].cmd = "xmit" THEN Idle
                    ELSE CASE do[c].got = "ok" /\ do[c].cmd = "subSlice" -> askTx
                           [] do[c].got = "ok" /\ do[c].cmd # "subSlice" -> slice
                           [] do[c].got = "rejected" /\ do[c].cmd # "subAll" -> askAll
                           [] OTHER -> detach
    <2>1. Step(c, next)
      BY DEF Finish
    <2>2. /\ askTx \in Doing /\ askTx.at = "ask" /\ askTx.cmd = "subTx"
          /\ askAll \in Doing /\ askAll.at = "ask" /\ askAll.cmd = "subAll"
      BY DEF Idle, Doing
    <2>3. slice \in Doing /\ slice.at = "slice" /\ detach \in Doing /\ detach.at = "detach"
      BY DEF Idle, Doing
    <2> HIDE DEF askTx, askAll, slice, detach
    <2>4. CASE do[c].cmd = "xmit"
      <3>1. next = Idle
        BY <2>4
      <3>2. QED
        BY <1>1, <2>1, <3>1
    <2>5. CASE do[c].cmd # "xmit"
      <3>1. next \in {Idle, askTx, askAll, slice, detach}
        OBVIOUS
      <3> HIDE DEF next
      <3>2. QED
        BY <1>1, <2>1, <2>2, <2>3, <2>5, <3>1
    <2>6. QED
      BY <2>4, <2>5
  <1>3. do' \in [FlexCallers -> Doing] /\ do'[c] = rec
        /\ \A d \in FlexCallers : d # c => do'[d] = do[d]
    BY <1>2, Stepped DEF FlexInv
  <1>4. do[c].at = "answer" /\ do[c].cmd \in {"xmit", "subSlice", "subTx", "subAll"}
    BY DEF Finish, FlexInv, FlexTypes, Commanding, Doing
  <1>5. Lifecycle(c)' => Lifecycle(c)
    BY <1>2, <1>3, <1>4 DEF Lifecycle, Opening
  <1>6. QED
    BY <1>2, <1>3, <1>4, <1>5, FlexOnward DEF Finish, Onward

LEMMA FlexOpened ==
  ASSUME FlexInv, NEW c \in FlexCallers, NEW seen \in BOOLEAN, Opened(c, seen)
  PROVE  FlexInv'
  <1> DEFINE rec == IF seen THEN Idle ELSE [Idle EXCEPT !.at = "detach"]
  <1>1. rec \in Doing /\ rec.at = IF seen THEN "idle" ELSE "detach"
    BY DEF Idle, Doing
  <1>2. Step(c, rec)
    BY DEF Opened
  <1> HIDE DEF rec
  <1>3. do' \in [FlexCallers -> Doing] /\ do'[c] = rec
        /\ \A d \in FlexCallers : d # c => do'[d] = do[d]
    BY <1>1, <1>2, Stepped DEF FlexInv
  <1>4. QED
    BY <1>1, <1>3, FlexOnward DEF Opened, Onward, Lifecycle

\* A new socket and its reader.
LEMMA FlexOpens ==
  ASSUME FlexInv, NEW c \in FlexCallers, OpenFlex(c)
  PROVE  FlexInv'
  <1> DEFINE rec == [Idle EXCEPT !.at = "ask", !.cmd = "subSlice"]
  <1>1. rec \in Doing /\ rec.at = "ask" /\ rec.cmd = "subSlice"
    BY DEF Idle, Doing
  <1>2. /\ Step(c, rec) /\ do[c] = Idle /\ holder = "free" /\ sock = 0 /\ links < MaxLinks
        /\ links' = links + 1 /\ sock' = links + 1 /\ ~stop' /\ ~lost' /\ reader' = links + 1
        /\ readers' = [readers EXCEPT ![links + 1] = [at |-> "top", on |-> 0]]
        /\ Cross(c)
        /\ UNCHANGED <<cut, pending, seq, asked, holder>>
    BY DEF OpenFlex
  <1> HIDE DEF rec
  <1>3. do' \in [FlexCallers -> Doing] /\ do'[c] = rec
        /\ \A d \in FlexCallers : d # c => do'[d] = do[d]
    BY <1>1, <1>2, Stepped DEF FlexInv
  <1>4. links \in Nat /\ links + 1 \in 1 .. MaxLinks
    BY <1>2, FlexAssumption DEF FlexInv, FlexTypes
  <1>5. /\ readers' \in [1 .. MaxLinks -> ReaderStates]
        /\ readers'[links + 1] = [at |-> "top", on |-> 0]
        /\ \A r \in 1 .. MaxLinks : r # links + 1 => readers'[r] = readers[r]
    BY <1>2, <1>4 DEF FlexInv, FlexTypes, ReaderStates
  <1>6. do[c].at = "idle"
    BY <1>2 DEF Idle
  <1>7. FlexTypes'
    BY <1>2, <1>3, <1>4, <1>5 DEF FlexInv, FlexTypes
  <1>8. Commanding'
    BY <1>1, <1>2, <1>3, <1>6, FlexAssumption DEF FlexInv, Commanding
  <1>9. Reading'
    BY <1>1, <1>2, <1>3, <1>4, <1>5, <1>6 DEF FlexInv, Reading
  <1>10. NobodyLeftWaiting'
    BY <1>1, <1>2, <1>3, <1>6 DEF FlexInv, NobodyLeftWaiting, Commanding
  <1>11. ASSUME ~crossed'
         PROVE  OneAtATime'
    <2>1. OneAtATime /\ \A d \in FlexCallers : d # c => ~Lifecycle(d)
      BY <1>2, <1>11 DEF FlexInv, Cross
    <2>2. \A d \in FlexCallers : ~Closing(d) /\ ~Closing(d)'
      BY <1>1, <1>3, <1>6, <2>1 DEF Lifecycle, Closing, Down
    <2>3. reader = 0 /\ \A r \in 1 .. MaxLinks : ~Live(r)
      BY <1>2, <2>1, <2>2 DEF OneAtATime, Closing, Down
    <2>4. \A d \in FlexCallers : Lifecycle(d)' => d = c
      BY <1>3, <2>1 DEF Lifecycle, Opening
    <2>5. \A r \in 1 .. MaxLinks : r # links + 1 => ~Live(r)'
      BY <1>5, <2>3 DEF Live
    <2>6. \A r \in 1 .. MaxLinks : readers'[r].at \notin {"recv", "exit"}
      BY <1>5, <2>3 DEF Live
    <2>7. sock' # 0
      BY <1>2, <1>4
    <2>8. \A r \in 1 .. MaxLinks : Live(r)' => r = reader'
      BY <1>2, <2>5
    <2>9. \A d, e \in FlexCallers : Lifecycle(d)' /\ Lifecycle(e)' => d = e
      BY <2>4
    <2>10. \A d \in FlexCallers : ~Closing(d)' /\ ~Down(d)'
      BY <2>2 DEF Closing
    <2>11. reader' = sock' /\ ~lost'
      BY <1>2
    <2>12. QED
      BY <2>6, <2>7, <2>8, <2>9, <2>10, <2>11 DEF OneAtATime
  <1>12. QED
    BY <1>7, <1>8, <1>9, <1>10, <1>11 DEF FlexInv

LEMMA FlexCloses ==
  ASSUME FlexInv, NEW c \in FlexCallers, CloseFlex(c)
  PROVE  FlexInv'
  <1> DEFINE rec == [Idle EXCEPT !.at = "detach"]
  <1>1. rec \in Doing /\ rec.at = "detach"
    BY DEF Idle, Doing
  <1>2. /\ Step(c, rec) /\ do[c] = Idle /\ stop' /\ Cross(c)
        /\ UNCHANGED <<sock, links, cut, lost, reader, readers, pending, seq, asked, holder>>
    BY DEF CloseFlex
  <1> HIDE DEF rec
  <1>3. do' \in [FlexCallers -> Doing] /\ do'[c] = rec
        /\ \A d \in FlexCallers : d # c => do'[d] = do[d]
    BY <1>1, <1>2, Stepped DEF FlexInv
  <1>4. do[c].at = "idle"
    BY <1>2 DEF Idle
  <1>5. FlexTypes' /\ Reading'
    BY <1>1, <1>2, <1>3 DEF FlexInv, FlexTypes, Reading
  <1>6. Commanding'
    BY <1>1, <1>2, <1>3, <1>4 DEF FlexInv, Commanding
  <1>7. NobodyLeftWaiting'
    BY <1>1, <1>2, <1>3, <1>4 DEF FlexInv, NobodyLeftWaiting
  <1>8. ASSUME ~crossed'
        PROVE  OneAtATime'
    <2>1. OneAtATime /\ \A d \in FlexCallers : d # c => ~Lifecycle(d)
      BY <1>2, <1>8 DEF FlexInv, Cross
    <2>2. \A d \in FlexCallers : ~Down(d) /\ ~Down(d)'
      BY <1>1, <1>3, <1>4, <2>1 DEF Lifecycle, Down
    <2>3. \A d \in FlexCallers : Lifecycle(d)' => d = c
      BY <1>3, <2>1 DEF Lifecycle, Opening
    <2>4. (reader # 0 => sock # 0) /\ \A r \in 1 .. MaxLinks : Live(r) => r = reader
      BY <2>1, <2>2 DEF OneAtATime, Down
    <2>5. QED
      BY <1>2, <2>1, <2>2, <2>3, <2>4 DEF OneAtATime, Live
  <1>9. QED
    BY <1>5, <1>6, <1>7, <1>8 DEF FlexInv

\* The socket is taken out.
LEMMA FlexDetaches ==
  ASSUME FlexInv, NEW c \in FlexCallers, Detach(c)
  PROVE  FlexInv'
  <1> DEFINE rec == [Idle EXCEPT !.at = "take"]
  <1>1. rec \in Doing /\ rec.at = "take"
    BY DEF Idle, Doing
  <1>2. /\ Step(c, rec) /\ do[c].at = "detach" /\ holder = "free" /\ sock' = 0
        /\ cut \subseteq cut'
        /\ UNCHANGED <<links, stop, lost, reader, readers, pending, seq, holder, crossed>>
    BY DEF Detach
  <1> HIDE DEF rec
  <1>3. do' \in [FlexCallers -> Doing] /\ do'[c] = rec
        /\ \A d \in FlexCallers : d # c => do'[d] = do[d]
    BY <1>1, <1>2, Stepped DEF FlexInv
  <1>4. FlexTypes'
    BY <1>1, <1>2, <1>3, FlexAssumption DEF FlexInv, FlexTypes
  <1>5. Commanding'
    BY <1>1, <1>2, <1>3, FlexAssumption DEF FlexInv, Commanding
  <1>6. Reading' /\ NobodyLeftWaiting'
    BY <1>1, <1>2, <1>3 DEF FlexInv, Reading, NobodyLeftWaiting
  <1>7. ASSUME ~crossed
        PROVE  OneAtATime'
    <2>1. OneAtATime
      BY <1>7 DEF FlexInv
    <2>2. \A d \in FlexCallers : (Lifecycle(d)' => Lifecycle(d)) /\ (Closing(d)' => Closing(d))
      BY <1>1, <1>2, <1>3 DEF Lifecycle, Opening, Closing, Down
    <2>3. \A d \in FlexCallers : do[d].at = "join" => do'[d] = do[d]
      BY <1>2, <1>3
    <2>4. \A r \in 1 .. MaxLinks : Live(r)' =>
             r = reader' \/ \E d \in FlexCallers : do'[d].at = "join" /\ do'[d].seq = r
      BY <1>2, <2>1, <2>3 DEF OneAtATime, Live
    <2>5. \A d, e \in FlexCallers : Lifecycle(d)' /\ Lifecycle(e)' => d = e
      BY <2>1, <2>2 DEF OneAtATime
    <2>6. QED
      BY <1>1, <1>2, <1>3, <2>1, <2>2, <2>4, <2>5 DEF OneAtATime
  <1>8. QED
    BY <1>2, <1>4, <1>5, <1>6, <1>7 DEF FlexInv

\* The reader is taken, and joined if there is one.
LEMMA FlexTakes ==
  ASSUME FlexInv, NEW c \in FlexCallers, Take(c)
  PROVE  FlexInv'
  <1> DEFINE rec == [Idle EXCEPT !.at = IF reader = 0 THEN "sweep" ELSE "join", !.seq = reader]
  <1>1. reader \in Nat /\ reader <= MaxLinks
    BY FlexAssumption DEF FlexInv, FlexTypes
  <1>2. rec \in Doing /\ rec.at = (IF reader = 0 THEN "sweep" ELSE "join") /\ rec.seq = reader
    BY <1>1 DEF Idle, Doing
  <1>3. /\ Step(c, rec) /\ do[c].at = "take" /\ reader' = 0
        /\ UNCHANGED <<sock, links, cut, stop, lost, readers, pending, seq, holder, crossed>>
    BY DEF Take
  <1> HIDE DEF rec
  <1>4. do' \in [FlexCallers -> Doing] /\ do'[c] = rec
        /\ \A d \in FlexCallers : d # c => do'[d] = do[d]
    BY <1>2, <1>3, Stepped DEF FlexInv
  <1>5. FlexTypes'
    BY <1>3, <1>4, FlexAssumption DEF FlexInv, FlexTypes
  <1>6. Commanding'
    BY <1>2, <1>3, <1>4 DEF FlexInv, Commanding
  <1>7. Reading'
    BY <1>1, <1>2, <1>3, <1>4, FlexAssumption DEF FlexInv, Reading
  <1>8. NobodyLeftWaiting'
    BY <1>2, <1>3, <1>4 DEF FlexInv, NobodyLeftWaiting
  <1>9. ASSUME ~crossed
        PROVE  OneAtATime'
    <2>1. OneAtATime
      BY <1>9 DEF FlexInv
    <2>2. \A d \in FlexCallers : (Lifecycle(d)' => Lifecycle(d)) /\ (Closing(d)' => Closing(d))
                                 /\ (Down(d)' => Down(d))
      BY <1>2, <1>3, <1>4 DEF Lifecycle, Opening, Closing, Down
    <2>3. sock = 0
      BY <1>3, <2>1 DEF OneAtATime, Down
    <2>4. \A r \in 1 .. MaxLinks : Live(r) /\ r = reader => do'[c].at = "join" /\ do'[c].seq = r
      BY <1>2, <1>4
    <2>5. \A d \in FlexCallers : do[d].at = "join" => do'[d] = do[d]
      BY <1>3, <1>4
    <2>6. \A r \in 1 .. MaxLinks : Live(r)' =>
             \E d \in FlexCallers : do'[d].at = "join" /\ do'[d].seq = r
      BY <1>3, <2>1, <2>4, <2>5 DEF OneAtATime, Live
    <2>7. \A d, e \in FlexCallers : Lifecycle(d)' /\ Lifecycle(e)' => d = e
      BY <2>1, <2>2 DEF OneAtATime
    <2>8. QED
      BY <1>3, <2>1, <2>2, <2>3, <2>6, <2>7 DEF OneAtATime
  <1>10. QED
    BY <1>3, <1>5, <1>6, <1>7, <1>8, <1>9 DEF FlexInv

LEMMA FlexJoins ==
  ASSUME FlexInv, NEW c \in FlexCallers, Joined(c)
  PROVE  FlexInv'
  <1> DEFINE rec == [Idle EXCEPT !.at = "sweep"]
  <1>1. rec \in Doing /\ rec.at = "sweep"
    BY DEF Idle, Doing
  <1>2. /\ Step(c, rec) /\ do[c].at = "join" /\ (readers[do[c].seq].at = "dead" \/ ~stop)
        /\ UNCHANGED <<sock, links, cut, stop, lost, reader, readers, pending, seq, holder, crossed>>
    BY DEF Joined
  <1> HIDE DEF rec
  <1>3. do' \in [FlexCallers -> Doing] /\ do'[c] = rec
        /\ \A d \in FlexCallers : d # c => do'[d] = do[d]
    BY <1>1, <1>2, Stepped DEF FlexInv
  <1>4. FlexTypes' /\ Reading'
    BY <1>1, <1>2, <1>3 DEF FlexInv, FlexTypes, Reading
  <1>5. Commanding'
    BY <1>1, <1>2, <1>3 DEF FlexInv, Commanding
  <1>6. NobodyLeftWaiting'
    BY <1>1, <1>2, <1>3 DEF FlexInv, NobodyLeftWaiting
  <1>7. ASSUME ~crossed
        PROVE  OneAtATime'
    <2>1. OneAtATime
      BY <1>7 DEF FlexInv
    <2>2. \A d \in FlexCallers : (Lifecycle(d)' => Lifecycle(d)) /\ (Closing(d)' => Closing(d))
                                 /\ (Down(d)' => Down(d))
      BY <1>1, <1>2, <1>3 DEF Lifecycle, Opening, Closing, Down
    <2>3. readers[do[c].seq].at = "dead"
      BY <1>2, <2>1 DEF OneAtATime, Closing, Down
    <2>4. \A d \in FlexCallers : do[d].at \in {"join", "take"} /\ d # c => do'[d] = do[d]
      BY <1>3
    <2>5. \A r \in 1 .. MaxLinks : Live(r)' =>
             r = reader' \/ \E d \in FlexCallers : do'[d].at = "join" /\ do'[d].seq = r
      BY <1>2, <2>1, <2>3, <2>4 DEF OneAtATime, Live
    <2>6. \A d, e \in FlexCallers : Lifecycle(d)' /\ Lifecycle(e)' => d = e
      BY <2>1, <2>2 DEF OneAtATime
    <2>7. sock' = 0 /\ reader' # 0 => \E d \in FlexCallers : do'[d].at = "take"
      BY <1>2, <2>1, <2>4 DEF OneAtATime
    <2>8. QED
      BY <1>2, <2>1, <2>2, <2>5, <2>6, <2>7 DEF OneAtATime
  <1>8. QED
    BY <1>2, <1>4, <1>5, <1>6, <1>7 DEF FlexInv

-----------------------------------------------------------------------------
(* The readers, and the waiting callers they wake. *)

\* Callers that wait may be answered; nobody else moves.
Waking ==
    /\ do' \in [FlexCallers -> Doing]
    /\ \A c \in FlexCallers : do[c].at # "wait" => do'[c] = do[c]
    /\ \A c \in FlexCallers : do[c].at = "wait" =>
          do'[c].at \in {"wait", "answer"} /\ do'[c].cmd = do[c].cmd
    /\ \A c \in FlexCallers : do'[c].at = "wait" => do'[c] = do[c] /\ do'[c].seq \in pending'
    /\ UNCHANGED <<sock, links, cut, stop, reader, seq, holder, crossed>>

LEMMA FlexWakes ==
  ASSUME FlexInv, Waking
  PROVE  /\ Commanding' /\ NobodyLeftWaiting'
         /\ \A c \in FlexCallers : /\ Lifecycle(c)' => Lifecycle(c)
                                   /\ Closing(c) \/ Closing(c)' => do'[c] = do[c]
  <1>1. /\ \A c \in FlexCallers : do'[c].at = "send" <=> do[c].at = "send"
        /\ \A c \in FlexCallers : do'[c].at \in {"ask", "send", "wait", "answer"} => do'[c].cmd # "none"
    BY DEF Waking, FlexInv, Commanding
  <1>2. Commanding'
    BY <1>1 DEF Waking, FlexInv, Commanding
  <1>3. NobodyLeftWaiting'
    BY DEF Waking, FlexInv, NobodyLeftWaiting
  <1>4. \A c \in FlexCallers : /\ Lifecycle(c)' => Lifecycle(c)
                               /\ Closing(c) \/ Closing(c)' => do'[c] = do[c]
    BY DEF Waking, Lifecycle, Opening, Closing, Down
  <1>5. QED
    BY <1>2, <1>3, <1>4

\* A step of one live reader.
ReaderSteps(r, at, on) ==
    /\ Live(r) /\ Reader(r, at, on)
    /\ at \in {"top", "recv", "exit", "sweep", "dead"} /\ on \in Nat
    /\ lost' = lost \/ (readers[r].at = "exit" /\ lost' = (lost \/ ~stop))
    /\ at = "exit" => on \in cut /\ readers[r].at = "recv" /\ on = readers[r].on
    /\ at = "recv" => sock # 0 /\ on = sock
    /\ at \in {"sweep", "dead"} => stop \/ sock = 0 \/ lost' \/ readers[r].at = "sweep"

LEMMA FlexReads ==
  ASSUME FlexInv, Waking, NEW r \in 1 .. MaxLinks, NEW at, NEW on, ReaderSteps(r, at, on)
  PROVE  FlexInv'
  <1>1. /\ readers' \in [1 .. MaxLinks -> ReaderStates]
        /\ readers'[r].at = at /\ readers'[r].on = on
        /\ \A q \in 1 .. MaxLinks : q # r => readers'[q] = readers[q]
    BY DEF ReaderSteps, Reader, ReaderStates, FlexInv, FlexTypes
  <1>2. FlexTypes'
    BY <1>1 DEF Waking, FlexInv, FlexTypes
  <1>3. lost => lost'
    BY DEF ReaderSteps
  <1>4. Reading'
    <2>1. sock # 0 => sock \in 1 .. MaxLinks
      BY FlexAssumption DEF FlexInv, FlexTypes
    <2>2. sock # 0 /\ ~stop /\ readers'[sock].at \in {"sweep", "dead"} => lost'
      BY <1>1, <1>3, <2>1 DEF FlexInv, Reading, ReaderSteps
    <2>3. \A q \in 1 .. MaxLinks : readers'[q].at = "exit" => readers'[q].on \in cut
      BY <1>1 DEF FlexInv, Reading, ReaderSteps
    <2>4. \A c \in FlexCallers : do'[c].at = "join" => do'[c].seq \in 1 .. MaxLinks
      BY DEF Waking, FlexInv, Reading
    <2>5. QED
      BY <2>2, <2>3, <2>4 DEF Reading, Waking
  <1>5. ASSUME ~crossed
        PROVE  OneAtATime'
    <2>1. OneAtATime
      BY <1>5 DEF FlexInv
    <2>2. \A q \in 1 .. MaxLinks : Live(q)' => Live(q)
      BY <1>1 DEF Live, ReaderSteps
    <2>3. sock # 0 => r = sock
      BY <2>1 DEF OneAtATime, ReaderSteps, Down
    <2>4. \A q \in 1 .. MaxLinks : readers'[q].at \in {"recv", "exit"} => readers'[q].on = q
      BY <1>1, <2>1, <2>3 DEF OneAtATime, ReaderSteps
    <2>5. lost' /\ sock # 0 /\ ~stop => sock \in cut
      <3>1. readers[r].at = "exit" /\ sock # 0 => sock \in cut
        BY <2>1, <2>3 DEF OneAtATime, FlexInv, Reading
      <3>2. lost' => lost \/ readers[r].at = "exit"
        BY DEF ReaderSteps
      <3>3. QED
        BY <2>1, <3>1, <3>2 DEF OneAtATime
    <2>6. \A q \in 1 .. MaxLinks : Live(q)' =>
             q = reader \/ \E c \in FlexCallers : do'[c].at = "join" /\ do'[c].seq = q
      BY <2>1, <2>2, FlexWakes DEF OneAtATime, Closing, Down
    <2>7. sock = 0 /\ reader # 0 => \E c \in FlexCallers : do'[c].at = "take"
      BY <2>1, FlexWakes DEF OneAtATime, Closing, Down
    <2>8. \A c, d \in FlexCallers : Lifecycle(c)' /\ Lifecycle(d)' => c = d
      BY <2>1, FlexWakes DEF OneAtATime
    <2>9. \A c \in FlexCallers : (Closing(c)' => stop) /\ (Down(c)' => sock = 0)
      BY <2>1, FlexWakes DEF OneAtATime, Closing, Down
    <2>10. QED
      BY <2>1, <2>4, <2>5, <2>6, <2>7, <2>8, <2>9 DEF OneAtATime, Waking
  <1>6. QED
    BY <1>2, <1>4, <1>5, FlexWakes DEF FlexInv, Waking

\* A step of the reader that wakes nobody.
LEMMA NobodyWoken ==
  ASSUME FlexInv, UNCHANGED <<sock, links, cut, stop, reader, pending, seq, holder, do, crossed>>
  PROVE  Waking
  BY DEF Waking, FlexInv, FlexTypes, Commanding

\* Everybody is woken.
LEMMA EverybodyWoken ==
  ASSUME FlexInv, NEW d \in FlexCallers
  PROVE  /\ Woken(do[d]) \in Doing /\ Woken(do[d]).at # "wait"
         /\ do[d].at # "wait" => Woken(do[d]) = do[d]
         /\ do[d].at = "wait" => Woken(do[d]).at = "answer" /\ Woken(do[d]).cmd = do[d].cmd
  <1>1. do[d] \in Doing /\ (do[d].at = "wait" => do[d].seq \in pending)
    BY DEF FlexInv, FlexTypes, Commanding
  <1>2. CASE do[d].at = "wait"
    <2>1. Woken(do[d]) = [do[d] EXCEPT !.at = "answer", !.got = "failed"]
      BY <1>1, <1>2 DEF Woken
    <2>2. QED
      BY <1>1, <1>2, <2>1 DEF Doing
  <1>3. CASE do[d].at # "wait"
    <2>1. Woken(do[d]) = do[d]
      BY <1>3 DEF Woken
    <2>2. QED
      BY <1>1, <1>3, <2>1
  <1>4. QED
    BY <1>2, <1>3

LEMMA FlexReader ==
  ASSUME FlexInv, NEW r \in 1 .. MaxLinks,
         LoopTop(r) \/ (\E b \in BOOLEAN : ReadStatus(r, b)) \/ ReadEnd(r) \/ Exit(r) \/ ReaderSweep(r)
  PROVE  FlexInv'
  <1>1. readers[r].on \in Nat /\ sock \in Nat
    BY FlexAssumption DEF FlexInv, FlexTypes, ReaderStates
  <1>2. ASSUME NEW at, NEW on, ReaderSteps(r, at, on),
               UNCHANGED <<sock, links, cut, stop, reader, pending, seq, holder, do, crossed>>
        PROVE  FlexInv'
    BY <1>2, FlexReads, NobodyWoken
  <1>3. CASE LoopTop(r)
    <2>1. CASE stop \/ sock = 0
      <3>1. ReaderSteps(r, "dead", 0)
        BY <1>3, <2>1 DEF LoopTop, ReaderSteps, Live
      <3>2. QED
        BY <1>2, <1>3, <3>1 DEF LoopTop
    <2>2. CASE ~(stop \/ sock = 0)
      <3>1. ReaderSteps(r, "recv", sock)
        BY <1>1, <1>3, <2>2 DEF LoopTop, ReaderSteps, Live
      <3>2. QED
        BY <1>2, <1>3, <3>1 DEF LoopTop
    <2>3. QED
      BY <2>1, <2>2
  <1>4. CASE \E b \in BOOLEAN : ReadStatus(r, b)
    <2>1. ReaderSteps(r, "top", 0)
      BY <1>4 DEF ReadStatus, ReaderSteps, Live
    <2>2. QED
      BY <1>2, <1>4, <2>1 DEF ReadStatus
  <1>5. CASE ReadEnd(r)
    <2>1. ReaderSteps(r, "exit", readers[r].on)
      BY <1>1, <1>5 DEF ReadEnd, ReaderSteps, Live
    <2>2. QED
      BY <1>2, <1>5, <2>1 DEF ReadEnd
  <1>6. CASE Exit(r)
    <2>1. CASE stop
      <3>1. ReaderSteps(r, "dead", 0)
        BY <1>6, <2>1 DEF Exit, ReaderSteps, Live
      <3>2. QED
        BY <1>2, <1>6, <3>1 DEF Exit
    <2>2. CASE ~stop
      <3>1. ReaderSteps(r, "sweep", 0)
        BY <1>6, <2>2 DEF Exit, ReaderSteps, Live
      <3>2. QED
        BY <1>2, <1>6, <3>1 DEF Exit
    <2>3. QED
      BY <2>1, <2>2
  <1>7. CASE ReaderSweep(r)
    <2>1. Waking
      BY <1>7, EverybodyWoken DEF ReaderSweep, Waking
    <2>2. ReaderSteps(r, "dead", 0)
      BY <1>7 DEF ReaderSweep, ReaderSteps, Live
    <2>3. QED
      BY <2>1, <2>2, FlexReads
  <1>8. QED
    BY <1>3, <1>4, <1>5, <1>6, <1>7

\* A reply wakes the caller that waits under its number.
LEMMA FlexReplies ==
  ASSUME FlexInv, NEW r \in 1 .. MaxLinks, NEW n, NEW got \in {"ok", "rejected"},
         ReadReply(r, n, got)
  PROVE  FlexInv'
  <1>1. \A c \in FlexCallers :
           do'[c] = IF n \in pending /\ do[c].at = "wait" /\ do[c].seq = n
                    THEN [do[c] EXCEPT !.at = "answer", !.got = got] ELSE do[c]
    BY DEF ReadReply
  <1>2. \A c \in FlexCallers :
           LET answered == [do[c] EXCEPT !.at = "answer", !.got = got]
           IN  answered \in Doing /\ answered.at = "answer" /\ answered.cmd = do[c].cmd
    BY DEF FlexInv, FlexTypes, Doing
  <1>3. do' \in [FlexCallers -> Doing]
    <2>1. \A c \in FlexCallers : do'[c] \in Doing
      BY <1>1, <1>2 DEF FlexInv, FlexTypes
    <2>2. QED
      BY <2>1 DEF ReadReply
  <1>4. Waking
    BY <1>1, <1>2, <1>3 DEF ReadReply, Waking, FlexInv, Commanding
  <1>5. ReaderSteps(r, "top", 0)
    BY DEF ReadReply, ReaderSteps, Live
  <1>6. QED
    BY <1>4, <1>5, FlexReads

\* close() ends by waking everybody.
LEMMA FlexSweeps ==
  ASSUME FlexInv, NEW c \in FlexCallers, Sweep(c)
  PROVE  FlexInv'
  <1>1. /\ do[c].at = "sweep"
        /\ do' = [d \in FlexCallers |-> IF d = c THEN Idle ELSE Woken(do[d])]
        /\ UNCHANGED <<sock, links, cut, stop, lost, reader, readers, seq, holder, crossed>>
    BY DEF Sweep
  <1>2. Idle \in Doing /\ Idle.at = "idle" /\ Idle.cmd = "none"
    BY DEF Idle, Doing
  <1>3. \A d \in FlexCallers : /\ do'[d] \in Doing /\ do'[d].at # "wait"
                               /\ d # c /\ do[d].at # "wait" => do'[d] = do[d]
                               /\ d # c /\ do[d].at = "wait" =>
                                     do'[d].at = "answer" /\ do'[d].cmd = do[d].cmd
    BY <1>1, <1>2, EverybodyWoken
  <1>4. do' \in [FlexCallers -> Doing] /\ do'[c] = Idle
    BY <1>1, <1>3
  <1>5. FlexTypes'
    BY <1>1, <1>4 DEF FlexInv, FlexTypes
  <1>6. Commanding'
    BY <1>1, <1>2, <1>3, <1>4 DEF FlexInv, Commanding
  <1>7. Reading'
    BY <1>1, <1>2, <1>3, <1>4 DEF FlexInv, Reading
  <1>8. NobodyLeftWaiting'
    BY <1>3 DEF NobodyLeftWaiting
  <1>9. ASSUME ~crossed
        PROVE  OneAtATime'
    <2>1. OneAtATime
      BY <1>9 DEF FlexInv
    <2>2. \A d \in FlexCallers : (Lifecycle(d)' => Lifecycle(d)) /\ (Closing(d)' => Closing(d))
                                 /\ (Down(d)' => Down(d))
      BY <1>1, <1>2, <1>3, <1>4 DEF Lifecycle, Opening, Closing, Down
    <2>3. \A d \in FlexCallers : do[d].at \in {"join", "take"} => do'[d] = do[d]
      BY <1>1, <1>3
    <2>4. \A r \in 1 .. MaxLinks : Live(r)' =>
             r = reader' \/ \E d \in FlexCallers : do'[d].at = "join" /\ do'[d].seq = r
      BY <1>1, <2>1, <2>3 DEF OneAtATime, Live
    <2>5. \A d, e \in FlexCallers : Lifecycle(d)' /\ Lifecycle(e)' => d = e
      BY <2>1, <2>2 DEF OneAtATime
    <2>6. sock' = 0 /\ reader' # 0 => \E d \in FlexCallers : do'[d].at = "take"
      BY <1>1, <2>1, <2>3 DEF OneAtATime
    <2>7. QED
      BY <1>1, <2>1, <2>2, <2>4, <2>5, <2>6 DEF OneAtATime
  <1>10. QED
    BY <1>1, <1>5, <1>6, <1>7, <1>8, <1>9 DEF FlexInv

LEMMA FlexRadioGone ==
  ASSUME FlexInv, RadioGone
  PROVE  FlexInv'
  <1>1. FlexTypes' /\ Commanding' /\ NobodyLeftWaiting'
    BY DEF RadioGone, FlexInv, FlexTypes, Commanding, NobodyLeftWaiting
  <1>2. Reading'
    BY DEF RadioGone, FlexInv, Reading
  <1>3. OneAtATime => OneAtATime'
    BY DEF RadioGone, OneAtATime, Lifecycle, Opening, Closing, Down, Live
  <1>4. QED
    BY <1>1, <1>2, <1>3 DEF FlexInv, RadioGone

LEMMA FlexKept ==
  ASSUME FlexInv, FlexNext \/ UNCHANGED flexVars
  PROVE  FlexInv'
  <1>1. CASE UNCHANGED flexVars
    BY <1>1 DEF flexVars, FlexInv, FlexTypes, Commanding, Reading, NobodyLeftWaiting, OneAtATime,
                Lifecycle, Opening, Closing, Down, Live
  <1>2. ASSUME NEW c \in FlexCallers,
               \/ StartCommand(c) \/ NextCommand(c) \/ ReplyTimeout(c) \/ Finish(c)
               \/ OpenFlex(c) \/ CloseFlex(c) \/ Detach(c) \/ Take(c) \/ Joined(c) \/ Sweep(c)
               \/ \E b \in BOOLEAN : Send(c, b) \/ Opened(c, b)
        PROVE  FlexInv'
    BY <1>2, FlexChecks, FlexTimesOut, FlexFinishes, FlexOpens, FlexCloses, FlexDetaches,
       FlexTakes, FlexJoins, FlexSweeps, FlexSends, FlexOpened
  <1>3. ASSUME NEW r \in 1 .. MaxLinks,
               \/ LoopTop(r) \/ ReadEnd(r) \/ Exit(r) \/ ReaderSweep(r)
               \/ \E b \in BOOLEAN : ReadStatus(r, b)
               \/ \E n \in 1 .. MaxCommands, got \in {"ok", "rejected"} : ReadReply(r, n, got)
        PROVE  FlexInv'
    BY <1>3, FlexReader, FlexReplies
  <1>4. CASE FlexNext
    BY <1>2, <1>3, <1>4, FlexRadioGone DEF FlexNext
  <1>5. QED
    BY <1>1, <1>4

\* FlexInv is more than is promised.
LEMMA FlexSafe ==
  ASSUME FlexInv
  PROVE  LossHandled
  BY DEF FlexInv, Reading, OneAtATime, LossHandled, LossToldExactly

-----------------------------------------------------------------------------
(* TCI *)

\* Receive audio is set up for its listener, or the transmission that took the
\* link from it remembers to ask for it again.
Owned ==
    /\ rx = "on" => subscribed \/ (resume /\ tx \in {"retry", "closed", "reopened", "resume"})
    /\ rx = "on" /\ linkUp => streams \/ (resume /\ tx \in {"reopened", "resume"})
    /\ rx = "starting" => ready
    /\ rx = "starting" /\ linkUp => streams
    /\ rx = "off" /\ streams => bracket /\ tx \in {"starting", "play"}
    /\ rx = "stopping" => ~streams
    /\ rx = "on" /\ tx = "closed" => resume
    /\ rx = "on" /\ tx = "reopened" /\ ~ready => resume
    /\ rx = "on" /\ ws # 0 /\ ~ready => tx = "reopened"

TciInv ==
    /\ sessions \in Nat
    /\ cached \in {0, ws}
    /\ streams => linkUp
    /\ linkUp => ws # 0
    /\ ready => ws # 0
    /\ tx = "closed" => ws = 0
    /\ callback <=> rx \in {"starting", "on"}
    /\ tx \in {"starting", "stopping"} => bracket
    /\ tx = "retry" => ~linkUp
    /\ ~robbed => Owned

LEMMA TciStarts == TciInit => TciInv
  BY DEF TciInit, TciInv, Owned

LEMMA TciServer ==
  ASSUME TciInv, WindowOpens \/ WindowCloses \/ ReadyTimeout \/ Push \/ RecvEnds \/ LinkGone
  PROVE  TciInv'
  <1>1. CASE WindowOpens
    BY <1>1 DEF TciInv, Owned, WindowOpens, Connect
  <1>2. CASE WindowCloses
    BY <1>2 DEF TciInv, Owned, WindowCloses, Shut
  <1>3. CASE ReadyTimeout
    BY <1>3 DEF TciInv, Owned, ReadyTimeout, Shut
  <1>4. CASE Push
    BY <1>4 DEF TciInv, Owned, Push, Reported, Alive
  <1>5. CASE RecvEnds
    BY <1>5 DEF TciInv, Owned, RecvEnds
  <1>6. CASE LinkGone
    BY <1>6 DEF TciInv, Owned, LinkGone
  <1>7. QED
    BY <1>1, <1>2, <1>3, <1>4, <1>5, <1>6

LEMMA TciCapture ==
  ASSUME TciInv, (\E sent \in BOOLEAN : RxStart(sent)) \/ RxStarted \/ RxStop \/ RxStopped
  PROVE  TciInv'
  <1>1. ASSUME NEW sent \in BOOLEAN, RxStart(sent)
        PROVE  TciInv'
    BY <1>1 DEF TciInv, Owned, RxStart, link, SendWorks, SendFails, Stream
  <1>2. CASE RxStarted
    BY <1>2 DEF TciInv, Owned, RxStarted, link
  <1>3. CASE RxStop
    BY <1>3 DEF TciInv, Owned, RxStop, link, Stream
  <1>4. CASE RxStopped
    BY <1>4 DEF TciInv, Owned, RxStopped, link
  <1>5. QED
    BY <1>1, <1>2, <1>3, <1>4

LEMMA TciTransmits ==
  ASSUME TciInv, (\E sent \in BOOLEAN : TxBegin(sent) \/ TxPlayed(sent)) \/ TxStarted \/ TxStopped
  PROVE  TciInv'
  <1>1. ASSUME NEW sent \in BOOLEAN, TxBegin(sent)
        PROVE  TciInv'
    BY <1>1 DEF TciInv, Owned, TxBegin, link, SendWorks, SendFails, Stream
  <1>2. ASSUME NEW sent \in BOOLEAN, TxPlayed(sent)
        PROVE  TciInv'
    BY <1>2 DEF TciInv, Owned, TxPlayed, link, SendWorks, SendFails, Stream
  <1>3. CASE TxStarted
    BY <1>3 DEF TciInv, Owned, TxStarted, link
  <1>4. CASE TxStopped
    BY <1>4 DEF TciInv, Owned, TxStopped, link
  <1>5. QED
    BY <1>1, <1>2, <1>3, <1>4

LEMMA TciUnkeys ==
  ASSUME TciInv,
         (\E sent \in BOOLEAN : Unkey(sent) \/ RetryUnkeys(sent) \/ Resumes(sent))
           \/ RetryCloses \/ RetryOpens \/ RetryEnds
  PROVE  TciInv'
  <1>1. ASSUME NEW sent \in BOOLEAN, Unkey(sent)
        PROVE  TciInv'
    BY <1>1 DEF TciInv, Owned, Unkey, link, SendWorks, SendFails
  <1>2. ASSUME NEW sent \in BOOLEAN, RetryUnkeys(sent)
        PROVE  TciInv'
    BY <1>2 DEF TciInv, Owned, RetryUnkeys, link, SendWorks, SendFails, Shut
  <1>3. ASSUME NEW sent \in BOOLEAN, Resumes(sent)
        PROVE  TciInv'
    BY <1>3 DEF TciInv, Owned, Resumes, link, SendWorks, SendFails, Stream
  <1>4. CASE RetryCloses
    BY <1>4 DEF TciInv, Owned, RetryCloses, Shut
  <1>5. CASE RetryOpens
    <2>1. ws' # 0 /\ cached' \in {0, ws'} /\ sessions' \in Nat
      BY <1>5 DEF TciInv, RetryOpens, Connect
    <2>2. ~robbed' => Owned'
      BY <1>5, <2>1 DEF TciInv, Owned, RetryOpens, Connect
    <2>3. QED
      BY <1>5, <2>1, <2>2 DEF TciInv, RetryOpens, Connect
  <1>6. CASE RetryEnds
    BY <1>6 DEF TciInv, Owned, RetryEnds, link
  <1>7. QED
    BY <1>1, <1>2, <1>3, <1>4, <1>5, <1>6

LEMMA TciKept ==
  ASSUME TciInv, TciNext \/ UNCHANGED tciVars
  PROVE  TciInv'
  <1>1. CASE UNCHANGED tciVars
    BY <1>1 DEF tciVars, TciInv, Owned
  <1>2. CASE TciNext
    <2>1. \/ WindowOpens \/ WindowCloses \/ ReadyTimeout \/ Push \/ RecvEnds \/ LinkGone
          \/ (\E sent \in BOOLEAN : RxStart(sent)) \/ RxStarted \/ RxStop \/ RxStopped
          \/ (\E sent \in BOOLEAN : TxBegin(sent) \/ TxPlayed(sent)) \/ TxStarted \/ TxStopped
          \/ (\E sent \in BOOLEAN : Unkey(sent) \/ RetryUnkeys(sent) \/ Resumes(sent))
          \/ RetryCloses \/ RetryOpens \/ RetryEnds
      BY <1>2 DEF TciNext
    <2>2. QED
      BY <2>1, TciServer, TciCapture, TciTransmits, TciUnkeys
  <1>3. QED
    BY <1>1, <1>2

LEMMA TciSafe ==
  ASSUME TciInv
  PROVE  FollowsSession
  BY DEF TciInv, Owned, FollowsSession, FreshAfterReconnect, StreamFollowsListener, Alive, FromCache, Heard

-----------------------------------------------------------------------------
(* Tuning *)

ModeNames == {"", "USB", "LSB", "FM", "PKTUSB", "PKTLSB"}
Orders == [freq : {1, 2}, mode : ModeNames, exact : BOOLEAN]
Tunes  == [at : {"freq", "read", "mode", "verify", "end"}, order : Orders, set : BOOLEAN,
           errors : SUBSET {"frequency", "mode"}, left : Nat, fits : BOOLEAN,
           reached : BOOLEAN, old : BOOLEAN]

TuneTypes ==
    /\ setup.reports \in {"asked", "pushed", "nothing"}
    /\ knobs \in [freq : {1, 2}, mode : ModeNames]
    /\ orders \in Seq(Orders)
    /\ tune \in Tunes \cup {NoTune}
    /\ pushed \in {1, 2}

\* What is known of a tune once its frequency was commanded.
Settling ==
    tune.at \notin {"none", "freq"} =>
        /\ ~tune.set => "frequency" \in tune.errors
        /\ "frequency" \notin tune.errors /\ knobs.freq = tune.order.freq => tune.reached
        /\ "frequency" \notin tune.errors /\ pushed = tune.order.freq => tune.reached \/ tune.old
        /\ tune.at = "verify" => tune.set
        /\ tune.at \in {"read", "mode"} => tune.order.mode # ""
        /\ tune.at \in {"verify", "end"} /\ tune.order.mode # "" =>
               "mode" \in tune.errors \/ tune.fits

TuneInv == TuneTypes /\ (tune.at = "freq" => tune.set) /\ Settling /\ TuneToldTrue

LEMMA TuneStarts == TuneInit => TuneInv
  <1>1. TuneInit => knobs \in [freq : {1, 2}, mode : ModeNames] /\ NoTune.at = "none"
    BY DEF TuneInit, NoTune, ModeNames
  <1>2. TuneInit => setup.reports \in {"asked", "pushed", "nothing"} /\ orders \in Seq(Orders)
    BY DEF TuneInit
  <1>3. QED
    BY <1>1, <1>2 DEF TuneInit, TuneInv, TuneTypes, Settling, TuneToldTrue

\* A tune that is under way is a record of its own kind.
LEMMA TuneUnderWay ==
  ASSUME TuneTypes, tune.at # "none"
  PROVE  tune \in Tunes
  BY DEF TuneTypes, NoTune

\* What the settings make of a band plan entry can be ordered.
LEMMA Orderable ==
  ASSUME NEW entry \in BandPlan
  PROVE  [freq |-> entry.freq, mode |-> Resolved(entry.mode),
          exact |-> Resolved(entry.mode) # "" /\ Resolved(entry.mode) # entry.mode] \in Orders
  <1>1. entry.freq \in {1, 2} /\ entry.mode \in {"USB", "LSB", "FM"}
    BY DEF BandPlan
  <1>2. FamilyOf(entry.mode) = entry.mode
    BY <1>1 DEF FamilyOf
  <1>3. DOMAIN DataMode = {"USB", "LSB"} /\ DataMode["USB"] \in ModeNames /\ DataMode["LSB"] \in ModeNames
    BY DEF DataMode, ModeNames
  <1>4. Resolved(entry.mode) \in ModeNames
    BY <1>1, <1>2, <1>3 DEF Resolved, ModeNames
  <1>5. QED
    BY <1>1, <1>4 DEF Orders

LEMMA TuneWindow ==
  ASSUME TuneInv, OpenMenu \/ TxToggles \/ (\E entry \in BandPlan : Pick(entry)) \/ PushesFreq
  PROVE  TuneInv'
  <1>1. CASE OpenMenu \/ TxToggles
    BY <1>1 DEF TuneInv, TuneTypes, Settling, TuneToldTrue, OpenMenu, TxToggles
  <1>2. ASSUME NEW entry \in BandPlan, Pick(entry)
        PROVE  TuneInv'
    <2> DEFINE order == [freq |-> entry.freq, mode |-> Resolved(entry.mode),
                         exact |-> Resolved(entry.mode) # "" /\ Resolved(entry.mode) # entry.mode]
    <2>1. order \in Orders
      BY Orderable
    <2>2. orders' = Append(orders, order) /\ UNCHANGED <<setup, knobs, pushed, onAir, tune, turns>>
      BY <1>2 DEF Pick
    <2> HIDE DEF order
    <2>3. orders' \in Seq(Orders)
      BY <2>1, <2>2 DEF TuneInv, TuneTypes
    <2>4. QED
      BY <2>2, <2>3 DEF TuneInv, TuneTypes, Settling, TuneToldTrue
  <1>3. CASE PushesFreq
    BY <1>3 DEF TuneInv, TuneTypes, Settling, TuneToldTrue, PushesFreq
  <1>4. QED
    BY <1>1, <1>2, <1>3

LEMMA TuneKnob ==
  ASSUME TuneInv, TurnKnob
  PROVE  TuneInv'
  <1>1. knobs' \in [freq : {1, 2}, mode : ModeNames]
    <2>1. CASE knobs' = [knobs EXCEPT !.freq = 3 - @]
      BY <2>1 DEF TuneInv, TuneTypes
    <2>2. ASSUME NEW m \in {"USB", "PKTUSB", "LSB"}, knobs' = [knobs EXCEPT !.mode = m]
          PROVE  knobs' \in [freq : {1, 2}, mode : ModeNames]
      BY <2>2 DEF TuneInv, TuneTypes, ModeNames
    <2>3. QED
      BY <2>1, <2>2 DEF TurnKnob
  <1>2. UNCHANGED <<setup, pushed, orders>>
    BY DEF TurnKnob
  <1>3. CASE tune # NoTune /\ tune.at # "freq" /\ knobs'.freq = tune.order.freq
    <2>1. tune \in Tunes /\ tune' = [tune EXCEPT !.reached = TRUE]
      BY <1>3 DEF TuneInv, TuneTypes, TurnKnob
    <2>2. tune' \in Tunes /\ tune'.reached
          /\ UNCHANGED <<tune.at, tune.order, tune.set, tune.errors, tune.fits>>
      BY <2>1 DEF Tunes
    <2>3. QED
      BY <1>1, <1>2, <2>2 DEF TuneInv, TuneTypes, Settling, TuneToldTrue
  <1>4. CASE ~(tune # NoTune /\ tune.at # "freq" /\ knobs'.freq = tune.order.freq)
    <2>1. tune' = tune
      BY <1>4 DEF TurnKnob
    <2>2. tune.at \notin {"none", "freq"} => knobs'.freq # tune.order.freq
      BY <1>4 DEF NoTune
    <2>3. QED
      BY <1>1, <1>2, <2>1, <2>2 DEF TuneInv, TuneTypes, Settling, TuneToldTrue
  <1>5. QED
    BY <1>3, <1>4

LEMMA TuneBeginsWell ==
  ASSUME TuneInv, TuneBegins
  PROVE  TuneInv'
  <1>1. Head(orders) \in Orders /\ orders' \in Seq(Orders)
    BY DEF TuneInv, TuneTypes, TuneBegins
  <1>2. tune' \in Tunes /\ tune'.at = "freq" /\ tune'.set
    BY <1>1, TuneAssumption DEF TuneBegins, Tunes
  <1>3. QED
    BY <1>1, <1>2 DEF TuneInv, TuneTypes, Settling, TuneToldTrue, TuneBegins, KeepOthers

\* The frequency is commanded.
LEMMA TuneSetsFreq ==
  ASSUME TuneInv, SetsFreq
  PROVE  TuneInv'
  <1>1. tune \in Tunes /\ tune.at = "freq" /\ tune.set
    BY TuneUnderWay DEF TuneInv, SetsFreq
  <1>2. UNCHANGED <<setup, pushed, orders>>
    BY DEF SetsFreq, KeepOthers
  <1>3. CASE /\ tune' = [tune EXCEPT !.errors = {"frequency"}, !.set = FALSE,
                                  !.at = IF tune.order.mode = "" THEN "end" ELSE "read"]
             /\ UNCHANGED knobs
    <2>1. tune' \in Tunes /\ tune'.errors = {"frequency"} /\ tune'.order = tune.order
      BY <1>1, <1>3 DEF Tunes
    <2>2. tune'.at = IF tune.order.mode = "" THEN "end" ELSE "read"
      BY <1>1, <1>3 DEF Tunes
    <2>3. TuneTypes'
      BY <1>2, <1>3, <2>1 DEF TuneInv, TuneTypes
    <2>4. "frequency" \in tune'.errors /\ tune'.errors # {}
      BY <2>1
    <2>5. \/ tune'.at = "end" /\ tune'.order.mode = ""
          \/ tune'.at = "read" /\ tune'.order.mode # ""
      BY <2>1, <2>2
    <2>6. QED
      BY <2>3, <2>4, <2>5 DEF TuneInv, Settling, TuneToldTrue
  <1>4. ASSUME NEW moves \in BOOLEAN,
               knobs' = IF moves THEN [knobs EXCEPT !.freq = tune.order.freq] ELSE knobs,
               tune' = [tune EXCEPT !.at = AfterFreq,
                          !.reached = knobs'.freq = tune.order.freq,
                          !.old = pushed = tune.order.freq /\ knobs.freq # pushed]
        PROVE  TuneInv'
    <2>1. knobs' \in [freq : {1, 2}, mode : ModeNames]
      BY <1>1, <1>4 DEF TuneInv, TuneTypes, Tunes, Orders
    <2>2. pushed = tune.order.freq /\ knobs.freq = pushed => knobs'.freq = tune.order.freq
      BY <1>1, <1>4 DEF TuneInv, TuneTypes, Tunes, Orders
    <2>3. AfterFreq = IF tune.order.mode = "" THEN "verify" ELSE "read"
      BY <1>1 DEF AfterFreq, Verify
    <2>4. tune' \in Tunes
      BY <1>1, <1>4, <2>3 DEF Tunes
    <2>5. /\ tune'.at = (IF tune.order.mode = "" THEN "verify" ELSE "read")
          /\ tune'.order = tune.order
          /\ tune'.set = tune.set
          /\ tune'.reached <=> knobs'.freq = tune.order.freq
          /\ tune'.old <=> pushed = tune.order.freq /\ knobs.freq # pushed
      BY <1>1, <1>4, <2>3 DEF Tunes
    <2>6. TuneTypes'
      BY <1>2, <2>1, <2>4 DEF TuneInv, TuneTypes
    <2>7. Settling'
      BY <1>1, <1>2, <2>2, <2>5 DEF TuneInv, Settling
    <2>8. tune'.at \notin {"freq", "end"}
      BY <2>5
    <2>9. QED
      BY <2>6, <2>7, <2>8 DEF TuneInv, TuneToldTrue
  <1>5. QED
    BY <1>3, <1>4 DEF SetsFreq

\* Past the frequency: what a step leaves alone, and where it goes.
LEMMA TuneSetsMode ==
  ASSUME TuneInv, ReadsMode \/ SetsMode
  PROVE  TuneInv'
  <1>1. tune \in Tunes /\ tune.at \in {"read", "mode"} /\ tune.order.mode # ""
    BY TuneUnderWay DEF TuneInv, ReadsMode, SetsMode, Settling
  <1>2. UNCHANGED <<setup, pushed, orders>>
    BY DEF ReadsMode, SetsMode, KeepOthers
  <1>3. Verify = (IF tune.set THEN "verify" ELSE "end") /\ Verify \in {"verify", "end"}
    BY DEF Verify
  <1>4. /\ knobs' \in [freq : {1, 2}, mode : ModeNames]
        /\ knobs'.freq = knobs.freq
    <2>1. CASE UNCHANGED knobs
      BY <2>1 DEF TuneInv, TuneTypes
    <2>2. CASE knobs' = [knobs EXCEPT !.mode = tune.order.mode]
      BY <1>1, <2>2 DEF TuneInv, TuneTypes, Tunes, Orders
    <2>3. QED
      BY <2>1, <2>2 DEF ReadsMode, SetsMode
  <1>5. CASE tune' = [tune EXCEPT !.at = Verify, !.fits = TRUE]
    <2>1. /\ tune' \in Tunes /\ tune'.at = Verify /\ tune'.fits
          /\ UNCHANGED <<tune.order, tune.set, tune.errors, tune.reached, tune.old>>
      BY <1>1, <1>3, <1>5 DEF Tunes
    <2>2. QED
      BY <1>1, <1>2, <1>3, <1>4, <2>1 DEF TuneInv, TuneTypes, Settling, TuneToldTrue
  <1>6. CASE tune' = [tune EXCEPT !.at = "mode"]
    <2>1. /\ tune' \in Tunes /\ tune'.at = "mode"
          /\ UNCHANGED <<tune.order, tune.set, tune.errors, tune.reached, tune.old, tune.fits>>
      BY <1>1, <1>6 DEF Tunes
    <2>2. QED
      BY <1>1, <1>2, <1>4, <2>1 DEF TuneInv, TuneTypes, Settling, TuneToldTrue
  <1>7. CASE Failed("mode", Verify)
    <2>1. tune' = [tune EXCEPT !.at = Verify, !.errors = @ \cup {"mode"}]
      BY <1>7 DEF Failed
    <2>2. /\ tune' \in Tunes /\ tune'.at = Verify /\ tune'.errors = tune.errors \cup {"mode"}
          /\ UNCHANGED <<tune.order, tune.set, tune.reached, tune.old, tune.fits>>
      BY <1>1, <1>3, <2>1 DEF Tunes
    <2>3. QED
      BY <1>1, <1>2, <1>3, <1>4, <2>2 DEF TuneInv, TuneTypes, Settling, TuneToldTrue
  <1>8. QED
    BY <1>5, <1>6, <1>7 DEF ReadsMode, SetsMode

LEMMA TuneVerifies ==
  ASSUME TuneInv, Verifies
  PROVE  TuneInv'
  <1>1. tune \in Tunes /\ tune.at = "verify" /\ tune.set
    BY TuneUnderWay DEF TuneInv, Verifies, Settling
  <1>2. UNCHANGED <<setup, knobs, pushed, orders>>
    BY DEF Verifies, KeepOthers
  <1>3. CASE Failed("frequency", "end")
    <2>1. tune' = [tune EXCEPT !.at = "end", !.errors = @ \cup {"frequency"}]
      BY <1>3 DEF Failed
    <2>2. /\ tune' \in Tunes /\ tune'.at = "end" /\ tune'.errors = tune.errors \cup {"frequency"}
          /\ UNCHANGED <<tune.order, tune.set, tune.reached, tune.old, tune.fits>>
      BY <1>1, <2>1 DEF Tunes
    <2>3. QED
      BY <1>1, <1>2, <2>2 DEF TuneInv, TuneTypes, Settling, TuneToldTrue
  <1>4. CASE ReadBack \in {0, tune.order.freq} /\ Go("end")
    <2>1. /\ tune' \in Tunes /\ tune'.at = "end"
          /\ UNCHANGED <<tune.order, tune.set, tune.errors, tune.reached, tune.old, tune.fits>>
      BY <1>1, <1>4 DEF Tunes, Go
    <2>2. setup.reports # "nothing" => knobs.freq = tune.order.freq \/ pushed = tune.order.freq
      BY <1>1, <1>4 DEF TuneInv, TuneTypes, Tunes, Orders, ReadBack
    <2>3. QED
      BY <1>1, <1>2, <2>1, <2>2 DEF TuneInv, TuneTypes, Settling, TuneToldTrue
  <1>5. CASE tune.left > 0 /\ tune' = [tune EXCEPT !.left = @ - 1]
    <2>1. tune' \in Tunes
      BY <1>1, <1>5 DEF Tunes
    <2>2. UNCHANGED <<tune.at, tune.order, tune.set, tune.errors, tune.reached, tune.old, tune.fits>>
      BY <1>1, <1>5 DEF Tunes
    <2>3. QED
      BY <1>1, <1>2, <2>1, <2>2 DEF TuneInv, TuneTypes, Settling, TuneToldTrue
  <1>6. QED
    BY <1>3, <1>4, <1>5 DEF Verifies

LEMMA TuneKept ==
  ASSUME TuneInv, TuneNext \/ UNCHANGED tuneVars
  PROVE  TuneInv'
  <1>1. CASE UNCHANGED tuneVars
    BY <1>1 DEF tuneVars, TuneInv, TuneTypes, Settling, TuneToldTrue
  <1>2. CASE TuneEnds
    <2>1. NoTune.at = "none"
      BY DEF NoTune
    <2>2. QED
      BY <1>2, <2>1 DEF TuneInv, TuneTypes, Settling, TuneToldTrue, TuneEnds, KeepOthers
  <1>3. CASE TuneNext
    BY <1>2, <1>3, TuneWindow, TuneKnob, TuneBeginsWell, TuneSetsFreq, TuneSetsMode, TuneVerifies
       DEF TuneNext
  <1>4. QED
    BY <1>1, <1>3


-----------------------------------------------------------------------------
(* The backend of the running application *)

LinksInv == WireInv /\ FlexInv /\ TciInv /\ TuneInv

LEMMA LinksStarts == LinksInit => LinksInv
  <1>1. {"line"} \subseteq Kinds
    BY DEF Kinds
  <1>2. ASSUME LinksInit
        PROVE  WireInv
    BY <1>1, <1>2, WireStarts DEF LinksInit
  <1>3. QED
    BY <1>2, FlexStarts, TciStarts, TuneStarts DEF LinksInit, LinksInv

\* In each mode one family moves; the others stand still.
LEMMA LinksKept ==
  LinksInv /\ [LinksNext]_<<mode, wireVars, flexVars, tciVars, tuneVars>> => LinksInv'
  <1> SUFFICES ASSUME LinksInv, [LinksNext]_<<mode, wireVars, flexVars, tciVars, tuneVars>>
               PROVE  LinksInv'
    OBVIOUS
  <1>1. /\ WireNext \/ UNCHANGED wireVars
        /\ FlexNext \/ UNCHANGED flexVars
        /\ TciNext \/ UNCHANGED tciVars
        /\ TuneNext \/ UNCHANGED tuneVars
    BY DEF LinksNext
  <1>2. QED
    BY <1>1, WireKept, FlexKept, TciKept, TuneKept DEF LinksInv

LEMMA LinksInductive == LinksSpec => []LinksInv
  BY LinksStarts, LinksKept, PTL DEF LinksSpec

\* What a rig backend, or the tune, tells its caller is what the radio did: a
\* caller told that the transmitter is off can rely on it, no answer is taken for
\* that of another command, and the last tune reports what it set.  (A CI-V set
\* acknowledged by an overdue OK of an earlier one is told "?": see ToldTrue.)
THEOREM BackendsTellTruth == LinksSpec => []ToldTrue
  <1>1. LinksInv => ToldTrue
    BY DEF LinksInv, WireInv, TuneInv, ToldTrue, AnswersTrue
  <1>2. QED
    BY <1>1, LinksInductive, PTL

\* The end of a Flex link reaches whom it concerns and nobody else: no command
\* is left waiting on a session that is gone with nobody about to wake it, and a
\* link is declared lost when it is, never for an older session's reader.
THEOREM FlexLossReachesAll == LinksSpec => []LossHandled
  <1>1. LinksInv => LossHandled
    BY FlexSafe DEF LinksInv
  <1>2. QED
    BY <1>1, LinksInductive, PTL

\* TCI state and receive audio are those of the session in use: nothing read
\* from the server of before a reconnect is served after it, and the server
\* streams exactly while somebody listens, once a transmission is over.
THEOREM TciFollowsSession == LinksSpec => []FollowsSession
  <1>1. LinksInv => FollowsSession
    BY TciSafe DEF LinksInv
  <1>2. QED
    BY <1>1, LinksInductive, PTL

-----------------------------------------------------------------------------
(* Receive capture.  What is said of a queue is said of any sequence, so     *)
(* that a step is an element more at its end or one less at its head.        *)

Grown(q, p, e) == \E n \in Nat : /\ DOMAIN q = 1 .. n /\ DOMAIN p = 1 .. n + 1
                                 /\ p[n + 1] = e /\ \A i \in 1 .. n : p[i] = q[i]
Shrunk(q, p) == \E n \in Nat : /\ DOMAIN q = 1 .. n + 1 /\ DOMAIN p = 1 .. n
                               /\ \A i \in 1 .. n : p[i] = q[i + 1]

\* The decoder's rate once it has worked through the queue.
RateBehind(q, dec, rate) ==
    /\ (\A k \in DOMAIN q : q[k].op # "rate") => dec = rate
    /\ \A i \in DOMAIN q : /\ q[i].op = "rate"
                           /\ \A k \in DOMAIN q : i < k => q[k].op # "rate"
                           => q[i].rate = rate

\* Each chunk on its way meets the decoder at the rate of its session.
ChunksAtRate(q, dec, rates) ==
    /\ \A j \in DOMAIN q :
         q[j].op = "chunk" /\ (\A k \in DOMAIN q : k < j => q[k].op # "rate") =>
           dec = rates[q[j].session]
    /\ \A i, j \in DOMAIN q :
         /\ i < j /\ q[i].op = "rate" /\ q[j].op = "chunk"
         /\ \A k \in DOMAIN q : i < k /\ k < j => q[k].op # "rate"
         => q[i].rate = rates[q[j].session]

\* No two sessions meet in the decoder: a reset lies between them.
Separated(q, held) ==
    /\ \A a, b \in held : a = b
    /\ \A j \in DOMAIN q :
         q[j].op = "chunk" /\ (\A k \in DOMAIN q : k < j => q[k].op # "reset") =>
           held \subseteq {q[j].session}
    /\ \A i, j \in DOMAIN q :
         /\ i < j /\ q[i].op = "chunk" /\ q[j].op = "chunk"
         /\ \A k \in DOMAIN q : i < k /\ k < j => q[k].op # "reset"
         => q[i].session = q[j].session

\* Behind the last reset there is only audio of the sessions S.
Behind(q, held, S) ==
    /\ \A i \in DOMAIN q :
         q[i].op = "chunk" /\ (\A k \in DOMAIN q : i < k => q[k].op # "reset") =>
           q[i].session \in S
    /\ (\A k \in DOMAIN q : q[k].op # "reset") => held \subseteq S

\* The gate once the decoder has worked through the queue.
GateBehind(q, now, end) ==
    /\ (\A k \in DOMAIN q : q[k].op # "gate") => now = end
    /\ \A i \in DOMAIN q : /\ q[i].op = "gate"
                           /\ \A k \in DOMAIN q : i < k => q[k].op # "gate"
                           => q[i].on = end

\* The order of the signals for the GUI, when the wired worker has a stream
\* (`isUp`), or has and will be asked to stop it (`stops`).  A loss, and a start,
\* is followed by a stop unless the stream still runs; a stop by a start if
\* one runs; and no loss of an earlier stream hides a start.
InOrder(q, isUp, stops, wasLost, running) ==
    /\ wasLost => isUp \/ \E j \in DOMAIN q : q[j] = "stopped"
    /\ \A i \in DOMAIN q : q[i] \in {"lost", "started"} =>
         isUp \/ \E j \in DOMAIN q : i < j /\ q[j] = "stopped"
    /\ \A i \in DOMAIN q : q[i] = "stopped" /\ isUp =>
         stops \/ \E j \in DOMAIN q : i < j /\ q[j] = "started"
    /\ isUp => running \/ stops \/ \E j \in DOMAIN q : q[j] = "started"
    /\ \A i \in DOMAIN q : q[i] = "started" =>
         \/ stops
         \/ \E j \in DOMAIN q : i < j /\ q[j] = "stopped"
         \/ /\ wasLost => \E j \in DOMAIN q : j < i /\ q[j] = "stopped"
            /\ \A k \in DOMAIN q : k < i /\ q[k] = "lost" =>
                 \E j \in DOMAIN q : k < j /\ j < i /\ q[j] = "stopped"

Starting == \E i \in DOMAIN audioQ : audioQ[i].op = "start" /\ audioQ[i].worker = cur
Up == stream[cur] # None
StopUp == Up /\ \E i \in DOMAIN audioQ : audioQ[i].op = "stop" /\ audioQ[i].worker = cur

CapTypes ==
    /\ TypeOK
    /\ swap # NoSwap => cur <= MaxSwaps
    /\ \A i \in DOMAIN rxQ : rxQ[i].op = "chunk" => rxQ[i].session \in 1 .. Len(sessRate)
    /\ \A w \in Workers : stream[w] <= Len(sessRate) /\ (stream[w] # None => w <= cur)
    /\ heard \subseteq 1 .. Len(sessRate)
    /\ \A i \in DOMAIN audioQ : audioQ[i].worker <= cur

GateInv == raised => GateBehind(rxQ, gated, TRUE)

RateInv ==
    /\ RateBehind(rxQ, decRate, guiRate)
    /\ "settings" \notin races =>
         /\ ChunksAtRate(rxQ, decRate, sessRate)
         /\ Up => sessRate[stream[cur]] = guiRate
         /\ \A i \in DOMAIN audioQ : audioQ[i].op = "start" /\ audioQ[i].worker = cur =>
              EffectiveRate(cur, audioQ[i].rate) = guiRate
         /\ armed => EffectiveRate(cur, cfgRate) = guiRate

\* Of armed, a start on its way and a stream, the wired worker has one.
OneSession ==
    /\ Separated(rxQ, heard)
    /\ Up => ~armed /\ ~Starting /\ Behind(rxQ, heard, {stream[cur]})
    /\ armed => ~Starting
    /\ armed \/ Starting => Behind(rxQ, heard, {})
    /\ \A i, j \in DOMAIN audioQ :
         /\ audioQ[i].op = "start" /\ audioQ[i].worker = cur
         /\ audioQ[j].op = "start" /\ audioQ[j].worker = cur
         => i = j

SessionInv == "start" \notin races => OneSession

\* A start asked for is on its way to the audio thread.
ResetDue ==
    armed => \/ Signalled("reset_done") \/ Has(rxQ, "reset")
             \/ \E i \in DOMAIN rxQ : rxQ[i].op = "gate" /\ ~rxQ[i].on

\* Where the button and the auto-resume get their answer from.
AnswerComing == armed \/ Starting \/ Signalled("started")
AnswersDue ==
    /\ InOrder(gui, Up, StopUp, discMsg, cap)
    /\ cap => Up \/ Signalled("stopped") \/ AnswerComing
    /\ ~btn /\ cap => \/ StopUp \/ Signalled("stopped") \/ Signalled("started")
                      \/ ~Up /\ AnswerComing
    /\ ~btn /\ ~cap => AnswerComing \/ StopUp \/ Signalled("stopped")
    /\ recActive /\ ~cap => recTimer \/ AnswerComing \/ StopUp \/ Signalled("stopped")

AnswerInv == "swap" \notin races => AnswersDue

HearInv == CapTypes /\ GateInv /\ RateInv /\ SessionInv
CaptureInv == HearInv /\ panel = cap /\ ResetDue /\ AnswerInv

LEMMA GrownBy ==
  ASSUME NEW S, NEW q \in Seq(S), NEW e \in S
  PROVE  /\ Grown(q, Append(q, e), e) /\ Grown(q, q \o <<e>>, e)
         /\ Append(q, e) \in Seq(S) /\ q \o <<e>> \in Seq(S) /\ q \o <<>> = q
  <1>1. /\ Len(q) \in Nat /\ DOMAIN q = 1 .. Len(q)
        /\ DOMAIN Append(q, e) = 1 .. Len(q) + 1 /\ Append(q, e)[Len(q) + 1] = e
        /\ \A i \in 1 .. Len(q) : Append(q, e)[i] = q[i]
    OBVIOUS
  <1>2. q \o <<e>> = Append(q, e) /\ q \o <<>> = q /\ Append(q, e) \in Seq(S)
    OBVIOUS
  <1>3. QED
    BY <1>1, <1>2 DEF Grown

LEMMA ShrunkBy ==
  ASSUME NEW S, NEW q \in Seq(S), q # <<>>
  PROVE  /\ Shrunk(q, Tail(q)) /\ Tail(q) \in Seq(S)
         /\ 1 \in DOMAIN q /\ Head(q) = q[1] /\ q[1] \in S
  <1>1. /\ Len(q) \in Nat /\ Len(q) # 0 /\ DOMAIN q = 1 .. Len(q)
        /\ DOMAIN Tail(q) = 1 .. Len(q) - 1
        /\ \A i \in 1 .. Len(q) - 1 : Tail(q)[i] = q[i + 1]
    OBVIOUS
  <1>2. Len(q) - 1 \in Nat /\ (Len(q) - 1) + 1 = Len(q)
    BY <1>1
  <1>3. Tail(q) \in Seq(S) /\ 1 \in DOMAIN q /\ Head(q) = q[1] /\ q[1] \in S
    OBVIOUS
  <1>4. \E n \in Nat : /\ DOMAIN q = 1 .. n + 1 /\ DOMAIN Tail(q) = 1 .. n
                       /\ \A i \in 1 .. n : Tail(q)[i] = q[i + 1]
    <2>1. PICK n \in Nat : n = Len(q) - 1
      BY <1>2
    <2>2. n + 1 = Len(q)
      BY <1>2, <2>1
    <2>3. QED
      BY <1>1, <2>1, <2>2
  <1>5. QED
    BY <1>3, <1>4 DEF Shrunk

\* The two facts about positions that all below rest on.
LEMMA GrownAt ==
  ASSUME NEW q, NEW p, NEW e, Grown(q, p, e)
  PROVE  \E n \in Nat : /\ n + 1 \in DOMAIN p /\ p[n + 1] = e /\ n + 1 \notin DOMAIN q
                        /\ \A i \in DOMAIN q : i \in DOMAIN p /\ p[i] = q[i] /\ i < n + 1 /\ i \in Nat
                        /\ \A i \in DOMAIN p : i \in DOMAIN q \/ i = n + 1
  BY DEF Grown

LEMMA ShrunkAt ==
  ASSUME NEW q, NEW p, Shrunk(q, p)
  PROVE  /\ 1 \in DOMAIN q /\ DOMAIN q \subseteq Nat /\ DOMAIN p \subseteq Nat
         /\ \A i \in DOMAIN p : i + 1 \in DOMAIN q /\ p[i] = q[i + 1] /\ 1 < i + 1
         /\ \A i \in DOMAIN q : i = 1 \/ \E j \in DOMAIN p : i = j + 1 /\ p[j] = q[i]
         /\ \A i \in DOMAIN q : i = 1 \/ 1 < i
  <1>1. PICK n \in Nat : /\ DOMAIN q = 1 .. n + 1 /\ DOMAIN p = 1 .. n
                         /\ \A i \in 1 .. n : p[i] = q[i + 1]
    BY DEF Shrunk
  <1>2. \A i \in DOMAIN q : i = 1 \/ \E j \in DOMAIN p : i = j + 1 /\ p[j] = q[i]
    <2> SUFFICES ASSUME NEW i \in 1 .. n + 1, i # 1
                 PROVE  \E j \in 1 .. n : i = j + 1 /\ p[j] = q[i]
      BY <1>1
    <2>1. i - 1 \in 1 .. n /\ i = (i - 1) + 1
      OBVIOUS
    <2>2. p[i - 1] = q[(i - 1) + 1]
      BY <1>1, <2>1
    <2>3. QED
      BY <2>1, <2>2
  <1>3. QED
    BY <1>1, <1>2

LEMMA RateGrown ==
  ASSUME NEW q, NEW p, NEW e, Grown(q, p, e), NEW dec, NEW rate, RateBehind(q, dec, rate)
  PROVE  RateBehind(p, dec, IF e.op = "rate" THEN e.rate ELSE rate)
  BY GrownAt DEF RateBehind

LEMMA RateShrunk ==
  ASSUME NEW q, NEW p, Shrunk(q, p), NEW dec, NEW rate, RateBehind(q, dec, rate)
  PROVE  RateBehind(p, IF q[1].op = "rate" THEN q[1].rate ELSE dec, rate)
  BY ShrunkAt DEF RateBehind

LEMMA ChunksGrown ==
  ASSUME NEW q, NEW p, NEW e, Grown(q, p, e), NEW dec, NEW rate, NEW rates,
         RateBehind(q, dec, rate), ChunksAtRate(q, dec, rates),
         e.op = "chunk" => rates[e.session] = rate
  PROVE  ChunksAtRate(p, dec, rates)
  <1>1. PICK n \in Nat : /\ n + 1 \in DOMAIN p /\ p[n + 1] = e /\ n + 1 \notin DOMAIN q
                         /\ \A i \in DOMAIN q : i \in DOMAIN p /\ p[i] = q[i] /\ i < n + 1 /\ i \in Nat
                         /\ \A i \in DOMAIN p : i \in DOMAIN q \/ i = n + 1
    BY GrownAt
  <1>2. ASSUME NEW j \in DOMAIN p, p[j].op = "chunk", \A k \in DOMAIN p : k < j => p[k].op # "rate"
        PROVE  dec = rates[p[j].session]
    BY <1>1, <1>2 DEF ChunksAtRate, RateBehind
  <1>3. ASSUME NEW i \in DOMAIN p, NEW j \in DOMAIN p,
               i < j, p[i].op = "rate", p[j].op = "chunk",
               \A k \in DOMAIN p : i < k /\ k < j => p[k].op # "rate"
        PROVE  p[i].rate = rates[p[j].session]
    <2>1. i \in DOMAIN q
      BY <1>1, <1>3
    <2>2. CASE j \in DOMAIN q
      BY <1>1, <1>3, <2>1, <2>2 DEF ChunksAtRate
    <2>3. CASE j = n + 1
      BY <1>1, <1>3, <2>1, <2>3 DEF RateBehind
    <2>4. QED
      BY <1>1, <2>2, <2>3
  <1>4. QED
    BY <1>2, <1>3 DEF ChunksAtRate

LEMMA ChunksShrunk ==
  ASSUME NEW q, NEW p, Shrunk(q, p), NEW dec, NEW rates, ChunksAtRate(q, dec, rates)
  PROVE  ChunksAtRate(p, IF q[1].op = "rate" THEN q[1].rate ELSE dec, rates)
  BY ShrunkAt DEF ChunksAtRate

LEMMA SeparatedGrown ==
  ASSUME NEW q, NEW p, NEW e, Grown(q, p, e), NEW held,
         Separated(q, held), e.op = "chunk" => Behind(q, held, {e.session})
  PROVE  Separated(p, held)
  <1>1. PICK n \in Nat : /\ n + 1 \in DOMAIN p /\ p[n + 1] = e /\ n + 1 \notin DOMAIN q
                         /\ \A i \in DOMAIN q : i \in DOMAIN p /\ p[i] = q[i] /\ i < n + 1 /\ i \in Nat
                         /\ \A i \in DOMAIN p : i \in DOMAIN q \/ i = n + 1
    BY GrownAt
  <1>2. ASSUME NEW j \in DOMAIN p, p[j].op = "chunk", \A k \in DOMAIN p : k < j => p[k].op # "reset"
        PROVE  held \subseteq {p[j].session}
    BY <1>1, <1>2 DEF Separated, Behind
  <1>3. ASSUME NEW i \in DOMAIN p, NEW j \in DOMAIN p,
               i < j, p[i].op = "chunk", p[j].op = "chunk",
               \A k \in DOMAIN p : i < k /\ k < j => p[k].op # "reset"
        PROVE  p[i].session = p[j].session
    <2>1. i \in DOMAIN q
      BY <1>1, <1>3
    <2>2. CASE j \in DOMAIN q
      BY <1>1, <1>3, <2>1, <2>2 DEF Separated
    <2>3. CASE j = n + 1
      BY <1>1, <1>3, <2>1, <2>3 DEF Behind
    <2>4. QED
      BY <1>1, <2>2, <2>3
  <1>4. QED
    BY <1>2, <1>3 DEF Separated

LEMMA BehindGrown ==
  ASSUME NEW q, NEW p, NEW e, Grown(q, p, e), NEW held, NEW S
  PROVE  /\ e.op = "reset" => Behind(p, held, S)
         /\ Behind(q, held, S) /\ (e.op = "chunk" => e.session \in S) => Behind(p, held, S)
  BY GrownAt DEF Behind

\* What the decoder holds after the call at the head of its queue.
Handled(msg, held, new) ==
    /\ new = {} \/ new = held \/ (msg.op = "chunk" /\ new = held \cup {msg.session})
    /\ msg.op = "reset" => new = {}

LEMMA SeparatedShrunk ==
  ASSUME NEW q, NEW p, Shrunk(q, p), NEW held, NEW new,
         Separated(q, held), Handled(q[1], held, new)
  PROVE  Separated(p, new)
  <1>1. /\ 1 \in DOMAIN q /\ DOMAIN q \subseteq Nat /\ DOMAIN p \subseteq Nat
        /\ \A i \in DOMAIN p : i + 1 \in DOMAIN q /\ p[i] = q[i + 1] /\ 1 < i + 1
        /\ \A i \in DOMAIN q : i = 1 \/ \E j \in DOMAIN p : i = j + 1 /\ p[j] = q[i]
        /\ \A i \in DOMAIN q : i = 1 \/ 1 < i
    BY ShrunkAt
  <1>2. \A a, b \in new : a = b
    BY <1>1 DEF Separated, Handled
  <1>3. ASSUME NEW j \in DOMAIN p, p[j].op = "chunk", \A k \in DOMAIN p : k < j => p[k].op # "reset"
        PROVE  new \subseteq {p[j].session}
    <2>1. CASE new = {}
      BY <2>1
    <2>2. CASE new # {}
      <3>1. q[1].op # "reset" /\ \A k \in DOMAIN q : k < j + 1 => q[k].op # "reset"
        BY <1>1, <1>3, <2>2 DEF Handled
      <3>2. held \subseteq {p[j].session}
        BY <1>1, <1>3, <3>1 DEF Separated
      <3>3. q[1].op = "chunk" => q[1].session = p[j].session
        BY <1>1, <1>3, <3>1 DEF Separated
      <3>4. QED
        BY <2>2, <3>2, <3>3 DEF Handled
    <2>3. QED
      BY <2>1, <2>2
  <1>4. ASSUME NEW i \in DOMAIN p, NEW j \in DOMAIN p,
               i < j, p[i].op = "chunk", p[j].op = "chunk",
               \A k \in DOMAIN p : i < k /\ k < j => p[k].op # "reset"
        PROVE  p[i].session = p[j].session
    <2>1. \A k \in DOMAIN q : i + 1 < k /\ k < j + 1 => q[k].op # "reset"
      BY <1>1, <1>4
    <2>2. QED
      BY <1>1, <1>4, <2>1 DEF Separated
  <1>5. QED
    BY <1>2, <1>3, <1>4 DEF Separated

LEMMA BehindShrunk ==
  ASSUME NEW q, NEW p, Shrunk(q, p), NEW held, NEW new, NEW S,
         Behind(q, held, S), Handled(q[1], held, new)
  PROVE  Behind(p, new, S)
  <1>1. /\ 1 \in DOMAIN q /\ DOMAIN q \subseteq Nat /\ DOMAIN p \subseteq Nat
        /\ \A i \in DOMAIN p : i + 1 \in DOMAIN q /\ p[i] = q[i + 1] /\ 1 < i + 1
        /\ \A i \in DOMAIN q : i = 1 \/ \E j \in DOMAIN p : i = j + 1 /\ p[j] = q[i]
        /\ \A i \in DOMAIN q : i = 1 \/ 1 < i
    BY ShrunkAt
  <1>2. \A i \in DOMAIN p :
          p[i].op = "chunk" /\ (\A k \in DOMAIN p : i < k => p[k].op # "reset") => p[i].session \in S
    BY <1>1 DEF Behind
  <1>3. (\A k \in DOMAIN p : p[k].op # "reset") => new \subseteq S
    BY <1>1 DEF Behind, Handled
  <1>4. QED
    BY <1>2, <1>3 DEF Behind

LEMMA GateGrown ==
  ASSUME NEW q, NEW p, NEW e, Grown(q, p, e), NEW now, NEW end, GateBehind(q, now, end)
  PROVE  GateBehind(p, now, IF e.op = "gate" THEN e.on ELSE end)
  BY GrownAt DEF GateBehind

\* A call that closes or opens the gate settles what lies behind it.
LEMMA GateSet ==
  ASSUME NEW q, NEW p, NEW e, Grown(q, p, e), NEW now, e.op = "gate"
  PROVE  GateBehind(p, now, e.on)
  BY GrownAt DEF GateBehind

LEMMA GateShrunk ==
  ASSUME NEW q, NEW p, Shrunk(q, p), NEW now, NEW end, GateBehind(q, now, end)
  PROVE  GateBehind(p, IF q[1].op = "gate" THEN q[1].on ELSE now, end)
  BY ShrunkAt DEF GateBehind

-----------------------------------------------------------------------------
(* The order of the signals for the GUI.                                     *)

\* A signal that says nothing of streams, and a stop asked for, or a loss
\* forgotten, change nothing.
LEMMA OrderGrown ==
  ASSUME NEW q, NEW p, NEW e, Grown(q, p, e), e \notin {"lost", "started", "stopped"},
         NEW isUp \in BOOLEAN, NEW stops \in BOOLEAN, NEW wasLost \in BOOLEAN, NEW running \in BOOLEAN,
         InOrder(q, isUp, stops, wasLost, running)
  PROVE  InOrder(p, isUp, stops, wasLost, running)
  BY GrownAt DEF InOrder

LEMMA OrderEased ==
  ASSUME NEW q, NEW isUp \in BOOLEAN, NEW stops \in BOOLEAN, NEW wasLost \in BOOLEAN,
         NEW running \in BOOLEAN, NEW stops2 \in BOOLEAN, NEW lost2 \in BOOLEAN,
         InOrder(q, isUp, stops, wasLost, running), stops => stops2, lost2 => wasLost
  PROVE  InOrder(q, isUp, stops2, lost2, running)
  BY DEF InOrder

\* How a step changes whether there is a stream, and one to be stopped.
ComesUp(isUp, isUp2) == ~isUp /\ isUp2
Closed(isUp) == ~isUp
StillUp(isUp, isUp2, stops, stops2) == isUp /\ isUp2 /\ (stops => stops2)

\* The stream opens.
LEMMA OrderOpened ==
  ASSUME NEW q, NEW p, Grown(q, p, "started")
  PROVE  \A isUp, isUp2, stops, stops2, wasLost, running \in BOOLEAN :
           ComesUp(isUp, isUp2) /\ InOrder(q, isUp, stops, wasLost, running) =>
             InOrder(p, isUp2, stops2, wasLost, running)
  <1> SUFFICES ASSUME NEW isUp \in BOOLEAN, NEW isUp2 \in BOOLEAN, NEW stops \in BOOLEAN,
                      NEW stops2 \in BOOLEAN, NEW wasLost \in BOOLEAN, NEW running \in BOOLEAN,
                      ComesUp(isUp, isUp2), InOrder(q, isUp, stops, wasLost, running)
               PROVE  InOrder(p, isUp2, stops2, wasLost, running)
    OBVIOUS
  <1>1. PICK n \in Nat : /\ n + 1 \in DOMAIN p /\ p[n + 1] = "started" /\ n + 1 \notin DOMAIN q
                         /\ \A i \in DOMAIN q : i \in DOMAIN p /\ p[i] = q[i] /\ i < n + 1 /\ i \in Nat
                         /\ \A i \in DOMAIN p : i \in DOMAIN q \/ i = n + 1
    BY GrownAt
  <1>2. \A i \in DOMAIN p : p[i] = "stopped" => \E j \in DOMAIN p : i < j /\ p[j] = "started"
    BY <1>1
  <1>3. ASSUME NEW i \in DOMAIN p, p[i] = "started"
        PROVE  \/ \E j \in DOMAIN p : i < j /\ p[j] = "stopped"
               \/ /\ wasLost => \E j \in DOMAIN p : j < i /\ p[j] = "stopped"
                  /\ \A k \in DOMAIN p : k < i /\ p[k] = "lost" =>
                       \E j \in DOMAIN p : k < j /\ j < i /\ p[j] = "stopped"
    <2>1. CASE i \in DOMAIN q
      BY <1>1, <1>3, <2>1 DEF InOrder, ComesUp, Closed, StillUp
    <2>2. CASE i = n + 1
      <3>1. wasLost => \E j \in DOMAIN p : j < i /\ p[j] = "stopped"
        BY <1>1, <2>2 DEF InOrder, ComesUp, Closed, StillUp
      <3>2. ASSUME NEW k \in DOMAIN p, k < i, p[k] = "lost"
            PROVE  \E j \in DOMAIN p : k < j /\ j < i /\ p[j] = "stopped"
        <4>1. k \in DOMAIN q /\ q[k] = "lost"
          BY <1>1, <3>2
        <4>2. PICK j \in DOMAIN q : k < j /\ q[j] = "stopped"
          BY <4>1 DEF InOrder, ComesUp, Closed, StillUp
        <4>3. QED
          BY <1>1, <2>2, <4>2
      <3>3. QED
        BY <3>1, <3>2
    <2>3. QED
      BY <1>1, <2>1, <2>2
  <1>4. QED
    BY <1>1, <1>2, <1>3 DEF InOrder, ComesUp, Closed, StillUp

\* It opens, and is lost before that is told; a stop is asked for.
LEMMA OrderOpenedLost ==
  ASSUME NEW q, NEW r, NEW p, Grown(q, r, "lost"), Grown(r, p, "started")
  PROVE  \A isUp, isUp2, stops, stops2, wasLost, running \in BOOLEAN :
           ComesUp(isUp, isUp2) /\ ~Closed(stops2) /\ InOrder(q, isUp, stops, wasLost, running) =>
             InOrder(p, isUp2, stops2, wasLost, running)
  <1> SUFFICES ASSUME NEW isUp \in BOOLEAN, NEW isUp2 \in BOOLEAN, NEW stops \in BOOLEAN,
                      NEW stops2 \in BOOLEAN, NEW wasLost \in BOOLEAN, NEW running \in BOOLEAN,
                      ComesUp(isUp, isUp2), ~Closed(stops2), InOrder(q, isUp, stops, wasLost, running)
               PROVE  InOrder(p, isUp2, stops2, wasLost, running)
    OBVIOUS
  <1>1. \E j \in DOMAIN p : p[j] = "started"
    BY DEF Grown
  <1>2. wasLost => \E j \in DOMAIN p : p[j] = "stopped"
    BY DEF InOrder, ComesUp, Closed, StillUp, Grown
  <1>3. QED
    BY <1>1, <1>2 DEF InOrder, ComesUp, Closed, StillUp

\* It is closed, or could not be opened.
LEMMA OrderStopped ==
  ASSUME NEW q, NEW p, Grown(q, p, "stopped")
  PROVE  \A isUp, isUp2, stops, stops2, wasLost, running \in BOOLEAN :
           Closed(isUp2) /\ InOrder(q, isUp, stops, wasLost, running) =>
             InOrder(p, isUp2, stops2, wasLost, running)
  <1> SUFFICES ASSUME NEW isUp \in BOOLEAN, NEW isUp2 \in BOOLEAN, NEW stops \in BOOLEAN,
                      NEW stops2 \in BOOLEAN, NEW wasLost \in BOOLEAN, NEW running \in BOOLEAN,
                      Closed(isUp2), InOrder(q, isUp, stops, wasLost, running)
               PROVE  InOrder(p, isUp2, stops2, wasLost, running)
    OBVIOUS
  <1>1. PICK n \in Nat : /\ n + 1 \in DOMAIN p /\ p[n + 1] = "stopped" /\ n + 1 \notin DOMAIN q
                         /\ \A i \in DOMAIN q : i \in DOMAIN p /\ p[i] = q[i] /\ i < n + 1 /\ i \in Nat
                         /\ \A i \in DOMAIN p : i \in DOMAIN q \/ i = n + 1
    BY GrownAt
  <1>2. \A i \in DOMAIN p : p[i] \in {"lost", "started"} => \E j \in DOMAIN p : i < j /\ p[j] = "stopped"
    BY <1>1
  <1>3. QED
    BY <1>1, <1>2 DEF InOrder, ComesUp, Closed, StillUp

\* A stream is lost.
LEMMA OrderLost ==
  ASSUME NEW q, NEW p, Grown(q, p, "lost")
  PROVE  \A isUp, isUp2, stops, stops2, wasLost, running \in BOOLEAN :
           StillUp(isUp, isUp2, stops, stops2) /\ InOrder(q, isUp, stops, wasLost, running) =>
             InOrder(p, isUp2, stops2, wasLost, running)
  <1> SUFFICES ASSUME NEW isUp \in BOOLEAN, NEW isUp2 \in BOOLEAN, NEW stops \in BOOLEAN,
                      NEW stops2 \in BOOLEAN, NEW wasLost \in BOOLEAN, NEW running \in BOOLEAN,
                      StillUp(isUp, isUp2, stops, stops2), InOrder(q, isUp, stops, wasLost, running)
               PROVE  InOrder(p, isUp2, stops2, wasLost, running)
    OBVIOUS
  <1>1. PICK n \in Nat : /\ n + 1 \in DOMAIN p /\ p[n + 1] = "lost" /\ n + 1 \notin DOMAIN q
                         /\ \A i \in DOMAIN q : i \in DOMAIN p /\ p[i] = q[i] /\ i < n + 1 /\ i \in Nat
                         /\ \A i \in DOMAIN p : i \in DOMAIN q \/ i = n + 1
    BY GrownAt
  <1>2. QED
    BY <1>1 DEF InOrder, ComesUp, Closed, StillUp

\* The GUI handles the signal at the head of q, and p is what is left.
Handles(q, p, isUp, stops, wasLost, running) ==
    /\ q[1] \notin {"lost", "started", "stopped"} => InOrder(p, isUp, stops, wasLost, running)
    /\ q[1] = "lost" => InOrder(p, isUp, stops, TRUE, running)
    /\ q[1] = "stopped" => InOrder(p, isUp, stops, FALSE, FALSE)
    /\ q[1] = "started" /\ wasLost => InOrder(p, isUp, stops, wasLost, running)
    /\ q[1] = "started" /\ ~wasLost => InOrder(p, isUp, stops, wasLost, TRUE)
    /\ q[1] = "started" /\ wasLost => stops \/ \E j \in DOMAIN p : p[j] = "stopped"
    /\ q[1] \in {"lost", "started"} => isUp \/ \E j \in DOMAIN p : p[j] = "stopped"

LEMMA OrderShrunk ==
  ASSUME NEW q, NEW p, Shrunk(q, p)
  PROVE  \A isUp, stops, wasLost, running \in BOOLEAN :
           InOrder(q, isUp, stops, wasLost, running) => Handles(q, p, isUp, stops, wasLost, running)
  <1> SUFFICES ASSUME NEW isUp \in BOOLEAN, NEW stops \in BOOLEAN, NEW wasLost \in BOOLEAN,
                      NEW running \in BOOLEAN, InOrder(q, isUp, stops, wasLost, running)
               PROVE  Handles(q, p, isUp, stops, wasLost, running)
    OBVIOUS
  <1>1. /\ 1 \in DOMAIN q /\ DOMAIN q \subseteq Nat /\ DOMAIN p \subseteq Nat
        /\ \A i \in DOMAIN p : i + 1 \in DOMAIN q /\ p[i] = q[i + 1] /\ 1 < i + 1
        /\ \A i \in DOMAIN q : i = 1 \/ \E j \in DOMAIN p : i = j + 1 /\ p[j] = q[i]
        /\ \A i \in DOMAIN q : i = 1 \/ 1 < i
    BY ShrunkAt
  <1>2. \A x : (\E j \in DOMAIN q : q[j] = x) => q[1] = x \/ \E j \in DOMAIN p : p[j] = x
    BY <1>1
  <1>3. \A i \in DOMAIN p : \A x : (\E j \in DOMAIN q : i + 1 < j /\ q[j] = x) =>
                                     \E j \in DOMAIN p : i < j /\ p[j] = x
    BY <1>1
  <1>4. \A x : (\E j \in DOMAIN q : 1 < j /\ q[j] = x) => \E j \in DOMAIN p : p[j] = x
    BY <1>1
  <1>5. \A i \in DOMAIN p : (\E j \in DOMAIN q : j < i + 1 /\ q[j] = "stopped") =>
                              q[1] = "stopped" \/ \E j \in DOMAIN p : j < i /\ p[j] = "stopped"
    BY <1>1
  <1>6. \A k, i \in DOMAIN p : (\E j \in DOMAIN q : k + 1 < j /\ j < i + 1 /\ q[j] = "stopped") =>
                                  \E j \in DOMAIN p : k < j /\ j < i /\ p[j] = "stopped"
    BY <1>1
  <1>7. \A i \in DOMAIN p : (\E j \in DOMAIN q : 1 < j /\ j < i + 1 /\ q[j] = "stopped") =>
                              \E j \in DOMAIN p : j < i /\ p[j] = "stopped"
    BY <1>1
  <1>8. \A i \in DOMAIN p : p[i] \in {"lost", "started"} =>
          isUp \/ \E j \in DOMAIN p : i < j /\ p[j] = "stopped"
    BY <1>1, <1>3 DEF InOrder
  <1>9. \A i \in DOMAIN p : p[i] = "stopped" /\ isUp =>
          stops \/ \E j \in DOMAIN p : i < j /\ p[j] = "started"
    BY <1>1, <1>3 DEF InOrder
  <1>10. ASSUME NEW i \in DOMAIN p, p[i] = "started"
         PROVE  \/ stops
                \/ \E j \in DOMAIN p : i < j /\ p[j] = "stopped"
                \/ /\ wasLost => q[1] = "stopped" \/ \E j \in DOMAIN p : j < i /\ p[j] = "stopped"
                   /\ q[1] = "lost" => \E j \in DOMAIN p : j < i /\ p[j] = "stopped"
                   /\ \A k \in DOMAIN p : k < i /\ p[k] = "lost" =>
                        \E j \in DOMAIN p : k < j /\ j < i /\ p[j] = "stopped"
    <2>1. i + 1 \in DOMAIN q /\ q[i + 1] = "started" /\ 1 < i + 1
      BY <1>1, <1>10
    <2>2. CASE stops \/ \E j \in DOMAIN q : i + 1 < j /\ q[j] = "stopped"
      BY <1>3, <2>2
    <2>3. CASE /\ wasLost => \E j \in DOMAIN q : j < i + 1 /\ q[j] = "stopped"
               /\ \A k \in DOMAIN q : k < i + 1 /\ q[k] = "lost" =>
                    \E j \in DOMAIN q : k < j /\ j < i + 1 /\ q[j] = "stopped"
      <3>1. wasLost => q[1] = "stopped" \/ \E j \in DOMAIN p : j < i /\ p[j] = "stopped"
        BY <1>5, <2>3
      <3>2. q[1] = "lost" => \E j \in DOMAIN p : j < i /\ p[j] = "stopped"
        BY <1>1, <1>7, <2>1, <2>3
      <3>3. \A k \in DOMAIN p : k < i /\ p[k] = "lost" =>
              \E j \in DOMAIN p : k < j /\ j < i /\ p[j] = "stopped"
        BY <1>1, <1>6, <2>3
      <3>4. QED
        BY <3>1, <3>2, <3>3
    <2>4. QED
      BY <2>1, <2>2, <2>3 DEF InOrder
  <1>11. q[1] \notin {"lost", "started", "stopped"} => InOrder(p, isUp, stops, wasLost, running)
    BY <1>2, <1>8, <1>9, <1>10 DEF InOrder
  <1>12. q[1] = "stopped" /\ isUp => stops \/ \E j \in DOMAIN p : p[j] = "started"
    BY <1>1, <1>4 DEF InOrder
  <1>13. q[1] \in {"lost", "started"} => isUp \/ \E j \in DOMAIN p : p[j] = "stopped"
    BY <1>1, <1>4 DEF InOrder
  <1>14. q[1] = "started" /\ wasLost => stops \/ \E j \in DOMAIN p : p[j] = "stopped"
    BY <1>1, <1>4 DEF InOrder
  <1>15. q[1] = "lost" => InOrder(p, isUp, stops, TRUE, running)
    <2> SUFFICES ASSUME q[1] = "lost" PROVE InOrder(p, isUp, stops, TRUE, running)
      OBVIOUS
    <2>1. isUp => running \/ stops \/ \E j \in DOMAIN p : p[j] = "started"
      BY <1>2 DEF InOrder
    <2>2. QED
      BY <1>8, <1>9, <1>10, <1>13, <2>1 DEF InOrder
  <1>16. q[1] = "stopped" => InOrder(p, isUp, stops, FALSE, FALSE)
    BY <1>8, <1>9, <1>10, <1>12 DEF InOrder
  <1>17. q[1] = "started" => InOrder(p, isUp, stops, wasLost, running \/ ~wasLost)
    <2> SUFFICES ASSUME q[1] = "started" PROVE InOrder(p, isUp, stops, wasLost, running \/ ~wasLost)
      OBVIOUS
    <2>1. isUp => (running \/ ~wasLost) \/ stops \/ \E j \in DOMAIN p : p[j] = "started"
      <3>1. CASE wasLost /\ isUp /\ ~stops
        <4>1. PICK j \in DOMAIN p : p[j] = "stopped"
          BY <1>14, <3>1
        <4>2. QED
          BY <1>9, <3>1, <4>1
      <3>2. QED
        BY <3>1
    <2>2. wasLost => isUp \/ \E j \in DOMAIN p : p[j] = "stopped"
      BY <1>13
    <2>3. QED
      BY <1>8, <1>9, <1>10, <2>1, <2>2 DEF InOrder
  <1>18. /\ q[1] = "started" /\ wasLost => InOrder(p, isUp, stops, wasLost, running)
         /\ q[1] = "started" /\ ~wasLost => InOrder(p, isUp, stops, wasLost, TRUE)
    BY <1>17 DEF InOrder
  <1>19. QED
    BY <1>11, <1>13, <1>14, <1>15, <1>16, <1>18 DEF Handles

-----------------------------------------------------------------------------
(* The three queues.                                                         *)

\* What lies on the decoder's queue stays at its place.
Prefixed(q, p) == \A i \in DOMAIN q : i \in DOMAIN p /\ p[i] = q[i]

LEMMA RxSent ==
  ASSUME CapTypes, NEW e \in RxCalls, e.op = "chunk" => e.session \in 1 .. Len(sessRate)
  PROVE  /\ Append(rxQ, e) \in Seq(RxCalls) /\ Grown(rxQ, Append(rxQ, e), e)
         /\ Prefixed(rxQ, Append(rxQ, e))
         /\ \A i \in DOMAIN Append(rxQ, e) :
              Append(rxQ, e)[i].op = "chunk" => Append(rxQ, e)[i].session \in 1 .. Len(sessRate)
  <1>1. Append(rxQ, e) \in Seq(RxCalls) /\ Grown(rxQ, Append(rxQ, e), e)
    BY GrownBy DEF CapTypes, TypeOK
  <1>2. QED
    BY <1>1, GrownAt DEF CapTypes, Prefixed

LEMMA RxTaken ==
  ASSUME CapTypes, rxQ # <<>>
  PROVE  /\ Tail(rxQ) \in Seq(RxCalls) /\ Shrunk(rxQ, Tail(rxQ))
         /\ Head(rxQ) = rxQ[1] /\ 1 \in DOMAIN rxQ /\ rxQ[1] \in RxCalls
         /\ \A i \in DOMAIN Tail(rxQ) :
              Tail(rxQ)[i].op = "chunk" => Tail(rxQ)[i].session \in 1 .. Len(sessRate)
  <1>1. /\ Tail(rxQ) \in Seq(RxCalls) /\ Shrunk(rxQ, Tail(rxQ))
        /\ Head(rxQ) = rxQ[1] /\ 1 \in DOMAIN rxQ /\ rxQ[1] \in RxCalls
    BY ShrunkBy DEF CapTypes, TypeOK
  <1>2. QED
    BY <1>1, ShrunkAt DEF CapTypes

LEMMA AudioAsked ==
  ASSUME CapTypes, NEW e \in AudioCalls, e.worker <= cur
  PROVE  /\ Append(audioQ, e) \in Seq(AudioCalls) /\ Grown(audioQ, Append(audioQ, e), e)
         /\ \A i \in DOMAIN Append(audioQ, e) : Append(audioQ, e)[i].worker <= cur
  <1>1. Append(audioQ, e) \in Seq(AudioCalls) /\ Grown(audioQ, Append(audioQ, e), e)
    BY GrownBy DEF CapTypes, TypeOK
  <1>2. QED
    BY <1>1, GrownAt DEF CapTypes

LEMMA AudioTaken ==
  ASSUME CapTypes, audioQ # <<>>
  PROVE  /\ Tail(audioQ) \in Seq(AudioCalls) /\ Shrunk(audioQ, Tail(audioQ))
         /\ Head(audioQ) = audioQ[1] /\ 1 \in DOMAIN audioQ /\ audioQ[1] \in AudioCalls
         /\ audioQ[1].worker \in Workers /\ audioQ[1].worker <= cur /\ audioQ[1].rate \in Rates
         /\ audioQ[1].op \in {"start", "stop"}
         /\ \A i \in DOMAIN Tail(audioQ) : Tail(audioQ)[i].worker <= cur
  <1>1. /\ Tail(audioQ) \in Seq(AudioCalls) /\ Shrunk(audioQ, Tail(audioQ))
        /\ Head(audioQ) = audioQ[1] /\ 1 \in DOMAIN audioQ /\ audioQ[1] \in AudioCalls
    BY ShrunkBy DEF CapTypes, TypeOK
  <1>2. \A i \in DOMAIN Tail(audioQ) : Tail(audioQ)[i].worker <= cur
    BY <1>1, ShrunkAt DEF CapTypes
  <1>3. QED
    BY <1>1, <1>2 DEF CapTypes, AudioCalls

LEMMA Effective ==
  ASSUME NEW w, NEW r \in Rates
  PROVE  EffectiveRate(w, r) \in Rates \cup {TciRate}
  BY DEF EffectiveRate

\* The decoder is told a rate: all the queue's properties hold behind the call.
LEMMA Retuned ==
  ASSUME CapTypes, NEW r \in Rates \cup {TciRate}
  PROVE  LET p == rxQ \o RateCalls(r)
         IN /\ p \in Seq(RxCalls) /\ Prefixed(rxQ, p)
            /\ \A i \in DOMAIN p : p[i].op = "chunk" => p[i].session \in 1 .. Len(sessRate)
            /\ RateBehind(rxQ, decRate, guiRate) => RateBehind(p, decRate, r)
            /\ RateBehind(rxQ, decRate, guiRate) /\ ChunksAtRate(rxQ, decRate, sessRate)
                 => ChunksAtRate(p, decRate, sessRate)
            /\ Separated(rxQ, heard) => Separated(p, heard)
            /\ \A S : Behind(rxQ, heard, S) => Behind(p, heard, S)
            /\ \A end : GateBehind(rxQ, gated, end) => GateBehind(p, gated, end)
  <1> DEFINE p == rxQ \o RateCalls(r)
             e == [op |-> "rate", rate |-> r]
  <1>1. CASE r = guiRate
    <2>1. p = rxQ
      BY <1>1 DEF RateCalls, CapTypes, TypeOK
    <2>2. QED
      BY <1>1, <2>1 DEF CapTypes, TypeOK, Prefixed
  <1>2. CASE r # guiRate
    <2>1. e \in RxCalls
      BY DEF RxCalls
    <2>2. p \in Seq(RxCalls) /\ Grown(rxQ, p, e)
      BY <1>2, <2>1, GrownBy DEF RateCalls, CapTypes, TypeOK
    <2> HIDE DEF p
    <2>3. e.op = "rate" /\ e.op # "chunk" /\ e.op # "reset" /\ e.op # "gate" /\ e.rate = r
      OBVIOUS
    <2> HIDE DEF e
    <2>4. Prefixed(rxQ, p) /\ \A i \in DOMAIN p : p[i].op = "chunk" => p[i].session \in 1 .. Len(sessRate)
      BY <2>2, <2>3, GrownAt DEF CapTypes, Prefixed
    <2>5. RateBehind(rxQ, decRate, guiRate) => RateBehind(p, decRate, r)
      BY <2>2, <2>3, RateGrown
    <2>6. RateBehind(rxQ, decRate, guiRate) /\ ChunksAtRate(rxQ, decRate, sessRate)
            => ChunksAtRate(p, decRate, sessRate)
      BY <2>2, <2>3, ChunksGrown
    <2>7. Separated(rxQ, heard) => Separated(p, heard)
      BY <2>2, <2>3, SeparatedGrown
    <2>8. \A S : Behind(rxQ, heard, S) => Behind(p, heard, S)
      BY <2>2, <2>3, BehindGrown
    <2>9. \A end : GateBehind(rxQ, gated, end) => GateBehind(p, gated, end)
      BY <2>2, <2>3, GateGrown
    <2>10. QED
      BY <2>2, <2>4, <2>5, <2>6, <2>7, <2>8, <2>9 DEF p
  <1>3. QED
    BY <1>1, <1>2

\* ... and asked for a reset: nothing is left of what it had.
LEMMA RetunedReset ==
  ASSUME CapTypes, NEW r \in Rates \cup {TciRate}
  PROVE  LET p == rxQ \o RateCalls(r) \o <<[op |-> "reset"]>>
         IN /\ p \in Seq(RxCalls) /\ Prefixed(rxQ, p)
            /\ \E i \in DOMAIN p : p[i].op = "reset"
            /\ \A i \in DOMAIN p : p[i].op = "chunk" => p[i].session \in 1 .. Len(sessRate)
            /\ RateBehind(rxQ, decRate, guiRate) => RateBehind(p, decRate, r)
            /\ RateBehind(rxQ, decRate, guiRate) /\ ChunksAtRate(rxQ, decRate, sessRate)
                 => ChunksAtRate(p, decRate, sessRate)
            /\ Separated(rxQ, heard) => Separated(p, heard)
            /\ \A S : Behind(p, heard, S)
            /\ \A end : GateBehind(rxQ, gated, end) => GateBehind(p, gated, end)
  <1> DEFINE m == rxQ \o RateCalls(r)
             p == m \o <<[op |-> "reset"]>>
             e == [op |-> "reset"]
  <1>1. /\ m \in Seq(RxCalls) /\ Prefixed(rxQ, m)
        /\ \A i \in DOMAIN m : m[i].op = "chunk" => m[i].session \in 1 .. Len(sessRate)
        /\ RateBehind(rxQ, decRate, guiRate) => RateBehind(m, decRate, r)
        /\ RateBehind(rxQ, decRate, guiRate) /\ ChunksAtRate(rxQ, decRate, sessRate)
             => ChunksAtRate(m, decRate, sessRate)
        /\ Separated(rxQ, heard) => Separated(m, heard)
        /\ \A end : GateBehind(rxQ, gated, end) => GateBehind(m, gated, end)
    BY Retuned
  <1> HIDE DEF m
  <1>2. e \in RxCalls
    BY DEF RxCalls
  <1>3. p \in Seq(RxCalls) /\ Grown(m, p, e)
    BY <1>1, <1>2, GrownBy
  <1> HIDE DEF p
  <1>4. e.op = "reset" /\ e.op # "chunk" /\ e.op # "rate" /\ e.op # "gate"
    OBVIOUS
  <1> HIDE DEF e
  <1>5. /\ Prefixed(rxQ, p) /\ \A i \in DOMAIN p : p[i].op = "chunk" => p[i].session \in 1 .. Len(sessRate)
        /\ \E i \in DOMAIN p : p[i].op = "reset"
    BY <1>1, <1>3, <1>4, GrownAt DEF Prefixed
  <1>6. RateBehind(m, decRate, r) => RateBehind(p, decRate, r)
    BY <1>3, <1>4, RateGrown
  <1>7. RateBehind(m, decRate, r) /\ ChunksAtRate(m, decRate, sessRate) => ChunksAtRate(p, decRate, sessRate)
    BY <1>3, <1>4, ChunksGrown
  <1>8. Separated(m, heard) => Separated(p, heard)
    BY <1>3, <1>4, SeparatedGrown
  <1>9. \A S : Behind(p, heard, S)
    BY <1>3, <1>4, BehindGrown
  <1>10. \A end : GateBehind(m, gated, end) => GateBehind(p, gated, end)
    BY <1>3, <1>4, GateGrown
  <1>11. QED
    BY <1>1, <1>3, <1>5, <1>6, <1>7, <1>8, <1>9, <1>10 DEF p, m

LEMMA GuiTaken ==
  ASSUME CapTypes, gui # <<>>
  PROVE  /\ Tail(gui) \in Seq(GuiSignals) /\ Shrunk(gui, Tail(gui))
         /\ Head(gui) = gui[1] /\ 1 \in DOMAIN gui /\ gui[1] \in GuiSignals
  BY ShrunkBy DEF CapTypes, TypeOK

LEMMA Signals ==
  /\ <<>> \in Seq(GuiSignals)
  /\ \A s \in GuiSignals : <<s>> \in Seq(GuiSignals)
  /\ \A s, t \in GuiSignals : <<s, t>> \in Seq(GuiSignals)
  /\ \A w : \A s \in Seq(GuiSignals) :
       gui \in Seq(GuiSignals) /\ Emit(w, s) => gui' \in Seq(GuiSignals)
  <1>1. \A s \in GuiSignals : <<s>> \in Seq(GuiSignals)
    OBVIOUS
  <1>2. \A s, t \in GuiSignals : <<s, t>> \in Seq(GuiSignals)
    OBVIOUS
  <1>3. ASSUME NEW w, NEW s \in Seq(GuiSignals), gui \in Seq(GuiSignals), Emit(w, s)
        PROVE  gui' \in Seq(GuiSignals)
    <2>1. gui \o s \in Seq(GuiSignals)
      BY <1>3
    <2>2. QED
      BY <1>3, <2>1 DEF Emit
  <1>4. QED
    BY <1>1, <1>2, <1>3

LEMMA FlagsStep ==
  ASSUME CapTypes, Next
  PROVE  Flags'
  <1>0. Flags
    BY DEF CapTypes, TypeOK
  <1>1. CASE ClickStart \/ ClickStop \/ ClickClear
    BY <1>0, <1>1 DEF Flags, ClickStart, ClickStop, ClickClear, BeginCapture, CancelRecovery, guiVars,
       gateVars, rxVars
  <1>2. CASE (\E r \in Rates : SaveSettings(r)) \/ SwapBegin \/ SwapFinish
    <2>1. ASSUME SwapFinish PROVE armed' \in BOOLEAN
      <3>1. swap.was \in BOOLEAN
        BY DEF CapTypes, TypeOK
      <3>2. QED
        BY <2>1, <3>1 DEF SwapFinish
    <2>2. CASE SwapFinish
      BY <1>0, <2>1, <2>2 DEF Flags, SwapFinish, gateVars, rxVars
    <2>3. CASE (\E r \in Rates : SaveSettings(r)) \/ SwapBegin
      BY <1>0, <2>3 DEF Flags, SaveSettings, SwapBegin, guiVars, gateVars, rxVars
    <2>4. QED
      BY <1>2, <2>2, <2>3
  <1>3. CASE RecoveryTimer
    BY <1>0, <1>3 DEF Flags, RecoveryTimer, BeginCapture, gateVars, rxVars
  <1>4. CASE LiftGate \/ Chunk
    BY <1>0, <1>4 DEF Flags, LiftGate, Chunk, guiVars, gateVars, rxVars
  <1>5. CASE GuiHandles
    <2>1. CASE OnResetDone
      BY <1>0, <2>1 DEF Flags, OnResetDone, gateVars, rxVars
    <2>2. CASE OnStarted
      BY <1>0, <2>2 DEF Flags, OnStarted, CancelRecovery, gateVars, rxVars
    <2>3. CASE OnStopped \/ OnDeviceLost
      BY <1>0, <2>3 DEF Flags, OnStopped, OnDeviceLost, gateVars, rxVars
    <2>4. CASE OnAcked \/ OnTxStarted \/ OnTxEnded
      BY <1>0, <2>4 DEF Flags, OnAcked, OnTxStarted, OnTxEnded, guiVars, gateVars, rxVars
    <2>5. QED
      BY <1>5, <2>1, <2>2, <2>3, <2>4 DEF GuiHandles
  <1>6. CASE AudioRuns \/ \E w \in Workers : DeviceLoss(w) \/ TciStall(w)
    <2>1. CASE AudioStart
      BY <1>0, <2>1 DEF Flags, AudioStart, guiVars, gateVars, rxVars
    <2>2. CASE AudioStop
      BY <1>0, <2>2 DEF Flags, AudioStop, guiVars, gateVars, rxVars
    <2>3. CASE \E w \in Workers : DeviceLoss(w) \/ TciStall(w)
      BY <1>0, <2>3 DEF Flags, DeviceLoss, TciStall, guiVars, gateVars, rxVars
    <2>4. QED
      BY <1>6, <2>1, <2>2, <2>3 DEF AudioRuns
  <1>7. CASE RxRuns
    <2>1. CASE RxGate
      <3>1. Head(rxQ).on \in BOOLEAN
        <4>1. rxQ # <<>> /\ rxQ[1] \in RxCalls /\ Head(rxQ) = rxQ[1] /\ rxQ[1].op = "gate"
          BY <2>1, RxTaken DEF RxGate
        <4>2. QED
          BY <4>1 DEF RxCalls
      <3>2. QED
        BY <1>0, <2>1, <3>1 DEF Flags, RxGate, guiVars, gateVars
    <2>2. CASE RxChunk \/ RxReset \/ RxRate
      BY <1>0, <2>2 DEF Flags, RxChunk, RxReset, RxRate, guiVars, gateVars
    <2>3. QED
      BY <1>7, <2>1, <2>2 DEF RxRuns
  <1>8. CASE TxRequest \/ TxKeying \/ TxOn \/ TxOff \/ TxFailed \/ TxIdle
    BY <1>0, <1>8 DEF Flags, TxRequest, TxKeying, TxOn, TxOff, TxFailed, TxIdle, TxStep, guiVars, gateVars, rxVars
  <1>9. QED
    BY <1>1, <1>2, <1>3, <1>4, <1>5, <1>6, <1>7, <1>8 DEF Next

LEMMA CapturingTypes ==
  ASSUME CapTypes, Flags',
         \/ ClickStart \/ ClickStop \/ ClickClear \/ RecoveryTimer
         \/ \E r \in Rates : SaveSettings(r)
  PROVE  CapTypes'
  <1> USE CaptureAssumption
  <1>1. cur \in Workers /\ cfgRate \in Rates /\ EffectiveRate(cur, cfgRate) \in Rates \cup {TciRate}
    BY Effective DEF CapTypes, TypeOK
  <1>2. ASSUME BeginCapture PROVE
          /\ guiRate' \in Rates \cup {TciRate} /\ rxQ' \in Seq(RxCalls)
          /\ \A i \in DOMAIN rxQ' : rxQ'[i].op = "chunk" => rxQ'[i].session \in 1 .. Len(sessRate)
          /\ races' \subseteq Races /\ armed' \in BOOLEAN /\ discMsg' \in BOOLEAN
    <2>1. guiRate' = EffectiveRate(cur, cfgRate)
          /\ rxQ' = rxQ \o RateCalls(guiRate') \o <<[op |-> "reset"]>>
      BY <1>2 DEF BeginCapture
    <2>2. /\ rxQ' \in Seq(RxCalls)
          /\ \A i \in DOMAIN rxQ' : rxQ'[i].op = "chunk" => rxQ'[i].session \in 1 .. Len(sessRate)
      BY <1>1, <2>1, RetunedReset
    <2>3. QED
      BY <1>1, <1>2, <2>1, <2>2 DEF BeginCapture, CapTypes, TypeOK, Races
  <1>3. CASE ClickStart
    <2>1. TypeOK'
      BY <1>2, <1>3 DEF ClickStart, CapTypes, TypeOK, Event, CancelRecovery, swapVars, gateVars,
         audioVars, rxVars
    <2>2. QED
      BY <1>2, <1>3, <2>1 DEF ClickStart, CapTypes, CancelRecovery, swapVars, gateVars, audioVars,
         rxVars
  <1>4. CASE ClickStop
    <2>1. [op |-> "stop", worker |-> cur, rate |-> cfgRate] \in AudioCalls
      BY <1>1 DEF AudioCalls
    <2>2. audioQ' \in Seq(AudioCalls) /\ \A i \in DOMAIN audioQ' : audioQ'[i].worker <= cur
      BY <1>1, <1>4, <2>1, AudioAsked DEF ClickStop, Workers
    <2>3. TypeOK'
      BY <1>4, <2>2 DEF ClickStop, CapTypes, TypeOK, Event, CancelRecovery, swapVars, rateVars,
         gateVars, audioVars, rxVars
    <2>4. QED
      BY <1>4, <2>2, <2>3 DEF ClickStop, CapTypes, CancelRecovery, swapVars, rateVars, gateVars,
         audioVars, rxVars
  <1>5. CASE ClickClear
    <2>1. [op |-> "reset"] \in RxCalls /\ [op |-> "reset"].op # "chunk"
      BY DEF RxCalls
    <2>2. rxQ' \in Seq(RxCalls)
          /\ \A i \in DOMAIN rxQ' : rxQ'[i].op = "chunk" => rxQ'[i].session \in 1 .. Len(sessRate)
      BY <1>5, <2>1, RxSent DEF ClickClear
    <2>3. TypeOK'
      BY <1>5, <2>2 DEF ClickClear, CapTypes, TypeOK, Event, guiVars, swapVars,
         rateVars, gateVars, audioVars, rxVars
    <2>4. QED
      BY <1>5, <2>2, <2>3 DEF ClickClear, CapTypes, guiVars, swapVars, rateVars, gateVars,
         audioVars, rxVars
  <1>6. CASE RecoveryTimer
    <2>1. CASE BeginCapture
      <3>1. TypeOK'
        BY <1>2, <1>6, <2>1 DEF RecoveryTimer, CapTypes, TypeOK, swapVars, gateVars, audioVars,
           rxVars
      <3>2. QED
        BY <1>2, <1>6, <2>1, <3>1 DEF RecoveryTimer, CapTypes, swapVars, gateVars, audioVars, rxVars
    <2>2. CASE UNCHANGED <<armed, discMsg, guiRate, rxQ, races>>
      <3>1. TypeOK'
        BY <1>6, <2>2 DEF RecoveryTimer, CapTypes, TypeOK, swapVars, gateVars, audioVars, rxVars
      <3>2. QED
        BY <1>6, <2>2, <3>1 DEF RecoveryTimer, CapTypes, swapVars, gateVars, audioVars, rxVars
    <2>3. QED
      BY <1>6, <2>1, <2>2 DEF RecoveryTimer
  <1>7. ASSUME NEW r \in Rates, SaveSettings(r)
        PROVE  CapTypes'
    <2>1. EffectiveRate(cur, r) \in Rates \cup {TciRate}
      BY Effective
    <2>2. /\ guiRate' \in Rates \cup {TciRate} /\ rxQ' \in Seq(RxCalls)
          /\ \A i \in DOMAIN rxQ' : rxQ'[i].op = "chunk" => rxQ'[i].session \in 1 .. Len(sessRate)
      <3>1. CASE cap
        BY <1>7, <3>1 DEF SaveSettings, CapTypes, TypeOK
      <3>2. CASE ~cap
        BY <1>7, <2>1, <3>2, Retuned DEF SaveSettings
      <3>3. QED
        BY <3>1, <3>2
    <2>3. races' \subseteq Races
      BY <1>7 DEF SaveSettings, Race, Races, CapTypes, TypeOK
    <2>4. QED
      BY <1>7, <2>2, <2>3 DEF SaveSettings, CapTypes, TypeOK, Event, guiVars, swapVars, gateVars,
         audioVars, rxVars
  <1>8. QED
    BY <1>3, <1>4, <1>5, <1>6, <1>7

LEMMA SwappingTypes ==
  ASSUME CapTypes, Flags', SwapBegin \/ SwapFinish \/ LiftGate
  PROVE  CapTypes'
  <1> USE CaptureAssumption
  <1>1. cur \in Workers /\ cfgRate \in Rates
    BY DEF CapTypes, TypeOK
  <1>2. CASE SwapBegin
    <2>1. [op |-> "stop", worker |-> cur, rate |-> cfgRate] \in AudioCalls
      BY <1>1 DEF AudioCalls
    <2>2. audioQ' \in Seq(AudioCalls) /\ \A i \in DOMAIN audioQ' : audioQ'[i].worker <= cur
      BY <1>1, <1>2, <2>1, AudioAsked DEF SwapBegin, Workers
    <2>3. swap' \in [to : {"none", "portaudio", "tci"}, was : BOOLEAN, acked : BOOLEAN]
      <3>1. cap \in BOOLEAN /\ Kind(cur + 1) \in {"none", "portaudio", "tci"}
        BY DEF Kind, CapTypes, TypeOK, Flags
      <3>2. QED
        BY <1>2, <3>1 DEF SwapBegin
    <2>4. races' \subseteq Races
      BY <1>2 DEF SwapBegin, Race, Races, CapTypes, TypeOK
    <2>5. QED
      BY <1>2, <2>2, <2>3, <2>4 DEF SwapBegin, CapTypes, TypeOK, Event, guiVars,
         rateVars, gateVars, audioVars, rxVars
  <1>3. CASE SwapFinish
    <2>1. cur' = cur + 1 /\ cur' \in Workers /\ cur <= cur'
      BY <1>1, <1>3 DEF SwapFinish, CapTypes, Workers
    <2>2. guiRate' = EffectiveRate(cur + 1, cfgRate) /\ guiRate' \in Rates \cup {TciRate}
      BY <1>1, <1>3, Effective DEF SwapFinish
    <2>3. rxQ' = rxQ \o RateCalls(guiRate') \o <<[op |-> "reset"]>>
      BY <1>3 DEF SwapFinish
    <2>4. /\ rxQ' \in Seq(RxCalls)
          /\ \A i \in DOMAIN rxQ' : rxQ'[i].op = "chunk" => rxQ'[i].session \in 1 .. Len(sessRate)
      BY <2>2, <2>3, RetunedReset
    <2>5. races' \subseteq Races
      BY <1>3 DEF SwapFinish, Race, Races, CapTypes, TypeOK
    <2>6. swap' = NoSwap /\ NoSwap \in [to : {"none", "portaudio", "tci"}, was : BOOLEAN, acked : BOOLEAN]
      BY <1>3 DEF SwapFinish, NoSwap
    <2>7. armed' \in BOOLEAN
      BY <1>3 DEF SwapFinish, CapTypes, TypeOK
    <2>8. \A w \in Workers : stream[w] # None => w <= cur'
      BY <1>1, <2>1 DEF CapTypes, Workers
    <2>9. \A i \in DOMAIN audioQ : audioQ[i].worker <= cur'
      <3> SUFFICES ASSUME NEW i \in DOMAIN audioQ PROVE audioQ[i].worker <= cur'
        OBVIOUS
      <3>1. audioQ[i] \in AudioCalls
        BY DEF CapTypes, TypeOK
      <3>2. audioQ[i].worker \in Workers /\ audioQ[i].worker <= cur
        BY <3>1 DEF AudioCalls, CapTypes
      <3>3. QED
        BY <1>1, <2>1, <3>2 DEF Workers
    <2>10. QED
      BY <1>3, <2>1, <2>2, <2>4, <2>5, <2>6, <2>7, <2>8, <2>9 DEF SwapFinish, CapTypes, TypeOK,
         gateVars, audioVars, rxVars
  <1>4. CASE LiftGate
    <2>1. [op |-> "gate", on |-> FALSE] \in RxCalls /\ [op |-> "gate", on |-> FALSE].op # "chunk"
      BY DEF RxCalls
    <2>2. rxQ' \in Seq(RxCalls)
          /\ \A i \in DOMAIN rxQ' : rxQ'[i].op = "chunk" => rxQ'[i].session \in 1 .. Len(sessRate)
      <3>1. CASE raised
        BY <1>4, <3>1 DEF LiftGate, CapTypes, TypeOK
      <3>2. CASE ~raised
        BY <1>4, <2>1, <3>2, RxSent DEF LiftGate
      <3>3. QED
        BY <3>1, <3>2
    <2>3. lifts' \in Nat
      BY <1>4 DEF LiftGate, CapTypes, TypeOK
    <2>4. QED
      BY <1>4, <2>2, <2>3 DEF LiftGate, CapTypes, TypeOK, guiVars, rateVars, swapVars, audioVars, rxVars
  <1>5. QED
    BY <1>2, <1>3, <1>4

LEMMA HandlingTypes ==
  ASSUME CapTypes, Flags', GuiHandles
  PROVE  CapTypes'
  <1>1. gui' \in Seq(GuiSignals)
    BY GuiTaken DEF GuiHandles, OnResetDone, OnStarted, OnStopped, OnDeviceLost, OnAcked,
       OnTxStarted, OnTxEnded, Taken
  <1>2. CASE OnResetDone
    <2>1. cur \in Workers /\ cfgRate \in Rates /\ cur <= cur
      BY CaptureAssumption DEF CapTypes, TypeOK, Workers
    <2>2. [op |-> "start", worker |-> cur, rate |-> cfgRate] \in AudioCalls
      BY <2>1 DEF AudioCalls
    <2>3. audioQ' \in Seq(AudioCalls) /\ \A i \in DOMAIN audioQ' : audioQ'[i].worker <= cur
      <3>1. CASE armed
        BY <1>2, <2>1, <2>2, <3>1, AudioAsked DEF OnResetDone
      <3>2. CASE ~armed
        BY <1>2, <3>2 DEF OnResetDone, CapTypes, TypeOK
      <3>3. QED
        BY <3>1, <3>2
    <2>4. TypeOK'
      BY <1>1, <1>2, <2>3 DEF OnResetDone, CapTypes, TypeOK, rateVars, swapVars, gateVars,
         audioVars, rxVars
    <2>5. QED
      BY <1>1, <1>2, <2>3, <2>4 DEF OnResetDone, CapTypes, rateVars, swapVars, gateVars, audioVars,
         rxVars
  <1>3. CASE OnStarted
    <2>1. TypeOK'
      BY <1>1, <1>3 DEF OnStarted, CancelRecovery, CapTypes, TypeOK, rateVars, swapVars, gateVars,
         audioVars, rxVars
    <2>2. QED
      BY <1>1, <1>3, <2>1 DEF OnStarted, CancelRecovery, CapTypes, rateVars, swapVars, gateVars,
         audioVars, rxVars
  <1>4. CASE OnStopped
    <2>1. TypeOK'
      BY <1>1, <1>4 DEF OnStopped, CapTypes, TypeOK, rateVars, swapVars, gateVars, audioVars, rxVars
    <2>2. QED
      BY <1>1, <1>4, <2>1 DEF OnStopped, CapTypes, rateVars, swapVars, gateVars, audioVars, rxVars
  <1>5. CASE OnDeviceLost
    BY <1>1, <1>5 DEF OnDeviceLost, CapTypes, TypeOK, rateVars, swapVars, gateVars, audioVars, rxVars
  <1>6. CASE OnAcked
    <2>1. /\ swap' \in [to : {"none", "portaudio", "tci"}, was : BOOLEAN, acked : BOOLEAN]
          /\ swap' # NoSwap => swap # NoSwap
      <3>1. swap \in [to : {"none", "portaudio", "tci"}, was : BOOLEAN, acked : BOOLEAN]
        BY DEF CapTypes, TypeOK
      <3>2. CASE swap = NoSwap
        <4>1. (swap # NoSwap) = FALSE
          BY <3>2
        <4>2. swap' = [swap EXCEPT !.acked = FALSE]
          BY <1>6, <4>1 DEF OnAcked
        <4>3. QED
          BY <3>1, <3>2, <4>2 DEF NoSwap
      <3>3. CASE swap # NoSwap
        <4>1. (swap # NoSwap) = TRUE
          BY <3>3
        <4>2. swap' = [swap EXCEPT !.acked = TRUE]
          BY <1>6, <4>1 DEF OnAcked
        <4>3. QED
          BY <3>1, <3>3, <4>2
      <3>4. QED
        BY <3>2, <3>3
    <2>2. QED
      BY <1>1, <1>6, <2>1 DEF OnAcked, CapTypes, TypeOK, guiVars, rateVars, gateVars, audioVars, rxVars
  <1>7. CASE OnTxStarted
    <2>1. [op |-> "gate", on |-> TRUE] \in RxCalls /\ [op |-> "gate", on |-> TRUE].op # "chunk"
      BY DEF RxCalls
    <2>2. rxQ' \in Seq(RxCalls)
          /\ \A i \in DOMAIN rxQ' : rxQ'[i].op = "chunk" => rxQ'[i].session \in 1 .. Len(sessRate)
      BY <1>7, <2>1, RxSent DEF OnTxStarted
    <2>3. QED
      BY <1>1, <1>7, <2>2 DEF OnTxStarted, CapTypes, TypeOK, guiVars, rateVars, swapVars,
         audioVars, rxVars
  <1>8. CASE OnTxEnded
    <2>1. TypeOK'
      BY <1>1, <1>8 DEF OnTxEnded, CapTypes, TypeOK, guiVars, rateVars, swapVars, audioVars, rxVars
    <2>2. QED
      BY <1>1, <1>8, <2>1 DEF OnTxEnded, CapTypes, guiVars, rateVars, swapVars, audioVars, rxVars
  <1>9. QED
    BY <1>2, <1>3, <1>4, <1>5, <1>6, <1>7, <1>8 DEF GuiHandles

LEMMA StreamingTypes ==
  ASSUME CapTypes, Flags',
         AudioRuns \/ Chunk \/ \E w \in Workers : DeviceLoss(w) \/ TciStall(w)
  PROVE  CapTypes'
  <1> USE CaptureAssumption
  <1>1. /\ cur \in Workers /\ cfgRate \in Rates /\ gui \in Seq(GuiSignals)
        /\ stream \in [Workers -> 0 .. MaxOpens] /\ reported \in [Workers -> BOOLEAN]
        /\ sessRate \in Seq(Rates \cup {TciRate}) /\ Len(sessRate) \in 0 .. MaxOpens
    BY DEF CapTypes, TypeOK
  <1>2. CASE AudioStart
    <2>1. audioQ # <<>>
      BY <1>2 DEF AudioStart
    <2>2. PICK w, r : w = audioQ[1].worker /\ r = audioQ[1].rate
      OBVIOUS
    <2>3. /\ w \in Workers /\ w <= cur /\ r \in Rates
          /\ Head(audioQ) = audioQ[1] /\ audioQ[1] \in AudioCalls
          /\ Tail(audioQ) \in Seq(AudioCalls)
          /\ \A i \in DOMAIN Tail(audioQ) : Tail(audioQ)[i].worker <= cur
      BY <2>1, <2>2, AudioTaken
    <2>4. PICK s : s = Len(sessRate) + 1
      OBVIOUS
    <2>5. gui' \in Seq(GuiSignals)
      <3>1. <<"stopped">> \in Seq(GuiSignals) /\ <<"started">> \in Seq(GuiSignals)
            /\ <<"lost", "started">> \in Seq(GuiSignals)
        BY Signals DEF GuiSignals
      <3>2. \/ UNCHANGED gui \/ Emit(w, <<"stopped">>) \/ Emit(w, <<"started">>)
            \/ Emit(w, <<"lost", "started">>)
        BY <1>2, <2>2, <2>3 DEF AudioStart
      <3>3. QED
        BY <1>1, <3>1, <3>2, Signals
    <2>6. audioQ' \in Seq(AudioCalls) /\ \A i \in DOMAIN audioQ' : audioQ'[i].worker <= cur
      <3>1. CASE audioQ' = Tail(audioQ)
        BY <2>3, <3>1
      <3>2. CASE audioQ' = Append(Tail(audioQ), [Head(audioQ) EXCEPT !.op = "stop"])
        <4> DEFINE e == [audioQ[1] EXCEPT !.op = "stop"]
        <4>1. e \in AudioCalls /\ e.worker = w
          BY <2>2, <2>3 DEF AudioCalls
        <4> HIDE DEF e
        <4>2. audioQ' = Append(Tail(audioQ), e)
          BY <2>3, <3>2 DEF e
        <4>3. Grown(Tail(audioQ), audioQ', e) /\ audioQ' \in Seq(AudioCalls)
          BY <2>3, <4>1, <4>2, GrownBy
        <4>4. PICK n \in Nat : /\ audioQ'[n + 1] = e
                               /\ \A i \in DOMAIN Tail(audioQ) : audioQ'[i] = Tail(audioQ)[i]
                               /\ \A i \in DOMAIN audioQ' : i \in DOMAIN Tail(audioQ) \/ i = n + 1
          BY <4>3 DEF Grown
        <4>5. QED
          BY <2>3, <4>1, <4>3, <4>4
      <3>3. \/ audioQ' = Tail(audioQ)
            \/ audioQ' = Append(Tail(audioQ), [Head(audioQ) EXCEPT !.op = "stop"])
        BY <1>2 DEF AudioStart
      <3>4. QED
        BY <3>1, <3>2, <3>3
    <2>7. \/ stream' = stream /\ sessRate' = sessRate
          \/ /\ s <= MaxOpens /\ stream' = [stream EXCEPT ![w] = s]
             /\ sessRate' = Append(sessRate, EffectiveRate(w, r))
      BY <1>2, <2>2, <2>3, <2>4 DEF AudioStart, audioVars
    <2>8. /\ stream' \in [Workers -> 0 .. MaxOpens] /\ sessRate' \in Seq(Rates \cup {TciRate})
          /\ Len(sessRate') <= MaxOpens /\ Len(sessRate) <= Len(sessRate') /\ Len(sessRate') \in Nat
          /\ \A x \in Workers : stream'[x] <= Len(sessRate') /\ (stream'[x] # None => x <= cur)
      <3>1. CASE stream' = stream /\ sessRate' = sessRate
        BY <1>1, <3>1 DEF CapTypes
      <3>2. CASE /\ s <= MaxOpens /\ stream' = [stream EXCEPT ![w] = s]
                 /\ sessRate' = Append(sessRate, EffectiveRate(w, r))
        <4>1. EffectiveRate(w, r) \in Rates \cup {TciRate}
          BY <2>3, Effective
        <4>2. sessRate' \in Seq(Rates \cup {TciRate}) /\ Len(sessRate') = s
          BY <1>1, <2>4, <3>2, <4>1
        <4>3. s \in 0 .. MaxOpens /\ Len(sessRate) <= s /\ s \in Nat
          BY <1>1, <2>4, <3>2
        <4>4. \A x \in Workers : stream'[x] <= s /\ (stream'[x] # None => x <= cur)
          <5> SUFFICES ASSUME NEW x \in Workers
                       PROVE  stream'[x] <= s /\ (stream'[x] # None => x <= cur)
            OBVIOUS
          <5>1. stream[x] <= Len(sessRate) /\ (stream[x] # None => x <= cur) /\ stream[x] \in 0 .. MaxOpens
            BY <1>1 DEF CapTypes
          <5>2. stream'[x] = IF x = w THEN s ELSE stream[x]
            BY <1>1, <3>2
          <5>3. QED
            BY <1>1, <2>3, <4>3, <5>1, <5>2
        <4>5. QED
          BY <1>1, <3>2, <4>2, <4>3, <4>4
      <3>3. QED
        BY <2>7, <3>1, <3>2
    <2>9. reported' \in [Workers -> BOOLEAN]
      <3>1. reported' = reported \/ \E b \in BOOLEAN : reported' = [reported EXCEPT ![w] = b]
        BY <1>2, <2>2, <2>3 DEF AudioStart, audioVars
      <3>2. QED
        BY <1>1, <3>1
    <2>10. events' \in 0 .. MaxEvents
      BY <1>2 DEF AudioStart, Event, CapTypes, TypeOK
    <2>11. UNCHANGED <<rxQ, guiVars, rateVars, swapVars, gateVars, rxVars, txState, races>>
      BY <1>2 DEF AudioStart
    <2>12. TypeOK'
      BY <2>5, <2>6, <2>8, <2>9, <2>10, <2>11 DEF CapTypes, TypeOK, guiVars, rateVars, swapVars,
         gateVars, rxVars
    <2>13. /\ \A i \in DOMAIN rxQ' : rxQ'[i].op = "chunk" => rxQ'[i].session \in 1 .. Len(sessRate')
           /\ heard' \subseteq 1 .. Len(sessRate')
      <3>1. 1 .. Len(sessRate) \subseteq 1 .. Len(sessRate')
        BY <1>1, <2>8
      <3>2. QED
        BY <2>11, <3>1 DEF CapTypes, rxVars
    <2>14. QED
      BY <2>6, <2>8, <2>11, <2>12, <2>13 DEF CapTypes, swapVars
  <1>3. CASE AudioStop
    <2>1. audioQ # <<>>
      BY <1>3 DEF AudioStop
    <2>2. PICK w : w = audioQ[1].worker
      OBVIOUS
    <2>3. /\ w \in Workers /\ w <= cur /\ Head(audioQ) = audioQ[1]
          /\ audioQ' \in Seq(AudioCalls) /\ \A i \in DOMAIN audioQ' : audioQ'[i].worker <= cur
      BY <1>3, <2>1, <2>2, AudioTaken DEF AudioStop
    <2>4. /\ stream' = [stream EXCEPT ![w] = None]
          /\ \/ rxQ' = rxQ
             \/ stream[w] # None /\ rxQ' = Append(rxQ, [op |-> "chunk", session |-> stream[w]])
      BY <1>3, <2>2, <2>3 DEF AudioStop
    <2>5. gui' \in Seq(GuiSignals)
      <3>1. PICK ack : ack = IF swap # NoSwap THEN <<"acked">> ELSE <<>>
        OBVIOUS
      <3>2. Emit(w, ack) \/ Emit(w, <<"stopped">> \o ack)
        BY <1>3, <2>2, <2>3, <3>1 DEF AudioStop
      <3>3. <<"stopped">> \in Seq(GuiSignals) /\ ack \in Seq(GuiSignals)
        BY <3>1, Signals DEF GuiSignals
      <3>4. <<"stopped">> \o ack \in Seq(GuiSignals)
        BY <3>3
      <3>5. QED
        BY <1>1, <3>2, <3>3, <3>4, Signals
    <2>6. /\ stream' \in [Workers -> 0 .. MaxOpens]
          /\ \A x \in Workers : stream'[x] <= Len(sessRate) /\ (stream'[x] # None => x <= cur)
      BY <1>1, <2>3, <2>4 DEF CapTypes, None
    <2>7. /\ rxQ' \in Seq(RxCalls)
          /\ \A i \in DOMAIN rxQ' : rxQ'[i].op = "chunk" => rxQ'[i].session \in 1 .. Len(sessRate)
      <3>1. CASE rxQ' = rxQ
        BY <3>1 DEF CapTypes, TypeOK
      <3>2. CASE stream[w] # None /\ rxQ' = Append(rxQ, [op |-> "chunk", session |-> stream[w]])
        <4>1. stream[w] \in 1 .. MaxOpens /\ stream[w] \in 1 .. Len(sessRate)
          BY <1>1, <2>3, <3>2 DEF CapTypes, None
        <4>2. [op |-> "chunk", session |-> stream[w]] \in RxCalls
          BY <4>1 DEF RxCalls
        <4>3. QED
          BY <3>2, <4>1, <4>2, RxSent
      <3>3. QED
        BY <2>4, <3>1, <3>2
    <2>8. UNCHANGED <<guiVars, rateVars, swapVars, gateVars, reported, sessRate, rxVars, txState, races, events>>
      BY <1>3 DEF AudioStop
    <2>9. TypeOK'
      BY <2>3, <2>5, <2>6, <2>7, <2>8 DEF CapTypes, TypeOK, guiVars, rateVars, swapVars, gateVars, rxVars
    <2>10. QED
      BY <2>3, <2>6, <2>7, <2>8, <2>9 DEF CapTypes, swapVars, rxVars
  <1>4. CASE Chunk
    <2>1. stream[cur] \in 1 .. MaxOpens /\ stream[cur] \in 1 .. Len(sessRate)
      BY <1>1, <1>4 DEF Chunk, CapTypes, None
    <2>2. [op |-> "chunk", session |-> stream[cur]] \in RxCalls
      BY <2>1 DEF RxCalls
    <2>3. /\ rxQ' \in Seq(RxCalls)
          /\ \A i \in DOMAIN rxQ' : rxQ'[i].op = "chunk" => rxQ'[i].session \in 1 .. Len(sessRate)
      BY <1>4, <2>1, <2>2, RxSent DEF Chunk
    <2>4. TypeOK'
      BY <1>4, <2>3 DEF Chunk, CapTypes, TypeOK, guiVars, rateVars, swapVars, gateVars, audioVars, rxVars
    <2>5. QED
      BY <1>4, <2>3, <2>4 DEF Chunk, CapTypes, guiVars, rateVars, swapVars, gateVars, audioVars, rxVars
  <1>5. ASSUME NEW w \in Workers, DeviceLoss(w) \/ TciStall(w)
        PROVE  CapTypes'
    <2>1. gui' \in Seq(GuiSignals)
      <3>1. <<"lost">> \in Seq(GuiSignals) /\ (UNCHANGED gui \/ Emit(w, <<"lost">>))
        BY <1>5, Signals DEF DeviceLoss, TciStall, GuiSignals
      <3>2. QED
        BY <1>1, <3>1, Signals
    <2>2. reported' \in [Workers -> BOOLEAN]
      BY <1>1, <1>5 DEF DeviceLoss, TciStall
    <2>3. audioQ' \in Seq(AudioCalls) /\ \A i \in DOMAIN audioQ' : audioQ'[i].worker <= cur
      <3>1. CASE DeviceLoss(w)
        <4>1. w <= cur
          BY <1>1, <3>1 DEF DeviceLoss, CapTypes
        <4>2. [op |-> "stop", worker |-> w, rate |-> cfgRate] \in AudioCalls
          BY <1>1 DEF AudioCalls
        <4>3. QED
          BY <3>1, <4>1, <4>2, AudioAsked DEF DeviceLoss
      <3>2. CASE TciStall(w)
        BY <3>2 DEF TciStall, CapTypes, TypeOK
      <3>3. QED
        BY <1>5, <3>1, <3>2
    <2>4. UNCHANGED <<rxQ, guiVars, rateVars, swapVars, gateVars, stream, sessRate, rxVars, txState, races>>
      BY <1>5 DEF DeviceLoss, TciStall
    <2>5. events' \in 0 .. MaxEvents
      BY <1>5 DEF DeviceLoss, TciStall, Event, CapTypes, TypeOK
    <2>6. TypeOK'
      BY <2>1, <2>2, <2>3, <2>4, <2>5 DEF CapTypes, TypeOK, guiVars, rateVars, swapVars, gateVars, rxVars
    <2>7. QED
      BY <2>3, <2>4, <2>6 DEF CapTypes, swapVars, rxVars
  <1>6. QED
    BY <1>2, <1>3, <1>4, <1>5 DEF AudioRuns

LEMMA HearingTypes ==
  ASSUME CapTypes, Flags',
         \/ RxRuns
         \/ TxRequest \/ TxKeying \/ TxOn \/ TxOff \/ TxFailed \/ TxIdle
  PROVE  CapTypes'
  <1> USE CaptureAssumption
  <1>1. CASE RxRuns
    <2>1. rxQ # <<>> /\ rxQ' = Tail(rxQ)
      BY <1>1 DEF RxRuns, RxChunk, RxReset, RxRate, RxGate
    <2>2. /\ rxQ' \in Seq(RxCalls) /\ Head(rxQ) = rxQ[1] /\ rxQ[1] \in RxCalls /\ 1 \in DOMAIN rxQ
          /\ \A i \in DOMAIN rxQ' : rxQ'[i].op = "chunk" => rxQ'[i].session \in 1 .. Len(sessRate)
      BY <2>1, RxTaken
    <2>3. gui' \in Seq(GuiSignals)
      <3>1. Append(gui, "reset_done") \in Seq(GuiSignals)
        BY DEF CapTypes, TypeOK, GuiSignals
      <3>2. gui' = gui \/ gui' = Append(gui, "reset_done")
        BY <1>1 DEF RxRuns, RxChunk, RxReset, RxRate, RxGate
      <3>3. QED
        BY <3>1, <3>2 DEF CapTypes, TypeOK
    <2>4. heard' \subseteq 1 .. MaxOpens /\ heard' \subseteq 1 .. Len(sessRate)
      <3>1. CASE RxChunk
        <4>1. Head(rxQ).session \in 1 .. Len(sessRate) /\ 1 .. Len(sessRate) \subseteq 1 .. MaxOpens
          BY <2>2, <3>1 DEF RxChunk, CapTypes, TypeOK
        <4>2. QED
          BY <3>1, <4>1 DEF RxChunk, CapTypes, TypeOK
      <3>2. CASE RxReset \/ RxRate \/ RxGate
        BY <3>2 DEF RxReset, RxRate, RxGate, CapTypes, TypeOK
      <3>3. QED
        BY <1>1, <3>1, <3>2 DEF RxRuns
    <2>5. decRate' \in Rates \cup {TciRate}
      <3>1. CASE RxRate
        <4>1. Head(rxQ).op = "rate" /\ decRate' = Head(rxQ).rate
          BY <3>1 DEF RxRate
        <4>2. QED
          BY <2>2, <4>1 DEF RxCalls
      <3>2. CASE ~RxRate
        BY <1>1, <3>2 DEF RxRuns, RxChunk, RxReset, RxGate, CapTypes, TypeOK
      <3>3. QED
        BY <3>1, <3>2
    <2>6. UNCHANGED <<audioQ, guiVars, rateVars, swapVars, gateVars, audioVars, txState, races, events>>
      BY <1>1 DEF RxRuns, RxChunk, RxReset, RxRate, RxGate
    <2>7. TypeOK'
      BY <2>2, <2>3, <2>4, <2>5, <2>6 DEF CapTypes, TypeOK, guiVars, rateVars, swapVars, gateVars, audioVars
    <2>8. QED
      BY <2>2, <2>4, <2>6, <2>7 DEF CapTypes, swapVars, audioVars
  <1>2. CASE TxRequest \/ TxKeying \/ TxOn \/ TxOff \/ TxFailed \/ TxIdle
    <2>1. UNCHANGED <<audioQ, rxQ, guiVars, rateVars, swapVars, gateVars, audioVars, rxVars, races>>
      BY <1>2 DEF TxRequest, TxKeying, TxOn, TxOff, TxFailed, TxIdle, TxStep
    <2>2. gui' \in Seq(GuiSignals) /\ txState' \in {"idle", "queued", "keying", "on", "ended"}
      <3>1. PICK s : gui' = gui \o s /\ s \in {<<>>, <<"tx_started">>, <<"tx_done">>, <<"tx_finished">>}
        BY <1>2 DEF TxRequest, TxKeying, TxOn, TxOff, TxFailed, TxIdle, TxStep
      <3>2. s \in Seq(GuiSignals)
        BY <3>1, Signals DEF GuiSignals
      <3>3. gui \o s \in Seq(GuiSignals)
        BY <3>2 DEF CapTypes, TypeOK
      <3>4. txState' \in {"idle", "queued", "keying", "on", "ended"}
        BY <1>2 DEF TxRequest, TxKeying, TxOn, TxOff, TxFailed, TxIdle, TxStep
      <3>5. QED
        BY <3>1, <3>3, <3>4
    <2>3. events' \in 0 .. MaxEvents
      BY <1>2 DEF TxRequest, TxKeying, TxOn, TxOff, TxFailed, TxIdle, Event, CapTypes, TypeOK
    <2>4. TypeOK'
      BY <2>1, <2>2, <2>3 DEF CapTypes, TypeOK, guiVars, rateVars, swapVars, gateVars, audioVars, rxVars
    <2>5. QED
      BY <2>1, <2>4 DEF CapTypes, swapVars, audioVars, rxVars
  <1>3. QED
    BY <1>1, <1>2

LEMMA CapTypesStep ==
  ASSUME CapTypes, Next
  PROVE  CapTypes'
  BY FlagsStep, CapturingTypes, SwappingTypes, HandlingTypes, StreamingTypes, HearingTypes DEF Next

-----------------------------------------------------------------------------
(* Each step keeps what the decoder hears.                                   *)

HearVars == <<rxQ, rxVars, guiRate, cfgRate, armed, sessRate, stream, cur>>

\* Of the starts on their way none is new.
StartsKept(q, p) ==
    \E d \in {0, 1} : \A i \in DOMAIN p : p[i].op = "start" =>
                        /\ i \in Nat /\ i + d \in DOMAIN q /\ q[i + d] = p[i]

LEMMA HearKept ==
  ASSUME GateInv, RateInv, SessionInv, UNCHANGED HearVars,
         races \subseteq races', raised' => raised, StartsKept(audioQ, audioQ')
  PROVE  GateInv' /\ RateInv' /\ SessionInv'
  <1>1. PICK d \in {0, 1} : \A i \in DOMAIN audioQ' : audioQ'[i].op = "start" =>
                        /\ i \in Nat /\ i + d \in DOMAIN audioQ /\ audioQ[i + d] = audioQ'[i]
    BY DEF StartsKept
  <1>2. GateInv'
    BY DEF GateInv, HearVars, rxVars
  <1>3. RateInv'
    BY <1>1 DEF RateInv, HearVars, rxVars, Up, EffectiveRate
  <1>4. Starting' => Starting
    BY <1>1 DEF Starting, HearVars
  <1>5. SessionInv'
    <2> SUFFICES ASSUME "start" \notin races'
                 PROVE  OneSession'
      BY DEF SessionInv
    <2>1. "start" \notin races
      OBVIOUS
    <2>2. Separated(rxQ, heard)' /\ (armed => ~Starting)' /\ (Up => ~armed /\ ~Starting /\ Behind(rxQ, heard, {stream[cur]}))'
          /\ (armed \/ Starting => Behind(rxQ, heard, {}))'
      BY <1>4, <2>1 DEF SessionInv, OneSession, HearVars, rxVars, Up
    <2>3. ASSUME NEW i \in DOMAIN audioQ', NEW j \in DOMAIN audioQ',
                 audioQ'[i].op = "start" /\ audioQ'[i].worker = cur',
                 audioQ'[j].op = "start" /\ audioQ'[j].worker = cur'
          PROVE  i = j
      <3>1. /\ i \in Nat /\ i + d \in DOMAIN audioQ /\ audioQ[i + d] = audioQ'[i]
            /\ j \in Nat /\ j + d \in DOMAIN audioQ /\ audioQ[j + d] = audioQ'[j]
        BY <1>1, <2>3
      <3>2. i + d = j + d
        BY <2>1, <2>3, <3>1 DEF SessionInv, OneSession, HearVars
      <3>3. QED
        BY <3>1, <3>2
    <2>4. QED
      BY <2>2, <2>3 DEF OneSession
  <1>6. QED
    BY <1>2, <1>3, <1>5

LEMMA StartsAsBefore ==
  ASSUME CapTypes
  PROVE  /\ StartsKept(audioQ, audioQ)
         /\ \A e : \A p : e.op # "start" /\ Grown(audioQ, p, e) => StartsKept(audioQ, p)
         /\ \A p : Shrunk(audioQ, p) => StartsKept(audioQ, p)
         /\ \A e : \A p, q : e.op # "start" /\ Shrunk(audioQ, q) /\ Grown(q, p, e) => StartsKept(audioQ, p)
  <1>1. DOMAIN audioQ \subseteq Nat
    BY DEF CapTypes, TypeOK
  <1>2. StartsKept(audioQ, audioQ)
    <2>1. \A i \in DOMAIN audioQ : i + 0 = i
      BY <1>1
    <2>2. QED
      BY <1>1, <2>1 DEF StartsKept
  <1>3. ASSUME NEW e, NEW p, e.op # "start", Grown(audioQ, p, e)
        PROVE  StartsKept(audioQ, p)
    <2>1. \A i \in DOMAIN p : p[i].op = "start" =>
            i \in Nat /\ i + 0 \in DOMAIN audioQ /\ audioQ[i + 0] = p[i]
      BY <1>3 DEF Grown
    <2>2. QED
      BY <2>1 DEF StartsKept
  <1>4. ASSUME NEW p, Shrunk(audioQ, p)
        PROVE  StartsKept(audioQ, p)
    <2>1. \A i \in DOMAIN p : p[i].op = "start" =>
            i \in Nat /\ i + 1 \in DOMAIN audioQ /\ audioQ[i + 1] = p[i]
      BY <1>4, ShrunkAt
    <2>2. QED
      BY <2>1 DEF StartsKept
  <1>5. ASSUME NEW e, NEW p, NEW q, e.op # "start", Shrunk(audioQ, q), Grown(q, p, e)
        PROVE  StartsKept(audioQ, p)
    <2>1. \A i \in DOMAIN p : p[i].op = "start" => i \in DOMAIN q /\ q[i] = p[i]
      BY <1>5 DEF Grown
    <2>2. \A i \in DOMAIN q : i \in Nat /\ i + 1 \in DOMAIN audioQ /\ audioQ[i + 1] = q[i]
      BY <1>5, ShrunkAt
    <2>3. \A i \in DOMAIN p : p[i].op = "start" =>
            i \in Nat /\ i + 1 \in DOMAIN audioQ /\ audioQ[i + 1] = p[i]
      BY <2>1, <2>2
    <2>4. QED
      BY <2>3 DEF StartsKept
  <1>6. QED
    BY <1>2, <1>3, <1>4, <1>5

\* Start clicked, or tried again by the auto-resume.
LEMMA BeginHear ==
  ASSUME CapTypes, GateInv, RateInv, SessionInv, BeginCapture,
         UNCHANGED <<audioQ, stream, sessRate, cur, cfgRate, rxVars, raised>>
  PROVE  GateInv' /\ RateInv' /\ SessionInv'
  <1>1. cur \in Workers /\ cfgRate \in Rates
    BY DEF CapTypes, TypeOK
  <1>2. /\ armed' = TRUE
        /\ guiRate' = EffectiveRate(cur, cfgRate) /\ guiRate' \in Rates \cup {TciRate}
        /\ rxQ' = rxQ \o RateCalls(guiRate') \o <<[op |-> "reset"]>>
    BY <1>1, Effective DEF BeginCapture
  <1>3. /\ RateBehind(rxQ, decRate, guiRate) => RateBehind(rxQ', decRate, guiRate')
        /\ RateBehind(rxQ, decRate, guiRate) /\ ChunksAtRate(rxQ, decRate, sessRate)
             => ChunksAtRate(rxQ', decRate, sessRate)
        /\ Separated(rxQ, heard) => Separated(rxQ', heard)
        /\ \A S : Behind(rxQ', heard, S)
        /\ \A end : GateBehind(rxQ, gated, end) => GateBehind(rxQ', gated, end)
    BY <1>2, RetunedReset
  <1>4. GateInv'
    BY <1>3 DEF GateInv, rxVars
  <1>5. RateInv'
    <2>1. RateBehind(rxQ, decRate, guiRate)'
      BY <1>3 DEF RateInv, rxVars
    <2>2. ASSUME "settings" \notin races'
          PROVE  /\ ChunksAtRate(rxQ, decRate, sessRate)'
                 /\ (Up => sessRate[stream[cur]] = guiRate)'
                 /\ (armed => EffectiveRate(cur, cfgRate) = guiRate)'
                 /\ (\A i \in DOMAIN audioQ : audioQ[i].op = "start" /\ audioQ[i].worker = cur =>
                       EffectiveRate(cur, audioQ[i].rate) = guiRate)'
      <3>1. "settings" \notin races /\ (StreamUp => guiRate' = guiRate)
        BY <2>2 DEF BeginCapture
      <3>2. ChunksAtRate(rxQ, decRate, sessRate)'
        BY <1>3, <3>1 DEF RateInv, rxVars
      <3>3. (armed => EffectiveRate(cur, cfgRate) = guiRate)'
        BY <1>2 DEF EffectiveRate
      <3>4. (Up => sessRate[stream[cur]] = guiRate)'
        BY <3>1 DEF RateInv, Up, StreamUp
      <3>5. (\A i \in DOMAIN audioQ : audioQ[i].op = "start" /\ audioQ[i].worker = cur =>
                       EffectiveRate(cur, audioQ[i].rate) = guiRate)'
        BY <3>1 DEF RateInv, StreamUp, Has, EffectiveRate
      <3>6. QED
        BY <3>2, <3>3, <3>4, <3>5
    <2>3. QED
      BY <2>1, <2>2 DEF RateInv
  <1>6. SessionInv'
    <2> SUFFICES ASSUME "start" \notin races' PROVE OneSession'
      BY DEF SessionInv
    <2>1. "start" \notin races /\ ~StreamUp
      BY DEF BeginCapture
    <2>2. ~Starting' /\ ~Up'
      BY <2>1 DEF StreamUp, Starting, Up, Has
    <2>3. Separated(rxQ, heard)' /\ Behind(rxQ, heard, {})'
      BY <1>3, <2>1 DEF SessionInv, OneSession, rxVars
    <2>4. QED
      BY <2>2, <2>3 DEF OneSession, Starting
  <1>7. QED
    BY <1>4, <1>5, <1>6

LEMMA CapturingHear ==
  ASSUME HearInv,
         ClickStart \/ ClickStop \/ RecoveryTimer \/ \E r \in Rates : SaveSettings(r)
  PROVE  GateInv' /\ RateInv' /\ SessionInv'
  <1> USE DEF HearInv
  <1>1. StartsKept(audioQ, audioQ)
    BY StartsAsBefore
  <1>2. CASE ClickStart
    BY <1>2, BeginHear DEF ClickStart, audioVars, swapVars, gateVars
  <1>3. CASE ClickStop
    <2>1. cur \in Workers /\ cfgRate \in Rates /\ cur <= cur
      BY CaptureAssumption DEF CapTypes, TypeOK, Workers
    <2>2. PICK e : e = [op |-> "stop", worker |-> cur, rate |-> cfgRate]
      OBVIOUS
    <2>3. e \in AudioCalls /\ e.worker = cur /\ e.op # "start" /\ audioQ' = Append(audioQ, e)
      BY <1>3, <2>1, <2>2 DEF ClickStop, AudioCalls
    <2>4. StartsKept(audioQ, audioQ')
      BY <2>1, <2>3, AudioAsked, StartsAsBefore
    <2>5. QED
      BY <1>3, <2>4, HearKept DEF ClickStop, HearVars, rateVars, swapVars, gateVars, audioVars, rxVars
  <1>4. CASE RecoveryTimer
    <2>1. CASE BeginCapture
      BY <1>4, <2>1, BeginHear DEF RecoveryTimer, audioVars, swapVars, gateVars
    <2>2. CASE UNCHANGED <<armed, discMsg, guiRate, rxQ, races>>
      BY <1>1, <1>4, <2>2, HearKept DEF RecoveryTimer, HearVars, swapVars, gateVars, audioVars, rxVars
    <2>3. QED
      BY <1>4, <2>1, <2>2 DEF RecoveryTimer
  <1>5. ASSUME NEW r \in Rates, SaveSettings(r)
        PROVE  GateInv' /\ RateInv' /\ SessionInv'
    <2>1. /\ UNCHANGED <<audioQ, stream, sessRate, cur, rxVars, raised, armed>> /\ cfgRate' = r
          /\ races \subseteq races' /\ ("start" \in races' => "start" \in races)
      BY <1>5 DEF SaveSettings, Race, guiVars, swapVars, gateVars, audioVars
    <2>2. CASE cap
      <3>1. /\ UNCHANGED <<guiRate, rxQ>>
            /\ "settings" \notin races' => "settings" \notin races /\ ~armed
        BY <1>5, <2>2 DEF SaveSettings, Race
      <3>2. GateInv'
        BY <2>1, <3>1 DEF GateInv, rxVars
      <3>3. RateInv'
        BY <2>1, <3>1 DEF RateInv, rxVars, Up, EffectiveRate
      <3>4. SessionInv'
        BY <2>1, <3>1 DEF SessionInv, OneSession, Starting, Up, rxVars
      <3>5. QED
        BY <3>2, <3>3, <3>4
    <2>3. CASE ~cap
      <3>1. /\ guiRate' = EffectiveRate(cur, r) /\ guiRate' \in Rates \cup {TciRate}
            /\ rxQ' = rxQ \o RateCalls(guiRate')
            /\ "settings" \notin races' => "settings" \notin races /\ ~StreamUp
        BY <1>5, <2>3, Effective DEF SaveSettings, Race
      <3>2. /\ RateBehind(rxQ, decRate, guiRate) => RateBehind(rxQ', decRate, guiRate')
            /\ RateBehind(rxQ, decRate, guiRate) /\ ChunksAtRate(rxQ, decRate, sessRate)
                 => ChunksAtRate(rxQ', decRate, sessRate)
            /\ Separated(rxQ, heard) => Separated(rxQ', heard)
            /\ \A S : Behind(rxQ, heard, S) => Behind(rxQ', heard, S)
            /\ \A end : GateBehind(rxQ, gated, end) => GateBehind(rxQ', gated, end)
        BY <3>1, Retuned
      <3>3. GateInv'
        BY <2>1, <3>2 DEF GateInv, rxVars
      <3>4. RateInv'
        <4>1. RateBehind(rxQ, decRate, guiRate)'
          BY <2>1, <3>2 DEF RateInv, rxVars
        <4>2. ASSUME "settings" \notin races'
              PROVE  /\ ChunksAtRate(rxQ, decRate, sessRate)' /\ ~Up' /\ ~Starting'
                     /\ (EffectiveRate(cur, cfgRate) = guiRate)'
          <5>1. ChunksAtRate(rxQ, decRate, sessRate)'
            BY <2>1, <3>1, <3>2, <4>2 DEF RateInv, rxVars
          <5>2. ~Up' /\ ~Starting'
            BY <2>1, <3>1, <4>2 DEF Up, Starting, StreamUp, Has
          <5>3. QED
            BY <2>1, <3>1, <5>1, <5>2 DEF EffectiveRate
        <4>3. QED
          BY <4>1, <4>2 DEF RateInv, Starting
      <3>5. SessionInv'
        <4> SUFFICES ASSUME "start" \notin races' PROVE OneSession'
          BY DEF SessionInv
        <4>1. OneSession
          BY <2>1 DEF SessionInv
        <4>2. Up' = Up /\ Starting' = Starting
          BY <2>1 DEF Up, Starting
        <4>3. QED
          BY <2>1, <3>2, <4>1, <4>2 DEF OneSession, rxVars
      <3>6. QED
        BY <3>3, <3>4, <3>5
    <2>4. QED
      BY <2>2, <2>3
  <1>6. QED
    BY <1>2, <1>3, <1>4, <1>5

\* What a call other than set_sample_rate changes behind it.
LEMMA SentHear ==
  ASSUME CapTypes, RateInv, SessionInv, NEW e \in RxCalls, e.op # "rate",
         e.op = "chunk" => Up /\ e.session = stream[cur]
  PROVE  LET p == Append(rxQ, e)
         IN /\ RateBehind(p, decRate, guiRate)
            /\ "settings" \notin races => ChunksAtRate(p, decRate, sessRate)
            /\ "start" \notin races => Separated(p, heard)
            /\ \A S : Behind(rxQ, heard, S) /\ (e.op = "chunk" => stream[cur] \in S) => Behind(p, heard, S)
            /\ \A end : GateBehind(rxQ, gated, end) => GateBehind(p, gated, IF e.op = "gate" THEN e.on ELSE end)
            /\ e.op = "gate" => GateBehind(p, gated, e.on)
  <1> DEFINE p == Append(rxQ, e)
  <1>1. Grown(rxQ, p, e)
    BY GrownBy DEF CapTypes, TypeOK
  <1> HIDE DEF p
  <1>2. RateBehind(rxQ, decRate, guiRate) /\ RateBehind(p, decRate, guiRate)
    BY <1>1, RateGrown DEF RateInv
  <1>3. "settings" \notin races => ChunksAtRate(p, decRate, sessRate)
    BY <1>1, <1>2, ChunksGrown DEF RateInv
  <1>4. "start" \notin races => Separated(p, heard)
    BY <1>1, SeparatedGrown DEF SessionInv, OneSession
  <1>5. \A S : Behind(rxQ, heard, S) /\ (e.op = "chunk" => stream[cur] \in S) => Behind(p, heard, S)
    BY <1>1, BehindGrown
  <1>6. \A end : GateBehind(rxQ, gated, end) => GateBehind(p, gated, IF e.op = "gate" THEN e.on ELSE end)
    BY <1>1, GateGrown
  <1>7. e.op = "gate" => GateBehind(p, gated, e.on)
    BY <1>1, GateSet
  <1>8. QED
    BY <1>2, <1>3, <1>4, <1>5, <1>6, <1>7 DEF p

\* Clear, a chunk, or the gate.
LEMMA CallHear ==
  ASSUME HearInv, NEW e \in RxCalls, e.op # "rate", rxQ' = Append(rxQ, e),
         e.op = "chunk" => Up /\ e.session = stream[cur],
         raised' => IF e.op = "gate" THEN e.on ELSE raised,
         UNCHANGED <<audioQ, stream, sessRate, cur, cfgRate, guiRate, rxVars, armed, races>>
  PROVE  GateInv' /\ RateInv' /\ SessionInv'
  <1> USE DEF HearInv
  <1>1. /\ RateBehind(rxQ', decRate, guiRate)
        /\ "settings" \notin races => ChunksAtRate(rxQ', decRate, sessRate)
        /\ "start" \notin races => Separated(rxQ', heard)
        /\ \A S : Behind(rxQ, heard, S) /\ (e.op = "chunk" => stream[cur] \in S) => Behind(rxQ', heard, S)
        /\ \A end : GateBehind(rxQ, gated, end) => GateBehind(rxQ', gated, IF e.op = "gate" THEN e.on ELSE end)
        /\ e.op = "gate" => GateBehind(rxQ', gated, e.on)
    BY SentHear
  <1>2. GateInv'
    <2> SUFFICES ASSUME raised' PROVE GateBehind(rxQ', gated, TRUE)
      BY DEF GateInv, rxVars
    <2>1. CASE e.op = "gate"
      <3>1. e.on = TRUE
        BY <2>1 DEF RxCalls
      <3>2. QED
        BY <1>1, <2>1, <3>1
    <2>2. CASE e.op # "gate"
      BY <1>1, <2>2 DEF GateInv
    <2>3. QED
      BY <2>1, <2>2
  <1>3. RateInv'
    BY <1>1 DEF RateInv, rxVars, Up, EffectiveRate
  <1>4. SessionInv'
    <2> SUFFICES ASSUME "start" \notin races PROVE OneSession'
      BY DEF SessionInv
    <2>1. OneSession /\ Up' = Up /\ Starting' = Starting
      BY DEF SessionInv, Up, Starting
    <2>2. (Up => Behind(rxQ, heard, {stream[cur]}))'
      BY <1>1, <2>1 DEF OneSession, rxVars
    <2>3. (armed \/ Starting => Behind(rxQ, heard, {}))'
      BY <1>1, <2>1 DEF OneSession, rxVars
    <2>4. QED
      BY <1>1, <2>1, <2>2, <2>3 DEF OneSession, rxVars
  <1>5. QED
    BY <1>2, <1>3, <1>4

LEMMA SwappingHear ==
  ASSUME HearInv, ClickClear \/ SwapBegin \/ SwapFinish \/ LiftGate \/ Chunk
  PROVE  GateInv' /\ RateInv' /\ SessionInv'
  <1> USE DEF HearInv
  <1>1. cur \in Workers /\ cfgRate \in Rates /\ cur <= cur
    BY CaptureAssumption DEF CapTypes, TypeOK, Workers
  <1>2. CASE ClickClear
    <2>1. PICK e \in RxCalls : e = [op |-> "reset"]
      BY DEF RxCalls
    <2>2. e.op = "reset" /\ rxQ' = Append(rxQ, e)
      BY <1>2, <2>1 DEF ClickClear
    <2>3. QED
      BY <1>2, <2>2, CallHear DEF ClickClear, guiVars, rateVars, swapVars, gateVars, audioVars
  <1>3. CASE SwapBegin
    <2>1. PICK e : e = [op |-> "stop", worker |-> cur, rate |-> cfgRate]
      OBVIOUS
    <2>2. e \in AudioCalls /\ e.worker = cur /\ e.op # "start" /\ audioQ' = Append(audioQ, e)
      BY <1>1, <1>3, <2>1 DEF SwapBegin, AudioCalls
    <2>3. StartsKept(audioQ, audioQ')
      BY <1>1, <2>2, AudioAsked, StartsAsBefore
    <2>4. races \subseteq races'
      BY <1>3 DEF SwapBegin, Race
    <2>5. QED
      BY <1>3, <2>3, <2>4, HearKept DEF SwapBegin, HearVars, guiVars, rateVars, gateVars, audioVars, rxVars
  <1>4. CASE SwapFinish
    <2>1. /\ cur' = cur + 1 /\ cur' \in Workers
          /\ races \subseteq races' /\ guiRate' = EffectiveRate(cur', cfgRate)
          /\ rxQ' = rxQ \o RateCalls(guiRate') \o <<[op |-> "reset"]>>
          /\ UNCHANGED <<audioQ, cfgRate, raised, audioVars, rxVars>>
      BY <1>1, <1>4, CaptureAssumption DEF SwapFinish, CapTypes, Workers, Race, gateVars
    <2>2. guiRate' \in Rates \cup {TciRate}
      BY <1>1, <2>1, Effective
    <2>3. /\ RateBehind(rxQ, decRate, guiRate) => RateBehind(rxQ', decRate, guiRate')
          /\ RateBehind(rxQ, decRate, guiRate) /\ ChunksAtRate(rxQ, decRate, sessRate)
               => ChunksAtRate(rxQ', decRate, sessRate)
          /\ Separated(rxQ, heard) => Separated(rxQ', heard)
          /\ \A S : Behind(rxQ', heard, S)
          /\ \A end : GateBehind(rxQ, gated, end) => GateBehind(rxQ', gated, end)
      BY <2>1, <2>2, RetunedReset
    <2>4. ~Up' /\ \A i \in DOMAIN audioQ : audioQ[i].worker # cur'
      <3>1. cur \in Nat /\ ~(cur' <= cur)
        BY <1>1, <2>1 DEF Workers
      <3>2. QED
        BY <2>1, <3>1 DEF CapTypes, Up, audioVars
    <2>5. GateInv'
      BY <2>1, <2>3 DEF GateInv, rxVars
    <2>6. RateInv'
      <3>1. (RateBehind(rxQ, decRate, guiRate) /\ ("settings" \notin races => ChunksAtRate(rxQ, decRate, sessRate)))'
        BY <2>1, <2>3 DEF RateInv, rxVars, audioVars
      <3>2. EffectiveRate(cur, cfgRate)' = guiRate'
        BY <2>1 DEF EffectiveRate
      <3>3. QED
        BY <2>1, <2>4, <3>1, <3>2 DEF RateInv
    <2>7. SessionInv'
      <3> SUFFICES ASSUME "start" \notin races' PROVE OneSession'
        BY DEF SessionInv
      <3>1. OneSession
        BY <2>1 DEF SessionInv
      <3>2. ~Starting'
        BY <2>1, <2>4 DEF Starting
      <3>3. QED
        BY <2>1, <2>3, <2>4, <3>1, <3>2 DEF OneSession, rxVars
    <2>8. QED
      BY <2>5, <2>6, <2>7
  <1>5. CASE LiftGate
    <2>1. CASE raised
      BY <1>5, <2>1, HearKept, StartsAsBefore DEF LiftGate, HearVars, guiVars, rateVars, swapVars,
         audioVars, rxVars
    <2>2. CASE ~raised
      <3>1. PICK e \in RxCalls : e = [op |-> "gate", on |-> FALSE]
        BY DEF RxCalls
      <3>2. e.op = "gate" /\ rxQ' = Append(rxQ, e) /\ ~raised'
        BY <1>5, <2>2, <3>1 DEF LiftGate
      <3>3. QED
        BY <1>5, <3>2, CallHear DEF LiftGate, guiVars, rateVars, swapVars, audioVars
    <2>3. QED
      BY <2>1, <2>2
  <1>6. CASE Chunk
    <2>1. stream[cur] \in 1 .. MaxOpens /\ Up
      BY <1>1, <1>6, CaptureAssumption DEF Chunk, CapTypes, TypeOK, None, Up
    <2>2. PICK e \in RxCalls : e = [op |-> "chunk", session |-> stream[cur]]
      BY <2>1 DEF RxCalls
    <2>3. e.op = "chunk" /\ e.session = stream[cur] /\ rxQ' = Append(rxQ, e)
      BY <1>6, <2>2 DEF Chunk
    <2>4. UNCHANGED <<audioQ, guiVars, rateVars, swapVars, gateVars, audioVars, rxVars, races>>
      BY <1>6 DEF Chunk
    <2>5. QED
      BY <2>1, <2>3, <2>4, CallHear DEF guiVars, rateVars, swapVars, gateVars, audioVars
  <1>7. QED
    BY <1>2, <1>3, <1>4, <1>5, <1>6

LEMMA HandlingHear ==
  ASSUME HearInv, GuiHandles
  PROVE  GateInv' /\ RateInv' /\ SessionInv'
  <1> USE DEF HearInv
  <1>1. StartsKept(audioQ, audioQ)
    BY StartsAsBefore
  <1>2. CASE OnResetDone
    <2>1. cur \in Workers /\ cfgRate \in Rates /\ cur <= cur
      BY CaptureAssumption DEF CapTypes, TypeOK, Workers
    <2>2. CASE ~armed
      <3>1. ~armed' /\ audioQ' = audioQ
        BY <1>2, <2>2 DEF OnResetDone
      <3>2. armed' = armed
        BY <2>2, <3>1, <1>2 DEF OnResetDone, CapTypes, TypeOK, Flags
      <3>3. QED
        BY <1>1, <1>2, <3>1, <3>2, HearKept DEF OnResetDone, HearVars, rateVars, swapVars, gateVars,
           audioVars, rxVars
    <2>3. CASE armed
      <3>1. PICK e : e = [op |-> "start", worker |-> cur, rate |-> cfgRate]
        OBVIOUS
      <3>2. e \in AudioCalls /\ e.worker = cur /\ e.op = "start" /\ e.rate = cfgRate
            /\ audioQ' = Append(audioQ, e)
        BY <1>2, <2>1, <2>3, <3>1 DEF OnResetDone, AudioCalls
      <3>3. PICK n \in Nat :
              /\ n + 1 \in DOMAIN audioQ' /\ audioQ'[n + 1] = e /\ n + 1 \notin DOMAIN audioQ
              /\ \A i \in DOMAIN audioQ : i \in DOMAIN audioQ' /\ audioQ'[i] = audioQ[i] /\ i < n + 1 /\ i \in Nat
              /\ \A i \in DOMAIN audioQ' : i \in DOMAIN audioQ \/ i = n + 1
        <4>1. Grown(audioQ, audioQ', e)
          BY <2>1, <3>2, AudioAsked
        <4>2. QED
          BY <4>1 DEF Grown
      <3>4. ~armed' /\ UNCHANGED <<rxQ, rateVars, swapVars, gateVars, audioVars, rxVars, races>>
        BY <1>2 DEF OnResetDone
      <3>5. GateInv'
        BY <3>4 DEF GateInv, gateVars, rxVars
      <3>6. RateInv'
        BY <2>3, <3>2, <3>3, <3>4 DEF RateInv, Up, EffectiveRate, rateVars, swapVars, audioVars, rxVars
      <3>7. SessionInv'
        <4> SUFFICES ASSUME "start" \notin races PROVE OneSession'
          BY <3>4 DEF SessionInv
        <4>1. OneSession /\ ~Up /\ ~Starting /\ Behind(rxQ, heard, {}) /\ Up' = Up
          BY <2>3, <3>4 DEF SessionInv, OneSession, Up, swapVars, audioVars
        <4>2. \A i \in DOMAIN audioQ' : audioQ'[i].op = "start" /\ audioQ'[i].worker = cur' => i = n + 1
          BY <3>3, <3>4, <4>1 DEF Starting, swapVars
        <4>3. QED
          BY <3>4, <4>1, <4>2 DEF OneSession, rxVars
      <3>8. QED
        BY <3>5, <3>6, <3>7
    <2>4. QED
      BY <2>2, <2>3
  <1>3. CASE OnStarted
    BY <1>1, <1>3, HearKept DEF OnStarted, HearVars, rateVars, swapVars, gateVars, audioVars, rxVars
  <1>4. CASE OnStopped
    BY <1>1, <1>4, HearKept DEF OnStopped, HearVars, rateVars, swapVars, gateVars, audioVars, rxVars
  <1>5. CASE OnDeviceLost
    BY <1>1, <1>5, HearKept DEF OnDeviceLost, HearVars, rateVars, swapVars, gateVars, audioVars, rxVars
  <1>6. CASE OnAcked
    BY <1>1, <1>6, HearKept DEF OnAcked, HearVars, guiVars, rateVars, gateVars, audioVars, rxVars
  <1>7. CASE OnTxStarted
    <2>1. PICK e \in RxCalls : e = [op |-> "gate", on |-> TRUE]
      BY DEF RxCalls
    <2>2. e.op = "gate" /\ e.on = TRUE /\ rxQ' = Append(rxQ, e)
      BY <1>7, <2>1 DEF OnTxStarted
    <2>3. QED
      BY <1>7, <2>2, CallHear DEF OnTxStarted, guiVars, rateVars, swapVars, audioVars
  <1>8. CASE OnTxEnded
    BY <1>1, <1>8, HearKept DEF OnTxEnded, HearVars, guiVars, rateVars, swapVars, audioVars, rxVars
  <1>9. QED
    BY <1>2, <1>3, <1>4, <1>5, <1>6, <1>7, <1>8 DEF GuiHandles

LEMMA StreamingHear ==
  ASSUME HearInv, CapTypes',
         AudioRuns \/ \E w \in Workers : DeviceLoss(w) \/ TciStall(w)
  PROVE  GateInv' /\ RateInv' /\ SessionInv'
  <1> USE DEF HearInv
  <1>1. CASE AudioStart
    <2>1. audioQ # <<>>
      BY <1>1 DEF AudioStart
    <2>2. PICK w, r, s : w = audioQ[1].worker /\ r = audioQ[1].rate /\ s = Len(sessRate) + 1
      OBVIOUS
    <2>3. /\ w \in Workers /\ r \in Rates /\ Head(audioQ) = audioQ[1] /\ 1 \in DOMAIN audioQ
          /\ Shrunk(audioQ, Tail(audioQ)) /\ audioQ[1].op = "start"
      BY <1>1, <2>1, <2>2, AudioTaken DEF AudioStart
    <2>4. UNCHANGED <<rxQ, guiVars, rateVars, swapVars, gateVars, rxVars, races>>
      BY <1>1 DEF AudioStart
    <2>5. StartsKept(audioQ, audioQ') /\ \A i \in DOMAIN audioQ' : audioQ'[i].op = "start" =>
                /\ i \in Nat /\ i + 1 \in DOMAIN audioQ /\ audioQ[i + 1] = audioQ'[i] /\ 1 < i + 1
      <3>1. CASE audioQ' = Tail(audioQ)
        <4>1. StartsKept(audioQ, audioQ')
          BY <2>3, <3>1, StartsAsBefore
        <4>2. \A i \in DOMAIN audioQ' : i \in Nat /\ i + 1 \in DOMAIN audioQ /\ audioQ[i + 1] = audioQ'[i] /\ 1 < i + 1
          BY <2>3, <3>1, ShrunkAt
        <4>3. QED
          BY <4>1, <4>2
      <3>2. CASE audioQ' = Append(Tail(audioQ), [Head(audioQ) EXCEPT !.op = "stop"])
        <4> DEFINE e == [audioQ[1] EXCEPT !.op = "stop"]
        <4>1. e \in AudioCalls /\ e.op = "stop"
          BY <2>1, AudioTaken DEF AudioCalls
        <4>2. Tail(audioQ) \in Seq(AudioCalls) /\ audioQ' = Append(Tail(audioQ), e)
          BY <2>1, <2>3, <3>2, AudioTaken
        <4> HIDE DEF e
        <4>3. Grown(Tail(audioQ), audioQ', e)
          BY <4>1, <4>2, GrownBy
        <4>4. StartsKept(audioQ, audioQ')
          BY <2>3, <4>1, <4>3, StartsAsBefore
        <4>5. \A i \in DOMAIN audioQ' : audioQ'[i].op = "start" => i \in DOMAIN Tail(audioQ) /\ Tail(audioQ)[i] = audioQ'[i]
          <5>1. PICK n \in Nat : /\ audioQ'[n + 1] = e /\ DOMAIN Tail(audioQ) = 1 .. n
                                 /\ \A i \in 1 .. n : audioQ'[i] = Tail(audioQ)[i]
                                 /\ DOMAIN audioQ' = 1 .. n + 1
            BY <4>3 DEF Grown
          <5>2. audioQ'[n + 1].op # "start"
            BY <4>1, <5>1
          <5>3. QED
            BY <5>1, <5>2
        <4>6. \A i \in DOMAIN Tail(audioQ) : i \in Nat /\ i + 1 \in DOMAIN audioQ /\ audioQ[i + 1] = Tail(audioQ)[i] /\ 1 < i + 1
          BY <2>3, ShrunkAt
        <4>7. QED
          BY <4>4, <4>5, <4>6
      <3>3. \/ audioQ' = Tail(audioQ)
            \/ audioQ' = Append(Tail(audioQ), [Head(audioQ) EXCEPT !.op = "stop"])
        BY <1>1 DEF AudioStart
      <3>4. QED
        BY <3>1, <3>2, <3>3
    <2>6. \/ stream' = stream /\ sessRate' = sessRate
          \/ /\ stream[w] = None /\ stream' = [stream EXCEPT ![w] = s]
             /\ sessRate' = Append(sessRate, EffectiveRate(w, r))
      BY <1>1, <2>2, <2>3 DEF AudioStart, audioVars
    <2>7. CASE stream' = stream /\ sessRate' = sessRate
      BY <2>4, <2>5, <2>7, HearKept DEF HearVars, guiVars, rateVars, swapVars, gateVars, rxVars
    <2>8. CASE /\ stream[w] = None /\ stream' = [stream EXCEPT ![w] = s]
               /\ sessRate' = Append(sessRate, EffectiveRate(w, r))
      <3>1. EffectiveRate(w, r) \in Rates \cup {TciRate}
        BY <2>3, Effective
      <3>2. /\ sessRate \in Seq(Rates \cup {TciRate}) /\ Len(sessRate) \in Nat
            /\ stream \in [Workers -> 0 .. MaxOpens] /\ cur \in Workers
        BY DEF CapTypes, TypeOK
      <3>3. /\ s \in Nat /\ s # None /\ sessRate'[s] = EffectiveRate(w, r)
            /\ \A i \in 1 .. Len(sessRate) : sessRate'[i] = sessRate[i]
        BY <2>2, <2>8, <3>1, <3>2 DEF None
      <3>4. \A x \in Workers : x # w => stream'[x] = stream[x]
        BY <2>8, <3>2
      <3>5. stream'[w] = s
        BY <2>3, <2>8, <3>2
      <3>6. \A x \in Workers : stream[x] # None => stream[x] \in 1 .. Len(sessRate)
        BY <3>2, CaptureAssumption DEF CapTypes, None
      <3>7. \A i \in DOMAIN rxQ : rxQ[i].op = "chunk" => sessRate'[rxQ[i].session] = sessRate[rxQ[i].session]
        BY <3>3 DEF CapTypes
      <3>8. ASSUME ChunksAtRate(rxQ, decRate, sessRate) PROVE ChunksAtRate(rxQ, decRate, sessRate')
        BY <3>7, <3>8 DEF ChunksAtRate
      <3>9. GateInv'
        BY <2>4 DEF GateInv, gateVars, rxVars
      <3>10. CASE w = cur
        <4>1. Starting /\ ~Up
          BY <2>2, <2>3, <2>8, <3>10 DEF Starting, Up
        <4>2. stream'[cur'] = s /\ Up'
          BY <2>4, <3>3, <3>5, <3>10 DEF swapVars, Up
        <4>3. RateInv'
          <5>1. "settings" \notin races => EffectiveRate(cur, r) = guiRate
            BY <2>2, <2>3, <3>10 DEF RateInv
          <5>2. "settings" \notin races =>
                  \A i \in DOMAIN audioQ' : audioQ'[i].op = "start" /\ audioQ'[i].worker = cur =>
                    EffectiveRate(cur, audioQ'[i].rate) = guiRate
            BY <2>5 DEF RateInv
          <5>3. "settings" \notin races => ChunksAtRate(rxQ, decRate, sessRate')
            BY <3>8 DEF RateInv
          <5>4. QED
            BY <2>4, <3>3, <3>10, <4>2, <5>1, <5>2, <5>3 DEF RateInv, guiVars, rateVars, swapVars,
               rxVars, EffectiveRate
        <4>4. SessionInv'
          <5> SUFFICES ASSUME "start" \notin races PROVE OneSession'
            BY <2>4 DEF SessionInv
          <5>1. OneSession
            BY DEF SessionInv
          <5>2. ~armed /\ Behind(rxQ, heard, {}) /\ Separated(rxQ, heard)
            BY <4>1, <5>1 DEF OneSession
          <5>3. ~Starting'
            <6> SUFFICES ASSUME NEW i \in DOMAIN audioQ', audioQ'[i].op = "start", audioQ'[i].worker = cur
                         PROVE  FALSE
              BY <2>4 DEF Starting, swapVars
            <6>1. i + 1 \in DOMAIN audioQ /\ audioQ[i + 1] = audioQ'[i] /\ 1 < i + 1 /\ i \in Nat
              BY <2>5
            <6>2. i + 1 = 1
              BY <2>2, <2>3, <3>10, <5>1, <6>1 DEF OneSession
            <6>3. QED
              BY <6>1, <6>2
          <5>4. Behind(rxQ, heard, {s})
            BY <5>2 DEF Behind
          <5>5. ~armed' /\ (Behind(rxQ, heard, {stream[cur]}) /\ Separated(rxQ, heard))'
            BY <2>4, <4>2, <5>2, <5>4 DEF guiVars, rxVars
          <5>6. QED
            BY <5>3, <5>5 DEF OneSession, Starting
        <4>5. QED
          BY <3>9, <4>3, <4>4
      <3>11. CASE w # cur
        <4>1. stream'[cur'] = stream[cur] /\ Up' = Up
          BY <2>4, <3>2, <3>4, <3>11 DEF swapVars, Up
        <4>2. RateInv'
          <5>1. Up => sessRate'[stream[cur]] = sessRate[stream[cur]]
            BY <3>2, <3>3, <3>6 DEF Up
          <5>2. "settings" \notin races =>
                  \A i \in DOMAIN audioQ' : audioQ'[i].op = "start" /\ audioQ'[i].worker = cur =>
                    EffectiveRate(cur, audioQ'[i].rate) = guiRate
            BY <2>5 DEF RateInv
          <5>3. "settings" \notin races => ChunksAtRate(rxQ, decRate, sessRate')
            BY <3>8 DEF RateInv
          <5>4. QED
            BY <2>4, <4>1, <5>1, <5>2, <5>3 DEF RateInv, guiVars, rateVars, swapVars, rxVars, EffectiveRate
        <4>3. SessionInv'
          <5> SUFFICES ASSUME "start" \notin races PROVE OneSession'
            BY <2>4 DEF SessionInv
          <5>1. OneSession
            BY DEF SessionInv
          <5>2. Starting' => Starting
            BY <2>4, <2>5 DEF Starting, swapVars
          <5>3. ASSUME NEW i \in DOMAIN audioQ', NEW j \in DOMAIN audioQ',
                       audioQ'[i].op = "start" /\ audioQ'[i].worker = cur',
                       audioQ'[j].op = "start" /\ audioQ'[j].worker = cur'
                PROVE  i = j
            <6>1. /\ i \in Nat /\ i + 1 \in DOMAIN audioQ /\ audioQ[i + 1] = audioQ'[i]
                  /\ j \in Nat /\ j + 1 \in DOMAIN audioQ /\ audioQ[j + 1] = audioQ'[j]
              BY <2>5, <5>3
            <6>2. i + 1 = j + 1
              BY <2>4, <5>1, <5>3, <6>1 DEF OneSession, swapVars
            <6>3. QED
              BY <6>1, <6>2
          <5>4. /\ Separated(rxQ, heard)'
                /\ (Up => ~armed /\ ~Starting /\ Behind(rxQ, heard, {stream[cur]}))'
                /\ (armed => ~Starting)'
                /\ (armed \/ Starting => Behind(rxQ, heard, {}))'
            BY <2>4, <4>1, <5>1, <5>2 DEF OneSession, guiVars, rxVars
          <5>5. QED
            BY <5>3, <5>4 DEF OneSession
        <4>4. QED
          BY <3>9, <4>2, <4>3
      <3>12. QED
        BY <3>10, <3>11
    <2>9. QED
      BY <2>6, <2>7, <2>8
  <1>2. CASE AudioStop
    <2>1. audioQ # <<>>
      BY <1>2 DEF AudioStop
    <2>2. PICK w : w = audioQ[1].worker
      OBVIOUS
    <2>3. /\ w \in Workers /\ Head(audioQ) = audioQ[1] /\ Shrunk(audioQ, audioQ')
          /\ StartsKept(audioQ, audioQ')
          /\ \A i \in DOMAIN audioQ' : i \in Nat /\ i + 1 \in DOMAIN audioQ /\ audioQ[i + 1] = audioQ'[i]
      BY <1>2, <2>1, <2>2, AudioTaken, StartsAsBefore, ShrunkAt DEF AudioStop
    <2>4. UNCHANGED <<guiVars, rateVars, swapVars, gateVars, sessRate, rxVars, races>>
      BY <1>2 DEF AudioStop
    <2>5. /\ stream' = [stream EXCEPT ![w] = None]
          /\ \/ rxQ' = rxQ
             \/ w = cur /\ Up /\ rxQ' = Append(rxQ, [op |-> "chunk", session |-> stream[cur]])
      BY <1>2, <2>2, <2>3 DEF AudioStop, Up
    <2>6. /\ stream \in [Workers -> 0 .. MaxOpens] /\ cur \in Workers
      BY DEF CapTypes, TypeOK
    <2>7. (w = cur => ~Up') /\ (w # cur => stream'[cur'] = stream[cur] /\ Up' = Up)
      BY <2>3, <2>4, <2>5, <2>6 DEF Up, swapVars
    <2>8. Starting' => Starting
      BY <2>3, <2>4 DEF Starting, swapVars
    <2>9. /\ RateBehind(rxQ', decRate, guiRate)
          /\ "settings" \notin races => ChunksAtRate(rxQ', decRate, sessRate)
          /\ "start" \notin races => Separated(rxQ', heard)
          /\ "start" \notin races =>
               \A S : Behind(rxQ, heard, S) => Behind(rxQ', heard, S) \/ (w = cur /\ Up)
          /\ \A end : GateBehind(rxQ, gated, end) => GateBehind(rxQ', gated, end)
      <3>1. CASE rxQ' = rxQ
        BY <3>1 DEF RateInv, SessionInv, OneSession
      <3>2. CASE w = cur /\ Up /\ rxQ' = Append(rxQ, [op |-> "chunk", session |-> stream[cur]])
        <4>1. stream[cur] \in 1 .. MaxOpens
          BY <2>6, <3>2, CaptureAssumption DEF Up, None
        <4>2. PICK e \in RxCalls : e = [op |-> "chunk", session |-> stream[cur]]
          BY <4>1 DEF RxCalls
        <4>3. e.op = "chunk" /\ e.session = stream[cur] /\ rxQ' = Append(rxQ, e)
          BY <3>2, <4>2
        <4>4. QED
          BY <3>2, <4>3, SentHear
      <3>3. QED
        BY <2>5, <3>1, <3>2
    <2>10. GateInv'
      BY <2>4, <2>9 DEF GateInv, gateVars, rxVars
    <2>11. RateInv'
      BY <2>3, <2>4, <2>7, <2>9 DEF RateInv, Up, guiVars, rateVars, swapVars, rxVars, EffectiveRate
    <2>12. SessionInv'
      <3> SUFFICES ASSUME "start" \notin races PROVE OneSession'
        BY <2>4 DEF SessionInv
      <3>1. OneSession
        BY DEF SessionInv
      <3>2. ASSUME NEW i \in DOMAIN audioQ', NEW j \in DOMAIN audioQ',
                   audioQ'[i].op = "start" /\ audioQ'[i].worker = cur',
                   audioQ'[j].op = "start" /\ audioQ'[j].worker = cur'
            PROVE  i = j
        <4>1. /\ i \in Nat /\ i + 1 \in DOMAIN audioQ /\ audioQ[i + 1] = audioQ'[i]
              /\ j \in Nat /\ j + 1 \in DOMAIN audioQ /\ audioQ[j + 1] = audioQ'[j]
          BY <2>3, <3>2
        <4>2. i + 1 = j + 1
          BY <2>4, <3>1, <3>2, <4>1 DEF OneSession, swapVars
        <4>3. QED
          BY <4>1, <4>2
      <3>3. Separated(rxQ, heard)'
        BY <2>4, <2>9 DEF rxVars
      <3>4. (Up => ~armed /\ ~Starting /\ Behind(rxQ, heard, {stream[cur]}))'
        BY <2>4, <2>7, <2>8, <2>9, <3>1 DEF OneSession, guiVars, rxVars
      <3>5. (armed => ~Starting)'
        BY <2>4, <2>8, <3>1 DEF OneSession, guiVars
      <3>6. (armed \/ Starting => Behind(rxQ, heard, {}))'
        BY <2>4, <2>8, <2>9, <3>1 DEF OneSession, guiVars, rxVars
      <3>7. QED
        BY <3>2, <3>3, <3>4, <3>5, <3>6 DEF OneSession
    <2>13. QED
      BY <2>10, <2>11, <2>12
  <1>3. ASSUME NEW w \in Workers, DeviceLoss(w) \/ TciStall(w)
        PROVE  GateInv' /\ RateInv' /\ SessionInv'
    <2>1. StartsKept(audioQ, audioQ')
      <3>1. CASE DeviceLoss(w)
        <4>1. w <= cur /\ cfgRate \in Rates
          BY <3>1 DEF DeviceLoss, CapTypes, TypeOK
        <4>2. PICK e : e = [op |-> "stop", worker |-> w, rate |-> cfgRate]
          OBVIOUS
        <4>3. e \in AudioCalls /\ e.worker = w /\ e.op # "start" /\ audioQ' = Append(audioQ, e)
          BY <3>1, <4>1, <4>2 DEF DeviceLoss, AudioCalls
        <4>4. QED
          BY <4>1, <4>3, AudioAsked, StartsAsBefore
      <3>2. CASE TciStall(w)
        BY <3>2, StartsAsBefore DEF TciStall
      <3>3. QED
        BY <1>3, <3>1, <3>2
    <2>2. UNCHANGED <<rxQ, guiVars, rateVars, swapVars, gateVars, stream, sessRate, rxVars, races>>
      BY <1>3 DEF DeviceLoss, TciStall
    <2>3. QED
      BY <2>1, <2>2, HearKept DEF HearVars, guiVars, rateVars, swapVars, gateVars
  <1>4. QED
    BY <1>1, <1>2, <1>3 DEF AudioRuns

LEMMA DecodingHear ==
  ASSUME HearInv,
         \/ RxRuns
         \/ TxRequest \/ TxKeying \/ TxOn \/ TxOff \/ TxFailed \/ TxIdle
  PROVE  GateInv' /\ RateInv' /\ SessionInv'
  <1> USE DEF HearInv
  <1>1. CASE RxRuns
    <2>1. rxQ # <<>> /\ rxQ' = Tail(rxQ)
      BY <1>1 DEF RxRuns, RxChunk, RxReset, RxRate, RxGate
    <2>2. Shrunk(rxQ, rxQ') /\ Head(rxQ) = rxQ[1]
      BY <2>1, RxTaken
    <2>3. /\ decRate' = IF rxQ[1].op = "rate" THEN rxQ[1].rate ELSE decRate
          /\ gated' = IF rxQ[1].op = "gate" THEN rxQ[1].on ELSE gated
          /\ Handled(rxQ[1], heard, heard')
      <3>1. PICK msg : msg = rxQ[1]
        OBVIOUS
      <3>2. \/ msg.op = "chunk" /\ (heard' = heard \/ heard' = heard \cup {msg.session})
            \/ msg.op = "reset" /\ heard' = {}
            \/ msg.op \in {"rate", "gate"} /\ (heard' = heard \/ heard' = {})
        BY <1>1, <2>2, <3>1 DEF RxRuns, RxChunk, RxReset, RxRate, RxGate
      <3>3. decRate' = IF msg.op = "rate" THEN msg.rate ELSE decRate
        BY <1>1, <2>2, <3>1 DEF RxRuns, RxChunk, RxReset, RxRate, RxGate
      <3>4. gated' = IF msg.op = "gate" THEN msg.on ELSE gated
        <4>1. CASE msg.op = "gate"
          BY <1>1, <2>2, <3>1, <4>1 DEF RxRuns, RxChunk, RxReset, RxRate, RxGate
        <4>2. CASE msg.op # "gate"
          BY <1>1, <2>2, <3>1, <4>2 DEF RxRuns, RxChunk, RxReset, RxRate, RxGate
        <4>3. QED
          BY <4>1, <4>2
      <3>5. Handled(msg, heard, heard')
        BY <3>2 DEF Handled
      <3>6. QED
        BY <3>1, <3>3, <3>4, <3>5
    <2>4. UNCHANGED <<audioQ, guiVars, rateVars, swapVars, gateVars, audioVars, races>>
      BY <1>1 DEF RxRuns, RxChunk, RxReset, RxRate, RxGate
    <2>5. RateBehind(rxQ', decRate', guiRate)
      BY <2>2, <2>3, RateShrunk DEF RateInv
    <2>6. "settings" \notin races => ChunksAtRate(rxQ', decRate', sessRate)
      BY <2>2, <2>3, ChunksShrunk DEF RateInv
    <2>7. "start" \notin races => Separated(rxQ', heard')
      BY <2>2, <2>3, SeparatedShrunk DEF SessionInv, OneSession
    <2>8. \A S : Behind(rxQ, heard, S) => Behind(rxQ', heard', S)
      BY <2>2, <2>3, BehindShrunk
    <2>9. GateInv'
      BY <2>2, <2>3, <2>4, GateShrunk DEF GateInv, gateVars
    <2>10. RateInv'
      BY <2>4, <2>5, <2>6 DEF RateInv, Up, EffectiveRate, guiVars, rateVars, swapVars, audioVars
    <2>11. SessionInv'
      <3> SUFFICES ASSUME "start" \notin races PROVE OneSession'
        BY <2>4 DEF SessionInv
      <3>1. OneSession /\ Up' = Up /\ Starting' = Starting
        BY <2>4 DEF SessionInv, Up, Starting, swapVars, audioVars
      <3>2. QED
        BY <2>4, <2>7, <2>8, <3>1 DEF OneSession, guiVars, swapVars, audioVars
    <2>12. QED
      BY <2>9, <2>10, <2>11
  <1>2. CASE TxRequest \/ TxKeying \/ TxOn \/ TxOff \/ TxFailed \/ TxIdle
    <2>1. UNCHANGED <<audioQ, rxQ, guiVars, rateVars, swapVars, gateVars, audioVars, rxVars, races>>
      BY <1>2 DEF TxRequest, TxKeying, TxOn, TxOff, TxFailed, TxIdle, TxStep
    <2>2. QED
      BY <2>1, StartsAsBefore, HearKept DEF HearVars, guiVars, rateVars, swapVars, gateVars, audioVars
  <1>3. QED
    BY <1>1, <1>2

LEMMA HearStep ==
  ASSUME HearInv, Next
  PROVE  HearInv'
  <1>1. CapTypes'
    BY CapTypesStep DEF HearInv
  <1>2. GateInv' /\ RateInv' /\ SessionInv'
    BY <1>1, CapturingHear, SwappingHear, HandlingHear, StreamingHear, DecodingHear DEF Next
  <1>3. QED
    BY <1>1, <1>2 DEF HearInv

LEMMA HearInit ==
  ASSUME Init
  PROVE  HearInv
  <1> USE CaptureAssumption
  <1>1. /\ gui = <<>> /\ audioQ = <<>> /\ rxQ = <<>> /\ sessRate = <<>> /\ heard = {}
        /\ DOMAIN gui = {} /\ DOMAIN audioQ = {} /\ DOMAIN rxQ = {} /\ Len(sessRate) = 0
    BY DEF Init
  <1>2. TypeOK
    <2>1. gui \in Seq(GuiSignals) /\ audioQ \in Seq(AudioCalls) /\ rxQ \in Seq(RxCalls)
          /\ sessRate \in Seq(Rates \cup {TciRate})
      BY <1>1
    <2>2. Flags
      BY DEF Init, Flags
    <2>3. swap \in [to : {"none", "portaudio", "tci"}, was : BOOLEAN, acked : BOOLEAN]
      BY DEF Init, NoSwap
    <2>4. cur \in Workers /\ stream \in [Workers -> 0 .. MaxOpens] /\ reported \in [Workers -> BOOLEAN]
      BY DEF Init, Workers, None
    <2>5. QED
      BY <1>1, <2>1, <2>2, <2>3, <2>4 DEF Init, TypeOK, Races
  <1>3. CapTypes
    <2>1. swap = NoSwap /\ \A w \in Workers : stream[w] = None
      BY DEF Init
    <2>2. QED
      BY <1>1, <1>2, <2>1 DEF CapTypes, None
  <1>4. ~Up /\ ~armed /\ ~Starting
    BY <1>1 DEF Init, Up, Starting, Workers
  <1>5. GateInv
    BY DEF Init, GateInv
  <1>6. RateInv
    BY <1>1, <1>4 DEF Init, RateInv, RateBehind, ChunksAtRate
  <1>7. SessionInv
    BY <1>1, <1>4 DEF SessionInv, OneSession, Separated
  <1>8. QED
    BY <1>3, <1>5, <1>6, <1>7 DEF HearInv

LEMMA HearInvHears ==
  ASSUME HearInv
  PROVE  HearsTheStream
  <1>1. DecodesAtStreamRate
    <2> SUFFICES ASSUME rxQ # <<>>, Head(rxQ).op = "chunk", "settings" \notin races
                 PROVE  sessRate[Head(rxQ).session] = decRate
      BY DEF DecodesAtStreamRate
    <2>1. Head(rxQ) = rxQ[1] /\ 1 \in DOMAIN rxQ /\ \A k \in DOMAIN rxQ : ~(k < 1)
      <3>1. \A k \in DOMAIN rxQ : k \in Nat /\ k >= 1
        BY DEF HearInv, CapTypes, TypeOK
      <3>2. QED
        BY <3>1, RxTaken DEF HearInv
    <2>2. QED
      BY <2>1 DEF HearInv, RateInv, ChunksAtRate
  <1>2. OneSessionAtATime
    <2> SUFFICES ASSUME "start" \notin races PROVE Cardinality(heard) <= 1
      BY DEF OneSessionAtATime
    <2>1. CASE heard = {}
      BY <2>1, FS_EmptySet
    <2>2. CASE heard # {}
      <3>1. PICK a \in heard : TRUE
        BY <2>2
      <3>2. heard = {a}
        BY <3>1 DEF HearInv, SessionInv, OneSession, Separated
      <3>3. Cardinality({a}) = 1
        BY FS_Singleton
      <3>4. QED
        BY <3>2, <3>3
    <2>3. QED
      BY <2>1, <2>2
  <1>3. GateHolds
    <2> SUFFICES ASSUME raised
                 PROVE  /\ GateCalls = {} => gated
                        /\ \A i \in GateCalls : (\A j \in GateCalls : j <= i) => rxQ[i].on
      BY DEF GateHolds
    <2>0. DOMAIN rxQ \subseteq Nat
      BY DEF HearInv, CapTypes, TypeOK
    <2>1. GateBehind(rxQ, gated, TRUE)
      BY DEF HearInv, GateInv
    <2>2. GateCalls = {} => gated
      BY <2>1 DEF GateBehind, GateCalls
    <2>3. ASSUME NEW i \in GateCalls, \A j \in GateCalls : j <= i
          PROVE  rxQ[i].on
      BY <2>0, <2>1, <2>3 DEF GateBehind, GateCalls
    <2>4. QED
      BY <2>2, <2>3
  <1>4. QED
    BY <1>1, <1>2, <1>3 DEF HearsTheStream

LEMMA HearStutter ==
  ASSUME HearInv, UNCHANGED vars
  PROVE  HearInv'
  <1>1. Flags'
    BY DEF vars, guiVars, gateVars, rxVars, HearInv, CapTypes, TypeOK, Flags
  <1>2. TypeOK'
    BY <1>1 DEF vars, guiVars, rateVars, swapVars, gateVars, audioVars, rxVars, HearInv, CapTypes, TypeOK
  <1>3. CapTypes'
    BY <1>2 DEF vars, swapVars, audioVars, rxVars, HearInv, CapTypes
  <1>4. GateInv' /\ RateInv' /\ SessionInv'
    BY HearKept, StartsAsBefore DEF vars, guiVars, rateVars, swapVars, gateVars, audioVars, rxVars,
       HearInv, HearVars
  <1>5. QED
    BY <1>3, <1>4 DEF HearInv

\* Whatever the three threads, the device and the transmitter do, the decoder
\* hears one capture session at a time at that session's own rate, and none of
\* the station's own transmissions.
THEOREM TheStreamIsHeard == Spec => []HearsTheStream
  <1>1. HearInv /\ [Next]_vars => HearInv'
    BY HearStep, HearStutter
  <1>2. QED
    BY <1>1, HearInit, HearInvHears, PTL DEF Spec

\* The capture variables keep their types.
THEOREM CaptureTypes == Spec => []TypeOK
  <1>1. HearInv => TypeOK
    BY DEF HearInv, CapTypes
  <1>2. HearInv /\ [Next]_vars => HearInv'
    BY HearStep, HearStutter
  <1>3. QED
    BY <1>1, <1>2, HearInit, PTL DEF Spec

-----------------------------------------------------------------------------
(* Each step keeps the answers coming.                                       *)

Streaming == {"lost", "started", "stopped"}

\* The GUI's queue changes by a signal that says nothing of streams.
SaidMore(q, p) ==
    \/ p = q
    \/ \E e : e \notin Streaming /\ Grown(q, p, e)
    \/ Shrunk(q, p) /\ q[1] \notin Streaming

LEMMA SaidMoreKeeps ==
  ASSUME NEW q, NEW p, SaidMore(q, p)
  PROVE  /\ \A isUp, stops, wasLost, running \in BOOLEAN :
              InOrder(q, isUp, stops, wasLost, running) => InOrder(p, isUp, stops, wasLost, running)
         /\ \A x \in Streaming : (\E i \in DOMAIN q : q[i] = x) => \E i \in DOMAIN p : p[i] = x
  <1>1. CASE p = q
    BY <1>1
  <1>2. ASSUME NEW e, e \notin Streaming, Grown(q, p, e)
        PROVE  /\ \A isUp, stops, wasLost, running \in BOOLEAN :
                    InOrder(q, isUp, stops, wasLost, running) => InOrder(p, isUp, stops, wasLost, running)
               /\ \A x \in Streaming : (\E i \in DOMAIN q : q[i] = x) => \E i \in DOMAIN p : p[i] = x
    <2>1. \A isUp, stops, wasLost, running \in BOOLEAN :
            InOrder(q, isUp, stops, wasLost, running) => InOrder(p, isUp, stops, wasLost, running)
      BY <1>2, OrderGrown DEF Streaming
    <2>2. \A i \in DOMAIN q : i \in DOMAIN p /\ p[i] = q[i]
      BY <1>2, GrownAt
    <2>3. QED
      BY <2>1, <2>2
  <1>3. CASE Shrunk(q, p) /\ q[1] \notin Streaming
    <2>1. \A isUp, stops, wasLost, running \in BOOLEAN :
            InOrder(q, isUp, stops, wasLost, running) => InOrder(p, isUp, stops, wasLost, running)
      <3> SUFFICES ASSUME NEW isUp \in BOOLEAN, NEW stops \in BOOLEAN, NEW wasLost \in BOOLEAN,
                          NEW running \in BOOLEAN, InOrder(q, isUp, stops, wasLost, running)
                   PROVE  InOrder(p, isUp, stops, wasLost, running)
        OBVIOUS
      <3>1. q[1] \notin {"lost", "started", "stopped"}
        BY <1>3 DEF Streaming
      <3>2. QED
        BY <1>3, <3>1, OrderShrunk DEF Handles
    <2>2. \A i \in DOMAIN q : i = 1 \/ \E j \in DOMAIN p : p[j] = q[i]
      BY <1>3, ShrunkAt
    <2>3. QED
      BY <1>3, <2>1, <2>2
  <1>4. QED
    BY <1>1, <1>2, <1>3 DEF SaidMore

LEMMA Truths ==
  /\ Up \in BOOLEAN /\ StopUp \in BOOLEAN /\ Up' \in BOOLEAN /\ StopUp' \in BOOLEAN
  /\ CapTypes => /\ btn \in BOOLEAN /\ cap \in BOOLEAN /\ armed \in BOOLEAN /\ panel \in BOOLEAN
                 /\ recActive \in BOOLEAN /\ recTimer \in BOOLEAN /\ discMsg \in BOOLEAN
  /\ CapTypes' => /\ btn' \in BOOLEAN /\ cap' \in BOOLEAN /\ armed' \in BOOLEAN /\ panel' \in BOOLEAN
                  /\ recActive' \in BOOLEAN /\ recTimer' \in BOOLEAN /\ discMsg' \in BOOLEAN
  BY DEF Up, StopUp, CapTypes, TypeOK, Flags

\* A step that answers nothing and asks for nothing.
LEMMA AnswersKept ==
  ASSUME CapTypes, CapTypes', AnswersDue, SaidMore(gui, gui'),
         Up' = Up, StopUp => StopUp', discMsg' => discMsg, cap' = cap, btn' = btn,
         recActive' => recActive, recTimer => recTimer',
         armed \/ Starting => armed' \/ Starting'
  PROVE  AnswersDue'
  <1>1. /\ Signalled("stopped") => Signalled("stopped")'
        /\ Signalled("started") => Signalled("started")'
    BY SaidMoreKeeps DEF Signalled, Streaming
  <1>2. InOrder(gui, Up, StopUp, discMsg, cap) /\ InOrder(gui', Up, StopUp, discMsg, cap)
    BY Truths, SaidMoreKeeps DEF AnswersDue
  <1>3. InOrder(gui', Up, StopUp', discMsg', cap)
    BY <1>2, Truths, OrderEased
  <1>4. InOrder(gui', Up', StopUp', discMsg', cap')
    BY <1>3
  <1>5. AnswerComing => AnswerComing'
    BY <1>1 DEF AnswerComing
  <1>6. /\ (cap => Up \/ Signalled("stopped") \/ AnswerComing)'
        /\ (~btn /\ cap => StopUp \/ Signalled("stopped") \/ Signalled("started") \/ (~Up /\ AnswerComing))'
        /\ (~btn /\ ~cap => AnswerComing \/ StopUp \/ Signalled("stopped"))'
        /\ (recActive /\ ~cap => recTimer \/ AnswerComing \/ StopUp \/ Signalled("stopped"))'
    BY <1>1, <1>5 DEF AnswersDue
  <1>7. QED
    BY <1>4, <1>6 DEF AnswersDue

\* Whatever else the queue brings, a capture that was told to have stopped is
\* an answer to all.
LEMMA StoppedAnswers ==
  ASSUME InOrder(gui, Up, StopUp, discMsg, cap)', Signalled("stopped")'
  PROVE  AnswersDue'
  BY DEF AnswersDue

LEMMA GuiGrown ==
  ASSUME CapTypes, NEW s \in GuiSignals
  PROVE  /\ Grown(gui, Append(gui, s), s) /\ Grown(gui, gui \o <<s>>, s) /\ gui \o <<>> = gui
         /\ gui \o <<s>> \in Seq(GuiSignals)
         /\ s \notin Streaming => SaidMore(gui, Append(gui, s)) /\ SaidMore(gui, gui \o <<s>>)
         /\ SaidMore(gui, gui)
  <1>1. gui \in Seq(GuiSignals)
    BY DEF CapTypes, TypeOK
  <1>2. /\ Grown(gui, Append(gui, s), s) /\ Grown(gui, gui \o <<s>>, s) /\ gui \o <<>> = gui
        /\ gui \o <<s>> \in Seq(GuiSignals)
    BY <1>1, GrownBy
  <1>3. QED
    BY <1>2 DEF SaidMore

\* The audio thread's queue, as the wired worker's answers depend on it.
LEMMA StopsAsBefore ==
  ASSUME NEW e, Grown(audioQ, audioQ', e), cur' = cur, stream' = stream
  PROVE  /\ (StopUp => StopUp') /\ (Starting => Starting') /\ Up' = Up
         /\ e.op = "stop" /\ e.worker = cur /\ Up => StopUp'
         /\ e.op = "start" /\ e.worker = cur => Starting'
  <1>1. PICK n \in Nat : /\ n + 1 \in DOMAIN audioQ' /\ audioQ'[n + 1] = e
                         /\ \A i \in DOMAIN audioQ : i \in DOMAIN audioQ' /\ audioQ'[i] = audioQ[i]
    BY DEF Grown
  <1>2. QED
    BY <1>1 DEF StopUp, Starting, Up

LEMMA CapturingAnswers ==
  ASSUME CapTypes, CapTypes', AnswersDue, panel = cap,
         \/ ClickStart \/ ClickStop \/ ClickClear \/ RecoveryTimer \/ LiftGate \/ Chunk
         \/ \E r \in Rates : SaveSettings(r)
  PROVE  AnswersDue'
  <1>1. SaidMore(gui, gui)
    BY DEF SaidMore
  <1>2. ASSUME ~cap, armed' = TRUE, cap' = cap, ~discMsg',
               recActive' => recActive,
               UNCHANGED <<gui, audioQ, stream, cur>>
        PROVE  AnswersDue'
    <2>1. Up' = Up /\ StopUp' = StopUp
      BY <1>2 DEF Up, StopUp
    <2>2. InOrder(gui, Up, StopUp, discMsg', cap)
      <3>1. InOrder(gui, Up, StopUp, discMsg, cap)
        BY DEF AnswersDue
      <3>2. discMsg' => discMsg
        BY <1>2
      <3>3. QED
        BY <3>1, <3>2, Truths, OrderEased
    <2>3. InOrder(gui, Up, StopUp, discMsg, cap)'
      BY <1>2, <2>1, <2>2
    <2>4. AnswerComing' /\ ~cap'
      BY <1>2 DEF AnswerComing
    <2>5. QED
      BY <2>3, <2>4 DEF AnswersDue
  <1>3. CASE ClickStart
    BY <1>2, <1>3 DEF ClickStart, BeginCapture, CancelRecovery, swapVars, audioVars
  <1>4. CASE ClickStop
    <2>1. cap /\ cap' = cap /\ ~btn' /\ ~recActive'
          /\ UNCHANGED <<gui, armed, discMsg, cur, stream>>
      BY <1>4 DEF ClickStop, CancelRecovery, swapVars, audioVars
    <2>2. PICK e : e = [op |-> "stop", worker |-> cur, rate |-> cfgRate]
      OBVIOUS
    <2>3. e \in AudioCalls /\ e.op = "stop" /\ e.worker = cur /\ audioQ' = Append(audioQ, e)
      BY <1>4, <2>2 DEF ClickStop, AudioCalls, CapTypes, TypeOK
    <2>4. Grown(audioQ, audioQ', e)
      BY <2>3, GrownBy DEF CapTypes, TypeOK
    <2>5. (StopUp => StopUp') /\ (Starting => Starting') /\ Up' = Up /\ (Up => StopUp')
      BY <2>1, <2>3, <2>4, StopsAsBefore
    <2>6. InOrder(gui, Up, StopUp', discMsg, cap)
      BY <2>5, Truths, OrderEased DEF AnswersDue
    <2>7. InOrder(gui, Up, StopUp, discMsg, cap)'
      BY <2>1, <2>5, <2>6
    <2>8. AnswerComing => AnswerComing'
      BY <2>1, <2>5 DEF AnswerComing, Signalled
    <2>9. Signalled("stopped") => Signalled("stopped")'
      BY <2>1 DEF Signalled
    <2>10. QED
      BY <2>1, <2>5, <2>7, <2>8, <2>9 DEF AnswersDue
  <1>5. CASE ClickClear \/ LiftGate \/ Chunk \/ \E r \in Rates : SaveSettings(r)
    <2>1. UNCHANGED <<gui, audioQ, guiVars, stream, cur>>
      BY <1>5 DEF ClickClear, LiftGate, Chunk, SaveSettings, swapVars, audioVars
    <2>2. QED
      BY <1>1, <2>1, AnswersKept DEF guiVars, Up, StopUp, Starting
  <1>6. CASE RecoveryTimer
    <2>1. UNCHANGED <<gui, audioQ, btn, cap, recActive, stream, cur>>
      BY <1>6 DEF RecoveryTimer, swapVars, audioVars
    <2>2. CASE BeginCapture /\ ~cap
      BY <1>2, <2>1, <2>2 DEF BeginCapture
    <2>3. CASE UNCHANGED <<recTimer, armed, discMsg>>
      BY <1>1, <2>1, <2>3, AnswersKept DEF Up, StopUp, Starting
    <2>4. CASE (~recActive \/ cap) /\ UNCHANGED <<armed, discMsg>>
      <3>1. Up' = Up /\ StopUp' = StopUp /\ Starting' = Starting /\ (AnswerComing' <=> AnswerComing)
            /\ (Signalled("started")' <=> Signalled("started"))
            /\ (Signalled("stopped")' <=> Signalled("stopped"))
        BY <2>1, <2>4 DEF Up, StopUp, Starting, AnswerComing, Signalled
      <3>2. InOrder(gui, Up, StopUp, discMsg, cap)'
        BY <2>1, <2>4, <3>1 DEF AnswersDue
      <3>3. QED
        BY <2>1, <2>4, <3>1, <3>2 DEF AnswersDue
    <2>5. QED
      BY <1>6, <2>2, <2>3, <2>4 DEF RecoveryTimer
  <1>7. QED
    BY <1>3, <1>4, <1>5, <1>6

LEMMA SwappingAnswers ==
  ASSUME CapTypes, CapTypes', AnswersDue, "swap" \notin races', SwapBegin \/ SwapFinish
  PROVE  AnswersDue'
  <1>1. SaidMore(gui, gui)
    BY DEF SaidMore
  <1>2. CASE SwapBegin
    <2>1. UNCHANGED <<gui, guiVars, cur, stream>>
      BY <1>2 DEF SwapBegin, audioVars
    <2>2. PICK e : e = [op |-> "stop", worker |-> cur, rate |-> cfgRate]
      OBVIOUS
    <2>3. e \in AudioCalls /\ audioQ' = Append(audioQ, e)
      BY <1>2, <2>2 DEF SwapBegin, AudioCalls, CapTypes, TypeOK
    <2>4. Grown(audioQ, audioQ', e)
      BY <2>3, GrownBy DEF CapTypes, TypeOK
    <2>5. (StopUp => StopUp') /\ (Starting => Starting') /\ Up' = Up
      BY <2>1, <2>4, StopsAsBefore
    <2>6. QED
      BY <1>1, <2>1, <2>5, AnswersKept DEF guiVars
  <1>3. CASE SwapFinish
    <2>1. /\ btn /\ ~armed /\ ~Signalled("started") /\ (recActive /\ ~cap => recTimer)
          /\ (cap => swap.was) /\ ~Up /\ ~Starting
      BY <1>3 DEF SwapFinish, Race, Unanswered, Up, Starting
    <2>2. armed' = swap.was /\ UNCHANGED <<gui, btn, cap, recActive, recTimer, discMsg, stream, audioQ>>
      BY <1>3 DEF SwapFinish, audioVars
    <2>3. ~Up' /\ ~StopUp' /\ ~StopUp
      <3>1. cur' = cur + 1 /\ swap # NoSwap /\ cur \in Workers
        BY <1>3 DEF SwapFinish, CapTypes, TypeOK
      <3>2. cur' \in Workers /\ ~(cur' <= cur)
        BY <3>1, CaptureAssumption DEF CapTypes, Workers
      <3>3. QED
        BY <2>1, <2>2, <3>2 DEF CapTypes, Up, StopUp
    <2>4. InOrder(gui, Up, StopUp, discMsg, cap)'
      <3>1. Up' = Up /\ StopUp' = StopUp
        BY <2>1, <2>3, Truths
      <3>2. InOrder(gui, Up, StopUp, discMsg, cap)
        BY DEF AnswersDue
      <3>3. QED
        BY <2>2, <3>1, <3>2
    <2>5. QED
      BY <2>1, <2>2, <2>4 DEF AnswersDue, AnswerComing
  <1>4. QED
    BY <1>2, <1>3

LEMMA HandlingAnswers ==
  ASSUME CapTypes, CapTypes', AnswersDue, GuiHandles
  PROVE  AnswersDue'
  <1>1. /\ gui # <<>> /\ gui' = Tail(gui) /\ UNCHANGED <<cur, stream>>
    BY DEF GuiHandles, OnResetDone, OnStarted, OnStopped, OnDeviceLost, OnAcked, OnTxStarted,
       OnTxEnded, Taken, swapVars, audioVars
  <1>2. Shrunk(gui, gui') /\ Head(gui) = gui[1]
    BY <1>1, GuiTaken
  <1>3. gui[1] \notin Streaming => SaidMore(gui, gui')
    BY <1>2 DEF SaidMore
  <1>4. /\ \A x : (\E i \in DOMAIN gui : gui[i] = x) => gui[1] = x \/ \E i \in DOMAIN gui' : gui'[i] = x
    BY <1>2, ShrunkAt
  <1>5. InOrder(gui, Up, StopUp, discMsg, cap) /\ Up' = Up
    BY <1>1 DEF AnswersDue, Up
  <1>6. /\ gui[1] = "lost" => InOrder(gui', Up, StopUp, TRUE, cap)
        /\ gui[1] = "stopped" => InOrder(gui', Up, StopUp, FALSE, FALSE)
        /\ gui[1] = "started" /\ discMsg => InOrder(gui', Up, StopUp, discMsg, cap)
        /\ gui[1] = "started" /\ ~discMsg => InOrder(gui', Up, StopUp, discMsg, TRUE)
        /\ gui[1] = "started" /\ discMsg => StopUp \/ Signalled("stopped")'
        /\ gui[1] \in {"lost", "started"} => Up \/ Signalled("stopped")'
    <2>1. Handles(gui, gui', Up, StopUp, discMsg, cap)
      BY <1>2, <1>5, Truths, OrderShrunk
    <2>2. QED
      BY <2>1 DEF Handles, Signalled
  <1>7. CASE OnResetDone
    <2>1. gui[1] = "reset_done" /\ UNCHANGED <<btn, cap, recActive, recTimer, discMsg>>
      BY <1>2, <1>7 DEF OnResetDone, Taken
    <2>2. (StopUp => StopUp') /\ (armed \/ Starting => armed' \/ Starting')
      <3>1. CASE ~armed
        BY <1>1, <1>7, <3>1 DEF OnResetDone, StopUp, Up, Starting
      <3>2. CASE armed
        <4>1. PICK e : e = [op |-> "start", worker |-> cur, rate |-> cfgRate]
          OBVIOUS
        <4>2. e \in AudioCalls /\ e.op = "start" /\ e.worker = cur /\ audioQ' = Append(audioQ, e)
          BY <1>7, <3>2, <4>1 DEF OnResetDone, AudioCalls, CapTypes, TypeOK
        <4>3. Grown(audioQ, audioQ', e)
          BY <4>2, GrownBy DEF CapTypes, TypeOK
        <4>4. QED
          BY <1>1, <4>2, <4>3, StopsAsBefore
      <3>3. QED
        BY <3>1, <3>2
    <2>3. QED
      BY <1>3, <1>5, <2>1, <2>2, AnswersKept DEF Streaming
  <1>8. CASE OnStarted
    <2>1. gui[1] = "started" /\ UNCHANGED <<audioQ, armed, discMsg>>
      BY <1>2, <1>8 DEF OnStarted, Taken
    <2>2. StopUp' = StopUp
      BY <1>1, <2>1 DEF StopUp, Up
    <2>3. CASE discMsg
      <3>1. UNCHANGED <<cap, btn, panel, recActive, recTimer>>
        BY <1>8, <2>3 DEF OnStarted
      <3>2. StopUp' \/ Signalled("stopped")'
        BY <1>6, <2>1, <2>2, <2>3
      <3>3. InOrder(gui', Up, StopUp, discMsg, cap)
        BY <1>6, <2>1, <2>3
      <3>4. InOrder(gui, Up, StopUp, discMsg, cap)'
        BY <1>5, <2>1, <2>2, <3>1, <3>3
      <3>5. StopUp' => Up'
        BY DEF StopUp, Up
      <3>6. QED
        BY <3>2, <3>4, <3>5 DEF AnswersDue
    <2>4. CASE ~discMsg
      <3>1. cap' = TRUE /\ btn' = TRUE
        BY <1>8, <2>4 DEF OnStarted
      <3>2. InOrder(gui', Up, StopUp, discMsg, TRUE)
        BY <1>6, <2>1, <2>4
      <3>3. InOrder(gui, Up, StopUp, discMsg, cap)'
        BY <1>5, <2>1, <2>2, <3>1, <3>2
      <3>4. Up' \/ Signalled("stopped")'
        BY <1>5, <1>6, <2>1
      <3>5. QED
        BY <3>1, <3>3, <3>4 DEF AnswersDue
    <2>5. QED
      BY <2>3, <2>4
  <1>9. CASE OnStopped
    <2>1. /\ gui[1] = "stopped" /\ UNCHANGED <<audioQ, armed, recActive>>
          /\ cap' = FALSE /\ btn' = TRUE /\ discMsg' = FALSE /\ (recActive => recTimer')
      BY <1>2, <1>9 DEF OnStopped, Taken
    <2>2. StopUp' = StopUp
      BY <1>1, <2>1 DEF StopUp, Up
    <2>3. InOrder(gui, Up, StopUp, discMsg, cap)'
      BY <1>5, <1>6, <2>1, <2>2
    <2>4. QED
      BY <2>1, <2>3 DEF AnswersDue
  <1>10. CASE OnDeviceLost
    <2>1. /\ gui[1] = "lost" /\ UNCHANGED <<audioQ, armed, btn, cap, recTimer>>
          /\ discMsg' = TRUE
      BY <1>2, <1>10 DEF OnDeviceLost, Taken
    <2>2. StopUp' = StopUp /\ Starting' = Starting
      BY <1>1, <2>1 DEF StopUp, Starting, Up
    <2>3. InOrder(gui, Up, StopUp, discMsg, cap)'
      BY <1>5, <1>6, <2>1, <2>2
    <2>4. /\ Signalled("started") => Signalled("started")'
          /\ Signalled("stopped") => Signalled("stopped")'
      BY <1>4, <2>1 DEF Signalled
    <2>5. AnswerComing => AnswerComing'
      BY <2>1, <2>2, <2>4 DEF AnswerComing
    <2>6. ~cap => StopUp' \/ Signalled("stopped")' \/ AnswerComing'
      <3>1. Up => cap \/ StopUp \/ Signalled("started")
        BY <1>5 DEF InOrder, Signalled
      <3>2. Up \/ Signalled("stopped")'
        BY <1>6, <2>1
      <3>3. QED
        BY <2>2, <2>4, <3>1, <3>2 DEF AnswerComing
    <2>7. QED
      BY <1>5, <2>1, <2>2, <2>3, <2>4, <2>5, <2>6 DEF AnswersDue
  <1>11. CASE OnAcked \/ OnTxStarted \/ OnTxEnded
    <2>1. gui[1] \notin Streaming /\ UNCHANGED <<audioQ, guiVars>>
      BY <1>2, <1>11 DEF OnAcked, OnTxStarted, OnTxEnded, Taken, Streaming
    <2>2. QED
      BY <1>1, <1>3, <1>5, <2>1, AnswersKept DEF guiVars, StopUp, Up, Starting
  <1>12. QED
    BY <1>7, <1>8, <1>9, <1>10, <1>11 DEF GuiHandles

LEMMA StartingAnswers ==
  ASSUME CapTypes, CapTypes', AnswersDue, AudioStart
  PROVE  AnswersDue'
  <1>1. /\ audioQ # <<>> /\ gui \in Seq(GuiSignals)
        /\ UNCHANGED <<rxQ, guiVars, cur>>
    BY DEF AudioStart, CapTypes, TypeOK, swapVars
  <1>2. PICK w : w = audioQ[1].worker
    OBVIOUS
  <1>3. /\ w \in Workers /\ Head(audioQ) = audioQ[1] /\ 1 \in DOMAIN audioQ
        /\ Tail(audioQ) \in Seq(AudioCalls) /\ Shrunk(audioQ, Tail(audioQ)) /\ audioQ[1].op = "start"
        /\ stream \in [Workers -> 0 .. MaxOpens] /\ cur \in Workers /\ audioQ[1] \in AudioCalls
    BY <1>1, <1>2, AudioTaken DEF AudioStart, CapTypes, TypeOK
  <1>4. \A i \in DOMAIN audioQ : i = 1 \/ \E j \in DOMAIN Tail(audioQ) : Tail(audioQ)[j] = audioQ[i]
    BY <1>3, ShrunkAt
  <1>5. \A i \in DOMAIN audioQ : audioQ[i].op = "start" /\ audioQ[i].worker = cur =>
          w = cur \/ \E j \in DOMAIN Tail(audioQ) : Tail(audioQ)[j] = audioQ[i]
    BY <1>2, <1>4
  <1>6. \A i \in DOMAIN audioQ : audioQ[i].op = "stop" =>
          \E j \in DOMAIN Tail(audioQ) : Tail(audioQ)[j] = audioQ[i]
    BY <1>3, <1>4
  <1>7. \/ audioQ' = Tail(audioQ)
        \/ /\ audioQ' = Append(Tail(audioQ), [Head(audioQ) EXCEPT !.op = "stop"])
           /\ stream[w] = None
    BY <1>2, <1>3 DEF AudioStart
  <1>8. /\ \A j \in DOMAIN Tail(audioQ) : \E i \in DOMAIN audioQ' : audioQ'[i] = Tail(audioQ)[j]
        /\ audioQ' # Tail(audioQ) =>
             \E i \in DOMAIN audioQ' : audioQ'[i].op = "stop" /\ audioQ'[i].worker = w
    <2>1. CASE audioQ' = Tail(audioQ)
      BY <2>1
    <2>2. CASE audioQ' = Append(Tail(audioQ), [Head(audioQ) EXCEPT !.op = "stop"])
      <3> DEFINE e == [audioQ[1] EXCEPT !.op = "stop"]
      <3>1. e \in AudioCalls /\ e.op = "stop" /\ e.worker = w
        BY <1>2, <1>3 DEF AudioCalls
      <3>2. audioQ' = Append(Tail(audioQ), e)
        BY <1>3, <2>2
      <3> HIDE DEF e
      <3>3. Grown(Tail(audioQ), audioQ', e)
        BY <1>3, <3>1, <3>2, GrownBy
      <3>4. PICK n \in Nat : /\ n + 1 \in DOMAIN audioQ' /\ audioQ'[n + 1] = e
                             /\ \A i \in DOMAIN Tail(audioQ) :
                                  i \in DOMAIN audioQ' /\ audioQ'[i] = Tail(audioQ)[i]
        BY <3>3 DEF Grown
      <3>5. QED
        BY <3>1, <3>4
    <2>3. QED
      BY <1>7, <2>1, <2>2
  <1>9. \A i \in DOMAIN audioQ : audioQ[i].op = "stop" =>
          \E j \in DOMAIN audioQ' : audioQ'[j] = audioQ[i]
    BY <1>6, <1>8
  <1>10. w # cur => (Starting => Starting')
    BY <1>1, <1>5, <1>8 DEF Starting
  <1>11. stream' = stream => (StopUp => StopUp')
    BY <1>1, <1>9 DEF StopUp, Up
  <1>12. /\ Up \in BOOLEAN /\ StopUp \in BOOLEAN /\ Up' \in BOOLEAN /\ StopUp' \in BOOLEAN
        /\ discMsg \in BOOLEAN /\ cap \in BOOLEAN
    BY Truths
  <1>13. CASE w # cur
    <2>1. gui' = gui
      BY <1>2, <1>3, <1>13 DEF AudioStart, Emit
    <2>2. stream'[cur] = stream[cur]
      <3>1. stream' = stream \/ \E s : stream' = [stream EXCEPT ![w] = s]
        BY <1>2, <1>3 DEF AudioStart, audioVars
      <3>2. QED
        BY <1>3, <1>13, <3>1
    <2>3. Up' = Up /\ (StopUp => StopUp')
      BY <1>1, <1>9, <2>2 DEF Up, StopUp
    <2>4. QED
      BY <1>1, <1>10, <1>13, <2>1, <2>3, AnswersKept DEF SaidMore, guiVars
  <1>14. CASE w = cur
    <2>1. \/ /\ Up /\ UNCHANGED <<gui, stream>>
          \/ /\ ~Up /\ gui' = gui \o <<"stopped">> /\ stream' = stream
          \/ /\ ~Up /\ \E s \in Nat : s # None /\ stream' = [stream EXCEPT ![w] = s]
             /\ \/ gui' = gui \o <<"started">>
                \/ gui' = gui \o <<"lost", "started">> /\ audioQ' # Tail(audioQ)
      <3>1. Len(sessRate) + 1 \in Nat /\ Len(sessRate) + 1 # None
        BY DEF CapTypes, TypeOK, None
      <3>2. audioQ' = Append(Tail(audioQ), [Head(audioQ) EXCEPT !.op = "stop"]) => audioQ' # Tail(audioQ)
        BY <1>3
      <3>3. QED
        BY <1>2, <1>3, <1>14, <3>1, <3>2 DEF AudioStart, Emit, Up, audioVars
    <2>2. CASE Up /\ UNCHANGED <<gui, stream>>
      <3>1. Up' = Up /\ (StopUp => StopUp')
            /\ (Signalled("started")' <=> Signalled("started"))
            /\ (Signalled("stopped")' <=> Signalled("stopped"))
        BY <1>1, <1>11, <2>2 DEF Up, Signalled
      <3>2. InOrder(gui, Up, StopUp, discMsg, cap)'
        <4>1. InOrder(gui, Up, StopUp', discMsg, cap)
          BY <3>1, Truths, OrderEased DEF AnswersDue
        <4>2. QED
          BY <1>1, <2>2, <3>1, <4>1 DEF guiVars
      <3>3. cap \/ StopUp' \/ Signalled("started")'
        BY <2>2, <3>1 DEF AnswersDue, InOrder, Signalled
      <3>4. QED
        BY <1>1, <2>2, <3>1, <3>2, <3>3 DEF AnswersDue, AnswerComing, guiVars
    <2>3. CASE ~Up /\ gui' = gui \o <<"stopped">> /\ stream' = stream
      <3>1. Grown(gui, gui', "stopped") /\ ~Up'
        BY <1>1, <2>3, GuiGrown DEF GuiSignals, Up
      <3>2. InOrder(gui', Up', StopUp', discMsg, cap)
        <4>1. InOrder(gui, Up, StopUp, discMsg, cap)
          BY DEF AnswersDue
        <4>2. Closed(Up')
          BY <3>1 DEF Closed
        <4>3. QED
          BY <3>1, <4>1, <4>2, <1>12, OrderStopped
      <3>3. InOrder(gui, Up, StopUp, discMsg, cap)'
        BY <1>1, <3>2 DEF guiVars
      <3>4. Signalled("stopped")'
        BY <3>1 DEF Grown, Signalled
      <3>5. QED
        BY <3>3, <3>4, StoppedAnswers
    <2>4. CASE /\ ~Up /\ \E s \in Nat : s # None /\ stream' = [stream EXCEPT ![w] = s]
               /\ \/ gui' = gui \o <<"started">>
                  \/ gui' = gui \o <<"lost", "started">> /\ audioQ' # Tail(audioQ)
      <3>1. Up'
        BY <1>1, <1>3, <1>14, <2>4 DEF Up
      <3>2. /\ InOrder(gui, Up, StopUp, discMsg, cap) /\ ~Up
            /\ "started" \in GuiSignals /\ "lost" \in GuiSignals
        BY <2>4 DEF AnswersDue, GuiSignals
      <3>3. ComesUp(Up, Up')
        BY <3>1, <3>2 DEF ComesUp
      <3>4. InOrder(gui', Up', StopUp', discMsg, cap) /\ Signalled("started")'
        <4>1. CASE gui' = gui \o <<"started">>
          <5>1. Grown(gui, gui', "started")
            BY <3>2, <4>1, GuiGrown
          <5>2. InOrder(gui', Up', StopUp', discMsg, cap)
            BY <3>2, <3>3, <5>1, <1>12, OrderOpened
          <5>3. QED
            BY <5>1, <5>2 DEF Grown, Signalled
        <4>2. CASE gui' = gui \o <<"lost", "started">> /\ audioQ' # Tail(audioQ)
          <5>1. StopUp'
            BY <1>1, <1>8, <1>14, <3>1, <4>2 DEF StopUp
          <5>2. PICK r : r = gui \o <<"lost">>
            OBVIOUS
          <5>3. Grown(gui, r, "lost") /\ r \in Seq(GuiSignals)
            BY <3>2, <5>2, GuiGrown
          <5>4. gui' = r \o <<"started">>
            BY <1>1, <4>2, <5>2
          <5>5. Grown(r, gui', "started")
            BY <3>2, <5>3, <5>4, GrownBy
          <5>6. InOrder(gui', Up', StopUp', discMsg, cap)
            <6>1. ~Closed(StopUp')
              BY <5>1 DEF Closed
            <6>2. QED
              BY <3>2, <3>3, <5>3, <5>5, <6>1, <1>12, OrderOpenedLost
          <5>7. QED
            BY <5>5, <5>6 DEF Grown, Signalled
        <4>3. QED
          BY <2>4, <4>1, <4>2
      <3>5. InOrder(gui, Up, StopUp, discMsg, cap)'
        BY <1>1, <3>4 DEF guiVars
      <3>6. QED
        BY <3>1, <3>4, <3>5 DEF AnswersDue, AnswerComing
    <2>5. QED
      BY <2>1, <2>2, <2>3, <2>4
  <1>15. QED
    BY <1>13, <1>14

LEMMA StoppingAnswers ==
  ASSUME CapTypes, CapTypes', AnswersDue, AudioStop
  PROVE  AnswersDue'
  <1>1. /\ audioQ # <<>> /\ gui \in Seq(GuiSignals) /\ audioQ' = Tail(audioQ)
        /\ UNCHANGED <<guiVars, cur>>
    BY DEF AudioStop, CapTypes, TypeOK, swapVars
  <1>2. PICK w, ack : w = audioQ[1].worker /\ ack = IF swap # NoSwap THEN <<"acked">> ELSE <<>>
    OBVIOUS
  <1>3. /\ w \in Workers /\ Head(audioQ) = audioQ[1] /\ Shrunk(audioQ, audioQ')
        /\ audioQ[1].op = "stop" /\ stream \in [Workers -> 0 .. MaxOpens] /\ cur \in Workers
    BY <1>1, <1>2, AudioTaken DEF AudioStop, CapTypes, TypeOK
  <1>4. \A i \in DOMAIN audioQ : i = 1 \/ \E j \in DOMAIN audioQ' : audioQ'[j] = audioQ[i]
    BY <1>3, ShrunkAt
  <1>5. /\ stream' = [stream EXCEPT ![w] = None]
        /\ IF stream[w] = None THEN Emit(w, ack) ELSE Emit(w, <<"stopped">> \o ack)
    BY <1>2, <1>3 DEF AudioStop
  <1>6. Starting => Starting'
    BY <1>1, <1>3, <1>4 DEF Starting
  <1>7. /\ Up \in BOOLEAN /\ StopUp \in BOOLEAN /\ Up' \in BOOLEAN /\ StopUp' \in BOOLEAN
        /\ discMsg \in BOOLEAN /\ cap \in BOOLEAN
    BY Truths
  <1>8. CASE w # cur
    <2>1. gui' = gui /\ Up' = Up
      BY <1>1, <1>3, <1>5, <1>8 DEF Emit, Up
    <2>2. StopUp => StopUp'
      BY <1>1, <1>2, <1>4, <1>8, <2>1 DEF StopUp
    <2>3. QED
      BY <1>1, <1>6, <2>1, <2>2, AnswersKept DEF SaidMore, guiVars
  <1>9. CASE w = cur /\ ~Up
    <2>1. gui' = gui \o ack /\ stream[w] = None
      BY <1>5, <1>9 DEF Emit, Up
    <2>2. SaidMore(gui, gui')
      <3>1. CASE ack = <<>>
        BY <1>1, <2>1, <3>1 DEF SaidMore
      <3>2. CASE ack = <<"acked">>
        BY <1>1, <2>1, <3>2, GuiGrown DEF GuiSignals, Streaming
      <3>3. QED
        BY <1>2, <3>1, <3>2
    <2>3. ~Up' /\ ~StopUp
      BY <1>1, <1>3, <1>5, <1>9 DEF Up, StopUp
    <2>4. Up' = Up
      BY <1>9, <2>3, Truths
    <2>5. QED
      BY <1>1, <1>6, <2>2, <2>3, <2>4, AnswersKept DEF guiVars
  <1>10. CASE w = cur /\ Up
    <2>1. gui' = gui \o (<<"stopped">> \o ack)
      BY <1>5, <1>10 DEF Emit, Up
    <2>2. ~Up'
      BY <1>1, <1>3, <1>5, <1>10 DEF Up
    <2>3. PICK r : r = gui \o <<"stopped">>
      OBVIOUS
    <2>4. Grown(gui, r, "stopped") /\ r \in Seq(GuiSignals) /\ "acked" \in GuiSignals
      BY <2>3, GuiGrown DEF GuiSignals
    <2>5. InOrder(r, Up', StopUp', discMsg, cap)
      <3>1. InOrder(gui, Up, StopUp, discMsg, cap)
        BY DEF AnswersDue
      <3>2. Closed(Up')
        BY <2>2 DEF Closed
      <3>3. QED
        BY <2>4, <3>1, <3>2, <1>7, OrderStopped
    <2>6. \E i \in DOMAIN r : r[i] = "stopped"
      BY <2>4 DEF Grown
    <2>7. SaidMore(r, gui')
      <3>1. CASE ack = <<>>
        <4>1. gui' = r
          BY <1>1, <2>1, <2>3, <3>1
        <4>2. QED
          BY <4>1 DEF SaidMore
      <3>2. CASE ack = <<"acked">>
        <4>1. gui' = r \o <<"acked">>
          BY <1>1, <2>1, <2>3, <3>2
        <4>2. Grown(r, gui', "acked")
          BY <2>4, <4>1, GrownBy
        <4>3. "acked" \notin Streaming
          BY DEF Streaming
        <4>4. QED
          BY <4>2, <4>3 DEF SaidMore
      <3>3. QED
        BY <1>2, <3>1, <3>2
    <2>8. InOrder(gui', Up', StopUp', discMsg, cap)
      BY <2>5, <2>7, Truths, SaidMoreKeeps
    <2>9. InOrder(gui, Up, StopUp, discMsg, cap)'
      BY <1>1, <2>8 DEF guiVars
    <2>10. "stopped" \in Streaming
      BY DEF Streaming
    <2>11. \E i \in DOMAIN gui' : gui'[i] = "stopped"
      BY <2>6, <2>7, <2>10, SaidMoreKeeps
    <2>12. Signalled("stopped")'
      BY <2>11 DEF Signalled
    <2>13. QED
      BY <2>9, <2>12, StoppedAnswers
  <1>11. QED
    BY <1>8, <1>9, <1>10

LEMMA LosingAnswers ==
  ASSUME CapTypes, CapTypes', AnswersDue, NEW w \in Workers, DeviceLoss(w) \/ TciStall(w)
  PROVE  AnswersDue'
  <1>1. UNCHANGED <<guiVars, cur, stream>> /\ stream[w] # None
    BY DEF DeviceLoss, TciStall, swapVars
  <1>2. (StopUp => StopUp') /\ (Starting => Starting') /\ Up' = Up
    <2>1. CASE DeviceLoss(w)
      <3>1. PICK e : e = [op |-> "stop", worker |-> w, rate |-> cfgRate]
        OBVIOUS
      <3>2. e \in AudioCalls /\ audioQ' = Append(audioQ, e)
        BY <2>1, <3>1 DEF DeviceLoss, AudioCalls, CapTypes, TypeOK
      <3>3. Grown(audioQ, audioQ', e)
        BY <3>2, GrownBy DEF CapTypes, TypeOK
      <3>4. QED
        BY <1>1, <3>3, StopsAsBefore
    <2>2. CASE TciStall(w)
      BY <1>1, <2>2 DEF TciStall, StopUp, Starting, Up
    <2>3. QED
      BY <2>1, <2>2
  <1>3. /\ Up \in BOOLEAN /\ StopUp \in BOOLEAN /\ Up' \in BOOLEAN /\ StopUp' \in BOOLEAN
        /\ discMsg \in BOOLEAN /\ cap \in BOOLEAN
    BY Truths
  <1>4. CASE gui' = gui
    BY <1>1, <1>2, <1>4, AnswersKept DEF SaidMore, guiVars
  <1>5. CASE gui' # gui
    <2>1. w = cur /\ gui' = gui \o <<"lost">>
      BY <1>5 DEF DeviceLoss, TciStall, Emit
    <2>2. Grown(gui, gui', "lost") /\ Up
      BY <1>1, <2>1, GuiGrown DEF GuiSignals, Up
    <2>3. InOrder(gui, Up, StopUp, discMsg, cap)
      BY DEF AnswersDue
    <2>4. InOrder(gui', Up', StopUp', discMsg, cap)
      <3>1. StillUp(Up, Up', StopUp, StopUp')
        BY <1>2, <2>2 DEF StillUp
      <3>2. Grown(gui, gui', "lost")
        BY <2>2
      <3>3. QED
        BY <2>3, <3>1, <3>2, <1>3, OrderLost
    <2>5. InOrder(gui, Up, StopUp, discMsg, cap)'
      BY <1>1, <2>4 DEF guiVars
    <2>6. /\ Signalled("started") => Signalled("started")'
          /\ Signalled("stopped") => Signalled("stopped")'
      BY <2>2 DEF Grown, Signalled
    <2>7. AnswerComing => AnswerComing'
      BY <1>1, <1>2, <2>6 DEF AnswerComing, guiVars
    <2>8. QED
      BY <1>1, <1>2, <2>5, <2>6, <2>7 DEF AnswersDue, guiVars
  <1>6. QED
    BY <1>4, <1>5

LEMMA DecodingAnswers ==
  ASSUME CapTypes, CapTypes', AnswersDue,
         \/ RxRuns
         \/ TxRequest \/ TxKeying \/ TxOn \/ TxOff \/ TxFailed \/ TxIdle
  PROVE  AnswersDue'
  <1>1. UNCHANGED <<guiVars, cur, stream, audioQ>>
    BY DEF RxRuns, RxChunk, RxReset, RxRate, RxGate, TxRequest, TxKeying, TxOn, TxOff, TxFailed,
       TxIdle, TxStep, swapVars, audioVars
  <1>2. gui' \in {gui, Append(gui, "reset_done"), gui \o <<>>, gui \o <<"tx_started">>,
                  gui \o <<"tx_done">>, gui \o <<"tx_finished">>}
    BY DEF RxRuns, RxChunk, RxReset, RxRate, RxGate, TxRequest, TxKeying, TxOn, TxOff, TxFailed,
       TxIdle, TxStep
  <1>3. SaidMore(gui, gui')
    BY <1>2, GuiGrown DEF GuiSignals, Streaming
  <1>4. QED
    BY <1>1, <1>3, AnswersKept DEF guiVars, Up, StopUp, Starting

-----------------------------------------------------------------------------
(* The reset an armed start waits for is on its way.                         *)

ResetBehind(q) == \E i \in DOMAIN q : q[i].op = "reset" \/ (q[i].op = "gate" /\ ~q[i].on)

LEMMA ResetOnItsWay ==
  ASSUME armed' => Signalled("reset_done")' \/ ResetBehind(rxQ')
  PROVE  ResetDue'
  BY DEF ResetDue, ResetBehind, Has

LEMMA ResetKept ==
  ASSUME ResetDue, armed' => armed, Prefixed(gui, gui'), Prefixed(rxQ, rxQ')
  PROVE  ResetDue'
  <1>1. ResetBehind(rxQ) => ResetBehind(rxQ')
    BY DEF ResetBehind, Prefixed
  <1>2. Signalled("reset_done") => Signalled("reset_done")'
    BY DEF Signalled, Prefixed
  <1>3. armed => Signalled("reset_done") \/ ResetBehind(rxQ)
    BY DEF ResetDue, ResetBehind, Has
  <1>4. QED
    BY <1>1, <1>2, <1>3, ResetOnItsWay

LEMMA ResetAsked ==
  ASSUME CapTypes, NEW w, NEW r \in Rates,
         rxQ' = rxQ \o RateCalls(EffectiveRate(w, r)) \o <<[op |-> "reset"]>>
  PROVE  ResetDue'
  <1>1. EffectiveRate(w, r) \in Rates \cup {TciRate}
    BY Effective
  <1>2. \E i \in DOMAIN rxQ' : rxQ'[i].op = "reset"
    BY <1>1, RetunedReset
  <1>3. QED
    BY <1>2, ResetOnItsWay DEF ResetBehind

LEMMA GuiLonger ==
  ASSUME CapTypes, NEW s \in Seq(GuiSignals)
  PROVE  Prefixed(gui, gui) /\ Prefixed(gui, gui \o s) /\ Prefixed(rxQ, rxQ)
  <1>1. gui \in Seq(GuiSignals)
    BY DEF CapTypes, TypeOK
  <1>2. \A i \in DOMAIN gui : i \in DOMAIN (gui \o s) /\ (gui \o s)[i] = gui[i]
    BY <1>1
  <1>3. QED
    BY <1>2 DEF Prefixed

LEMMA ResetByGui ==
  ASSUME CapTypes, ResetDue,
         \/ ClickStart \/ ClickStop \/ ClickClear \/ RecoveryTimer \/ LiftGate \/ Chunk
         \/ SwapBegin \/ SwapFinish \/ \E r \in Rates : SaveSettings(r)
  PROVE  ResetDue'
  <1>1. /\ cfgRate \in Rates /\ Prefixed(gui, gui) /\ Prefixed(rxQ, rxQ)
        /\ <<>> \in Seq(GuiSignals)
    BY GuiLonger DEF CapTypes, TypeOK
  <1>2. CASE ClickStart
    BY <1>1, <1>2, ResetAsked DEF ClickStart, BeginCapture
  <1>3. CASE ClickStop \/ SwapBegin
    BY <1>1, <1>3, ResetKept DEF ClickStop, SwapBegin, guiVars
  <1>4. CASE ClickClear
    <2>1. [op |-> "reset"] \in RxCalls
      BY DEF RxCalls
    <2>2. Prefixed(rxQ, rxQ')
      BY <1>4, <2>1, RxSent DEF ClickClear
    <2>3. QED
      BY <1>1, <1>4, <2>2, ResetKept DEF ClickClear, guiVars
  <1>5. CASE RecoveryTimer
    <2>1. CASE BeginCapture
      BY <1>1, <2>1, ResetAsked DEF BeginCapture
    <2>2. CASE UNCHANGED <<gui, rxQ, armed>>
      BY <1>1, <2>2, ResetKept
    <2>3. QED
      BY <1>5, <2>1, <2>2 DEF RecoveryTimer
  <1>6. CASE LiftGate
    <2>1. [op |-> "gate", on |-> FALSE] \in RxCalls
      BY DEF RxCalls
    <2>2. Prefixed(rxQ, rxQ')
      BY <1>1, <1>6, <2>1, RxSent DEF LiftGate
    <2>3. QED
      BY <1>1, <1>6, <2>2, ResetKept DEF LiftGate, guiVars
  <1>7. CASE Chunk
    <2>1. stream[cur] \in 1 .. MaxOpens /\ stream[cur] \in 1 .. Len(sessRate)
      BY <1>7 DEF Chunk, CapTypes, TypeOK, None
    <2>2. [op |-> "chunk", session |-> stream[cur]] \in RxCalls
      BY <2>1 DEF RxCalls
    <2>3. Prefixed(rxQ, rxQ')
      BY <1>7, <2>1, <2>2, RxSent DEF Chunk
    <2>4. QED
      BY <1>1, <1>7, <2>3, ResetKept DEF Chunk, guiVars
  <1>8. CASE SwapFinish
    BY <1>1, <1>8, ResetAsked DEF SwapFinish
  <1>9. ASSUME NEW r \in Rates, SaveSettings(r)
        PROVE  ResetDue'
    <2>1. EffectiveRate(cur, r) \in Rates \cup {TciRate}
      BY Effective
    <2>2. Prefixed(rxQ, rxQ')
      BY <1>1, <1>9, <2>1, Retuned DEF SaveSettings
    <2>3. QED
      BY <1>1, <1>9, <2>2, ResetKept DEF SaveSettings, guiVars
  <1>10. QED
    BY <1>2, <1>3, <1>4, <1>5, <1>6, <1>7, <1>8, <1>9

LEMMA ResetBySignal ==
  ASSUME CapTypes, ResetDue, GuiHandles
  PROVE  ResetDue'
  <1>1. CASE OnResetDone
    BY <1>1, ResetOnItsWay DEF OnResetDone
  <1>2. CASE ~OnResetDone
    <2>1. /\ gui # <<>> /\ gui' = Tail(gui) /\ Head(gui) # "reset_done" /\ UNCHANGED armed
      BY <1>2 DEF GuiHandles, OnResetDone, OnStarted, OnStopped, OnDeviceLost, OnAcked, OnTxStarted,
         OnTxEnded, Taken, guiVars
    <2>2. Prefixed(rxQ, rxQ')
      <3>1. [op |-> "gate", on |-> TRUE] \in RxCalls
        BY DEF RxCalls
      <3>2. rxQ' = rxQ \/ rxQ' = Append(rxQ, [op |-> "gate", on |-> TRUE])
        BY <1>2 DEF GuiHandles, OnStarted, OnStopped, OnDeviceLost, OnAcked, OnTxStarted, OnTxEnded
      <3>3. QED
        BY <3>1, <3>2, RxSent DEF Prefixed
    <2>3. Shrunk(gui, gui') /\ Head(gui) = gui[1]
      BY <2>1, GuiTaken
    <2>4. Signalled("reset_done") => Signalled("reset_done")'
      BY <2>1, <2>3, ShrunkAt DEF Signalled
    <2>5. ResetBehind(rxQ) => ResetBehind(rxQ')
      BY <2>2 DEF ResetBehind, Prefixed
    <2>6. armed => Signalled("reset_done") \/ ResetBehind(rxQ)
      BY DEF ResetDue, ResetBehind, Has
    <2>7. QED
      BY <2>1, <2>4, <2>5, <2>6, ResetOnItsWay
  <1>3. QED
    BY <1>1, <1>2

LEMMA ResetByStream ==
  ASSUME CapTypes, ResetDue,
         \/ AudioRuns \/ TxRequest \/ TxKeying \/ TxOn \/ TxOff \/ TxFailed \/ TxIdle
         \/ \E w \in Workers : DeviceLoss(w) \/ TciStall(w)
  PROVE  ResetDue'
  <1>1. armed' = armed
    BY DEF AudioRuns, AudioStart, AudioStop, DeviceLoss, TciStall, TxRequest, TxKeying, TxOn,
       TxOff, TxFailed, TxIdle, TxStep, guiVars
  <1>2. Prefixed(gui, gui')
    <2>1. PICK s \in Seq(GuiSignals) : gui' = gui \o s \/ gui' = gui
      <3>1. CASE AudioStart
        BY <3>1, Signals DEF AudioStart, Emit, GuiSignals
      <3>2. CASE AudioStop
        <4>1. PICK ack : ack \in {<<>>, <<"acked">>} /\
                         (gui' = gui \/ gui' = gui \o ack \/ gui' = gui \o (<<"stopped">> \o ack))
          BY <3>2 DEF AudioStop, Emit
        <4>2. ack \in Seq(GuiSignals) /\ <<"stopped">> \in Seq(GuiSignals)
          BY <4>1, Signals DEF GuiSignals
        <4>3. <<"stopped">> \o ack \in Seq(GuiSignals)
          BY <4>2
        <4>4. QED
          BY <4>1, <4>2, <4>3
      <3>3. CASE \E w \in Workers : DeviceLoss(w) \/ TciStall(w)
        BY <3>3, Signals DEF DeviceLoss, TciStall, Emit, GuiSignals
      <3>4. CASE TxRequest \/ TxKeying \/ TxOn \/ TxOff \/ TxFailed \/ TxIdle
        BY <3>4, Signals DEF TxRequest, TxKeying, TxOn, TxOff, TxFailed, TxIdle, TxStep, GuiSignals
      <3>5. QED
        BY <3>1, <3>2, <3>3, <3>4 DEF AudioRuns
    <2>2. QED
      BY <2>1, GuiLonger
  <1>3. Prefixed(rxQ, rxQ')
    <2>1. CASE rxQ' = rxQ
      BY <2>1 DEF Prefixed
    <2>2. CASE rxQ' # rxQ
      <3>1. AudioStop
        BY <2>2 DEF AudioRuns, AudioStart, DeviceLoss, TciStall, TxRequest, TxKeying, TxOn,
           TxOff, TxFailed, TxIdle, TxStep
      <3>2. PICK w : w = Head(audioQ).worker
        OBVIOUS
      <3>3. w \in Workers /\ stream[w] # None /\ rxQ' = Append(rxQ, [op |-> "chunk", session |-> stream[w]])
        BY <2>2, <3>1, <3>2, AudioTaken DEF AudioStop
      <3>4. stream[w] \in 1 .. MaxOpens /\ stream[w] \in 1 .. Len(sessRate)
        BY <3>3 DEF CapTypes, TypeOK, None
      <3>5. [op |-> "chunk", session |-> stream[w]] \in RxCalls
        BY <3>4 DEF RxCalls
      <3>6. QED
        BY <3>3, <3>4, <3>5, RxSent
    <2>3. QED
      BY <2>1, <2>2
  <1>4. QED
    BY <1>1, <1>2, <1>3, ResetKept

LEMMA ResetByDecoder ==
  ASSUME CapTypes, ResetDue, RxRuns
  PROVE  ResetDue'
  <1>1. rxQ # <<>> /\ rxQ' = Tail(rxQ) /\ armed' = armed
    BY DEF RxRuns, RxChunk, RxReset, RxRate, RxGate, guiVars
  <1>2. Shrunk(rxQ, rxQ') /\ Head(rxQ) = rxQ[1]
    BY <1>1, RxTaken
  <1>3. CASE gui' = Append(gui, "reset_done")
    <2>1. Grown(gui, gui', "reset_done")
      BY <1>3, GuiGrown DEF GuiSignals
    <2>2. Signalled("reset_done")'
      BY <2>1 DEF Grown, Signalled
    <2>3. QED
      BY <2>2, ResetOnItsWay
  <1>4. CASE gui' # Append(gui, "reset_done")
    <2>1. gui' = gui /\ rxQ[1].op # "reset" /\ (rxQ[1].op = "gate" => rxQ[1].on)
      BY <1>2, <1>4 DEF RxRuns, RxChunk, RxReset, RxRate, RxGate
    <2>2. ResetBehind(rxQ) => ResetBehind(rxQ')
      BY <1>2, <2>1, ShrunkAt DEF ResetBehind
    <2>3. armed => Signalled("reset_done") \/ ResetBehind(rxQ)
      BY DEF ResetDue, ResetBehind, Has
    <2>4. QED
      BY <1>1, <2>1, <2>2, <2>3, ResetOnItsWay DEF Signalled
  <1>5. QED
    BY <1>3, <1>4

LEMMA ResetStep ==
  ASSUME CapTypes, ResetDue, Next
  PROVE  ResetDue'
  BY ResetByGui, ResetBySignal, ResetByStream, ResetByDecoder DEF Next

-----------------------------------------------------------------------------
(* Nothing is forgotten.                                                     *)

LEMMA PanelStep ==
  ASSUME panel = cap, Next
  PROVE  panel' = cap'
  <1>1. CASE OnStarted
    <2>1. \/ panel' = panel /\ cap' = cap
          \/ panel' = TRUE /\ cap' = TRUE
      BY <1>1 DEF OnStarted
    <2>2. QED
      BY <2>1
  <1>2. CASE OnStopped
    <2>1. panel' = FALSE /\ cap' = FALSE
      BY <1>2 DEF OnStopped
    <2>2. QED
      BY <2>1
  <1>3. CASE ~OnStarted /\ ~OnStopped
    <2>1. panel' = panel /\ cap' = cap
      BY <1>3 DEF Next, ClickStart, ClickStop, ClickClear, SaveSettings, SwapBegin, SwapFinish,
         RecoveryTimer, LiftGate, GuiHandles, OnResetDone, OnDeviceLost, OnAcked, OnTxStarted,
         OnTxEnded, AudioRuns, AudioStart, AudioStop, RxRuns, RxChunk, RxReset, RxRate, RxGate,
         Chunk, DeviceLoss, TciStall, TxRequest, TxKeying, TxOn, TxOff, TxFailed, TxIdle, TxStep,
         guiVars
    <2>2. QED
      BY <2>1
  <1>4. QED
    BY <1>1, <1>2, <1>3

\* The races that have happened stay on record.
LEMMA RacesGrow ==
  ASSUME Next
  PROVE  races \subseteq races'
  BY DEF Next, ClickStart, ClickStop, ClickClear, SaveSettings, SwapBegin, SwapFinish, RecoveryTimer,
     LiftGate, GuiHandles, OnResetDone, OnStarted, OnStopped, OnDeviceLost, OnAcked, OnTxStarted,
     OnTxEnded, AudioRuns, AudioStart, AudioStop, RxRuns, RxChunk, RxReset, RxRate, RxGate, Chunk,
     DeviceLoss, TciStall, TxRequest, TxKeying, TxOn, TxOff, TxFailed, TxIdle, TxStep, BeginCapture, Race

LEMMA AnswerStep ==
  ASSUME CapTypes, CapTypes', AnswerInv, panel = cap, Next
  PROVE  AnswerInv'
  <1> SUFFICES ASSUME "swap" \notin races' PROVE AnswersDue'
    BY DEF AnswerInv
  <1>1. AnswersDue
    BY RacesGrow DEF AnswerInv
  <1>2. QED
    BY <1>1, CapturingAnswers, SwappingAnswers, HandlingAnswers, StartingAnswers, StoppingAnswers,
       LosingAnswers, DecodingAnswers DEF Next, AudioRuns

LEMMA CaptureStep ==
  ASSUME CaptureInv, [Next]_vars
  PROVE  CaptureInv'
  <1>1. CASE Next
    <2>1. HearInv'
      BY <1>1, HearStep DEF CaptureInv
    <2>2. CapTypes /\ CapTypes'
      BY <2>1 DEF CaptureInv, HearInv
    <2>3. QED
      BY <1>1, <2>1, <2>2, PanelStep, ResetStep, AnswerStep DEF CaptureInv
  <1>2. CASE UNCHANGED vars
    <2>1. HearInv'
      BY <1>2, HearStutter DEF CaptureInv
    <2>2. UNCHANGED <<gui, audioQ, rxQ, btn, panel, cap, armed, recActive, recTimer, discMsg, cur,
                      stream, races>>
      BY <1>2 DEF vars, guiVars, swapVars, audioVars
    <2>3. (panel = cap)' /\ ResetDue'
      BY <2>2 DEF CaptureInv, ResetDue, Signalled, Has
    <2>4. Up' = Up /\ StopUp' = StopUp /\ Starting' = Starting
      BY <2>2 DEF Up, StopUp, Starting
    <2>5. AnswerInv'
      BY <2>2, <2>4 DEF CaptureInv, AnswerInv, AnswersDue, AnswerComing, Signalled
    <2>6. QED
      BY <2>1, <2>3, <2>5 DEF CaptureInv
  <1>3. QED
    BY <1>1, <1>2

LEMMA CaptureInit ==
  ASSUME Init
  PROVE  CaptureInv
  <1>1. /\ gui = <<>> /\ audioQ = <<>> /\ DOMAIN gui = {} /\ DOMAIN audioQ = {}
        /\ ~armed /\ btn /\ ~cap /\ ~recActive /\ ~discMsg
    BY DEF Init
  <1>2. ~Up
    BY CaptureAssumption DEF Init, Up, Workers
  <1>3. InOrder(gui, Up, StopUp, discMsg, cap)
    BY <1>1, <1>2 DEF InOrder
  <1>4. panel = cap
    <2>1. panel = FALSE /\ cap = FALSE
      BY DEF Init
    <2>2. QED
      BY <2>1
  <1>5. QED
    BY <1>1, <1>3, <1>4, HearInit DEF CaptureInv, ResetDue, AnswerInv, AnswersDue

LEMMA CaptureRemembers ==
  ASSUME CaptureInv
  PROVE  NothingForgotten
  <1> SUFFICES ASSUME "swap" \notin races
               PROVE  /\ recActive /\ ~cap => recTimer \/ StartInFlight \/ StopInFlight
                      /\ ~btn => StartInFlight \/ StopInFlight
    BY DEF NothingForgotten
  <1>1. AnswersDue
    BY DEF CaptureInv, AnswerInv
  <1>2. AnswerComing => StartInFlight
    BY DEF CaptureInv, AnswerComing, ResetDue, StartInFlight, Starting, Has
  <1>3. StopUp \/ Signalled("stopped") => StopInFlight
    BY DEF StopUp, Up, StopInFlight
  <1>4. Signalled("started") => StartInFlight
    BY DEF StartInFlight
  <1>5. QED
    BY <1>1, <1>2, <1>3, <1>4 DEF AnswersDue

\* A click on Start or Stop, and an auto-resume attempt, are always answered or
\* about to be, whatever clicks, losses, saved Settings and transmissions come
\* between: the button is not left disabled and the recovery not asleep.
THEOREM NoStartIsForgotten == Spec => []NothingForgotten
  BY CaptureInit, CaptureStep, CaptureRemembers, PTL DEF Spec
==============================================================================
