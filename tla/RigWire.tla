------------------------------ MODULE RigWire ------------------------------
(***************************************************************************)
(* The request/reply rig backends: the serial protocols of                 *)
(* radio/serial_rig.py (a control line, Icom CI-V, Kenwood/Elecraft,       *)
(* Yaesu) and the rigctld client of radio/rigctld.py.                      *)
(*                                                                         *)
(* Every call holds the backend's lock from its first byte to its last, so *)
(* there is one transaction at a time.  What the lock cannot settle is the *)
(* other end: the rig answers late, refuses, says nothing, or speaks       *)
(* unasked, and its answers travel through a buffer that outlives a call.  *)
(* A frame carries, as a ghost, the number of the command it answers.      *)
(*                                                                         *)
(* The rig and the rigctld daemon are external: they take commands in the  *)
(* order they were written, whatever connection carried them.              *)
(***************************************************************************)
EXTENDS Naturals, Sequences

CONSTANTS
    MaxCalls,   \* bound: commands issued
    MaxConns,   \* bound: ports and sockets opened
    MaxUpsets   \* bound: unasked frames, link losses, runaway replies

ASSUME WireAssumption == {MaxCalls, MaxConns, MaxUpsets} \subseteq Nat

VARIABLES
    kind,    \* which backend the settings chose
    conn,    \* the connection in use (0: port or socket closed)
    conns,   \* connections opened so far
    sound,   \* the connection in use still reaches the rig
    up,      \* the cable is in, the daemon runs
    call,    \* the command of the caller inside the backend, or NoCall
    toRig,   \* commands written and not yet taken by the rig
    back,    \* replies on their way
    buf,     \* replies in the input buffer
    keyed,   \* the rig transmits
    issued, upsets, \* counters
    told,    \* what the last set_ptt to return told its caller: "on", "off", "?"
    took,    \* the last command that succeeded on a reply, that reply, and
             \* whether the stream was then read from its known position
    overdue, \* CI-V sets that ended without their own answer
    adrift   \* a runaway reply was met while a command was being retried

wireVars == <<kind, conn, conns, sound, up, call, toRig, back, buf, keyed,
              issued, upsets, told, took, overdue, adrift>>

Kinds   == {"line", "civ", "kenwood", "yaesu", "rigctld"}
Reads   == {"freq", "ptt"}
Sets    == {"key", "unkey", "tune"}
Serial  == kind # "rigctld"
NoCall  == [op |-> "none", id |-> 0, again |-> FALSE]
Frame(is, op, id) == [is |-> is, op |-> op, id |-> id]
NoReply == [op |-> "none", id |-> 0, f |-> Frame("none", "none", 0), sure |-> TRUE]
InUse   == call # NoCall

\* The calls whose command waits for a reply (_command, _send_recv); the others
\* only write theirs (_write_command).  A first Yaesu tune that has yet to learn
\* the width of a frequency is a "freq" and a "tune".
CivWaits     == Reads \cup Sets
KenwoodWaits == Reads
YaesuWaits   == Reads
RigctldWaits == Reads \cup Sets

Answered(op) == \/ kind = "civ"     /\ op \in CivWaits
                \/ kind = "kenwood" /\ op \in KenwoodWaits
                \/ kind = "yaesu"   /\ op \in YaesuWaits
                \/ kind = "rigctld" /\ op \in RigctldWaits

WireInit(kinds) ==
    /\ kind \in kinds
    /\ conn = 0 /\ conns = 0 /\ sound = FALSE /\ up = TRUE /\ call = NoCall
    /\ toRig = <<>> /\ back = <<>> /\ buf = <<>> /\ keyed = FALSE
    /\ issued = 0 /\ upsets = 0 /\ told = "?" /\ took = NoReply
    /\ overdue = {} /\ adrift = FALSE

-----------------------------------------------------------------------------
\* What the end of a command lets its caller believe about PTT.
Told(op, ok) == CASE op = "unkey" /\ ok                -> "off"
                  [] op = "key" /\ ok                  -> "on"
                  [] op \in {"key", "unkey"} /\ ~ok    -> "?"
                  [] OTHER                             -> told

Asking(op) == told' = IF op \in {"key", "unkey"} THEN "?" ELSE told

Done(op, ok) == call' = NoCall /\ told' = Told(op, ok)

\* _close_locked / the end of a serial handle: a socket takes its unread
\* replies with it, a serial line does not.
Drop == /\ conn' = 0 /\ sound' = FALSE /\ adrift' = FALSE /\ buf' = <<>>
        /\ back' = IF Serial THEN back ELSE <<>>

\* open(): both control lines are low before the port opens, the line rig
\* lowers its own again, the CAT backends empty the input buffer.
OpenPort(k) ==
    /\ kind = k /\ ~InUse /\ conn = 0 /\ conns < MaxConns
    /\ up
    /\ conns' = conns + 1 /\ conn' = conns + 1 /\ sound' = TRUE
    /\ buf' = <<>>
    /\ keyed' = (kind # "line" /\ keyed)
    /\ UNCHANGED <<kind, up, call, toRig, back, issued, upsets, told, took,
                   overdue, adrift>>

OpenLine    == OpenPort("line")
OpenCiv     == OpenPort("civ")
OpenKenwood == OpenPort("kenwood")
OpenYaesu   == OpenPort("yaesu")

\* close(): the line rig drops its line first, best effort; the handle is
\* forced shut when closing it fails.
ClosePort(k) ==
    /\ kind = k /\ ~InUse /\ conn # 0
    /\ Drop
    /\ keyed' = (keyed /\ ~(kind = "line" /\ sound))
    /\ UNCHANGED <<kind, conns, up, call, toRig, issued, upsets, told, took, overdue>>

CloseLine    == ClosePort("line")
CloseCiv     == ClosePort("civ")
CloseKenwood == ClosePort("kenwood")
CloseYaesu   == ClosePort("yaesu")
CloseRigctld == ClosePort("rigctld")

\* set_ptt of the line rig.
DriveLine(op) ==
    /\ kind = "line" /\ ~InUse /\ op \in {"key", "unkey"}
    /\ issued < MaxCalls /\ issued' = issued + 1
    /\ keyed' = IF conn # 0 /\ sound THEN op = "key" ELSE keyed
    /\ told' = Told(op, conn # 0 /\ sound)
    /\ UNCHANGED <<kind, conn, conns, sound, up, call, toRig, back, buf, upsets,
                   took, overdue, adrift>>

Written(op, id, s) == Append(toRig, [op |-> op, id |-> id, conn |-> s])

\* A CAT command up to its write: the lock, the flush of the input buffer,
\* the frame.  A set that is not answered returns right after it.
SendSerial(k, op) ==
    /\ kind = k /\ ~InUse
    /\ issued < MaxCalls /\ issued' = issued + 1
    /\ took' = NoReply
    /\ IF conn = 0 \/ ~sound
       THEN told' = Told(op, FALSE) /\ UNCHANGED <<call, toRig, buf>>
       ELSE /\ buf' = <<>>
            /\ toRig' = Written(op, issued', conn)
            /\ IF Answered(op)
               THEN /\ call' = [op |-> op, id |-> issued', again |-> FALSE]
                    /\ Asking(op)
               ELSE told' = Told(op, TRUE) /\ UNCHANGED call
    /\ UNCHANGED <<kind, conn, conns, sound, up, back, keyed, upsets, overdue, adrift>>

SendCiv(op)     == SendSerial("civ", op)
SendKenwood(op) == SendSerial("kenwood", op)
SendYaesu(op)   == SendSerial("yaesu", op)

\* _send_recv up to the write: connect when there is no socket.  A socket the
\* daemon has dropped takes the bytes; the failure shows on the read.
SendRigctld(op) ==
    /\ kind = "rigctld" /\ ~InUse
    /\ issued < MaxCalls /\ issued' = issued + 1
    /\ took' = NoReply
    /\ IF conn = 0 /\ ~up
       THEN told' = Told(op, FALSE) /\ UNCHANGED <<conn, conns, sound, call, toRig>>
       ELSE /\ conn = 0 => conns < MaxConns
            /\ conns' = IF conn = 0 THEN conns + 1 ELSE conns
            /\ conn'  = IF conn = 0 THEN conns' ELSE conn
            /\ sound' = (conn = 0 \/ sound)
            /\ toRig' = IF sound' THEN Written(op, issued', conn') ELSE toRig
            /\ call'  = [op |-> op, id |-> issued', again |-> FALSE]
            /\ Asking(op)
    /\ UNCHANGED <<kind, up, back, buf, keyed, upsets, overdue, adrift>>
-----------------------------------------------------------------------------
\* CI-V: a read's reply echoes the command, a set's is the bare OK.
CivReply(f)     == IF call.op \in Reads THEN f.is = "data" /\ f.op = call.op
                                        ELSE f.is = "ok"
\* Kenwood, Yaesu: the reply starts with the mnemonic of the command.
KenwoodReply(f) == f.is = "data" /\ f.op = call.op
YaesuReply(f)   == f.is = "data" /\ f.op = call.op
\* rigctld: the next RPRT line on the socket.
RprtReply(f)    == f.is \in {"data", "ok"}

\* Which frame ends the wait.
Answers(f) ==
    CASE kind = "civ"     -> CivReply(f)
      [] kind = "kenwood" -> KenwoodReply(f)
      [] kind = "yaesu"   -> YaesuReply(f)
      [] OTHER            -> RprtReply(f)

\* A CI-V set that ends without its own answer leaves that answer on the way.
GaveUp == IF kind = "civ" /\ call.op \in Sets THEN overdue \cup {call.id} ELSE overdue

\* One frame of the buffer is read.  The echo of our own command, a knob-turn
\* broadcast and a late reply to another command are skipped; a refusal raises.
\* (An acknowledgement that may be an overdue one, or is read from a stream
\* adrift, proves nothing about PTT.)
Hear ==
    /\ InUse /\ buf # <<>> /\ Head(buf).is # "runaway"
    /\ buf' = Tail(buf)
    /\ LET f == Head(buf) IN
       /\ CASE f.is = "refused" -> Done(call.op, FALSE) /\ UNCHANGED took
            [] Answers(f)       -> /\ Done(call.op, f.id \notin overdue /\ ~adrift)
                                   /\ took' = [op |-> call.op, id |-> call.id, f |-> f,
                                               sure |-> ~adrift]
            [] OTHER            -> UNCHANGED <<call, told, took>>
       /\ overdue' = IF call' = NoCall /\ f.id # call.id THEN GaveUp ELSE overdue
    /\ UNCHANGED <<kind, conn, conns, sound, up, toRig, back, keyed, issued,
                   upsets, adrift>>

\* A reply beyond the line and byte caps: the stream position is lost, so the
\* socket is closed -- unless the command was on its retry, where the error
\* passes by the handler that closes.
Runaway ==
    /\ InUse /\ buf # <<>> /\ Head(buf).is = "runaway"
    /\ IF call.again
       THEN buf' = Tail(buf) /\ adrift' = TRUE /\ UNCHANGED <<conn, sound, back>>
       ELSE Drop
    /\ Done(call.op, FALSE)
    /\ UNCHANGED <<kind, conns, up, toRig, keyed, issued, upsets, took, overdue>>

\* fault: a timeout leaves the socket as it is.
DeadlineKeeps ==
    /\ InUse /\ Done(call.op, FALSE) /\ overdue' = GaveUp
    /\ UNCHANGED <<kind, conn, conns, sound, up, toRig, back, buf, keyed, issued,
                   upsets, took, adrift>>

\* The deadline passes with no reply.  The late reply may still come: rigctld
\* drops the socket it would come on, a serial port stays open.
Deadline ==
    /\ InUse /\ Done(call.op, FALSE) /\ overdue' = GaveUp
    /\ IF Serial THEN UNCHANGED <<conn, sound, adrift, buf, back>> ELSE Drop
    /\ UNCHANGED <<kind, conns, up, toRig, keyed, issued, upsets, took>>

\* The link fails under a command.  Serial: the error is translated and
\* raised.  rigctld: once per command, close, reconnect and send it again.
Broken ==
    /\ InUse /\ ~sound
    /\ IF Serial \/ call.again \/ ~up \/ conns = MaxConns
       THEN /\ Done(call.op, FALSE) /\ overdue' = GaveUp
            /\ IF Serial THEN UNCHANGED <<conn, sound, adrift, buf, back>> ELSE Drop
            /\ UNCHANGED <<conns, toRig>>
       ELSE /\ conns' = conns + 1 /\ conn' = conns + 1 /\ sound' = TRUE
            /\ buf' = <<>> /\ back' = <<>> /\ adrift' = FALSE
            /\ toRig' = Written(call.op, call.id, conns + 1)
            /\ call' = [call EXCEPT !.again = TRUE]
            /\ UNCHANGED <<told, overdue>>
    /\ UNCHANGED <<kind, up, keyed, issued, upsets, took>>

-----------------------------------------------------------------------------
(* The other end (external). *)

\* The rig takes the next command and acts on it, refuses it, or misses it; a
\* reply may get lost on a serial line, and goes nowhere once its socket is
\* closed.  A CI-V bus echoes the command first.
RigTakes(what) ==
    /\ up /\ toRig # <<>>
    /\ what \in {"do", "refuse"} \cup (IF Serial THEN {"miss", "mute"} ELSE {})
    /\ LET c     == Head(toRig)
           reply == CASE what = "refuse" -> <<Frame("refused", c.op, c.id)>>
                      [] what = "do" /\ c.op \in Reads -> <<Frame("data", c.op, c.id)>>
                      [] what = "do" /\ c.op \in Sets /\ Answered(c.op) -> <<Frame("ok", c.op, c.id)>>
                      [] OTHER -> <<>>
       IN  /\ toRig' = Tail(toRig)
           /\ keyed' = IF what \in {"do", "mute"} /\ c.op \in {"key", "unkey"}
                       THEN c.op = "key" ELSE keyed
           /\ back' = IF Serial \/ (c.conn = conn /\ sound) THEN back \o reply ELSE back
    /\ UNCHANGED <<kind, conn, conns, sound, up, call, buf, issued, upsets, told,
                   took, overdue, adrift>>

Deliver ==
    /\ back # <<>>
    /\ back' = Tail(back) /\ buf' = Append(buf, Head(back))
    /\ UNCHANGED <<kind, conn, conns, sound, up, call, toRig, keyed, issued,
                   upsets, told, took, overdue, adrift>>

\* The operator turns a knob: CI-V broadcasts it to no one in particular,
\* Kenwood and Yaesu report it as a frequency.  Or the daemon babbles.
Unasked ==
    /\ kind # "line" /\ up /\ upsets < MaxUpsets /\ upsets' = upsets + 1
    /\ kind = "rigctld" => toRig # <<>> /\ Head(toRig).conn = conn /\ sound
    /\ back' = back \o CASE kind = "civ"     -> <<Frame("knob", "freq", 0)>>
                         [] kind = "rigctld" -> <<Frame("runaway", "none", 0), Frame("ok", "none", 0)>>
                         [] OTHER            -> <<Frame("data", "freq", 0)>>
    /\ toRig' = IF kind = "rigctld" THEN Tail(toRig) ELSE toRig
    /\ UNCHANGED <<kind, conn, conns, sound, up, call, buf, keyed, issued, told,
                   took, overdue, adrift>>

\* The cable is pulled, the daemon dies or only drops its clients.
LinkLost(stays) ==
    /\ up /\ upsets < MaxUpsets /\ upsets' = upsets + 1
    /\ up' = stays /\ sound' = FALSE
    /\ toRig' = <<>> /\ back' = <<>> /\ buf' = <<>>
    /\ keyed' = (keyed /\ kind # "line")
    /\ UNCHANGED <<kind, conn, conns, call, issued, told, took, overdue, adrift>>

LinkBack ==
    /\ ~up /\ up' = TRUE
    /\ UNCHANGED <<kind, conn, conns, sound, call, toRig, back, buf, keyed, issued,
                   upsets, told, took, overdue, adrift>>

WireNext ==
    \/ OpenLine \/ OpenCiv \/ OpenKenwood \/ OpenYaesu
    \/ CloseLine \/ CloseCiv \/ CloseKenwood \/ CloseYaesu \/ CloseRigctld
    \/ \E op \in Reads \cup Sets : \/ SendCiv(op) \/ SendKenwood(op) \/ SendYaesu(op)
                                   \/ SendRigctld(op) \/ DriveLine(op)
    \/ Hear \/ Runaway \/ Deadline \/ Broken
    \/ \E what \in {"do", "refuse", "miss", "mute"} : RigTakes(what)
    \/ Deliver \/ Unasked \/ LinkBack \/ \E stays \in BOOLEAN : LinkLost(stays)

-----------------------------------------------------------------------------
(* A caller told that the transmitter is off can rely on it: the rig acted  *)
(* on an unkey and nothing on the wire keys it again.  (A Kenwood or Yaesu   *)
(* set is not answered, so nobody is told; on a rigctld stream adrift since *)
(* a runaway reply nothing can be relied on until the socket is replaced.)   *)
(* Nothing is promised of a CI-V set that an overdue OK of an earlier set    *)
(* answers: the code reports it as done, here told is "?".                   *)
UnkeyToldIsUnkeyed ==
    kind \in {"line", "civ", "rigctld"} /\ told = "off" =>
        ~keyed /\ \A i \in DOMAIN toRig : toRig[i].op # "key"

(* A reply is never taken for the answer to another command: not a data     *)
(* frame of one read for another, not a stale RPRT line for the one that     *)
(* answers this command, not a late frame for the acknowledgement of a set   *)
(* (but for the bare OK of an earlier CI-V set that ended without it: an      *)
(* acknowledgement carries no command; and but for a rigctld stream adrift). *)
AnswersOwnCommand ==
    LET own == took.f.id = took.id IN
    took # NoReply /\ took.sure =>
        /\ took.op \in Reads => took.f.op = took.op
        /\ kind = "rigctld" => own
        /\ kind = "civ" /\ took.op \in Sets => own \/ took.f.id \in overdue

(* What a caller is told is what the rig said to his own command, but for    *)
(* the CI-V set acknowledged by an overdue OK (serial_rig.py:463-464).       *)
AnswersTrue == UnkeyToldIsUnkeyed /\ AnswersOwnCommand
=============================================================================
