---------------------------- MODULE LogbookProofs ----------------------------
(***************************************************************************)
(* What the program keeps for the operator: the log of contacts (Logbook,  *)
(* QsoCapture), for any number of transmissions, receptions, rows and      *)
(* operations, any settings, and any ADIF files of other programs; and the *)
(* settings and templates (UserFiles, Disk), for any starters and v0.2     *)
(* overlays and any number of changes, kills and power losses.             *)
(***************************************************************************)
EXTENDS QsoCapture, UserFiles, FiniteSetTheorems, SequenceTheorems, WellFoundedInduction,
        TLAPS

-----------------------------------------------------------------------------
(* The way from a completion to the store *)

Kinds == {"prepared", "sent", "aborted", "audio", "image", "offline"}
Signals == [kind : Kinds, of : Images]
Tasks == [kind : {"tx", "rx", "form"}, pic : Images, path : {0} \cup Images,
          audio : {0} \cup Images, call : BOOLEAN,
          step : {"save", "warned", "draft", "insert"}, then : {"draft", "insert"}]
Made == 1 .. made

CapTypes ==
    /\ engaged \in BOOLEAN /\ made \in 0 .. Cardinality(Images) /\ air \in {0} \cup Made
    /\ wire \in Seq(Signals) /\ \A n \in DOMAIN wire : wire[n].of \in Made
    /\ calls \in Seq(Tasks) /\ \A n \in DOMAIN calls : calls[n].pic \in Made
    /\ stash \in {0} \cup Made /\ strip \subseteq Made /\ logged \subseteq Made /\ due \subseteq Made
    /\ dialog = NoForm \/ dialog \in Tasks
    /\ dialog # NoForm => dialog.pic \in Made /\ dialog.then = "insert"
    /\ key \in [Images -> 0 .. 2] /\ \A i \in Images : i > made => key[i] = 0

\* Only the slot on top moves.  What a slot has done so far, and what it holds.
SlotOk(t) ==
    /\ t.step = "draft" => t.then = "draft"
    /\ t.step = "insert" => t.then = "insert"
    /\ t.kind = "form" => t.then = "insert"
    /\ t.step \in {"save", "warned"} => t.path = 0
    /\ t.audio \in {0, t.pic}
    /\ t.kind # "tx" => t.path \in {0, t.pic}
    /\ t.kind = "tx" => /\ t.audio = 0
                        /\ t.path # 0 \/ t.step = "save" => stash # 0
                        /\ t.path \in {0, stash}
                        /\ t.then = "insert" /\ (t.step = "save" \/ t.path # 0) => t.pic = stash
Slots ==
    /\ \A n \in DOMAIN calls : SlotOk(calls[n]) /\ (n # 1 => calls[n].step = "warned")
    /\ \A n \in DOMAIN calls : calls[n].kind = "tx" /\ calls[n].then = "insert" =>
                               opt.autoLog \/ dialog # NoForm
    /\ dialog # NoForm => dialog.path \in {0, dialog.pic} /\ dialog.audio \in {0, dialog.pic}

\* An image is held in one place: the stash, a slot of a reception or of the
\* dialog, the dialog.  A logged one is held nowhere, nor is one that the slot
\* of a transmission is about to log, the stash apart.
Holds(n) == calls[n].kind # "tx"
Held(p) == \/ p = stash
           \/ \E n \in DOMAIN calls : Holds(n) /\ calls[n].pic = p
           \/ dialog # NoForm /\ dialog.pic = p
HeldOnce ==
    /\ \A n, m \in DOMAIN calls : Holds(n) /\ Holds(m) /\ n # m => calls[n].pic # calls[m].pic
    /\ \A n \in DOMAIN calls : Holds(n) => /\ calls[n].pic # stash
                                           /\ dialog # NoForm => calls[n].pic # dialog.pic
    /\ dialog # NoForm => dialog.pic # stash
    /\ \A n \in DOMAIN calls : calls[n].kind = "tx" /\ calls[n].then = "insert" =>
         /\ \A m \in DOMAIN calls : Holds(m) => calls[m].pic # calls[n].pic
         /\ dialog # NoForm => dialog.pic # calls[n].pic
    /\ \A p \in logged : ~Held(p)

\* The signals that bring an image: each brings a new one.
Brings(s) == s.kind \in {"prepared", "image", "offline"}
Arrivals ==
    /\ \A k, l \in DOMAIN wire : Brings(wire[k]) /\ Brings(wire[l]) /\ k # l => wire[k].of # wire[l].of
    /\ \A k \in DOMAIN wire : Brings(wire[k]) =>
         /\ ~Held(wire[k].of) /\ wire[k].of \notin strip \cup logged
         /\ \A n \in DOMAIN calls : calls[n].pic # wire[k].of
    /\ \A k \in DOMAIN wire : wire[k].kind \in {"image", "offline"} => wire[k].of \notin due

\* A transmission and a reception are never the same.
Sides ==
    /\ \A k \in DOMAIN wire : wire[k].kind \in {"prepared", "sent", "aborted"} <=> key[wire[k].of] = 0
    /\ air # 0 => key[air] = 0
    /\ stash # 0 => key[stash] = 0
    /\ \A i \in strip : key[i] # 0
    /\ \A n \in DOMAIN calls : /\ calls[n].kind = "tx" => key[calls[n].pic] = 0
                               /\ calls[n].kind = "rx" => key[calls[n].pic] # 0
                               /\ calls[n].kind = "rx" /\ calls[n].then = "draft" =>
                                    calls[n].pic \notin due

\* One transmission has signals under way.  Between its first and its last
\* signal the stash is its image, or it has been clobbered.
Prepared == {k \in DOMAIN wire : wire[k].kind = "prepared"}
Ended    == {k \in DOMAIN wire : wire[k].kind \in {"sent", "aborted"}}
Under(c) == /\ Prepared = {}
            /\ c = air \/ \E k \in Ended : wire[k].of = c
OneAtATime ==
    /\ \A k, l \in Prepared : k = l
    /\ \A k, l \in Ended : k = l
    /\ \A k \in Prepared : \A l \in Ended : k < l /\ wire[k].of = wire[l].of
    /\ air # 0 => Ended = {} /\ \A k \in Prepared : wire[k].of = air
Turns ==
    /\ \A c \in Images : Under(c) =>
         /\ stash = c \/ c \in clobbered
         /\ \A n \in DOMAIN calls : calls[n].kind = "tx" =>
              calls[n].pic \in clobbered /\ c \in clobbered /\ stash \in {0} \cup clobbered
    /\ \A n, m \in DOMAIN calls : n < m /\ calls[n].kind = "tx" /\ calls[m].kind = "tx" =>
         calls[m].pic \in clobbered
    /\ \A n \in DOMAIN calls : calls[n].kind = "tx" /\ calls[n].then = "draft" =>
         calls[n].pic \in clobbered \/ stash = calls[n].pic

\* A recording is taken by the image it came with.
SoundInv ==
    /\ \A n \in DOMAIN wire : wire[n].kind = "audio" =>
         n + 1 \in DOMAIN wire /\ wire[n + 1] = Signal("image", wire[n].of)
    /\ sound.of \in {0} \cup Images
    /\ sound.of = 0 => sound.key = 0
    /\ sound.of # 0 => wire # <<>> /\ wire[1] = Signal("image", sound.of)

WayInv == /\ CapTypes /\ Slots /\ HeldOnce /\ Arrivals /\ Sides /\ OneAtATime /\ Turns
          /\ SoundInv /\ ContactsKept

-----------------------------------------------------------------------------
(* Sequences *)

LEMMA Posted ==
  ASSUME NEW S, NEW s \in Seq(S), NEW x \in Seq(S)
  PROVE  /\ s \o x \in Seq(S)
         /\ Len(s) \in Nat /\ DOMAIN s = 1 .. Len(s) /\ DOMAIN x = 1 .. Len(x)
         /\ Len(s \o x) = Len(s) + Len(x)
         /\ DOMAIN (s \o x) = 1 .. Len(s) + Len(x)
         /\ \A k \in DOMAIN s : k \in DOMAIN (s \o x) /\ (s \o x)[k] = s[k]
         /\ \A k \in DOMAIN x : Len(s) + k \in DOMAIN (s \o x) /\ (s \o x)[Len(s) + k] = x[k]
  OBVIOUS

LEMMA PostedOne ==
  ASSUME NEW S, NEW s \in Seq(S), NEW a \in S
  PROVE  /\ s \o <<a>> \in Seq(S)
         /\ Len(s) \in Nat /\ DOMAIN s = 1 .. Len(s) /\ DOMAIN (s \o <<a>>) = 1 .. Len(s) + 1
         /\ s \o <<a>> # <<>>
         /\ \A k \in DOMAIN s : k \in DOMAIN (s \o <<a>>) /\ (s \o <<a>>)[k] = s[k]
         /\ (s \o <<a>>)[Len(s) + 1] = a
         /\ \A k \in DOMAIN (s \o <<a>>) : k \in DOMAIN s \/ k = Len(s) + 1
  OBVIOUS

LEMMA Taken ==
  ASSUME NEW S, NEW s \in Seq(S), s # <<>>
  PROVE  /\ Tail(s) \in Seq(S) /\ 1 \in DOMAIN s /\ Head(s) = s[1] /\ s[1] \in S
         /\ \A k \in DOMAIN Tail(s) : k + 1 \in DOMAIN s /\ k + 1 # 1 /\ Tail(s)[k] = s[k + 1]
         /\ \A k \in DOMAIN s : k = 1 \/ (k - 1 \in DOMAIN Tail(s) /\ Tail(s)[k - 1] = s[k])
         /\ DOMAIN Tail(s) \subseteq Nat /\ DOMAIN s \subseteq Nat
  OBVIOUS

LEMMA Stacked ==
  ASSUME NEW S, NEW s \in Seq(S), NEW a \in S
  PROVE  /\ <<a>> \o s \in Seq(S) /\ 1 \in DOMAIN (<<a>> \o s) /\ (<<a>> \o s)[1] = a
         /\ \A k \in DOMAIN (<<a>> \o s) :
              k = 1 \/ (k - 1 \in DOMAIN s /\ (<<a>> \o s)[k] = s[k - 1])
         /\ \A k \in DOMAIN s : k + 1 \in DOMAIN (<<a>> \o s) /\ (<<a>> \o s)[k + 1] = s[k]
         /\ DOMAIN (<<a>> \o s) \subseteq Nat /\ DOMAIN s \subseteq Nat
  OBVIOUS

LEMMA TopChanged ==
  ASSUME NEW S, NEW s \in Seq(S), s # <<>>, NEW a \in S
  PROVE  /\ [s EXCEPT ![1] = a] \in Seq(S) /\ DOMAIN [s EXCEPT ![1] = a] = DOMAIN s
         /\ [s EXCEPT ![1] = a][1] = a /\ 1 \in DOMAIN s
         /\ \A k \in DOMAIN s : k # 1 => [s EXCEPT ![1] = a][k] = s[k]
  OBVIOUS

-----------------------------------------------------------------------------
(* Signals are posted *)

LEMMA SignalIs ==
  ASSUME NEW kind \in Kinds, NEW i \in Images
  PROVE  /\ Signal(kind, i) \in Signals
         /\ Signal(kind, i).kind = kind /\ Signal(kind, i).of = i
  BY DEF Signal, Signals

LEMMA NextImage ==
  ASSUME CapTypes, made < Cardinality(Images)
  PROVE  /\ made \in Nat /\ made + 1 \in Nat /\ made + 1 \in Images
         /\ made + 1 \in 0 .. Cardinality(Images) /\ made + 1 # 0
         /\ made + 1 \notin Made /\ key[made + 1] = 0
  <1>1. Cardinality(Images) \in Nat /\ Images = 1 .. Cardinality(Images)
    BY LogAssumption, FS_CardinalityType
  <1>2. made \in Nat /\ made + 1 \in Images
    BY <1>1 DEF CapTypes
  <1>3. QED
    BY <1>1, <1>2 DEF CapTypes, Made

LEMMA TransmitWay == ASSUME WayInv, Transmit PROVE WayInv'
  <1> DEFINE i == made + 1
             sig == Signal("prepared", i)
             last == Len(wire) + 1
  <1>1. /\ CapTypes /\ air = 0 /\ air' = i /\ made' = i /\ wire' = wire \o <<sig>> /\ TxSignals = {}
        /\ UNCHANGED <<opt, engaged, calls, stash, sound, dialog, strip, key, due, waived,
                       clobbered, logged>>
    BY DEF Transmit, WayInv, Post, capHistory
  <1>2. /\ made \in Nat /\ i \in Nat /\ i \in Images /\ i \in 0 .. Cardinality(Images) /\ i # 0
        /\ i \notin Made /\ key[i] = 0
    BY <1>1, NextImage DEF Transmit
  <1>3. sig \in Signals /\ sig.kind = "prepared" /\ sig.of = i
    BY <1>2, SignalIs DEF Kinds
  <1>4. /\ wire' \in Seq(Signals) /\ wire' # <<>> /\ Len(wire) \in Nat /\ last \notin DOMAIN wire
        /\ last \in DOMAIN wire' /\ wire'[last] = sig
        /\ \A k \in DOMAIN wire : k \in DOMAIN wire' /\ wire'[k] = wire[k]
        /\ \A k \in DOMAIN wire' : k \in DOMAIN wire \/ k = last
        /\ \A k \in DOMAIN wire : k \in Nat /\ k < last
    BY <1>1, <1>3, PostedOne DEF CapTypes
  <1> HIDE DEF sig, last
  <1>5. Made \subseteq Made' /\ i \in Made'
    BY <1>1, <1>2 DEF Made
  <1>6. CapTypes'
    <2>1. \A n \in DOMAIN wire' : wire'[n].of \in Made'
      BY <1>1, <1>3, <1>4, <1>5 DEF CapTypes
    <2>2. \A j \in Images : j > made' => key'[j] = 0
      BY <1>1, <1>2, LogAssumption, FS_CardinalityType DEF CapTypes
    <2>3. QED
      BY <1>1, <1>2, <1>4, <1>5, <2>1, <2>2 DEF CapTypes
  <1>7. Slots' /\ HeldOnce' /\ ContactsKept'
    BY <1>1 DEF WayInv, Slots, SlotOk, HeldOnce, Held, Holds, ContactsKept, Kept, InHand, Waiting
  <1>8. /\ ~Held(i) /\ i \notin strip \cup logged \cup due
        /\ \A k \in DOMAIN wire : wire[k].of # i
        /\ \A n \in DOMAIN calls : calls[n].pic # i
    BY <1>1, <1>2 DEF CapTypes, Held
  <1>9. Arrivals'
    <2>1. \A p : Held(p)' = Held(p)
      BY <1>1 DEF Held, Holds
    <2>2. \A k, l \in DOMAIN wire' : Brings(wire'[k]) /\ Brings(wire'[l]) /\ k # l =>
                                        wire'[k].of # wire'[l].of
      BY <1>3, <1>4, <1>8 DEF WayInv, Arrivals
    <2>3. \A k \in DOMAIN wire' : Brings(wire'[k]) =>
            /\ ~Held(wire'[k].of) /\ wire'[k].of \notin strip \cup logged
            /\ \A n \in DOMAIN calls : calls[n].pic # wire'[k].of
      <3>1. TAKE k \in DOMAIN wire'
      <3>2. HAVE Brings(wire'[k])
      <3>3. CASE k \in DOMAIN wire
        BY <1>4, <3>2, <3>3 DEF WayInv, Arrivals
      <3>4. CASE k = last
        <4>1. wire'[k].of = i
          BY <1>3, <1>4, <3>4
        <4>2. QED
          BY <1>8, <4>1
      <3>5. QED
        BY <1>4, <3>3, <3>4
    <2>4. \A k \in DOMAIN wire' : wire'[k].kind \in {"image", "offline"} => wire'[k].of \notin due
      BY <1>3, <1>4 DEF WayInv, Arrivals
    <2>5. QED
      BY <1>1, <2>1, <2>2, <2>3, <2>4 DEF Arrivals, Brings
  <1>10. Sides'
    BY <1>1, <1>2, <1>3, <1>4 DEF WayInv, Sides
  <1>11. Prepared = {} /\ Ended = {} /\ Prepared' = {last} /\ Ended' = {}
    BY <1>1, <1>3, <1>4 DEF TxSignals, Prepared, Ended
  <1>12. OneAtATime'
    BY <1>1, <1>3, <1>4, <1>11 DEF OneAtATime
  <1>13. Turns'
    BY <1>1, <1>11 DEF WayInv, Turns, Under
  <1>14. SoundInv'
    <2>1. \A n \in DOMAIN wire' : wire'[n].kind = "audio" =>
            n + 1 \in DOMAIN wire' /\ wire'[n + 1] = Signal("image", wire'[n].of)
      BY <1>1, <1>3, <1>4 DEF WayInv, SoundInv
    <2>2. wire # <<>> => wire' # <<>> /\ wire'[1] = wire[1]
      BY <1>1, <1>4, Taken DEF CapTypes
    <2>3. QED
      BY <1>1, <2>1, <2>2 DEF WayInv, SoundInv
  <1>15. QED
    BY <1>6, <1>7, <1>9, <1>10, <1>12, <1>13, <1>14 DEF WayInv

LEMMA EndTransmitWay == ASSUME WayInv, EndTransmit PROVE WayInv'
  <1> PICK kind \in {"sent", "aborted"} : wire' = wire \o <<Signal(kind, air)>>
    BY DEF EndTransmit, Post
  <1> DEFINE sig == Signal(kind, air)
             last == Len(wire) + 1
  <1>1. /\ CapTypes /\ air # 0 /\ air' = 0 /\ wire' = wire \o <<sig>>
        /\ UNCHANGED <<opt, engaged, made, calls, stash, sound, dialog, strip, key, due, waived,
                       clobbered, logged>>
    BY DEF EndTransmit, WayInv
  <1>2. air \in Made /\ air \in Images
    <2>1. made \in 0 .. Cardinality(Images) /\ Images = 1 .. Cardinality(Images)
          /\ Cardinality(Images) \in Nat
      BY <1>1, LogAssumption, FS_CardinalityType DEF CapTypes
    <2>2. QED
      BY <1>1, <2>1 DEF CapTypes, Made
  <1>3. sig \in Signals /\ sig.kind = kind /\ sig.of = air
    BY <1>2, SignalIs DEF Kinds
  <1>4. /\ wire' \in Seq(Signals) /\ Len(wire) \in Nat /\ last \notin DOMAIN wire
        /\ last \in DOMAIN wire' /\ wire'[last] = sig
        /\ \A k \in DOMAIN wire : k \in DOMAIN wire' /\ wire'[k] = wire[k]
        /\ \A k \in DOMAIN wire' : k \in DOMAIN wire \/ k = last
        /\ \A k \in DOMAIN wire : k \in Nat /\ k < last
    BY <1>1, <1>3, PostedOne DEF CapTypes
  <1> HIDE DEF sig, last
  <1>5. CapTypes'
    BY <1>1, <1>2, <1>3, <1>4 DEF CapTypes, Made
  <1>6. Slots' /\ HeldOnce' /\ ContactsKept'
    BY <1>1 DEF WayInv, Slots, SlotOk, HeldOnce, Held, Holds, ContactsKept, Kept, InHand, Waiting
  <1>7. Arrivals'
    BY <1>1, <1>3, <1>4 DEF WayInv, Arrivals, Brings, Held, Holds
  <1>8. Sides'
    BY <1>1, <1>2, <1>3, <1>4 DEF WayInv, Sides
  <1>9. Prepared' = Prepared /\ Ended' = {last} /\ Ended = {}
    BY <1>1, <1>3, <1>4 DEF Prepared, Ended, WayInv, OneAtATime
  <1>10. OneAtATime'
    <2>1. \A k \in Prepared : k \in DOMAIN wire /\ wire[k].of = air
      BY <1>1 DEF WayInv, OneAtATime, Prepared
    <2>2. QED
      BY <1>1, <1>3, <1>4, <1>9, <2>1 DEF WayInv, OneAtATime
  <1>11. Turns'
    <2>1. \A c \in Images : c # 0
      BY LogAssumption, FS_CardinalityType
    <2>2. \A c \in Images : Under(c)' => Under(c)
      BY <1>1, <1>3, <1>4, <1>9, <2>1 DEF Under
    <2>3. QED
      BY <1>1, <2>2 DEF WayInv, Turns
  <1>12. SoundInv'
    <2>1. \A n \in DOMAIN wire' : wire'[n].kind = "audio" =>
            n + 1 \in DOMAIN wire' /\ wire'[n + 1] = Signal("image", wire'[n].of)
      BY <1>1, <1>3, <1>4 DEF WayInv, SoundInv
    <2>2. wire # <<>> => wire' # <<>> /\ wire'[1] = wire[1]
      BY <1>1, <1>4, Taken DEF CapTypes
    <2>3. QED
      BY <1>1, <2>1, <2>2 DEF WayInv, SoundInv
  <1>13. QED
    BY <1>5, <1>6, <1>7, <1>8, <1>10, <1>11, <1>12 DEF WayInv

\* A reception brings its image last, and its recording right before it.
LEMMA ReceiveWay == ASSUME WayInv, Receive PROVE WayInv'
  <1> DEFINE i == made + 1
  <1>1. /\ CapTypes /\ made < Cardinality(Images) /\ made' = i
        /\ UNCHANGED <<opt, engaged, air, calls, stash, sound, dialog, strip, due, waived,
                       clobbered, logged>>
    BY DEF Receive, WayInv
  <1>2. /\ made \in Nat /\ i \in Nat /\ i \in Images /\ i \in 0 .. Cardinality(Images) /\ i # 0
        /\ i \notin Made /\ key[i] = 0
    BY <1>1, NextImage
  <1>3. PICK signals \in {<<"audio", "image">>, <<"image">>, <<"offline">>} :
          /\ wire' = wire \o [n \in DOMAIN signals |-> Signal(signals[n], i)]
          /\ \E k \in 1 .. 2 : key' = [key EXCEPT ![i] = k]
    <2>1. /\ made' = made + 1
          /\ \E signals \in {<<"audio", "image">>, <<"image">>, <<"offline">>} :
             \E k \in IF signals = <<"offline">> THEN 1 .. 2 ELSE {1} :
               /\ wire' = wire \o [n \in DOMAIN signals |-> Signal(signals[n], made')]
               /\ key' = [key EXCEPT ![made'] = k]
      BY DEF Receive, Post
    <2>2. \A signals : \A k \in IF signals = <<"offline">> THEN 1 .. 2 ELSE {1} : k \in 1 .. 2
      OBVIOUS
    <2>3. QED
      BY <2>1, <2>2
  <1> DEFINE new == [n \in DOMAIN signals |-> Signal(signals[n], i)]
             last == Len(wire) + Len(new)
  <1>4. /\ new \in Seq(Signals) /\ Len(new) \in 1 .. 2 /\ DOMAIN new = 1 .. Len(new)
        /\ \A n \in 1 .. Len(new) : new[n].of = i
        /\ new[Len(new)].kind \in {"image", "offline"}
        /\ Len(new) = 2 => new[1].kind = "audio" /\ new[2] = Signal("image", i)
    <2>1. /\ Signal("audio", i) \in Signals /\ Signal("image", i) \in Signals
          /\ Signal("offline", i) \in Signals
          /\ Signal("audio", i).of = i /\ Signal("image", i).of = i /\ Signal("offline", i).of = i
          /\ Signal("audio", i).kind = "audio" /\ Signal("image", i).kind = "image"
          /\ Signal("offline", i).kind = "offline"
      BY <1>2, SignalIs DEF Kinds
    <2>2. CASE signals = <<"audio", "image">>
      <3>1. new = <<Signal("audio", i), Signal("image", i)>>
        BY <2>2
      <3> HIDE DEF new
      <3>2. QED
        BY <2>1, <3>1
    <2>3. CASE signals = <<"image">>
      <3>1. new = <<Signal("image", i)>>
        BY <2>3
      <3> HIDE DEF new
      <3>2. QED
        BY <2>1, <3>1
    <2>4. CASE signals = <<"offline">>
      <3>1. new = <<Signal("offline", i)>>
        BY <2>4
      <3> HIDE DEF new
      <3>2. QED
        BY <2>1, <3>1
    <2>5. QED
      BY <2>2, <2>3, <2>4
  <1>5. wire' = wire \o new
    BY <1>3
  <1> HIDE DEF new
  <1>6. /\ wire' \in Seq(Signals) /\ Len(wire) \in Nat /\ last \in DOMAIN wire'
        /\ DOMAIN wire = 1 .. Len(wire) /\ DOMAIN wire' = 1 .. last
        /\ \A k \in DOMAIN wire : k \in DOMAIN wire' /\ wire'[k] = wire[k]
        /\ \A k \in DOMAIN new : Len(wire) + k \in DOMAIN wire' /\ wire'[Len(wire) + k] = new[k]
    <2>1. wire \in Seq(Signals) /\ new \in Seq(Signals) /\ Len(new) \in 1 .. 2
      BY <1>1, <1>4 DEF CapTypes
    <2>2. /\ wire \o new \in Seq(Signals) /\ Len(wire) \in Nat
          /\ DOMAIN wire = 1 .. Len(wire) /\ DOMAIN (wire \o new) = 1 .. last
          /\ \A k \in DOMAIN wire : k \in DOMAIN (wire \o new) /\ (wire \o new)[k] = wire[k]
          /\ \A k \in DOMAIN new : /\ Len(wire) + k \in DOMAIN (wire \o new)
                                   /\ (wire \o new)[Len(wire) + k] = new[k]
      BY <2>1, Posted
    <2>3. last \in DOMAIN (wire \o new)
      BY <2>1, <2>2
    <2>4. QED
      BY <1>5, <2>2, <2>3
  <1>7. /\ wire'[last].of = i /\ wire'[last].kind \in {"image", "offline"}
        /\ last \notin DOMAIN wire
        /\ \A k \in DOMAIN wire' :
             \/ k \in DOMAIN wire
             \/ k = last
             \/ /\ k + 1 = last /\ wire'[k].kind = "audio" /\ wire'[k].of = i
                /\ wire'[last] = Signal("image", i)
    <2>1. /\ Len(new) \in 1 .. 2 /\ DOMAIN wire = 1 .. Len(wire) /\ DOMAIN wire' = 1 .. last
          /\ Len(wire) \in Nat
      BY <1>4, <1>6
    <2>2. wire'[last] = new[Len(new)]
      BY <1>4, <1>6
    <2>3. \A k \in DOMAIN wire' : k \in DOMAIN wire \/ k = last
                                   \/ (Len(new) = 2 /\ k = Len(wire) + 1 /\ k + 1 = last)
      <3>1. \A a \in Nat : \A b \in 1 .. 2 : \A k \in 1 .. (a + b) :
              k \in 1 .. a \/ k = a + b \/ (b = 2 /\ k = a + 1 /\ k + 1 = a + b)
        OBVIOUS
      <3>2. QED
        BY <2>1, <3>1
    <2>4. Len(new) = 2 => /\ wire'[Len(wire) + 1] = new[1]
                          /\ new[1].kind = "audio" /\ new[1].of = i
                          /\ wire'[last] = Signal("image", i)
      BY <1>4, <1>6
    <2>5. last \notin DOMAIN wire
      BY <2>1
    <2>6. QED
      BY <1>4, <2>2, <2>3, <2>4, <2>5
  <1>8. /\ key' \in [Images -> 0 .. 2] /\ key'[i] \in 1 .. 2
        /\ \A j \in Images : j # i => key'[j] = key[j]
    BY <1>1, <1>2, <1>3 DEF CapTypes
  <1> HIDE DEF last
  <1>9. Made \subseteq Made' /\ i \in Made' /\ Made \subseteq Images
    BY <1>1, <1>2, LogAssumption, FS_CardinalityType DEF Made, CapTypes
  <1>10. CapTypes'
    <2>1. \A n \in DOMAIN wire' : wire'[n].of \in Made'
      BY <1>1, <1>6, <1>7, <1>9 DEF CapTypes
    <2>2. \A j \in Images : j > made' => key'[j] = 0
      BY <1>1, <1>2, <1>8, LogAssumption, FS_CardinalityType DEF CapTypes
    <2>3. QED
      BY <1>1, <1>2, <1>6, <1>8, <1>9, <2>1, <2>2 DEF CapTypes
  <1>11. Slots' /\ HeldOnce' /\ ContactsKept'
    BY <1>1 DEF WayInv, Slots, SlotOk, HeldOnce, Held, Holds, ContactsKept, Kept, InHand, Waiting
  <1>12. /\ ~Held(i) /\ i \notin strip \cup logged \cup due /\ air # i /\ stash # i
         /\ \A k \in DOMAIN wire : wire[k].of # i /\ wire[k].of \in Images
         /\ \A n \in DOMAIN calls : calls[n].pic # i /\ calls[n].pic \in Images
    BY <1>1, <1>2, <1>9 DEF CapTypes, Held
  <1>13. Arrivals'
    <2>1. \A k \in DOMAIN wire' : Brings(wire'[k]) => k \in DOMAIN wire \/ k = last
      BY <1>7 DEF Brings
    <2>2. \A p : Held(p)' = Held(p)
      BY <1>1 DEF Held, Holds
    <2>3. QED
      BY <1>1, <1>6, <1>7, <1>12, <2>1, <2>2 DEF WayInv, Arrivals, Brings
  <1>14. Sides'
    <2>1. \A j \in Made : key'[j] = key[j]
      BY <1>2, <1>8, <1>9
    <2>2. /\ air # 0 => key'[air] = 0
          /\ stash # 0 => key'[stash] = 0
          /\ \A j \in strip : key'[j] # 0
      BY <1>1, <2>1 DEF WayInv, Sides, CapTypes
    <2>3. \A n \in DOMAIN calls : key'[calls[n].pic] = key[calls[n].pic]
      BY <1>1, <2>1 DEF CapTypes
    <2>4. \A k \in DOMAIN wire' :
            wire'[k].kind \in {"prepared", "sent", "aborted"} <=> key'[wire'[k].of] = 0
      <3>1. TAKE k \in DOMAIN wire'
      <3>2. CASE k \in DOMAIN wire
        BY <1>1, <1>6, <2>1, <3>2 DEF WayInv, Sides, CapTypes
      <3>3. CASE k \notin DOMAIN wire
        BY <1>7, <1>8, <3>3
      <3>4. QED
        BY <3>2, <3>3
    <2>5. QED
      BY <1>1, <2>2, <2>3, <2>4 DEF WayInv, Sides
  <1>15. Prepared' = Prepared /\ Ended' = Ended
    BY <1>6, <1>7 DEF Prepared, Ended
  <1>16. \A k \in Prepared \cup Ended : wire'[k] = wire[k]
    BY <1>6 DEF Prepared, Ended
  <1>17. OneAtATime'
    BY <1>1, <1>15, <1>16 DEF WayInv, OneAtATime
  <1>18. Turns'
    <2>1. \A c \in Images : Under(c)' => Under(c)
      BY <1>1, <1>15, <1>16 DEF Under
    <2>2. QED
      BY <1>1, <2>1 DEF WayInv, Turns
  <1>19. SoundInv'
    <2>1. \A n \in DOMAIN wire' : wire'[n].kind = "audio" =>
            n + 1 \in DOMAIN wire' /\ wire'[n + 1] = Signal("image", wire'[n].of)
      <3>1. TAKE n \in DOMAIN wire'
      <3>2. CASE n \in DOMAIN wire
        BY <1>6, <3>2 DEF WayInv, SoundInv
      <3>3. CASE n \notin DOMAIN wire
        BY <1>6, <1>7, <3>3
      <3>4. QED
        BY <3>2, <3>3
    <2>2. wire # <<>> => wire' # <<>> /\ wire'[1] = wire[1]
      BY <1>1, <1>6, Taken DEF CapTypes
    <2>3. QED
      BY <1>1, <2>1, <2>2 DEF WayInv, SoundInv
  <1>20. QED
    BY <1>10, <1>11, <1>13, <1>14, <1>17, <1>18, <1>19 DEF WayInv


-----------------------------------------------------------------------------
(* Signals are taken *)

\* What is under way when a signal is taken: its slot finds only message boxes
\* below it.
LEMMA SignalTaken ==
  ASSUME WayInv, NEW kinds, Take(kinds)
  PROVE  /\ wire \in Seq(Signals) /\ wire' \in Seq(Signals) /\ wire # <<>>
         /\ 1 \in DOMAIN wire /\ Head(wire) = wire[1] /\ wire[1].kind \in kinds
         /\ wire[1].of \in Made /\ wire[1].of # 0 /\ wire[1].of \in Images
         /\ \A k \in DOMAIN wire' : k + 1 \in DOMAIN wire /\ k + 1 # 1 /\ wire'[k] = wire[k + 1]
         /\ \A k \in DOMAIN wire : k = 1 \/ (k - 1 \in DOMAIN wire' /\ wire'[k - 1] = wire[k])
         /\ DOMAIN wire \subseteq Nat /\ DOMAIN wire' \subseteq Nat
         /\ \A n \in DOMAIN calls : calls[n].step = "warned" /\ calls[n].path = 0
  <1>1. /\ wire \in Seq(Signals) /\ wire # <<>> /\ wire' = Tail(wire)
        /\ Head(wire).kind \in kinds
        /\ Hears
    BY DEF Take, WayInv, CapTypes
  <1>2. \A n \in DOMAIN calls : calls[n].step = "warned" /\ calls[n].path = 0
    <2>1. calls \in Seq(Tasks)
      BY DEF WayInv, CapTypes
    <2>2. calls # <<>> => Head(calls) = calls[1]
      BY <2>1
    <2>3. \A n \in DOMAIN calls : calls # <<>>
      BY <2>1
    <2>4. QED
      BY <1>1, <2>2, <2>3 DEF Hears, Idle, WayInv, Slots, SlotOk
  <1>3. Made \subseteq Images /\ 0 \notin Made
    <2>1. Images = 1 .. Cardinality(Images) /\ Cardinality(Images) \in Nat
      BY LogAssumption, FS_CardinalityType
    <2>2. made \in 0 .. Cardinality(Images)
      BY DEF WayInv, CapTypes
    <2>3. QED
      BY <2>1, <2>2 DEF Made
  <1>4. wire[1].of \in Made
    BY <1>1, Taken DEF WayInv, CapTypes
  <1>5. QED
    BY <1>1, <1>2, <1>3, <1>4, Taken

\* Taking a signal that brings no recording keeps the parts about the wire.
LEMMA WireTaken ==
  ASSUME WayInv, NEW kinds, Take(kinds), UNCHANGED <<made, air, key>>
  PROVE  /\ \A n \in DOMAIN wire' : wire'[n].of \in Made'
         /\ \A k \in DOMAIN wire' : wire'[k].kind \in {"prepared", "sent", "aborted"}
                                      <=> key'[wire'[k].of] = 0
         /\ \A k, l \in DOMAIN wire' : Brings(wire'[k]) /\ Brings(wire'[l]) /\ k # l =>
                                         wire'[k].of # wire'[l].of
         /\ \A k \in DOMAIN wire' : Brings(wire'[k]) =>
              /\ ~Held(wire'[k].of) /\ wire'[k].of \notin strip \cup logged
              /\ \A n \in DOMAIN calls : calls[n].pic # wire'[k].of
              /\ Brings(wire[1]) => wire'[k].of # wire[1].of
         /\ \A k \in DOMAIN wire' : wire'[k].kind \in {"image", "offline"} => wire'[k].of \notin due
         /\ \A n \in DOMAIN wire' : wire'[n].kind = "audio" =>
              n + 1 \in DOMAIN wire' /\ wire'[n + 1] = Signal("image", wire'[n].of)
         /\ OneAtATime'
         /\ \A k \in Prepared' : k + 1 \in Prepared /\ wire'[k] = wire[k + 1]
         /\ \A k \in Ended' : k + 1 \in Ended /\ wire'[k] = wire[k + 1]
  <1>1. /\ \A k \in DOMAIN wire' : k + 1 \in DOMAIN wire /\ k + 1 # 1 /\ wire'[k] = wire[k + 1]
        /\ \A k \in DOMAIN wire : k = 1 \/ (k - 1 \in DOMAIN wire' /\ wire'[k - 1] = wire[k])
        /\ DOMAIN wire \subseteq Nat /\ DOMAIN wire' \subseteq Nat /\ 1 \in DOMAIN wire
    BY SignalTaken
  <1>2. /\ \A n \in DOMAIN wire' : wire'[n].of \in Made'
        /\ \A k \in DOMAIN wire' : wire'[k].kind \in {"image", "offline"} => wire'[k].of \notin due
        /\ \A k \in DOMAIN wire' : wire'[k].kind \in {"prepared", "sent", "aborted"}
                                      <=> key'[wire'[k].of] = 0
    BY <1>1 DEF WayInv, CapTypes, Arrivals, Sides, Made
  <1>3. \A k, l \in DOMAIN wire' : k # l => k + 1 # l + 1
    BY <1>1
  <1>4. /\ \A k, l \in DOMAIN wire' : Brings(wire'[k]) /\ Brings(wire'[l]) /\ k # l =>
                                        wire'[k].of # wire'[l].of
        /\ \A k \in DOMAIN wire' : Brings(wire'[k]) =>
              /\ ~Held(wire'[k].of) /\ wire'[k].of \notin strip \cup logged
              /\ \A n \in DOMAIN calls : calls[n].pic # wire'[k].of
              /\ Brings(wire[1]) => wire'[k].of # wire[1].of
    BY <1>1, <1>3 DEF WayInv, Arrivals
  <1>5. \A n \in DOMAIN wire' : wire'[n].kind = "audio" =>
          n + 1 \in DOMAIN wire' /\ wire'[n + 1] = Signal("image", wire'[n].of)
    <2>1. SUFFICES ASSUME NEW n \in DOMAIN wire', wire'[n].kind = "audio"
                   PROVE  n + 1 \in DOMAIN wire' /\ wire'[n + 1] = Signal("image", wire'[n].of)
      OBVIOUS
    <2>2. n \in Nat /\ n + 1 \in DOMAIN wire /\ wire'[n] = wire[n + 1]
      BY <1>1
    <2>3. (n + 1) + 1 \in DOMAIN wire /\ wire[(n + 1) + 1] = Signal("image", wire[n + 1].of)
      BY <2>1, <2>2 DEF WayInv, SoundInv
    <2>4. (n + 1) + 1 # 1 /\ ((n + 1) + 1) - 1 = n + 1
      BY <2>2
    <2>5. QED
      BY <1>1, <2>2, <2>3, <2>4
  <1>6. /\ \A k \in Prepared' : k + 1 \in Prepared /\ wire'[k] = wire[k + 1]
        /\ \A k \in Ended' : k + 1 \in Ended /\ wire'[k] = wire[k + 1]
    BY <1>1 DEF Prepared, Ended
  <1>7. Prepared' \subseteq Nat /\ Ended' \subseteq Nat
    BY <1>1 DEF Prepared, Ended
  <1>8. OneAtATime'
    <2>1. \A k, l \in Prepared' : k + 1 = l + 1
      BY <1>6 DEF WayInv, OneAtATime
    <2>2. \A k, l \in Ended' : k + 1 = l + 1
      BY <1>6 DEF WayInv, OneAtATime
    <2>3. \A k \in Prepared' : \A l \in Ended' : k + 1 < l + 1 /\ wire'[k].of = wire'[l].of
      BY <1>6 DEF WayInv, OneAtATime
    <2>4. air # 0 => Ended' = {} /\ \A k \in Prepared' : wire'[k].of = air
      BY <1>6 DEF WayInv, OneAtATime
    <2>5. \A k, l \in Nat : (k + 1 = l + 1 => k = l) /\ (k + 1 < l + 1 => k < l)
      OBVIOUS
    <2>6. QED
      BY <1>7, <2>1, <2>2, <2>3, <2>4, <2>5 DEF OneAtATime
  <1>9. QED
    BY <1>2, <1>4, <1>5, <1>6, <1>8

LEMMA WaitingIs ==
  ASSUME NEW kind
  PROVE  \A p : p \in Waiting(kind) <=>
                  \E n \in DOMAIN calls : calls[n].kind = kind /\ calls[n].pic = p
  BY DEF Waiting

LEMMA WaitingWillBe ==
  ASSUME NEW kind
  PROVE  \A p : p \in Waiting(kind)' <=>
                  \E n \in DOMAIN calls' : calls'[n].kind = kind /\ calls'[n].pic = p
  BY DEF Waiting

LEMMA OnPreparedWay == ASSUME WayInv, OnPrepared PROVE WayInv'
  <1> DEFINE c == wire[1].of
  <1>1. /\ Take({"prepared"}) /\ CapTypes
        /\ stash' = Head(wire).of
        /\ clobbered' = clobbered \cup Waiting("tx")
                        \cup (IF Waiting("tx") = {} THEN {} ELSE {stash'})
        /\ UNCHANGED <<opt, engaged, made, air, calls, sound, dialog, strip, key, due, waived, logged>>
    BY DEF OnPrepared, WayInv
  <1>2. /\ wire' \in Seq(Signals) /\ wire # <<>> /\ 1 \in DOMAIN wire /\ wire[1].kind = "prepared"
        /\ c \in Made /\ c # 0 /\ c \in Images /\ stash' = c
        /\ \A n \in DOMAIN calls : calls[n].step = "warned" /\ calls[n].path = 0
    BY <1>1, SignalTaken
  <1>3. Brings(wire[1]) /\ ~Held(c) /\ c \notin strip \cup logged /\ key[c] = 0
    BY <1>2 DEF Brings, WayInv, Arrivals, Sides
  <1> HIDE DEF c
  <1>4. /\ \A n \in DOMAIN calls : calls[n].kind = "tx" =>
             calls[n].pic \in clobbered' /\ c \in clobbered'
        /\ clobbered \subseteq clobbered'
    BY <1>1, <1>2, WaitingIs
  <1>5. CapTypes'
    BY <1>1, <1>2, WireTaken DEF CapTypes, Made
  <1>6. Slots'
    BY <1>1, <1>2 DEF WayInv, Slots, SlotOk
  <1>7. HeldOnce'
    BY <1>1, <1>2, <1>3 DEF WayInv, HeldOnce, Held, Holds
  <1>8. Arrivals'
    <2>1. \A p : Held(p)' => Held(p) \/ p = c
      BY <1>1, <1>2 DEF Held, Holds
    <2>2. QED
      BY <1>1, <1>3, <2>1, WireTaken DEF Arrivals, Brings, c
  <1>9. Sides'
    BY <1>1, <1>2, <1>3, WireTaken DEF WayInv, Sides
  <1>10. OneAtATime'
    BY <1>1, WireTaken
  <1>11. \A d \in Images : Under(d)' => d = c
    <2>1. 1 \in Prepared /\ wire[1].of = c
      BY <1>2 DEF Prepared, c
    <2>2. air # 0 => air = c
      BY <2>1 DEF WayInv, OneAtATime
    <2>3. \A l \in Ended : wire[l].of = c
      BY <2>1 DEF WayInv, OneAtATime
    <2>4. \A l \in Ended' : wire'[l].of = c
      BY <1>1, <2>3, WireTaken
    <2>5. \A d \in Images : d # 0
      BY LogAssumption, FS_CardinalityType
    <2>6. QED
      BY <1>1, <2>2, <2>4, <2>5 DEF Under
  <1>12. Turns'
    BY <1>1, <1>2, <1>4, <1>11 DEF Turns
  <1>13. SoundInv'
    <2>1. sound.of = 0
      BY <1>2 DEF WayInv, SoundInv, Signal
    <2>2. QED
      BY <1>1, <2>1, WireTaken DEF WayInv, SoundInv
  <1>14. ContactsKept'
    BY <1>1, <1>4 DEF WayInv, ContactsKept, Kept, InHand, Waiting
  <1>15. QED
    BY <1>5, <1>6, <1>7, <1>8, <1>9, <1>10, <1>12, <1>13, <1>14 DEF WayInv

\* The last signal of a transmission ends its turn.
LEMMA TurnEnds ==
  ASSUME WayInv, NEW kinds, kinds \subseteq {"sent", "aborted"}, Take(kinds), UNCHANGED <<made, air, key>>
  PROVE  /\ Under(wire[1].of) /\ sound.of = 0
         /\ \A d \in Images : ~Under(d)'
  <1>1. 1 \in DOMAIN wire /\ wire[1].kind \in {"sent", "aborted"} /\ DOMAIN wire \subseteq Nat
    BY SignalTaken
  <1>2. 1 \in Ended
    BY <1>1 DEF Ended
  <1>3. Prepared = {}
    <2>1. \A k \in Prepared : k < 1 /\ k \in DOMAIN wire
      BY <1>2 DEF WayInv, OneAtATime, Prepared
    <2>2. \A k \in Prepared : k \in Nat /\ k # 0
      BY <1>1, <2>1, SignalTaken DEF Prepared
    <2>3. QED
      BY <2>1, <2>2
  <1>4. Ended' = {}
    <2>1. \A k \in Ended' : k + 1 \in Ended /\ k \in DOMAIN wire'
      BY WireTaken DEF Ended
    <2>2. \A k \in Ended' : k + 1 = 1 /\ k + 1 # 1
      BY <1>2, <2>1, SignalTaken DEF WayInv, OneAtATime
    <2>3. QED
      BY <2>2
  <1>5. air' = 0
    BY <1>2 DEF WayInv, OneAtATime
  <1>6. \A d \in Images : d # 0
    BY LogAssumption, FS_CardinalityType
  <1>7. sound.of = 0
    BY <1>1 DEF WayInv, SoundInv, Signal
  <1>8. QED
    BY <1>2, <1>3, <1>4, <1>5, <1>6, <1>7 DEF Under

LEMMA OnAbortedWay == ASSUME WayInv, OnAborted PROVE WayInv'
  <1>1. /\ Take({"aborted"}) /\ CapTypes
        /\ stash' = 0
        /\ clobbered' = clobbered \cup Waiting("tx")
        /\ UNCHANGED <<opt, engaged, made, air, calls, sound, dialog, strip, key, due, waived, logged>>
    BY DEF OnAborted, WayInv
  <1>2. /\ wire' \in Seq(Signals) /\ wire # <<>> /\ wire[1].kind = "aborted"
        /\ \A n \in DOMAIN calls : calls[n].step = "warned" /\ calls[n].path = 0
    BY <1>1, SignalTaken
  <1>3. /\ \A n \in DOMAIN calls : calls[n].kind = "tx" => calls[n].pic \in clobbered'
        /\ clobbered \subseteq clobbered'
    BY <1>1, WaitingIs
  <1>4. CapTypes'
    BY <1>1, <1>2, WireTaken DEF CapTypes, Made
  <1>5. Slots'
    BY <1>1, <1>2 DEF WayInv, Slots, SlotOk
  <1>6. 0 \notin Made /\ (dialog # NoForm => dialog.pic \in Made)
        /\ (\A n \in DOMAIN calls : calls[n].pic \in Made) /\ logged \subseteq Made
    BY <1>1 DEF CapTypes, Made
  <1>7. HeldOnce'
    BY <1>1, <1>6 DEF WayInv, HeldOnce, Held, Holds
  <1>8. Arrivals'
    <2>1. \A p : Held(p)' => Held(p) \/ p = 0
      BY <1>1 DEF Held, Holds
    <2>2. \A k \in DOMAIN wire' : wire'[k].of # 0
      BY <1>1, <1>6, WireTaken DEF Made
    <2>3. QED
      BY <1>1, <2>1, <2>2, WireTaken DEF Arrivals, Brings
  <1>9. Sides'
    BY <1>1, WireTaken DEF WayInv, Sides
  <1>10. OneAtATime'
    BY <1>1, WireTaken
  <1>11. sound.of = 0 /\ \A d \in Images : ~Under(d)'
    BY <1>1, TurnEnds
  <1>12. Turns'
    BY <1>1, <1>3, <1>11 DEF Turns
  <1>13. SoundInv'
    BY <1>1, <1>11, WireTaken DEF WayInv, SoundInv
  <1>14. ContactsKept'
    BY <1>1, <1>3 DEF WayInv, ContactsKept, Kept, InHand, Waiting
  <1>15. QED
    BY <1>4, <1>5, <1>7, <1>8, <1>9, <1>10, <1>12, <1>13, <1>14 DEF WayInv

-----------------------------------------------------------------------------
(* Slots begin *)

LEMMA TaskIs ==
  ASSUME NEW kind \in {"tx", "rx", "form"}, NEW p \in Images, NEW save \in BOOLEAN
  PROVE  /\ Task(kind, p, save) \in Tasks
         /\ Task(kind, p, save).kind = kind /\ Task(kind, p, save).pic = p
         /\ Task(kind, p, save).path = 0 /\ Task(kind, p, save).audio = 0
         /\ Task(kind, p, save).then = "draft"
         /\ Task(kind, p, save).step = IF save THEN "save" ELSE "draft"
  BY DEF Task, Tasks

\* A slot that begins goes on top of the others, which keep their order.
LEMMA SlotBegins ==
  ASSUME CapTypes, NEW t \in Tasks, calls' = <<t>> \o calls
  PROVE  /\ calls' \in Seq(Tasks) /\ 1 \in DOMAIN calls' /\ calls'[1] = t
         /\ \A k \in DOMAIN calls' :
              k = 1 \/ (k # 1 /\ k - 1 \in DOMAIN calls /\ calls'[k] = calls[k - 1])
         /\ \A k \in DOMAIN calls : k + 1 \in DOMAIN calls' /\ calls'[k + 1] = calls[k]
         /\ \A k, l \in DOMAIN calls' : k # 1 /\ l # 1 => /\ k # l => k - 1 # l - 1
                                                          /\ k < l => k - 1 < l - 1
         /\ \A k, l \in DOMAIN calls' : k < l => l # 1
         /\ \A p : p \in InHand /\ dialog' = dialog => p \in InHand'
         /\ t.pic \in InHand'
  <1>1. calls \in Seq(Tasks)
    BY DEF CapTypes
  <1>2. /\ calls' \in Seq(Tasks) /\ 1 \in DOMAIN calls' /\ calls'[1] = t
        /\ \A k \in DOMAIN calls' : k = 1 \/ (k - 1 \in DOMAIN calls /\ calls'[k] = calls[k - 1])
        /\ \A k \in DOMAIN calls : k + 1 \in DOMAIN calls' /\ calls'[k + 1] = calls[k]
        /\ DOMAIN calls' \subseteq Nat /\ DOMAIN calls \subseteq Nat
    BY <1>1, Stacked
  <1>3. \A k \in DOMAIN calls' : k >= 1
    BY <1>2
  <1>4. /\ \A k, l \in DOMAIN calls' : k # 1 /\ l # 1 => /\ k # l => k - 1 # l - 1
                                                         /\ k < l => k - 1 < l - 1
        /\ \A k, l \in DOMAIN calls' : k < l => l # 1
    BY <1>2, <1>3
  <1>5. \A kind : \A p \in Waiting(kind) : p \in Waiting(kind)'
    <2>1. TAKE kind
    <2>2. TAKE p \in Waiting(kind)
    <2>3. PICK n \in DOMAIN calls : calls[n].kind = kind /\ calls[n].pic = p
      BY WaitingIs
    <2>4. n + 1 \in DOMAIN calls' /\ calls'[n + 1].kind = kind /\ calls'[n + 1].pic = p
      BY <1>2, <2>3
    <2>5. QED
      BY <2>4, WaitingWillBe
  <1>6. t.pic \in Waiting(t.kind)'
    BY <1>2, WaitingWillBe
  <1>7. t.kind \in {"tx", "rx", "form"}
    BY DEF Tasks
  <1>8. QED
    BY <1>2, <1>4, <1>5, <1>6, <1>7 DEF InHand

LEMMA OnTxCompleteWay == ASSUME WayInv, OnTxComplete PROVE WayInv'
  <1> DEFINE c == wire[1].of
             t == Task("tx", c, opt.autoTx /\ stash # 0)
  <1>1. /\ Take({"sent"}) /\ CapTypes /\ calls' = <<t>> \o calls /\ due' = due \cup {c}
        /\ UNCHANGED <<opt, engaged, made, air, stash, sound, dialog, strip, key, waived,
                       clobbered, logged>>
    <2>1. wire # <<>> /\ Head(wire) = wire[1]
      BY SignalTaken DEF OnTxComplete
    <2>2. QED
      BY <2>1 DEF OnTxComplete, WayInv, Call
  <1>2. /\ wire' \in Seq(Signals) /\ 1 \in DOMAIN wire /\ wire[1].kind = "sent"
        /\ c \in Made /\ c # 0 /\ c \in Images
        /\ \A n \in DOMAIN calls : calls[n].step = "warned"
    BY <1>1, SignalTaken
  <1>3. /\ t \in Tasks /\ t.kind = "tx" /\ t.pic = c /\ t.path = 0 /\ t.audio = 0 /\ t.then = "draft"
        /\ t.step \in {"save", "draft"} /\ (t.step = "save" => stash # 0)
    <2> DEFINE save == opt.autoTx /\ stash # 0
    <2>1. save \in BOOLEAN /\ (save => stash # 0) /\ t = Task("tx", c, save)
      OBVIOUS
    <2> HIDE DEF save, t
    <2>2. QED
      BY <1>2, <2>1, TaskIs
  <1>4. key[c] = 0
    BY <1>2 DEF WayInv, Sides
  <1>5. Under(c) /\ sound.of = 0 /\ \A d \in Images : ~Under(d)'
    BY <1>1, TurnEnds
  <1> HIDE DEF t, c
  <1>6. /\ calls' \in Seq(Tasks) /\ calls'[1] = t
        /\ \A k \in DOMAIN calls' :
              k = 1 \/ (k # 1 /\ k - 1 \in DOMAIN calls /\ calls'[k] = calls[k - 1])
        /\ \A k \in DOMAIN calls : k + 1 \in DOMAIN calls' /\ calls'[k + 1] = calls[k]
        /\ \A k, l \in DOMAIN calls' : k # 1 /\ l # 1 => /\ k # l => k - 1 # l - 1
                                                         /\ k < l => k - 1 < l - 1
        /\ \A k, l \in DOMAIN calls' : k < l => l # 1
        /\ InHand \subseteq InHand' /\ c \in InHand'
    BY <1>1, <1>3, SlotBegins
  <1>7. CapTypes'
    BY <1>1, <1>2, <1>3, <1>6, WireTaken DEF CapTypes, Made
  <1>8. Slots'
    BY <1>1, <1>2, <1>3, <1>6 DEF WayInv, Slots, SlotOk
  <1>9. \A p : Held(p)' <=> Held(p)
    <2>1. \A n \in DOMAIN calls' : Holds(n)' => /\ n # 1 /\ n - 1 \in DOMAIN calls /\ Holds(n - 1)
                                                /\ calls'[n] = calls[n - 1]
      BY <1>3, <1>6 DEF Holds
    <2>2. \A n \in DOMAIN calls : Holds(n) => /\ n + 1 \in DOMAIN calls' /\ Holds(n + 1)'
                                              /\ calls'[n + 1] = calls[n]
      BY <1>6 DEF Holds
    <2>3. \A p : Held(p)' => Held(p)
      BY <1>1, <2>1 DEF Held
    <2>4. \A p : Held(p) => Held(p)'
      BY <1>1, <2>2 DEF Held
    <2>5. QED
      BY <2>3, <2>4
  <1>10. HeldOnce'
    BY <1>1, <1>3, <1>6, <1>9 DEF WayInv, HeldOnce, Holds
  <1>11. Arrivals'
    <2>1. \A k \in DOMAIN wire' : wire'[k].kind \in {"image", "offline"} => wire'[k].of # c
      BY <1>1, <1>4, WireTaken
    <2>2. \A k \in DOMAIN wire' : wire'[k].kind # "prepared"
      <3>1. Prepared = {}
        BY <1>5 DEF Under
      <3>2. Prepared' = {}
        BY <1>1, <3>1, WireTaken
      <3>3. QED
        BY <3>2 DEF Prepared
    <2>3. \A k \in DOMAIN wire' : Brings(wire'[k]) => \A n \in DOMAIN calls' : calls'[n].pic # wire'[k].of
      BY <1>1, <1>3, <1>6, <2>1, <2>2, WireTaken DEF Brings
    <2>4. QED
      BY <1>1, <1>9, <2>1, <2>3, WireTaken DEF Arrivals, Brings
  <1>12. Sides'
    <2>1. \A n \in DOMAIN calls' : /\ calls'[n].kind = "tx" => key[calls'[n].pic] = 0
                                   /\ calls'[n].kind = "rx" => key[calls'[n].pic] # 0
                                   /\ calls'[n].kind = "rx" /\ calls'[n].then = "draft" =>
                                        calls'[n].pic \notin due'
      BY <1>1, <1>3, <1>4, <1>6 DEF WayInv, Sides
    <2>2. QED
      BY <1>1, <2>1, WireTaken DEF WayInv, Sides
  <1>13. OneAtATime'
    BY <1>1, WireTaken
  <1>14. Turns'
    <2>1. /\ stash = c \/ c \in clobbered
          /\ \A n \in DOMAIN calls : calls[n].kind = "tx" => calls[n].pic \in clobbered
      BY <1>2, <1>5 DEF WayInv, Turns
    <2>2. QED
      BY <1>1, <1>3, <1>5, <1>6, <2>1 DEF Turns
  <1>15. SoundInv'
    BY <1>1, <1>5, WireTaken DEF WayInv, SoundInv
  <1>16. ContactsKept'
    BY <1>1, <1>6 DEF WayInv, ContactsKept, Kept
  <1>17. QED
    BY <1>7, <1>8, <1>10, <1>11, <1>12, <1>13, <1>14, <1>15, <1>16 DEF WayInv

LEMMA OnAudioWay == ASSUME WayInv, OnAudio PROVE WayInv'
  <1>1. /\ Take({"audio"}) /\ CapTypes
        /\ sound' = [of |-> Head(wire).of, key |-> key[Head(wire).of]]
        /\ UNCHANGED <<opt, engaged, made, air, calls, stash, dialog, strip, key, due, waived,
                       clobbered, logged>>
    BY DEF OnAudio, WayInv, capHistory
  <1>2. /\ wire' \in Seq(Signals) /\ wire # <<>> /\ 1 \in DOMAIN wire /\ wire[1].kind = "audio"
        /\ Head(wire) = wire[1] /\ wire[1].of # 0 /\ wire[1].of \in Images
        /\ \A k \in DOMAIN wire : k = 1 \/ (k - 1 \in DOMAIN wire' /\ wire'[k - 1] = wire[k])
    BY <1>1, SignalTaken
  <1>3. CapTypes'
    BY <1>1, <1>2, WireTaken DEF CapTypes, Made
  <1>4. Slots' /\ HeldOnce' /\ ContactsKept'
    BY <1>1 DEF WayInv, Slots, SlotOk, HeldOnce, Held, Holds, ContactsKept, Kept, InHand, Waiting
  <1>5. Arrivals'
    <2>1. \A p : Held(p)' = Held(p)
      BY <1>1 DEF Held, Holds
    <2>2. QED
      BY <1>1, <2>1, WireTaken DEF Arrivals, Brings
  <1>6. Sides'
    BY <1>1, WireTaken DEF WayInv, Sides
  <1>7. OneAtATime'
    BY <1>1, WireTaken
  <1>8. Turns'
    <2>1. Prepared' = {} => Prepared = {}
      <3>1. \A k \in Prepared : k # 1 /\ k - 1 \in Prepared'
        BY <1>2 DEF Prepared
      <3>2. QED
        BY <3>1
    <2>2. \A k \in Ended' : k + 1 \in Ended /\ wire'[k] = wire[k + 1]
      BY <1>1, WireTaken
    <2>3. \A d \in Images : Under(d)' => Under(d)
      BY <1>1, <2>1, <2>2 DEF Under
    <2>4. QED
      BY <1>1, <2>3 DEF WayInv, Turns
  <1>9. SoundInv'
    <2>1. sound'.of = wire[1].of
      BY <1>1, <1>2
    <2>2. 1 + 1 \in DOMAIN wire /\ wire[1 + 1] = Signal("image", wire[1].of)
      BY <1>2 DEF WayInv, SoundInv
    <2>3. 1 \in DOMAIN wire' /\ wire'[1] = Signal("image", wire[1].of)
      BY <1>2, <2>2
    <2>4. wire' # <<>>
      BY <1>2, <2>3
    <2>5. QED
      BY <1>1, <1>2, <2>1, <2>3, <2>4, WireTaken DEF SoundInv
  <1>10. QED
    BY <1>3, <1>4, <1>5, <1>6, <1>7, <1>8, <1>9 DEF WayInv

\* The recording an image takes is its own.
LEMMA OwnRecording ==
  ASSUME WayInv, NEW kinds, kinds \subseteq {"image", "offline"}, Take(kinds),
         NEW r \in Recording(wire[1].of, wire[1].kind = "image")
  PROVE  r \in {0, wire[1].of}
  <1> DEFINE live == wire[1].kind = "image"
             own == TakeSound(wire[1].of, live)
  <1>1. r \in {0, own}
    BY DEF Recording
  <1>2. own = 0 \/ own = sound.of
    BY DEF TakeSound
  <1>3. sound.of # 0 => sound.of = wire[1].of
    BY DEF WayInv, SoundInv, Signal
  <1>4. QED
    BY <1>1, <1>2, <1>3

LEMMA OnImageWay == ASSUME WayInv, OnImage PROVE WayInv'
  <1> DEFINE i == wire[1].of
             kinds == {"image", "offline"}
             live == wire[1].kind = "image"
             new == Task("rx", i, opt.autoRx)
  <1>1. /\ Take(kinds) /\ CapTypes /\ strip' = Keep(i)
        /\ sound' = IF live THEN [of |-> 0, key |-> 0] ELSE sound
        /\ \E r \in Recording(i, live) : calls' = <<[new EXCEPT !.audio = r]>> \o calls
        /\ UNCHANGED <<opt, engaged, made, air, stash, dialog, key, due, waived, clobbered, logged>>
    <2>1. wire # <<>> /\ Head(wire) = wire[1]
      BY SignalTaken DEF OnImage
    <2>2. QED
      BY <2>1 DEF OnImage, WayInv, Call, capHistory
  <1>2. /\ wire' \in Seq(Signals) /\ 1 \in DOMAIN wire /\ wire[1].kind \in kinds
        /\ i \in Made /\ i # 0 /\ i \in Images
        /\ \A n \in DOMAIN calls : calls[n].step = "warned"
    BY <1>1, SignalTaken
  <1>3. PICK r \in Recording(i, live) : calls' = <<[new EXCEPT !.audio = r]>> \o calls
    BY <1>1
  <1>4. r \in {0, i}
    BY <1>1, OwnRecording
  <1> DEFINE t == [new EXCEPT !.audio = r]
  <1>5. /\ t \in Tasks /\ t.kind = "rx" /\ t.pic = i /\ t.path = 0 /\ t.audio \in {0, i}
        /\ t.then = "draft" /\ t.step \in {"save", "draft"}
    BY <1>2, <1>4 DEF Task, Tasks
  <1>6. /\ Brings(wire[1]) /\ ~Held(i) /\ i \notin strip \cup logged /\ key[i] # 0 /\ i \notin due
        /\ strip' \subseteq strip \cup {i}
    BY <1>1, <1>2 DEF Brings, WayInv, Arrivals, Sides, Keep
  <1>7. sound'.of = 0 /\ sound'.key = 0
    <2>1. CASE live
      BY <1>1, <2>1
    <2>2. CASE ~live
      BY <1>1, <2>2 DEF WayInv, SoundInv, Signal
    <2>3. QED
      BY <2>1, <2>2
  <1>8. calls' = <<t>> \o calls
    BY <1>3
  <1> HIDE DEF i, kinds, live, new, t
  <1>9. /\ calls' \in Seq(Tasks) /\ 1 \in DOMAIN calls' /\ calls'[1] = t
        /\ \A k \in DOMAIN calls' :
              k = 1 \/ (k # 1 /\ k - 1 \in DOMAIN calls /\ calls'[k] = calls[k - 1])
        /\ \A k \in DOMAIN calls : k + 1 \in DOMAIN calls' /\ calls'[k + 1] = calls[k]
        /\ \A k, l \in DOMAIN calls' : k # 1 /\ l # 1 => /\ k # l => k - 1 # l - 1
                                                         /\ k < l => k - 1 < l - 1
        /\ \A k, l \in DOMAIN calls' : k < l => l # 1
        /\ InHand \subseteq InHand'
    BY <1>1, <1>5, <1>8, SlotBegins
  <1>10. CapTypes'
    <2>1. \A n \in DOMAIN wire' : wire'[n].of \in Made'
      BY <1>1, WireTaken
    <2>2. \A n \in DOMAIN calls' : calls'[n].pic \in Made'
      <3>1. \A n \in DOMAIN calls : calls[n].pic \in Made
        BY <1>1 DEF CapTypes
      <3>2. Made' = Made
        BY <1>1 DEF Made
      <3>3. QED
        BY <1>2, <1>5, <1>9, <3>1, <3>2
    <2>3. strip' \subseteq Made'
      BY <1>1, <1>2, <1>6 DEF CapTypes, Made
    <2>4. QED
      BY <1>1, <1>2, <1>9, <2>1, <2>2, <2>3 DEF CapTypes, Made
  <1>11. Slots'
    <2>1. SlotOk(t)
      BY <1>5 DEF SlotOk
    <2>2. \A n \in DOMAIN calls : SlotOk(calls[n])
      BY DEF WayInv, Slots
    <2>3. \A n \in DOMAIN calls' : SlotOk(calls'[n]) /\ (n # 1 => calls'[n].step = "warned")
      BY <1>2, <1>9, <2>1, <2>2
    <2>4. \A n \in DOMAIN calls' : calls'[n].kind = "tx" /\ calls'[n].then = "insert" =>
                                    opt.autoLog \/ dialog # NoForm
      BY <1>5, <1>9 DEF WayInv, Slots
    <2>5. dialog # NoForm => dialog.path \in {0, dialog.pic} /\ dialog.audio \in {0, dialog.pic}
      BY DEF WayInv, Slots
    <2>6. stash' = stash /\ dialog' = dialog /\ opt' = opt
      BY <1>1
    <2>7. QED
      BY <2>3, <2>4, <2>5, <2>6 DEF Slots, SlotOk
  <1>12. \A p : Held(p)' => Held(p) \/ p = i
    <2>1. \A n \in DOMAIN calls' : n # 1 /\ Holds(n)' =>
             n - 1 \in DOMAIN calls /\ Holds(n - 1) /\ calls'[n] = calls[n - 1]
      BY <1>9 DEF Holds
    <2>2. QED
      BY <1>1, <1>5, <1>9, <2>1 DEF Held
  <1>13. HeldOnce'
    <2>1. /\ i # stash /\ (dialog # NoForm => dialog.pic # i)
          /\ \A n \in DOMAIN calls : calls[n].pic # i
      BY <1>6 DEF Held, Holds, WayInv, Sides
    <2>2. \A n \in DOMAIN calls' : n # 1 =>
             /\ n - 1 \in DOMAIN calls /\ calls'[n] = calls[n - 1]
             /\ calls'[n].kind # "tx" <=> Holds(n - 1)
      BY <1>9 DEF Holds
    <2>3. \A n, m \in DOMAIN calls' : calls'[n].kind # "tx" /\ calls'[m].kind # "tx" /\ n # m =>
             calls'[n].pic # calls'[m].pic
      <3>1. \A n \in DOMAIN calls' : n # 1 => calls'[n].pic # i
        BY <2>1, <2>2
      <3>2. \A n, m \in DOMAIN calls' :
               n # 1 /\ m # 1 /\ n # m /\ calls'[n].kind # "tx" /\ calls'[m].kind # "tx" =>
                 calls'[n].pic # calls'[m].pic
        BY <1>9, <2>2 DEF WayInv, HeldOnce
      <3>3. QED
        BY <1>5, <1>9, <3>1, <3>2
    <2>4. \A n \in DOMAIN calls' :
            calls'[n].kind # "tx" => /\ calls'[n].pic # stash
                                     /\ dialog # NoForm => calls'[n].pic # dialog.pic
      BY <1>5, <1>9, <2>1, <2>2 DEF WayInv, HeldOnce
    <2>5. \A n \in DOMAIN calls' : calls'[n].kind = "tx" /\ calls'[n].then = "insert" =>
             /\ \A m \in DOMAIN calls' : calls'[m].kind # "tx" => calls'[m].pic # calls'[n].pic
             /\ dialog # NoForm => dialog.pic # calls'[n].pic
      BY <1>5, <1>9, <2>1, <2>2 DEF WayInv, HeldOnce
    <2>6. \A p \in logged : ~Held(p)'
      BY <1>6, <1>12 DEF WayInv, HeldOnce
    <2>7. dialog # NoForm => dialog.pic # stash
      BY DEF WayInv, HeldOnce
    <2>8. QED
      BY <1>1, <2>3, <2>4, <2>5, <2>6, <2>7 DEF HeldOnce, Holds
  <1>14. Arrivals'
    <2>1. \A k \in DOMAIN wire' : Brings(wire'[k]) =>
            /\ ~Held(wire'[k].of) /\ wire'[k].of # i /\ wire'[k].of \notin strip \cup logged
            /\ \A n \in DOMAIN calls : calls[n].pic # wire'[k].of
      BY <1>1, <1>6, WireTaken DEF i
    <2>2. \A k \in DOMAIN wire' : Brings(wire'[k]) => \A n \in DOMAIN calls' : calls'[n].pic # wire'[k].of
      BY <1>5, <1>9, <2>1
    <2>3. QED
      BY <1>1, <1>6, <1>12, <2>1, <2>2, WireTaken DEF Arrivals, Brings
  <1>15. Sides'
    <2>1. \A n \in DOMAIN calls' : /\ calls'[n].kind = "tx" => key[calls'[n].pic] = 0
                                   /\ calls'[n].kind = "rx" => key[calls'[n].pic] # 0
                                   /\ calls'[n].kind = "rx" /\ calls'[n].then = "draft" =>
                                        calls'[n].pic \notin due
      <3> SUFFICES ASSUME NEW n \in DOMAIN calls'
                   PROVE  /\ calls'[n].kind = "tx" => key[calls'[n].pic] = 0
                          /\ calls'[n].kind = "rx" => key[calls'[n].pic] # 0
                          /\ calls'[n].kind = "rx" /\ calls'[n].then = "draft" =>
                               calls'[n].pic \notin due
        OBVIOUS
      <3>1. CASE n = 1
        BY <1>5, <1>6, <1>9, <3>1
      <3>2. CASE n # 1
        <4>1. PICK m \in DOMAIN calls : calls'[n] = calls[m]
          BY <1>9, <3>2
        <4>2. /\ calls[m].kind = "tx" => key[calls[m].pic] = 0
              /\ calls[m].kind = "rx" => key[calls[m].pic] # 0
              /\ calls[m].kind = "rx" /\ calls[m].then = "draft" => calls[m].pic \notin due
          BY DEF WayInv, Sides
        <4>3. QED
          BY <4>1, <4>2
      <3>3. QED
        BY <3>1, <3>2
    <2>2. QED
      BY <1>1, <1>6, <2>1, WireTaken DEF WayInv, Sides
  <1>16. OneAtATime'
    BY <1>1, WireTaken
  <1>17. Turns'
    <2>1. Prepared' = {} => Prepared = {}
      <3>1. \A k \in Prepared : k # 1 /\ k - 1 \in Prepared'
        <4>1. \A k \in DOMAIN wire : k = 1 \/ (k - 1 \in DOMAIN wire' /\ wire'[k - 1] = wire[k])
          BY <1>1, SignalTaken
        <4>2. QED
          BY <1>2, <4>1 DEF Prepared, kinds
      <3>2. QED
        BY <3>1
    <2>2. \A k \in Ended' : k + 1 \in Ended /\ wire'[k] = wire[k + 1]
      BY <1>1, WireTaken
    <2>3. \A d \in Images : Under(d)' => Under(d)
      BY <1>1, <2>1, <2>2 DEF Under
    <2>4. \A n \in DOMAIN calls' : calls'[n].kind = "tx" =>
            n # 1 /\ n - 1 \in DOMAIN calls /\ calls'[n] = calls[n - 1]
      BY <1>5, <1>9
    <2>5. \A c \in Images : Under(c)' =>
           /\ stash = c \/ c \in clobbered
           /\ \A n \in DOMAIN calls' : calls'[n].kind = "tx" =>
                calls'[n].pic \in clobbered /\ c \in clobbered /\ stash \in {0} \cup clobbered
      BY <2>3, <2>4 DEF WayInv, Turns
    <2>6. \A n, m \in DOMAIN calls' : n < m /\ calls'[n].kind = "tx" /\ calls'[m].kind = "tx" =>
             calls'[m].pic \in clobbered
      BY <1>9, <2>4 DEF WayInv, Turns
    <2>7. \A n \in DOMAIN calls' : calls'[n].kind = "tx" /\ calls'[n].then = "draft" =>
             calls'[n].pic \in clobbered \/ stash = calls'[n].pic
      BY <2>4 DEF WayInv, Turns
    <2>8. QED
      BY <1>1, <2>5, <2>6, <2>7 DEF Turns
  <1>18. SoundInv'
    BY <1>1, <1>7, WireTaken DEF WayInv, SoundInv
  <1>19. ContactsKept'
    BY <1>1, <1>9 DEF WayInv, ContactsKept, Kept
  <1>20. QED
    BY <1>10, <1>11, <1>13, <1>14, <1>15, <1>16, <1>17, <1>18, <1>19 DEF WayInv

-----------------------------------------------------------------------------
(* The slot on top moves on *)

\* A move that changes neither the kind of the slot, nor its image, nor what
\* it is to do next.
LEMMA TopMoves ==
  ASSUME WayInv, calls # <<>>, NEW t \in Tasks, calls' = [calls EXCEPT ![1] = t],
         t.kind = calls[1].kind, t.pic = calls[1].pic, t.then = calls[1].then, SlotOk(t),
         UNCHANGED <<opt, engaged, made, air, wire, stash, sound, dialog, strip, key, due, waived,
                     clobbered, logged>>
  PROVE  WayInv'
  <1>1. calls \in Seq(Tasks)
    BY DEF WayInv, CapTypes
  <1>2. /\ calls' \in Seq(Tasks) /\ DOMAIN calls' = DOMAIN calls /\ 1 \in DOMAIN calls
        /\ calls'[1] = t /\ \A k \in DOMAIN calls : k # 1 => calls'[k] = calls[k]
    BY <1>1, TopChanged
  <1>3. \A k \in DOMAIN calls : /\ calls'[k].kind = calls[k].kind /\ calls'[k].pic = calls[k].pic
                                /\ calls'[k].then = calls[k].then
    BY <1>2
  <1>4. CapTypes'
    BY <1>2, <1>3 DEF WayInv, CapTypes, Made
  <1>5. Slots'
    BY <1>2, <1>3 DEF WayInv, Slots, SlotOk
  <1>6. \A p : Held(p)' = Held(p)
    BY <1>2, <1>3 DEF Held, Holds
  <1>7. HeldOnce'
    BY <1>2, <1>3, <1>6 DEF WayInv, HeldOnce, Holds
  <1>8. Arrivals'
    BY <1>6 DEF WayInv, Arrivals, Brings
  <1>9. Sides' /\ OneAtATime'
    BY <1>2, <1>3 DEF WayInv, Sides, OneAtATime, Prepared, Ended
  <1>10. Turns'
    BY <1>2, <1>3 DEF WayInv, Turns, Under, Prepared, Ended
  <1>11. SoundInv'
    BY DEF WayInv, SoundInv
  <1>12. ContactsKept'
    <2>1. \A kind, p : p \in Waiting(kind)' <=> p \in Waiting(kind)
      BY <1>2, <1>3, WaitingIs, WaitingWillBe
    <2>2. QED
      BY <2>1 DEF WayInv, ContactsKept, Kept, InHand
  <1>13. QED
    BY <1>4, <1>5, <1>7, <1>8, <1>9, <1>10, <1>11, <1>12 DEF WayInv

\* What there is to know of the slot on top.
LEMMA TopIs ==
  ASSUME WayInv, ~Idle
  PROVE  /\ calls \in Seq(Tasks) /\ calls # <<>> /\ 1 \in DOMAIN calls /\ Top = calls[1]
         /\ Top \in Tasks /\ SlotOk(Top) /\ Top.pic \in Made
         /\ Made \subseteq Images /\ 0 \notin Made /\ stash \in {0} \cup Made
  <1>1. calls \in Seq(Tasks) /\ calls # <<>>
    BY DEF WayInv, CapTypes, Idle
  <1>2. 1 \in DOMAIN calls /\ Top = calls[1] /\ calls[1] \in Tasks
    BY <1>1, Taken DEF Top
  <1>3. Made \subseteq Images /\ 0 \notin Made
    BY LogAssumption, FS_CardinalityType DEF WayInv, CapTypes, Made
  <1>4. QED
    BY <1>1, <1>2, <1>3 DEF WayInv, CapTypes, Slots

LEMMA SaveImageWay == ASSUME WayInv, SaveImage PROVE WayInv'
  <1>1. /\ ~Idle /\ Top.step = "save"
        /\ UNCHANGED <<opt, engaged, made, air, wire, stash, sound, dialog, strip, key, due, waived,
                       clobbered, logged>>
    BY DEF SaveImage
  <1>2. /\ calls \in Seq(Tasks) /\ calls # <<>> /\ Top = calls[1]
        /\ Top \in Tasks /\ SlotOk(Top) /\ Top.pic \in Made
        /\ Made \subseteq Images /\ 0 \notin Made /\ stash \in {0} \cup Made
    BY <1>1, TopIs
  <1>3. CASE calls' = [calls EXCEPT ![1].step = Top.then, ![1].path = Picture]
    <2> DEFINE t == [Top EXCEPT !.step = Top.then, !.path = Picture]
    <2>1. calls' = [calls EXCEPT ![1] = t]
      BY <1>2, <1>3
    <2>2. Picture \in Made /\ Picture = IF Top.kind = "tx" THEN stash ELSE Top.pic
      BY <1>1, <1>2 DEF Picture, SlotOk
    <2>3. /\ t \in Tasks /\ t.kind = Top.kind /\ t.pic = Top.pic /\ t.then = Top.then
          /\ t.audio = Top.audio /\ t.step = Top.then /\ t.path = Picture
      BY <1>2, <2>2 DEF Tasks
    <2>4. Top.then \in {"draft", "insert"}
      BY <1>2 DEF Tasks
    <2> HIDE DEF t
    <2>5. SlotOk(t)
      BY <1>1, <1>2, <2>2, <2>3, <2>4 DEF SlotOk
    <2>6. QED
      BY <1>1, <1>2, <2>1, <2>3, <2>5, TopMoves
  <1>4. CASE Go(IF failing THEN Top.then ELSE "warned")
    <2> DEFINE t == [Top EXCEPT !.step = IF failing THEN Top.then ELSE "warned"]
    <2>1. calls' = [calls EXCEPT ![1] = t]
      BY <1>2, <1>4 DEF Go
    <2>2. /\ t \in Tasks /\ t.kind = Top.kind /\ t.pic = Top.pic /\ t.then = Top.then
          /\ t.audio = Top.audio /\ t.step \in {Top.then, "warned"} /\ t.path = Top.path
      BY <1>2 DEF Tasks
    <2>3. Top.then \in {"draft", "insert"}
      BY <1>2 DEF Tasks
    <2> HIDE DEF t
    <2>4. SlotOk(t)
      BY <1>1, <1>2, <2>2, <2>3 DEF SlotOk
    <2>5. QED
      BY <1>1, <1>2, <2>1, <2>2, <2>4, TopMoves
  <1>5. QED
    BY <1>3, <1>4 DEF SaveImage

LEMMA DismissWarningWay == ASSUME WayInv, DismissWarning PROVE WayInv'
  <1>1. /\ ~Idle /\ Top.step = "warned" /\ Go(Top.then)
        /\ UNCHANGED <<opt, engaged, made, air, wire, stash, sound, dialog, strip, key, due, waived,
                       clobbered, logged>>
    BY DEF DismissWarning, capHistory
  <1>2. /\ calls \in Seq(Tasks) /\ calls # <<>> /\ Top = calls[1] /\ Top \in Tasks /\ SlotOk(Top)
    BY <1>1, TopIs
  <1> DEFINE t == [Top EXCEPT !.step = Top.then]
  <1>3. calls' = [calls EXCEPT ![1] = t]
    BY <1>1, <1>2 DEF Go
  <1>4. /\ t \in Tasks /\ t.kind = Top.kind /\ t.pic = Top.pic /\ t.then = Top.then
        /\ t.audio = Top.audio /\ t.step = Top.then /\ t.path = Top.path
        /\ Top.then \in {"draft", "insert"}
    BY <1>2 DEF Tasks
  <1> HIDE DEF t
  <1>5. SlotOk(t)
    BY <1>1, <1>2, <1>4 DEF SlotOk
  <1>6. QED
    BY <1>1, <1>2, <1>3, <1>4, <1>5, TopMoves

LEMMA SlotReturns ==
  ASSUME WayInv, ~Idle, calls' = Tail(calls)
  PROVE  /\ calls' \in Seq(Tasks)
         /\ \A k \in DOMAIN calls' : /\ k + 1 \in DOMAIN calls /\ k + 1 # 1 /\ calls'[k] = calls[k + 1]
                                     /\ SlotOk(calls'[k]) /\ calls'[k].step = "warned"
                                     /\ calls'[k].path = 0 /\ 1 < k + 1
         /\ \A k, l \in DOMAIN calls' : (k # l => k + 1 # l + 1) /\ (k < l => k + 1 < l + 1)
         /\ \A kind, p : p \in Waiting(kind) => p \in Waiting(kind)' \/ (kind = Top.kind /\ p = Top.pic)
  <1>1. calls \in Seq(Tasks) /\ calls # <<>> /\ Top = calls[1]
    BY TopIs
  <1>2. /\ calls' \in Seq(Tasks)
        /\ \A k \in DOMAIN calls' : k + 1 \in DOMAIN calls /\ k + 1 # 1 /\ calls'[k] = calls[k + 1]
        /\ \A k \in DOMAIN calls : k = 1 \/ (k - 1 \in DOMAIN calls' /\ calls'[k - 1] = calls[k])
        /\ DOMAIN calls' \subseteq Nat
    BY <1>1, Taken
  <1>3. \A k \in DOMAIN calls : SlotOk(calls[k]) /\ (k # 1 => calls[k].step = "warned")
    BY DEF WayInv, Slots
  <1>4. \A k \in DOMAIN calls' : calls'[k].step = "warned" /\ SlotOk(calls'[k])
    BY <1>2, <1>3
  <1>5. \A k \in DOMAIN calls' : calls'[k].path = 0
    BY <1>4 DEF SlotOk
  <1>6. \A k \in Nat : k + 1 # 1 => 1 < k + 1
    OBVIOUS
  <1>7. \A k, l \in DOMAIN calls' : (k # l => k + 1 # l + 1) /\ (k < l => k + 1 < l + 1)
    BY <1>2
  <1>8. \A kind, p : p \in Waiting(kind) => p \in Waiting(kind)' \/ (kind = Top.kind /\ p = Top.pic)
    <2>1. TAKE kind, p
    <2>2. HAVE p \in Waiting(kind)
    <2>3. PICK n \in DOMAIN calls : calls[n].kind = kind /\ calls[n].pic = p
      BY <2>2, WaitingIs
    <2>4. CASE n = 1
      BY <1>1, <2>3, <2>4
    <2>5. CASE n # 1
      <3>1. n - 1 \in DOMAIN calls' /\ calls'[n - 1].kind = kind /\ calls'[n - 1].pic = p
        BY <1>2, <2>3, <2>5
      <3>2. QED
        BY <3>1, WaitingWillBe
    <2>6. QED
      BY <2>4, <2>5
  <1>9. QED
    BY <1>2, <1>4, <1>5, <1>6, <1>7, <1>8

\* What a completion's slot is at its draft.
LEMMA AtDraft ==
  ASSUME WayInv, ~Idle, Top.step = "draft"
  PROVE  /\ Top.then = "draft" /\ Top.kind \in {"tx", "rx"} /\ Top.path \in {0} \cup Images
         /\ Top.audio \in {0, Top.pic}
         /\ Top.kind = "tx" => /\ Top.audio = 0 /\ Top.path \in {0, stash} /\ Picture = stash
                               /\ Top.pic \in clobbered \/ stash = Top.pic
                               /\ \A c \in Images : Under(c) => c \in clobbered /\ stash \in {0} \cup clobbered
                               /\ \A n \in DOMAIN calls : n # 1 /\ calls[n].kind = "tx" =>
                                    calls[n].pic \in clobbered
         /\ Top.kind = "rx" => /\ Top.path \in {0, Top.pic} /\ Picture = Top.pic /\ Held(Top.pic)
                               /\ Top.pic \notin due /\ key[Top.pic] # 0
                               /\ \A n \in DOMAIN calls : n # 1 => calls[n].pic # Top.pic
  <1>1. /\ 1 \in DOMAIN calls /\ Top = calls[1] /\ Top \in Tasks /\ SlotOk(Top) /\ calls \in Seq(Tasks)
        /\ Made \subseteq Images /\ Top.pic \in Made
    BY TopIs
  <1>2. /\ Top.then = "draft" /\ Top.kind \in {"tx", "rx"} /\ Top.path \in {0} \cup Images
        /\ Top.audio \in {0, Top.pic}
        /\ Top.kind = "tx" => Top.audio = 0 /\ Top.path \in {0, stash}
        /\ Top.kind = "rx" => Top.path \in {0, Top.pic}
    BY <1>1 DEF SlotOk, Tasks
  <1>3. /\ Top.kind = "tx" => Picture = stash
        /\ Top.kind = "rx" => Picture = Top.pic
    BY <1>2 DEF Picture
  <1>4. ASSUME Top.kind = "tx"
        PROVE  /\ Top.pic \in clobbered \/ stash = Top.pic
               /\ \A c \in Images : Under(c) => c \in clobbered /\ stash \in {0} \cup clobbered
    BY <1>1, <1>2, <1>4 DEF WayInv, Turns
  <1>5. ASSUME Top.kind = "tx"
        PROVE  \A n \in DOMAIN calls : n # 1 /\ calls[n].kind = "tx" => calls[n].pic \in clobbered
    <2>1. \A n \in DOMAIN calls : n # 1 => 1 < n
      BY <1>1
    <2>2. QED
      BY <1>1, <1>5, <2>1 DEF WayInv, Turns
  <1>6. ASSUME Top.kind = "rx"
        PROVE  /\ Held(Top.pic) /\ Top.pic \notin due /\ key[Top.pic] # 0
               /\ \A n \in DOMAIN calls : n # 1 => calls[n].pic # Top.pic
    <2>1. key[Top.pic] # 0 /\ Top.pic \notin due /\ Held(Top.pic)
      BY <1>1, <1>2, <1>6 DEF WayInv, Sides, Held, Holds
    <2>2. \A n \in DOMAIN calls : n # 1 => calls[n].pic # Top.pic
      BY <1>1, <1>6, <2>1 DEF WayInv, Sides, HeldOnce, Holds
    <2>3. QED
      BY <2>1, <2>2
  <1>7. QED
    BY <1>2, <1>3, <1>4, <1>5, <1>6

\* It goes on to be logged without a question.
LEMMA DraftSilentWay ==
  ASSUME WayInv, ~Idle, Top.step = "draft", NEW t \in Tasks, calls' = [calls EXCEPT ![1] = t],
         t.kind = Top.kind, t.pic = Picture, t.path = Top.path, t.audio = Top.audio, t.then = "insert",
         t.step \in {"save", "insert"}, t.step = "save" => t.path = 0,
         opt.autoLog \/ dialog # NoForm,
         Top.kind = "tx" => stash # 0,
         due \subseteq due', due' \subseteq due \cup (IF Top.kind = "rx" THEN {Top.pic} ELSE {}),
         UNCHANGED <<opt, engaged, made, air, wire, stash, sound, dialog, strip, key, waived,
                     clobbered, logged>>
  PROVE  WayInv'
  <1>1. /\ calls \in Seq(Tasks) /\ calls # <<>> /\ 1 \in DOMAIN calls /\ Top = calls[1]
        /\ Top \in Tasks /\ Top.pic \in Made /\ 0 \notin Made /\ stash \in {0} \cup Made
    BY TopIs
  <1>2. /\ calls' \in Seq(Tasks) /\ DOMAIN calls' = DOMAIN calls
        /\ calls'[1] = t /\ \A k \in DOMAIN calls : k # 1 => calls'[k] = calls[k]
    BY <1>1, TopChanged
  <1>3. /\ t.kind \in {"tx", "rx"}
        /\ t.kind = "tx" => t.pic = stash /\ t.pic # 0
        /\ t.kind = "rx" => t.pic = Top.pic
    BY AtDraft
  <1>4. t.pic \in Made
    BY <1>1, <1>3
  <1>5. CapTypes'
    <2>1. \A n \in DOMAIN calls' : calls'[n].pic \in Made
      BY <1>2, <1>4 DEF WayInv, CapTypes
    <2>2. due' \subseteq Made /\ Made' = Made
      BY <1>1 DEF WayInv, CapTypes, Made
    <2>3. QED
      BY <1>2, <2>1, <2>2 DEF WayInv, CapTypes
  <1>6. Slots'
    <2>1. SlotOk(t)
      BY <1>3, AtDraft DEF SlotOk
    <2>2. \A n \in DOMAIN calls' : SlotOk(calls'[n]) /\ (n # 1 => calls'[n].step = "warned")
      BY <1>2, <2>1 DEF WayInv, Slots
    <2>3. dialog # NoForm => dialog.path \in {0, dialog.pic} /\ dialog.audio \in {0, dialog.pic}
      BY DEF WayInv, Slots
    <2>4. QED
      BY <2>2, <2>3 DEF Slots, SlotOk
  <1>7. \A k \in DOMAIN calls : calls'[k].kind = calls[k].kind /\ (Holds(k) => calls'[k].pic = calls[k].pic)
    BY <1>1, <1>2, <1>3 DEF Holds
  <1>8. \A p : Held(p)' <=> Held(p)
    BY <1>2, <1>7 DEF Held, Holds
  <1>9. HeldOnce'
    <2>1. /\ \A n, m \in DOMAIN calls' : calls'[n].kind # "tx" /\ calls'[m].kind # "tx" /\ n # m =>
                calls'[n].pic # calls'[m].pic
          /\ \A n \in DOMAIN calls' : calls'[n].kind # "tx" =>
                calls'[n].pic # stash /\ (dialog # NoForm => calls'[n].pic # dialog.pic)
          /\ dialog # NoForm => dialog.pic # stash
      BY <1>2, <1>7 DEF WayInv, HeldOnce, Holds
    <2>2. \A n \in DOMAIN calls' : calls'[n].kind = "tx" /\ calls'[n].then = "insert" =>
            /\ \A m \in DOMAIN calls' : calls'[m].kind # "tx" => calls'[m].pic # calls'[n].pic
            /\ dialog # NoForm => dialog.pic # calls'[n].pic
      <3>1. TAKE n \in DOMAIN calls'
      <3>2. CASE n = 1
        BY <1>2, <1>3, <2>1, <3>2
      <3>3. CASE n # 1
        BY <1>2, <1>7, <3>3 DEF WayInv, HeldOnce, Holds
      <3>4. QED
        BY <3>2, <3>3
    <2>3. \A p \in logged : ~Held(p)'
      BY <1>8 DEF WayInv, HeldOnce
    <2>4. QED
      BY <2>1, <2>2, <2>3 DEF HeldOnce, Holds
  <1>10. \A p \in due' : p \in due \/ (p = Top.pic /\ Top.kind = "rx")
    OBVIOUS
  <1>11. Arrivals'
    <2>1. \A n \in DOMAIN calls' : Held(calls'[n].pic) \/ calls'[n].pic = calls[n].pic
      BY <1>1, <1>2, <1>3 DEF Held
    <2>2. \A k \in DOMAIN wire : Brings(wire[k]) => \A n \in DOMAIN calls' : calls'[n].pic # wire[k].of
      BY <1>2, <2>1 DEF WayInv, Arrivals
    <2>3. \A k \in DOMAIN wire : wire[k].kind \in {"image", "offline"} => wire[k].of \notin due'
      BY <1>10, AtDraft DEF WayInv, Arrivals, Brings
    <2>4. QED
      BY <1>8, <2>2, <2>3 DEF WayInv, Arrivals, Brings
  <1>12. Sides'
    <2>1. \A n \in DOMAIN calls' : /\ calls'[n].kind = "tx" => key[calls'[n].pic] = 0
                                   /\ calls'[n].kind = "rx" => key[calls'[n].pic] # 0
                                   /\ calls'[n].kind = "rx" /\ calls'[n].then = "draft" =>
                                        calls'[n].pic \notin due'
      <3>1. TAKE n \in DOMAIN calls'
      <3>2. CASE n = 1
        BY <1>1, <1>2, <1>3, <3>2, AtDraft DEF WayInv, Sides
      <3>3. CASE n # 1
        BY <1>2, <1>10, <3>3, AtDraft DEF WayInv, Sides
      <3>4. QED
        BY <3>2, <3>3
    <2>2. QED
      BY <2>1 DEF WayInv, Sides
  <1>13. OneAtATime' /\ SoundInv'
    BY DEF WayInv, OneAtATime, Prepared, Ended, SoundInv
  <1>14. Turns'
    <2>1. \A c \in Images : Under(c)' = Under(c)
      BY DEF Under, Prepared, Ended
    <2>2. \A c \in Images : Under(c) =>
           /\ stash = c \/ c \in clobbered
           /\ \A n \in DOMAIN calls' : calls'[n].kind = "tx" =>
                calls'[n].pic \in clobbered /\ c \in clobbered /\ stash \in {0} \cup clobbered
      <3>1. TAKE c \in Images
      <3>2. HAVE Under(c)
      <3>3. stash = c \/ c \in clobbered
        BY <3>2 DEF WayInv, Turns
      <3>4. \A n \in DOMAIN calls : calls[n].kind = "tx" =>
              calls[n].pic \in clobbered /\ c \in clobbered /\ stash \in {0} \cup clobbered
        BY <3>2 DEF WayInv, Turns
      <3>5. QED
        BY <1>1, <1>2, <1>3, <3>3, <3>4
    <2>3. \A n, m \in DOMAIN calls' : n < m /\ calls'[n].kind = "tx" /\ calls'[m].kind = "tx" =>
            calls'[m].pic \in clobbered
      <3>1. \A n, m \in DOMAIN calls' : n < m => m # 1
        BY <1>2
      <3>2. QED
        BY <1>2, <1>7, <3>1 DEF WayInv, Turns
    <2>4. \A n \in DOMAIN calls' : calls'[n].kind = "tx" /\ calls'[n].then = "draft" =>
            calls'[n].pic \in clobbered \/ stash = calls'[n].pic
      BY <1>2 DEF WayInv, Turns
    <2>5. QED
      BY <2>1, <2>2, <2>3, <2>4 DEF Turns
  <1>15. ContactsKept'
    <2>1. \A kind, p : p \in Waiting(kind) => p \in Waiting(kind)' \/ (kind = Top.kind /\ p = Top.pic)
      BY <1>1, <1>2, WaitingIs, WaitingWillBe
    <2>2. t.pic \in Waiting(t.kind)'
      BY <1>1, <1>2, WaitingWillBe
    <2>3. Top.pic \in clobbered \/ Top.pic \in InHand'
      BY <1>3, <2>2, AtDraft DEF InHand
    <2>4. \A p : p \in InHand => p \in InHand' \/ p \in clobbered
      BY <2>1, <2>3 DEF InHand
    <2>5. QED
      BY <1>10, <2>3, <2>4 DEF WayInv, ContactsKept, Kept
  <1>16. QED
    BY <1>5, <1>6, <1>9, <1>11, <1>12, <1>13, <1>14, <1>15 DEF WayInv

LEMMA TaskNoForm == \A t \in Tasks : t # NoForm
  <1>1. TAKE t \in Tasks
  <1>2. "kind" \in DOMAIN t
    BY DEF Tasks
  <1>3. DOMAIN NoForm = {"open"}
    BY DEF NoForm
  <1>4. QED
    BY <1>2, <1>3

\* It is left to the dialog, or to nobody.
LEMMA DraftReturnsWay ==
  ASSUME WayInv, ~Idle, Top.step = "draft", calls' = Tail(calls),
         \/ dialog' = dialog
         \/ /\ dialog = NoForm /\ dialog' \in Tasks /\ ~opt.autoLog
            /\ dialog'.pic = Picture /\ dialog'.path = Top.path /\ dialog'.audio = Top.audio
            /\ dialog'.then = "insert" /\ (Top.kind = "tx" => stash # 0),
         Top.pic \in due' => dialog' # dialog \/ Top.pic \in clobbered \cup waived',
         stash' = IF Top.kind = "tx" THEN 0 ELSE stash,
         due \subseteq due', due' \subseteq due \cup (IF Top.kind = "rx" THEN {Top.pic} ELSE {}),
         waived \subseteq waived',
         UNCHANGED <<opt, engaged, made, air, wire, sound, strip, key, clobbered, logged>>
  PROVE  WayInv'
  <1>1. /\ calls \in Seq(Tasks) /\ calls # <<>> /\ 1 \in DOMAIN calls /\ Top = calls[1]
        /\ Top \in Tasks /\ Top.pic \in Made /\ 0 \notin Made /\ stash \in {0} \cup Made
    BY TopIs
  <1>2. /\ calls' \in Seq(Tasks)
        /\ \A k \in DOMAIN calls' : /\ k + 1 \in DOMAIN calls /\ k + 1 # 1 /\ calls'[k] = calls[k + 1]
                                    /\ SlotOk(calls'[k]) /\ calls'[k].step = "warned"
                                    /\ calls'[k].path = 0
        /\ \A k, l \in DOMAIN calls' : (k # l => k + 1 # l + 1) /\ (k < l => k + 1 < l + 1)
    BY SlotReturns
  <1>3. /\ Top.kind \in {"tx", "rx"} /\ Top.audio \in {0, Top.pic}
        /\ Top.kind = "tx" => Picture = stash /\ Top.path \in {0, stash} /\ Top.audio = 0
        /\ Top.kind = "rx" => Picture = Top.pic /\ Top.path \in {0, Top.pic} /\ Held(Top.pic)
                              /\ \A n \in DOMAIN calls : n # 1 => calls[n].pic # Top.pic
    BY AtDraft
  <1>4. /\ dialog' = NoForm \/ dialog' \in Tasks
        /\ dialog' # NoForm => /\ dialog'.pic \in Made' /\ dialog'.then = "insert"
                               /\ dialog'.path \in {0, dialog'.pic} /\ dialog'.audio \in {0, dialog'.pic}
                               /\ Held(dialog'.pic) /\ dialog'.pic # stash'
                               /\ \A n \in DOMAIN calls' : calls'[n].kind # "tx" => calls'[n].pic # dialog'.pic
                               /\ \A n \in DOMAIN calls' :
                                    calls'[n].kind = "tx" /\ calls'[n].then = "insert" =>
                                      calls'[n].pic # dialog'.pic
        /\ \A n \in DOMAIN calls' : calls'[n].kind = "tx" /\ calls'[n].then = "insert" =>
                                      opt.autoLog \/ dialog' # NoForm
    <2>1. CASE dialog' # dialog
      <3> DEFINE t == dialog'
      <3>1. /\ dialog = NoForm /\ dialog' = t /\ t \in Tasks /\ ~opt.autoLog /\ dialog' # NoForm
            /\ t.pic = Picture /\ t.path = Top.path /\ t.audio = Top.audio /\ t.then = "insert"
            /\ Top.kind = "tx" => stash # 0
        BY <2>1, TaskNoForm
      <3> HIDE DEF t
      <3>2. t.pic \in Made /\ Held(t.pic) /\ t.pic # stash'
        <4>1. CASE Top.kind = "tx"
          BY <1>1, <1>3, <3>1, <4>1 DEF Held
        <4>2. CASE Top.kind = "rx"
          BY <1>1, <1>3, <3>1, <4>2 DEF WayInv, HeldOnce, Holds
        <4>3. QED
          BY <1>3, <4>1, <4>2
      <3>3. \A n \in DOMAIN calls' : calls'[n].kind # "tx" => calls'[n].pic # t.pic
        <4>1. TAKE n \in DOMAIN calls'
        <4>2. CASE Top.kind = "tx"
          BY <1>2, <1>3, <3>1, <4>2 DEF WayInv, HeldOnce, Holds
        <4>3. CASE Top.kind = "rx"
          BY <1>2, <1>3, <3>1, <4>3
        <4>4. QED
          BY <1>3, <4>2, <4>3
      <3>4. \A n \in DOMAIN calls' : ~(calls'[n].kind = "tx" /\ calls'[n].then = "insert")
        BY <1>2, <3>1 DEF WayInv, Slots
      <3>5. /\ t.path \in {0, t.pic} /\ t.audio \in {0, t.pic}
        BY <1>3, <3>1
      <3>6. dialog'.pic \in Made' /\ dialog'.then = "insert" /\ dialog' \in Tasks
        BY <3>1, <3>2 DEF Made
      <3>7. QED
        BY <3>1, <3>2, <3>3, <3>4, <3>5, <3>6
    <2>2. CASE dialog' = dialog
      <3>1. dialog # NoForm => Held(dialog.pic) /\ dialog.pic # stash' /\ dialog.pic \in Made'
        BY <1>1, <2>2 DEF WayInv, HeldOnce, Held, CapTypes, Made
      <3>2. \A n \in DOMAIN calls' : dialog # NoForm =>
              /\ calls'[n].kind # "tx" => calls'[n].pic # dialog.pic
              /\ calls'[n].kind = "tx" /\ calls'[n].then = "insert" => calls'[n].pic # dialog.pic
        BY <1>2 DEF WayInv, HeldOnce, Holds
      <3>3. QED
        BY <1>2, <2>2, <3>1, <3>2 DEF WayInv, CapTypes, Slots
    <2>3. QED
      BY <2>1, <2>2
  <1>5. CapTypes'
    <2>1. \A n \in DOMAIN calls' : calls'[n].pic \in Made
      BY <1>2 DEF WayInv, CapTypes
    <2>2. due' \subseteq Made /\ Made' = Made /\ stash' \in {0} \cup Made
      BY <1>1 DEF WayInv, CapTypes, Made
    <2>3. QED
      BY <1>2, <1>4, <2>1, <2>2 DEF WayInv, CapTypes
  <1>6. Slots'
    BY <1>2, <1>4 DEF Slots, SlotOk
  <1>7. \A p : Held(p)' => Held(p) \/ p = 0
    BY <1>2, <1>4 DEF Held, Holds
  <1>8. HeldOnce'
    <2>1. \A n, m \in DOMAIN calls' : calls'[n].kind # "tx" /\ calls'[m].kind # "tx" /\ n # m =>
            calls'[n].pic # calls'[m].pic
      BY <1>2 DEF WayInv, HeldOnce, Holds
    <2>2. \A n \in DOMAIN calls' : calls'[n].pic \in Made
      BY <1>2 DEF WayInv, CapTypes
    <2>3. \A n \in DOMAIN calls' : calls'[n].kind # "tx" => calls'[n].pic # stash'
      BY <1>1, <1>2, <2>2 DEF WayInv, HeldOnce, Holds
    <2>4. \A n \in DOMAIN calls' : calls'[n].kind = "tx" /\ calls'[n].then = "insert" =>
            \A m \in DOMAIN calls' : calls'[m].kind # "tx" => calls'[m].pic # calls'[n].pic
      BY <1>2 DEF WayInv, HeldOnce, Holds
    <2>5. \A p \in logged : ~Held(p)'
      BY <1>1, <1>7 DEF WayInv, HeldOnce, CapTypes
    <2>6. QED
      BY <1>4, <2>1, <2>3, <2>4, <2>5 DEF HeldOnce, Holds
  <1>9. \A p \in due' : p \in due \/ (p = Top.pic /\ Top.kind = "rx")
    OBVIOUS
  <1>10. Arrivals'
    <2>1. \A k \in DOMAIN wire : wire[k].of \in Made
      BY DEF WayInv, CapTypes
    <2>2. \A k \in DOMAIN wire : Brings(wire[k]) => ~Held(wire[k].of)'
      BY <1>1, <1>7, <2>1 DEF WayInv, Arrivals
    <2>3. \A k \in DOMAIN wire : wire[k].kind \in {"image", "offline"} => wire[k].of \notin due'
      BY <1>3, <1>9 DEF WayInv, Arrivals, Brings
    <2>4. \A k \in DOMAIN wire : Brings(wire[k]) => \A n \in DOMAIN calls' : calls'[n].pic # wire[k].of
      BY <1>2 DEF WayInv, Arrivals
    <2>5. QED
      BY <2>2, <2>3, <2>4 DEF WayInv, Arrivals, Brings
  <1>11. Sides'
    <2>1. \A n \in DOMAIN calls' : /\ calls'[n].kind = "tx" => key[calls'[n].pic] = 0
                                   /\ calls'[n].kind = "rx" => key[calls'[n].pic] # 0
                                   /\ calls'[n].kind = "rx" /\ calls'[n].then = "draft" =>
                                        calls'[n].pic \notin due
      BY <1>2 DEF WayInv, Sides
    <2>2. \A n \in DOMAIN calls' : Top.kind = "rx" => calls'[n].pic # Top.pic
      BY <1>2, <1>3
    <2>3. stash' # 0 => key[stash'] = 0
      BY DEF WayInv, Sides
    <2>4. QED
      BY <1>9, <2>1, <2>2, <2>3 DEF WayInv, Sides
  <1>12. OneAtATime' /\ SoundInv'
    BY DEF WayInv, OneAtATime, Prepared, Ended, SoundInv
  <1>13. Turns'
    <2>1. \A c \in Images : Under(c)' = Under(c)
      BY DEF Under, Prepared, Ended
    <2>2. \A c \in Images : Under(c) =>
           /\ stash' = c \/ c \in clobbered
           /\ \A n \in DOMAIN calls' : calls'[n].kind = "tx" =>
                calls'[n].pic \in clobbered /\ c \in clobbered /\ stash' \in {0} \cup clobbered
      <3>1. TAKE c \in Images
      <3>2. HAVE Under(c)
      <3>3. stash = c \/ c \in clobbered
        BY <3>2 DEF WayInv, Turns
      <3>4. \A n \in DOMAIN calls : calls[n].kind = "tx" =>
              calls[n].pic \in clobbered /\ c \in clobbered /\ stash \in {0} \cup clobbered
        BY <3>2 DEF WayInv, Turns
      <3>5. QED
        BY <1>1, <1>2, <3>3, <3>4
    <2>3. \A n, m \in DOMAIN calls' : n < m /\ calls'[n].kind = "tx" /\ calls'[m].kind = "tx" =>
            calls'[m].pic \in clobbered
      BY <1>2 DEF WayInv, Turns
    <2>4. \A n \in DOMAIN calls' : calls'[n].kind = "tx" /\ calls'[n].then = "draft" =>
            calls'[n].pic \in clobbered \/ stash' = calls'[n].pic
      <3>1. CASE Top.kind = "tx"
        BY <1>2, <3>1, AtDraft
      <3>2. CASE Top.kind # "tx"
        BY <1>2, <3>2 DEF WayInv, Turns
      <3>3. QED
        BY <3>1, <3>2
    <2>5. QED
      BY <2>1, <2>2, <2>3, <2>4 DEF Turns
  <1>14. ContactsKept'
    <2>1. \A kind, p : p \in Waiting(kind) => p \in Waiting(kind)' \/ p = Top.pic
      BY SlotReturns
    <2>2. dialog # NoForm => dialog' = dialog
      OBVIOUS
    <2>3. \A p : p \in InHand => p \in InHand' \/ p = Top.pic
      BY <2>1, <2>2 DEF InHand
    <2>4. dialog' # dialog => dialog'.pic \in InHand'
      BY TaskNoForm DEF InHand
    <2>5. Top.pic \in due' => Top.pic \in InHand' \cup clobbered \cup waived'
      <3>1. dialog' # dialog => Top.pic \in clobbered \/ Top.pic = dialog'.pic
        BY <1>3, AtDraft
      <3>2. QED
        BY <2>4, <3>1
    <2>6. QED
      BY <1>9, <2>3, <2>5 DEF WayInv, ContactsKept, Kept
  <1>15. QED
    BY <1>5, <1>6, <1>8, <1>10, <1>11, <1>12, <1>13, <1>14 DEF WayInv

LEMMA DraftQsoWay == ASSUME WayInv, DraftQso PROVE WayInv'
  <1> DEFINE mine == Top.kind = "tx" \/ engaged
             wants == ~closing /\ IF Top.kind = "tx" THEN stash # 0 ELSE Logs
             task == [Top EXCEPT !.pic = Picture, !.then = "insert",
                                 !.call = Top.kind = "tx" /\ engaged]
             silent == [task EXCEPT !.step = Silently(task.pic, task.path)]
  <1>1. /\ ~Idle /\ Top.step = "draft"
        /\ \/ /\ wants /\ SilentWhen(mine)
              /\ calls' = [calls EXCEPT ![1] = silent] /\ dialog' = dialog
           \/ /\ ~(wants /\ SilentWhen(mine))
              /\ calls' = Tail(calls)
              /\ dialog' = IF wants /\ dialog = NoForm THEN task ELSE dialog
        /\ stash' = IF Top.kind = "tx" /\ ~(wants /\ SilentWhen(mine)) THEN 0 ELSE stash
        /\ due' = IF Top.kind = "rx" /\ wants /\ (opt.autoLog \/ mine) THEN due \cup {Top.pic} ELSE due
        /\ waived' = IF closing THEN waived \cup {Top.pic} ELSE waived
        /\ UNCHANGED <<opt, engaged, made, air, wire, sound, strip, key, clobbered, logged>>
    BY DEF DraftQso, Return
  <1>2. /\ Top \in Tasks /\ Top.pic \in Made /\ Made \subseteq Images /\ 0 \notin Made
        /\ stash \in {0} \cup Made /\ Top.then = "draft" /\ Top.kind \in {"tx", "rx"}
        /\ Top.kind = "tx" => Picture = stash /\ (Top.pic \in clobbered \/ stash = Top.pic)
        /\ Top.kind = "rx" => Picture = Top.pic /\ Top.pic \notin due
    BY <1>1, TopIs, AtDraft
  <1>3. engaged \in BOOLEAN
    BY DEF WayInv, CapTypes
  <1>4. Picture \in Images =>
          /\ task \in Tasks /\ task.pic = Picture /\ task.path = Top.path /\ task.audio = Top.audio
          /\ task.then = "insert" /\ task.kind = Top.kind /\ task.step = "draft"
    BY <1>1, <1>2, <1>3 DEF Tasks
  <1>5. /\ due \subseteq due' /\ due' \subseteq due \cup (IF Top.kind = "rx" THEN {Top.pic} ELSE {})
        /\ waived \subseteq waived'
    BY <1>1
  <1> HIDE DEF task
  <1>6. CASE wants /\ SilentWhen(mine)
    <2>1. Picture \in Images /\ (Top.kind = "tx" => stash # 0) /\ ~closing
      BY <1>2, <1>6
    <2>2. /\ calls' = [calls EXCEPT ![1] = silent] /\ dialog' = dialog /\ stash' = stash
          /\ waived' = waived
      BY <1>1, <1>6, <2>1
    <2>3. opt.autoLog \/ dialog # NoForm
      BY <1>6 DEF SilentWhen
    <2>4. /\ silent \in Tasks /\ silent.pic = Picture /\ silent.path = Top.path
          /\ silent.audio = Top.audio /\ silent.then = "insert" /\ silent.kind = Top.kind
          /\ silent.step \in {"save", "insert"} /\ (silent.step = "save" => silent.path = 0)
      BY <1>4, <2>1 DEF Silently, Tasks
    <2> HIDE DEF silent
    <2>5. QED
      BY <1>1, <1>5, <2>1, <2>2, <2>3, <2>4, DraftSilentWay
  <1>7. CASE ~(wants /\ SilentWhen(mine))
    <2>1. /\ calls' = Tail(calls) /\ stash' = IF Top.kind = "tx" THEN 0 ELSE stash
          /\ dialog' = IF wants /\ dialog = NoForm THEN task ELSE dialog
      BY <1>1, <1>7
    <2>2. CASE wants /\ dialog = NoForm
      <3>1. Picture \in Images /\ (Top.kind = "tx" => stash # 0)
        BY <1>2, <2>2
      <3>2. ~opt.autoLog
        BY <1>7, <2>2 DEF SilentWhen
      <3>3. dialog' = task /\ dialog = NoForm
        BY <2>1, <2>2
      <3>4. dialog' \in Tasks /\ dialog' # dialog
        BY <1>4, <3>1, <3>3, TaskNoForm
      <3> HIDE DEF wants, mine
      <3>5. QED
        BY <1>1, <1>4, <1>5, <2>1, <3>1, <3>2, <3>3, <3>4, DraftReturnsWay
    <2>3. CASE ~(wants /\ dialog = NoForm)
      <3>1. dialog' = dialog
        BY <2>1, <2>3
      <3>2. Top.pic \in due' => Top.pic \in clobbered \cup waived'
        <4>1. CASE Top.kind = "tx"
          <5>1. mine /\ (wants => dialog # NoForm)
            BY <2>3, <4>1
          <5>2. ~wants
            BY <1>7, <5>1 DEF SilentWhen
          <5>3. closing \/ stash = 0
            BY <4>1, <5>2
          <5>4. QED
            BY <1>1, <1>2, <4>1, <5>3
        <4>2. CASE Top.kind = "rx"
          <5>1. ~(wants /\ (opt.autoLog \/ mine))
            BY <1>7, <2>3 DEF SilentWhen
          <5>2. QED
            BY <1>1, <1>2, <4>2, <5>1
        <4>3. QED
          BY <1>2, <4>1, <4>2
      <3>3. QED
        BY <1>1, <1>5, <2>1, <3>1, <3>2, DraftReturnsWay
    <2>4. QED
      BY <2>2, <2>3
  <1>8. QED
    BY <1>6, <1>7

LEMMA InsertQsoWay == ASSUME WayInv, InsertQso PROVE WayInv'
  <1> PICK p : p = Top.pic
    OBVIOUS
  <1>1. /\ ~Idle /\ Top.step = "insert" /\ calls' = Tail(calls)
        /\ stash' = IF Top.kind = "tx" THEN 0 ELSE stash
        /\ \/ logged' = logged \cup {p} /\ waived' = waived
           \/ waived' = waived \cup {p} /\ logged' = logged
        /\ UNCHANGED <<opt, engaged, made, air, wire, sound, dialog, strip, key, due, clobbered>>
    BY DEF InsertQso, Return
  <1>2. /\ calls \in Seq(Tasks) /\ calls # <<>> /\ 1 \in DOMAIN calls /\ Top = calls[1]
        /\ Top \in Tasks /\ SlotOk(Top) /\ p \in Made /\ 0 \notin Made /\ stash \in {0} \cup Made
        /\ Top.then = "insert"
    BY <1>1, TopIs DEF SlotOk
  <1>3. /\ calls' \in Seq(Tasks)
        /\ \A k \in DOMAIN calls' : /\ k + 1 \in DOMAIN calls /\ k + 1 # 1 /\ calls'[k] = calls[k + 1]
                                    /\ SlotOk(calls'[k]) /\ calls'[k].step = "warned"
                                    /\ calls'[k].path = 0 /\ 1 < k + 1
        /\ \A k, l \in DOMAIN calls' : (k # l => k + 1 # l + 1) /\ (k < l => k + 1 < l + 1)
        /\ \A kind, q : q \in Waiting(kind) => q \in Waiting(kind)' \/ (kind = Top.kind /\ q = p)
    BY <1>1, SlotReturns
  <1>4. CapTypes'
    <2>1. \A n \in DOMAIN calls' : calls'[n].pic \in Made
      BY <1>3 DEF WayInv, CapTypes
    <2>2. logged' \subseteq Made /\ Made' = Made /\ stash' \in {0} \cup Made
      BY <1>1, <1>2 DEF WayInv, CapTypes, Made
    <2>3. QED
      BY <1>1, <1>3, <2>1, <2>2 DEF WayInv, CapTypes
  <1>5. Slots'
    <2>1. \A n \in DOMAIN calls' : calls'[n].kind = "tx" /\ calls'[n].then = "insert" =>
                                    opt.autoLog \/ dialog # NoForm
      BY <1>3 DEF WayInv, Slots
    <2>2. dialog # NoForm => dialog.path \in {0, dialog.pic} /\ dialog.audio \in {0, dialog.pic}
      BY DEF WayInv, Slots
    <2>3. QED
      BY <1>1, <1>3, <2>1, <2>2 DEF Slots, SlotOk
  <1>6. \A q : Held(q)' => Held(q) \/ q = 0
    BY <1>1, <1>3 DEF Held, Holds
  <1>7. ~Held(p)'
    <2>1. p # stash'
      BY <1>1, <1>2 DEF WayInv, HeldOnce, Holds
    <2>2. dialog # NoForm => dialog.pic # p
      BY <1>2 DEF WayInv, HeldOnce, Holds
    <2>3. \A n \in DOMAIN calls' : calls'[n].kind # "tx" => calls'[n].pic # p
      BY <1>2, <1>3 DEF WayInv, HeldOnce, Holds
    <2>4. QED
      BY <1>1, <2>1, <2>2, <2>3 DEF Held, Holds
  <1>8. HeldOnce'
    <2>1. /\ \A n, m \in DOMAIN calls' : calls'[n].kind # "tx" /\ calls'[m].kind # "tx" /\ n # m =>
               calls'[n].pic # calls'[m].pic
          /\ \A n \in DOMAIN calls' : calls'[n].kind = "tx" /\ calls'[n].then = "insert" =>
               /\ \A m \in DOMAIN calls' : calls'[m].kind # "tx" => calls'[m].pic # calls'[n].pic
               /\ dialog # NoForm => dialog.pic # calls'[n].pic
          /\ \A n \in DOMAIN calls' : calls'[n].kind # "tx" => (dialog # NoForm => calls'[n].pic # dialog.pic)
      BY <1>3 DEF WayInv, HeldOnce, Holds
    <2>2. \A n \in DOMAIN calls' : calls'[n].pic \in Made
      BY <1>3 DEF WayInv, CapTypes
    <2>3. \A n \in DOMAIN calls' : calls'[n].kind # "tx" => calls'[n].pic # stash'
      BY <1>1, <1>2, <1>3, <2>2 DEF WayInv, HeldOnce, Holds
    <2>4. dialog # NoForm => dialog.pic # stash'
      BY <1>1, <1>2 DEF WayInv, HeldOnce, CapTypes
    <2>5. \A q \in logged' : ~Held(q)'
      BY <1>1, <1>2, <1>6, <1>7 DEF WayInv, HeldOnce, CapTypes
    <2>6. QED
      BY <1>1, <2>1, <2>3, <2>4, <2>5 DEF HeldOnce, Holds
  <1>9. Arrivals'
    <2>1. \A k \in DOMAIN wire : wire[k].of \in Made
      BY DEF WayInv, CapTypes
    <2>2. \A k \in DOMAIN wire : Brings(wire[k]) => ~Held(wire[k].of)'
      BY <1>1, <1>2, <1>6, <2>1 DEF WayInv, Arrivals
    <2>3. \A k \in DOMAIN wire : Brings(wire[k]) =>
            wire[k].of # p /\ \A n \in DOMAIN calls' : calls'[n].pic # wire[k].of
      BY <1>2, <1>3 DEF WayInv, Arrivals
    <2>4. QED
      BY <1>1, <2>2, <2>3 DEF WayInv, Arrivals, Brings
  <1>10. Sides'
    <2>1. \A n \in DOMAIN calls' : /\ calls'[n].kind = "tx" => key[calls'[n].pic] = 0
                                   /\ calls'[n].kind = "rx" => key[calls'[n].pic] # 0
                                   /\ calls'[n].kind = "rx" /\ calls'[n].then = "draft" =>
                                        calls'[n].pic \notin due
      BY <1>3 DEF WayInv, Sides
    <2>2. stash' # 0 => key[stash'] = 0
      BY <1>1 DEF WayInv, Sides
    <2>3. QED
      BY <1>1, <2>1, <2>2 DEF WayInv, Sides
  <1>11. OneAtATime' /\ SoundInv'
    BY <1>1 DEF WayInv, OneAtATime, Prepared, Ended, SoundInv
  <1>12. Turns'
    <2>1. \A c \in Images : Under(c)' = Under(c)
      BY <1>1 DEF Under, Prepared, Ended
    <2>2. \A c \in Images : Under(c) =>
           /\ stash' = c \/ c \in clobbered
           /\ \A n \in DOMAIN calls' : calls'[n].kind = "tx" =>
                calls'[n].pic \in clobbered /\ c \in clobbered /\ stash' \in {0} \cup clobbered
      <3>1. TAKE c \in Images
      <3>2. HAVE Under(c)
      <3>3. stash = c \/ c \in clobbered
        BY <3>2 DEF WayInv, Turns
      <3>4. \A n \in DOMAIN calls : calls[n].kind = "tx" =>
              calls[n].pic \in clobbered /\ c \in clobbered /\ stash \in {0} \cup clobbered
        BY <3>2 DEF WayInv, Turns
      <3>5. QED
        BY <1>1, <1>2, <1>3, <3>3, <3>4
    <2>3. \A n, m \in DOMAIN calls' : n < m /\ calls'[n].kind = "tx" /\ calls'[m].kind = "tx" =>
            calls'[m].pic \in clobbered
      BY <1>3 DEF WayInv, Turns
    <2>4. \A n \in DOMAIN calls' : calls'[n].kind = "tx" /\ calls'[n].then = "draft" =>
            calls'[n].pic \in clobbered \/ stash' = calls'[n].pic
      <3>1. CASE Top.kind = "tx"
        <4>1. \A n \in DOMAIN calls' : calls'[n].kind = "tx" => calls'[n].pic \in clobbered
          BY <1>2, <1>3, <3>1 DEF WayInv, Turns
        <4>2. QED
          BY <4>1
      <3>2. CASE Top.kind # "tx"
        BY <1>1, <1>3, <3>2 DEF WayInv, Turns
      <3>3. QED
        BY <3>1, <3>2
    <2>5. QED
      BY <1>1, <2>1, <2>2, <2>3, <2>4 DEF Turns
  <1>13. ContactsKept'
    <2>1. \A q : q \in InHand => q \in InHand' \/ q = p
      BY <1>1, <1>3 DEF InHand
    <2>2. p \in logged' \cup waived'
      BY <1>1
    <2>3. QED
      BY <1>1, <2>1, <2>2 DEF WayInv, ContactsKept, Kept
  <1>14. QED
    BY <1>4, <1>5, <1>8, <1>9, <1>10, <1>11, <1>12, <1>13 DEF WayInv

-----------------------------------------------------------------------------
(* The operator *)

LEMMA AcceptDialogWay == ASSUME WayInv, AcceptDialog PROVE WayInv'
  <1> DEFINE t == [dialog EXCEPT !.kind = "form", !.call = TRUE,
                                 !.step = Silently(dialog.pic, dialog.path)]
  <1>1. /\ Idle /\ dialog # NoForm /\ calls' = <<t>> \o calls /\ dialog' = NoForm
        /\ UNCHANGED <<opt, engaged, made, air, wire, stash, sound, strip, key, due, waived,
                       clobbered, logged>>
    BY DEF AcceptDialog, Call, capHistory
  <1>2. /\ dialog \in Tasks /\ dialog.pic \in Made /\ dialog.then = "insert" /\ calls = <<>>
        /\ dialog.path \in {0, dialog.pic} /\ dialog.audio \in {0, dialog.pic} /\ Held(dialog.pic)
        /\ dialog.pic # stash
    BY <1>1 DEF WayInv, CapTypes, Slots, Idle, Held, HeldOnce
  <1>3. /\ t \in Tasks /\ t.kind = "form" /\ t.pic = dialog.pic /\ t.path = dialog.path
        /\ t.audio = dialog.audio /\ t.then = "insert" /\ t.step \in {"save", "insert"}
        /\ t.step = "save" => t.path = 0
    BY <1>2 DEF Tasks, Silently
  <1> HIDE DEF t
  <1>4. calls' \in Seq(Tasks) /\ DOMAIN calls' = {1} /\ calls'[1] = t
    BY <1>1, <1>2, <1>3
  <1>5. SlotOk(t)
    BY <1>2, <1>3 DEF SlotOk
  <1>6. Made' = Made
    BY <1>1 DEF Made
  <1>7. CapTypes'
    BY <1>1, <1>2, <1>3, <1>4, <1>6 DEF WayInv, CapTypes
  <1>8. Slots'
    BY <1>1, <1>3, <1>4, <1>5 DEF Slots, SlotOk
  <1>9. \A q : Held(q)' => Held(q)
    BY <1>1, <1>2, <1>3, <1>4 DEF Held, Holds
  <1>10. HeldOnce'
    <2>1. \A q \in logged : ~Held(q)'
      BY <1>9 DEF WayInv, HeldOnce
    <2>2. QED
      BY <1>1, <1>2, <1>3, <1>4, <2>1 DEF HeldOnce, Holds
  <1>11. Arrivals'
    <2>1. \A k \in DOMAIN wire : Brings(wire[k]) => wire[k].of # t.pic /\ ~Held(wire[k].of)'
      BY <1>1, <1>2, <1>3, <1>9 DEF WayInv, Arrivals
    <2>2. QED
      BY <1>1, <1>4, <2>1 DEF WayInv, Arrivals, Brings
  <1>12. Sides'
    BY <1>1, <1>3, <1>4 DEF WayInv, Sides
  <1>13. OneAtATime' /\ SoundInv'
    BY <1>1 DEF WayInv, OneAtATime, Prepared, Ended, SoundInv
  <1>14. Turns'
    <2>1. \A c \in Images : Under(c)' = Under(c)
      BY <1>1 DEF Under, Prepared, Ended
    <2>2. QED
      BY <1>1, <1>3, <1>4, <2>1 DEF WayInv, Turns
  <1>15. ContactsKept'
    <2>1. t.pic \in Waiting("form")'
      BY <1>3, <1>4, WaitingWillBe
    <2>2. \A q : q \in InHand => q = dialog.pic
      BY <1>2 DEF InHand, Waiting
    <2>3. \A q : q \in InHand => q \in InHand'
      BY <1>3, <2>1, <2>2 DEF InHand
    <2>4. QED
      BY <1>1, <2>3 DEF WayInv, ContactsKept, Kept
  <1>16. QED
    BY <1>7, <1>8, <1>10, <1>11, <1>12, <1>13, <1>14, <1>15 DEF WayInv

\* The dialog goes away with what it held.
LEMMA DialogGoneWay ==
  ASSUME WayInv, Idle, dialog' = NoForm,
         waived \subseteq waived', dialog # NoForm => dialog.pic \in waived',
         UNCHANGED <<opt, engaged, made, air, wire, calls, stash, sound, strip, key, due, clobbered,
                     logged>>
  PROVE  WayInv'
  <1>1. DOMAIN calls = {}
    BY DEF Idle
  <1>2. CapTypes' /\ Slots'
    BY <1>1 DEF WayInv, CapTypes, Slots, SlotOk, Made
  <1>3. \A q : Held(q)' => Held(q)
    BY DEF Held, Holds
  <1>4. HeldOnce' /\ Arrivals'
    BY <1>1, <1>3 DEF WayInv, HeldOnce, Arrivals, Brings, Holds
  <1>5. Sides' /\ OneAtATime' /\ SoundInv'
    BY DEF WayInv, Sides, OneAtATime, Prepared, Ended, SoundInv
  <1>6. Turns'
    <2>1. \A c \in Images : Under(c)' = Under(c)
      BY DEF Under, Prepared, Ended
    <2>2. QED
      BY <1>1, <2>1 DEF WayInv, Turns
  <1>7. ContactsKept'
    <2>1. \A q : q \in InHand => q \in InHand' \/ q \in waived'
      BY DEF InHand, Waiting
    <2>2. QED
      BY <2>1 DEF WayInv, ContactsKept, Kept
  <1>8. QED
    BY <1>2, <1>4, <1>5, <1>6, <1>7 DEF WayInv

LEMMA LogFromStripWay == ASSUME WayInv, LogFromStrip PROVE WayInv'
  <1>1. /\ Idle /\ dialog = NoForm
        /\ UNCHANGED <<opt, engaged, made, air, wire, calls, stash, sound, strip, key, due, waived,
                       clobbered, logged>>
    BY DEF LogFromStrip, capHistory
  <1>2. PICK i \in strip \ (logged \cup pics) : dialog' = [Task("rx", i, FALSE) EXCEPT !.then = "insert"]
    BY DEF LogFromStrip
  <1>3. i \in Made /\ i \in Images /\ i # 0 /\ key[i] # 0
    BY LogAssumption, FS_CardinalityType DEF WayInv, CapTypes, Made, Sides
  <1>4. /\ dialog' \in Tasks /\ dialog'.pic = i /\ dialog'.path = 0 /\ dialog'.audio = 0
        /\ dialog'.then = "insert"
    BY <1>2, <1>3 DEF Task, Tasks
  <1>5. DOMAIN calls = {}
    BY <1>1 DEF Idle
  <1>6. CapTypes' /\ Slots'
    BY <1>1, <1>3, <1>4, <1>5 DEF WayInv, CapTypes, Slots, SlotOk, Made
  <1>7. \A q : Held(q)' => Held(q) \/ q = i
    BY <1>1, <1>4 DEF Held, Holds
  <1>8. HeldOnce'
    <2>1. \A q \in logged : ~Held(q)'
      BY <1>7 DEF WayInv, HeldOnce
    <2>2. i # stash
      BY <1>3 DEF WayInv, Sides
    <2>3. QED
      BY <1>1, <1>4, <1>5, <2>1, <2>2 DEF HeldOnce
  <1>9. Arrivals'
    <2>1. \A k \in DOMAIN wire : Brings(wire[k]) => ~Held(wire[k].of)'
      BY <1>1, <1>7 DEF WayInv, Arrivals
    <2>2. QED
      BY <1>1, <2>1 DEF WayInv, Arrivals, Brings
  <1>10. Sides' /\ OneAtATime' /\ SoundInv'
    BY <1>1 DEF WayInv, Sides, OneAtATime, Prepared, Ended, SoundInv
  <1>11. Turns'
    <2>1. \A c \in Images : Under(c)' = Under(c)
      BY <1>1 DEF Under, Prepared, Ended
    <2>2. QED
      BY <1>1, <1>5, <2>1 DEF WayInv, Turns
  <1>12. ContactsKept'
    <2>1. \A q : q \in InHand => q \in InHand'
      BY <1>1 DEF InHand, Waiting
    <2>2. QED
      BY <1>1, <2>1 DEF WayInv, ContactsKept, Kept
  <1>13. QED
    BY <1>6, <1>8, <1>9, <1>10, <1>11, <1>12 DEF WayInv

\* Neither the field above the transmit panel nor the Logbook is on the way.
LEMMA ElsewhereWay ==
  ASSUME WayInv, engaged' \in BOOLEAN,
         UNCHANGED <<opt, made, air, wire, calls, stash, sound, dialog, strip, key, due, waived,
                     clobbered, logged>>
  PROVE  WayInv'
  <1>1. CapTypes' /\ Slots' /\ Sides' /\ OneAtATime' /\ SoundInv'
    BY DEF WayInv, CapTypes, Made, Slots, SlotOk, Sides, OneAtATime, Prepared, Ended, SoundInv
  <1>2. HeldOnce' /\ Arrivals' /\ Turns' /\ ContactsKept'
    BY DEF WayInv, HeldOnce, Held, Holds, Arrivals, Brings, Turns, Under, Prepared, Ended,
           ContactsKept, Kept, InHand, Waiting
  <1>3. QED
    BY <1>1, <1>2 DEF WayInv

LEMMA WayStep == ASSUME WayInv, [Next]_vars PROVE WayInv'
  <1>1. CASE Transmit \/ EndTransmit \/ Receive
    BY <1>1, TransmitWay, EndTransmitWay, ReceiveWay
  <1>2. CASE OnPrepared \/ OnAborted \/ OnTxComplete \/ OnAudio \/ OnImage
    BY <1>2, OnPreparedWay, OnAbortedWay, OnTxCompleteWay, OnAudioWay, OnImageWay
  <1>3. CASE SaveImage \/ DismissWarning \/ DraftQso \/ InsertQso \/ AcceptDialog \/ LogFromStrip
    BY <1>3, SaveImageWay, DismissWarningWay, DraftQsoWay, InsertQsoWay, AcceptDialogWay,
       LogFromStripWay
  <1>4. CASE DismissDialog
    BY <1>4, DialogGoneWay DEF DismissDialog
  <1>5. CASE Close
    BY <1>5, DialogGoneWay DEF Close
  <1>6. CASE TypeToCall
    <2>1. engaged' \in BOOLEAN
      BY <1>6 DEF TypeToCall, WayInv, CapTypes
    <2>2. QED
      BY <1>6, <2>1, ElsewhereWay DEF TypeToCall, capHistory
  <1>7. CASE AtLogbook \/ UNCHANGED vars
    <2>1. UNCHANGED <<capVars, capHistory>>
      BY <1>7 DEF AtLogbook, vars
    <2>2. engaged' \in BOOLEAN
      BY <2>1 DEF capVars, WayInv, CapTypes
    <2>3. QED
      BY <2>1, <2>2, ElsewhereWay DEF capVars, capHistory
  <1>8. QED
    BY <1>1, <1>2, <1>3, <1>4, <1>5, <1>6, <1>7 DEF Next

LEMMA WayInit == ASSUME Init PROVE WayInv
  <1>1. Cardinality(Images) \in Nat
    BY LogAssumption, FS_CardinalityType
  <1>2. CapTypes
    <2>1. wire \in Seq(Signals) /\ calls \in Seq(Tasks) /\ DOMAIN wire = {} /\ DOMAIN calls = {}
      BY DEF Init
    <2>2. key \in [Images -> 0 .. 2] /\ \A i \in Images : key[i] = 0
      BY DEF Init
    <2>3. /\ engaged = FALSE /\ made = 0 /\ air = 0 /\ stash = 0 /\ strip = {} /\ logged = {}
          /\ due = {} /\ dialog = NoForm
      BY DEF Init
    <2>4. made \in 0 .. Cardinality(Images)
      BY <1>1, <2>3
    <2>5. QED
      BY <2>1, <2>2, <2>3, <2>4 DEF CapTypes
  <1>3. DOMAIN wire = {} /\ DOMAIN calls = {} /\ wire = <<>>
    BY DEF Init
  <1>4. Slots /\ HeldOnce /\ Arrivals /\ Sides
    BY <1>3 DEF Init, Slots, HeldOnce, Arrivals, Sides
  <1>5. OneAtATime /\ Turns /\ SoundInv
    BY <1>3, LogAssumption, FS_CardinalityType
       DEF Init, OneAtATime, Prepared, Ended, Turns, Under, SoundInv
  <1>6. ContactsKept
    BY DEF Init, ContactsKept
  <1>7. QED
    BY <1>2, <1>4, <1>5, <1>6 DEF WayInv

-----------------------------------------------------------------------------
(* The log and its copies *)

\* A row, or a copy of one: its files are those of its own completion, and
\* the picture is missing only if it was not saved or was deleted.
IsRow(r) == r = [row |-> TRUE, call |-> r.call, at |-> r.at, mode |-> r.mode, text |-> r.text,
                 img |-> r.img, audio |-> r.audio, of |-> r.of]
OwnRow(r, lost) ==
    /\ IsRow(r)
    /\ r.audio \in {0, r.of} /\ r.img \in {0, r.of}
    /\ r.of # 0 /\ r.img = 0 => r.of \in lost
IsLog(log, lost) == DOMAIN log = Ids /\ \A i \in Ids : log[i] = NoRow \/ OwnRow(log[i], lost)
Lost == unsaved \cup binned

\* No id is used twice, so whatever is known by an id is known of one row.
LogTypes ==
    /\ lastId \in Nat /\ lastId <= MaxRows
    /\ IsLog(rows, Lost) /\ IsLog(table, Lost) /\ DOMAIN wanted = Ids
    /\ \A i \in Ids : i > lastId => rows[i] = NoRow /\ table[i] = NoRow /\ wanted[i] = 0
    /\ form = NoForm \/ (/\ form.open = TRUE /\ form.id \in 0 .. lastId /\ OwnRow(form.qso, Lost)
                         /\ form.id = 0 => form.qso.of = 0 /\ form.qso.img = 0)
    /\ 0 \notin pics /\ 0 \notin DOMAIN grid
    /\ \A p \in DOMAIN grid : grid[p].id \in 0 .. lastId

\* Rows and copies that link an image agree on the row, and the image is
\* logged.
Says(i, p) ==
    \/ rows[i] # NoRow /\ rows[i].img = p
    \/ table[i] # NoRow /\ table[i].img = p
    \/ form # NoForm /\ form.id = i /\ form.qso.img = p
    \/ p \in DOMAIN grid /\ grid[p].id = i
OneRow ==
    \A p : \A i \in Ids : p # 0 /\ Says(i, p) =>
        p \in logged /\ \A j \in Ids : Says(j, p) => i = j
SameOf ==
    \A i \in Ids : rows[i] # NoRow =>
        /\ table[i] # NoRow => table[i].of = rows[i].of
        /\ form # NoForm /\ form.id = i => form.qso.of = rows[i].of
        /\ \A p \in DOMAIN grid : grid[p].id = i => rows[i].of = p

\* The file a slot or the dialog has saved is there, or known to be gone; a
\* slot that is to insert without one could not save it.
TaskFiles ==
    /\ \A n \in DOMAIN calls :
         /\ calls[n].path \in {0} \cup pics \cup dangling
         /\ calls[n].then = "insert" /\ calls[n].step \in {"warned", "insert"} /\ calls[n].path = 0 =>
              calls[n].pic \in unsaved
    /\ dialog # NoForm => dialog.path \in {0} \cup pics \cup dangling

\* What is exported is a row that was called, and a row stays called.
ExportInv ==
    /\ \A k \in DOMAIN adif :
         /\ k \in Ids /\ k <= lastId /\ adif[k].id = k
         /\ adif[k].at = adif[k].key[1]
         /\ adif[k].mode = ModeFields(adif[k].key[2])[1]
         /\ adif[k].submode = ModeFields(adif[k].key[2])[2]
         /\ rows[k] # NoRow => rows[k].call
    /\ \A i \in Ids : table[i] # NoRow /\ table[i].call /\ rows[i] # NoRow => rows[i].call

LogInv == /\ LogTypes /\ OneRow /\ SameOf /\ TaskFiles /\ ExportInv
          /\ EditsStay /\ LinksLive /\ ImportsExactly

-----------------------------------------------------------------------------
(* Import and export *)

LEMMA Pair == ASSUME NEW a, NEW b PROVE <<a, b>>[1] = a /\ <<a, b>>[2] = b
  OBVIOUS

LEMMA OneParent == ASSUME NEW m, {p \in Parents : p[1] = m} # {} PROVE m = "FT4"
  BY DEF Parents

\* A mode comes back from the file as it was, a blank one excepted.
Named(m) == m # ""
LEMMA ModeComesBack ==
  ASSUME NEW m, Named(m), NEW r, r.mode = ModeFields(m)[1], r.submode = ModeFields(m)[2]
  PROVE  ModeRead(r) = m
  <1> DEFINE under == {p \in Parents : p[1] = m}
             parent == (CHOOSE p \in under : TRUE)[2]
  <1>1. CASE m = "SSTV"
    BY <1>1 DEF ModeFields, ModeRead
  <1>2. CASE m # "SSTV" /\ m \notin SstvModes /\ under # {}
    <2>1. ModeFields(m) = <<parent, m>>
      BY <1>2 DEF ModeFields, Named
    <2>2. m = "FT4"
      BY <1>2, OneParent
    <2>3. r.submode = m
      BY <2>1, Pair
    <2>4. <<"FT4", "MFSK">> \in Parents /\ <<"FT4", "MFSK">>[1] = "FT4"
      BY DEF Parents
    <2>5. QED
      BY <2>2, <2>3, <2>4 DEF ModeRead
  <1>3. CASE m # "SSTV" /\ m \notin SstvModes /\ under = {} /\ m \in AdifModes
    <2> DEFINE blank == ""
    <2>1. ModeFields(m) = <<m, blank>>
      BY <1>3 DEF ModeFields, Named
    <2> HIDE DEF blank
    <2>2. r.mode = m /\ r.submode = blank
      BY <2>1, Pair
    <2>3. QED
      BY <2>2 DEF ModeRead, blank
  <1>4. CASE m # "SSTV" /\ (m \in SstvModes \/ (under = {} /\ m \notin AdifModes))
    <2>1. ModeFields(m) = <<"SSTV", m>>
      BY <1>4 DEF ModeFields, Named
    <2>2. r.mode = "SSTV" /\ r.submode = m
      BY <2>1, Pair
    <2>3. r.mode \notin AdifModes \ {"SSTV"}
      BY <2>2
    <2>4. QED
      BY <2>2, <2>3 DEF ModeRead, Named
  <1>5. QED
    BY <1>1, <1>2, <1>3, <1>4

\* A set of natural numbers that is not empty has a least element.
LEMMA LeastOf ==
  ASSUME NEW S, S \subseteq Nat, S # {}
  PROVE  \E x \in S : \A y \in S : x <= y
  <1>1. \E x \in S : \A y \in S : ~(<<y, x>> \in OpToRel(<, Nat))
    BY NatLessThanWellFounded, WFMin
  <1>2. PICK x \in S : \A y \in S : ~(<<y, x>> \in OpToRel(<, Nat))
    BY <1>1
  <1>3. ASSUME NEW y \in S PROVE x <= y
    <2>1. <<y, x>> \in Nat \X Nat /\ ~(<<y, x>>[1] < <<y, x>>[2])
      BY <1>2 DEF OpToRel
    <2>2. QED
      BY <2>1
  <1>4. QED
    BY <1>3

\* An import picks one record for each contact the log does not have.
FileKey(file, k) == KeyOf(Parsed(file[k]))
LEMMA FreshIsMissing ==
  ASSUME NEW file, DOMAIN file \subseteq Nat, IsFiniteSet(DOMAIN file)
  PROVE  /\ Fresh(file) \subseteq Readable(file) /\ IsFiniteSet(Fresh(file))
         /\ Cardinality(Fresh(file)) =
              Cardinality({KeyOf(Parsed(file[k])) : k \in Readable(file)} \ StoredKeys)
  <1> DEFINE missing == {KeyOf(Parsed(file[k])) : k \in Readable(file)} \ StoredKeys
             f == [k \in Fresh(file) |-> FileKey(file, k)]
  <1>1. Fresh(file) \subseteq Readable(file) /\ Readable(file) \subseteq DOMAIN file
    BY DEF Fresh, Readable
  <1>2. IsFiniteSet(Fresh(file))
    <2>1. Fresh(file) \subseteq DOMAIN file
      BY <1>1
    <2>2. QED
      BY <2>1, FS_Subset
  <1>3. \A k \in Fresh(file) : /\ FileKey(file, k) \notin StoredKeys
                               /\ \A j \in Readable(file) : j < k => FileKey(file, j) # FileKey(file, k)
    BY DEF Fresh, FileKey
  <1>4. \A k \in Readable(file) :
           /\ FileKey(file, k) \notin StoredKeys
           /\ \A j \in Readable(file) : j < k => FileKey(file, j) # FileKey(file, k)
           => k \in Fresh(file)
    BY DEF Fresh, FileKey
  <1>5. \A p : p \in missing <=> p \notin StoredKeys /\ \E k \in Readable(file) : p = FileKey(file, k)
    BY DEF FileKey
  <1> HIDE DEF missing
  <1>6. f \in [Fresh(file) -> missing]
    BY <1>1, <1>3, <1>5
  <1>7. \A a, b \in Fresh(file) : f[a] = f[b] => a = b
    <2>1. TAKE a, b \in Fresh(file)
    <2>2. a \in Nat /\ b \in Nat /\ a \in Readable(file) /\ b \in Readable(file)
      BY <1>1
    <2>3. a < b \/ b < a \/ a = b
      BY <2>2
    <2>4. FileKey(file, a) = FileKey(file, b) => ~(a < b) /\ ~(b < a)
      BY <1>3, <2>2
    <2>5. QED
      BY <2>3, <2>4
  <1>8. \A p \in missing : \E k \in Fresh(file) : f[k] = p
    <2>1. TAKE p \in missing
    <2> DEFINE S == {k \in Readable(file) : FileKey(file, k) = p}
    <2>2. p \notin StoredKeys /\ S # {} /\ S \subseteq Nat
      BY <1>1, <1>5
    <2>3. PICK k \in S : \A j \in S : k <= j
      BY <2>2, LeastOf
    <2>4. k \in Readable(file) /\ FileKey(file, k) = p /\ k \in Nat
      BY <2>2
    <2>5. \A j \in Readable(file) : j < k => FileKey(file, j) # p
      <3>1. TAKE j \in Readable(file)
      <3>2. j \in Nat
        BY <1>1
      <3>3. FileKey(file, j) = p => k <= j
        BY <2>3
      <3>4. QED
        BY <2>4, <3>2, <3>3
    <2>6. k \in Fresh(file)
      BY <1>4, <2>2, <2>4, <2>5
    <2>7. QED
      BY <2>4, <2>6
  <1>9. f \in Bijection(Fresh(file), missing)
    BY <1>6, <1>7, <1>8 DEF Bijection, Injection, Surjection, IsInjective
  <1>10. Cardinality(missing) = Cardinality(Fresh(file))
    BY <1>2, <1>9, FS_Bijection DEF ExistsBijection
  <1>11. QED
    BY <1>1, <1>2, <1>10 DEF missing

-----------------------------------------------------------------------------
(* Rows *)

LEMMA IdsAre == /\ MaxRows \in Nat /\ Ids \subseteq Nat /\ IsFiniteSet(Ids)
                /\ \A i : i \in Ids <=> i \in Nat /\ 1 <= i /\ i <= MaxRows
  <1>1. MaxRows \in Nat
    BY LogAssumption
  <1>2. QED
    BY <1>1, FS_Interval DEF Ids

LEMMA LiveIs == ASSUME NEW log PROVE \A i : i \in Live(log) <=> i \in Ids /\ log[i] # NoRow
  BY DEF Live

LEMMA RowIsRow == ASSUME NEW r, NEW lost, OwnRow(r, lost) PROVE r # NoRow
  <1>1. r.row = TRUE
    BY DEF OwnRow, IsRow
  <1>2. NoRow.row = FALSE
    BY DEF NoRow
  <1>3. QED
    BY <1>1, <1>2

LEMMA MoreLost ==
  ASSUME NEW few, NEW many, few \subseteq many
  PROVE  /\ \A r : OwnRow(r, few) => OwnRow(r, many)
         /\ \A log : IsLog(log, few) => IsLog(log, many)
  BY DEF IsLog, OwnRow

\* The fields of a row, one of them written.
LEMMA RowFields ==
  ASSUME NEW q, IsRow(q)
  PROVE  \E c, a, m, x, p, s, o :
            q = [row |-> TRUE, call |-> c, at |-> a, mode |-> m, text |-> x, img |-> p,
                 audio |-> s, of |-> o]
  <1>1. q = [row |-> TRUE, call |-> q.call, at |-> q.at, mode |-> q.mode, text |-> q.text,
             img |-> q.img, audio |-> q.audio, of |-> q.of]
    BY DEF IsRow
  <1>2. QED
    BY <1>1, Zenon

LEMMA TimedRow ==
  ASSUME NEW q, NEW lost, OwnRow(q, lost), NEW at, NEW r, r = [q EXCEPT !.at = at]
  PROVE  /\ OwnRow(r, lost) /\ r.text = q.text /\ r.call = q.call
         /\ r.img = q.img /\ r.of = q.of /\ r.audio = q.audio
  <1>1. PICK c, a, m, x, p, s, o :
           q = [row |-> TRUE, call |-> c, at |-> a, mode |-> m, text |-> x, img |-> p,
                audio |-> s, of |-> o]
    BY RowFields DEF OwnRow
  <1>2. r = [row |-> TRUE, call |-> c, at |-> at, mode |-> m, text |-> x,
             img |-> p, audio |-> s, of |-> o]
    BY <1>1
  <1>3. QED
    BY <1>1, <1>2 DEF OwnRow, IsRow

LEMMA ModedRow ==
  ASSUME NEW q, NEW lost, OwnRow(q, lost), NEW mode, NEW r, r = [q EXCEPT !.mode = mode]
  PROVE  OwnRow(r, lost) /\ r.img = q.img /\ r.of = q.of
  <1>1. PICK c, a, m, x, p, s, o :
           q = [row |-> TRUE, call |-> c, at |-> a, mode |-> m, text |-> x, img |-> p,
                audio |-> s, of |-> o]
    BY RowFields DEF OwnRow
  <1>2. r = [row |-> TRUE, call |-> c, at |-> a, mode |-> mode, text |-> x,
             img |-> p, audio |-> s, of |-> o]
    BY <1>1
  <1>3. QED
    BY <1>1, <1>2 DEF OwnRow, IsRow

LEMMA UnlinkedRow ==
  ASSUME NEW q, NEW lost, OwnRow(q, lost), NEW more, lost \subseteq more, q.of \in more, NEW r,
         r = [q EXCEPT !.img = 0]
  PROVE  OwnRow(r, more) /\ r.text = q.text /\ r.call = q.call /\ r.img = 0 /\ r.of = q.of
  <1>1. PICK c, a, m, x, p, s, o :
           q = [row |-> TRUE, call |-> c, at |-> a, mode |-> m, text |-> x, img |-> p,
                audio |-> s, of |-> o]
    BY RowFields DEF OwnRow
  <1>2. r = [row |-> TRUE, call |-> c, at |-> a, mode |-> m, text |-> x,
             img |-> 0, audio |-> s, of |-> o]
    BY <1>1
  <1>3. QED
    BY <1>1, <1>2 DEF OwnRow, IsRow

LEMMA DraftRow ==
  ASSUME NEW of, NEW call, NEW img, NEW audio, NEW lost,
         audio \in {0, of}, img \in {0, of}, of # 0 /\ img = 0 => of \in lost
  PROVE  LET r == Draft(of, call, img, audio) IN
         /\ OwnRow(r, lost) /\ r.text = 0 /\ r.call = call /\ r.img = img /\ r.of = of
  BY DEF Draft, OwnRow, IsRow

LEMMA ParsedRow ==
  ASSUME NEW r, NEW lost
  PROVE  /\ OwnRow(Parsed(r), lost) /\ Parsed(r).call = TRUE /\ Parsed(r).img = 0
         /\ Parsed(r).of = 0
  BY DEF Parsed, OwnRow, IsRow

\* Of the rows that link an image there is one, and the Gallery finds it.
LEMMA LinkFound ==
  ASSUME NEW log, NEW p, \A i, j \in Live(log) : log[i].img = p /\ log[j].img = p => i = j
  PROVE  \/ LinkOf(log, p) = 0 /\ \A i \in Live(log) : log[i].img # p
         \/ LinkOf(log, p) \in Live(log) /\ log[LinkOf(log, p)].img = p
  <1> DEFINE linked == {i \in Live(log) : log[i].img = p}
  <1>1. CASE linked = {}
    BY <1>1 DEF LinkOf
  <1>2. CASE linked # {}
    <2>1. \A i, j \in linked : i = j
      OBVIOUS
    <2>2. \A i \in linked : i \in Nat
      BY IdsAre, LiveIs
    <2>3. \E i \in linked : \A j \in linked : j <= i
      BY <1>2, <2>1, <2>2
    <2>4. LinkOf(log, p) \in linked
      BY <1>2, <2>3 DEF LinkOf
    <2>5. QED
      BY <2>4
  <1>3. QED
    BY <1>1, <1>2

-----------------------------------------------------------------------------
(* The slots, beside the log *)

\* A slot that moves on adds a file, or an image without one, at most.
LEMMA LogMore ==
  ASSUME LogInv,
         UNCHANGED <<rows, lastId, table, grid, form, adif, wanted, import, binned, dangling, logged>>,
         pics \subseteq pics', 0 \notin pics', unsaved \subseteq unsaved', TaskFiles'
  PROVE  LogInv'
  <1>1. LogTypes'
    <2>1. Lost \subseteq Lost'
      BY DEF Lost
    <2>2. \A r : OwnRow(r, Lost) => OwnRow(r, Lost')
      BY <2>1, MoreLost
    <2>3. IsLog(rows, Lost') /\ IsLog(table, Lost')
      BY <2>1, MoreLost DEF LogInv, LogTypes
    <2>4. form # NoForm => OwnRow(form.qso, Lost')
      BY <2>2 DEF LogInv, LogTypes
    <2>5. QED
      BY <2>3, <2>4 DEF LogInv, LogTypes
  <1>2. OneRow' /\ SameOf'
    BY DEF LogInv, OneRow, Says, SameOf
  <1>3. ExportInv' /\ EditsStay' /\ LinksLive' /\ ImportsExactly'
    BY DEF LogInv, ExportInv, EditsStay, LinksLive, ImportsExactly, Live
  <1>4. QED
    BY <1>1, <1>2, <1>3 DEF LogInv

LEMMA LogSame ==
  ASSUME LogInv, UNCHANGED <<logOnly, logged, unsaved>>, TaskFiles'
  PROVE  LogInv'
  <1>1. /\ UNCHANGED <<rows, lastId, table, grid, form, pics, adif, wanted, import, binned, dangling>>
        /\ logged' = logged /\ unsaved' = unsaved
    BY DEF logOnly
  <1>2. 0 \notin pics'
    BY <1>1 DEF LogInv, LogTypes
  <1>3. QED
    BY <1>1, <1>2, LogMore

LEMMA SlotsSame ==
  ASSUME LogInv, UNCHANGED <<logOnly, logged, unsaved, calls>>,
         dialog' = dialog \/ dialog' = NoForm \/ dialog'.path = 0
  PROVE  LogInv'
  <1>1. /\ UNCHANGED <<pics, dangling, unsaved, calls>>
    BY DEF logOnly
  <1>2. TaskFiles'
    BY <1>1 DEF LogInv, TaskFiles
  <1>3. QED
    BY <1>2, LogSame

LEMMA SlotBeginsLog ==
  ASSUME WayInv, LogInv, UNCHANGED <<logOnly, logged, unsaved>>,
         dialog' = dialog \/ dialog' = NoForm,
         NEW t \in Tasks, calls' = <<t>> \o calls, t.path \in {0} \cup pics \cup dangling,
         t.step = "insert" => t.path # 0, t.step # "warned"
  PROVE  LogInv'
  <1>1. UNCHANGED <<pics, dangling, unsaved>>
    BY DEF logOnly
  <1>2. /\ calls'[1] = t
        /\ \A k \in DOMAIN calls' : k = 1 \/ (k - 1 \in DOMAIN calls /\ calls'[k] = calls[k - 1])
    BY SlotBegins DEF WayInv
  <1>3. \A n \in DOMAIN calls' :
           /\ calls'[n].path \in {0} \cup pics \cup dangling
           /\ calls'[n].then = "insert" /\ calls'[n].step \in {"warned", "insert"} /\ calls'[n].path = 0 =>
                calls'[n].pic \in unsaved
    <2>1. TAKE n \in DOMAIN calls'
    <2>2. CASE n = 1
      BY <1>2, <2>2
    <2>3. CASE n - 1 \in DOMAIN calls /\ calls'[n] = calls[n - 1]
      BY <2>3 DEF LogInv, TaskFiles
    <2>4. QED
      BY <1>2, <2>2, <2>3
  <1>4. TaskFiles'
    BY <1>1, <1>3 DEF LogInv, TaskFiles
  <1>5. QED
    BY <1>4, LogSame

LEMMA OnTxCompleteLog == ASSUME WayInv, LogInv, OnTxComplete PROVE LogInv'
  <1> DEFINE t == Task("tx", wire[1].of, opt.autoTx /\ stash # 0)
  <1>1. /\ calls' = <<t>> \o calls /\ UNCHANGED <<logOnly, logged, unsaved, dialog>>
        /\ wire[1].of \in Images
    <2>1. Take({"sent"})
      BY DEF OnTxComplete
    <2>2. Head(wire) = wire[1] /\ wire[1].of \in Images
      BY <2>1, SignalTaken
    <2>3. QED
      BY <2>2 DEF OnTxComplete, Call, logVars
  <1>2. t \in Tasks /\ t.path = 0 /\ t.step \in {"save", "draft"}
    <2>1. \A save \in BOOLEAN : LET s == Task("tx", wire[1].of, save) IN
             s \in Tasks /\ s.path = 0 /\ s.step \in {"save", "draft"}
      BY <1>1, TaskIs
    <2>2. (opt.autoTx /\ stash # 0) \in BOOLEAN
      OBVIOUS
    <2>3. QED
      BY <2>1 DEF Task, Tasks
  <1> HIDE DEF t
  <1>3. QED
    BY <1>1, <1>2, SlotBeginsLog

LEMMA OnImageLog == ASSUME WayInv, LogInv, OnImage PROVE LogInv'
  <1> DEFINE i == wire[1].of
             live == wire[1].kind = "image"
             new == Task("rx", i, opt.autoRx)
  <1>1. /\ i \in Images /\ UNCHANGED <<logOnly, logged, unsaved, dialog>>
        /\ \E r \in {0, i} : calls' = <<[new EXCEPT !.audio = r]>> \o calls
    <2>1. Take({"image", "offline"})
      BY DEF OnImage
    <2>2. Head(wire) = wire[1] /\ wire[1].of \in Images
      BY <2>1, SignalTaken
    <2>3. \A r \in Recording(i, live) : r \in {0, i}
      BY <2>1, OwnRecording
    <2>4. \E r \in Recording(i, live) : calls' = <<[new EXCEPT !.audio = r]>> \o calls
      BY <2>2 DEF OnImage, Call
    <2>5. QED
      BY <2>2, <2>3, <2>4 DEF OnImage, logVars, capHistory
  <1>2. PICK r \in {0, i} : calls' = <<[new EXCEPT !.audio = r]>> \o calls
    BY <1>1
  <1> DEFINE t == [new EXCEPT !.audio = r]
  <1>3. t \in Tasks /\ t.path = 0 /\ t.step \in {"save", "draft"}
    BY <1>1 DEF Task, Tasks
  <1>4. calls' = <<t>> \o calls
    BY <1>2
  <1> HIDE DEF t
  <1>5. QED
    BY <1>1, <1>3, <1>4, SlotBeginsLog

LEMMA AcceptDialogLog == ASSUME WayInv, LogInv, AcceptDialog PROVE LogInv'
  <1> DEFINE t == [dialog EXCEPT !.kind = "form", !.call = TRUE,
                                 !.step = Silently(dialog.pic, dialog.path)]
  <1>1. /\ calls' = <<t>> \o calls /\ dialog # NoForm /\ dialog' = NoForm
        /\ UNCHANGED <<logOnly, logged, unsaved>>
    BY DEF AcceptDialog, Call, logVars, capHistory
  <1>2. dialog \in Tasks /\ dialog.pic # 0 /\ dialog.path \in {0} \cup pics \cup dangling
    BY <1>1 DEF WayInv, CapTypes, Made, LogInv, TaskFiles
  <1>3. /\ t \in Tasks /\ t.path = dialog.path /\ t.step \in {"save", "insert"}
        /\ t.step = "insert" => t.path # 0
    BY <1>2 DEF Tasks, Silently
  <1> HIDE DEF t
  <1>4. QED
    BY <1>1, <1>2, <1>3, SlotBeginsLog

\* A move of the slot on top.
LEMMA TopMovesLog ==
  ASSUME WayInv, LogInv, ~Idle, NEW t \in Tasks, calls' = [calls EXCEPT ![1] = t],
         UNCHANGED <<pics, dangling, unsaved, dialog>>,
         t.path \in {0} \cup pics \cup dangling,
         t.then = "insert" /\ t.step \in {"warned", "insert"} /\ t.path = 0 => t.pic \in unsaved
  PROVE  TaskFiles'
  <1>1. calls \in Seq(Tasks) /\ calls # <<>>
    BY TopIs
  <1>2. /\ DOMAIN calls' = DOMAIN calls /\ calls'[1] = t
        /\ \A k \in DOMAIN calls : k # 1 => calls'[k] = calls[k]
    BY <1>1, TopChanged
  <1>3. \A n \in DOMAIN calls :
           /\ calls'[n].path \in {0} \cup pics \cup dangling
           /\ calls'[n].then = "insert" /\ calls'[n].step \in {"warned", "insert"} /\ calls'[n].path = 0 =>
                calls'[n].pic \in unsaved
    <2>1. TAKE n \in DOMAIN calls
    <2>2. CASE n = 1
      BY <1>2, <2>2
    <2>3. CASE n # 1
      BY <1>2, <2>3 DEF LogInv, TaskFiles
    <2>4. QED
      BY <2>2, <2>3
  <1>4. QED
    BY <1>2, <1>3 DEF LogInv, TaskFiles

LEMMA DismissWarningLog == ASSUME WayInv, LogInv, DismissWarning PROVE LogInv'
  <1>1. /\ ~Idle /\ Top.step = "warned" /\ Go(Top.then)
        /\ UNCHANGED <<logOnly, logged, unsaved, dialog>>
    BY DEF DismissWarning, logVars, capHistory
  <1>2. /\ 1 \in DOMAIN calls /\ Top = calls[1] /\ Top \in Tasks /\ calls # <<>>
    BY <1>1, TopIs
  <1> DEFINE t == [Top EXCEPT !.step = Top.then]
  <1>3. /\ t \in Tasks /\ t.path = Top.path /\ t.then = Top.then /\ t.pic = Top.pic
        /\ calls' = [calls EXCEPT ![1] = t]
    BY <1>1, <1>2 DEF Tasks, Go
  <1>4. UNCHANGED <<pics, dangling, unsaved, dialog>>
    BY <1>1 DEF logOnly
  <1>5. /\ t.path \in {0} \cup pics \cup dangling
        /\ t.then = "insert" /\ t.path = 0 => t.pic \in unsaved
    BY <1>1, <1>2, <1>3 DEF LogInv, TaskFiles
  <1> HIDE DEF t
  <1>6. TaskFiles'
    BY <1>1, <1>3, <1>4, <1>5, TopMovesLog
  <1>7. QED
    BY <1>1, <1>6, LogSame

LEMMA ReturnedFiles ==
  ASSUME WayInv, LogInv, ~Idle, calls' = Tail(calls), UNCHANGED <<pics, dangling, unsaved>>,
         dialog' # NoForm => dialog'.path \in {0} \cup pics \cup dangling
  PROVE  TaskFiles'
  <1>1. \A k \in DOMAIN calls' : k + 1 \in DOMAIN calls /\ calls'[k] = calls[k + 1]
    BY SlotReturns
  <1>2. QED
    BY <1>1 DEF LogInv, TaskFiles

LEMMA DraftQsoLog == ASSUME WayInv, LogInv, DraftQso PROVE LogInv'
  <1> DEFINE mine == Top.kind = "tx" \/ engaged
             wants == ~closing /\ IF Top.kind = "tx" THEN stash # 0 ELSE Logs
             task == [Top EXCEPT !.pic = Picture, !.then = "insert",
                                 !.call = Top.kind = "tx" /\ engaged]
             t == [task EXCEPT !.step = Silently(task.pic, task.path)]
  <1>1. /\ ~Idle /\ UNCHANGED <<logOnly, logged, unsaved>>
        /\ \/ wants /\ calls' = [calls EXCEPT ![1] = t] /\ dialog' = dialog
           \/ calls' = Tail(calls) /\ (dialog' = dialog \/ (dialog' = task /\ wants))
    BY Zenon DEF DraftQso, Return, logVars
  <1>2. /\ Top \in Tasks /\ Top.pic \in Made /\ 0 \notin Made /\ stash \in {0} \cup Made
        /\ Made \subseteq Images /\ Top = calls[1] /\ 1 \in DOMAIN calls
    BY <1>1, TopIs
  <1>3. UNCHANGED <<pics, dangling, unsaved>> /\ Top.path \in {0} \cup pics \cup dangling
    BY <1>1, <1>2 DEF logOnly, LogInv, TaskFiles
  <1>4. task.path = Top.path
    BY <1>2 DEF Tasks
  <1>5. CASE wants /\ calls' = [calls EXCEPT ![1] = t] /\ dialog' = dialog
    <2>1. Picture \in Images /\ Picture # 0
      BY <1>2, <1>5 DEF Picture
    <2>2. task \in Tasks /\ task.pic = Picture
      <3>1. engaged \in BOOLEAN
        BY DEF WayInv, CapTypes
      <3>2. QED
        BY <1>2, <2>1, <3>1 DEF Tasks
    <2> HIDE DEF task
    <2>3. /\ t \in Tasks /\ t.path = Top.path /\ t.step \in {"save", "insert"}
          /\ t.step = "insert" => t.path # 0
      BY <1>4, <2>1, <2>2 DEF Tasks, Silently
    <2> HIDE DEF t, wants
    <2>4. TaskFiles'
      BY <1>1, <1>3, <1>5, <2>3, TopMovesLog
    <2>5. QED
      BY <1>1, <2>4, LogSame
  <1>6. CASE calls' = Tail(calls) /\ (dialog' = dialog \/ (dialog' = task /\ wants))
    <2>1. dialog' # NoForm => dialog'.path \in {0} \cup pics \cup dangling
      BY <1>3, <1>4, <1>6 DEF LogInv, TaskFiles
    <2>2. TaskFiles'
      BY <1>1, <1>3, <1>6, <2>1, ReturnedFiles
    <2>3. QED
      BY <1>1, <2>2, LogSame
  <1>7. QED
    BY <1>1, <1>5, <1>6

LEMMA LogFromStripLog == ASSUME LogInv, LogFromStrip PROVE LogInv'
  <1>1. /\ UNCHANGED <<logOnly, logged, unsaved, calls>>
        /\ \E i \in strip : dialog' = [Task("rx", i, FALSE) EXCEPT !.then = "insert"]
    BY DEF LogFromStrip, logVars, capHistory
  <1>2. dialog'.path = 0
    BY <1>1 DEF Task
  <1>3. QED
    BY <1>1, <1>2, SlotsSame

LEMMA SaveImageLog == ASSUME WayInv, LogInv, SaveImage PROVE LogInv'
  <1>1. /\ ~Idle /\ Top.step = "save"
        /\ UNCHANGED <<rows, lastId, table, grid, form, adif, wanted, import, binned, dangling,
                       dialog, logged>>
        /\ \/ /\ pics' = pics \cup {Picture} /\ unsaved' = unsaved
              /\ calls' = [calls EXCEPT ![1].step = Top.then, ![1].path = Picture]
           \/ /\ unsaved' = unsaved \cup {Picture} /\ pics' = pics
              /\ \E s \in {Top.then, "warned"} : calls' = [calls EXCEPT ![1].step = s]
    BY DEF SaveImage, Go
  <1>2. /\ calls \in Seq(Tasks) /\ calls # <<>> /\ 1 \in DOMAIN calls /\ Top = calls[1]
        /\ Top \in Tasks /\ SlotOk(Top) /\ Top.pic \in Made /\ 0 \notin Made /\ Made \subseteq Images
        /\ stash \in {0} \cup Made
    BY <1>1, TopIs
  <1>3. /\ Picture # 0 /\ Picture \in Images /\ Top.path = 0
        /\ Top.then = "insert" => Picture = Top.pic
    BY <1>1, <1>2 DEF Picture, SlotOk
  <1>4. 0 \notin pics' /\ pics \subseteq pics' /\ unsaved \subseteq unsaved'
    BY <1>1, <1>3 DEF LogInv, LogTypes
  <1>5. PICK t \in Tasks :
           /\ calls' = [calls EXCEPT ![1] = t]
           /\ t.path \in {0} \cup pics'
           /\ t.then = "insert" /\ t.path = 0 => t.pic \in unsaved'
    <2>1. CASE /\ calls' = [calls EXCEPT ![1].step = Top.then, ![1].path = Picture]
               /\ pics' = pics \cup {Picture}
      <3> DEFINE t == [Top EXCEPT !.step = Top.then, !.path = Picture]
      <3>1. t \in Tasks /\ t.path = Picture /\ calls' = [calls EXCEPT ![1] = t]
        BY <1>2, <1>3, <2>1 DEF Tasks
      <3> HIDE DEF t
      <3>2. t.path \in {0} \cup pics' /\ t.path # 0
        BY <1>3, <2>1, <3>1
      <3>3. QED
        BY <3>1, <3>2
    <2>2. ASSUME NEW s \in {Top.then, "warned"}, calls' = [calls EXCEPT ![1].step = s],
                 unsaved' = unsaved \cup {Picture}
          PROVE  \E t \in Tasks :
                   /\ calls' = [calls EXCEPT ![1] = t]
                   /\ t.path \in {0} \cup pics'
                   /\ t.then = "insert" /\ t.path = 0 => t.pic \in unsaved'
      <3> DEFINE t == [Top EXCEPT !.step = s]
      <3>1. t \in Tasks /\ t.path = 0 /\ t.then = Top.then /\ t.pic = Top.pic
            /\ calls' = [calls EXCEPT ![1] = t]
        BY <1>2, <1>3, <2>2 DEF Tasks
      <3> HIDE DEF t
      <3>2. t.then = "insert" => t.pic \in unsaved'
        BY <1>3, <2>2, <3>1
      <3>3. QED
        BY <3>1, <3>2
    <2>3. QED
      BY <1>1, <2>1, <2>2
  <1>6. /\ DOMAIN calls' = DOMAIN calls /\ calls'[1] = t
        /\ \A k \in DOMAIN calls : k # 1 => calls'[k] = calls[k]
    BY <1>2, <1>5, TopChanged
  <1>7. \A n \in DOMAIN calls :
           /\ calls'[n].path \in {0} \cup pics' \cup dangling
           /\ calls'[n].then = "insert" /\ calls'[n].step \in {"warned", "insert"} /\ calls'[n].path = 0 =>
                calls'[n].pic \in unsaved'
    <2>1. TAKE n \in DOMAIN calls
    <2>2. CASE n = 1
      BY <1>5, <1>6, <2>2
    <2>3. CASE n # 1
      BY <1>4, <1>6, <2>3 DEF LogInv, TaskFiles
    <2>4. QED
      BY <2>2, <2>3
  <1>8. TaskFiles'
    <2>1. dialog # NoForm => dialog.path \in {0} \cup pics' \cup dangling
      BY <1>4 DEF LogInv, TaskFiles
    <2>2. QED
      BY <1>1, <1>6, <1>7, <2>1 DEF TaskFiles
  <1>9. QED
    BY <1>1, <1>4, <1>8, LogMore

-----------------------------------------------------------------------------
(* The log *)

\* An image is linked by the row that did before, or by one that says it first.
LEMMA SaysLess ==
  ASSUME LogInv, logged \subseteq logged', NEW id, NEW q,
         \A p : \A i \in Ids : p # 0 /\ Says(i, p)' =>
            Says(i, p) \/ (i = id /\ p = q /\ p \in logged' /\ p \notin logged)
  PROVE  OneRow'
  <1>1. ASSUME NEW p, NEW i \in Ids, p # 0, Says(i, p)'
        PROVE  p \in logged' /\ \A j \in Ids : Says(j, p)' => i = j
    <2>1. \A j \in Ids : Says(j, p) => p \in logged /\ \A k \in Ids : Says(k, p) => j = k
      BY <1>1 DEF LogInv, OneRow
    <2>2. \A j \in Ids : Says(j, p)' =>
             Says(j, p) \/ (j = id /\ p = q /\ p \in logged' /\ p \notin logged)
      BY <1>1
    <2>3. QED
      BY <1>1, <2>1, <2>2
  <1>2. Ids' = Ids
    BY DEF Ids
  <1>3. QED
    BY <1>1, <1>2 DEF OneRow

\* A row is added and the table shows what the store holds.
LEMMA RowAdded ==
  ASSUME LogInv, CanInsert, NEW r, OwnRow(r, Lost), r.img \in {0} \cup pics \cup dangling,
         r.img # 0 => r.img \notin logged /\ r.img \in logged', logged \subseteq logged',
         Insert(r), table' = rows', form' = form \/ form' = NoForm,
         DOMAIN wanted' = Ids,
         \A i \in Ids : wanted'[i] = IF i = lastId + 1 THEN r.text ELSE wanted[i],
         UNCHANGED <<grid, pics, adif, unsaved, binned, dangling, import>>, TaskFiles'
  PROVE  LogInv'
  <1> DEFINE id == lastId + 1
  <1>1. /\ lastId \in Nat /\ lastId' = id /\ id \in Ids /\ id \in Nat /\ id <= MaxRows
        /\ \A n \in 0 .. lastId : n # id /\ n \in 0 .. id
        /\ \A i \in Ids : i \in Nat /\ (i <= lastId => i # id)
    <2>1. lastId \in Nat /\ MaxRows \in Nat /\ lastId < MaxRows
      BY IdsAre DEF LogInv, LogTypes, CanInsert
    <2>2. QED
      BY <2>1, IdsAre DEF Insert
  <1>2. /\ DOMAIN rows' = Ids /\ rows'[id] = r
        /\ \A i \in Ids : i # id => rows'[i] = rows[i]
    BY <1>1 DEF Insert, LogInv, LogTypes, IsLog
  <1>3. \A i \in Ids : i > id => i > lastId /\ i # id
    BY <1>1
  <1>4. r # NoRow /\ Lost' = Lost /\ rows[id] = NoRow
    <2>1. id > lastId
      BY <1>1
    <2>2. QED
      BY <1>1, <2>1, RowIsRow DEF Lost, LogInv, LogTypes
  <1> HIDE DEF id
  <1>5. LogTypes'
    <2>1. IsLog(rows', Lost)
      BY <1>2 DEF LogInv, LogTypes, IsLog
    <2>2. \A i \in Ids : i > id => rows'[i] = NoRow /\ wanted'[i] = 0
      BY <1>2, <1>3 DEF LogInv, LogTypes, id
    <2>3. form' # NoForm => form' = form
      OBVIOUS
    <2>4. form' = NoForm \/ (/\ form'.open = TRUE /\ form'.id \in 0 .. id /\ OwnRow(form'.qso, Lost)
                             /\ form'.id = 0 => form'.qso.of = 0 /\ form'.qso.img = 0)
      BY <1>1, <2>3 DEF LogInv, LogTypes
    <2>5. /\ 0 \notin pics /\ 0 \notin DOMAIN grid
          /\ \A p \in DOMAIN grid : grid[p].id \in 0 .. id
      BY <1>1 DEF LogInv, LogTypes
    <2>6. Ids' = Ids
      BY DEF Ids
    <2>7. /\ lastId' \in Nat /\ lastId' <= MaxRows /\ lastId' = id
      BY <1>1
    <2>8. QED
      BY <1>4, <2>1, <2>2, <2>4, <2>5, <2>6, <2>7 DEF LogTypes
  <1>6. OneRow'
    <2>1. ASSUME NEW p, NEW i \in Ids, p # 0, Says(i, p)'
          PROVE  Says(i, p) \/ (i = id /\ p = r.img)
      <3>1. (rows'[i] # NoRow /\ rows'[i].img = p) => Says(i, p) \/ (i = id /\ p = r.img)
        BY <1>2 DEF Says
      <3>2. form' # NoForm => form' = form
        OBVIOUS
      <3>3. \/ rows'[i] # NoRow /\ rows'[i].img = p
            \/ form' # NoForm /\ form'.id = i /\ form'.qso.img = p
            \/ p \in DOMAIN grid /\ grid[p].id = i
        BY <2>1 DEF Says
      <3>4. QED
        BY <3>1, <3>2, <3>3 DEF Says
    <2>2. \A p : \A i \in Ids : p # 0 /\ Says(i, p)' =>
            Says(i, p) \/ (i = id /\ p = r.img /\ p \in logged' /\ p \notin logged)
      BY <2>1
    <2>3. QED
      BY <2>2, SaysLess
  <1>7. SameOf'
    <2>1. \A i \in Ids : rows'[i] # NoRow =>
             /\ form' # NoForm /\ form'.id = i => form'.qso.of = rows'[i].of
             /\ \A p \in DOMAIN grid : grid[p].id = i => rows'[i].of = p
      <3>1. TAKE i \in Ids
      <3>2. CASE i = id
        <4>1. form # NoForm => form.id # i
          BY <1>1, <3>2 DEF LogInv, LogTypes
        <4>2. \A p \in DOMAIN grid : grid[p].id # i
          BY <1>1, <3>2 DEF LogInv, LogTypes
        <4>3. QED
          BY <4>1, <4>2
      <3>3. CASE i # id
        BY <1>2, <3>3 DEF LogInv, SameOf
      <3>4. QED
        BY <3>2, <3>3
    <2>2. Ids' = Ids
      BY DEF Ids
    <2>3. QED
      BY <2>1, <2>2 DEF SameOf
  <1>8. ExportInv'
    <2>1. \A k \in DOMAIN adif : rows'[k] # NoRow => rows'[k].call
      BY <1>1, <1>2 DEF LogInv, ExportInv
    <2>2. lastId <= lastId'
      BY <1>1 DEF id
    <2>3. \A k \in DOMAIN adif : k \in Ids /\ k <= lastId'
      BY <1>1, <1>3 DEF LogInv, ExportInv, id
    <2>4. Ids' = Ids
      BY DEF Ids
    <2>5. QED
      BY <2>1, <2>3, <2>4 DEF LogInv, ExportInv
  <1>9. EditsStay' /\ LinksLive' /\ ImportsExactly'
    <2>1. \A i \in Ids : rows'[i] # NoRow => rows'[i].text = wanted'[i]
      BY <1>1, <1>2 DEF LogInv, EditsStay, Live, id
    <2>2. \A i \in Ids : rows'[i] # NoRow => rows'[i].img \in {0} \cup pics \cup dangling
      BY <1>2 DEF LogInv, LinksLive, Live
    <2>3. Ids' = Ids
      BY DEF Ids
    <2>4. QED
      BY <2>1, <2>2, <2>3 DEF LogInv, EditsStay, LinksLive, ImportsExactly, Live
  <1>10. QED
    BY <1>5, <1>6, <1>7, <1>8, <1>9 DEF LogInv

LEMMA InsertQsoLog == ASSUME WayInv, LogInv, InsertQso PROVE LogInv'
  <1> PICK t : t = Top
    OBVIOUS
  <1> DEFINE r == Draft(t.pic, t.call, t.path, t.audio)
  <1>1. /\ ~Idle /\ t.step = "insert" /\ calls' = Tail(calls) /\ dialog' = dialog
        /\ UNCHANGED <<grid, form, pics, adif, wanted, import, binned, dangling, unsaved>>
        /\ \/ CanInsert /\ Insert(r) /\ table' = rows' /\ logged' = logged \cup {t.pic}
           \/ UNCHANGED <<rows, lastId, table, logged>>
    BY DEF InsertQso, Return, Refresh
  <1>2. /\ calls # <<>> /\ 1 \in DOMAIN calls /\ t = calls[1] /\ t \in Tasks /\ SlotOk(t)
        /\ t.pic \in Made /\ 0 \notin Made
    BY <1>1, TopIs
  <1>3. t.audio \in {0, t.pic} /\ t.path \in {0, t.pic} /\ t.then = "insert"
    BY <1>1, <1>2 DEF SlotOk
  <1>4. t.path # 0 => t.pic \notin logged
    <2>1. t.path # 0 => Held(t.pic)
      BY <1>2, <1>3 DEF SlotOk, Held, Holds
    <2>2. QED
      BY <2>1 DEF WayInv, HeldOnce
  <1>5. t.path = 0 => t.pic \in unsaved
    BY <1>1, <1>2, <1>3 DEF LogInv, TaskFiles
  <1>6. t.path \in {0} \cup pics \cup dangling
    BY <1>2 DEF LogInv, TaskFiles
  <1>7. TaskFiles'
    <2>1. dialog' # NoForm => dialog'.path \in {0} \cup pics \cup dangling
      BY <1>1 DEF LogInv, TaskFiles
    <2>2. QED
      BY <1>1, <2>1, ReturnedFiles
  <1>8. CASE CanInsert /\ Insert(r) /\ table' = rows' /\ logged' = logged \cup {t.pic}
    <2>1. /\ OwnRow(r, Lost) /\ r.text = 0 /\ r.img = t.path
      <3>1. t.path = 0 => t.pic \in Lost
        BY <1>5 DEF Lost
      <3>2. QED
        BY <1>3, <3>1, DraftRow
    <2>2. \A i \in Ids : wanted'[i] = IF i = lastId + 1 THEN r.text ELSE wanted[i]
      <3>1. \A i \in Ids : i = lastId + 1 => wanted[i] = 0
        BY DEF LogInv, LogTypes
      <3>2. QED
        BY <1>1, <2>1, <3>1
    <2>3. DOMAIN wanted' = Ids
      BY <1>1 DEF LogInv, LogTypes
    <2> HIDE DEF r
    <2>4. r.img # 0 => r.img \notin logged /\ r.img \in logged'
      BY <1>3, <1>4, <1>8, <2>1
    <2>5. r.img \in {0} \cup pics \cup dangling /\ logged \subseteq logged'
      BY <1>6, <1>8, <2>1
    <2>6. QED
      BY <1>1, <1>7, <1>8, <2>1, <2>2, <2>3, <2>4, <2>5, RowAdded
  <1>9. CASE UNCHANGED <<rows, lastId, table, logged>>
    BY <1>1, <1>7, <1>9, LogSame DEF logOnly
  <1>10. QED
    BY <1>1, <1>8, <1>9

-----------------------------------------------------------------------------
(* The windows *)

LEMMA ShowLogbookLog ==
  ASSUME LogInv, ShowLogbook, UNCHANGED <<calls, dialog, logged, unsaved>>
  PROVE  LogInv'
  <1>1. /\ table' = rows
        /\ UNCHANGED <<rows, lastId, grid, form, pics, adif, wanted, import, binned, dangling>>
    BY DEF ShowLogbook
  <1>2. LogTypes'
    BY <1>1 DEF LogInv, LogTypes, Lost
  <1>3. \A p : \A i \in Ids : Says(i, p)' => Says(i, p)
    BY <1>1 DEF Says
  <1>4. OneRow'
    BY <1>3, SaysLess
  <1>5. SameOf' /\ TaskFiles' /\ ExportInv'
    BY <1>1 DEF LogInv, SameOf, TaskFiles, ExportInv
  <1>6. EditsStay' /\ LinksLive' /\ ImportsExactly'
    BY <1>1 DEF LogInv, EditsStay, LinksLive, ImportsExactly, Live
  <1>7. QED
    BY <1>2, <1>4, <1>5, <1>6 DEF LogInv

\* A form opens on a new draft, or on a copy of a row as the table shows it.
LEMMA OpenFormLog ==
  ASSUME LogInv, NEW f, OpenForm(f), UNCHANGED <<calls, dialog, logged, unsaved>>,
         f.open = TRUE, f.id \in 0 .. lastId, OwnRow(f.qso, Lost),
         f.id = 0 => f.qso.of = 0 /\ f.qso.img = 0,
         f.id # 0 => f.id \in Ids /\ table[f.id] # NoRow /\ f.qso = table[f.id]
  PROVE  LogInv'
  <1>1. /\ form' = f
        /\ UNCHANGED <<rows, lastId, table, grid, pics, adif, wanted, import, binned, dangling>>
    BY DEF OpenForm
  <1>2. LogTypes'
    BY <1>1 DEF LogInv, LogTypes, Lost
  <1>3. 0 \notin Ids
    BY IdsAre
  <1>4. \A p : \A i \in Ids : Says(i, p)' => Says(i, p)
    BY <1>1, <1>3 DEF Says
  <1>5. OneRow'
    BY <1>4, SaysLess
  <1>6. SameOf'
    <2>1. \A i \in Ids : rows[i] # NoRow /\ f.id = i => f.qso.of = rows[i].of
      BY <1>3 DEF LogInv, SameOf
    <2>2. Ids' = Ids
      BY DEF Ids
    <2>3. QED
      BY <1>1, <2>1, <2>2 DEF LogInv, SameOf
  <1>7. TaskFiles' /\ ExportInv'
    BY <1>1 DEF LogInv, TaskFiles, ExportInv
  <1>8. EditsStay' /\ LinksLive' /\ ImportsExactly'
    BY <1>1 DEF LogInv, EditsStay, LinksLive, ImportsExactly, Live
  <1>9. QED
    BY <1>2, <1>5, <1>6, <1>7, <1>8 DEF LogInv

LEMMA OpenNewLog ==
  ASSUME LogInv, OpenNew, UNCHANGED <<calls, dialog, logged, unsaved>>
  PROVE  LogInv'
  <1>1. PICK mode : OpenForm([open |-> TRUE, id |-> 0,
                              qso |-> [Draft(0, TRUE, 0, 0) EXCEPT !.mode = mode]])
    BY DEF OpenNew
  <1> DEFINE q == [Draft(0, TRUE, 0, 0) EXCEPT !.mode = mode]
             f == [open |-> TRUE, id |-> 0, qso |-> q]
  <1>2. OwnRow(q, Lost) /\ q.img = 0 /\ q.of = 0
    <2> DEFINE d == Draft(0, TRUE, 0, 0)
    <2>1. OwnRow(d, Lost) /\ d.img = 0 /\ d.of = 0
      BY DEF Draft, OwnRow, IsRow
    <2> HIDE DEF d
    <2>2. \A r : r = [d EXCEPT !.mode = mode] => OwnRow(r, Lost) /\ r.img = 0 /\ r.of = 0
      BY <2>1, ModedRow
    <2>3. QED
      BY <2>2 DEF d
  <1> HIDE DEF q
  <1>3. f.open = TRUE /\ f.id = 0 /\ f.qso = q /\ f.id \in 0 .. lastId
    BY DEF LogInv, LogTypes
  <1>4. OpenForm(f)
    BY <1>1 DEF q
  <1> HIDE DEF f
  <1>5. QED
    BY <1>2, <1>3, <1>4, OpenFormLog

LEMMA OpenEditLog ==
  ASSUME LogInv, OpenEdit, UNCHANGED <<calls, dialog, logged, unsaved>>
  PROVE  LogInv'
  <1>1. PICK i \in Live(table) : OpenForm([open |-> TRUE, id |-> i, qso |-> table[i]])
    BY DEF OpenEdit
  <1>2. i \in Ids /\ table[i] # NoRow /\ i \in Nat /\ i # 0
    BY LiveIs, IdsAre
  <1>3. OwnRow(table[i], Lost) /\ lastId \in Nat /\ ~(i > lastId)
    BY <1>2 DEF LogInv, LogTypes, IsLog
  <1>4. i \in 0 .. lastId
    BY <1>2, <1>3
  <1> DEFINE f == [open |-> TRUE, id |-> i, qso |-> table[i]]
  <1>5. f.open = TRUE /\ f.id = i /\ f.qso = table[i] /\ OpenForm(f)
    BY <1>1
  <1> HIDE DEF f
  <1>6. QED
    BY <1>2, <1>3, <1>4, <1>5, OpenFormLog

LEMMA FormCancelledLog ==
  ASSUME LogInv, FormCancelled, UNCHANGED <<calls, dialog, logged, unsaved>>
  PROVE  LogInv'
  <1>1. /\ form' = NoForm
        /\ UNCHANGED <<rows, lastId, table, grid, pics, adif, wanted, import, binned, dangling>>
    BY DEF FormCancelled
  <1>2. LogTypes'
    BY <1>1 DEF LogInv, LogTypes, Lost
  <1>3. \A p : \A i \in Ids : Says(i, p)' => Says(i, p)
    BY <1>1 DEF Says
  <1>4. OneRow'
    BY <1>3, SaysLess
  <1>5. SameOf' /\ TaskFiles' /\ ExportInv'
    BY <1>1 DEF LogInv, SameOf, TaskFiles, ExportInv
  <1>6. EditsStay' /\ LinksLive' /\ ImportsExactly'
    BY <1>1 DEF LogInv, EditsStay, LinksLive, ImportsExactly, Live
  <1>7. QED
    BY <1>2, <1>4, <1>5, <1>6 DEF LogInv

\* One row becomes `r`, a row or none, and the table shows what the store holds.
LEMMA RowWritten ==
  ASSUME LogInv, UNCHANGED <<lastId, grid, pics, adif, import, binned, calls, dialog, logged, unsaved>>,
         NEW f \in Ids, f <= lastId, NEW r, rows' = [rows EXCEPT ![f] = r], table' = rows',
         form' = NoForm, dangling \subseteq dangling',
         DOMAIN wanted' = Ids, \A i \in Ids : i # f => wanted'[i] = wanted[i],
         r # NoRow => /\ OwnRow(r, Lost) /\ rows[f] # NoRow /\ r.of = rows[f].of /\ r.call = TRUE
                      /\ \A p : p # 0 /\ r.img = p => Says(f, p)
                      /\ r.text = wanted'[f] /\ r.img \in {0} \cup pics \cup dangling'
  PROVE  LogInv'
  <1>1. /\ DOMAIN rows' = Ids /\ rows'[f] = r
        /\ \A i \in Ids : i # f => rows'[i] = rows[i]
    BY DEF LogInv, LogTypes, IsLog
  <1>2. Ids' = Ids /\ Lost' = Lost
    BY DEF Ids, Lost
  <1>3. \A i \in Ids : i > lastId => i # f
    BY IdsAre DEF LogInv, LogTypes
  <1>4. LogTypes'
    <2>1. IsLog(rows', Lost)
      BY <1>1 DEF LogInv, LogTypes, IsLog
    <2>2. \A i \in Ids : i > lastId => rows'[i] = NoRow /\ wanted'[i] = 0
      BY <1>1, <1>3 DEF LogInv, LogTypes
    <2>3. QED
      BY <1>2, <2>1, <2>2 DEF LogInv, LogTypes
  <1>5. OneRow'
    <2>1. ASSUME NEW p, NEW i \in Ids, p # 0, Says(i, p)'
          PROVE  Says(i, p)
      <3>1. (rows'[i] # NoRow /\ rows'[i].img = p) \/ (p \in DOMAIN grid /\ grid[p].id = i)
        BY <2>1 DEF Says
      <3>2. CASE i = f
        BY <1>1, <2>1, <3>1, <3>2 DEF Says
      <3>3. CASE i # f
        BY <1>1, <3>1, <3>3 DEF Says
      <3>4. QED
        BY <3>2, <3>3
    <2>2. \A p : \A i \in Ids : p # 0 /\ Says(i, p)' => Says(i, p)
      BY <2>1
    <2>3. QED
      BY <2>2, SaysLess
  <1>6. SameOf'
    <2>1. \A i \in Ids : rows'[i] # NoRow => rows[i] # NoRow /\ rows'[i].of = rows[i].of
      BY <1>1
    <2>2. \A i \in Ids : rows'[i] # NoRow => \A p \in DOMAIN grid : grid[p].id = i => rows'[i].of = p
      BY <2>1 DEF LogInv, SameOf
    <2>3. QED
      BY <1>2, <2>2 DEF SameOf
  <1>7. TaskFiles'
    BY DEF LogInv, TaskFiles
  <1>8. ExportInv'
    <2>1. \A k \in Ids : rows'[k] # NoRow => rows[k] # NoRow /\ rows'[k].call \in {TRUE, rows[k].call}
      BY <1>1
    <2>2. \A k \in DOMAIN adif : rows'[k] # NoRow => rows'[k].call
      BY <2>1 DEF LogInv, ExportInv
    <2>3. QED
      BY <1>2, <2>2 DEF LogInv, ExportInv
  <1>9. EditsStay' /\ LinksLive' /\ ImportsExactly'
    <2>1. \A i \in Ids : rows'[i] # NoRow => rows'[i].text = wanted'[i]
      BY <1>1 DEF LogInv, EditsStay, Live
    <2>2. \A i \in Ids : rows'[i] # NoRow => rows'[i].img \in {0} \cup pics \cup dangling'
      BY <1>1 DEF LogInv, LinksLive, Live
    <2>3. QED
      BY <1>2, <2>1, <2>2 DEF LogInv, EditsStay, LinksLive, ImportsExactly, Live
  <1>10. QED
    BY <1>4, <1>5, <1>6, <1>7, <1>8, <1>9 DEF LogInv

LEMMA DeleteRowLog ==
  ASSUME LogInv, DeleteRow, UNCHANGED <<calls, dialog, logged, unsaved>>
  PROVE  LogInv'
  <1>1. PICK i \in Live(table) : rows' = [rows EXCEPT ![i] = NoRow] /\ wanted' = [wanted EXCEPT ![i] = 0]
    BY DEF DeleteRow
  <1>2. /\ table' = rows' /\ form' = NoForm
        /\ UNCHANGED <<lastId, grid, pics, adif, import, binned, dangling>>
    BY DEF DeleteRow, Refresh, AtWindows
  <1>3. i \in Ids /\ table[i] # NoRow /\ i \in Nat
    BY LiveIs, IdsAre
  <1>4. lastId \in Nat /\ ~(i > lastId)
    BY <1>3 DEF LogInv, LogTypes
  <1>5. i <= lastId
    BY <1>3, <1>4
  <1>6. DOMAIN wanted' = Ids /\ \A j \in Ids : j # i => wanted'[j] = wanted[j]
    BY <1>1 DEF LogInv, LogTypes
  <1>7. QED
    BY <1>1, <1>2, <1>3, <1>5, <1>6, RowWritten

LEMMA FormSavedLog ==
  ASSUME LogInv, FormSaved, UNCHANGED <<calls, dialog, logged, unsaved>>
  PROVE  LogInv'
  <1> DEFINE e == Entered
             f == form.id
             old == rows[form.id]
  <1>1. /\ form.open /\ form' = NoForm /\ table' = rows'
        /\ \/ f = 0 /\ CanInsert /\ Insert([e EXCEPT !.at = lastId + 1])
           \/ f # 0 /\ old # NoRow /\ rows' = [rows EXCEPT ![f] = e] /\ lastId' = lastId
        /\ wanted' = [wanted EXCEPT ![IF f = 0 THEN lastId' ELSE f] = work]
        /\ dangling' = IF f # 0 /\ form.qso.img # old.img THEN dangling \cup {form.qso.img} ELSE dangling
        /\ UNCHANGED <<grid, pics, adif, import, binned>>
    BY DEF FormSaved, Refresh, Update
  <1>2. /\ form # NoForm /\ f \in 0 .. lastId /\ OwnRow(form.qso, Lost)
        /\ f = 0 => form.qso.img = 0
    <2>1. form # NoForm
      BY <1>1 DEF NoForm
    <2>2. QED
      BY <2>1 DEF LogInv, LogTypes
  <1>3. /\ OwnRow(e, Lost) /\ e.text = work /\ e.call = TRUE
        /\ e.img = form.qso.img /\ e.of = form.qso.of
    <2> DEFINE q == form.qso
    <2>1. OwnRow(q, Lost) /\ e = [q EXCEPT !.text = work, !.call = TRUE]
      BY <1>2 DEF Entered
    <2> HIDE DEF q, e
    <2>2. PICK c, a, m, x, p, s, o :
             q = [row |-> TRUE, call |-> c, at |-> a, mode |-> m, text |-> x, img |-> p,
                  audio |-> s, of |-> o]
      BY <2>1, RowFields DEF OwnRow
    <2>3. e = [row |-> TRUE, call |-> TRUE, at |-> a, mode |-> m, text |-> work, img |-> p,
               audio |-> s, of |-> o]
      BY <2>1, <2>2
    <2>4. /\ OwnRow(e, Lost) /\ e.text = work /\ e.call = TRUE
          /\ e.img = q.img /\ e.of = q.of
      BY <2>1, <2>2, <2>3 DEF OwnRow, IsRow
    <2>5. QED
      BY <2>4 DEF q
  <1>4. /\ lastId \in Nat /\ DOMAIN wanted = Ids
        /\ CanInsert => lastId + 1 \in Ids
    BY IdsAre DEF LogInv, LogTypes, CanInsert
  <1> HIDE DEF e, old
  <1>5. CASE f = 0 /\ CanInsert /\ Insert([e EXCEPT !.at = lastId + 1])
    <2> DEFINE r == [e EXCEPT !.at = lastId + 1]
    <2>1. OwnRow(r, Lost) /\ r.text = work /\ r.img = 0
      <3>1. \A q : q = [e EXCEPT !.at = lastId + 1] => OwnRow(q, Lost) /\ q.text = work /\ q.img = 0
        BY <1>2, <1>3, <1>5, TimedRow
      <3>2. QED
        BY <3>1
    <2>2. Insert(r)
      BY <1>5
    <2> HIDE DEF r
    <2>3. lastId' = lastId + 1
      BY <2>2 DEF Insert
    <2>4. DOMAIN wanted' = Ids /\ \A i \in Ids : wanted'[i] = IF i = lastId + 1 THEN r.text ELSE wanted[i]
      BY <1>1, <1>4, <1>5, <2>1, <2>3
    <2>5. dangling' = dangling
      BY <1>1, <1>5
    <2>6. TaskFiles'
      BY <1>1, <2>5 DEF LogInv, TaskFiles
    <2>7. QED
      BY <1>1, <1>5, <2>1, <2>2, <2>4, <2>5, <2>6, RowAdded
  <1>6. CASE f # 0 /\ old # NoRow /\ rows' = [rows EXCEPT ![f] = e] /\ lastId' = lastId
    <2>1. f \in Ids /\ f <= lastId
      BY <1>2, <1>4, <1>6, IdsAre DEF LogInv, LogTypes
    <2>2. DOMAIN wanted' = Ids /\ wanted'[f] = work /\ \A i \in Ids : i # f => wanted'[i] = wanted[i]
      BY <1>1, <1>4, <1>6, <2>1
    <2>3. e.of = rows[f].of /\ rows[f] # NoRow
      BY <1>2, <1>3, <1>6, <2>1 DEF LogInv, SameOf, old
    <2>4. \A p : p # 0 /\ e.img = p => Says(f, p)
      BY <1>2, <1>3 DEF Says
    <2>5. e.img \in {0} \cup pics \cup dangling' /\ dangling \subseteq dangling'
      <3>1. rows[f].img \in {0} \cup pics \cup dangling
        BY <2>1, <2>3 DEF LogInv, LinksLive, Live
      <3>2. QED
        BY <1>1, <1>3, <1>6, <3>1 DEF old
    <2> HIDE DEF f
    <2>6. QED
      BY <1>1, <1>3, <1>6, <2>1, <2>2, <2>3, <2>4, <2>5, RowWritten
  <1>7. QED
    BY <1>1, <1>5, <1>6

\* What the Gallery reads: for each file the one row that links it, or none.
LEMMA GalleryReads ==
  ASSUME LogInv, UNCHANGED <<lastId, table, form, adif, logged>>,
         DOMAIN rows' = Ids,
         \A i \in Ids : rows'[i] # NoRow =>
            /\ rows[i] # NoRow /\ rows'[i].of = rows[i].of /\ rows'[i].call = rows[i].call
            /\ rows'[i].img \in {0, rows[i].img},
         pics' \subseteq pics, grid' = Scan(pics', rows')
  PROVE  /\ OneRow' /\ SameOf' /\ ExportInv'
         /\ 0 \notin DOMAIN grid' /\ \A p \in DOMAIN grid' : grid'[p].id \in 0 .. lastId
  <1>1. \A p : \A i, j \in Ids :
           /\ rows'[i] # NoRow /\ rows'[j] # NoRow /\ rows'[i].img = p /\ rows'[j].img = p /\ p # 0
           => i = j
    <2>1. \A p : \A i \in Ids : rows'[i] # NoRow /\ rows'[i].img = p /\ p # 0 => Says(i, p)
      BY DEF Says
    <2>2. QED
      BY <2>1 DEF LogInv, OneRow
  <1>2. ASSUME NEW p \in pics'
        PROVE  \/ LinkOf(rows', p) = 0
               \/ /\ LinkOf(rows', p) \in Ids /\ rows'[LinkOf(rows', p)] # NoRow
                  /\ rows'[LinkOf(rows', p)].img = p
    <2>1. p # 0
      BY <1>2 DEF LogInv, LogTypes
    <2>2. \A i, j \in Live(rows') : rows'[i].img = p /\ rows'[j].img = p => i = j
      BY <1>1, <2>1, LiveIs
    <2>3. \/ LinkOf(rows', p) = 0
          \/ LinkOf(rows', p) \in Live(rows') /\ rows'[LinkOf(rows', p)].img = p
      <3>1. PICK log : log = rows'
        OBVIOUS
      <3>2. \A i, j \in Live(log) : log[i].img = p /\ log[j].img = p => i = j
        BY <2>2, <3>1
      <3>3. LinkOf(log, p) = 0 \/ (LinkOf(log, p) \in Live(log) /\ log[LinkOf(log, p)].img = p)
        BY <3>2, LinkFound
      <3>4. QED
        BY <3>1, <3>3
    <2>4. QED
      BY <2>3, LiveIs
  <1>3. DOMAIN grid' = pics' /\ \A p \in pics' : grid'[p].id = LinkOf(rows', p)
    BY DEF Scan
  <1>4. \A p \in DOMAIN grid' :
           \/ grid'[p].id = 0
           \/ grid'[p].id \in Ids /\ rows'[grid'[p].id] # NoRow /\ rows'[grid'[p].id].img = p
    BY <1>2, <1>3
  <1>5. 0 \notin DOMAIN grid' /\ 0 \notin Ids
    BY <1>3, IdsAre DEF LogInv, LogTypes
  <1>6. \A p \in DOMAIN grid' : grid'[p].id \in 0 .. lastId
    <2>1. TAKE p \in DOMAIN grid'
    <2>2. CASE grid'[p].id = 0
      BY <2>2 DEF LogInv, LogTypes
    <2>3. CASE grid'[p].id \in Ids /\ rows'[grid'[p].id] # NoRow
      <3>1. grid'[p].id \in Nat /\ ~(grid'[p].id > lastId) /\ lastId \in Nat
        BY <2>3, IdsAre DEF LogInv, LogTypes
      <3>2. QED
        BY <3>1
    <2>4. QED
      BY <1>4, <2>2, <2>3
  <1>7. OneRow'
    <2>1. ASSUME NEW p, NEW i \in Ids, p # 0, Says(i, p)'
          PROVE  Says(i, p)
      <3>1. \/ rows'[i] # NoRow /\ rows'[i].img = p
            \/ table[i] # NoRow /\ table[i].img = p
            \/ form # NoForm /\ form.id = i /\ form.qso.img = p
            \/ p \in DOMAIN grid' /\ grid'[p].id = i
        BY <2>1 DEF Says
      <3>2. p \in DOMAIN grid' /\ grid'[p].id = i => rows'[i] # NoRow /\ rows'[i].img = p
        BY <1>4, <1>5
      <3>3. rows'[i] # NoRow /\ rows'[i].img = p => rows[i] # NoRow /\ rows[i].img = p
        BY <2>1
      <3>4. QED
        BY <3>1, <3>2, <3>3 DEF Says
    <2>2. \A p : \A i \in Ids : p # 0 /\ Says(i, p)' => Says(i, p)
      BY <2>1
    <2>3. QED
      BY <2>2, SaysLess
  <1>8. SameOf'
    <2>1. \A i \in Ids : rows'[i] # NoRow =>
             /\ table[i] # NoRow => table[i].of = rows'[i].of
             /\ form # NoForm /\ form.id = i => form.qso.of = rows'[i].of
      BY DEF LogInv, SameOf
    <2>2. ASSUME NEW i \in Ids, rows'[i] # NoRow, NEW p \in DOMAIN grid', grid'[p].id = i
          PROVE  rows'[i].of = p
      <3>1. rows'[i].img = p /\ p # 0
        BY <1>4, <1>5, <2>2
      <3>2. rows[i].img \in {0, rows[i].of}
        BY <2>2 DEF LogInv, LogTypes, IsLog, OwnRow
      <3>3. QED
        BY <2>2, <3>1, <3>2
    <2>3. Ids' = Ids
      BY DEF Ids
    <2>4. QED
      BY <2>1, <2>2, <2>3 DEF SameOf
  <1>9. ExportInv'
    <2>1. /\ \A k \in DOMAIN adif : rows'[k] # NoRow => rows'[k].call
          /\ \A i \in Ids : table[i] # NoRow /\ table[i].call /\ rows'[i] # NoRow => rows'[i].call
      BY DEF LogInv, ExportInv
    <2>2. Ids' = Ids
      BY DEF Ids
    <2>3. QED
      BY <2>1, <2>2 DEF LogInv, ExportInv
  <1>10. QED
    BY <1>5, <1>6, <1>7, <1>8, <1>9

LEMMA ShowGalleryLog ==
  ASSUME LogInv, ShowGallery, UNCHANGED <<calls, dialog, logged, unsaved>>
  PROVE  LogInv'
  <1>1. /\ grid' = Scan(pics', rows')
        /\ UNCHANGED <<rows, lastId, table, form, pics, adif, wanted, import, binned, dangling>>
    BY DEF ShowGallery
  <1>2. DOMAIN rows' = Ids
    BY <1>1 DEF LogInv, LogTypes, IsLog
  <1>3. /\ OneRow' /\ SameOf' /\ ExportInv'
        /\ 0 \notin DOMAIN grid' /\ \A p \in DOMAIN grid' : grid'[p].id \in 0 .. lastId
    <2>1. \A i \in Ids : rows'[i] # NoRow =>
            /\ rows[i] # NoRow /\ rows'[i].of = rows[i].of /\ rows'[i].call = rows[i].call
            /\ rows'[i].img \in {0, rows[i].img}
      BY <1>1
    <2>2. QED
      BY <1>1, <1>2, <2>1, GalleryReads
  <1>4. LogTypes'
    BY <1>1, <1>3 DEF LogInv, LogTypes, Lost
  <1>5. TaskFiles'
    BY <1>1 DEF LogInv, TaskFiles
  <1>6. EditsStay' /\ LinksLive' /\ ImportsExactly'
    BY <1>1 DEF LogInv, EditsStay, LinksLive, ImportsExactly, Live
  <1>7. QED
    BY <1>3, <1>4, <1>5, <1>6 DEF LogInv

LEMMA DeleteImageLog ==
  ASSUME WayInv, LogInv, Idle, DeleteImage, UNCHANGED <<calls, dialog, stash, logged, unsaved>>
  PROVE  LogInv'
  <1>1. PICK img \in DOMAIN grid :
          /\ pics' = pics \ {img} /\ binned' = binned \cup {img}
          /\ \/ rows' = rows /\ dangling' = dangling \cup {img}
             \/ grid[img].id # 0 /\ rows' = Cleared(rows, grid[img]) /\ dangling' = dangling
    BY DEF DeleteImage
  <1>2. /\ form = NoForm /\ grid' = Scan(pics', rows')
        /\ UNCHANGED <<lastId, table, form, adif, wanted, import>>
    BY DEF DeleteImage, AtWindows
  <1> DEFINE g == grid[img].id
  <1>3. img # 0 /\ lastId \in Nat /\ g \in 0 .. lastId /\ (g # 0 => g \in Ids)
    <2>1. img # 0 /\ lastId \in Nat /\ g \in 0 .. lastId /\ lastId <= MaxRows
      BY DEF LogInv, LogTypes
    <2>2. QED
      BY <2>1, IdsAre
  <1>4. Lost \subseteq Lost' /\ img \in Lost' /\ Ids' = Ids
    BY <1>1 DEF Lost, Ids
  <1>5. DOMAIN rows = Ids /\ DOMAIN rows' = Ids
    BY <1>1 DEF LogInv, LogTypes, IsLog, Cleared
  <1>6. \A i \in Ids : rows[i] # NoRow => OwnRow(rows[i], Lost)
    BY DEF LogInv, LogTypes, IsLog
  <1>7. \A i \in Ids : rows'[i] # NoRow =>
           /\ rows[i] # NoRow /\ rows'[i].of = rows[i].of /\ rows'[i].call = rows[i].call
           /\ rows'[i].img \in {0, rows[i].img} /\ rows'[i].text = rows[i].text
           /\ OwnRow(rows'[i], Lost')
           /\ rows' = rows \/ (i = g => rows'[i].img = 0)
    <2>1. TAKE i \in Ids
    <2>2. HAVE rows'[i] # NoRow
    <2>3. CASE rows'[i] = rows[i] /\ (rows' = rows \/ i # g)
      <3>1. OwnRow(rows[i], Lost')
        BY <1>4, <1>6, <2>2, <2>3, MoreLost
      <3>2. QED
        BY <2>2, <2>3, <3>1
    <2>4. CASE i = g /\ rows[i] # NoRow /\ rows'[i] = [rows[i] EXCEPT !.img = 0]
      <3> DEFINE q == rows[i]
                 r == rows'[i]
      <3>1. OwnRow(q, Lost) /\ r = [q EXCEPT !.img = 0]
        BY <1>6, <2>4
      <3>2. q.of = img
        BY <2>4 DEF LogInv, SameOf
      <3> HIDE DEF q, r
      <3>3. OwnRow(r, Lost') /\ r.text = q.text /\ r.call = q.call /\ r.img = 0 /\ r.of = q.of
        BY <1>4, <3>1, <3>2, UnlinkedRow
      <3>4. QED
        BY <2>4, <3>3 DEF q, r
    <2>5. \/ rows' = rows
          \/ rows[g] # NoRow /\ g \in Ids /\ rows' = [rows EXCEPT ![g].img = 0]
      BY <1>1, <1>3 DEF Cleared
    <2>6. QED
      BY <1>5, <2>2, <2>3, <2>4, <2>5
  <1>8. /\ OneRow' /\ SameOf' /\ ExportInv'
        /\ 0 \notin DOMAIN grid' /\ \A p \in DOMAIN grid' : grid'[p].id \in 0 .. lastId
    <2>1. pics' \subseteq pics
      BY <1>1
    <2>2. QED
      BY <1>2, <1>5, <1>7, <2>1, GalleryReads
  <1>9. LogTypes'
    <2>1. IsLog(rows', Lost')
      BY <1>5, <1>7 DEF IsLog
    <2>2. IsLog(table, Lost')
      BY <1>4, MoreLost DEF LogInv, LogTypes
    <2>3. \A i \in Ids : i > lastId => rows'[i] = NoRow
      BY <1>7 DEF LogInv, LogTypes
    <2>4. QED
      BY <1>1, <1>2, <1>4, <1>8, <2>1, <2>2, <2>3 DEF LogInv, LogTypes
  <1>10. \A i \in Ids : rows[i] # NoRow /\ rows[i].img = img => Says(i, img) /\ (g # 0 => i = g)
    <2>1. \A i \in Ids : rows[i] # NoRow /\ rows[i].img = img => Says(i, img)
      BY DEF Says
    <2>2. g # 0 => Says(g, img)
      BY DEF Says
    <2>3. QED
      BY <1>3, <2>1, <2>2 DEF LogInv, OneRow
  <1>11. LinksLive'
    <2>1. \A i \in Ids : rows'[i] # NoRow => rows'[i].img \in {0} \cup pics' \cup dangling'
      <3>1. TAKE i \in Ids
      <3>2. HAVE rows'[i] # NoRow
      <3>3. rows[i].img \in {0} \cup pics \cup dangling
        BY <1>7, <3>2 DEF LogInv, LinksLive, Live
      <3>4. CASE dangling' = dangling \cup {img}
        BY <1>1, <1>7, <3>2, <3>3, <3>4
      <3>5. CASE g # 0 /\ rows' = Cleared(rows, grid[img]) /\ dangling' = dangling
        <4>1. i = g => rows'[i].img = 0
          <5>1. i = g => rows' = [rows EXCEPT ![g].img = 0]
            BY <1>7, <3>2, <3>5 DEF Cleared
          <5>2. QED
            BY <1>5, <1>6, <1>7, <3>2, <5>1 DEF OwnRow, IsRow
        <4>2. i # g => rows'[i].img = 0 \/ rows'[i].img # img
          BY <1>7, <1>10, <3>2, <3>5
        <4>3. QED
          BY <1>1, <1>7, <3>2, <3>3, <4>1, <4>2
      <3>6. QED
        BY <1>1, <3>4, <3>5
    <2>2. QED
      BY <1>4, <2>1 DEF LinksLive, Live
  <1>12. TaskFiles'
    <2>1. calls = <<>> /\ calls' = <<>>
      BY DEF Idle
    <2>2. dialog # NoForm => dialog.path \in {0} \cup pics' \cup dangling'
      <3>1. SUFFICES ASSUME dialog # NoForm PROVE dialog.path \in {0} \cup pics' \cup dangling'
        OBVIOUS
      <3>2. dialog.path \in {0} \cup pics \cup dangling /\ dialog.path \in {0, dialog.pic}
        BY <3>1 DEF LogInv, TaskFiles, WayInv, Slots
      <3>3. CASE dangling' = dangling \cup {img}
        BY <1>1, <3>2, <3>3
      <3>4. CASE g # 0 /\ dangling' = dangling
        <4>1. Says(g, img) /\ g \in Ids
          BY <1>3, <3>4 DEF Says
        <4>2. img \in logged
          BY <1>3, <4>1 DEF LogInv, OneRow
        <4>3. dialog.pic \notin logged
          BY <3>1 DEF WayInv, HeldOnce, Held
        <4>4. QED
          BY <1>1, <3>2, <3>4, <4>2, <4>3
      <3>5. QED
        BY <1>1, <3>3, <3>4
    <2>3. QED
      BY <2>1, <2>2 DEF TaskFiles
  <1>13. EditsStay' /\ ImportsExactly'
    BY <1>2, <1>4, <1>7 DEF LogInv, EditsStay, ImportsExactly, Live
  <1>14. QED
    BY <1>8, <1>9, <1>11, <1>12, <1>13 DEF LogInv

LEMMA ExportAdifLog ==
  ASSUME LogInv, ExportAdif, UNCHANGED <<calls, dialog, logged, unsaved>>
  PROVE  LogInv'
  <1>1. /\ adif' = Exported(table)
        /\ UNCHANGED <<rows, lastId, table, grid, form, pics, wanted, import, binned, dangling>>
    BY DEF ExportAdif
  <1>2. LogTypes'
    BY <1>1 DEF LogInv, LogTypes, Lost
  <1>3. \A p : \A i \in Ids : Says(i, p)' => Says(i, p)
    BY <1>1 DEF Says
  <1>4. OneRow'
    BY <1>3, SaysLess
  <1>5. SameOf' /\ TaskFiles'
    BY <1>1 DEF LogInv, SameOf, TaskFiles
  <1>6. ExportInv'
    <2>1. ASSUME NEW k \in DOMAIN adif'
          PROVE  /\ k \in Ids /\ k <= lastId /\ adif'[k].id = k
                 /\ adif'[k].at = adif'[k].key[1]
                 /\ adif'[k].mode = ModeFields(adif'[k].key[2])[1]
                 /\ adif'[k].submode = ModeFields(adif'[k].key[2])[2]
                 /\ rows[k] # NoRow => rows[k].call
      <3>1. /\ k \in Live(table) /\ table[k].call /\ adif'[k] = Record(k, table[k])
        BY <1>1, <2>1 DEF Exported
      <3>2. k \in Ids /\ table[k] # NoRow
        BY <3>1, LiveIs
      <3>3. k \in Nat /\ lastId \in Nat /\ ~(k > lastId)
        BY <3>2, IdsAre DEF LogInv, LogTypes
      <3>4. k <= lastId
        BY <3>3
      <3>5. /\ adif'[k].id = k /\ adif'[k].at = table[k].at
            /\ adif'[k].key = KeyOf(table[k])
            /\ adif'[k].mode = ModeFields(table[k].mode)[1]
            /\ adif'[k].submode = ModeFields(table[k].mode)[2]
        BY <3>1 DEF Record
      <3>6. adif'[k].key[1] = table[k].at /\ adif'[k].key[2] = table[k].mode
        BY <3>5, Pair DEF KeyOf
      <3>7. rows[k] # NoRow => rows[k].call
        BY <3>1, <3>2 DEF LogInv, ExportInv
      <3>8. QED
        BY <3>2, <3>4, <3>5, <3>6, <3>7
    <2>2. Ids' = Ids
      BY DEF Ids
    <2>3. QED
      BY <1>1, <2>1, <2>2 DEF LogInv, ExportInv
  <1>7. EditsStay' /\ LinksLive' /\ ImportsExactly'
    BY <1>1 DEF LogInv, EditsStay, LinksLive, ImportsExactly, Live
  <1>8. QED
    BY <1>2, <1>4, <1>5, <1>6, <1>7 DEF LogInv

\* A record of the program's own, of a row that is as it was, is found stored.
LEMMA EchoIsStored ==
  ASSUME LogInv, NEW k \in DOMAIN adif, rows[k] # NoRow, KeyOf(rows[k]) = adif[k].key,
         Named(adif[k].key[2])
  PROVE  KeyOf(Parsed(adif[k])) \in StoredKeys
  <1> DEFINE r == adif[k]
  <1>1. /\ k \in Ids /\ r.at = r.key[1] /\ rows[k].call
        /\ r.mode = ModeFields(r.key[2])[1] /\ r.submode = ModeFields(r.key[2])[2]
    BY DEF LogInv, ExportInv
  <1>2. r.key = <<rows[k].at, rows[k].mode>>
    BY DEF KeyOf
  <1>3. ModeRead(r) = r.key[2]
    <2> DEFINE m == r.key[2]
    <2>1. Named(m) /\ r.mode = ModeFields(m)[1] /\ r.submode = ModeFields(m)[2]
      BY <1>1
    <2> HIDE DEF m, r
    <2>2. ModeRead(r) = m
      BY <2>1, ModeComesBack
    <2>3. QED
      BY <2>2 DEF m
  <1> HIDE DEF r
  <1>4. r.key[1] = rows[k].at /\ r.key[2] = rows[k].mode
    BY <1>2, Pair
  <1>5. Parsed(r).at = rows[k].at /\ Parsed(r).mode = rows[k].mode
    BY <1>1, <1>3, <1>4 DEF Parsed
  <1>6. KeyOf(Parsed(r)) = KeyOf(rows[k])
    BY <1>5 DEF KeyOf
  <1>7. k \in Live(rows)
    BY <1>1, LiveIs
  <1>8. QED
    BY <1>1, <1>6, <1>7 DEF StoredKeys, r

LEMMA ImportAdifLog ==
  ASSUME LogInv, ImportAdif, UNCHANGED <<calls, dialog, logged, unsaved>>
  PROVE  LogInv'
  <1>1. PICK file \in {adif} \cup Foreign, fails \in BOOLEAN :
          LET new == Fresh(file)
              unchanged(r) == r.id # 0 /\ rows[r.id] # NoRow /\ KeyOf(rows[r.id]) = r.key
          IN  /\ Readable(file) # {} /\ lastId + Cardinality(new) <= MaxRows
              /\ IF fails THEN new # {} /\ UNCHANGED <<rows, lastId, table>>
                 ELSE InsertMany(file, new) /\ Refresh
              /\ import' = [added |-> lastId' - lastId,
                            missing |-> Cardinality({KeyOf(Parsed(file[k])) : k \in Readable(file)}
                                                    \ StoredKeys),
                            echoes |-> IF fails THEN 0
                                       ELSE Cardinality({k \in new : unchanged(file[k])
                                                           /\ file[k].key[2] # ""})]
              /\ wanted' = [i \in Ids |-> IF i \in lastId + 1 .. lastId'
                                            THEN rows'[i].text ELSE wanted[i]]
    BY DEF ImportAdif
  <1> DEFINE new == Fresh(file)
             n == Cardinality(new)
             same == {k \in new : /\ file[k].id # 0 /\ rows[file[k].id] # NoRow
                                  /\ KeyOf(rows[file[k].id]) = file[k].key
                                  /\ file[k].key[2] # ""}
             missing == {KeyOf(Parsed(file[k])) : k \in Readable(file)} \ StoredKeys
  <1>2. /\ lastId + n <= MaxRows
        /\ \/ rows' = rows /\ lastId' = lastId /\ table' = table /\ fails
           \/ InsertMany(file, new) /\ table' = rows' /\ ~fails
        /\ import'.added = lastId' - lastId /\ import'.missing = Cardinality(missing)
        /\ import'.echoes = IF fails THEN 0 ELSE Cardinality(same)
        /\ wanted' = [i \in Ids |-> IF i \in lastId + 1 .. lastId' THEN rows'[i].text ELSE wanted[i]]
    BY <1>1 DEF Refresh
  <1>3. form = NoForm /\ UNCHANGED <<grid, form, pics, adif, binned, dangling>>
    BY DEF ImportAdif, AtWindows
  <1>4. DOMAIN file \subseteq Nat /\ IsFiniteSet(DOMAIN file)
    <2>1. CASE file = adif
      <3>1. DOMAIN adif \subseteq Ids
        BY DEF LogInv, ExportInv
      <3>2. QED
        BY <2>1, <3>1, IdsAre, FS_Subset
    <2>2. CASE file \in Foreign
      <3>1. Len(file) \in Nat /\ DOMAIN file = 1 .. Len(file)
        BY <2>2, LogAssumption
      <3>2. 1 .. Len(file) \subseteq Nat /\ IsFiniteSet(1 .. Len(file))
        BY <3>1, FS_Interval
      <3>3. QED
        BY <3>1, <3>2
    <2>3. QED
      BY <2>1, <2>2
  <1>5. /\ new \subseteq Readable(file) /\ Readable(file) \subseteq DOMAIN file /\ IsFiniteSet(new)
        /\ n = Cardinality(missing)
    BY <1>4, FreshIsMissing DEF Readable
  <1>6. n \in Nat
    BY <1>5, FS_CardinalityType
  <1>7. same = {}
    <2>1. SUFFICES ASSUME NEW k \in same PROVE FALSE
      OBVIOUS
    <2>2. /\ k \in new /\ file[k].id # 0 /\ rows[file[k].id] # NoRow
          /\ KeyOf(rows[file[k].id]) = file[k].key /\ Named(file[k].key[2])
      BY DEF Named
    <2>3. k \in DOMAIN file /\ KeyOf(Parsed(file[k])) \notin StoredKeys
      BY <1>5, <2>2 DEF Fresh
    <2>4. file = adif
      BY <2>2, <2>3, LogAssumption
    <2>5. k \in DOMAIN adif /\ adif[k].id = k
      BY <2>3, <2>4 DEF LogInv, ExportInv
    <2>6. QED
      BY <2>2, <2>3, <2>4, <2>5, EchoIsStored
  <1>8. Cardinality(same) = 0
    BY <1>7, FS_EmptySet
  <1> HIDE DEF new, n, same, missing
  <1>9. /\ lastId \in Nat /\ MaxRows \in Nat /\ Ids' = Ids /\ Lost' = Lost
        /\ lastId' \in {lastId, lastId + n} /\ lastId' \in Nat /\ lastId' <= MaxRows
        /\ lastId <= lastId'
    <2>1. lastId \in Nat /\ MaxRows \in Nat /\ lastId <= MaxRows
      BY IdsAre DEF LogInv, LogTypes
    <2>2. lastId' \in {lastId, lastId + n}
      BY <1>2 DEF InsertMany, n
    <2>3. Ids' = Ids /\ Lost' = Lost
      BY <1>3 DEF Ids, Lost
    <2>4. QED
      BY <1>2, <1>6, <2>1, <2>2, <2>3
  <1>10. ImportsExactly'
    <2>1. lastId' - lastId \in {0, n}
      <3>1. \A a, b \in Nat : a - a = 0 /\ (a + b) - a = b
        OBVIOUS
      <3>2. lastId - lastId = 0 /\ (lastId + n) - lastId = n
        BY <1>6, <1>9, <3>1
      <3>3. QED
        BY <1>9, <3>2
    <2>2. QED
      BY <1>2, <1>5, <1>8, <2>1 DEF ImportsExactly
  <1>11. /\ DOMAIN rows' = Ids
         /\ \A i \in Ids : IF i \in lastId + 1 .. lastId'
                             THEN /\ OwnRow(rows'[i], Lost) /\ rows'[i].img = 0
                                  /\ i > lastId
                             ELSE rows'[i] = rows[i] /\ (i > lastId' => i > lastId)
    <2>1. CASE rows' = rows /\ lastId' = lastId
      <3>1. \A i \in Ids : i \notin lastId + 1 .. lastId'
        BY <1>9, <2>1
      <3>2. QED
        BY <1>9, <2>1, <3>1 DEF LogInv, LogTypes, IsLog
    <2>2. CASE InsertMany(file, new)
      <3>1. /\ lastId' = lastId + n
            /\ rows' = [i \in Ids |-> IF i - lastId \in 1 .. n
                                        THEN Parsed(file[Nth(i - lastId, new)]) ELSE rows[i]]
        BY <2>2 DEF InsertMany, n
      <3>2. \A i \in Ids : /\ i - lastId \in 1 .. n <=> i \in lastId + 1 .. lastId'
                           /\ i \in lastId + 1 .. lastId' => i > lastId
                           /\ i > lastId' => i > lastId
        BY <1>6, <1>9, <3>1, IdsAre
      <3>3. \A r : OwnRow(Parsed(r), Lost) /\ Parsed(r).img = 0
        BY ParsedRow
      <3>4. QED
        BY <3>1, <3>2, <3>3
    <2>3. QED
      BY <1>2, <2>1, <2>2
  <1> DEFINE added(i) == i \in lastId + 1 .. lastId'
  <1>12. \A i \in Ids : /\ added(i) => i > lastId /\ ~(i > lastId')
                        /\ added(i) => wanted'[i] = rows'[i].text
                        /\ ~added(i) => wanted'[i] = wanted[i]
    BY <1>2, <1>9, <1>11, IdsAre
  <1>13. DOMAIN wanted' = Ids
    BY <1>2
  <1>14. \A i \in Ids : added(i) => OwnRow(rows'[i], Lost) /\ rows'[i].img = 0
    BY <1>11
  <1>15. \A i \in Ids : ~added(i) => rows'[i] = rows[i] /\ (i > lastId' => i > lastId)
    BY <1>11
  <1> HIDE DEF added
  \* The window shows the store, or what it showed of one that has not changed.
  <1>23. table' = rows' \/ (table' = table /\ rows' = rows /\ lastId' = lastId)
    BY <1>2
  <1>16. LogTypes'
    <2>1. IsLog(rows', Lost)
      BY <1>11, <1>14, <1>15 DEF LogInv, LogTypes, IsLog
    <2>2. \A i \in Ids : i > lastId' => rows'[i] = NoRow /\ wanted'[i] = 0
      BY <1>12, <1>15 DEF LogInv, LogTypes
    <2>3. \A p \in DOMAIN grid : grid[p].id \in 0 .. lastId'
      BY <1>9 DEF LogInv, LogTypes
    <2>4. 0 \notin pics /\ 0 \notin DOMAIN grid
      BY DEF LogInv, LogTypes
    <2>5. IsLog(table', Lost) /\ \A i \in Ids : i > lastId' => table'[i] = NoRow
      <3>1. CASE table' = rows'
        BY <2>1, <2>2, <3>1
      <3>2. CASE table' = table /\ lastId' = lastId
        BY <3>2 DEF LogInv, LogTypes
      <3>3. QED
        BY <1>23, <3>1, <3>2
    <2>6. QED
      BY <1>3, <1>9, <1>13, <2>1, <2>2, <2>3, <2>4, <2>5 DEF LogTypes
  <1>17. OneRow'
    <2>1. ASSUME NEW p, NEW i \in Ids, p # 0, Says(i, p)'
          PROVE  Says(i, p)
      <3>1. \/ rows'[i] # NoRow /\ rows'[i].img = p
            \/ table[i] # NoRow /\ table[i].img = p
            \/ p \in DOMAIN grid /\ grid[p].id = i
        BY <1>3, <1>23, <2>1 DEF Says
      <3>2. QED
        BY <1>14, <1>15, <2>1, <3>1 DEF Says
    <2>2. \A p : \A i \in Ids : p # 0 /\ Says(i, p)' => Says(i, p)
      BY <2>1
    <2>3. QED
      BY <2>2, SaysLess
  <1>18. SameOf'
    <2>1. ASSUME NEW i \in Ids, rows'[i] # NoRow, NEW p \in DOMAIN grid, grid[p].id = i
          PROVE  rows'[i].of = p
      <3>1. ~(i > lastId)
        BY <1>9, <2>1, IdsAre DEF LogInv, LogTypes
      <3>2. rows'[i] = rows[i]
        BY <1>12, <1>15, <3>1
      <3>3. QED
        BY <2>1, <3>2 DEF LogInv, SameOf
    <2>2. ASSUME NEW i \in Ids, rows'[i] # NoRow, table'[i] # NoRow
          PROVE  table'[i].of = rows'[i].of
      BY <1>23, <2>2 DEF LogInv, SameOf
    <2>3. QED
      BY <1>3, <1>9, <2>1, <2>2 DEF SameOf
  <1>19. ExportInv'
    <2>1. \A k \in DOMAIN adif : /\ k \in Ids /\ k <= lastId'
                                 /\ rows'[k] # NoRow => rows'[k].call
      <3>1. TAKE k \in DOMAIN adif
      <3>2. k \in Ids /\ k <= lastId /\ (rows[k] # NoRow => rows[k].call)
        BY DEF LogInv, ExportInv
      <3>3. k \in Nat /\ k <= lastId' /\ ~(k > lastId)
        BY <1>9, <3>2, IdsAre
      <3>4. rows'[k] = rows[k]
        BY <1>12, <1>15, <3>2, <3>3
      <3>5. QED
        BY <3>2, <3>3, <3>4
    <2>2. \A i \in Ids : table'[i] # NoRow /\ table'[i].call /\ rows'[i] # NoRow => rows'[i].call
      BY <1>23 DEF LogInv, ExportInv
    <2>3. QED
      BY <1>3, <1>9, <2>1, <2>2 DEF LogInv, ExportInv
  <1>20. TaskFiles'
    BY <1>3 DEF LogInv, TaskFiles
  <1>21. EditsStay' /\ LinksLive'
    <2>1. \A i \in Ids : rows'[i] # NoRow => rows'[i].text = wanted'[i]
      BY <1>12, <1>15 DEF LogInv, EditsStay, Live
    <2>2. \A i \in Ids : rows'[i] # NoRow => rows'[i].img \in {0} \cup pics \cup dangling
      BY <1>14, <1>15 DEF LogInv, LinksLive, Live
    <2>3. QED
      BY <1>3, <1>9, <2>1, <2>2 DEF EditsStay, LinksLive, Live
  <1>22. QED
    BY <1>10, <1>16, <1>17, <1>18, <1>19, <1>20, <1>21 DEF LogInv

-----------------------------------------------------------------------------
(* The log stays whole *)

LEMMA LogInit == ASSUME Init PROVE LogInv
  <1>1. /\ rows = [i \in Ids |-> NoRow] /\ lastId = 0 /\ table = rows /\ grid = <<>> /\ form = NoForm
        /\ pics = {} /\ adif = <<>> /\ wanted = [i \in Ids |-> 0] /\ import = NoImport
        /\ binned = {} /\ dangling = {} /\ calls = <<>> /\ dialog = NoForm
    BY DEF Init, LogbookInit
  <1>2. DOMAIN grid = {} /\ DOMAIN adif = {} /\ DOMAIN calls = {} /\ MaxRows \in Nat
    BY <1>1, IdsAre
  <1>3. LogTypes
    BY <1>1, <1>2 DEF LogTypes, IsLog
  <1>4. OneRow /\ SameOf
    BY <1>1, <1>2 DEF OneRow, SameOf, Says
  <1>5. TaskFiles
    BY <1>1, <1>2 DEF TaskFiles
  <1>6. ExportInv
    BY <1>1, <1>2 DEF ExportInv
  <1>7. EditsStay /\ LinksLive /\ ImportsExactly
    BY <1>1 DEF EditsStay, LinksLive, ImportsExactly, NoImport, Live
  <1>8. QED
    BY <1>3, <1>4, <1>5, <1>6, <1>7 DEF LogInv

LEMMA LogStep == ASSUME WayInv, LogInv, [Next]_vars PROVE LogInv'
  <1>1. CASE Transmit
    BY <1>1, SlotsSame DEF Transmit, capHistory
  <1>2. CASE EndTransmit
    BY <1>2, SlotsSame DEF EndTransmit, logVars
  <1>3. CASE Receive
    BY <1>3, SlotsSame DEF Receive
  <1>4. CASE OnPrepared
    BY <1>4, SlotsSame DEF OnPrepared, logVars
  <1>5. CASE OnAborted
    BY <1>5, SlotsSame DEF OnAborted, logVars
  <1>6. CASE OnTxComplete
    BY <1>6, OnTxCompleteLog
  <1>7. CASE OnAudio
    BY <1>7, SlotsSame DEF OnAudio, logVars, capHistory
  <1>8. CASE OnImage
    BY <1>8, OnImageLog
  <1>9. CASE SaveImage
    BY <1>9, SaveImageLog
  <1>10. CASE DismissWarning
    BY <1>10, DismissWarningLog
  <1>11. CASE DraftQso
    BY <1>11, DraftQsoLog
  <1>12. CASE InsertQso
    BY <1>12, InsertQsoLog
  <1>13. CASE AcceptDialog
    BY <1>13, AcceptDialogLog
  <1>14. CASE DismissDialog
    BY <1>14, SlotsSame DEF DismissDialog, logVars
  <1>15. CASE LogFromStrip
    BY <1>15, LogFromStripLog
  <1>16. CASE TypeToCall
    BY <1>16, SlotsSame DEF TypeToCall, logVars, capHistory
  <1>17. CASE Close
    BY <1>17, SlotsSame DEF Close, logVars
  <1>18. CASE AtLogbook
    <2>1. /\ Idle /\ LogbookNext /\ UNCHANGED <<calls, dialog, stash, logged, unsaved>>
      BY <1>18 DEF AtLogbook, capVars, capHistory
    <2>2. QED
      BY <2>1, ShowLogbookLog, OpenNewLog, OpenEditLog, FormSavedLog, FormCancelledLog, DeleteRowLog,
         ExportAdifLog, ImportAdifLog, ShowGalleryLog, DeleteImageLog DEF LogbookNext
  <1>19. CASE UNCHANGED vars
    BY <1>19, SlotsSame DEF vars, logVars, capVars, capHistory
  <1>20. QED
    BY <1>1, <1>2, <1>3, <1>4, <1>5, <1>6, <1>7, <1>8, <1>9, <1>10, <1>11, <1>12, <1>13, <1>14, <1>15,
       <1>16, <1>17, <1>18, <1>19 DEF Next

LEMMA WholeAlways == Spec => [](WayInv /\ LogInv)
  <1>1. Init => WayInv /\ LogInv
    BY WayInit, LogInit
  <1>2. WayInv /\ LogInv /\ [Next]_vars => WayInv' /\ LogInv'
    BY WayStep, LogStep
  <1>3. QED
    BY <1>1, <1>2, PTL DEF Spec

\* What the operator saved in a form stays until the row is saved again, and
\* no row links a file that is gone, however the windows, the store, the
\* Gallery's deletions and the completions that arrive meanwhile follow one
\* another; but for the ways `dangling` names.
THEOREM RowsAreKept == Spec => []RowsStay
  <1>1. LogInv => RowsStay
    BY DEF LogInv, RowsStay
  <1>2. QED
    BY <1>1, WholeAlways, PTL

\* An import of any file adds each contact the log does not have once, or
\* nothing, and never again a row that is as it was exported.
THEOREM ImportsAreExact == Spec => []ImportsExactly
  <1>1. LogInv => ImportsExactly
    BY DEF LogInv
  <1>2. QED
    BY <1>1, WholeAlways, PTL

\* Each completion of the operator's own is in the log, in the dialog or on
\* its way, but for those dismissed, refused, met by closing or replaced in a
\* message box; and a row has only files of its own completion.
THEOREM CompletionsAreFiled == Spec => []CompletionsFiled
  <1>1. WayInv /\ LogInv => CompletionsFiled
    <2>1. ASSUME WayInv, LogInv PROVE OwnFiles
      <3>1. \A i \in Live(rows) : OwnRow(rows[i], Lost)
        BY <2>1, LiveIs DEF LogInv, LogTypes, IsLog
      <3>2. QED
        BY <3>1 DEF OwnFiles, OwnRow, Lost
    <2>2. QED
      BY <2>1 DEF WayInv, CompletionsFiled
  <1>2. QED
    BY <1>1, WholeAlways, PTL

-----------------------------------------------------------------------------
(* The settings and the templates *)

\* The kinds of files have different names.
LEMMA FileNames ==
    /\ Names = AllFiles
    /\ Templates \subseteq AllFiles
    /\ Config \in AllFiles /\ Corrupt \in AllFiles
    /\ StarterMark \in AllFiles /\ MigrationMark \in AllFiles
    /\ Config \notin Templates /\ Corrupt \notin Templates
    /\ StarterMark \notin Templates /\ MigrationMark \notin Templates
    /\ NoFile \notin Templates
    /\ Config # Corrupt /\ Config # StarterMark /\ Config # MigrationMark
    /\ Corrupt # StarterMark /\ Corrupt # MigrationMark /\ StarterMark # MigrationMark
    /\ \A f \in AllFiles : f \in Templates \/ f \in {Config, Corrupt, StarterMark, MigrationMark}
PROOF
<1>1. \A f \in Templates : f[2] \in Nat \ {0}
    BY FilesConstants DEF Templates
<1>2. Config[2] = 0 /\ Corrupt[2] = 0 /\ StarterMark[2] = 0 /\ MigrationMark[2] = 0 /\ NoFile[2] = 0
    BY DEF Config, Corrupt, StarterMark, MigrationMark, NoFile
<1>3. /\ Config # Corrupt /\ Config # StarterMark /\ Config # MigrationMark
      /\ Corrupt # StarterMark /\ Corrupt # MigrationMark /\ StarterMark # MigrationMark
    BY DEF Config, Corrupt, StarterMark, MigrationMark
<1>4. QED
    BY <1>1, <1>2, <1>3, FilesConstants DEF AllFiles, ConfigDir, TemplatesDir

\* Template files: those of the starters, of the overlays, of what is typed.
LEMMA TemplateNames ==
    /\ \A s \in StarterSet : <<s, 1>> \in Templates
    /\ \A i \in DOMAIN Starters : Starters[i] \in StarterSet /\ StarterFile(i) \in Templates
    /\ \A stem \in Typed : <<stem, 1>> \in Templates
    /\ \A f \in Templates : f = <<f[1], f[2]>> /\ f[2] \in Nat \ {0}
    /\ \A s \in LegacySet, n \in 1 .. MaxSuffix : <<s, n>> \in Templates
PROOF
<1>1. MaxSuffix \in Nat /\ 1 \in 1 .. MaxSuffix
    BY FilesConstants
<1>2. \A s \in StarterSet : <<s, 1>> \in Templates
    BY DEF Templates
<1>3. \A i \in DOMAIN Starters : Starters[i] \in StarterSet
    BY DEF StarterSet
<1>4. \A i \in DOMAIN Starters : StarterFile(i) \in Templates
    BY <1>2, <1>3 DEF StarterFile
<1>5. 1 \in DOMAIN Starters
    BY FilesConstants
<1>6. \A stem \in Typed : <<stem, 1>> \in Templates
    BY <1>1, <1>2, <1>3, <1>5 DEF Typed, Templates
<1>7. \A f \in Templates : f = <<f[1], f[2]>> /\ f[2] \in Nat \ {0}
    BY <1>1 DEF Templates
<1>8. \A s \in LegacySet, n \in 1 .. MaxSuffix : <<s, n>> \in Templates
    BY DEF Templates
<1>9. QED
    BY <1>2, <1>3, <1>4, <1>6, <1>7, <1>8
Docs == Nat \ {0}
OpenEditors == [open : {TRUE}, file : Templates \cup {NoFile}, doc : Docs, base : Int]
Writes ==
    [step : {"synced", "replaced"}, file : Templates \cup {Config}, content : Docs,
     temp : BOOLEAN, old : BOOLEAN]
Ops ==
    [kind : {"config", "overlay", "copy"}, agreed : SUBSET Int, doc : Docs]
    \cup [kind : {"editor"}, editor : 1 .. 2, agreed : SUBSET Int, doc : Docs]
    \cup [kind : {"rename", "remove"}, agreed : SUBSET Int, doc : Docs,
          from : Templates, to : Templates]

DiskTypes ==
    /\ files \in [AllFiles -> Int] /\ stable \in [AllFiles -> Int]
    /\ \A f \in {StarterMark, MigrationMark} : files[f] \in {0, 1} /\ stable[f] \in {0, 1}
WriteTypes == write = NoWrite \/ write \in Writes
OpTypes == op = NoOp \/ op \in Ops
MigTypes ==
    /\ mig \in [step : {"idle", "check", "overlays", "install"}, i : Nat,
                written : SUBSET Templates]
    /\ proc \in {"down", "loading", "migrating", "restoring", "up", "closing"}
EditorTypes == editors \in [1 .. 2 -> {Closed} \cup OpenEditors] /\ edits \in Nat
SettingTypes == base \in Int /\ now \in Int
HistoryTypes == gone \subseteq Templates \X BOOLEAN /\ kept \subseteq Int \ {0}
OriginTypes == <<start, overlays>> \in Starts
FileTypes ==
    /\ DiskTypes /\ WriteTypes /\ OpTypes /\ MigTypes /\ EditorTypes /\ SettingTypes
    /\ HistoryTypes /\ OriginTypes

Flow ==
    /\ op = NoOp \/ op.kind = "remove" <=> write = NoWrite
    /\ write # NoWrite => (op.kind = "config" <=> write.file = Config)
    /\ proc \in {"up", "closing", "down", "loading"} => mig = NoMigration
    /\ proc = "restoring" => mig.step = "install"
    /\ proc = "migrating" => mig.step # "idle"
    /\ mig.step \in {"idle", "check"} => mig.written = {}
    /\ mig.step \in {"overlays", "install"} => mig.i > 0
    /\ mig.step = "overlays" => \A f \in mig.written : f[2] < mig.i
    /\ mig.step \in {"check", "install"} => op = NoOp
    /\ mig.step = "overlays" => op = NoOp \/ op.kind = "overlay"
    /\ mig.step = "idle" => op.kind # "overlay"
    /\ proc \in {"down", "loading"} => op = NoOp
    /\ proc \in {"down", "loading", "closing"} => ~gainDue
    /\ gainDue => now > 0
    /\ op.kind = "editor" => editors[op.editor].open
Shape == FileTypes /\ Flow
EditorSave(e, f, agreed) == Ready /\ editors[e].open /\ SaveFromEditor(e, f, agreed)

\* Nothing in flight, no editor, no migration.
LEMMA Nones ==
    /\ NoOp.kind = "none" /\ NoWrite.step = "none" /\ Closed.open = FALSE
    /\ NoMigration.step = "idle" /\ NoMigration.i = 0 /\ NoMigration.written = {}
    /\ [NoMigration EXCEPT !.step = "check"] = [step |-> "check", i |-> 0, written |-> {}]
PROOF
<1>1. NoOp.kind = "none" /\ NoWrite.step = "none" /\ Closed.open = FALSE
    BY DEF NoOp, NoWrite, Closed
<1>2. NoMigration.step = "idle" /\ NoMigration.i = 0 /\ NoMigration.written = {}
    BY DEF NoMigration
<1>3. [NoMigration EXCEPT !.step = "check"] = [step |-> "check", i |-> 0, written |-> {}]
    BY DEF NoMigration
<1>4. QED
    BY <1>1, <1>2, <1>3

\* What every operation in flight has, and a rename that removes its old
\* file.
LEMMA OpFacts ==
    ASSUME NEW o \in Ops
    PROVE  /\ o.kind \in {"config", "overlay", "copy", "editor", "rename", "remove"}
           /\ o # NoOp /\ o.doc \in Docs /\ o.agreed \subseteq Int
           /\ o.kind = "editor" => o.editor \in 1 .. 2
           /\ o.kind = "rename" => o.from \in Templates /\ [o EXCEPT !.kind = "remove"] \in Ops
           /\ o.kind = "remove" => o.from \in Templates
PROOF
<1>1. o.kind \in {"config", "overlay", "copy", "editor", "rename", "remove"} /\ NoOp.kind = "none"
    BY DEF Ops, NoOp
<1>2. o.doc \in Docs /\ o.agreed \subseteq Int
    BY DEF Ops
<1>3. o.kind = "editor" => o.editor \in 1 .. 2
    BY DEF Ops
<1>4. o.kind \in {"rename", "remove"}
        => o \in [kind : {"rename", "remove"}, agreed : SUBSET Int, doc : Docs,
                  from : Templates, to : Templates]
    BY DEF Ops
<1>5. o.kind \in {"rename", "remove"} => o.from \in Templates
    BY <1>4
<1>6. o.kind = "rename" => [o EXCEPT !.kind = "remove"] \in Ops
    BY <1>4 DEF Ops
<1>7. QED
    BY <1>1, <1>2, <1>3, <1>5, <1>6

\* Documents are positive numbers.
LEMMA Documents ==
    /\ \A k \in Nat : Doc(k) \in Docs
    /\ \A i \in Nat : LegacyDoc(i) \in Docs
    /\ Doc(-1) \in Docs
PROOF BY FilesConstants DEF Doc, LegacyDoc, Docs

\* A first launch finds no markers and each template under its plain name.
LEMMA Start ==
    ASSUME NEW s, NEW o, <<s, o>> \in Starts
    PROVE  /\ s \in [AllFiles -> Nat] /\ (o = <<>> \/ o = Legacy)
           /\ \A f \in {StarterMark, MigrationMark, Corrupt} : s[f] = Absent
           /\ \A f \in Templates : s[f] # Absent => f[2] = 1
PROOF
<1> DEFINE Pack == [f \in AllFiles |-> IF f \in StarterSet \X {1} THEN Pristine ELSE Blank[f]]
           Overlays == [Blank EXCEPT ![Config] = Doc(0)]
           Own == [Blank EXCEPT ![Config] = Doc(0), ![<<Legacy[1], 1>>] = Doc(-1)]
<1>1. \/ s = Blank /\ o = <<>>
      \/ s = Pack /\ o = <<>>
      \/ s = Overlays /\ o = Legacy
      \/ s = Own /\ o = Legacy
    BY DEF Starts
<1>2. Doc(0) \in Nat /\ Doc(-1) \in Nat
    BY Documents DEF Docs
<1>3. Legacy[1] \in LegacySet
    BY FilesConstants DEF LegacySet
<1>4. <<Legacy[1], 1>> \in Templates
    BY <1>3, TemplateNames, FilesConstants, 1 \in 1 .. MaxSuffix
<1>5. Blank \in [AllFiles -> Nat] /\ \A f \in AllFiles : Blank[f] = Absent
    BY DEF Blank, Absent
<1>6. \A f \in StarterSet \X {1} : f \in Templates /\ f[2] = 1
    BY DEF Templates
<1>7. CASE s = Blank /\ o = <<>>
    BY <1>5, <1>7, FileNames
<1>8. CASE s = Pack /\ o = <<>>
    BY <1>5, <1>6, <1>8, FileNames DEF Pristine
<1>9. CASE s = Overlays /\ o = Legacy
    BY <1>2, <1>5, <1>9, FileNames
<1>10. CASE s = Own /\ o = Legacy
    BY <1>2, <1>4, <1>5, <1>10, FileNames
<1>11. QED
    BY <1>1, <1>7, <1>8, <1>9, <1>10

\* Among names with a number there is one with the least.
LEMMA LeastNumber ==
    ASSUME NEW S, S # {}, \A f \in S : f[2] \in Nat
    PROVE  \E f \in S : \A g \in S : f[2] <= g[2]
PROOF
<1> DEFINE T == {f[2] : f \in S}
<1>1. T \subseteq Nat /\ T # {}
    OBVIOUS
<1>2. \E n \in T : \A m \in T : n <= m
    BY <1>1, LeastOf
<1>3. QED
    BY <1>2

\* A free file is a template file.
LEMMA FreeFiles ==
    ASSUME NEW stem, HasFree(stem)
    PROVE  /\ FreeFile(stem) \in Templates
           /\ FreeFile(stem)[1] = stem
           /\ files[FreeFile(stem)] = Absent
PROOF
<1>1. Free(stem) # {} /\ \A f \in Free(stem) : f[2] \in Nat
    BY TemplateNames DEF HasFree, Free
<1>2. \E f \in Free(stem) : \A g \in Free(stem) : f[2] <= g[2]
    BY <1>1, LeastNumber
<1>3. FreeFile(stem) \in Free(stem)
    BY <1>2 DEF FreeFile
<1>4. QED
    BY <1>3 DEF Free, Exists

\* A write that starts.
LEMMA NewWrites ==
    /\ \A f, d : /\ Writing(f, d) # NoWrite /\ Writing(f, d).step = "synced"
                /\ Writing(f, d).file = f /\ Writing(f, d).content = d
    /\ \A f \in Templates \cup {Config}, d \in Docs : Writing(f, d) \in Writes
    /\ NoWrite \notin Writes
    /\ \A w \in Writes : w.step \in {"synced", "replaced"} /\ w.content \in Int
    /\ \A w \in Writes : w.file \in Templates \cup {Config}
    /\ NoWrite.step = "none"
PROOF
<1>1. NoWrite.step = "none"
    BY DEF NoWrite
<1>2. \A f \in Templates \cup {Config}, d \in Docs : Writing(f, d) \in Writes
    BY DEF Writing, Writes
<1>3. \A w \in Writes : w.step \in {"synced", "replaced"} /\ w.content \in Int
    BY DEF Writes, Docs
<1>4. \A w \in Writes : w.file \in Templates \cup {Config}
    BY DEF Writes
<1>5. \A f, d : /\ Writing(f, d).step = "synced"
                /\ Writing(f, d).file = f /\ Writing(f, d).content = d
    BY DEF Writing
<1>6. QED
    BY <1>1, <1>2, <1>3, <1>4, <1>5

\* A write that goes on.
LEMMA MarkedWrites ==
    ASSUME NEW w \in Writes
    PROVE  /\ [w EXCEPT !.step = "replaced"] \in Writes
           /\ [w EXCEPT !.step = "replaced"].file = w.file
           /\ [w EXCEPT !.step = "replaced"].content = w.content
           /\ [w EXCEPT !.step = "replaced"].step = "replaced"
           /\ [w EXCEPT !.temp = FALSE] \in Writes /\ [w EXCEPT !.temp = FALSE].step = w.step
           /\ [w EXCEPT !.temp = FALSE].file = w.file /\ [w EXCEPT !.temp = FALSE].content = w.content
           /\ [w EXCEPT !.old = TRUE] \in Writes /\ [w EXCEPT !.old = TRUE].step = w.step
           /\ [w EXCEPT !.old = TRUE].file = w.file /\ [w EXCEPT !.old = TRUE].content = w.content
PROOF
<1>1. [w EXCEPT !.step = "replaced"] \in Writes
    BY DEF Writes
<1>2. [w EXCEPT !.temp = FALSE] \in Writes
    BY DEF Writes
<1>3. [w EXCEPT !.old = TRUE] \in Writes
    BY DEF Writes
<1>4. /\ [w EXCEPT !.step = "replaced"].file = w.file
      /\ [w EXCEPT !.step = "replaced"].content = w.content
      /\ [w EXCEPT !.step = "replaced"].step = "replaced"
    BY DEF Writes
<1>5. /\ [w EXCEPT !.temp = FALSE].step = w.step
      /\ [w EXCEPT !.temp = FALSE].file = w.file /\ [w EXCEPT !.temp = FALSE].content = w.content
    BY DEF Writes
<1>6. /\ [w EXCEPT !.old = TRUE].step = w.step
      /\ [w EXCEPT !.old = TRUE].file = w.file /\ [w EXCEPT !.old = TRUE].content = w.content
    BY DEF Writes
<1>7. QED
    BY <1>1, <1>2, <1>3, <1>4, <1>5, <1>6

\* Operations that start.
LEMMA NewOps ==
    ASSUME NEW d \in Docs, NEW a \in SUBSET Int
    PROVE  /\ [kind |-> "config", agreed |-> a, doc |-> d] \in Ops
           /\ [kind |-> "overlay", agreed |-> a, doc |-> d] \in Ops
           /\ [kind |-> "copy", agreed |-> a, doc |-> d] \in Ops
           /\ \A e \in 1 .. 2 : [kind |-> "editor", editor |-> e, agreed |-> a, doc |-> d] \in Ops
           /\ \A f, g \in Templates :
                 [kind |-> "rename", agreed |-> a, doc |-> d, from |-> f, to |-> g] \in Ops
PROOF
<1>1. [kind |-> "config", agreed |-> a, doc |-> d] \in Ops
    BY DEF Ops
<1>2. [kind |-> "overlay", agreed |-> a, doc |-> d] \in Ops
    BY DEF Ops
<1>3. [kind |-> "copy", agreed |-> a, doc |-> d] \in Ops
    BY DEF Ops
<1>4. \A e \in 1 .. 2 : [kind |-> "editor", editor |-> e, agreed |-> a, doc |-> d] \in Ops
    BY DEF Ops
<1>5. \A f, g \in Templates :
        [kind |-> "rename", agreed |-> a, doc |-> d, from |-> f, to |-> g] \in Ops
    BY DEF Ops
<1>6. QED
    BY <1>1, <1>2, <1>3, <1>4, <1>5

\* An open editor.
LEMMA EditorFacts ==
    ASSUME EditorTypes, NEW e \in 1 .. 2
    PROVE  /\ editors[e].open \in BOOLEAN
           /\ editors[e].open =>
                /\ editors[e] \in OpenEditors
                /\ editors[e].file \in Templates \cup {NoFile}
                /\ editors[e].doc \in Docs /\ editors[e].base \in Int
PROOF
<1>1. editors[e] = Closed \/ editors[e] \in OpenEditors
    BY DEF EditorTypes
<1>2. CASE editors[e] = Closed
    <2>1. Closed.open = FALSE
        BY DEF Closed
    <2>2. QED
        BY <1>2, <2>1
<1>3. CASE editors[e] \in OpenEditors
    BY <1>3 DEF OpenEditors
<1>4. QED
    BY <1>1, <1>2, <1>3

\* What an editor's two ways to save have in common.
LEMMA EditorSaves ==
    ASSUME Shape, NEW e \in 1 .. 2, NEW stem \in Typed, NEW replace \in BOOLEAN,
           Save(e, "mine") \/ SaveAs(e, stem, replace)
    PROVE  \E f \in Templates, agreed \in SUBSET Int : EditorSave(e, f, agreed)
PROOF
<1>1. \A s : HasFree(s) => FreeFile(s) \in Templates
    BY FreeFiles
<1>2. <<stem, 1>> \in Templates /\ files[<<stem, 1>>] \in Int
    BY TemplateNames, FileNames DEF Shape, FileTypes, DiskTypes
<1>3. editors[e].open => editors[e].file \in Templates \cup {NoFile} /\ editors[e].base \in Int
    BY EditorFacts DEF Shape, FileTypes
<1>4. CASE Save(e, "mine")
    BY <1>1, <1>3, <1>4 DEF Save, EditorSave
<1>5. CASE SaveAs(e, stem, replace)
    BY <1>1, <1>2, <1>5 DEF SaveAs, EditorSave
<1>6. QED
    BY <1>4, <1>5

\* The file of the next overlay: the first suffix this run has not written.
LEMMA OverlayFiles ==
    ASSUME Shape, mig.step = "overlays", mig.i <= Len(overlays)
    PROVE  /\ mig.i \in DOMAIN overlays
           /\ OverlayFile(mig.i) \in Templates /\ OverlayFile(mig.i) \notin mig.written
           /\ OverlayFile(mig.i)[1] = overlays[mig.i] /\ OverlayFile(mig.i)[2] <= mig.i
PROOF
<1> DEFINE i == mig.i
           stem == overlays[i]
           First(n) == /\ <<stem, n>> \notin mig.written
                       /\ \A m \in 1 .. n - 1 : <<stem, m>> \in mig.written
           T == {n \in 1 .. i : <<stem, n>> \notin mig.written}
           n0 == CHOOSE n \in 1 .. MaxSuffix : First(n)
<1>1. i \in Nat \ {0} /\ \A f \in mig.written : f[2] < i
    BY DEF Shape, FileTypes, MigTypes, Flow
<1>2. overlays = <<>> \/ overlays = Legacy
    BY Start DEF Shape, FileTypes, OriginTypes
<1>3. overlays = Legacy /\ i \in 1 .. Len(Legacy)
    BY <1>1, <1>2
<1>4. stem \in LegacySet /\ i \in DOMAIN overlays /\ i \in 1 .. MaxSuffix
    BY <1>3, FilesConstants DEF LegacySet
<1> HIDE DEF stem
<1>5. <<stem, i>> \notin mig.written
    BY <1>1
<1>6. T \subseteq Nat /\ T # {}
    BY <1>1, <1>5
<1>7. PICK n \in T : \A m \in T : n <= m
    BY <1>6, LeastOf
<1>8. n \in 1 .. MaxSuffix /\ First(n)
    BY <1>1, <1>4, <1>7, FilesConstants
<1>9. n0 \in 1 .. MaxSuffix /\ First(n0)
    BY <1>8
<1>10. n0 <= i
    <2>1. n0 \in Nat /\ i \in Nat \ {0}
        BY <1>1, <1>9, FilesConstants
    <2>2. ASSUME i < n0 PROVE FALSE
        <3>1. i \in 1 .. n0 - 1
            BY <2>1, <2>2
        <3>2. QED
            BY <1>5, <1>9, <3>1
    <2>3. QED
        BY <2>1, <2>2
<1>11. OverlayFile(i) = <<stem, n0>>
    BY DEF OverlayFile, stem
<1>12. <<stem, n0>> \in Templates
    BY <1>4, <1>9, TemplateNames
<1> HIDE DEF n0, i
<1>13. QED
    BY <1>4, <1>9, <1>10, <1>11, <1>12 DEF stem, i

\* Deleting a template file records a template file.
LEMMA ForgottenTypes ==
    ASSUME HistoryTypes, NEW f \in Templates
    PROVE  Forgotten(f) \subseteq Templates \X BOOLEAN
PROOF
<1> DEFINE b == stable[StarterMark] = Pristine
<1>1. b \in BOOLEAN
    OBVIOUS
<1> HIDE DEF b
<1>2. <<f, b>> \in Templates \X BOOLEAN
    BY <1>1
<1>3. Forgotten(f) = gone \cup {<<f, b>>}
    BY Zenon DEF Forgotten, b
<1>4. QED
    BY <1>2, <1>3 DEF HistoryTypes

\* An editor after its save.
LEMMA SavedEditor ==
    ASSUME EditorTypes, Flow, write \in Writes, op \in Ops
    PROVE  /\ EditorSaved \in [1 .. 2 -> {Closed} \cup OpenEditors]
           /\ \A e \in 1 .. 2 : EditorSaved[e].open = editors[e].open
           /\ \A e \in 1 .. 2 : EditorSaved[e].doc = editors[e].doc
PROOF
<1>1. CASE op.kind = "editor"
    <2> DEFINE e == op.editor
               new == [editors[e] EXCEPT !.file = write.file, !.base = op.doc]
    <2>1. e \in 1 .. 2 /\ op.doc \in Docs
        BY <1>1, OpFacts
    <2>2. editors[e] \in OpenEditors
        BY <1>1, <2>1, EditorFacts DEF Flow
    <2> write.file \in Templates /\ op.doc \in Int
        BY <1>1, <2>1, NewWrites DEF Flow, Docs
    <2>3. new \in OpenEditors /\ new.open = editors[e].open /\ new.doc = editors[e].doc
        BY <1>1, <2>1, <2>2 DEF OpenEditors
    <2>4. EditorSaved = [editors EXCEPT ![e] = new]
        BY <1>1 DEF EditorSaved
    <2> HIDE DEF new, e
    <2>5. QED
        BY <2>1, <2>3, <2>4 DEF EditorTypes
<1>2. CASE op.kind # "editor"
    BY <1>2 DEF EditorSaved, EditorTypes
<1>3. QED
    BY <1>1, <1>2

\* The kinds of values the files, the write in flight and the program's own
\* state have, and how they go together.
THEOREM FilesShape == FilesSpec => []Shape
PROOF
<1>1. FilesInit => Shape
    <2> SUFFICES ASSUME FilesInit PROVE Shape
        OBVIOUS
    <2>1. OriginTypes
        <3>1. PICK s \in Starts : start = s[1] /\ overlays = s[2]
            BY DEF FilesInit
        <3>2. s = <<s[1], s[2]>>
            BY DEF Starts
        <3>3. QED
            BY <3>1, <3>2 DEF OriginTypes
    <2>2. /\ start \in [AllFiles -> Nat]
          /\ \A f \in {StarterMark, MigrationMark, Corrupt} : start[f] = Absent
        BY <2>1, Start DEF OriginTypes
    <2>3. DiskTypes /\ HistoryTypes
        BY <2>2 DEF FilesInit, DiskInit, DiskTypes, HistoryTypes, Absent
    <2>4. WriteTypes /\ OpTypes
        BY DEF FilesInit, DiskInit, WriteTypes, OpTypes
    <2>5. MigTypes
        BY DEF FilesInit, MigTypes, NoMigration
    <2>6. EditorTypes /\ SettingTypes
        BY DEF FilesInit, Spent, EditorTypes, SettingTypes
    <2>7. Flow
        BY Nones DEF FilesInit, DiskInit, Flow
    <2>8. QED
        BY <2>1, <2>3, <2>4, <2>5, <2>6, <2>7 DEF Shape, FileTypes
<1>2. Shape /\ [FilesNext]_filesVars => Shape'
    <2> SUFFICES ASSUME Shape, [FilesNext]_filesVars PROVE Shape'
        OBVIOUS
    <2>1. OriginTypes'
        BY DEF FilesNext, filesVars, origin, Shape, FileTypes, OriginTypes
    <2>2. OpTypes /\ WriteTypes
        BY DEF Shape, FileTypes
    <2>3. CASE Launch
        <3>1. MigTypes'
            BY <2>3 DEF Shape, FileTypes, MigTypes, Launch
        <3>2. /\ DiskTypes' /\ WriteTypes' /\ OpTypes'
              /\ EditorTypes' /\ SettingTypes' /\ HistoryTypes'
            BY <2>3 DEF Shape, FileTypes, DiskTypes, WriteTypes, OpTypes, EditorTypes,
               SettingTypes, HistoryTypes, Launch, diskVars, opVars, settings, history
        <3>3. Flow'
            BY <2>3, <2>2, Nones DEF Shape, FileTypes, MigTypes, Flow, Launch, diskVars,
               settings, opVars, history
        <3>4. QED
            BY <3>1, <3>2, <3>3, <2>1 DEF Shape, FileTypes
    <2>4. CASE LoadGood
        <3>1. MigTypes'
            BY <2>4 DEF Shape, FileTypes, MigTypes, LoadGood, Loaded, NoMigration
        <3>2. SettingTypes'
            BY <2>4, FileNames DEF Shape, FileTypes, SettingTypes, LoadGood, Loaded, DiskTypes,
               opVars, settings
        <3>3. DiskTypes' /\ WriteTypes' /\ OpTypes' /\ EditorTypes' /\ HistoryTypes'
            BY <2>4 DEF Shape, FileTypes, DiskTypes, WriteTypes, OpTypes, EditorTypes,
               HistoryTypes, LoadGood, Loaded, diskVars, opVars, history
        <3>4. Flow'
            BY <2>4, <2>2, Nones DEF Shape, FileTypes, MigTypes, Flow, LoadGood, Loaded,
               diskVars, settings, opVars, history
        <3>5. QED
            BY <3>1, <3>2, <3>3, <3>4, <2>1 DEF Shape, FileTypes
    <2>5. CASE LoadBroken
        <3>1. DiskTypes'
            BY <2>5, FileNames DEF Shape, FileTypes, DiskTypes, LoadBroken, Loaded, Absent, diskVars
        <3>2. MigTypes'
            BY <2>5 DEF Shape, FileTypes, MigTypes, LoadBroken, Loaded, NoMigration
        <3>3. SettingTypes'
            BY <2>5 DEF Shape, FileTypes, SettingTypes, LoadBroken, Loaded, opVars, settings
        <3>4. HistoryTypes'
            BY <2>5 DEF Shape, FileTypes, HistoryTypes, LoadBroken, Loaded, history
        <3>5. WriteTypes' /\ OpTypes' /\ EditorTypes'
            BY <2>5 DEF Shape, FileTypes, WriteTypes, OpTypes, EditorTypes, LoadBroken, Loaded,
               diskVars, opVars
        <3>6. Flow'
            BY <2>5, <2>2, Nones DEF Shape, FileTypes, MigTypes, Flow, LoadBroken, Loaded,
               diskVars, settings, opVars, history
        <3>7. QED
            BY <3>1, <3>2, <3>3, <3>4, <3>5, <3>6, <2>1 DEF Shape, FileTypes
    <2>6. CASE LoadFailed
        <3>1. MigTypes'
            BY <2>6 DEF Shape, FileTypes, MigTypes, LoadFailed, Loaded, Exists, NoMigration
        <3>2. SettingTypes'
            BY <2>6 DEF Shape, FileTypes, SettingTypes, LoadFailed, Loaded, Exists, opVars, settings
        <3>3. HistoryTypes'
            BY <2>6 DEF Shape, FileTypes, HistoryTypes, LoadFailed, Loaded, Exists, history
        <3>4. DiskTypes' /\ WriteTypes' /\ OpTypes' /\ EditorTypes'
            BY <2>6 DEF Shape, FileTypes, DiskTypes, WriteTypes, OpTypes, EditorTypes,
               LoadFailed, Loaded, Exists, diskVars, opVars
        <3>5. Flow'
            BY <2>6, <2>2, Nones DEF Shape, FileTypes, MigTypes, Flow, LoadFailed, Loaded,
               Exists, diskVars, settings, opVars, history
        <3>6. QED
            BY <3>1, <3>2, <3>3, <3>4, <3>5, <2>1 DEF Shape, FileTypes
    <2>7. CASE MigrationCheck
        <3>1. MigTypes'
            BY <2>7 DEF Shape, FileTypes, MigTypes, MigrationCheck, NoMigration
        <3>2. /\ DiskTypes' /\ WriteTypes' /\ OpTypes'
              /\ EditorTypes' /\ SettingTypes' /\ HistoryTypes'
            BY <2>7 DEF Shape, FileTypes, DiskTypes, WriteTypes, OpTypes, EditorTypes,
               SettingTypes, HistoryTypes, MigrationCheck, diskVars, opVars, settings, history
        <3>3. Flow'
            BY <2>7, <2>2, Nones DEF Shape, FileTypes, MigTypes, Flow, MigrationCheck, diskVars,
               settings, opVars, history
        <3>4. QED
            BY <3>1, <3>2, <3>3, <2>1 DEF Shape, FileTypes
    <2>8. CASE MigrateOverlay
        <3> DEFINE f == OverlayFile(mig.i)
        <3>1. mig.step = "overlays" /\ mig.i <= Len(overlays) /\ op = NoOp /\ mig.i \in Nat \ {0}
            BY <2>8 DEF MigrateOverlay, Shape, FileTypes, MigTypes, Flow
        <3>2. f \in Templates /\ f[2] <= mig.i /\ f[2] \in Nat
            BY <3>1, OverlayFiles, TemplateNames
        <3>3. UNCHANGED <<files, stable, now, base, gainDue, proc, editors, edits, kept, gone>>
            BY <2>8 DEF MigrateOverlay, opVars, settings
        <3>4. mig \in [step : {"idle", "check", "overlays", "install"}, i : Nat, written : SUBSET Templates]
            BY DEF Shape, FileTypes, MigTypes
        <3>5. CASE Exists(f)
            <4>1. mig' = [mig EXCEPT !.i = mig.i + 1] /\ UNCHANGED <<write, op>>
                BY <2>8, <3>5 DEF MigrateOverlay
            <4>2. MigTypes' /\ mig'.step = "overlays" /\ mig'.i = mig.i + 1 /\ mig'.written = mig.written
                BY <3>1, <3>3, <3>4, <4>1 DEF Shape, FileTypes, MigTypes
            <4>3. \A g \in mig.written : g[2] < mig.i /\ g[2] \in Nat
                BY <3>1, <3>4, TemplateNames DEF Shape, Flow
            <4> HIDE DEF f
            <4> mig # NoMigration
                BY <3>1, Nones
            <4> \A g \in mig.written : g[2] < mig.i + 1
                BY <3>1, <4>3
            <4>4. Flow'
                BY <3>1, <3>3, <4>1, <4>2, Nones DEF Shape, Flow
            <4>5. QED
                BY <3>3, <4>1, <4>2, <4>4, <2>1
                   DEF Shape, FileTypes, DiskTypes, WriteTypes, OpTypes, EditorTypes,
                       SettingTypes, HistoryTypes
        <3>6. CASE ~Exists(f)
            <4>1. /\ write' = Writing(f, LegacyDoc(mig.i))
                  /\ op' = [kind |-> "overlay", agreed |-> {}, doc |-> LegacyDoc(mig.i)]
                  /\ mig' = [mig EXCEPT !.i = mig.i + 1, !.written = mig.written \cup {f}]
                BY <2>8, <3>6 DEF MigrateOverlay, StartWrite
            <4>2. LegacyDoc(mig.i) \in Docs /\ {} \in SUBSET Int
                BY <3>1, Documents
            <4>3. WriteTypes' /\ OpTypes'
                BY <3>2, <4>1, <4>2, NewWrites, NewOps DEF WriteTypes, OpTypes
            <4> HIDE DEF f
            <4>4. /\ MigTypes' /\ mig'.step = "overlays" /\ mig'.i = mig.i + 1
                  /\ mig'.written = mig.written \cup {f}
                <5>1. mig.written \cup {f} \in SUBSET Templates /\ mig.i + 1 \in Nat
                    BY <3>1, <3>2, <3>4
                <5>2. mig' \in [step : {"idle", "check", "overlays", "install"}, i : Nat, written : SUBSET Templates]
                    BY <3>4, <4>1, <5>1
                <5>3. mig'.step = "overlays" /\ mig'.i = mig.i + 1 /\ mig'.written = mig.written \cup {f}
                    BY <3>1, <3>4, <4>1
                <5>4. QED
                    BY <3>3, <5>2, <5>3 DEF Shape, FileTypes, MigTypes
            <4>5. /\ write' # NoWrite /\ write'.file # Config /\ op' # NoOp /\ op'.kind = "overlay"
                BY <3>2, <4>1, NewWrites, Nones, FileNames
            <4>6. \A g \in mig.written \cup {f} : g[2] < mig.i + 1
                BY <3>1, <3>2, <3>4, TemplateNames DEF Shape, Flow
            <4> mig # NoMigration /\ mig'.i = mig.i + 1 /\ \A g \in mig'.written : g[2] < mig.i + 1
                BY <3>1, <4>4, <4>6, Nones
            <4>7. Flow'
                BY <3>1, <3>3, <4>4, <4>5, Nones DEF Shape, Flow
            <4>8. QED
                BY <3>3, <4>3, <4>4, <4>7, <2>1
                   DEF Shape, FileTypes, DiskTypes, EditorTypes, SettingTypes, HistoryTypes
        <3>7. QED
            BY <3>5, <3>6
    <2>9. CASE MarkMigrated
        <3>1. DiskTypes'
            BY <2>9, FileNames DEF Shape, FileTypes, DiskTypes, MarkMigrated, WriteInPlace,
               Pristine, diskVars
        <3>2. MigTypes'
            BY <2>9 DEF Shape, FileTypes, MigTypes, MarkMigrated, WriteInPlace
        <3>3. WriteTypes' /\ OpTypes' /\ EditorTypes' /\ SettingTypes' /\ HistoryTypes'
            BY <2>9 DEF Shape, FileTypes, WriteTypes, OpTypes, EditorTypes, SettingTypes,
               HistoryTypes, MarkMigrated, WriteInPlace, diskVars, opVars, settings, history
        <3>4. Flow'
            BY <2>9, <2>2, Nones DEF Shape, FileTypes, MigTypes, Flow, MarkMigrated,
               WriteInPlace, diskVars, settings, opVars, history
        <3>5. QED
            BY <3>1, <3>2, <3>3, <3>4, <2>1 DEF Shape, FileTypes
    <2>10. CASE InstallStarter
        <3>1. StarterFile(mig.i) \in Templates
            BY <2>10, TemplateNames, FilesConstants DEF Shape, FileTypes, MigTypes, Flow,
               InstallStarter
        <3>2. DiskTypes'
            BY <3>1, <2>10, FileNames DEF Shape, FileTypes, DiskTypes, InstallStarter,
               WriteInPlace, Pristine, diskVars
        <3>3. MigTypes'
            BY <2>10 DEF Shape, FileTypes, MigTypes, InstallStarter, WriteInPlace
        <3>4. WriteTypes' /\ OpTypes' /\ EditorTypes' /\ SettingTypes' /\ HistoryTypes'
            BY <2>10 DEF Shape, FileTypes, WriteTypes, OpTypes, EditorTypes, SettingTypes,
               HistoryTypes, InstallStarter, WriteInPlace, diskVars, opVars, settings, history
        <3>5. Flow'
            BY <2>10, <2>2, Nones DEF Shape, FileTypes, MigTypes, Flow, InstallStarter,
               WriteInPlace, diskVars, settings, opVars, history
        <3>6. QED
            BY <3>2, <3>3, <3>4, <3>5, <2>1 DEF Shape, FileTypes
    <2>11. CASE InstallFailed
        <3>1. MigTypes'
            BY <2>11 DEF Shape, FileTypes, MigTypes, InstallFailed, NoMigration
        <3>2. HistoryTypes'
            BY <2>11 DEF Shape, FileTypes, HistoryTypes, InstallFailed, history
        <3>3. DiskTypes' /\ WriteTypes' /\ OpTypes' /\ EditorTypes' /\ SettingTypes'
            BY <2>11 DEF Shape, FileTypes, DiskTypes, WriteTypes, OpTypes, EditorTypes,
               SettingTypes, InstallFailed, diskVars, opVars, settings
        <3>4. Flow'
            BY <2>11, <2>2, Nones DEF Shape, FileTypes, MigTypes, Flow, InstallFailed, diskVars,
               settings, opVars, history
        <3>5. QED
            BY <3>1, <3>2, <3>3, <3>4, <2>1 DEF Shape, FileTypes
    <2>12. CASE InstallDone
        <3>1. DiskTypes'
            BY <2>12, FileNames DEF Shape, FileTypes, DiskTypes, InstallDone, WriteInPlace,
               Pristine, diskVars
        <3>2. MigTypes'
            BY <2>12 DEF Shape, FileTypes, MigTypes, InstallDone, WriteInPlace, NoMigration
        <3>3. WriteTypes' /\ OpTypes' /\ EditorTypes' /\ SettingTypes' /\ HistoryTypes'
            BY <2>12 DEF Shape, FileTypes, WriteTypes, OpTypes, EditorTypes, SettingTypes,
               HistoryTypes, InstallDone, WriteInPlace, diskVars, opVars, settings, history
        <3>4. Flow'
            BY <2>12, <2>2, Nones DEF Shape, FileTypes, MigTypes, Flow, InstallDone,
               WriteInPlace, diskVars, settings, opVars, history
        <3>5. QED
            BY <3>1, <3>2, <3>3, <3>4, <2>1 DEF Shape, FileTypes
    <2>13. CASE ChangeSettings
        <3>1. NewDoc \in Docs /\ NewDoc \in Int
            BY Documents DEF NewDoc, Docs, Shape, FileTypes, EditorTypes
        <3>2. {base} \in SUBSET Int
            BY DEF Shape, FileTypes, SettingTypes
        <3>3. /\ write' = Writing(Config, NewDoc) /\ now' = NewDoc
              /\ op' = [kind |-> "config", agreed |-> {base}, doc |-> NewDoc]
            BY <2>13 DEF ChangeSettings, SaveSettings, StartWrite
        <3>4. WriteTypes'
            BY <3>1, <3>3, NewWrites DEF WriteTypes
        <3>5. OpTypes'
            BY <3>1, <3>2, <3>3, NewOps DEF OpTypes
        <3>6. EditorTypes'
            BY <2>13 DEF Shape, FileTypes, EditorTypes, ChangeSettings, SaveSettings,
               StartWrite, NewDoc, Ready, opVars
        <3>7. SettingTypes'
            BY <3>1, <3>3, <2>13 DEF Shape, FileTypes, SettingTypes, ChangeSettings, SaveSettings
        <3>8. DiskTypes' /\ MigTypes' /\ HistoryTypes'
            BY <2>13 DEF Shape, FileTypes, DiskTypes, MigTypes, HistoryTypes, ChangeSettings,
               SaveSettings, StartWrite, NewDoc, Ready, diskVars, history
        <3>9. Flow'
            BY <3>1, <3>2, <3>3, <3>4, <3>5, <2>13, <2>2, Nones, NewWrites, OpFacts DEF Shape,
               Flow, ChangeSettings, SaveSettings, Ready, Docs
        <3>10. QED
            BY <3>4, <3>5, <3>6, <3>7, <3>8, <3>9, <2>1 DEF Shape, FileTypes
    <2>14. CASE CommitGain
        <3>1. NewDoc \in Docs /\ NewDoc \in Int
            BY Documents DEF NewDoc, Docs, Shape, FileTypes, EditorTypes
        <3>2. EditorTypes'
            BY <2>14 DEF Shape, FileTypes, EditorTypes, CommitGain, NewDoc, Ready, opVars
        <3>3. SettingTypes'
            BY <3>1, <2>14 DEF Shape, FileTypes, SettingTypes, CommitGain, settings
        <3>4. DiskTypes' /\ WriteTypes' /\ OpTypes' /\ MigTypes' /\ HistoryTypes'
            BY <2>14 DEF Shape, FileTypes, DiskTypes, WriteTypes, OpTypes, MigTypes,
               HistoryTypes, CommitGain, NewDoc, Ready, diskVars, history
        <3>5. Flow'
            BY <3>1, <2>14, <2>2, Nones DEF Shape, Flow, Docs, CommitGain, Ready, diskVars
        <3>6. QED
            BY <3>2, <3>3, <3>4, <3>5, <2>1 DEF Shape, FileTypes
    <2>15. CASE GainTimer
        <3>1. now \in Docs
            BY <2>15 DEF Shape, FileTypes, SettingTypes, Flow, GainTimer, Docs
        <3>2. {base} \in SUBSET Int
            BY DEF Shape, FileTypes, SettingTypes
        <3>3. /\ write' = Writing(Config, now) /\ now' = now
              /\ op' = [kind |-> "config", agreed |-> {base}, doc |-> now]
            BY <2>15 DEF GainTimer, SaveSettings, StartWrite
        <3>4. WriteTypes'
            BY <3>1, <3>3, NewWrites DEF WriteTypes
        <3>5. OpTypes'
            BY <3>1, <3>2, <3>3, NewOps DEF OpTypes
        <3>6. SettingTypes'
            BY <2>15 DEF Shape, FileTypes, SettingTypes, GainTimer, SaveSettings, StartWrite,
               Ready, opVars, settings
        <3>7. DiskTypes' /\ MigTypes' /\ EditorTypes' /\ HistoryTypes'
            BY <2>15 DEF Shape, FileTypes, DiskTypes, MigTypes, EditorTypes, HistoryTypes,
               GainTimer, SaveSettings, StartWrite, Ready, diskVars, opVars, history
        <3>8. Flow'
            BY <3>1, <3>2, <3>3, <3>4, <3>5, <2>15, <2>2, Nones, NewWrites, OpFacts DEF Shape,
               Flow, GainTimer, SaveSettings, Ready
        <3>9. QED
            BY <3>4, <3>5, <3>6, <3>7, <3>8, <2>1 DEF Shape, FileTypes
    <2>16. CASE Restore
        <3>1. MigTypes'
            BY <2>16 DEF Shape, FileTypes, MigTypes, Restore, NotGone, Ready, NoMigration
        <3>2. EditorTypes'
            BY <2>16 DEF Shape, FileTypes, EditorTypes, Restore, NotGone, Ready, opVars
        <3>3. HistoryTypes'
            BY <2>16 DEF Shape, FileTypes, HistoryTypes, Restore, NotGone, Ready, history
        <3>4. DiskTypes' /\ WriteTypes' /\ OpTypes' /\ SettingTypes'
            BY <2>16 DEF Shape, FileTypes, DiskTypes, WriteTypes, OpTypes, SettingTypes,
               Restore, NotGone, Ready, diskVars, opVars, settings
        <3>5. Flow'
            BY <2>16, <2>2, Nones DEF Shape, FileTypes, MigTypes, Flow, Restore, NotGone, Ready,
               diskVars, settings, opVars, history
        <3>6. QED
            BY <3>1, <3>2, <3>3, <3>4, <3>5, <2>1 DEF Shape, FileTypes
    <2>17. ASSUME NEW f \in Templates, Duplicate(f)
          PROVE  Shape'
        <3>1. NewDoc \in Docs /\ NewDoc \in Int
            BY Documents DEF NewDoc, Docs, Shape, FileTypes, EditorTypes
        <3>2. FreeFile(f[1]) \in Templates
            BY <2>17, FreeFiles DEF Duplicate
        <3>3. /\ write' = Writing(FreeFile(f[1]), NewDoc)
              /\ op' = [kind |-> "copy", agreed |-> {}, doc |-> NewDoc]
            BY <2>17 DEF Duplicate, StartWrite
        <3>4. /\ write' # NoWrite /\ write'.file \in Templates /\ op' # NoOp /\ op'.kind = "copy"
              /\ proc = "up" /\ mig = NoMigration
            BY <3>1, <3>2, <3>3, <2>17, FileNames, NewWrites, Nones DEF Shape, Flow, Ready,
               Duplicate
        <3>5. WriteTypes'
            BY <3>1, <3>2, <3>3, NewWrites DEF WriteTypes
        <3>6. OpTypes'
            BY <3>1, <3>2, <3>3, NewOps DEF OpTypes
        <3>7. EditorTypes'
            BY <2>17 DEF Shape, FileTypes, EditorTypes, Duplicate, StartWrite, NewDoc, Ready, opVars
        <3>8. DiskTypes' /\ MigTypes' /\ SettingTypes' /\ HistoryTypes'
            BY <2>17 DEF Shape, FileTypes, DiskTypes, MigTypes, SettingTypes, HistoryTypes,
               Duplicate, StartWrite, NewDoc, Ready, diskVars, opVars, settings, history
        <3>9. Flow'
            BY <3>4, <2>17, Nones, FileNames DEF Shape, Flow, Duplicate, settings, opVars
        <3>10. QED
            BY <3>5, <3>6, <3>7, <3>8, <3>9, <2>1 DEF Shape, FileTypes
    <2>18. ASSUME NEW f \in Templates, NEW stem \in Typed, NEW replace \in BOOLEAN,
                  Rename(f, stem, replace)
          PROVE  Shape'
        <3>1. NewDoc \in Docs /\ NewDoc \in Int
            BY Documents DEF NewDoc, Docs, Shape, FileTypes, EditorTypes
        <3>2. RenameTarget(f, stem, replace) \in Templates
            BY <2>18, FreeFiles, TemplateNames DEF Rename, RenameTarget
        <3>3. {files[RenameTarget(f, stem, replace)]} \in SUBSET Int
            BY <3>2, FileNames DEF Shape, FileTypes, DiskTypes
        <3>4. /\ write' = Writing(RenameTarget(f, stem, replace), NewDoc)
              /\ op' = [kind |-> "rename", agreed |-> {files[RenameTarget(f, stem, replace)]}, doc |-> NewDoc,
                       from |-> f, to |-> RenameTarget(f, stem, replace)]
            BY <2>18 DEF Rename, RenameTarget, StartWrite
        <3>5. /\ write' # NoWrite /\ write'.file \in Templates /\ op' # NoOp /\ op'.kind = "rename"
              /\ proc = "up" /\ mig = NoMigration
            BY <3>1, <3>2, <3>3, <3>4, <2>18, FileNames, NewWrites, Nones DEF Shape, Flow,
               Ready, Rename
        <3>6. WriteTypes'
            BY <3>1, <3>2, <3>3, <3>4, NewWrites DEF WriteTypes
        <3>7. OpTypes'
            BY <3>1, <3>2, <3>3, <3>4, NewOps DEF OpTypes
        <3>8. EditorTypes'
            BY <2>18 DEF Shape, FileTypes, EditorTypes, Rename, RenameTarget, StartWrite,
               NewDoc, Ready, opVars
        <3>9. DiskTypes' /\ MigTypes' /\ SettingTypes' /\ HistoryTypes'
            BY <2>18 DEF Shape, FileTypes, DiskTypes, MigTypes, SettingTypes, HistoryTypes,
               Rename, RenameTarget, StartWrite, NewDoc, Ready, diskVars, opVars, settings,
               history
        <3>10. Flow'
            BY <3>5, <2>18, Nones, FileNames DEF Shape, Flow, Rename, settings, opVars
        <3>11. QED
            BY <3>6, <3>7, <3>8, <3>9, <3>10, <2>1 DEF Shape, FileTypes
    <2>19. ASSUME NEW f \in Templates, Delete(f)
          PROVE  Shape'
        <3>1. DiskTypes'
            BY <2>19, FileNames DEF Shape, FileTypes, DiskTypes, Delete, Unlink, Forgotten,
               Ready, Absent, diskVars
        <3>2. EditorTypes'
            BY <2>19 DEF Shape, FileTypes, EditorTypes, Delete, Unlink, Forgotten, Ready, opVars
        <3>3. HistoryTypes'
            BY <2>19, ForgottenTypes DEF Shape, FileTypes, HistoryTypes, Delete
        <3>4. WriteTypes' /\ OpTypes' /\ MigTypes' /\ SettingTypes'
            BY <2>19 DEF Shape, FileTypes, WriteTypes, OpTypes, MigTypes, SettingTypes, Delete,
               Unlink, Forgotten, Ready, diskVars, opVars, settings
        <3>5. Flow'
            BY <2>19, <2>2, Nones DEF Shape, FileTypes, MigTypes, Flow, Delete, Unlink,
               Forgotten, Ready, diskVars, settings, opVars, history
        <3>6. QED
            BY <3>1, <3>2, <3>3, <3>4, <3>5, <2>1 DEF Shape, FileTypes
    <2>20. ASSUME NEW e \in 1 .. 2, NEW f \in Templates \cup {NoFile}, OpenEditor(e, f)
          PROVE  Shape'
        <3>1. NewDoc \in Docs /\ NewDoc \in Int
            BY Documents DEF NewDoc, Docs, Shape, FileTypes, EditorTypes
        <3>2. IF f = NoFile THEN Absent \in Int ELSE files[f] \in Int
            BY FileNames DEF Absent, Shape, FileTypes, DiskTypes
        <3>3. [open |-> TRUE, file |-> f, doc |-> NewDoc, base |-> IF f = NoFile THEN Absent ELSE files[f]]
               \in OpenEditors
            BY <3>1, <3>2, <2>20 DEF OpenEditors
        <3>4. EditorTypes'
            BY <3>3, <2>20 DEF Shape, FileTypes, EditorTypes, OpenEditor
        <3>5. DiskTypes' /\ WriteTypes' /\ OpTypes' /\ MigTypes' /\ SettingTypes' /\ HistoryTypes'
            BY <2>20 DEF Shape, FileTypes, DiskTypes, WriteTypes, OpTypes, MigTypes,
               SettingTypes, HistoryTypes, OpenEditor, NewDoc, Ready, diskVars, opVars,
               settings, history
        <3>6. Flow'
            BY <3>4, <3>5, <2>20, Nones, <2>2 DEF Shape, Flow, OpenEditor, Ready, settings, diskVars
        <3>7. QED
            BY <3>4, <3>5, <3>6, <2>1 DEF Shape, FileTypes
    <2>21. ASSUME NEW e \in 1 .. 2, Edit(e)
          PROVE  Shape'
        <3>1. NewDoc \in Docs /\ NewDoc \in Int
            BY Documents DEF NewDoc, Docs, Shape, FileTypes, EditorTypes
        <3>2. [editors[e] EXCEPT !.doc = NewDoc] \in OpenEditors
            BY <2>21, <3>1, EditorFacts DEF Shape, FileTypes, Edit, OpenEditors
        <3>3. EditorTypes'
            BY <3>2, <2>21 DEF Shape, FileTypes, EditorTypes, Edit
        <3>4. DiskTypes' /\ WriteTypes' /\ OpTypes' /\ MigTypes' /\ SettingTypes' /\ HistoryTypes'
            BY <2>21 DEF Shape, FileTypes, DiskTypes, WriteTypes, OpTypes, MigTypes,
               SettingTypes, HistoryTypes, Edit, NewDoc, Ready, diskVars, opVars, settings,
               history
        <3>5. Flow'
            BY <3>3, <3>4, <2>21, Nones, <2>2 DEF Shape, Flow, Edit, Ready, settings, diskVars
        <3>6. QED
            BY <3>3, <3>4, <3>5, <2>1 DEF Shape, FileTypes
    <2>22. ASSUME NEW e \in 1 .. 2, NEW f \in Templates, NEW agreed \in SUBSET Int,
                  EditorSave(e, f, agreed)
          PROVE  Shape'
        <3>1. editors[e].open /\ editors[e].doc \in Docs
            BY <2>22, EditorFacts DEF Shape, FileTypes, EditorSave
        <3>2. /\ write' = Writing(f, editors[e].doc)
              /\ op' = [kind |-> "editor", editor |-> e, agreed |-> agreed, doc |-> editors[e].doc]
            BY <2>22 DEF EditorSave, SaveFromEditor, StartWrite
        <3>3. /\ write' # NoWrite /\ write'.file \in Templates /\ op' # NoOp /\ op'.kind = "editor" /\ op'.editor = e
              /\ proc = "up" /\ mig = NoMigration
            BY <3>1, <3>2, <2>22, FileNames, NewWrites, Nones DEF Shape, Flow, Ready,
               EditorSave, SaveFromEditor
        <3>4. WriteTypes'
            BY <3>1, <3>2, NewWrites DEF WriteTypes
        <3>5. OpTypes'
            BY <3>1, <3>2, NewOps DEF OpTypes
        <3>6. DiskTypes' /\ MigTypes' /\ EditorTypes' /\ SettingTypes' /\ HistoryTypes'
            BY <2>22 DEF Shape, FileTypes, DiskTypes, MigTypes, EditorTypes, SettingTypes,
               HistoryTypes, EditorSave, SaveFromEditor, StartWrite, Ready, diskVars, opVars,
               settings, history
        <3>7. Flow'
            BY <3>3, <2>22, Nones, FileNames, <3>1 DEF Shape, Flow, EditorSave, SaveFromEditor,
               settings, opVars
        <3>8. QED
            BY <3>4, <3>5, <3>6, <3>7, <2>1 DEF Shape, FileTypes
    <2>23. ASSUME NEW e \in 1 .. 2, CloseEditor(e)
          PROVE  Shape'
        <3>1. EditorTypes'
            BY <2>23 DEF Shape, FileTypes, EditorTypes, CloseEditor, Ready, opVars
        <3>2. DiskTypes' /\ WriteTypes' /\ OpTypes' /\ MigTypes' /\ SettingTypes' /\ HistoryTypes'
            BY <2>23 DEF Shape, FileTypes, DiskTypes, WriteTypes, OpTypes, MigTypes,
               SettingTypes, HistoryTypes, CloseEditor, Ready, diskVars, opVars, settings,
               history
        <3>3. Flow'
            BY <2>23, <2>2, Nones DEF Shape, FileTypes, MigTypes, Flow, CloseEditor, Ready,
               diskVars, settings, opVars, history
        <3>4. QED
            BY <3>1, <3>2, <3>3, <2>1 DEF Shape, FileTypes
    <2>24. CASE Commit
        <3>1. write \in Writes /\ write.file \in Templates \cup {Config} /\ write.content \in Int
            BY <2>24, <2>2, NewWrites, Nones DEF WriteTypes, Commit, Replace, CanReplace
        <3>2. DiskTypes'
            BY <3>1, <2>24, FileNames DEF Shape, FileTypes, DiskTypes, Commit, Replace
        <3>3. WriteTypes'
            BY <3>1, <2>24, MarkedWrites DEF WriteTypes, Commit, Replace
        <3>4. HistoryTypes'
            BY <2>24 DEF Shape, FileTypes, HistoryTypes, Commit, Replace, CanReplace, NotGone,
               history
        <3>5. OpTypes' /\ MigTypes' /\ EditorTypes' /\ SettingTypes'
            BY <2>24 DEF Shape, FileTypes, OpTypes, MigTypes, EditorTypes, SettingTypes, Commit,
               Replace, CanReplace, NotGone, opVars, settings
        <3>6. Flow'
            BY <3>1, <3>3, <2>24, MarkedWrites, NewWrites DEF Shape, Flow, Commit, Replace,
               settings, opVars
        <3>7. QED
            BY <3>2, <3>3, <3>4, <3>5, <3>6, <2>1 DEF Shape, FileTypes
    <2>25. ASSUME NEW works \in BOOLEAN, Durable(works)
          PROVE  Shape'
        <3>1. write # NoWrite /\ write \in Writes /\ write.file \in Templates \cup {Config}
            BY <2>25, <2>2, NewWrites, Nones DEF WriteTypes, Durable, SyncDirectory
        <3>2. op \in Ops /\ op.kind # "none" /\ op.doc \in Docs /\ op.kind # "remove"
            BY <3>1, <2>2, OpFacts DEF Shape, Flow, OpTypes
        <3>3. DiskTypes'
            BY <2>25, FileNames DEF Shape, FileTypes, DiskTypes, Durable, SyncDirectory
        <3>4. WriteTypes'
            BY <2>25 DEF Shape, FileTypes, WriteTypes, Durable, SyncDirectory, EditorSaved, diskVars
        <3>5. OpTypes'
            BY <3>2, <2>25, OpFacts DEF OpTypes, Durable
        <3>6. EditorTypes'
            BY <3>1, <3>2, <2>25, SavedEditor DEF Durable, Shape, FileTypes, EditorTypes
        <3>7. SettingTypes'
            BY <3>2, <2>25 DEF Shape, FileTypes, SettingTypes, Durable, Docs
        <3>8. HistoryTypes'
            BY <3>2, <2>25 DEF Shape, FileTypes, HistoryTypes, Durable, Docs
        <3>9. MigTypes'
            BY <2>25 DEF Shape, FileTypes, MigTypes, Durable, SyncDirectory, EditorSaved
        <3>10. Flow'
            BY <3>1, <3>2, <2>25, OpFacts, Nones DEF Shape, Flow, Durable, SyncDirectory
        <3>11. QED
            BY <3>3, <3>4, <3>5, <3>6, <3>7, <3>8, <3>9, <3>10, <2>1 DEF Shape, FileTypes
    <2>26. CASE RemoveOld
        <3>1. op \in Ops /\ op.from \in Templates
            BY <2>26, <2>2, Nones, OpFacts DEF OpTypes, RemoveOld
        <3>2. DiskTypes'
            BY <3>1, <2>26, FileNames DEF Shape, FileTypes, DiskTypes, RemoveOld, Unlink, Absent
        <3>3. OpTypes'
            BY <2>26 DEF Shape, FileTypes, OpTypes, RemoveOld, Unlink, Forgotten
        <3>4. HistoryTypes'
            BY <3>1, <2>26, ForgottenTypes DEF Shape, FileTypes, HistoryTypes, RemoveOld
        <3>5. WriteTypes' /\ MigTypes' /\ EditorTypes' /\ SettingTypes'
            BY <2>26 DEF Shape, FileTypes, WriteTypes, MigTypes, EditorTypes, SettingTypes,
               RemoveOld, Unlink, Forgotten, diskVars, opVars, settings
        <3>6. Flow'
            BY <2>26, <2>2, Nones DEF Shape, FileTypes, MigTypes, Flow, RemoveOld, Unlink,
               Forgotten, diskVars, settings, opVars, history
        <3>7. QED
            BY <3>2, <3>3, <3>4, <3>5, <3>6, <2>1 DEF Shape, FileTypes
    <2>27. CASE SaveFailed
        <3>1. WriteTypes'
            BY <2>27 DEF Shape, FileTypes, WriteTypes, SaveFailed, WriteFailed, diskVars
        <3>2. OpTypes'
            BY <2>27 DEF Shape, FileTypes, OpTypes, SaveFailed, WriteFailed
        <3>3. SettingTypes'
            BY <2>27 DEF Shape, FileTypes, SettingTypes, SaveFailed, WriteFailed, opVars, settings
        <3>4. DiskTypes' /\ MigTypes' /\ EditorTypes' /\ HistoryTypes'
            BY <2>27 DEF Shape, FileTypes, DiskTypes, MigTypes, EditorTypes, HistoryTypes,
               SaveFailed, WriteFailed, diskVars, opVars, history
        <3>5. Flow'
            BY <2>27, <2>2, Nones DEF Shape, FileTypes, MigTypes, Flow, SaveFailed, WriteFailed,
               diskVars, settings, opVars, history
        <3>6. QED
            BY <3>1, <3>2, <3>3, <3>4, <3>5, <2>1 DEF Shape, FileTypes
    <2>28. CASE RemoteList
        <3>1. /\ WriteTypes' /\ (write' = NoWrite <=> write = NoWrite)
              /\ write # NoWrite => write'.file = write.file
            <4>1. CASE write' = write
                BY <2>2, <4>1 DEF WriteTypes
            <4>2. CASE write \in Writes /\ write' = [write EXCEPT !.temp = FALSE]
                <5>1. write' \in Writes /\ write'.file = write.file
                    BY <4>2, MarkedWrites
                <5>2. write # NoWrite /\ write' # NoWrite
                    BY <4>2, <5>1, NewWrites
                <5>3. QED
                    BY <5>1, <5>2 DEF WriteTypes
            <4>3. QED
                BY <2>28, <2>2, <4>1, <4>2, Nones DEF WriteTypes, RemoteList, LoseTemp
        <3>2. WriteTypes'
            BY <3>1
        <3>3. DiskTypes' /\ OpTypes' /\ MigTypes' /\ EditorTypes' /\ SettingTypes' /\ HistoryTypes'
            BY <2>28 DEF Shape, FileTypes, DiskTypes, OpTypes, MigTypes, EditorTypes,
               SettingTypes, HistoryTypes, RemoteList, LoseTemp, diskVars, opVars, settings,
               history
        <3>4. Flow'
            BY <3>1, <2>28 DEF Shape, Flow, RemoteList, settings, opVars
        <3>5. QED
            BY <3>2, <3>3, <3>4, <2>1 DEF Shape, FileTypes
    <2>29. CASE Minute
        <3>1. /\ WriteTypes' /\ (write' = NoWrite <=> write = NoWrite)
              /\ write # NoWrite => write'.file = write.file
            <4>1. CASE write' = write
                BY <2>2, <4>1 DEF WriteTypes
            <4>2. CASE write \in Writes /\ write' = [write EXCEPT !.old = TRUE]
                <5>1. write' \in Writes /\ write'.file = write.file
                    BY <4>2, MarkedWrites
                <5>2. write # NoWrite /\ write' # NoWrite
                    BY <4>2, <5>1, NewWrites
                <5>3. QED
                    BY <5>1, <5>2 DEF WriteTypes
            <4>3. QED
                BY <2>29, <2>2, <4>1, <4>2, Nones DEF WriteTypes, Minute, MinutePasses
        <3>2. WriteTypes'
            BY <3>1
        <3>3. DiskTypes' /\ OpTypes' /\ MigTypes' /\ EditorTypes' /\ SettingTypes' /\ HistoryTypes'
            BY <2>29 DEF Shape, FileTypes, DiskTypes, OpTypes, MigTypes, EditorTypes,
               SettingTypes, HistoryTypes, Minute, MinutePasses, diskVars, opVars, settings,
               history
        <3>4. Flow'
            BY <3>1, <2>29 DEF Shape, Flow, Minute, MinutePasses, settings, opVars
        <3>5. QED
            BY <3>2, <3>3, <3>4, <2>1 DEF Shape, FileTypes
    <2>30. CASE CacheWrittenBack
        <3>1. DiskTypes'
            BY <2>30 DEF Shape, FileTypes, DiskTypes, CacheWrittenBack, WriteBack, diskVars
        <3>2. WriteTypes' /\ OpTypes' /\ MigTypes' /\ EditorTypes' /\ SettingTypes' /\ HistoryTypes'
            BY <2>30 DEF Shape, FileTypes, WriteTypes, OpTypes, MigTypes, EditorTypes,
               SettingTypes, HistoryTypes, CacheWrittenBack, WriteBack, diskVars, opVars,
               settings, history
        <3>3. Flow'
            BY <2>30, <2>2, Nones DEF Shape, FileTypes, MigTypes, Flow, CacheWrittenBack,
               WriteBack, diskVars, settings, opVars, history
        <3>4. QED
            BY <3>1, <3>2, <3>3, <2>1 DEF Shape, FileTypes
    <2>31. CASE HandEdit
        <3>1. Broken(edits + 1) \in Int \ {0}
            BY DEF Shape, FileTypes, EditorTypes, Broken
        <3>2. DiskTypes'
            BY <2>31, FileNames DEF Shape, FileTypes, DiskTypes, HandEdit, Broken, EditorTypes,
               diskVars
        <3>3. EditorTypes'
            BY <2>31 DEF Shape, FileTypes, EditorTypes, HandEdit, Broken, opVars
        <3>4. HistoryTypes'
            BY <3>1, <2>31 DEF Shape, FileTypes, HistoryTypes, HandEdit
        <3>5. WriteTypes' /\ OpTypes' /\ MigTypes' /\ SettingTypes'
            BY <2>31 DEF Shape, FileTypes, WriteTypes, OpTypes, MigTypes, SettingTypes,
               HandEdit, Broken, diskVars, opVars, settings
        <3>6. Flow'
            BY <2>31, <2>2, Nones DEF Shape, FileTypes, MigTypes, Flow, HandEdit, Broken,
               diskVars, settings, opVars, history
        <3>7. QED
            BY <3>2, <3>3, <3>4, <3>5, <3>6, <2>1 DEF Shape, FileTypes
    <2>32. CASE Quit
        <3>1. proc = "up" /\ op = NoOp /\ mig = NoMigration /\ write = NoWrite
            BY <2>32 DEF Quit, Ready, Shape, Flow
        <3>2. UNCHANGED <<files, stable, now, editors, edits, kept, gone, mig, base>> /\ proc' = "closing" /\ ~gainDue'
            BY <2>32 DEF Quit, SaveSettings, diskVars, history
        <3>3. CASE gainDue
            <4>1. now \in Docs /\ {base} \in SUBSET Int
                BY <3>3 DEF Shape, FileTypes, SettingTypes, Flow, Docs
            <4>2. write' = Writing(Config, now) /\ op' = [kind |-> "config", agreed |-> {base}, doc |-> now]
                BY <2>32, <3>3 DEF Quit, SaveSettings, StartWrite
            <4>3. WriteTypes' /\ OpTypes'
                BY <4>1, <4>2, NewWrites, NewOps DEF WriteTypes, OpTypes
            <4>4. write' # NoWrite /\ write'.file = Config /\ op' # NoOp /\ op'.kind = "config"
                BY <4>2, NewWrites, Nones
            <4>5. Flow'
                BY <3>1, <3>2, <4>4, Nones DEF Shape, Flow
            <4>6. QED
                BY <3>2, <4>3, <4>5, <2>1
                   DEF Shape, FileTypes, DiskTypes, MigTypes, EditorTypes, SettingTypes, HistoryTypes
        <3>4. CASE ~gainDue
            <4>1. UNCHANGED <<write, op>>
                BY <2>32, <3>4 DEF Quit, diskVars
            <4>2. Flow'
                BY <3>1, <3>2, <4>1, Nones DEF Shape, Flow
            <4>3. QED
                BY <3>2, <4>1, <4>2, <2>1
                   DEF Shape, FileTypes, DiskTypes, WriteTypes, OpTypes, MigTypes, EditorTypes,
                       SettingTypes, HistoryTypes
        <3>5. QED
            BY <3>3, <3>4
    <2>33. CASE Exit
        <3>1. DiskTypes'
            BY <2>33 DEF Shape, FileTypes, DiskTypes, Exit, Stopped, diskVars
        <3>2. OpTypes'
            BY <2>33 DEF Shape, FileTypes, OpTypes, Exit, Stopped
        <3>3. MigTypes'
            BY <2>33 DEF Shape, FileTypes, MigTypes, Exit, Stopped, NoMigration
        <3>4. EditorTypes'
            BY <2>33 DEF Shape, FileTypes, EditorTypes, Exit, Stopped, opVars
        <3>5. SettingTypes'
            BY <2>33 DEF Shape, FileTypes, SettingTypes, Exit, Stopped, opVars, settings
        <3>6. HistoryTypes'
            BY <2>33 DEF Shape, FileTypes, HistoryTypes, Exit, Stopped, history
        <3>7. WriteTypes'
            BY <2>33 DEF Shape, FileTypes, WriteTypes, Exit, Stopped, diskVars
        <3>8. Flow'
            BY <2>33, <2>2, Nones DEF Shape, FileTypes, MigTypes, Flow, Exit, Stopped, diskVars,
               settings, opVars, history
        <3>9. QED
            BY <3>1, <3>2, <3>3, <3>4, <3>5, <3>6, <3>7, <3>8, <2>1 DEF Shape, FileTypes
    <2>34. CASE Kill
        <3>1. DiskTypes'
            BY <2>34 DEF Shape, FileTypes, DiskTypes, Kill, Stopped, DiskKill, diskVars
        <3>2. WriteTypes'
            BY <2>34 DEF Shape, FileTypes, WriteTypes, Kill, Stopped, DiskKill, diskVars
        <3>3. OpTypes'
            BY <2>34 DEF Shape, FileTypes, OpTypes, Kill, Stopped, DiskKill
        <3>4. MigTypes'
            BY <2>34 DEF Shape, FileTypes, MigTypes, Kill, Stopped, DiskKill, NoMigration
        <3>5. EditorTypes'
            BY <2>34 DEF Shape, FileTypes, EditorTypes, Kill, Stopped, DiskKill, opVars
        <3>6. SettingTypes'
            BY <2>34 DEF Shape, FileTypes, SettingTypes, Kill, Stopped, DiskKill, opVars, settings
        <3>7. HistoryTypes'
            BY <2>34 DEF Shape, FileTypes, HistoryTypes, Kill, Stopped, DiskKill, history
        <3>8. Flow'
            BY <2>34, <2>2, Nones DEF Shape, FileTypes, MigTypes, Flow, Kill, Stopped, DiskKill,
               diskVars, settings, opVars, history
        <3>9. QED
            BY <3>1, <3>2, <3>3, <3>4, <3>5, <3>6, <3>7, <3>8, <2>1 DEF Shape, FileTypes
    <2>35. CASE PowerLoss
        <3>1. DiskTypes'
            BY <2>35, FileNames DEF Shape, FileTypes, DiskTypes, PowerLoss, Stopped,
               DiskPowerLoss, diskVars
        <3>2. WriteTypes'
            BY <2>35 DEF Shape, FileTypes, WriteTypes, PowerLoss, Stopped, DiskPowerLoss, diskVars
        <3>3. OpTypes'
            BY <2>35 DEF Shape, FileTypes, OpTypes, PowerLoss, Stopped, DiskPowerLoss
        <3>4. MigTypes'
            BY <2>35 DEF Shape, FileTypes, MigTypes, PowerLoss, Stopped, DiskPowerLoss, NoMigration
        <3>5. EditorTypes'
            BY <2>35 DEF Shape, FileTypes, EditorTypes, PowerLoss, Stopped, DiskPowerLoss, opVars
        <3>6. SettingTypes'
            BY <2>35 DEF Shape, FileTypes, SettingTypes, PowerLoss, Stopped, DiskPowerLoss,
               opVars, settings
        <3>7. HistoryTypes'
            BY <2>35 DEF Shape, FileTypes, HistoryTypes, PowerLoss, Stopped, DiskPowerLoss, history
        <3>8. Flow'
            BY <2>35, <2>2, Nones DEF Shape, FileTypes, MigTypes, Flow, PowerLoss, Stopped,
               DiskPowerLoss, diskVars, settings, opVars, history
        <3>9. QED
            BY <3>1, <3>2, <3>3, <3>4, <3>5, <3>6, <3>7, <3>8, <2>1 DEF Shape, FileTypes
    <2>36. CASE UNCHANGED filesVars
        BY <2>36, <2>1 DEF Shape, FileTypes, DiskTypes, WriteTypes, OpTypes, MigTypes,
           EditorTypes, SettingTypes, HistoryTypes, Flow, filesVars, diskVars, settings, opVars,
           history
    <2>37. QED
        <3>1. CASE Startup
            BY <3>1, <2>3, <2>4, <2>5, <2>6 DEF Startup
        <3>2. CASE Installation
            BY <3>2, <2>7, <2>8, <2>9, <2>10, <2>11, <2>12 DEF Installation
        <3>3. CASE GalleryStep
            BY <3>3, <2>17, <2>18 DEF GalleryStep, Chosen
        <3>4. ASSUME NEW e \in 1 .. 2, EditorStep(e) PROVE Shape'
            <4>1. ASSUME NEW stem \in Typed, NEW replace \in BOOLEAN,
                         Save(e, "mine") \/ SaveAs(e, stem, replace)
                  PROVE  Shape'
                BY <4>1, <2>22, EditorSaves
            <4>2. "mine" \in Typed /\ TRUE \in BOOLEAN
                BY DEF Typed
            <4>3. QED
                BY <3>4, <4>1, <4>2, <2>20, <2>21, <2>23 DEF EditorStep, Chosen
        <3>5. CASE WriteStep
            BY <3>5, <2>24, <2>25, <2>26, <2>27 DEF WriteStep
        <3>6. CASE World
            BY <3>6, <2>28, <2>29, <2>30, <2>31, <2>32, <2>33, <2>34, <2>35 DEF World
        <3>7. QED
            BY <3>1, <3>2, <3>3, <3>4, <3>5, <3>6, <2>13, <2>14, <2>15, <2>16, <2>19, <2>36
               DEF FilesNext
<1>3. QED
    BY <1>1, <1>2, PTL DEF FilesSpec

\* The write in flight: what it replaces, and that what it replaced is there.
InFlight ==
    write # NoWrite =>
        /\ write.content = op.doc
        /\ write.step = "replaced" => files[write.file] = op.doc
        /\ write.step = "synced" /\ op.kind = "config" => op.agreed = {base}
        /\ write.step = "synced" /\ op.kind \notin {"config", "editor"} =>
              files[write.file] \in op.agreed \cup {Absent}

\* What a save replaces was given up, and what it wrote is there until it
\* returns.
THEOREM FilesInFlight == FilesSpec => []InFlight
PROOF
<1>1. FilesInit => InFlight
    BY DEF FilesInit, DiskInit, InFlight
<1>2. Shape /\ Shape' /\ InFlight /\ [FilesNext]_filesVars => InFlight'
    <2> SUFFICES ASSUME Shape, Shape', InFlight, [FilesNext]_filesVars PROVE InFlight'
        OBVIOUS
    <2>1. write' = NoWrite => InFlight'
        BY DEF InFlight
    <2>2. op' = NoOp => InFlight'
        BY <2>1 DEF Shape, Flow
    <2>3. WriteTypes /\ OpTypes
        BY DEF Shape, FileTypes
    <2>4. CASE Launch
        BY <2>4, <2>2 DEF Shape, Flow, Launch, settings
    <2>5. CASE LoadGood
        BY <2>5, <2>2 DEF Shape, Flow, LoadGood, Loaded, settings
    <2>6. CASE LoadBroken
        BY <2>6, <2>2 DEF Shape, Flow, LoadBroken, Loaded, settings
    <2>7. CASE LoadFailed
        BY <2>7, <2>2 DEF Shape, Flow, LoadFailed, Loaded, Exists, settings
    <2>8. CASE MigrationCheck
        BY <2>8, <2>2 DEF Shape, Flow, MigrationCheck, settings
    <2>9. CASE MigrateOverlay
        <3>1. CASE Exists(OverlayFile(mig.i))
            BY <2>9, <3>1, <2>2 DEF MigrateOverlay
        <3>2. CASE ~Exists(OverlayFile(mig.i))
            <4>1. /\ write' = Writing(OverlayFile(mig.i), LegacyDoc(mig.i))
                  /\ op' = [kind |-> "overlay", agreed |-> {}, doc |-> LegacyDoc(mig.i)]
                  /\ UNCHANGED <<files, base>>
                BY <2>9, <3>2 DEF MigrateOverlay, StartWrite, opVars, settings
            <4>2. /\ write'.content = op'.doc /\ write'.step = "synced"
                  /\ write'.file = OverlayFile(mig.i) /\ op'.kind = "overlay"
                BY <4>1, NewWrites
            <4>3. QED
                BY <3>2, <4>1, <4>2 DEF InFlight, Exists
        <3>3. QED
            BY <3>1, <3>2
    <2>10. CASE MarkMigrated
        BY <2>10, <2>2 DEF Shape, Flow, MarkMigrated, WriteInPlace, settings
    <2>11. CASE InstallStarter
        BY <2>11, <2>2 DEF Shape, Flow, InstallStarter, WriteInPlace, settings
    <2>12. CASE InstallFailed
        BY <2>12, <2>2 DEF Shape, Flow, InstallFailed, settings
    <2>13. CASE InstallDone
        BY <2>13, <2>2 DEF Shape, Flow, InstallDone, WriteInPlace, settings
    <2>14. CASE ChangeSettings
        <3>1. /\ write' = Writing(Config, NewDoc)
              /\ op' = [kind |-> "config", agreed |-> {base}, doc |-> NewDoc]
              /\ UNCHANGED <<files, base>>
            BY <2>14 DEF ChangeSettings, SaveSettings, StartWrite
        <3>2. /\ write'.content = op'.doc /\ write'.step = "synced"
              /\ write'.file = Config /\ op'.kind = "config"
            BY <3>1, NewWrites
        <3>3. QED
            BY <3>1, <3>2 DEF InFlight
    <2>15. CASE CommitGain
        BY <2>15, <2>2 DEF Shape, Flow, CommitGain, NewDoc, Ready, settings
    <2>16. CASE GainTimer
        <3>1. /\ write' = Writing(Config, now)
              /\ op' = [kind |-> "config", agreed |-> {base}, doc |-> now]
              /\ UNCHANGED <<files, base>>
            BY <2>16 DEF GainTimer, SaveSettings, StartWrite
        <3>2. /\ write'.content = op'.doc /\ write'.step = "synced"
              /\ write'.file = Config /\ op'.kind = "config"
            BY <3>1, NewWrites
        <3>3. QED
            BY <3>1, <3>2 DEF InFlight
    <2>17. CASE Restore
        BY <2>17, <2>2 DEF Shape, Flow, Restore, NotGone, Ready, settings
    <2>18. ASSUME NEW f \in Templates, Duplicate(f)
          PROVE  InFlight'
        <3>1. /\ write' = Writing(FreeFile(f[1]), NewDoc)
              /\ op' = [kind |-> "copy", agreed |-> {}, doc |-> NewDoc]
              /\ UNCHANGED <<files, base>>
            BY <2>18 DEF Duplicate, StartWrite, settings
        <3>2. /\ write'.content = op'.doc /\ write'.step = "synced"
              /\ write'.file = FreeFile(f[1]) /\ op'.kind = "copy"
            BY <3>1, NewWrites
        <3>3. QED
            BY <3>1, <3>2, <2>18, FreeFiles DEF InFlight, Duplicate
    <2>19. ASSUME NEW f \in Templates, NEW stem \in Typed, NEW replace \in BOOLEAN,
                  Rename(f, stem, replace)
          PROVE  InFlight'
        <3>1. /\ write' = Writing(RenameTarget(f, stem, replace), NewDoc)
              /\ op' = [kind |-> "rename", agreed |-> {files[RenameTarget(f, stem, replace)]}, doc |-> NewDoc,
                       from |-> f, to |-> RenameTarget(f, stem, replace)]
              /\ UNCHANGED <<files, base>>
            BY <2>19 DEF Rename, StartWrite, settings
        <3>2. /\ write'.content = op'.doc /\ write'.step = "synced"
              /\ write'.file = RenameTarget(f, stem, replace) /\ op'.kind = "rename"
            BY <3>1, NewWrites
        <3>3. QED
            BY <3>1, <3>2 DEF InFlight
    <2>20. ASSUME NEW f \in Templates, Delete(f)
          PROVE  InFlight'
        BY <2>20, <2>2 DEF Shape, Flow, Delete, Unlink, Forgotten, Ready, settings
    <2>21. ASSUME NEW e \in 1 .. 2, NEW f \in Templates \cup {NoFile}, OpenEditor(e, f)
          PROVE  InFlight'
        BY <2>21, <2>2 DEF Shape, Flow, OpenEditor, NewDoc, Ready, settings
    <2>22. ASSUME NEW e \in 1 .. 2, Edit(e)
          PROVE  InFlight'
        BY <2>22, <2>2 DEF Shape, Flow, Edit, NewDoc, Ready, settings
    <2>23. ASSUME NEW e \in 1 .. 2, NEW f \in Templates, NEW agreed \in SUBSET Int,
                  EditorSave(e, f, agreed)
          PROVE  InFlight'
        <3>1. /\ write' = Writing(f, editors[e].doc)
              /\ op' = [kind |-> "editor", editor |-> e, agreed |-> agreed, doc |-> editors[e].doc]
              /\ UNCHANGED <<files, base>>
            BY <2>23 DEF EditorSave, SaveFromEditor, StartWrite, opVars, settings
        <3>2. /\ write'.content = op'.doc /\ write'.step = "synced"
              /\ write'.file = f /\ op'.kind = "editor"
            BY <3>1, NewWrites
        <3>3. QED
            BY <3>1, <3>2 DEF InFlight
    <2>24. ASSUME NEW e \in 1 .. 2, CloseEditor(e)
          PROVE  InFlight'
        BY <2>24, <2>2 DEF Shape, Flow, CloseEditor, Ready, settings
    <2>25. CASE Commit
        <3>1. write \in Writes /\ write.step = "synced" /\ write.file \in AllFiles
            BY <2>25, <2>3, NewWrites, FileNames, Nones DEF WriteTypes, Commit, Replace, CanReplace
        <3>2. /\ write'.file = write.file /\ write'.content = write.content /\ write'.step = "replaced"
              /\ op' = op /\ files' = [files EXCEPT ![write.file] = write.content]
            BY <2>25, <3>1, MarkedWrites DEF Commit, Replace
        <3>3. files'[write.file] = op'.doc
            BY <3>1, <3>2, <2>3, NewWrites DEF InFlight, Shape, FileTypes, DiskTypes
        <3>4. QED
            BY <3>1, <3>2, <3>3, NewWrites DEF InFlight
    <2>26. ASSUME NEW works \in BOOLEAN, Durable(works)
          PROVE  InFlight'
        BY <2>26 DEF Durable, SyncDirectory, InFlight
    <2>27. CASE RemoveOld
        BY <2>27, <2>2 DEF Shape, Flow, RemoveOld, Unlink, Forgotten, settings
    <2>28. CASE SaveFailed
        BY <2>28, <2>2 DEF Shape, Flow, SaveFailed, WriteFailed, settings
    <2>29. CASE RemoteList
        <3>1. UNCHANGED <<op, files, base>>
            BY <2>29 DEF RemoteList, opVars, settings
        <3>2. CASE write' = write
            BY <3>1, <3>2 DEF InFlight
        <3>3. CASE write \in Writes /\ write' = [write EXCEPT !.temp = FALSE]
            BY <3>1, <3>3, MarkedWrites, NewWrites DEF InFlight
        <3>4. QED
            BY <2>29, <3>2, <3>3, <2>3, Nones DEF WriteTypes, RemoteList, LoseTemp
    <2>30. CASE Minute
        <3>1. UNCHANGED <<op, files, base>>
            BY <2>30 DEF Minute, MinutePasses, opVars, settings
        <3>2. CASE write' = write
            BY <3>1, <3>2 DEF InFlight
        <3>3. CASE write \in Writes /\ write' = [write EXCEPT !.old = TRUE]
            BY <3>1, <3>3, MarkedWrites, NewWrites DEF InFlight
        <3>4. QED
            BY <2>30, <3>2, <3>3, <2>3, Nones DEF WriteTypes, Minute, MinutePasses
    <2>31. CASE CacheWrittenBack
        BY <2>31, <2>2 DEF Shape, Flow, CacheWrittenBack, WriteBack, settings
    <2>32. CASE HandEdit
        BY <2>32, <2>2 DEF Shape, Flow, HandEdit, Broken, settings
    <2>33. CASE Quit
        <3>1. CASE gainDue
            <4>1. /\ write' = Writing(Config, now)
                  /\ op' = [kind |-> "config", agreed |-> {base}, doc |-> now]
                  /\ UNCHANGED <<files, base>>
                BY <2>33, <3>1 DEF Quit, SaveSettings, StartWrite
            <4>2. /\ write'.content = op'.doc /\ write'.step = "synced"
                  /\ write'.file = Config /\ op'.kind = "config"
                BY <4>1, NewWrites
            <4>3. QED
                BY <4>1, <4>2 DEF InFlight
        <3>2. CASE ~gainDue
            BY <2>33, <3>2, <2>2 DEF Quit, Ready
        <3>3. QED
            BY <3>1, <3>2
    <2>34. CASE Exit
        BY <2>34, <2>2 DEF Shape, Flow, Exit, Stopped, settings
    <2>35. CASE Kill
        BY <2>35, <2>2 DEF Shape, Flow, Kill, Stopped, DiskKill, settings
    <2>36. CASE PowerLoss
        BY <2>36, <2>2 DEF Shape, Flow, PowerLoss, Stopped, DiskPowerLoss, settings
    <2>37. CASE UNCHANGED filesVars
        BY <2>37 DEF InFlight, filesVars, diskVars, settings
    <2>38. QED
        <3>1. CASE Startup
            BY <3>1, <2>4, <2>5, <2>6, <2>7 DEF Startup
        <3>2. CASE Installation
            BY <3>2, <2>8, <2>9, <2>10, <2>11, <2>12, <2>13 DEF Installation
        <3>3. CASE GalleryStep
            BY <3>3, <2>18, <2>19 DEF GalleryStep, Chosen
        <3>4. ASSUME NEW e \in 1 .. 2, EditorStep(e) PROVE InFlight'
            <4>1. ASSUME NEW stem \in Typed, NEW replace \in BOOLEAN,
                         Save(e, "mine") \/ SaveAs(e, stem, replace)
                  PROVE  InFlight'
                BY <4>1, <2>23, EditorSaves
            <4>2. "mine" \in Typed /\ TRUE \in BOOLEAN
                BY DEF Typed
            <4>3. QED
                BY <3>4, <4>1, <4>2, <2>21, <2>22, <2>24 DEF EditorStep, Chosen
        <3>5. CASE WriteStep
            BY <3>5, <2>25, <2>26, <2>27, <2>28 DEF WriteStep
        <3>6. CASE World
            BY <3>6, <2>29, <2>30, <2>31, <2>32, <2>33, <2>34, <2>35, <2>36 DEF World
        <3>7. QED
            BY <3>1, <3>2, <3>3, <3>4, <3>5, <3>6, <2>14, <2>15, <2>16, <2>17, <2>20, <2>37
               DEF FilesNext
<1>3. QED
    BY <1>1, <1>2, FilesShape, PTL DEF FilesSpec

\* What is kept is on the disk for good, or on its way from the settings file
\* to the place it is moved to.
Durably(doc) ==
    \/ \E f \in AllFiles : files[f] = doc /\ stable[f] = doc
    \/ files[Corrupt] = doc /\ stable[Config] = doc
AllKept == \A doc \in kept : Durably(doc)
\* The program knows the settings file it is about to replace.
OwnSettings ==
    \/ proc \in {"down", "loading"}
    \/ write.step = "replaced" /\ write.file = Config
    \/ files[Config] \notin kept
    \/ files[Config] = base
    \/ \E f \in Templates : files[f] = files[Config] /\ stable[f] = files[Config]
Content == AllKept /\ OwnSettings

\* Everything saved is on the disk, and no power loss takes it back.
THEOREM FilesContent == FilesSpec => []Content
PROOF
<1>1. FilesInit => Content
    <2> SUFFICES ASSUME FilesInit PROVE Content
        OBVIOUS
    <2>1. QED
        BY DEF FilesInit, DiskInit, Content, AllKept, Durably, OwnSettings
<1>2. Shape /\ InFlight /\ Content /\ [FilesNext]_filesVars => Content'
    <2> SUFFICES ASSUME Shape, InFlight, Content, [FilesNext]_filesVars PROVE Content'
        OBVIOUS
    <2>1. ASSUME UNCHANGED <<files, stable, kept, base>>,
                 proc \in {"down", "loading"} => proc' \in {"down", "loading"} \/ base' = files[Config],
                 write.step = "replaced" /\ write.file = Config
                    => (write.step = "replaced" /\ write.file = Config)'
          PROVE  Content'
        BY <2>1 DEF Content, AllKept, Durably, OwnSettings
    <2>2. WriteTypes /\ OpTypes
        BY DEF Shape, FileTypes
    <2>3. ASSUME NEW f \in AllFiles, f # Config, f # Corrupt, files[f] \in {0, 1},
                 WriteInPlace(f, Pristine), UNCHANGED <<kept, base>>,
                 proc \in {"down", "loading"} => proc' \in {"down", "loading"}
          PROVE  Content'
        <3>1. /\ files' = [files EXCEPT ![f] = 1] /\ UNCHANGED <<stable, write>>
              /\ 0 \notin kept
            BY <2>3 DEF WriteInPlace, Pristine, Shape, FileTypes, HistoryTypes
        <3>2. \A g \in AllFiles : files[g] \in kept => files'[g] = files[g]
            BY <2>3, <3>1 DEF Shape, FileTypes, DiskTypes
        <3>3. files'[Config] = files[Config] /\ files'[Corrupt] = files[Corrupt]
            BY <2>3, <3>1, FileNames DEF Shape, FileTypes, DiskTypes
        <3>4. AllKept'
            BY <2>3, <3>1, <3>2, <3>3 DEF Content, AllKept, Durably
        <3>5. OwnSettings'
            BY <2>3, <3>1, <3>2, <3>3, FileNames DEF Content, OwnSettings
        <3>6. QED
            BY <3>4, <3>5 DEF Content
    <2>4. CASE Launch
        <3>1. UNCHANGED <<files, stable, kept, base>>
            BY <2>4 DEF Launch, diskVars, opVars, settings, history
        <3>2. QED
            BY <2>1, <3>1, <2>4, <2>2, Nones DEF Shape, Flow, Launch, diskVars
    <2>5. CASE LoadGood
        <3>1. AllKept'
            BY <2>5, <2>2, FileNames DEF Shape, FileTypes, DiskTypes, Content, AllKept, Durably,
               LoadGood, Loaded, diskVars, history
        <3>2. OwnSettings'
            BY <2>5, <2>2, FileNames DEF Shape, FileTypes, DiskTypes, Content, OwnSettings,
               LoadGood, Loaded, diskVars, history, settings, opVars
        <3>3. QED
            BY <3>1, <3>2 DEF Content
    <2>6. CASE LoadBroken
        <3>1. AllKept'
            BY <2>6, FileNames DEF Shape, FileTypes, DiskTypes, Content, AllKept, Durably,
               LoadBroken
        <3>2. files'[Config] = 0 /\ 0 \notin kept'
            BY <2>6, FileNames DEF Shape, FileTypes, DiskTypes, HistoryTypes, LoadBroken, Absent
        <3>3. QED
            BY <3>1, <3>2 DEF Content, OwnSettings
    <2>7. CASE LoadFailed
        <3>1. AllKept'
            BY <2>7, <2>2, FileNames DEF Shape, FileTypes, DiskTypes, Content, AllKept, Durably,
               LoadFailed, Loaded, Exists, diskVars, history
        <3>2. OwnSettings'
            BY <2>7, <2>2, FileNames DEF Shape, FileTypes, DiskTypes, Content, OwnSettings,
               LoadFailed, Loaded, Exists, diskVars, history, settings, opVars
        <3>3. QED
            BY <3>1, <3>2 DEF Content
    <2>8. CASE MigrationCheck
        <3>1. UNCHANGED <<files, stable, kept, base>>
            BY <2>8 DEF MigrationCheck, diskVars, opVars, settings, history
        <3>2. QED
            BY <2>1, <3>1, <2>8, <2>2, Nones DEF Shape, Flow, MigrationCheck, diskVars
    <2>9. CASE MigrateOverlay
        <3>1. UNCHANGED <<files, stable, kept, base>>
            BY <2>9 DEF MigrateOverlay, StartWrite, diskVars, opVars, settings, history
        <3>2. QED
            BY <2>1, <3>1, <2>9, <2>2, Nones DEF Shape, Flow, MigrateOverlay, StartWrite, diskVars
    <2>10. CASE MarkMigrated
        <3>1. UNCHANGED <<kept, base, proc, write>>
            BY <2>10 DEF MarkMigrated, WriteInPlace, diskVars, opVars, settings, history
        <3>2. CASE UNCHANGED diskVars
            BY <2>1, <3>1, <3>2 DEF diskVars
        <3>3. CASE WriteInPlace(MigrationMark, Pristine)
            BY <2>3, <3>1, <3>3, FileNames DEF Shape, FileTypes, DiskTypes
        <3>4. QED
            BY <2>10, <3>2, <3>3 DEF MarkMigrated
    <2>11. CASE InstallStarter
        <3>1. UNCHANGED <<kept, base, proc, write>>
            BY <2>11 DEF InstallStarter, WriteInPlace, diskVars, opVars, settings, history
        <3>2. StarterFile(mig.i) \in Templates
            BY <2>11, TemplateNames, FilesConstants DEF Shape, FileTypes, MigTypes, Flow,
               InstallStarter
        <3>3. CASE UNCHANGED diskVars
            BY <2>1, <3>1, <3>3 DEF diskVars
        <3>4. CASE WriteInPlace(StarterFile(mig.i), Pristine) /\ ~Exists(StarterFile(mig.i))
            BY <2>3, <3>1, <3>2, <3>4, FileNames DEF Exists, Absent
        <3>5. QED
            BY <2>11, <3>3, <3>4 DEF InstallStarter
    <2>12. CASE InstallFailed
        <3>1. UNCHANGED <<files, stable, kept, base>>
            BY <2>12 DEF InstallFailed, diskVars, opVars, settings, history
        <3>2. QED
            BY <2>1, <3>1, <2>12, <2>2, Nones DEF Shape, Flow, InstallFailed, diskVars
    <2>13. CASE InstallDone
        <3>1. UNCHANGED <<kept, base, write>> /\ proc \notin {"down", "loading"}
            BY <2>13, Nones DEF InstallDone, WriteInPlace, diskVars, opVars, settings, history,
               Shape, Flow
        <3>2. CASE UNCHANGED diskVars
            BY <2>1, <3>1, <3>2 DEF diskVars
        <3>3. CASE WriteInPlace(StarterMark, Pristine)
            BY <2>3, <3>1, <3>3, FileNames DEF Shape, FileTypes, DiskTypes
        <3>4. QED
            BY <2>13, <3>2, <3>3 DEF InstallDone
    <2>14. CASE ChangeSettings
        <3>1. UNCHANGED <<files, stable, kept, base>>
            BY <2>14 DEF ChangeSettings, SaveSettings, StartWrite, NewDoc, Ready, diskVars,
               opVars, settings, history
        <3>2. QED
            BY <2>1, <3>1, <2>14, <2>2, Nones DEF Shape, Flow, ChangeSettings, SaveSettings,
               StartWrite, NewDoc, Ready, diskVars
    <2>15. CASE CommitGain
        <3>1. UNCHANGED <<files, stable, kept, base>>
            BY <2>15 DEF CommitGain, NewDoc, Ready, diskVars, opVars, settings, history
        <3>2. QED
            BY <2>1, <3>1, <2>15, <2>2, Nones DEF Shape, Flow, CommitGain, NewDoc, Ready, diskVars
    <2>16. CASE GainTimer
        <3>1. UNCHANGED <<files, stable, kept, base>>
            BY <2>16 DEF GainTimer, SaveSettings, StartWrite, Ready, diskVars, opVars, settings,
               history
        <3>2. QED
            BY <2>1, <3>1, <2>16, <2>2, Nones DEF Shape, Flow, GainTimer, SaveSettings,
               StartWrite, Ready, diskVars
    <2>17. CASE Restore
        <3>1. UNCHANGED <<files, stable, kept, base>>
            BY <2>17 DEF Restore, NotGone, Ready, diskVars, opVars, settings, history
        <3>2. QED
            BY <2>1, <3>1, <2>17, <2>2, Nones DEF Shape, Flow, Restore, NotGone, Ready, diskVars
    <2>18. ASSUME NEW f \in Templates, Duplicate(f)
          PROVE  Content'
        <3>1. UNCHANGED <<files, stable, kept, base>>
            BY <2>18 DEF Duplicate, StartWrite, NewDoc, Ready, diskVars, opVars, settings, history
        <3>2. QED
            BY <2>1, <3>1, <2>18, <2>2, Nones DEF Shape, Flow, Duplicate, StartWrite, NewDoc,
               Ready, diskVars
    <2>19. ASSUME NEW f \in Templates, NEW stem \in Typed, NEW replace \in BOOLEAN,
                  Rename(f, stem, replace)
          PROVE  Content'
        <3>1. UNCHANGED <<files, stable, kept, base>>
            BY <2>19 DEF Rename, RenameTarget, StartWrite, NewDoc, Ready, diskVars, opVars,
               settings, history
        <3>2. QED
            BY <2>1, <3>1, <2>19, <2>2, Nones DEF Shape, Flow, Rename, RenameTarget, StartWrite,
               NewDoc, Ready, diskVars
    <2>20. ASSUME NEW f \in Templates, Delete(f)
          PROVE  Content'
        <3>1. AllKept'
            BY <2>20, <2>2, FileNames DEF Shape, FileTypes, DiskTypes, Content, AllKept,
               Durably, Delete, Unlink, Forgotten, Ready, diskVars, history
        <3>2. OwnSettings'
            BY <2>20, <2>2, FileNames DEF Shape, FileTypes, DiskTypes, Content, OwnSettings,
               Delete, Unlink, Forgotten, Ready, diskVars, history, settings, opVars
        <3>3. QED
            BY <3>1, <3>2 DEF Content
    <2>21. ASSUME NEW e \in 1 .. 2, NEW f \in Templates \cup {NoFile}, OpenEditor(e, f)
          PROVE  Content'
        <3>1. UNCHANGED <<files, stable, kept, base>>
            BY <2>21 DEF OpenEditor, NewDoc, Ready, diskVars, opVars, settings, history
        <3>2. QED
            BY <2>1, <3>1, <2>21, <2>2, Nones DEF Shape, Flow, OpenEditor, NewDoc, Ready, diskVars
    <2>22. ASSUME NEW e \in 1 .. 2, Edit(e)
          PROVE  Content'
        <3>1. UNCHANGED <<files, stable, kept, base>>
            BY <2>22 DEF Edit, NewDoc, Ready, diskVars, opVars, settings, history
        <3>2. QED
            BY <2>1, <3>1, <2>22, <2>2, Nones DEF Shape, Flow, Edit, NewDoc, Ready, diskVars
    <2>23. ASSUME NEW e \in 1 .. 2, NEW f \in Templates, NEW agreed \in SUBSET Int,
                  EditorSave(e, f, agreed)
          PROVE  Content'
        <3>1. UNCHANGED <<files, stable, kept, base>>
            BY <2>23 DEF EditorSave, SaveFromEditor, StartWrite, Ready, diskVars, opVars,
               settings, history
        <3>2. QED
            BY <2>1, <3>1, <2>23, <2>2, Nones DEF Shape, Flow, EditorSave, SaveFromEditor,
               StartWrite, Ready, diskVars
    <2>24. ASSUME NEW e \in 1 .. 2, CloseEditor(e)
          PROVE  Content'
        <3>1. UNCHANGED <<files, stable, kept, base>>
            BY <2>24 DEF CloseEditor, Ready, diskVars, opVars, settings, history
        <3>2. QED
            BY <2>1, <3>1, <2>24, <2>2, Nones DEF Shape, Flow, CloseEditor, Ready, diskVars
    <2>25. CASE Commit
        <3> DEFINE w == write.file
        <3>1. /\ write \in Writes /\ write # NoWrite /\ write.step = "synced"
              /\ w \in Templates \cup {Config} /\ w \in AllFiles /\ w # Corrupt
            BY <2>25, <2>2, NewWrites, FileNames, Nones DEF WriteTypes, Commit, Replace, CanReplace
        <3>2. /\ files' = [files EXCEPT ![w] = write.content] /\ UNCHANGED <<stable, base, proc>>
              /\ write'.step = "replaced" /\ write'.file = w
              /\ kept' \subseteq kept \ op.agreed
              /\ op.kind = "editor" => files[w] \notin kept'
            BY <2>25, <3>1, MarkedWrites DEF Commit, Replace, opVars, settings
        <3>3. op.kind = "config" <=> w = Config
            BY <3>1 DEF Shape, Flow
        <3>4. op.kind = "config" => op.agreed = {base}
            BY <3>1 DEF InFlight
        <3>5. w # Config => files[w] \notin kept'
            BY <3>1, <3>2, <3>3 DEF InFlight, Absent, Shape, FileTypes, HistoryTypes
        <3>6. proc \notin {"down", "loading"}
            BY <3>1 DEF Shape, Flow
        <3> HIDE DEF w
        <3>7. ASSUME NEW doc \in kept' PROVE Durably(doc)'
            <4>1. doc \in kept /\ doc \notin op.agreed
                BY <3>2, <3>7
            <4>2. CASE \E f \in AllFiles : f # w /\ files[f] = doc /\ stable[f] = doc
                BY <3>1, <3>2, <4>2 DEF Durably, Shape, FileTypes, DiskTypes
            <4>3. CASE files[Corrupt] = doc /\ stable[Config] = doc
                BY <3>1, <3>2, <4>3, FileNames DEF Durably, Shape, FileTypes, DiskTypes
            <4>4. CASE files[w] = doc
                <5>1. w = Config /\ files[Config] = doc /\ doc # base
                    BY <3>3, <3>4, <3>5, <3>7, <4>1, <4>4
                <5>2. PICK f \in Templates : files[f] = doc /\ stable[f] = doc
                    BY <3>1, <3>6, <4>1, <5>1 DEF Content, OwnSettings
                <5>3. f \in AllFiles /\ f # w
                    BY <5>1, FileNames
                <5>4. QED
                    BY <4>2, <5>2, <5>3
            <4>5. QED
                BY <4>1, <4>2, <4>3, <4>4 DEF Content, AllKept, Durably
        <3>8. OwnSettings'
            <4>1. CASE w = Config
                BY <3>2, <4>1 DEF OwnSettings
            <4>2. CASE w # Config
                <5>1. files'[Config] = files[Config]
                    BY <3>2, <4>2, FileNames DEF Shape, FileTypes, DiskTypes
                <5>2. CASE files[Config] \notin kept \/ files[Config] = base
                    BY <3>2, <5>1, <5>2 DEF OwnSettings
                <5>3. ASSUME NEW f \in Templates, files[f] = files[Config], stable[f] = files[Config]
                      PROVE  OwnSettings'
                    <6>1. CASE f = w
                        BY <3>5, <4>2, <5>1, <5>3, <6>1 DEF OwnSettings
                    <6>2. CASE f # w
                        <7>1. files'[f] = files[f] /\ stable'[f] = stable[f]
                            BY <3>2, <6>2, FileNames DEF Shape, FileTypes, DiskTypes
                        <7>2. QED
                            BY <5>1, <5>3, <7>1 DEF OwnSettings
                    <6>3. QED
                        BY <6>1, <6>2
                <5>4. QED
                    BY <3>1, <3>6, <4>2, <5>2, <5>3 DEF Content, OwnSettings
            <4>3. QED
                BY <4>1, <4>2
        <3>9. QED
            BY <3>7, <3>8 DEF Content, AllKept
    <2>26. ASSUME NEW works \in BOOLEAN, Durable(works)
          PROVE  Content'
        <3> DEFINE w == write.file
        <3>1. /\ write \in Writes /\ write # NoWrite /\ write.step = "replaced"
              /\ w \in Templates \cup {Config} /\ w \in AllFiles
            BY <2>26, <2>2, NewWrites, FileNames, Nones DEF WriteTypes, Durable, SyncDirectory
        <3>2. files[w] = op.doc /\ (op.kind = "config" <=> w = Config)
            BY <3>1 DEF InFlight, Shape, Flow
        <3>3. /\ files' = files /\ proc' = proc
              /\ base' = IF w = Config THEN files[Config] ELSE base
              /\ kept' = IF works THEN kept \cup {files[w]} ELSE kept
            BY <2>26, <3>2 DEF Durable, SyncDirectory
        <3>4. CASE works
            <4>1. stable' = [f \in AllFiles |-> IF f \in Directory THEN files[f] ELSE stable[f]]
                BY <2>26, <3>4, FileNames DEF Durable, SyncDirectory
            <4>2. w \in Directory /\ (Corrupt \in Directory <=> Config \in Directory)
                BY <3>1, FileNames DEF Directory, ConfigDir, TemplatesDir
            <4>3. ASSUME NEW f \in AllFiles, files[f] = stable[f]
                  PROVE  files'[f] = files[f] /\ stable'[f] = files[f]
                BY <3>3, <4>1, <4>3
            <4>4. files'[w] = files[w] /\ stable'[w] = files[w]
                BY <3>1, <3>3, <4>1, <4>2
            <4> HIDE DEF w
            <4>5. ASSUME NEW doc \in kept' PROVE Durably(doc)'
                <5>1. CASE doc = files[w]
                    BY <3>1, <4>4, <5>1 DEF Durably
                <5>2. CASE \E f \in AllFiles : files[f] = doc /\ stable[f] = doc
                    BY <4>3, <5>2 DEF Durably
                <5>3. CASE files[Corrupt] = doc /\ stable[Config] = doc
                    BY <3>3, <4>1, <4>2, <5>3, FileNames DEF Durably
                <5>4. QED
                    BY <3>3, <3>4, <4>5, <5>1, <5>2, <5>3 DEF Content, AllKept, Durably
            <4>6. OwnSettings'
                <5>1. CASE w = Config
                    BY <3>3, <5>1 DEF OwnSettings
                <5>2. CASE files[Config] = files[w] /\ w # Config
                    BY <3>1, <3>3, <4>4, <5>2 DEF OwnSettings
                <5>3. CASE w # Config /\ files[Config] # files[w]
                    BY <3>1, <3>3, <3>4, <4>3, <5>3, FileNames DEF Content, OwnSettings, w
                <5>4. QED
                    BY <5>1, <5>2, <5>3
            <4>7. QED
                BY <4>5, <4>6 DEF Content, AllKept
        <3>5. CASE ~works
            <4>1. stable' = stable /\ kept' = kept
                BY <2>26, <3>3, <3>5 DEF Durable, SyncDirectory
            <4>2. QED
                BY <3>1, <3>3, <4>1 DEF Content, AllKept, Durably, OwnSettings
        <3>6. QED
            BY <3>4, <3>5
    <2>27. CASE RemoveOld
        <3>1. op.from \in Templates /\ op.from \in AllFiles /\ op.from # Config
            BY <2>27, <2>2, Nones, OpFacts, FileNames DEF OpTypes, RemoveOld
        <3>2. AllKept'
            BY <2>27, <3>1, FileNames DEF Shape, FileTypes, DiskTypes, Content, AllKept,
               Durably, RemoveOld, Unlink
        <3>3. UNCHANGED <<stable, base, proc, write>>
            BY <2>27 DEF RemoveOld, opVars, settings
        <3>4. OwnSettings'
            <4>1. CASE files' = [files EXCEPT ![op.from] = Absent] /\ kept' = kept \ {files[op.from]}
                BY <3>1, <3>3, <4>1, FileNames DEF Shape, FileTypes, DiskTypes, Content, OwnSettings
            <4>2. CASE UNCHANGED <<files, kept>>
                BY <3>3, <4>2 DEF Content, OwnSettings
            <4>3. QED
                BY <2>27, <4>1, <4>2 DEF RemoveOld, Unlink
        <3>5. QED
            BY <3>2, <3>4 DEF Content
    <2>28. CASE SaveFailed
        <3>1. UNCHANGED <<files, stable, kept, base>>
            BY <2>28 DEF SaveFailed, WriteFailed, diskVars, opVars, settings, history
        <3>2. QED
            BY <2>1, <3>1, <2>28, <2>2, Nones DEF Shape, Flow, SaveFailed, WriteFailed, diskVars
    <2>29. CASE RemoteList
        <3>1. UNCHANGED <<files, stable, kept, base>>
            BY <2>29 DEF RemoteList, LoseTemp, diskVars, opVars, settings, history
        <3>2. QED
            BY <2>1, <3>1, <2>29, <2>2, Nones DEF Shape, Flow, RemoteList, LoseTemp, diskVars
    <2>30. CASE Minute
        <3>1. UNCHANGED <<files, stable, kept, base>>
            BY <2>30 DEF Minute, MinutePasses, diskVars, opVars, settings, history
        <3>2. QED
            BY <2>1, <3>1, <2>30, <2>2, Nones DEF Shape, Flow, Minute, MinutePasses, diskVars
    <2>31. CASE CacheWrittenBack
        <3>1. AllKept'
            BY <2>31, <2>2, FileNames DEF Shape, FileTypes, DiskTypes, Content, AllKept,
               Durably, CacheWrittenBack, WriteBack, diskVars, history
        <3>2. OwnSettings'
            BY <2>31, <2>2, FileNames DEF Shape, FileTypes, DiskTypes, Content, OwnSettings,
               CacheWrittenBack, WriteBack, diskVars, history, settings, opVars
        <3>3. QED
            BY <3>1, <3>2 DEF Content
    <2>32. CASE HandEdit
        <3>1. /\ files' = [files EXCEPT ![Config] = Broken(edits + 1)]
              /\ stable' = [f \in AllFiles |-> IF f \in ConfigDir THEN files'[f] ELSE stable[f]]
              /\ kept' = (kept \ {files[Config]}) \cup {Broken(edits + 1)}
              /\ proc' = "down"
            BY <2>32 DEF HandEdit
        <3>2. files'[Config] = Broken(edits + 1) /\ stable'[Config] = Broken(edits + 1)
            BY <3>1, FileNames DEF ConfigDir, Shape, FileTypes, DiskTypes
        <3>3. files'[Corrupt] = files[Corrupt] /\ stable'[Corrupt] = files[Corrupt]
            BY <3>1, FileNames DEF ConfigDir, Shape, FileTypes, DiskTypes
        <3>4. ASSUME NEW f \in AllFiles, f # Config, files[f] = stable[f]
              PROVE  files'[f] = files[f] /\ stable'[f] = files[f]
            BY <3>1, <3>4, FileNames DEF ConfigDir, Shape, FileTypes, DiskTypes
        <3>5. ASSUME NEW doc \in kept' PROVE Durably(doc)'
            <4>1. CASE doc = Broken(edits + 1)
                BY <3>2, <4>1, FileNames DEF Durably
            <4>2. CASE doc \in kept /\ doc # files[Config]
                BY <3>3, <3>4, <4>2, FileNames DEF Content, AllKept, Durably
            <4>3. QED
                BY <3>1, <3>5, <4>1, <4>2
        <3>6. QED
            BY <3>1, <3>5 DEF Content, AllKept, OwnSettings
    <2>33. CASE Quit
        <3>1. UNCHANGED <<files, stable, kept, base>>
            BY <2>33 DEF Quit, SaveSettings, StartWrite, Ready, diskVars, opVars, settings, history
        <3>2. QED
            BY <2>1, <3>1, <2>33, <2>2, Nones DEF Shape, Flow, Quit, SaveSettings, StartWrite,
               Ready, diskVars
    <2>34. CASE Exit
        <3>1. AllKept'
            BY <2>34, <2>2, FileNames DEF Shape, FileTypes, DiskTypes, Content, AllKept,
               Durably, Exit, Stopped, diskVars, history
        <3>2. OwnSettings'
            BY <2>34, <2>2, FileNames DEF Shape, FileTypes, DiskTypes, Content, OwnSettings,
               Exit, Stopped, diskVars, history, settings, opVars
        <3>3. QED
            BY <3>1, <3>2 DEF Content
    <2>35. CASE Kill
        <3>1. UNCHANGED <<files, stable, kept>> /\ proc' = "down"
            BY <2>35 DEF Kill, Stopped, DiskKill
        <3>2. QED
            BY <3>1 DEF Content, AllKept, Durably, OwnSettings
    <2>36. CASE PowerLoss
        <3>1. AllKept'
            BY <2>36, <2>2, FileNames DEF Shape, FileTypes, DiskTypes, Content, AllKept,
               Durably, PowerLoss, Stopped, DiskPowerLoss, diskVars, history
        <3>2. OwnSettings'
            BY <2>36, <2>2, FileNames DEF Shape, FileTypes, DiskTypes, Content, OwnSettings,
               PowerLoss, Stopped, DiskPowerLoss, diskVars, history, settings, opVars
        <3>3. QED
            BY <3>1, <3>2 DEF Content
    <2>37. CASE UNCHANGED filesVars
        BY <2>37, <2>1 DEF filesVars, diskVars, settings, history
    <2>38. QED
        <3>1. CASE Startup
            BY <3>1, <2>4, <2>5, <2>6, <2>7 DEF Startup
        <3>2. CASE Installation
            BY <3>2, <2>8, <2>9, <2>10, <2>11, <2>12, <2>13 DEF Installation
        <3>3. CASE GalleryStep
            BY <3>3, <2>18, <2>19 DEF GalleryStep, Chosen
        <3>4. ASSUME NEW e \in 1 .. 2, EditorStep(e) PROVE Content'
            <4>1. ASSUME NEW stem \in Typed, NEW replace \in BOOLEAN,
                         Save(e, "mine") \/ SaveAs(e, stem, replace)
                  PROVE  Content'
                BY <4>1, <2>23, EditorSaves
            <4>2. "mine" \in Typed /\ TRUE \in BOOLEAN
                BY DEF Typed
            <4>3. QED
                BY <3>4, <4>1, <4>2, <2>21, <2>22, <2>24 DEF EditorStep, Chosen
        <3>5. CASE WriteStep
            BY <3>5, <2>25, <2>26, <2>27, <2>28 DEF WriteStep
        <3>6. CASE World
            BY <3>6, <2>29, <2>30, <2>31, <2>32, <2>33, <2>34, <2>35, <2>36 DEF World
        <3>7. QED
            BY <3>1, <3>2, <3>3, <3>4, <3>5, <3>6, <2>14, <2>15, <2>16, <2>17, <2>20, <2>37
               DEF FilesNext
<1>3. QED
    BY <1>1, <1>2, FilesShape, FilesInFlight, PTL DEF FilesSpec

\* The settings file is the settings in memory, but for a save that is due,
\* in flight or failed.
SettingsHeld ==
    proc \notin {"down", "loading"} =>
        /\ saved /\ ~gainDue /\ op.kind # "config" => files[Config] = now
        /\ op.kind = "config" => op.doc = now

\* The settings file follows the settings in memory.
THEOREM FilesSettings == FilesSpec => []SettingsHeld
PROOF
<1>1. FilesInit => SettingsHeld
    BY DEF FilesInit, SettingsHeld
<1>2. Shape /\ InFlight /\ SettingsHeld /\ [FilesNext]_filesVars => SettingsHeld'
    <2> SUFFICES ASSUME Shape, InFlight, SettingsHeld, [FilesNext]_filesVars PROVE SettingsHeld'
        OBVIOUS
    <2>1. WriteTypes /\ OpTypes
        BY DEF Shape, FileTypes
    <2>2. CASE Launch
        BY <2>2 DEF SettingsHeld, Launch
    <2>3. CASE LoadGood
        BY <2>3, <2>1, Nones, FileNames DEF SettingsHeld, Shape, FileTypes, DiskTypes, Flow,
           LoadGood, Loaded, diskVars, opVars, settings
    <2>4. CASE LoadBroken
        <3>1. files'[Config] = 0 /\ now' = 0 /\ op' = op /\ op = NoOp
            BY <2>4, FileNames DEF LoadBroken, Loaded, Absent, Shape, FileTypes, DiskTypes, Flow
        <3>2. QED
            BY <3>1, Nones DEF SettingsHeld
    <2>5. CASE LoadFailed
        BY <2>5, <2>1, Nones, FileNames DEF SettingsHeld, Shape, FileTypes, DiskTypes, Flow,
           LoadFailed, Loaded, Exists, diskVars, opVars, settings
    <2>6. CASE MigrationCheck
        BY <2>6, <2>1, Nones, FileNames DEF SettingsHeld, Shape, FileTypes, DiskTypes, Flow,
           MigrationCheck, diskVars, opVars, settings
    <2>7. CASE MigrateOverlay
        BY <2>7, <2>1, Nones, FileNames DEF SettingsHeld, Shape, FileTypes, DiskTypes, Flow,
           MigrateOverlay, StartWrite, diskVars, opVars, settings
    <2>8. CASE MarkMigrated
        BY <2>8, <2>1, Nones, FileNames DEF SettingsHeld, Shape, FileTypes, DiskTypes, Flow,
           MarkMigrated, WriteInPlace, diskVars, opVars, settings
    <2>9. CASE InstallStarter
        <3>1. StarterFile(mig.i) \in Templates
            BY <2>9, TemplateNames, FilesConstants DEF Shape, FileTypes, MigTypes, Flow,
               InstallStarter
        <3>2. files'[Config] = files[Config]
            BY <2>9, <3>1, FileNames DEF InstallStarter, WriteInPlace, diskVars, Shape,
               FileTypes, DiskTypes
        <3>3. QED
            BY <2>9, <3>2 DEF SettingsHeld, InstallStarter, opVars, settings
    <2>10. CASE InstallFailed
        BY <2>10, <2>1, Nones, FileNames DEF SettingsHeld, Shape, FileTypes, DiskTypes, Flow,
           InstallFailed, diskVars, opVars, settings
    <2>11. CASE InstallDone
        BY <2>11, <2>1, Nones, FileNames DEF SettingsHeld, Shape, FileTypes, DiskTypes, Flow,
           InstallDone, WriteInPlace, diskVars, opVars, settings
    <2>12. CASE ChangeSettings
        BY <2>12, <2>1, Nones, FileNames DEF SettingsHeld, Shape, FileTypes, DiskTypes, Flow,
           ChangeSettings, SaveSettings, StartWrite, NewDoc, Ready, diskVars, opVars, settings
    <2>13. CASE CommitGain
        BY <2>13, <2>1, Nones, FileNames DEF SettingsHeld, Shape, FileTypes, DiskTypes, Flow,
           CommitGain, NewDoc, Ready, diskVars, opVars, settings
    <2>14. CASE GainTimer
        BY <2>14, <2>1, Nones, FileNames DEF SettingsHeld, Shape, FileTypes, DiskTypes, Flow,
           GainTimer, SaveSettings, StartWrite, Ready, diskVars, opVars, settings
    <2>15. CASE Restore
        BY <2>15, <2>1, Nones, FileNames DEF SettingsHeld, Shape, FileTypes, DiskTypes, Flow,
           Restore, NotGone, Ready, diskVars, opVars, settings
    <2>16. ASSUME NEW f \in Templates, Duplicate(f)
          PROVE  SettingsHeld'
        BY <2>16, <2>1, Nones, FileNames DEF SettingsHeld, Shape, FileTypes, DiskTypes, Flow,
           Duplicate, StartWrite, NewDoc, Ready, diskVars, opVars, settings
    <2>17. ASSUME NEW f \in Templates, NEW stem \in Typed, NEW replace \in BOOLEAN,
                  Rename(f, stem, replace)
          PROVE  SettingsHeld'
        BY <2>17, <2>1, Nones, FileNames DEF SettingsHeld, Shape, FileTypes, DiskTypes, Flow,
           Rename, RenameTarget, StartWrite, NewDoc, Ready, diskVars, opVars, settings
    <2>18. ASSUME NEW f \in Templates, Delete(f)
          PROVE  SettingsHeld'
        BY <2>18, <2>1, Nones, FileNames DEF SettingsHeld, Shape, FileTypes, DiskTypes, Flow,
           Delete, Unlink, Forgotten, Ready, diskVars, opVars, settings
    <2>19. ASSUME NEW e \in 1 .. 2, NEW f \in Templates \cup {NoFile}, OpenEditor(e, f)
          PROVE  SettingsHeld'
        BY <2>19, <2>1, Nones, FileNames DEF SettingsHeld, Shape, FileTypes, DiskTypes, Flow,
           OpenEditor, NewDoc, Ready, diskVars, opVars, settings
    <2>20. ASSUME NEW e \in 1 .. 2, Edit(e)
          PROVE  SettingsHeld'
        BY <2>20, <2>1, Nones, FileNames DEF SettingsHeld, Shape, FileTypes, DiskTypes, Flow,
           Edit, NewDoc, Ready, diskVars, opVars, settings
    <2>21. ASSUME NEW e \in 1 .. 2, NEW f \in Templates, NEW agreed \in SUBSET Int,
                  EditorSave(e, f, agreed)
          PROVE  SettingsHeld'
        BY <2>21, <2>1, Nones, FileNames DEF SettingsHeld, Shape, FileTypes, DiskTypes, Flow,
           EditorSave, SaveFromEditor, StartWrite, Ready, diskVars, opVars, settings
    <2>22. ASSUME NEW e \in 1 .. 2, CloseEditor(e)
          PROVE  SettingsHeld'
        BY <2>22, <2>1, Nones, FileNames DEF SettingsHeld, Shape, FileTypes, DiskTypes, Flow,
           CloseEditor, Ready, diskVars, opVars, settings
    <2>23. CASE Commit
        BY <2>23, <2>1, Nones, FileNames DEF SettingsHeld, Shape, FileTypes, DiskTypes, Flow,
           Commit, Replace, CanReplace, NotGone, diskVars, opVars, settings
    <2>24. ASSUME NEW works \in BOOLEAN, Durable(works)
          PROVE  SettingsHeld'
        <3>1. write # NoWrite /\ write.step = "replaced"
            BY <2>24, Nones DEF Durable, SyncDirectory
        <3>2. files[write.file] = op.doc /\ (op.kind = "config" <=> write.file = Config)
            BY <3>1 DEF InFlight, Shape, Flow
        <3>3. UNCHANGED <<files, now, gainDue, proc>>
            BY <2>24 DEF Durable, SyncDirectory
        <3>4. op'.kind # "config"
            <4>1. op \in Ops
                BY <2>1, <3>1 DEF OpTypes, Shape, Flow
            <4>2. CASE op.kind = "rename"
                BY <2>24, <4>1, <4>2, OpFacts, Nones DEF Durable, Ops
            <4>3. CASE op.kind # "rename"
                BY <2>24, <4>3, Nones DEF Durable
            <4>4. QED
                BY <4>2, <4>3
        <3>5. CASE op.kind = "config"
            BY <3>2, <3>3, <3>4, <3>5 DEF SettingsHeld
        <3>6. CASE op.kind # "config"
            <4>1. saved' => saved
                BY <2>24, <3>6 DEF Durable
            <4>2. QED
                BY <3>3, <3>4, <3>6, <4>1 DEF SettingsHeld
        <3>7. QED
            BY <3>5, <3>6
    <2>25. CASE RemoveOld
        <3>1. op.from \in Templates
            BY <2>25, <2>1, Nones, OpFacts DEF OpTypes, RemoveOld
        <3>2. files'[Config] = files[Config]
            BY <2>25, <3>1, FileNames DEF RemoveOld, Unlink, Shape, FileTypes, DiskTypes
        <3>3. QED
            BY <2>25, <3>2, Nones DEF SettingsHeld, RemoveOld, opVars, settings
    <2>26. CASE SaveFailed
        BY <2>26, <2>1, Nones, FileNames DEF SettingsHeld, Shape, FileTypes, DiskTypes, Flow,
           SaveFailed, WriteFailed, diskVars, opVars, settings
    <2>27. CASE RemoteList
        BY <2>27, <2>1, Nones, FileNames DEF SettingsHeld, Shape, FileTypes, DiskTypes, Flow,
           RemoteList, LoseTemp, diskVars, opVars, settings
    <2>28. CASE Minute
        BY <2>28, <2>1, Nones, FileNames DEF SettingsHeld, Shape, FileTypes, DiskTypes, Flow,
           Minute, MinutePasses, diskVars, opVars, settings
    <2>29. CASE CacheWrittenBack
        BY <2>29, <2>1, Nones, FileNames DEF SettingsHeld, Shape, FileTypes, DiskTypes, Flow,
           CacheWrittenBack, WriteBack, diskVars, opVars, settings
    <2>30. CASE HandEdit
        BY <2>30 DEF SettingsHeld, HandEdit, Broken
    <2>31. CASE Quit
        BY <2>31, <2>1, Nones, FileNames DEF SettingsHeld, Shape, FileTypes, DiskTypes, Flow,
           Quit, SaveSettings, StartWrite, Ready, diskVars, opVars, settings
    <2>32. CASE Exit
        BY <2>32 DEF SettingsHeld, Exit, Stopped
    <2>33. CASE Kill
        BY <2>33 DEF SettingsHeld, Kill, Stopped, DiskKill
    <2>34. CASE PowerLoss
        BY <2>34 DEF SettingsHeld, PowerLoss, Stopped, DiskPowerLoss
    <2>35. CASE UNCHANGED filesVars
        BY <2>35 DEF SettingsHeld, filesVars, diskVars, settings
    <2>36. QED
        <3>1. CASE Startup
            BY <3>1, <2>2, <2>3, <2>4, <2>5 DEF Startup
        <3>2. CASE Installation
            BY <3>2, <2>6, <2>7, <2>8, <2>9, <2>10, <2>11 DEF Installation
        <3>3. CASE GalleryStep
            BY <3>3, <2>16, <2>17 DEF GalleryStep, Chosen
        <3>4. ASSUME NEW e \in 1 .. 2, EditorStep(e) PROVE SettingsHeld'
            <4>1. ASSUME NEW stem \in Typed, NEW replace \in BOOLEAN,
                         Save(e, "mine") \/ SaveAs(e, stem, replace)
                  PROVE  SettingsHeld'
                BY <4>1, <2>21, EditorSaves
            <4>2. "mine" \in Typed /\ TRUE \in BOOLEAN
                BY DEF Typed
            <4>3. QED
                BY <3>4, <4>1, <4>2, <2>19, <2>20, <2>22 DEF EditorStep, Chosen
        <3>5. CASE WriteStep
            BY <3>5, <2>23, <2>24, <2>25, <2>26 DEF WriteStep
        <3>6. CASE World
            BY <3>6, <2>27, <2>28, <2>29, <2>30, <2>31, <2>32, <2>33, <2>34 DEF World
        <3>7. QED
            BY <3>1, <3>2, <3>3, <3>4, <3>5, <3>6, <2>12, <2>13, <2>14, <2>15, <2>18, <2>35
               DEF FilesNext
<1>3. QED
    BY <1>1, <1>2, FilesShape, FilesInFlight, PTL DEF FilesSpec

\* Whatever the operator saved and did not give up is on the disk, through any
\* number of kills and power losses, whatever the starters and the overlays.
THEOREM SavedFilesStay == FilesSpec => []OnDisk
PROOF
<1>1. Shape /\ Content /\ SettingsHeld => OnDisk
    <2> SUFFICES ASSUME Shape, Content, SettingsHeld PROVE OnDisk
        OBVIOUS
    <2>1. SavedStays
        BY FileNames DEF Content, AllKept, Durably, SavedStays
    <2>2. SettingsReachDisk
        BY Nones DEF Shape, Flow, SettingsHeld, SettingsReachDisk
    <2>3. QED
        BY <2>1, <2>2 DEF OnDisk
<1>2. QED
    BY <1>1, FilesShape, FilesContent, FilesSettings, PTL

\* An overlay is done with, or the code does not promise it.
Excused(i) ==
    \/ start[<<overlays[i], 1>>] # Absent
    \/ \E s \in StarterSet : start[<<s, 1>>] # Absent
    \/ /\ "interrupted" \in excuses
       /\ \/ \E j \in DOMAIN Legacy \ {i} : Legacy[j] = Legacy[i]
          \/ LegacySet \cap StarterSet # {}
Done(i) == LegacyDoc(i) \in placed \/ Excused(i)
\* Before the migration a template file is the user's own, or what an
\* interrupted or the present migration wrote.
OldFile(f, c) ==
    \/ c = Absent
    \/ start[f] # Absent
    \/ /\ \E k \in DOMAIN overlays : f[1] = overlays[k] /\ c = LegacyDoc(k)
       /\ f \in mig.written \/ "interrupted" \in excuses
Pending ==
    /\ proc \in {"down", "loading", "migrating"} /\ mig.step # "install"
    /\ \A f \in {StarterMark, MigrationMark} : files[f] = Absent /\ stable[f] = Absent
    /\ \A f \in Templates : OldFile(f, files[f]) /\ OldFile(f, stable[f])
\* One overlay at a time: those before the next are done, or the last is being
\* written.
OneByOne ==
    mig.step = "overlays" =>
        /\ \A j \in DOMAIN overlays :
              j < mig.i => Done(j) \/ (op # NoOp /\ j = mig.i - 1)
        /\ op # NoOp => /\ mig.i - 1 \in DOMAIN overlays
                        /\ op.doc = LegacyDoc(mig.i - 1)
                        /\ write.file \in mig.written
                        /\ write.file[1] = overlays[mig.i - 1]
AllDone == \A i \in DOMAIN overlays : Done(i)
LegacyHeld == (AllDone \/ Pending) /\ OneByOne

\* A step takes each file from what is there or from the platter.
FromDisk ==
    \A f \in TemplatesDir :
        files'[f] \in {files[f], stable[f]} /\ stable'[f] \in {files[f], stable[f]}
\* What the migration wrote is known, or it was interrupted.
Remembered ==
    mig.step # "install" => mig.written \subseteq mig'.written \/ "interrupted" \in excuses'

\* A v0.2 overlay is migrated however often the program dies while doing it:
\* while one is missing the disk is still that of an unfinished migration.
THEOREM FilesLegacy == FilesSpec => []LegacyHeld
PROOF
<1>1. FilesInit => LegacyHeld
    <2> SUFFICES ASSUME FilesInit PROVE LegacyHeld
        OBVIOUS
    <2>1. OriginTypes /\ OneByOne
        <3>1. PICK s \in Starts : start = s[1] /\ overlays = s[2]
            BY DEF FilesInit
        <3>2. s = <<s[1], s[2]>>
            BY DEF Starts
        <3>3. QED
            BY <3>1, <3>2, Nones DEF OriginTypes, OneByOne, FilesInit
    <2>2. Pending
        BY <2>1, Start, Nones DEF FilesInit, DiskInit, OriginTypes, Pending, OldFile
    <2>3. QED
        BY <2>1, <2>2 DEF LegacyHeld
<1>2. Shape /\ Shape' /\ InFlight /\ LegacyHeld /\ [FilesNext]_filesVars => LegacyHeld'
    <2> SUFFICES ASSUME Shape, Shape', InFlight, LegacyHeld, [FilesNext]_filesVars PROVE LegacyHeld'
        OBVIOUS
    <2>1. UNCHANGED origin
        BY DEF FilesNext, filesVars
    <2>2. ASSUME Pending => Pending', placed \subseteq placed', excuses \subseteq excuses',
                 mig'.step # "overlays"
          PROVE  LegacyHeld'
        BY <2>1, <2>2 DEF LegacyHeld, AllDone, Done, Excused, OneByOne, origin
    <2>3. ASSUME Pending, proc' \in {"down", "loading", "migrating"}, mig'.step # "install",
                 FromDisk,
                 excuses \subseteq excuses',
                 mig.written \subseteq mig'.written \/ "interrupted" \in excuses'
          PROVE  Pending'
        <3>1. \A f \in Templates : \A c : OldFile(f, c) => OldFile(f, c)'
            BY <2>1, <2>3 DEF OldFile, origin
        <3>2. \A f \in {StarterMark, MigrationMark} : files'[f] = Absent /\ stable'[f] = Absent
            BY <2>3 DEF Pending, TemplatesDir, FromDisk
        <3>3. \A f \in Templates : OldFile(f, files[f])' /\ OldFile(f, stable[f])'
            BY <2>3, <3>1 DEF Pending, TemplatesDir, FromDisk
        <3>4. QED
            BY <2>3, <3>2, <3>3 DEF Pending
    <2>4. \A i : placed \subseteq placed' /\ excuses \subseteq excuses' /\ Done(i) => Done(i)'
        BY <2>1 DEF Done, Excused, origin
    <2>5. /\ files \in [AllFiles -> Int] /\ stable \in [AllFiles -> Int] /\ Names = AllFiles
          /\ \A f \in TemplatesDir : f \in AllFiles /\ f # Config /\ f # Corrupt /\ f \notin ConfigDir
        BY FileNames DEF Shape, FileTypes, DiskTypes, TemplatesDir, ConfigDir
    <2>6. CASE Launch
        <3>1. /\ proc' \in {"down", "loading", "migrating"} /\ mig'.step \in {"idle", "check"}
              /\ placed \subseteq placed' /\ excuses \subseteq excuses'
            BY <2>6, Nones DEF Shape, FileTypes, MigTypes, Flow, Launch, opVars, settings, history
        <3>2. FromDisk
            BY <2>6, <2>5 DEF FromDisk, Launch, diskVars
        <3>3. Remembered
            BY <2>6, Nones DEF Remembered, Shape, FileTypes, MigTypes, Flow, Launch
        <3>4. QED
            BY <2>2, <2>3, <3>1, <3>2, <3>3 DEF Pending, Remembered
    <2>7. CASE LoadGood
        <3>1. /\ proc' \in {"down", "loading", "migrating"} /\ mig'.step \in {"idle", "check"}
              /\ placed \subseteq placed' /\ excuses \subseteq excuses'
            BY <2>7, Nones DEF Shape, FileTypes, MigTypes, Flow, LoadGood, Loaded, opVars,
               settings, history
        <3>2. FromDisk
            BY <2>7, <2>5 DEF FromDisk, LoadGood, Loaded, diskVars
        <3>3. Remembered
            BY <2>7, Nones DEF Remembered, Shape, FileTypes, MigTypes, Flow, LoadGood, Loaded
        <3>4. QED
            BY <2>2, <2>3, <3>1, <3>2, <3>3 DEF Pending, Remembered
    <2>8. CASE LoadBroken
        <3>1. /\ proc' \in {"down", "loading", "migrating"} /\ mig'.step \in {"idle", "check"}
              /\ placed \subseteq placed' /\ excuses \subseteq excuses'
            BY <2>8, Nones DEF Shape, FileTypes, MigTypes, Flow, LoadBroken, Loaded, opVars,
               settings, history
        <3>2. FromDisk
            BY <2>8, <2>5 DEF FromDisk, LoadBroken, Loaded, diskVars
        <3>3. Remembered
            BY <2>8, Nones DEF Remembered, Shape, FileTypes, MigTypes, Flow, LoadBroken, Loaded
        <3>4. QED
            BY <2>2, <2>3, <3>1, <3>2, <3>3 DEF Pending, Remembered
    <2>9. CASE LoadFailed
        <3>1. /\ proc' \in {"down", "loading", "migrating"} /\ mig'.step \in {"idle", "check"}
              /\ placed \subseteq placed' /\ excuses \subseteq excuses'
            BY <2>9, Nones DEF Shape, FileTypes, MigTypes, Flow, LoadFailed, Loaded, opVars,
               settings, history
        <3>2. FromDisk
            BY <2>9, <2>5 DEF FromDisk, LoadFailed, Loaded, diskVars
        <3>3. Remembered
            BY <2>9, Nones DEF Remembered, Shape, FileTypes, MigTypes, Flow, LoadFailed, Loaded
        <3>4. QED
            BY <2>2, <2>3, <3>1, <3>2, <3>3 DEF Pending, Remembered
    <2>10. CASE MigrationCheck
        <3>1. UNCHANGED <<files, stable, op, placed, excuses>> /\ op = NoOp /\ mig.step = "check"
              /\ proc = "migrating" /\ mig.written = {}
            BY <2>10 DEF MigrationCheck, diskVars, history, Shape, Flow
        <3>2. overlays = <<>> \/ overlays = Legacy
            BY Start DEF Shape, FileTypes, OriginTypes
        <3>3. AllDone => AllDone'
            BY <2>1, <2>4, <3>1 DEF AllDone, origin
        <3>4. CASE Installed
            <4>1. mig' = NoMigration
                BY <2>10, <3>4 DEF MigrationCheck
            <4>2. ASSUME Pending PROVE AllDone
                <5>1. PICK s \in StarterSet : files[<<s, 1>>] # Absent
                    BY <3>4, <4>2 DEF Installed, Exists, Pending
                <5>2. <<s, 1>> \in Templates
                    BY TemplateNames
                <5>3. OldFile(<<s, 1>>, files[<<s, 1>>])
                    BY <4>2, <5>2 DEF Pending
                <5>4. CASE start[<<s, 1>>] # Absent
                    BY <5>4 DEF AllDone, Done, Excused
                <5>5. CASE \E k \in DOMAIN overlays : s = overlays[k] /\ "interrupted" \in excuses
                    <6>1. s \in LegacySet /\ "interrupted" \in excuses
                        BY <3>2, <5>5, 1 \notin DOMAIN <<>> DEF LegacySet
                    <6>2. QED
                        BY <6>1 DEF AllDone, Done, Excused
                <5>6. QED
                    BY <3>1, <5>1, <5>3, <5>4, <5>5 DEF OldFile
            <4>3. QED
                BY <2>2, <3>1, <3>3, <4>1, <4>2, Nones DEF LegacyHeld, OneByOne
        <3>5. CASE ~Installed /\ ~Exists(MigrationMark) /\ overlays # <<>>
            <4>1. proc' = proc /\ mig' = [mig EXCEPT !.step = "overlays", !.i = 1]
                BY <2>10, <3>5 DEF MigrationCheck
            <4>2. mig'.step = "overlays" /\ mig'.i = 1 /\ mig'.written = mig.written
                BY <4>1 DEF Shape, FileTypes, MigTypes
            <4>3. Pending => Pending'
                BY <2>3, <3>1, <4>1, <4>2 DEF FromDisk
            <4>4. OneByOne'
                <5>1. \A j \in DOMAIN overlays' : ~(j < 1)
                    BY <2>1, <3>2, FilesConstants DEF origin
                <5>2. QED
                    BY <3>1, <4>2, <5>1 DEF OneByOne
            <4>5. QED
                BY <3>3, <4>3, <4>4 DEF LegacyHeld
        <3>6. CASE ~Installed /\ (Exists(MigrationMark) \/ overlays = <<>>)
            <4>1. mig' = [mig EXCEPT !.step = "install", !.i = 1]
                BY <2>10, <3>6 DEF MigrationCheck
            <4>2. mig'.step = "install"
                BY <4>1 DEF Shape, FileTypes, MigTypes
            <4>3. Pending => AllDone
                BY <3>6 DEF Pending, Exists, AllDone
            <4>4. QED
                BY <3>3, <4>2, <4>3 DEF LegacyHeld, OneByOne
        <3>7. QED
            BY <3>4, <3>5, <3>6
    <2>11. CASE MigrateOverlay
        <3>0. PICK m : m = mig.i
            OBVIOUS
        <3> DEFINE f == OverlayFile(mig.i)
        <3>1. /\ mig.step = "overlays" /\ mig.i <= Len(overlays) /\ op = NoOp /\ mig.i \in Nat \ {0}
              /\ UNCHANGED <<files, stable, proc, excuses>>
            BY <2>11 DEF MigrateOverlay, Shape, FileTypes, MigTypes, Flow
        <3>2. /\ mig.i \in DOMAIN overlays /\ f \in Templates /\ f \notin mig.written
              /\ f[1] = overlays[mig.i]
            BY <3>1, OverlayFiles
        <3>3. placed \subseteq placed' /\ mig'.step = "overlays" /\ mig'.i = mig.i + 1
              /\ mig.written \subseteq mig'.written
            <4>1. CASE Exists(f)
                BY <2>11, <4>1 DEF MigrateOverlay, Shape, FileTypes, MigTypes
            <4>2. CASE ~Exists(f)
                <5>1. placed' = placed /\ mig' = [mig EXCEPT !.i = mig.i + 1, !.written = mig.written \cup {f}]
                    BY <2>11, <4>2 DEF MigrateOverlay
                <5> HIDE DEF f
                <5>2. QED
                    BY <3>1, <5>1 DEF Shape, FileTypes, MigTypes
            <4>3. QED
                BY <4>1, <4>2
        <3>4. Pending => Pending'
            BY <2>3, <3>1, <3>3 DEF Pending, FromDisk
        <3>5. AllDone => AllDone'
            BY <2>1, <2>4, <3>1, <3>3 DEF AllDone, origin
        <3>6. \A j \in DOMAIN overlays : j < mig.i => Done(j)'
            BY <2>4, <3>1, <3>3 DEF LegacyHeld, OneByOne
        <3>7. \A j \in DOMAIN overlays : j < mig.i + 1 => j < mig.i \/ j = mig.i
            BY <3>1, DOMAIN overlays = 1 .. Len(overlays), Start DEF Shape, FileTypes, OriginTypes
        <3>8. CASE Exists(f)
            <4>1. op' = op /\ placed' = placed \cup ({files[f]} \cap {LegacyDoc(mig.i)})
                BY <2>11, <3>8 DEF MigrateOverlay
            <4>2. ASSUME Pending PROVE Done(m)'
                <5> HIDE DEF f
                <5>1. OldFile(f, files[f]) /\ files[f] # Absent
                    BY <3>2, <3>8, <4>2 DEF Pending, Exists
                <5>2. CASE start[f] # Absent
                    <6>1. f = <<overlays[mig.i], 1>>
                        BY <3>2, <5>2, Start, TemplateNames DEF Shape, FileTypes, OriginTypes
                    <6>2. Done(m)
                        BY <3>0, <5>2, <6>1 DEF Done, Excused
                    <6>3. QED
                        BY <2>4, <3>1, <3>3, <6>2
                <5>3. ASSUME NEW k \in DOMAIN overlays, f[1] = overlays[k], files[f] = LegacyDoc(k),
                             "interrupted" \in excuses
                      PROVE  Done(m)'
                    <6>1. CASE k = mig.i
                        <7>1. LegacyDoc(mig.i) \in placed'
                            BY <4>1, <5>3, <6>1
                        <7>2. QED
                            BY <3>0, <7>1 DEF Done
                    <6>2. CASE k # mig.i
                        <7>1. overlays = Legacy
                            BY <3>2, Start DEF Shape, FileTypes, OriginTypes
                        <7>2. k \in DOMAIN Legacy \ {mig.i} /\ Legacy[k] = Legacy[mig.i]
                            BY <3>2, <5>3, <6>2, <7>1
                        <7>3. Done(m)
                            BY <3>0, <5>3, <7>2 DEF Done, Excused
                        <7>4. QED
                            BY <2>4, <3>1, <3>3, <7>3
                    <6>3. QED
                        BY <6>1, <6>2
                <5>4. QED
                    BY <3>2, <5>1, <5>2, <5>3 DEF OldFile
            <4>3. Done(m)'
                BY <2>4, <3>0, <3>1, <3>2, <3>3, <4>2 DEF LegacyHeld, AllDone
            <4>4. OneByOne'
                BY <2>1, <3>0, <3>1, <3>3, <3>6, <3>7, <4>1, <4>3, Nones DEF OneByOne, origin
            <4>5. QED
                BY <3>4, <3>5, <4>4 DEF LegacyHeld
        <3>9. CASE ~Exists(f)
            <4>1. /\ write' = Writing(f, LegacyDoc(mig.i))
                  /\ op' = [kind |-> "overlay", agreed |-> {}, doc |-> LegacyDoc(mig.i)]
                  /\ mig' = [mig EXCEPT !.i = mig.i + 1, !.written = mig.written \cup {f}]
                BY <2>11, <3>9 DEF MigrateOverlay, StartWrite
            <4> HIDE DEF f
            <4>2. op'.doc = LegacyDoc(mig.i) /\ op' # NoOp
                BY <4>1 DEF NoOp
            <4>3. write'.file = f /\ f \in mig'.written
                BY <4>1, NewWrites DEF Shape, FileTypes, MigTypes
            <4>4. mig'.i - 1 = mig.i
                BY <3>1, <3>3
            <4>5. OneByOne'
                BY <2>1, <3>2, <3>3, <3>6, <3>7, <4>2, <4>3, <4>4 DEF OneByOne, origin
            <4>6. QED
                BY <3>4, <3>5, <4>5 DEF LegacyHeld
        <3>10. QED
            BY <3>8, <3>9
    <2>12. CASE MarkMigrated
        <3>1. /\ mig.step = "overlays" /\ mig.i > Len(overlays) /\ mig.i \in Nat /\ op = NoOp
              /\ mig' = [mig EXCEPT !.step = "install", !.i = 1]
              /\ UNCHANGED <<placed, excuses>>
            BY <2>12 DEF MarkMigrated, Shape, FileTypes, MigTypes, history
        <3>2. DOMAIN overlays = 1 .. Len(overlays) /\ Len(overlays) \in Nat
            BY Start, FilesConstants DEF Shape, FileTypes, OriginTypes
        <3>3. AllDone
            BY <3>1, <3>2 DEF LegacyHeld, OneByOne, AllDone
        <3>4. mig'.step # "overlays"
            BY <3>1 DEF Shape, FileTypes, MigTypes
        <3>5. AllDone'
            BY <2>1, <2>4, <3>1, <3>3 DEF AllDone, origin
        <3>6. QED
            BY <3>4, <3>5 DEF LegacyHeld, OneByOne
    <2>13. CASE InstallStarter
        <3>1. ~Pending
            BY <2>13, Nones DEF Pending, Shape, FileTypes, MigTypes, Flow, InstallStarter,
               WriteInPlace
        <3>2. mig'.step # "overlays" /\ placed \subseteq placed' /\ excuses \subseteq excuses'
            BY <2>13, Nones DEF Shape, FileTypes, MigTypes, Flow, InstallStarter, WriteInPlace,
               opVars, settings, history
        <3>3. QED
            BY <2>2, <3>1, <3>2
    <2>14. CASE InstallFailed
        <3>1. ~Pending
            BY <2>14, Nones DEF Pending, Shape, FileTypes, MigTypes, Flow, InstallFailed
        <3>2. mig'.step # "overlays" /\ placed \subseteq placed' /\ excuses \subseteq excuses'
            BY <2>14, Nones DEF Shape, FileTypes, MigTypes, Flow, InstallFailed, opVars,
               settings, history
        <3>3. QED
            BY <2>2, <3>1, <3>2
    <2>15. CASE InstallDone
        <3>1. ~Pending
            BY <2>15, Nones DEF Pending, Shape, FileTypes, MigTypes, Flow, InstallDone, WriteInPlace
        <3>2. mig'.step # "overlays" /\ placed \subseteq placed' /\ excuses \subseteq excuses'
            BY <2>15, Nones DEF Shape, FileTypes, MigTypes, Flow, InstallDone, WriteInPlace,
               opVars, settings, history
        <3>3. QED
            BY <2>2, <3>1, <3>2
    <2>16. CASE ChangeSettings
        <3>1. ~Pending
            BY <2>16, Nones DEF Pending, Shape, FileTypes, MigTypes, Flow, ChangeSettings,
               SaveSettings, StartWrite, NewDoc, Ready
        <3>2. mig'.step # "overlays" /\ placed \subseteq placed' /\ excuses \subseteq excuses'
            BY <2>16, Nones DEF Shape, FileTypes, MigTypes, Flow, ChangeSettings, SaveSettings,
               StartWrite, NewDoc, Ready, opVars, settings, history
        <3>3. QED
            BY <2>2, <3>1, <3>2
    <2>17. CASE CommitGain
        <3>1. ~Pending
            BY <2>17, Nones DEF Pending, Shape, FileTypes, MigTypes, Flow, CommitGain, NewDoc, Ready
        <3>2. mig'.step # "overlays" /\ placed \subseteq placed' /\ excuses \subseteq excuses'
            BY <2>17, Nones DEF Shape, FileTypes, MigTypes, Flow, CommitGain, NewDoc, Ready,
               opVars, settings, history
        <3>3. QED
            BY <2>2, <3>1, <3>2
    <2>18. CASE GainTimer
        <3>1. ~Pending
            BY <2>18, Nones DEF Pending, Shape, FileTypes, MigTypes, Flow, GainTimer,
               SaveSettings, StartWrite, Ready
        <3>2. mig'.step # "overlays" /\ placed \subseteq placed' /\ excuses \subseteq excuses'
            BY <2>18, Nones DEF Shape, FileTypes, MigTypes, Flow, GainTimer, SaveSettings,
               StartWrite, Ready, opVars, settings, history
        <3>3. QED
            BY <2>2, <3>1, <3>2
    <2>19. CASE Restore
        <3>1. ~Pending
            BY <2>19, Nones DEF Pending, Shape, FileTypes, MigTypes, Flow, Restore, NotGone, Ready
        <3>2. mig'.step # "overlays" /\ placed \subseteq placed' /\ excuses \subseteq excuses'
            BY <2>19, Nones DEF Shape, FileTypes, MigTypes, Flow, Restore, NotGone, Ready,
               opVars, settings, history
        <3>3. QED
            BY <2>2, <3>1, <3>2
    <2>20. ASSUME NEW f \in Templates, Duplicate(f)
          PROVE  LegacyHeld'
        <3>1. ~Pending
            BY <2>20, Nones DEF Pending, Shape, FileTypes, MigTypes, Flow, Duplicate,
               StartWrite, NewDoc, Ready
        <3>2. mig'.step # "overlays" /\ placed \subseteq placed' /\ excuses \subseteq excuses'
            BY <2>20, Nones DEF Shape, FileTypes, MigTypes, Flow, Duplicate, StartWrite, NewDoc,
               Ready, opVars, settings, history
        <3>3. QED
            BY <2>2, <3>1, <3>2
    <2>21. ASSUME NEW f \in Templates, NEW stem \in Typed, NEW replace \in BOOLEAN,
                  Rename(f, stem, replace)
          PROVE  LegacyHeld'
        <3>1. ~Pending
            BY <2>21, Nones DEF Pending, Shape, FileTypes, MigTypes, Flow, Rename, RenameTarget,
               StartWrite, NewDoc, Ready
        <3>2. mig'.step # "overlays" /\ placed \subseteq placed' /\ excuses \subseteq excuses'
            BY <2>21, Nones DEF Shape, FileTypes, MigTypes, Flow, Rename, RenameTarget,
               StartWrite, NewDoc, Ready, opVars, settings, history
        <3>3. QED
            BY <2>2, <3>1, <3>2
    <2>22. ASSUME NEW f \in Templates, Delete(f)
          PROVE  LegacyHeld'
        <3>1. ~Pending
            BY <2>22, Nones DEF Pending, Shape, FileTypes, MigTypes, Flow, Delete, Unlink,
               Forgotten, Ready
        <3>2. mig'.step # "overlays" /\ placed \subseteq placed' /\ excuses \subseteq excuses'
            BY <2>22, Nones DEF Shape, FileTypes, MigTypes, Flow, Delete, Unlink, Forgotten,
               Ready, opVars, settings, history
        <3>3. QED
            BY <2>2, <3>1, <3>2
    <2>23. ASSUME NEW e \in 1 .. 2, NEW f \in Templates \cup {NoFile}, OpenEditor(e, f)
          PROVE  LegacyHeld'
        <3>1. ~Pending
            BY <2>23, Nones DEF Pending, Shape, FileTypes, MigTypes, Flow, OpenEditor, NewDoc, Ready
        <3>2. mig'.step # "overlays" /\ placed \subseteq placed' /\ excuses \subseteq excuses'
            BY <2>23, Nones DEF Shape, FileTypes, MigTypes, Flow, OpenEditor, NewDoc, Ready,
               opVars, settings, history
        <3>3. QED
            BY <2>2, <3>1, <3>2
    <2>24. ASSUME NEW e \in 1 .. 2, Edit(e)
          PROVE  LegacyHeld'
        <3>1. ~Pending
            BY <2>24, Nones DEF Pending, Shape, FileTypes, MigTypes, Flow, Edit, NewDoc, Ready
        <3>2. mig'.step # "overlays" /\ placed \subseteq placed' /\ excuses \subseteq excuses'
            BY <2>24, Nones DEF Shape, FileTypes, MigTypes, Flow, Edit, NewDoc, Ready, opVars,
               settings, history
        <3>3. QED
            BY <2>2, <3>1, <3>2
    <2>25. ASSUME NEW e \in 1 .. 2, NEW f \in Templates, NEW agreed \in SUBSET Int,
                  EditorSave(e, f, agreed)
          PROVE  LegacyHeld'
        <3>1. ~Pending
            BY <2>25, Nones DEF Pending, Shape, FileTypes, MigTypes, Flow, EditorSave,
               SaveFromEditor, StartWrite, Ready
        <3>2. mig'.step # "overlays" /\ placed \subseteq placed' /\ excuses \subseteq excuses'
            BY <2>25, Nones DEF Shape, FileTypes, MigTypes, Flow, EditorSave, SaveFromEditor,
               StartWrite, Ready, opVars, settings, history
        <3>3. QED
            BY <2>2, <3>1, <3>2
    <2>26. ASSUME NEW e \in 1 .. 2, CloseEditor(e)
          PROVE  LegacyHeld'
        <3>1. ~Pending
            BY <2>26, Nones DEF Pending, Shape, FileTypes, MigTypes, Flow, CloseEditor, Ready
        <3>2. mig'.step # "overlays" /\ placed \subseteq placed' /\ excuses \subseteq excuses'
            BY <2>26, Nones DEF Shape, FileTypes, MigTypes, Flow, CloseEditor, Ready, opVars,
               settings, history
        <3>3. QED
            BY <2>2, <3>1, <3>2
    <2>27. CASE Commit
        <3>1. /\ write # NoWrite
              /\ files' = [files EXCEPT ![write.file] = write.content]
              /\ write' = [write EXCEPT !.step = "replaced"]
              /\ UNCHANGED <<stable, op, mig, proc, placed, excuses>>
            BY <2>27, Nones DEF Commit, Replace, CanReplace
        <3>2. write \in Writes /\ write'.file = write.file /\ write.content = op.doc
            BY <3>1, MarkedWrites DEF Shape, FileTypes, WriteTypes, InFlight
        <3>3. CASE mig.step = "overlays"
            <4>1. op # NoOp
                BY <3>1 DEF Shape, Flow
            <4>2. OneByOne'
                BY <2>1, <2>4, <3>1, <3>2, <3>3 DEF LegacyHeld, OneByOne, origin
            <4>3. AllDone => AllDone'
                BY <2>1, <2>4, <3>1 DEF AllDone, origin
            <4>4. ASSUME Pending PROVE Pending'
                <5>1. write.file \in Templates /\ OldFile(write.file, op.doc)
                    BY <3>3, <4>1 DEF LegacyHeld, OneByOne, OldFile, Shape, FileTypes, MigTypes
                <5>2. \A f \in Templates : \A c : OldFile(f, c) => OldFile(f, c)'
                    BY <2>1, <3>1 DEF OldFile, origin
                <5>3. \A f \in TemplatesDir : files'[f] = files[f] \/ (f = write.file /\ files'[f] = op.doc)
                    BY <2>5, <3>1, <3>2
                <5>4. \A f \in {StarterMark, MigrationMark} : files'[f] = files[f]
                    BY <5>1, <5>3, FileNames DEF TemplatesDir
                <5>5. \A f \in Templates : OldFile(f, files[f])' /\ OldFile(f, stable[f])'
                    BY <3>1, <4>4, <5>1, <5>2, <5>3 DEF Pending, TemplatesDir
                <5>6. QED
                    BY <3>1, <4>4, <5>4, <5>5 DEF Pending
            <4>5. QED
                BY <4>2, <4>3, <4>4 DEF LegacyHeld
        <3>4. CASE mig.step # "overlays"
            <4>1. ~Pending
                BY <3>1, <3>4 DEF Pending, Shape, FileTypes, MigTypes, Flow
            <4>2. QED
                BY <2>2, <3>1, <3>4, <4>1
        <3>5. QED
            BY <3>3, <3>4
    <2>28. ASSUME NEW works \in BOOLEAN, Durable(works)
          PROVE  LegacyHeld'
        <3>1. /\ write # NoWrite /\ placed \subseteq placed'
              /\ UNCHANGED <<files, mig, proc, excuses>>
            BY <2>28, Nones DEF Durable, SyncDirectory
        <3>2. FromDisk
            BY <2>28, <2>5 DEF FromDisk, Durable, SyncDirectory
        <3>3. CASE mig.step = "overlays"
            <4>1. op.kind = "overlay" /\ op # NoOp
                BY <3>1, <3>3, Nones DEF Shape, Flow
            <4>2. op' = NoOp /\ placed' = placed \cup {op.doc}
                BY <2>28, <4>1 DEF Durable
            <4>3. op.doc = LegacyDoc(mig.i - 1) /\ mig.i - 1 \in DOMAIN overlays
                BY <3>3, <4>1 DEF LegacyHeld, OneByOne
            <4>4. Done(mig.i - 1)'
                BY <3>1, <4>2, <4>3 DEF Done
            <4>5. \A j \in DOMAIN overlays : j < mig.i => Done(j)'
                BY <2>4, <3>1, <3>3, <4>2, <4>4 DEF LegacyHeld, OneByOne
            <4>6. OneByOne'
                BY <2>1, <3>1, <4>2, <4>5 DEF OneByOne, origin
            <4>7. AllDone => AllDone'
                BY <2>1, <2>4, <3>1 DEF AllDone, origin
            <4>8. Pending => Pending'
                BY <2>3, <3>1, <3>2, <3>3 DEF Pending
            <4>9. QED
                BY <4>6, <4>7, <4>8 DEF LegacyHeld
        <3>4. CASE mig.step # "overlays"
            <4>1. ~Pending
                BY <3>1, <3>4, Nones DEF Pending, Shape, FileTypes, MigTypes, Flow
            <4>2. QED
                BY <2>2, <3>1, <3>4, <4>1
        <3>5. QED
            BY <3>3, <3>4
    <2>29. CASE RemoveOld
        <3>1. ~Pending
            BY <2>29, Nones DEF Pending, Shape, FileTypes, MigTypes, Flow, RemoveOld, Unlink,
               Forgotten
        <3>2. mig'.step # "overlays" /\ placed \subseteq placed' /\ excuses \subseteq excuses'
            BY <2>29, Nones DEF Shape, FileTypes, MigTypes, Flow, RemoveOld, Unlink, Forgotten,
               opVars, settings, history
        <3>3. QED
            BY <2>2, <3>1, <3>2
    <2>30. CASE SaveFailed
        <3>1. /\ write # NoWrite /\ placed \subseteq placed'
              /\ UNCHANGED <<files, stable, mig, proc, excuses>>
            BY <2>30, Nones DEF SaveFailed, WriteFailed
        <3>2. FromDisk
            BY <3>1 DEF FromDisk
        <3>3. CASE mig.step = "overlays"
            <4>1. op.kind = "overlay" /\ op # NoOp
                BY <3>1, <3>3, Nones DEF Shape, Flow
            <4>2. op' = NoOp /\ placed' = placed \cup {op.doc}
                BY <2>30, <4>1 DEF SaveFailed
            <4>3. op.doc = LegacyDoc(mig.i - 1) /\ mig.i - 1 \in DOMAIN overlays
                BY <3>3, <4>1 DEF LegacyHeld, OneByOne
            <4>4. Done(mig.i - 1)'
                BY <3>1, <4>2, <4>3 DEF Done
            <4>5. \A j \in DOMAIN overlays : j < mig.i => Done(j)'
                BY <2>4, <3>1, <3>3, <4>2, <4>4 DEF LegacyHeld, OneByOne
            <4>6. OneByOne'
                BY <2>1, <3>1, <4>2, <4>5 DEF OneByOne, origin
            <4>7. AllDone => AllDone'
                BY <2>1, <2>4, <3>1 DEF AllDone, origin
            <4>8. Pending => Pending'
                BY <2>3, <3>1, <3>2, <3>3 DEF Pending
            <4>9. QED
                BY <4>6, <4>7, <4>8 DEF LegacyHeld
        <3>4. CASE mig.step # "overlays"
            <4>1. ~Pending
                BY <3>1, <3>4, Nones DEF Pending, Shape, FileTypes, MigTypes, Flow
            <4>2. QED
                BY <2>2, <3>1, <3>4, <4>1
        <3>5. QED
            BY <3>3, <3>4
    <2>31. CASE RemoteList
        <3>1. ~Pending
            BY <2>31, Nones DEF Pending, Shape, FileTypes, MigTypes, Flow, RemoteList, LoseTemp
        <3>2. mig'.step # "overlays" /\ placed \subseteq placed' /\ excuses \subseteq excuses'
            BY <2>31, Nones DEF Shape, FileTypes, MigTypes, Flow, RemoteList, LoseTemp, opVars,
               settings, history
        <3>3. QED
            BY <2>2, <3>1, <3>2
    <2>32. CASE Minute
        <3>1. /\ UNCHANGED <<files, stable, op, mig, proc, placed, excuses>>
              /\ write' \in {write, [write EXCEPT !.old = TRUE]}
              /\ write = NoWrite => write' = write
            BY <2>32, Nones DEF Minute, MinutePasses, history
        <3>2. FromDisk
            BY <3>1 DEF FromDisk
        <3>3. write'.file = write.file
            BY <3>1, MarkedWrites DEF Shape, FileTypes, WriteTypes
        <3>4. Pending => Pending'
            BY <2>3, <3>1, <3>2 DEF Pending
        <3>5. AllDone => AllDone'
            BY <2>1, <2>4, <3>1 DEF AllDone, origin
        <3>6. OneByOne'
            BY <2>1, <2>4, <3>1, <3>3 DEF LegacyHeld, OneByOne, origin
        <3>7. QED
            BY <3>4, <3>5, <3>6 DEF LegacyHeld
    <2>33. CASE CacheWrittenBack
        <3>1. /\ proc' \in {"down", "loading", "migrating"} /\ mig'.step \in {"idle", "check"}
              /\ placed \subseteq placed' /\ excuses \subseteq excuses'
            BY <2>33, Nones DEF Shape, FileTypes, MigTypes, Flow, CacheWrittenBack, WriteBack,
               opVars, settings, history
        <3>2. FromDisk
            BY <2>33, <2>5 DEF FromDisk, CacheWrittenBack, WriteBack, diskVars
        <3>3. Remembered
            BY <2>33, Nones DEF Remembered, Shape, FileTypes, MigTypes, Flow, CacheWrittenBack,
               WriteBack
        <3>4. QED
            BY <2>2, <2>3, <3>1, <3>2, <3>3 DEF Pending, Remembered
    <2>34. CASE HandEdit
        <3>1. /\ proc' \in {"down", "loading", "migrating"} /\ mig'.step \in {"idle", "check"}
              /\ placed \subseteq placed' /\ excuses \subseteq excuses'
            BY <2>34, Nones DEF Shape, FileTypes, MigTypes, Flow, HandEdit, opVars, settings,
               history
        <3>2. FromDisk
            BY <2>34, <2>5 DEF FromDisk, HandEdit, diskVars
        <3>3. Remembered
            BY <2>34, Nones DEF Remembered, Shape, FileTypes, MigTypes, Flow, HandEdit
        <3>4. QED
            BY <2>2, <2>3, <3>1, <3>2, <3>3 DEF Pending, Remembered
    <2>35. CASE Quit
        <3>1. ~Pending
            BY <2>35, Nones DEF Pending, Shape, FileTypes, MigTypes, Flow, Quit, SaveSettings,
               StartWrite, Ready
        <3>2. mig'.step # "overlays" /\ placed \subseteq placed' /\ excuses \subseteq excuses'
            BY <2>35, Nones DEF Shape, FileTypes, MigTypes, Flow, Quit, SaveSettings,
               StartWrite, Ready, opVars, settings, history
        <3>3. QED
            BY <2>2, <3>1, <3>2
    <2>36. CASE Exit
        <3>1. ~Pending
            BY <2>36, Nones DEF Pending, Shape, FileTypes, MigTypes, Flow, Exit, Stopped
        <3>2. mig'.step # "overlays" /\ placed \subseteq placed' /\ excuses \subseteq excuses'
            BY <2>36, Nones DEF Shape, FileTypes, MigTypes, Flow, Exit, Stopped, opVars,
               settings, history
        <3>3. QED
            BY <2>2, <3>1, <3>2
    <2>37. CASE Kill
        <3>1. /\ proc' \in {"down", "loading", "migrating"} /\ mig'.step \in {"idle", "check"}
              /\ placed \subseteq placed' /\ excuses \subseteq excuses'
            BY <2>37, Nones DEF Shape, FileTypes, MigTypes, Flow, Kill, Stopped, DiskKill,
               opVars, settings, history
        <3>2. FromDisk
            BY <2>37, <2>5 DEF FromDisk, Kill, Stopped, DiskKill, diskVars
        <3>3. Remembered
            BY <2>37, Nones DEF Remembered, Shape, FileTypes, MigTypes, Flow, Kill, Stopped,
               DiskKill
        <3>4. QED
            BY <2>2, <2>3, <3>1, <3>2, <3>3 DEF Pending, Remembered
    <2>38. CASE PowerLoss
        <3>1. /\ proc' \in {"down", "loading", "migrating"} /\ mig'.step \in {"idle", "check"}
              /\ placed \subseteq placed' /\ excuses \subseteq excuses'
            BY <2>38, Nones DEF Shape, FileTypes, MigTypes, Flow, PowerLoss, Stopped,
               DiskPowerLoss, opVars, settings, history
        <3>2. FromDisk
            BY <2>38, <2>5 DEF FromDisk, PowerLoss, Stopped, DiskPowerLoss, diskVars
        <3>3. Remembered
            BY <2>38, Nones DEF Remembered, Shape, FileTypes, MigTypes, Flow, PowerLoss,
               Stopped, DiskPowerLoss
        <3>4. QED
            BY <2>2, <2>3, <3>1, <3>2, <3>3 DEF Pending, Remembered
    <2>39. CASE UNCHANGED filesVars
        <3>1. UNCHANGED <<files, stable, write, proc, mig, op, placed, excuses, start, overlays>>
            BY <2>39 DEF filesVars, diskVars, history, origin
        <3>2. (AllDone \/ Pending)' <=> (AllDone \/ Pending)
            BY <3>1 DEF AllDone, Done, Excused, Pending, OldFile
        <3>3. OneByOne'
            BY <3>1, <2>4 DEF LegacyHeld, OneByOne
        <3>4. QED
            BY <3>2, <3>3 DEF LegacyHeld
    <2>40. QED
        <3>1. CASE Startup
            BY <3>1, <2>6, <2>7, <2>8, <2>9 DEF Startup
        <3>2. CASE Installation
            BY <3>2, <2>10, <2>11, <2>12, <2>13, <2>14, <2>15 DEF Installation
        <3>3. CASE GalleryStep
            BY <3>3, <2>20, <2>21 DEF GalleryStep, Chosen
        <3>4. ASSUME NEW e \in 1 .. 2, EditorStep(e) PROVE LegacyHeld'
            <4>1. ASSUME NEW stem \in Typed, NEW replace \in BOOLEAN,
                         Save(e, "mine") \/ SaveAs(e, stem, replace)
                  PROVE  LegacyHeld'
                BY <4>1, <2>25, EditorSaves
            <4>2. "mine" \in Typed /\ TRUE \in BOOLEAN
                BY DEF Typed
            <4>3. QED
                BY <3>4, <4>1, <4>2, <2>23, <2>24, <2>26 DEF EditorStep, Chosen
        <3>5. CASE WriteStep
            BY <3>5, <2>27, <2>28, <2>29, <2>30 DEF WriteStep
        <3>6. CASE World
            BY <3>6, <2>31, <2>32, <2>33, <2>34, <2>35, <2>36, <2>37, <2>38 DEF World
        <3>7. QED
            BY <3>1, <3>2, <3>3, <3>4, <3>5, <3>6, <2>16, <2>17, <2>18, <2>19, <2>22, <2>39
               DEF FilesNext
<1>3. QED
    BY <1>1, <1>2, FilesShape, FilesInFlight, PTL DEF FilesSpec

\* What keeps a deleted file away: the marker on the platter and for readers,
\* no installation that takes the pack for missing, and none that restores it.
DeletedHeld ==
    /\ stable[StarterMark] # Absent => files[StarterMark] # Absent
    /\ \A g \in gone : g[2] =>
          /\ files[g[1]] = Absent /\ stable[StarterMark] # Absent
          /\ ~(proc = "migrating" /\ mig.step \in {"overlays", "install"})
          /\ proc = "restoring" => g[1] \notin StarterSet \X {1}

\* What most steps do: no deleted file returns, the marker stays, no
\* installation begins.
NoneBack == gone' \subseteq gone /\ \A g \in gone' : files'[g[1]] \in {files[g[1]], Absent}
MarkStays ==
    /\ stable[StarterMark] # Absent /\ files[StarterMark] # Absent
          => stable'[StarterMark] # Absent
    /\ stable'[StarterMark] # Absent => files'[StarterMark] # Absent
NoInstall ==
    /\ proc' = "migrating" /\ mig'.step \in {"overlays", "install"}
          => proc = "migrating" /\ mig.step \in {"overlays", "install"}
    /\ proc' = "restoring" => proc = "restoring"

\* Deleting a template, from the gallery or as the end of a rename.
LEMMA DeletedFile ==
    ASSUME NEW f \in Templates, DeletedHeld,
           Templates \subseteq AllFiles, StarterMark \in AllFiles \ Templates, files \in [AllFiles -> Int],
           stable[StarterMark] \in {0, 1}, \A g \in gone : g[1] \in Templates,
           files' = [files EXCEPT ![f] = Absent], gone' = Forgotten(f),
           UNCHANGED <<stable, proc, mig>>, proc \notin {"migrating", "restoring"}
    PROVE  DeletedHeld'
PROOF
<1> DEFINE b == stable[StarterMark] = Pristine
<1>1. ASSUME NEW g \in gone', g \notin gone PROVE g[1] = f /\ (g[2] => stable[StarterMark] # Absent)
    <2>1. g = <<f, b>>
        BY <1>1 DEF Forgotten
    <2>2. b => stable[StarterMark] # Absent
        BY DEF Pristine, Absent
    <2> HIDE DEF b
    <2>3. g[1] = f
        BY <2>1
    <2>4. g[2] => b
        BY <2>1
    <2>5. QED
        BY <2>2, <2>3, <2>4
<1>2. files'[StarterMark] = files[StarterMark] /\ files'[f] = Absent
    OBVIOUS
<1>3. \A g \in gone : files'[g[1]] \in {files[g[1]], Absent}
    OBVIOUS
<1>4. QED
    BY <1>1, <1>2, <1>3 DEF DeletedHeld

\* A deleted template stays away, with the marker that keeps it away.
THEOREM FilesDeleted == FilesSpec => []DeletedHeld
PROOF
<1>1. FilesInit => DeletedHeld
    BY DEF FilesInit, DiskInit, DeletedHeld
<1>2. Shape /\ DeletedHeld /\ [FilesNext]_filesVars => DeletedHeld'
    <2> SUFFICES ASSUME Shape, DeletedHeld, [FilesNext]_filesVars PROVE DeletedHeld'
        OBVIOUS
    <2>1. /\ files \in [AllFiles -> Int] /\ stable \in [AllFiles -> Int] /\ Names = AllFiles
          /\ \A g \in gone : g[1] \in Templates
          /\ \A f \in Templates : f \in AllFiles /\ f \notin {StarterMark, MigrationMark, Config, Corrupt}
          /\ StarterMark \in AllFiles /\ StarterMark \in TemplatesDir \ ConfigDir
          /\ StarterMark \notin {Config, Corrupt, MigrationMark}
          /\ \A f \in AllFiles : files[f] \in Int /\ stable[f] \in Int
        BY FileNames DEF Shape, FileTypes, DiskTypes, HistoryTypes, ConfigDir, TemplatesDir
    <2>2. ASSUME NoneBack, MarkStays, NoInstall PROVE DeletedHeld'
        BY <2>2 DEF DeletedHeld, NoneBack, MarkStays, NoInstall
    <2>3. WriteTypes /\ OpTypes /\ files[StarterMark] \in {0, 1} /\ stable[StarterMark] \in {0, 1}
        BY DEF Shape, FileTypes, DiskTypes
    <2>4. CASE Launch
        <3>1. NoneBack
            BY <2>4, <2>1 DEF NoneBack, Launch, diskVars, history
        <3>2. MarkStays
            BY <2>4, <2>1 DEF MarkStays, Launch, diskVars, DeletedHeld
        <3>3. NoInstall
            BY <2>4, Nones DEF NoInstall, Launch, Shape, FileTypes, MigTypes, Flow
        <3>4. QED
            BY <2>2, <3>1, <3>2, <3>3
    <2>5. CASE LoadGood
        <3>1. NoneBack
            BY <2>5, <2>1 DEF NoneBack, LoadGood, Loaded, diskVars, history
        <3>2. MarkStays
            BY <2>5, <2>1 DEF MarkStays, LoadGood, Loaded, diskVars, DeletedHeld
        <3>3. NoInstall
            BY <2>5, Nones DEF NoInstall, LoadGood, Loaded, Shape, FileTypes, MigTypes, Flow
        <3>4. QED
            BY <2>2, <3>1, <3>2, <3>3
    <2>6. CASE LoadBroken
        <3>1. NoneBack
            BY <2>6, <2>1 DEF NoneBack, LoadBroken, Loaded, diskVars, history
        <3>2. MarkStays
            BY <2>6, <2>1 DEF MarkStays, LoadBroken, Loaded, diskVars, DeletedHeld
        <3>3. NoInstall
            BY <2>6, Nones DEF NoInstall, LoadBroken, Loaded, Shape, FileTypes, MigTypes, Flow
        <3>4. QED
            BY <2>2, <3>1, <3>2, <3>3
    <2>7. CASE LoadFailed
        <3>1. NoneBack
            BY <2>7, <2>1 DEF NoneBack, LoadFailed, Loaded, Exists, diskVars, history
        <3>2. MarkStays
            BY <2>7, <2>1 DEF MarkStays, LoadFailed, Loaded, Exists, diskVars, DeletedHeld
        <3>3. NoInstall
            BY <2>7, Nones DEF NoInstall, LoadFailed, Loaded, Exists, Shape, FileTypes,
               MigTypes, Flow
        <3>4. QED
            BY <2>2, <3>1, <3>2, <3>3
    <2>8. CASE MigrationCheck
        <3>1. UNCHANGED <<files, stable, gone>>
            BY <2>8 DEF MigrationCheck, diskVars, history
        <3>2. CASE Installed
            BY <2>8, <3>1, <3>2, Nones DEF DeletedHeld, MigrationCheck
        <3>3. CASE ~Installed
            <4>1. stable[StarterMark] = Absent
                BY <3>3 DEF DeletedHeld, Installed, Exists
            <4>2. QED
                BY <3>1, <4>1 DEF DeletedHeld
        <3>4. QED
            BY <3>2, <3>3
    <2>9. CASE MigrateOverlay
        <3>1. NoneBack
            BY <2>9, <2>1 DEF NoneBack, MigrateOverlay, StartWrite, diskVars, history
        <3>2. MarkStays
            BY <2>9, <2>1 DEF MarkStays, MigrateOverlay, StartWrite, diskVars, DeletedHeld
        <3>3. NoInstall
            BY <2>9, Nones DEF NoInstall, MigrateOverlay, StartWrite, Shape, FileTypes,
               MigTypes, Flow
        <3>4. QED
            BY <2>2, <3>1, <3>2, <3>3
    <2>10. CASE MarkMigrated
        <3>1. NoneBack
            BY <2>10, <2>1 DEF NoneBack, MarkMigrated, WriteInPlace, diskVars, history
        <3>2. MarkStays
            BY <2>10, <2>1 DEF MarkStays, MarkMigrated, WriteInPlace, diskVars, DeletedHeld
        <3>3. NoInstall
            BY <2>10, Nones DEF NoInstall, MarkMigrated, WriteInPlace, Shape, FileTypes,
               MigTypes, Flow
        <3>4. QED
            BY <2>2, <3>1, <3>2, <3>3
    <2>11. CASE InstallStarter
        <3> DEFINE f == StarterFile(mig.i)
        <3>1. f \in Templates /\ f \in StarterSet \X {1}
            BY <2>11, TemplateNames, FilesConstants DEF Shape, FileTypes, MigTypes, Flow,
               InstallStarter, StarterFile
        <3>2. UNCHANGED <<stable, gone, proc>> /\ mig.step = "install"
            BY <2>11 DEF InstallStarter, WriteInPlace, diskVars, history
        <3>3. mig'.step = "install"
            BY <2>11 DEF InstallStarter, Shape, FileTypes, MigTypes
        <3>4. files' = files \/ files' = [files EXCEPT ![f] = Pristine]
            BY <2>11 DEF InstallStarter, WriteInPlace, diskVars
        <3>5. files'[StarterMark] = files[StarterMark]
            BY <2>1, <3>1, <3>4
        <3>6. ASSUME NEW g \in gone, g[2] PROVE files'[g[1]] = Absent
            <4>1. proc = "restoring"
                BY <3>2, <3>6 DEF DeletedHeld, Shape, FileTypes, MigTypes, Flow, NoMigration
            <4>2. g[1] # f /\ files[g[1]] = Absent
                BY <3>1, <3>6, <4>1 DEF DeletedHeld
            <4>3. QED
                BY <2>1, <3>4, <4>2
        <3>7. QED
            BY <3>2, <3>3, <3>5, <3>6 DEF DeletedHeld
    <2>12. CASE InstallFailed
        <3>1. NoneBack
            BY <2>12, <2>1 DEF NoneBack, InstallFailed, diskVars, history
        <3>2. MarkStays
            BY <2>12, <2>1 DEF MarkStays, InstallFailed, diskVars, DeletedHeld
        <3>3. NoInstall
            BY <2>12, Nones DEF NoInstall, InstallFailed, Shape, FileTypes, MigTypes, Flow
        <3>4. QED
            BY <2>2, <3>1, <3>2, <3>3
    <2>13. CASE InstallDone
        <3>1. /\ UNCHANGED <<stable, gone>> /\ mig.step = "install" /\ proc' = "up"
              /\ files' = files \/ files' = [files EXCEPT ![StarterMark] = Pristine]
            BY <2>13 DEF InstallDone, WriteInPlace, diskVars, history
        <3>2. \A g \in gone : files'[g[1]] = files[g[1]]
            BY <2>1, <3>1
        <3>3. files[StarterMark] # Absent => files'[StarterMark] # Absent
            BY <2>1, <3>1 DEF Pristine, Absent
        <3>4. QED
            BY <3>1, <3>2, <3>3 DEF DeletedHeld
    <2>14. CASE ChangeSettings
        <3>1. NoneBack
            BY <2>14, <2>1 DEF NoneBack, ChangeSettings, SaveSettings, StartWrite, NewDoc,
               Ready, diskVars, history
        <3>2. MarkStays
            BY <2>14, <2>1 DEF MarkStays, ChangeSettings, SaveSettings, StartWrite, NewDoc,
               Ready, diskVars, DeletedHeld
        <3>3. NoInstall
            BY <2>14, Nones DEF NoInstall, ChangeSettings, SaveSettings, StartWrite, NewDoc,
               Ready, Shape, FileTypes, MigTypes, Flow
        <3>4. QED
            BY <2>2, <3>1, <3>2, <3>3
    <2>15. CASE CommitGain
        <3>1. NoneBack
            BY <2>15, <2>1 DEF NoneBack, CommitGain, NewDoc, Ready, diskVars, history
        <3>2. MarkStays
            BY <2>15, <2>1 DEF MarkStays, CommitGain, NewDoc, Ready, diskVars, DeletedHeld
        <3>3. NoInstall
            BY <2>15, Nones DEF NoInstall, CommitGain, NewDoc, Ready, Shape, FileTypes,
               MigTypes, Flow
        <3>4. QED
            BY <2>2, <3>1, <3>2, <3>3
    <2>16. CASE GainTimer
        <3>1. NoneBack
            BY <2>16, <2>1 DEF NoneBack, GainTimer, SaveSettings, StartWrite, Ready, diskVars,
               history
        <3>2. MarkStays
            BY <2>16, <2>1 DEF MarkStays, GainTimer, SaveSettings, StartWrite, Ready, diskVars,
               DeletedHeld
        <3>3. NoInstall
            BY <2>16, Nones DEF NoInstall, GainTimer, SaveSettings, StartWrite, Ready, Shape,
               FileTypes, MigTypes, Flow
        <3>4. QED
            BY <2>2, <3>1, <3>2, <3>3
    <2>17. CASE Restore
        <3>1. UNCHANGED <<files, stable>> /\ proc' = "restoring"
            BY <2>17 DEF Restore, diskVars
        <3>2. gone' \subseteq gone /\ \A g \in gone' : g[1] \notin StarterSet \X {1}
            BY <2>17 DEF Restore, NotGone
        <3>3. QED
            BY <3>1, <3>2 DEF DeletedHeld
    <2>18. ASSUME NEW f \in Templates, Duplicate(f)
          PROVE  DeletedHeld'
        <3>1. NoneBack
            BY <2>18, <2>1 DEF NoneBack, Duplicate, StartWrite, NewDoc, Ready, diskVars, history
        <3>2. MarkStays
            BY <2>18, <2>1 DEF MarkStays, Duplicate, StartWrite, NewDoc, Ready, diskVars,
               DeletedHeld
        <3>3. NoInstall
            BY <2>18, Nones DEF NoInstall, Duplicate, StartWrite, NewDoc, Ready, Shape,
               FileTypes, MigTypes, Flow
        <3>4. QED
            BY <2>2, <3>1, <3>2, <3>3
    <2>19. ASSUME NEW f \in Templates, NEW stem \in Typed, NEW replace \in BOOLEAN,
                  Rename(f, stem, replace)
          PROVE  DeletedHeld'
        <3>1. NoneBack
            BY <2>19, <2>1 DEF NoneBack, Rename, RenameTarget, StartWrite, NewDoc, Ready,
               diskVars, history
        <3>2. MarkStays
            BY <2>19, <2>1 DEF MarkStays, Rename, RenameTarget, StartWrite, NewDoc, Ready,
               diskVars, DeletedHeld
        <3>3. NoInstall
            BY <2>19, Nones DEF NoInstall, Rename, RenameTarget, StartWrite, NewDoc, Ready,
               Shape, FileTypes, MigTypes, Flow
        <3>4. QED
            BY <2>2, <3>1, <3>2, <3>3
    <2>20. ASSUME NEW f \in Templates, Delete(f)
          PROVE  DeletedHeld'
        <3>1. /\ UNCHANGED <<stable, proc, mig>> /\ proc = "up"
              /\ files' = [files EXCEPT ![f] = Absent] /\ gone' = Forgotten(f)
            BY <2>20 DEF Delete, Unlink, Ready
        <3>2. QED
            BY <2>1, <2>3, <3>1, DeletedFile, FileNames
    <2>21. ASSUME NEW e \in 1 .. 2, NEW f \in Templates \cup {NoFile}, OpenEditor(e, f)
          PROVE  DeletedHeld'
        <3>1. NoneBack
            BY <2>21, <2>1 DEF NoneBack, OpenEditor, NewDoc, Ready, diskVars, history
        <3>2. MarkStays
            BY <2>21, <2>1 DEF MarkStays, OpenEditor, NewDoc, Ready, diskVars, DeletedHeld
        <3>3. NoInstall
            BY <2>21, Nones DEF NoInstall, OpenEditor, NewDoc, Ready, Shape, FileTypes,
               MigTypes, Flow
        <3>4. QED
            BY <2>2, <3>1, <3>2, <3>3
    <2>22. ASSUME NEW e \in 1 .. 2, Edit(e)
          PROVE  DeletedHeld'
        <3>1. NoneBack
            BY <2>22, <2>1 DEF NoneBack, Edit, NewDoc, Ready, diskVars, history
        <3>2. MarkStays
            BY <2>22, <2>1 DEF MarkStays, Edit, NewDoc, Ready, diskVars, DeletedHeld
        <3>3. NoInstall
            BY <2>22, Nones DEF NoInstall, Edit, NewDoc, Ready, Shape, FileTypes, MigTypes, Flow
        <3>4. QED
            BY <2>2, <3>1, <3>2, <3>3
    <2>23. ASSUME NEW e \in 1 .. 2, NEW f \in Templates, NEW agreed \in SUBSET Int,
                  EditorSave(e, f, agreed)
          PROVE  DeletedHeld'
        <3>1. NoneBack
            BY <2>23, <2>1 DEF NoneBack, EditorSave, SaveFromEditor, StartWrite, Ready,
               diskVars, history
        <3>2. MarkStays
            BY <2>23, <2>1 DEF MarkStays, EditorSave, SaveFromEditor, StartWrite, Ready,
               diskVars, DeletedHeld
        <3>3. NoInstall
            BY <2>23, Nones DEF NoInstall, EditorSave, SaveFromEditor, StartWrite, Ready, Shape,
               FileTypes, MigTypes, Flow
        <3>4. QED
            BY <2>2, <3>1, <3>2, <3>3
    <2>24. ASSUME NEW e \in 1 .. 2, CloseEditor(e)
          PROVE  DeletedHeld'
        <3>1. NoneBack
            BY <2>24, <2>1 DEF NoneBack, CloseEditor, Ready, diskVars, history
        <3>2. MarkStays
            BY <2>24, <2>1 DEF MarkStays, CloseEditor, Ready, diskVars, DeletedHeld
        <3>3. NoInstall
            BY <2>24, Nones DEF NoInstall, CloseEditor, Ready, Shape, FileTypes, MigTypes, Flow
        <3>4. QED
            BY <2>2, <3>1, <3>2, <3>3
    <2>25. CASE Commit
        <3>1. /\ write # NoWrite /\ UNCHANGED <<stable, mig, proc>>
              /\ files' = [files EXCEPT ![write.file] = write.content]
              /\ gone' \subseteq gone /\ \A g \in gone' : g[1] # write.file
            BY <2>25, Nones DEF Commit, Replace, CanReplace, NotGone
        <3>2. write.file \in Templates \cup {Config}
            BY <2>3, <3>1, NewWrites DEF WriteTypes
        <3>3. files'[StarterMark] = files[StarterMark]
            BY <2>1, <3>1, <3>2
        <3>4. \A g \in gone' : files'[g[1]] = files[g[1]]
            BY <2>1, <3>1
        <3>5. QED
            BY <3>1, <3>3, <3>4 DEF DeletedHeld
    <2>26. ASSUME NEW works \in BOOLEAN, Durable(works)
          PROVE  DeletedHeld'
        <3>1. NoneBack
            BY <2>26, <2>1 DEF NoneBack, Durable, SyncDirectory, EditorSaved, diskVars, history
        <3>2. MarkStays
            BY <2>26, <2>1 DEF MarkStays, Durable, SyncDirectory, EditorSaved, diskVars, DeletedHeld
        <3>3. NoInstall
            BY <2>26, Nones DEF NoInstall, Durable, SyncDirectory, EditorSaved, Shape,
               FileTypes, MigTypes, Flow
        <3>4. QED
            BY <2>2, <3>1, <3>2, <3>3
    <2>27. CASE RemoveOld
        <3>1. op.from \in Templates /\ proc # "migrating" /\ proc # "restoring"
            BY <2>27, <2>3, Nones, OpFacts DEF OpTypes, RemoveOld, Shape, FileTypes, MigTypes, Flow
        <3>2. UNCHANGED <<stable, proc, mig>>
            BY <2>27 DEF RemoveOld
        <3>3. CASE files' = [files EXCEPT ![op.from] = Absent] /\ gone' = Forgotten(op.from)
            BY <2>1, <2>3, <3>1, <3>2, <3>3, DeletedFile, FileNames
        <3>4. CASE UNCHANGED <<files, gone>>
            BY <3>2, <3>4 DEF DeletedHeld
        <3>5. QED
            BY <2>27, <3>3, <3>4 DEF RemoveOld, Unlink
    <2>28. CASE SaveFailed
        <3>1. NoneBack
            BY <2>28, <2>1 DEF NoneBack, SaveFailed, WriteFailed, diskVars, history
        <3>2. MarkStays
            BY <2>28, <2>1 DEF MarkStays, SaveFailed, WriteFailed, diskVars, DeletedHeld
        <3>3. NoInstall
            BY <2>28, Nones DEF NoInstall, SaveFailed, WriteFailed, Shape, FileTypes, MigTypes, Flow
        <3>4. QED
            BY <2>2, <3>1, <3>2, <3>3
    <2>29. CASE RemoteList
        <3>1. NoneBack
            BY <2>29, <2>1 DEF NoneBack, RemoteList, LoseTemp, diskVars, history
        <3>2. MarkStays
            BY <2>29, <2>1 DEF MarkStays, RemoteList, LoseTemp, diskVars, DeletedHeld
        <3>3. NoInstall
            BY <2>29, Nones DEF NoInstall, RemoteList, LoseTemp, Shape, FileTypes, MigTypes, Flow
        <3>4. QED
            BY <2>2, <3>1, <3>2, <3>3
    <2>30. CASE Minute
        <3>1. NoneBack
            BY <2>30, <2>1 DEF NoneBack, Minute, MinutePasses, diskVars, history
        <3>2. MarkStays
            BY <2>30, <2>1 DEF MarkStays, Minute, MinutePasses, diskVars, DeletedHeld
        <3>3. NoInstall
            BY <2>30, Nones DEF NoInstall, Minute, MinutePasses, Shape, FileTypes, MigTypes, Flow
        <3>4. QED
            BY <2>2, <3>1, <3>2, <3>3
    <2>31. CASE CacheWrittenBack
        <3>1. NoneBack
            BY <2>31, <2>1 DEF NoneBack, CacheWrittenBack, WriteBack, diskVars, history
        <3>2. MarkStays
            BY <2>31, <2>1 DEF MarkStays, CacheWrittenBack, WriteBack, diskVars, DeletedHeld
        <3>3. NoInstall
            BY <2>31, Nones DEF NoInstall, CacheWrittenBack, WriteBack, Shape, FileTypes,
               MigTypes, Flow
        <3>4. QED
            BY <2>2, <3>1, <3>2, <3>3
    <2>32. CASE HandEdit
        <3>1. NoneBack
            BY <2>32, <2>1 DEF NoneBack, HandEdit, Broken, diskVars, history
        <3>2. MarkStays
            BY <2>32, <2>1 DEF MarkStays, HandEdit, Broken, diskVars, DeletedHeld
        <3>3. NoInstall
            BY <2>32, Nones DEF NoInstall, HandEdit, Broken, Shape, FileTypes, MigTypes, Flow
        <3>4. QED
            BY <2>2, <3>1, <3>2, <3>3
    <2>33. CASE Quit
        <3>1. NoneBack
            BY <2>33, <2>1 DEF NoneBack, Quit, SaveSettings, StartWrite, Ready, diskVars, history
        <3>2. MarkStays
            BY <2>33, <2>1 DEF MarkStays, Quit, SaveSettings, StartWrite, Ready, diskVars,
               DeletedHeld
        <3>3. NoInstall
            BY <2>33, Nones DEF NoInstall, Quit, SaveSettings, StartWrite, Ready, Shape,
               FileTypes, MigTypes, Flow
        <3>4. QED
            BY <2>2, <3>1, <3>2, <3>3
    <2>34. CASE Exit
        <3>1. NoneBack
            BY <2>34, <2>1 DEF NoneBack, Exit, Stopped, diskVars, history
        <3>2. MarkStays
            BY <2>34, <2>1 DEF MarkStays, Exit, Stopped, diskVars, DeletedHeld
        <3>3. NoInstall
            BY <2>34, Nones DEF NoInstall, Exit, Stopped, Shape, FileTypes, MigTypes, Flow
        <3>4. QED
            BY <2>2, <3>1, <3>2, <3>3
    <2>35. CASE Kill
        <3>1. NoneBack
            BY <2>35, <2>1 DEF NoneBack, Kill, Stopped, DiskKill, diskVars, history
        <3>2. MarkStays
            BY <2>35, <2>1 DEF MarkStays, Kill, Stopped, DiskKill, diskVars, DeletedHeld
        <3>3. NoInstall
            BY <2>35, Nones DEF NoInstall, Kill, Stopped, DiskKill, Shape, FileTypes, MigTypes, Flow
        <3>4. QED
            BY <2>2, <3>1, <3>2, <3>3
    <2>36. CASE PowerLoss
        <3>1. PICK lost : files' = [h \in AllFiles |-> IF h \in lost THEN stable[h] ELSE files[h]]
            BY <2>36, <2>1 DEF PowerLoss, DiskPowerLoss
        <3>2. stable' = files' /\ proc' = "down"
            BY <2>36 DEF PowerLoss, Stopped, DiskPowerLoss
        <3>3. gone' \subseteq gone /\ \A g \in gone' : files'[g[1]] = Absent
            BY <2>36 DEF PowerLoss
        <3>4. stable[StarterMark] # Absent => files'[StarterMark] # Absent
            BY <2>1, <3>1 DEF DeletedHeld
        <3>5. QED
            BY <3>2, <3>3, <3>4 DEF DeletedHeld
    <2>37. CASE UNCHANGED filesVars
        BY <2>37 DEF DeletedHeld, filesVars, diskVars, history
    <2>38. QED
        <3>1. CASE Startup
            BY <3>1, <2>4, <2>5, <2>6, <2>7 DEF Startup
        <3>2. CASE Installation
            BY <3>2, <2>8, <2>9, <2>10, <2>11, <2>12, <2>13 DEF Installation
        <3>3. CASE GalleryStep
            BY <3>3, <2>18, <2>19 DEF GalleryStep, Chosen
        <3>4. ASSUME NEW e \in 1 .. 2, EditorStep(e) PROVE DeletedHeld'
            <4>1. ASSUME NEW stem \in Typed, NEW replace \in BOOLEAN,
                         Save(e, "mine") \/ SaveAs(e, stem, replace)
                  PROVE  DeletedHeld'
                BY <4>1, <2>23, EditorSaves
            <4>2. "mine" \in Typed /\ TRUE \in BOOLEAN
                BY DEF Typed
            <4>3. QED
                BY <3>4, <4>1, <4>2, <2>21, <2>22, <2>24 DEF EditorStep, Chosen
        <3>5. CASE WriteStep
            BY <3>5, <2>25, <2>26, <2>27, <2>28 DEF WriteStep
        <3>6. CASE World
            BY <3>6, <2>29, <2>30, <2>31, <2>32, <2>33, <2>34, <2>35, <2>36 DEF World
        <3>7. QED
            BY <3>1, <3>2, <3>3, <3>4, <3>5, <3>6, <2>14, <2>15, <2>16, <2>17, <2>20, <2>37
               DEF FilesNext
<1>3. QED
    BY <1>1, <1>2, FilesShape, PTL DEF FilesSpec

\* A launch loses no template and brings none back: every v0.2 overlay is
\* migrated, with the exceptions LegacyMigrated names, and a template deleted
\* from a marked pack stays deleted, through any number of launches, kills
\* and power losses.
THEOREM LaunchesLoseNothing == FilesSpec => []LaunchesKeepTemplates
PROOF
<1>1. Shape /\ LegacyHeld => LegacyMigrated
    <2> SUFFICES ASSUME Shape, LegacyHeld, proc = "up" PROVE AllDone
        BY DEF LegacyMigrated, AllDone, Done, Excused
    <2>1. ~Pending
        BY DEF Pending
    <2>2. QED
        BY <2>1 DEF LegacyHeld
<1>2. DeletedHeld => DeletedStaysDeleted
    BY DEF DeletedHeld, DeletedStaysDeleted
<1>3. QED
    BY <1>1, <1>2, FilesShape, FilesLegacy, FilesDeleted, PTL DEF LaunchesKeepTemplates
=============================================================================
