---------------------------- MODULE MCRxDecoding ----------------------------
(* Recordings for TLC: one image, or two with a gap between them, some of  *)
(* whose syncs are missed; a false candidate; a false header ahead.        *)
(* And an image of every mode from the encoder, which shares no state with *)
(* the receiver: it runs beside one recording, before that is played.      *)
EXTENDS RxDecoding, Encoder

Body == Lines * Period
Image(at, family, missed) == [at |-> at, family |-> family, missed |-> missed]
PulsesOf(i) == {i.at + VisLength + Before(i.family) + (n - 1) * Period :
                  n \in (1 .. Lines) \ i.missed}

Recording(images, spurious, noise, upsets) ==
    [headers |-> {[at |-> i.at, family |-> i.family] : i \in images}
                   \cup {[at |-> n, family |-> "none"] : n \in noise},
     pulses |-> UNION {PulsesOf(i) : i \in images} \cup spurious,
     images |-> images, spurious |-> spurious, upsets |-> upsets,
     end |-> Max({i.at + VisLength + Body : i \in images}) + 14]

Families == {"scottie", "martin", "robot", "pd", "wraase", "pasokon"}
FirstAt == 4
Behind(gap) == FirstAt + VisLength + Body + gap
FalseAt == {FirstAt + VisLength + o : o \in {0, 4, 10, 14, 18, 20}}

\* One image with every pattern of up to two faults.
Faulty ==
    {Recording({Image(FirstAt, family, m)}, s, {}, 0) :
        family \in Families, m \in {n \in SUBSET (1 .. Lines) : Cardinality(n) < 3},
        s \in {{}} \cup {{x} : x \in FalseAt}}
\* Two images close together, a false header tight before the first.
Pairs ==
    {Recording({Image(FirstAt, family, m), Image(Behind(gap), other, {})}, {}, noise, 0) :
        family \in {"scottie", "robot"}, other \in {"martin", "scottie"},
        m \in {n \in SUBSET (1 .. Lines) : Cardinality(n) < 3},
        gap \in {0, 3}, noise \in {{}, {2}}}
\* A second image long after the first, which may be a dead carrier.
Apart ==
    {Recording({Image(FirstAt, family, m), Image(Behind(40), "martin", {})}, {}, {}, 0) :
        family \in {"scottie", "martin"}, m \in SUBSET (1 .. Lines)}
\* Disturbed receptions.
Disturbed ==
    {Recording({Image(FirstAt, family, m), Image(Behind(gap), "robot", {})}, {}, {}, 1) :
        family \in {"scottie", "pd"}, m \in {{}, {2}, {3}, {2, 3}}, gap \in {0, 3}}
    \cup {Recording({Image(FirstAt, "martin", {}), Image(Behind(0), "martin", {})}, {}, {}, 2)}
MCRecordings == Faulty \cup Pairs \cup Apart \cup Disturbed

Bench ==
    /\ pos = 0 /\ asked = 0 /\ meddling = 0
    /\ live /\ incremental /\ grain = 2 /\ audio.upsets = 2
LinkInit == Init /\ EncInit
LinkNext ==
    \/ Bench /\ EncNext /\ UNCHANGED vars
    \/ sending = NoMode /\ Next /\ UNCHANGED encVars
LinkSpec == LinkInit /\ [][LinkNext]_<<vars, encVars>>
=============================================================================
