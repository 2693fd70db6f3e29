---------------------------- MODULE RemoteProofs ----------------------------
(***************************************************************************)
(* That a connection's places are given back whichever way it ends          *)
(* (PlacesGivenBack), that the cached preview is the current frame          *)
(* (PreviewCurrent) and that a page which lost its lease finds out          *)
(* (LostLeaseNoticed), for any number of pages, connections, streams,       *)
(* renders and frames and any backlog; and, in the second half, that the    *)
(* remote operator and the one at the radio keep out of each other's        *)
(* transmissions (NeverBehindLocal, LocalUnharmed, Supervised), for any     *)
(* requests and any number of local transmissions.                          *)
(*                                                                         *)
(* One invariant is about the server (ServerInv), one about the scripts of  *)
(* the pages and the requests they have under way (PageInv).  A step of the *)
(* server moves one thread; what it has to get right about slots, gates and *)
(* deadlines is said once (Settles, Reads), and each action settles.  The   *)
(* transmissions have an invariant of their own, in four parts.             *)
(***************************************************************************)
EXTENDS RemotePage, RemoteTx, FiniteSetTheorems, SequenceTheorems, TLAPS

Threads  == Conns \cup {Gui}
Asks     == FlowSteps \cup {"heartbeat", "frame", "render", "events"}
Telling  == {"telling", "putting", "full", "refill"}
States   == Telling \cup {"none", "headers", "body", "working", "answer", "refused", "gated",
                          "opening", "stream", "closing"}
TxStates == {"idle", "awaiting", "transmitting"}
Events   == [type : {"tx", "rx"}, state : TxStates, held : BOOLEAN]
ThreadRecs == [at : States, page : Pages \cup {None}, ask : Asks \cup {None}, open : BOOLEAN,
               ok : BOOLEAN, event : Nat \cup {None} \cup Events, todo : SUBSET Nat,
               queue : Nat \cup {None}]

ServerTypes ==
    /\ thr \in [Threads -> ThreadRecs]
    /\ perPage \in [Pages -> Int]
    /\ control \in [state : TxStates, holder : Pages \cup {None}]
    /\ frame \in [image : Nat \cup {None}, png : Nat \cup {None}, count : Nat]
    /\ DOMAIN subs \subseteq Nat /\ IsFiniteSet(leaked)

\* Who serves a page knows it; only the control requests tell the viewers.
Roles ==
    \A c \in Conns : /\ Live(c) => thr[c].page \in Pages
                     /\ thr[c].at \in Telling => thr[c].ask \in Posts

ServerInv == ServerTypes /\ Roles /\ SlotsReturned /\ BoundedReading /\ PreviewCurrent

-----------------------------------------------------------------------------
(* Counting connections *)

One(b) == IF b THEN 1 ELSE 0

LEMMA ConnsCount == IsFiniteSet(Conns) /\ MaxConnections \in Nat \ {0} /\ Conns \subseteq Nat
  <1>1. MaxConnections \in Nat \ {0}
    BY ServerAssumption
  <1>2. QED
    BY <1>1, FS_Interval DEF Conns

\* Two sets of connections that differ at one of them at most.
LEMMA CountMoves ==
  ASSUME NEW A \in SUBSET Conns, NEW B \in SUBSET Conns, NEW c, A \ {c} = B \ {c}
  PROVE  /\ Cardinality(A) \in Nat /\ Cardinality(B) \in Nat
         /\ Cardinality(B) = Cardinality(A) + One(c \in B) - One(c \in A)
  <1>1. IsFiniteSet(A) /\ IsFiniteSet(B)
    BY ConnsCount, FS_Subset
  <1>2. Cardinality(A) \in Nat /\ Cardinality(B) \in Nat /\ Cardinality(A \ {c}) \in Nat
    BY <1>1, FS_CardinalityType, FS_RemoveElement
  <1>3. Cardinality(A \ {c}) = Cardinality(A) - One(c \in A)
    <2>1. Cardinality(A \ {c}) = IF c \in A THEN Cardinality(A) - 1 ELSE Cardinality(A)
      BY <1>1, FS_RemoveElement
    <2>2. QED
      BY <1>2, <2>1 DEF One
  <1>4. Cardinality(B \ {c}) = Cardinality(B) - One(c \in B)
    <2>1. Cardinality(B \ {c}) = IF c \in B THEN Cardinality(B) - 1 ELSE Cardinality(B)
      BY <1>1, FS_RemoveElement
    <2>2. QED
      BY <1>2, <2>1 DEF One
  <1>5. Cardinality(B) - One(c \in B) = Cardinality(A) - One(c \in A)
    BY <1>3, <1>4
  <1>6. QED
    BY <1>2, <1>5 DEF One

OnStream(p, c) == thr[c].page = p /\ Streaming(c)

\* The thread of c alone has moved, and took or gave back exactly the places
\* that its move calls for.
Settles(c) ==
    /\ \A d \in Conns \ {c} : thr'[d] = thr[d]
    /\ slots' = slots + One(Live(c)) - One(Live(c)')
    /\ renders' = renders + One(Rendering(c)) - One(Rendering(c)')
    /\ perPage' \in [Pages -> Int]
    /\ \A p \in Pages : perPage'[p] = perPage[p] + One(OnStream(p, c)') - One(OnStream(p, c))

LEMMA SlotsMove ==
  ASSUME SlotsReturned, NEW c \in Conns, Settles(c)
  PROVE  SlotsReturned'
  <1> DEFINE Alive  == {d \in Conns : Live(d)}
             Render == {d \in Conns : Rendering(d)}
             Strm(p) == {d \in Conns : thr[d].page = p /\ Streaming(d)}
  <1>1. \A d \in Conns \ {c} : /\ Live(d)' <=> Live(d)
                               /\ Rendering(d)' <=> Rendering(d)
                               /\ Streaming(d)' <=> Streaming(d)
                               /\ thr'[d].page = thr[d].page
    BY DEF Settles, Live, Rendering, Streaming
  <1>2. slots' = MaxConnections - Cardinality(Alive')
    <2>1. Alive \in SUBSET Conns /\ Alive' \in SUBSET Conns /\ Alive \ {c} = Alive' \ {c}
      BY <1>1
    <2>2. (c \in Alive <=> Live(c)) /\ (c \in Alive' <=> Live(c)')
      OBVIOUS
    <2>3. slots = MaxConnections - Cardinality(Alive)
      BY DEF SlotsReturned
    <2>4. slots' = slots + One(Live(c)) - One(Live(c)')
      BY DEF Settles
    <2> HIDE DEF Alive
    <2>5. /\ Cardinality(Alive) \in Nat /\ Cardinality(Alive') \in Nat
          /\ Cardinality(Alive') = Cardinality(Alive) + One(c \in Alive') - One(c \in Alive)
      BY <2>1, CountMoves
    <2>6. QED
      BY <2>2, <2>3, <2>4, <2>5, ConnsCount DEF One
  <1>3. renders' = MaxRenders - Cardinality(Render')
    <2>1. Render \in SUBSET Conns /\ Render' \in SUBSET Conns /\ Render \ {c} = Render' \ {c}
      BY <1>1
    <2>2. (c \in Render <=> Rendering(c)) /\ (c \in Render' <=> Rendering(c)')
      OBVIOUS
    <2>3. renders = MaxRenders - Cardinality(Render) /\ MaxRenders \in Nat
      BY ServerAssumption DEF SlotsReturned
    <2>4. renders' = renders + One(Rendering(c)) - One(Rendering(c)')
      BY DEF Settles
    <2> HIDE DEF Render
    <2>5. /\ Cardinality(Render) \in Nat /\ Cardinality(Render') \in Nat
          /\ Cardinality(Render') = Cardinality(Render) + One(c \in Render') - One(c \in Render)
      BY <2>1, CountMoves
    <2>6. QED
      BY <2>2, <2>3, <2>4, <2>5 DEF One
  <1>4. ASSUME NEW p \in Pages
        PROVE  perPage'[p] = Cardinality({d \in Conns : thr[d].page = p /\ Streaming(d)}')
    <2> DEFINE A == {d \in Conns : thr[d].page = p /\ Streaming(d)}
    <2>1. A \in SUBSET Conns /\ A' \in SUBSET Conns /\ A \ {c} = A' \ {c}
      BY <1>1
    <2>2. (c \in A <=> OnStream(p, c)) /\ (c \in A' <=> OnStream(p, c)')
      BY DEF OnStream
    <2>3. perPage[p] = Cardinality(A)
      BY DEF SlotsReturned
    <2>4. perPage'[p] = perPage[p] + One(OnStream(p, c)') - One(OnStream(p, c))
      BY DEF Settles
    <2>5. perPage'[p] = Cardinality(A')
      <3> HIDE DEF A
      <3>1. /\ Cardinality(A) \in Nat /\ Cardinality(A') \in Nat
            /\ Cardinality(A') = Cardinality(A) + One(c \in A') - One(c \in A)
        BY <2>1, CountMoves
      <3>2. QED
        BY <2>2, <2>3, <2>4, <3>1 DEF One
    <2>6. QED
      BY <2>5
  <1>5. QED
    BY <1>2, <1>3, <1>4 DEF SlotsReturned

-----------------------------------------------------------------------------
(* What a step of the server has to get right *)

\* The deadline of c is the only one that moves, and it runs while c reads.
Reads(c) ==
    /\ deadlines' \ {c} = deadlines \ {c} /\ late \ {c} \subseteq late'
    /\ c \in deadlines' => c \in Reading'
    /\ c \in Reading' => c \in deadlines' \cup late' \/ ~thr'[c].open

\* A request whose answer the page's script waits for: it is a step of the
\* page's flow that has not been answered.
Flowing(c) == Live(c) /\ thr[c].at # "closing" /\ thr[c].open /\ thr[c].ask \in FlowSteps

\* No request is made up on the server's side, and a thread outlives its socket.
Onward == \A c \in Conns :
    /\ Flowing(c)' => Flowing(c) /\ thr'[c].page = thr[c].page /\ thr'[c].ask = thr[c].ask
    /\ thr'[c].open => thr[c].open /\ (Live(c) => Live(c)')

LEMMA ServerMoves ==
  ASSUME ServerInv, NEW c \in Conns, ServerTypes', Settles(c), Reads(c), PreviewCurrent',
         Live(c)' => thr'[c].page \in Pages,
         thr'[c].at \in Telling => thr'[c].ask \in Posts
  PROVE  ServerInv'
  <1>1. Roles'
    BY DEF ServerInv, Roles, Settles, Live
  <1>2. SlotsReturned'
    BY SlotsMove DEF ServerInv
  <1>3. BoundedReading'
    BY DEF ServerInv, BoundedReading, Reading, Reads, Settles
  <1>4. QED
    BY <1>1, <1>2, <1>3 DEF ServerInv

\* No thread took or gave back anything.
LEMMA ServerRests ==
  ASSUME ServerInv, ServerTypes', PreviewCurrent', UNCHANGED <<slots, renders, perPage, deadlines, late>>,
         \A d \in Conns : thr'[d] = thr[d]
  PROVE  ServerInv'
  <1>1. \A d \in Conns : /\ Live(d)' <=> Live(d)
                         /\ Rendering(d)' <=> Rendering(d)
                         /\ Streaming(d)' <=> Streaming(d)
                         /\ thr'[d].page = thr[d].page
    BY DEF Live, Rendering, Streaming
  <1>2. Roles' /\ BoundedReading'
    BY DEF ServerInv, Roles, Live, BoundedReading, Reading
  <1>3. SlotsReturned'
    BY <1>1 DEF ServerInv, SlotsReturned
  <1>4. QED
    BY <1>2, <1>3 DEF ServerInv

LEMMA ServerStarts == InitServer => ServerInv
  <1> SUFFICES ASSUME InitServer
               PROVE  ServerInv
    OBVIOUS
  <1>1. \A c \in Threads : thr[c] = NoThread
    BY DEF InitServer, Threads
  <1>2. NoThread \in ThreadRecs
    BY DEF NoThread, ThreadRecs, States, Telling
  <1>3. ServerTypes
    BY <1>1, <1>2, FS_EmptySet DEF InitServer, ServerTypes, Threads, Idle, TxStates
  <1>4. \A c \in Conns : thr[c].at = "none"
    BY <1>1 DEF NoThread, Threads
  <1>5. Roles
    BY <1>4 DEF Roles, Live, Telling
  <1>6. SlotsReturned
    <2>1. {c \in Conns : Live(c)} = {} /\ {c \in Conns : Rendering(c)} = {}
          /\ \A p \in Pages : {c \in Conns : thr[c].page = p /\ Streaming(c)} = {}
      BY <1>4 DEF Live, Rendering, Streaming
    <2>2. QED
      BY <2>1, FS_EmptySet, ServerAssumption DEF SlotsReturned, InitServer
  <1>7. BoundedReading /\ PreviewCurrent
    BY <1>4 DEF BoundedReading, Reading, PreviewCurrent, InitServer
  <1>8. QED
    BY <1>3, <1>5, <1>6, <1>7 DEF ServerInv

-----------------------------------------------------------------------------
(* Steps that take one thread further *)

\* Thread t goes on to s, with the same request and the same socket.
Turns(t, s) ==
    /\ \A d \in Threads \ {t} : thr'[d] = thr[d]
    /\ thr'[t].at = s /\ thr'[t].page = thr[t].page /\ thr'[t].ask = thr[t].ask
    /\ thr'[t].open = thr[t].open

LEMMA ConnThreads == Conns \subseteq Threads /\ Gui \in Threads /\ Gui \notin Conns
  BY ServerAssumption DEF Threads, Conns

\* A field of a thread is set to another value it may have.
LEMMA AtSet ==
  ASSUME NEW f \in [Threads -> ThreadRecs], NEW t \in Threads, NEW x \in States
  PROVE  [f EXCEPT ![t].at = x] \in [Threads -> ThreadRecs]
  BY DEF ThreadRecs

LEMMA OkSet ==
  ASSUME NEW f \in [Threads -> ThreadRecs], NEW t \in Threads, NEW x \in BOOLEAN
  PROVE  [f EXCEPT ![t].ok = x] \in [Threads -> ThreadRecs]
  BY DEF ThreadRecs

LEMMA EventSet ==
  ASSUME NEW f \in [Threads -> ThreadRecs], NEW t \in Threads, NEW x \in Nat \cup {None} \cup Events
  PROVE  [f EXCEPT ![t].event = x] \in [Threads -> ThreadRecs]
  BY DEF ThreadRecs

LEMMA TodoSet ==
  ASSUME NEW f \in [Threads -> ThreadRecs], NEW t \in Threads, NEW x \in SUBSET Nat
  PROVE  [f EXCEPT ![t].todo = x] \in [Threads -> ThreadRecs]
  BY DEF ThreadRecs

LEMMA QueueSet ==
  ASSUME NEW f \in [Threads -> ThreadRecs], NEW t \in Threads, NEW x \in Nat \cup {None}
  PROVE  [f EXCEPT ![t].queue = x] \in [Threads -> ThreadRecs]
  BY DEF ThreadRecs

LEMMA OpenSet ==
  ASSUME NEW f \in [Threads -> ThreadRecs], NEW t \in Threads, NEW x \in BOOLEAN
  PROVE  [f EXCEPT ![t].open = x] \in [Threads -> ThreadRecs]
  BY DEF ThreadRecs

LEMMA AtTurns ==
  ASSUME ServerTypes, NEW t \in Threads, NEW s \in States,
         thr' = [thr EXCEPT ![t].at = s]
  PROVE  thr' \in [Threads -> ThreadRecs] /\ Turns(t, s)
  <1>1. thr \in [Threads -> ThreadRecs]
    BY DEF ServerTypes
  <1>2. [thr EXCEPT ![t].at = s] \in [Threads -> ThreadRecs]
    BY <1>1, AtSet
  <1>3. Turns(t, s)
    BY <1>1 DEF ThreadRecs, Turns
  <1>4. QED
    BY <1>2, <1>3

LEMMA AtOkTurns ==
  ASSUME ServerTypes, NEW t \in Threads, NEW s \in States, NEW ok \in BOOLEAN,
         thr' = [thr EXCEPT ![t].at = s, ![t].ok = ok]
  PROVE  thr' \in [Threads -> ThreadRecs] /\ Turns(t, s)
  <1>1. thr \in [Threads -> ThreadRecs]
    BY DEF ServerTypes
  <1>2. [thr EXCEPT ![t].at = s] \in [Threads -> ThreadRecs]
    BY <1>1, AtSet
  <1>3. [[thr EXCEPT ![t].at = s] EXCEPT ![t].ok = ok] \in [Threads -> ThreadRecs]
    BY <1>2, OkSet
  <1>4. Turns(t, s)
    BY <1>1 DEF ThreadRecs, Turns
  <1>5. QED
    BY <1>3, <1>4

LEMMA AtEventTurns ==
  ASSUME ServerTypes, NEW t \in Threads, NEW s \in States, NEW e \in Nat \cup {None} \cup Events,
         thr' = [thr EXCEPT ![t].at = s, ![t].event = e]
  PROVE  thr' \in [Threads -> ThreadRecs] /\ Turns(t, s)
  <1>1. thr \in [Threads -> ThreadRecs]
    BY DEF ServerTypes
  <1>2. [thr EXCEPT ![t].at = s] \in [Threads -> ThreadRecs]
    BY <1>1, AtSet
  <1>3. [[thr EXCEPT ![t].at = s] EXCEPT ![t].event = e] \in [Threads -> ThreadRecs]
    BY <1>2, EventSet
  <1>4. Turns(t, s)
    BY <1>1 DEF ThreadRecs, Turns
  <1>5. QED
    BY <1>3, <1>4

LEMMA AtOkEventTurns ==
  ASSUME ServerTypes, NEW t \in Threads, NEW s \in States, NEW ok \in BOOLEAN, NEW e \in Nat \cup {None} \cup Events,
         thr' = [thr EXCEPT ![t].at = s, ![t].ok = ok, ![t].event = e]
  PROVE  thr' \in [Threads -> ThreadRecs] /\ Turns(t, s)
  <1>1. thr \in [Threads -> ThreadRecs]
    BY DEF ServerTypes
  <1>2. [thr EXCEPT ![t].at = s] \in [Threads -> ThreadRecs]
    BY <1>1, AtSet
  <1>3. [[thr EXCEPT ![t].at = s] EXCEPT ![t].ok = ok] \in [Threads -> ThreadRecs]
    BY <1>2, OkSet
  <1>4. [[[thr EXCEPT ![t].at = s] EXCEPT ![t].ok = ok] EXCEPT ![t].event = e] \in [Threads -> ThreadRecs]
    BY <1>3, EventSet
  <1>5. Turns(t, s)
    BY <1>1 DEF ThreadRecs, Turns
  <1>6. QED
    BY <1>4, <1>5

LEMMA AtEventTodoTurns ==
  ASSUME ServerTypes, NEW t \in Threads, NEW s \in States, NEW e \in Nat \cup {None} \cup Events, NEW todo \in SUBSET Nat,
         thr' = [thr EXCEPT ![t].at = s, ![t].event = e, ![t].todo = todo]
  PROVE  thr' \in [Threads -> ThreadRecs] /\ Turns(t, s)
  <1>1. thr \in [Threads -> ThreadRecs]
    BY DEF ServerTypes
  <1>2. [thr EXCEPT ![t].at = s] \in [Threads -> ThreadRecs]
    BY <1>1, AtSet
  <1>3. [[thr EXCEPT ![t].at = s] EXCEPT ![t].event = e] \in [Threads -> ThreadRecs]
    BY <1>2, EventSet
  <1>4. [[[thr EXCEPT ![t].at = s] EXCEPT ![t].event = e] EXCEPT ![t].todo = todo] \in [Threads -> ThreadRecs]
    BY <1>3, TodoSet
  <1>5. Turns(t, s)
    BY <1>1 DEF ThreadRecs, Turns
  <1>6. QED
    BY <1>4, <1>5

LEMMA AtQueueTurns ==
  ASSUME ServerTypes, NEW t \in Threads, NEW s \in States, NEW q \in Nat \cup {None},
         thr' = [thr EXCEPT ![t].at = s, ![t].queue = q]
  PROVE  thr' \in [Threads -> ThreadRecs] /\ Turns(t, s)
  <1>1. thr \in [Threads -> ThreadRecs]
    BY DEF ServerTypes
  <1>2. [thr EXCEPT ![t].at = s] \in [Threads -> ThreadRecs]
    BY <1>1, AtSet
  <1>3. [[thr EXCEPT ![t].at = s] EXCEPT ![t].queue = q] \in [Threads -> ThreadRecs]
    BY <1>2, QueueSet
  <1>4. Turns(t, s)
    BY <1>1 DEF ThreadRecs, Turns
  <1>5. QED
    BY <1>3, <1>4

LEMMA TodoTurns ==
  ASSUME ServerTypes, NEW t \in Threads, NEW todo \in SUBSET Nat,
         thr' = [thr EXCEPT ![t].todo = todo]
  PROVE  thr' \in [Threads -> ThreadRecs] /\ Turns(t, thr[t].at)
  <1>1. thr \in [Threads -> ThreadRecs]
    BY DEF ServerTypes
  <1>2. [thr EXCEPT ![t].todo = todo] \in [Threads -> ThreadRecs]
    BY <1>1, TodoSet
  <1>3. Turns(t, thr[t].at)
    BY <1>1 DEF ThreadRecs, Turns
  <1>4. QED
    BY <1>2, <1>3

LEMMA AtTodoQueueTurns ==
  ASSUME ServerTypes, NEW t \in Threads, NEW s \in States, NEW todo \in SUBSET Nat, NEW q \in Nat \cup {None},
         thr' = [thr EXCEPT ![t].at = s, ![t].todo = todo, ![t].queue = q]
  PROVE  thr' \in [Threads -> ThreadRecs] /\ Turns(t, s)
  <1>1. thr \in [Threads -> ThreadRecs]
    BY DEF ServerTypes
  <1>2. [thr EXCEPT ![t].at = s] \in [Threads -> ThreadRecs]
    BY <1>1, AtSet
  <1>3. [[thr EXCEPT ![t].at = s] EXCEPT ![t].todo = todo] \in [Threads -> ThreadRecs]
    BY <1>2, TodoSet
  <1>4. [[[thr EXCEPT ![t].at = s] EXCEPT ![t].todo = todo] EXCEPT ![t].queue = q] \in [Threads -> ThreadRecs]
    BY <1>3, QueueSet
  <1>5. Turns(t, s)
    BY <1>1 DEF ThreadRecs, Turns
  <1>6. QED
    BY <1>4, <1>5

\* A connection goes on; its places and its deadline are seen to by the step.
LEMMA Turned ==
  ASSUME ServerInv, NEW c \in Conns, NEW s \in States \ {"none"}, Turns(c, s),
         thr[c].at \notin {"none", "closing"}, s \in Telling => thr[c].ask \in Posts,
         ServerTypes', PreviewCurrent', Reads(c), slots' = slots,
         LET rendering(a) == thr[c].ask \in Composes /\ a \in {"body", "working", "answer"}
         IN  renders' = renders + One(rendering(thr[c].at)) - One(rendering(s)),
         LET streaming(a) == a \in {"gated", "opening", "stream"}
         IN  \A p \in Pages : perPage'[p] = perPage[p]
                + One(thr[c].page = p /\ streaming(s)) - One(thr[c].page = p /\ streaming(thr[c].at))
  PROVE  ServerInv' /\ Onward
  <1>1. /\ \A d \in Conns \ {c} : thr'[d] = thr[d]
        /\ thr'[c].at = s /\ thr'[c].page = thr[c].page /\ thr'[c].ask = thr[c].ask
        /\ thr'[c].open = thr[c].open
    BY ConnThreads DEF Turns
  <1>2. Live(c) /\ Live(c)' /\ slots \in Int
    <2>1. Live(c) /\ Live(c)'
      BY <1>1 DEF Live
    <2>2. {d \in Conns : Live(d)} \in SUBSET Conns
      OBVIOUS
    <2>3. Cardinality({d \in Conns : Live(d)}) \in Nat
      BY <2>2, CountMoves
    <2>4. QED
      BY <2>1, <2>3, ConnsCount DEF ServerInv, SlotsReturned
  <1>3. Settles(c)
    <2>1. slots' = slots + One(Live(c)) - One(Live(c)')
      BY <1>2 DEF One
    <2>2. renders' = renders + One(Rendering(c)) - One(Rendering(c)')
      BY <1>1 DEF Rendering, One
    <2>3. \A p \in Pages : perPage'[p] = perPage[p] + One(OnStream(p, c)') - One(OnStream(p, c))
      BY <1>1 DEF OnStream, Streaming, One
    <2>4. perPage' \in [Pages -> Int]
      BY DEF ServerTypes
    <2>5. QED
      BY <1>1, <2>1, <2>2, <2>3, <2>4 DEF Settles
  <1>4. thr'[c].page \in Pages /\ (thr'[c].at \in Telling => thr'[c].ask \in Posts)
    BY <1>1, <1>2 DEF ServerInv, Roles
  <1>5. Onward
    BY <1>1 DEF Onward, Flowing, Live
  <1>6. QED
    BY <1>3, <1>4, <1>5, ServerMoves

LEMMA RendersInt ==
  ASSUME ServerInv
  PROVE  renders \in Int
  <1>1. {d \in Conns : Rendering(d)} \in SUBSET Conns
    OBVIOUS
  <1>2. Cardinality({d \in Conns : Rendering(d)}) \in Nat
    BY <1>1, CountMoves
  <1>3. QED
    BY <1>2, ServerAssumption DEF ServerInv, SlotsReturned

\* A step that touches no place: neither a slot of a render nor of a stream.
LEMMA TurnedPlain ==
  ASSUME ServerInv, NEW c \in Conns, NEW s \in States \ {"none"}, Turns(c, s),
         thr[c].at \notin {"none", "closing"}, s \in Telling => thr[c].ask \in Posts,
         ServerTypes', PreviewCurrent', Reads(c), UNCHANGED <<slots, renders, perPage>>,
         thr[c].ask \in Composes => /\ thr[c].at \notin {"body", "working", "answer"}
                                    /\ s \notin {"body", "working", "answer"},
         thr[c].at \in {"gated", "opening", "stream"} <=> s \in {"gated", "opening", "stream"}
  PROVE  ServerInv' /\ Onward
  <1>1. renders \in Int /\ \A p \in Pages : perPage[p] \in Int
    BY RendersInt DEF ServerInv, ServerTypes
  <1>2. LET rendering(a) == thr[c].ask \in Composes /\ a \in {"body", "working", "answer"}
        IN  renders' = renders + One(rendering(thr[c].at)) - One(rendering(s))
    BY <1>1 DEF One
  <1>3. LET streaming(a) == a \in {"gated", "opening", "stream"}
        IN  \A p \in Pages : perPage'[p] = perPage[p]
               + One(thr[c].page = p /\ streaming(s)) - One(thr[c].page = p /\ streaming(thr[c].at))
    BY <1>1 DEF One
  <1>4. QED
    BY <1>2, <1>3, Turned

LEMMA ReadsOn ==
  ASSUME ServerInv, NEW c \in Conns, NEW s, Turns(c, s), late' = late,
         \/ deadlines' = deadlines \cup {c} /\ s \in {"headers", "body"}
         \/ deadlines' = deadlines \ {c} /\ s \notin {"headers", "body"}
         \/ deadlines' = deadlines /\ s \notin {"headers", "body"} /\ thr[c].at \notin {"headers", "body"}
  PROVE  Reads(c)
  BY DEF Turns, Reads, Reading, ServerInv, BoundedReading

LEMMA ReadFailsKeeps ==
  ASSUME ServerInv, NEW c \in Conns, ReadFails(c)
  PROVE  ServerInv' /\ Onward
  <1>1. /\ thr[c].at \in {"headers", "body"}
        /\ deadlines' = deadlines \ {c} /\ thr' = [thr EXCEPT ![c].at = "closing"]
        /\ renders' = IF Rendering(c) THEN renders + 1 ELSE renders
        /\ UNCHANGED <<slots, late, perPage, subs, leaked, control, frame>>
    BY DEF ReadFails, Reading
  <1>2. thr' \in [Threads -> ThreadRecs] /\ Turns(c, "closing")
    BY <1>1, ConnThreads, AtTurns DEF ServerInv, States
  <1>3. ServerTypes' /\ PreviewCurrent'
    BY <1>1, <1>2 DEF ServerInv, ServerTypes, PreviewCurrent
  <1>4. Reads(c)
    BY <1>1, <1>2, ReadsOn
  <1>5. LET rendering(a) == thr[c].ask \in Composes /\ a \in {"body", "working", "answer"}
        IN  renders' = renders + One(rendering(thr[c].at)) - One(rendering("closing"))
    BY <1>1, RendersInt DEF Rendering, One
  <1>6. LET streaming(a) == a \in {"gated", "opening", "stream"}
        IN  \A p \in Pages : perPage'[p] = perPage[p]
               + One(thr[c].page = p /\ streaming("closing"))
               - One(thr[c].page = p /\ streaming(thr[c].at))
    BY <1>1 DEF One, ServerInv, ServerTypes
  <1>7. QED
    BY <1>1, <1>2, <1>3, <1>4, <1>5, <1>6, Turned DEF States, Telling

LEMMA RouteControlKeeps ==
  ASSUME ServerInv, NEW c \in Conns, RouteControl(c)
  PROVE  ServerInv' /\ Onward
  <1>1. /\ thr[c].at = "headers" /\ thr[c].ask \in Posts
        /\ deadlines' = deadlines \cup {c} /\ thr' = [thr EXCEPT ![c].at = "body"]
        /\ UNCHANGED <<slots, late, renders, perPage, subs, leaked, control, frame>>
    BY DEF RouteControl
  <1>2. thr' \in [Threads -> ThreadRecs] /\ Turns(c, "body")
    BY <1>1, ConnThreads, AtTurns DEF ServerInv, States
  <1>3. ServerTypes' /\ PreviewCurrent'
    BY <1>1, <1>2 DEF ServerInv, ServerTypes, PreviewCurrent
  <1>4. Reads(c)
    BY <1>1, <1>2, ReadsOn
  <1>5. QED
    BY <1>1, <1>2, <1>3, <1>4, TurnedPlain DEF States, Telling, Posts, Composes

LEMMA RouteComposeKeeps ==
  ASSUME ServerInv, NEW c \in Conns, RouteCompose(c)
  PROVE  ServerInv' /\ Onward
  <1>1. /\ thr[c].at = "headers" /\ thr[c].ask \in Composes
        /\ UNCHANGED <<slots, late, perPage, subs, leaked, control, frame>>
    BY DEF RouteCompose
  <1>2. CASE renders > 0
    <2>1. PICK s \in {"body", "answer"} :
             /\ renders' = renders - 1 /\ thr' \in [Threads -> ThreadRecs] /\ Turns(c, s)
             /\ deadlines' = IF s = "body" THEN deadlines \cup {c} ELSE deadlines \ {c}
      <3>1. CASE thr' = [thr EXCEPT ![c].at = "body"] /\ deadlines' = deadlines \cup {c}
        <4>1. thr' \in [Threads -> ThreadRecs] /\ Turns(c, "body")
          BY <3>1, ConnThreads, AtTurns DEF ServerInv, States
        <4>2. QED
          BY <1>2, <3>1, <4>1 DEF RouteCompose
      <3>2. CASE Headers(c, "answer", FALSE)
        <4>1. thr' = [thr EXCEPT ![c].at = "answer", ![c].ok = FALSE] /\ deadlines' = deadlines \ {c}
          BY <3>2 DEF Headers
        <4>2. thr' \in [Threads -> ThreadRecs] /\ Turns(c, "answer")
          BY <4>1, ConnThreads, AtOkTurns DEF ServerInv, States
        <4>3. QED
          BY <1>2, <4>1, <4>2 DEF RouteCompose
      <3>3. QED
        BY <1>2, <3>1, <3>2 DEF RouteCompose
    <2>2. ServerTypes' /\ PreviewCurrent'
      BY <1>1, <2>1 DEF ServerInv, ServerTypes, PreviewCurrent
    <2>3. Reads(c)
      BY <1>1, <2>1, ReadsOn
    <2>4. LET rendering(a) == thr[c].ask \in Composes /\ a \in {"body", "working", "answer"}
          IN  renders' = renders + One(rendering(thr[c].at)) - One(rendering(s))
      BY <1>1, <2>1, RendersInt DEF One
    <2>5. LET streaming(a) == a \in {"gated", "opening", "stream"}
          IN  \A p \in Pages : perPage'[p] = perPage[p]
                 + One(thr[c].page = p /\ streaming(s))
                 - One(thr[c].page = p /\ streaming(thr[c].at))
      BY <1>1 DEF One, ServerInv, ServerTypes
    <2>6. QED
      BY <1>1, <2>1, <2>2, <2>3, <2>4, <2>5, Turned DEF States, Telling
  <1>3. CASE ~(renders > 0)
    <2>1. /\ thr' = [thr EXCEPT ![c].at = "refused", ![c].ok = FALSE]
          /\ deadlines' = deadlines \ {c} /\ renders' = renders
      BY <1>3 DEF RouteCompose, Headers
    <2>2. thr' \in [Threads -> ThreadRecs] /\ Turns(c, "refused")
      BY <2>1, ConnThreads, AtOkTurns DEF ServerInv, States
    <2>3. ServerTypes' /\ PreviewCurrent'
      BY <1>1, <2>2 DEF ServerInv, ServerTypes, PreviewCurrent
    <2>4. Reads(c)
      BY <1>1, <2>1, <2>2, ReadsOn
    <2>5. QED
      BY <1>1, <2>1, <2>2, <2>3, <2>4, TurnedPlain DEF States, Telling
  <1>4. QED
    BY <1>2, <1>3

LEMMA RouteFrameKeeps ==
  ASSUME ServerInv, NEW c \in Conns, RouteFrame(c)
  PROVE  ServerInv' /\ Onward
  <1>1. /\ thr[c].at = "headers" /\ thr[c].ask = "frame" /\ deadlines' = deadlines \ {c}
        /\ UNCHANGED <<slots, late, renders, perPage, subs, leaked, control, frame>>
    BY DEF RouteFrame
  <1>2. \/ thr' = [thr EXCEPT ![c].at = "answer", ![c].ok = TRUE]
        \/ thr' = [thr EXCEPT ![c].at = "working", ![c].event = frame.image]
    BY DEF RouteFrame
  <1>3. PICK s \in {"answer", "working"} : thr' \in [Threads -> ThreadRecs] /\ Turns(c, s)
    <2>1. CASE thr' = [thr EXCEPT ![c].at = "answer", ![c].ok = TRUE]
      <3>1. thr' \in [Threads -> ThreadRecs] /\ Turns(c, "answer")
        BY <2>1, ConnThreads, AtOkTurns DEF ServerInv, States
      <3>2. QED
        BY <3>1
    <2>2. CASE thr' = [thr EXCEPT ![c].at = "working", ![c].event = frame.image]
      <3>1. frame.image \in Nat \cup {None}
        BY DEF ServerInv, ServerTypes
      <3>2. thr' \in [Threads -> ThreadRecs] /\ Turns(c, "working")
        BY <2>2, <3>1, ConnThreads, AtEventTurns DEF ServerInv, States
      <3>3. QED
        BY <3>2
    <2>3. QED
      BY <1>2, <2>1, <2>2
  <1>4. ServerTypes' /\ PreviewCurrent'
    BY <1>1, <1>3 DEF ServerInv, ServerTypes, PreviewCurrent
  <1>5. Reads(c)
    BY <1>1, <1>3, ReadsOn
  <1>6. QED
    BY <1>1, <1>3, <1>4, <1>5, TurnedPlain DEF States, Telling, Composes

LEMMA EncodeKeeps ==
  ASSUME ServerInv, NEW c \in Conns, Encode(c)
  PROVE  ServerInv' /\ Onward
  <1>1. /\ thr[c].at = "working" /\ thr[c].ask = "frame"
        /\ frame' = IF frame.image = thr[c].event THEN [frame EXCEPT !.png = thr[c].event] ELSE frame
        /\ thr' = [thr EXCEPT ![c].at = "answer", ![c].ok = TRUE, ![c].event = None]
        /\ UNCHANGED <<slots, deadlines, late, renders, perPage, subs, leaked, control>>
    BY DEF Encode
  <1>2. thr' \in [Threads -> ThreadRecs] /\ Turns(c, "answer")
    BY <1>1, ConnThreads, AtOkEventTurns DEF ServerInv, States
  \* The encoded frame is cached only while it is the current one.
  <1>3. frame' \in [image : Nat \cup {None}, png : Nat \cup {None}, count : Nat] /\ PreviewCurrent'
    <2>1. frame \in [image : Nat \cup {None}, png : Nat \cup {None}, count : Nat] /\ PreviewCurrent
      BY DEF ServerInv, ServerTypes
    <2>2. CASE frame.image = thr[c].event
      <3>1. /\ frame' \in [image : Nat \cup {None}, png : Nat \cup {None}, count : Nat]
            /\ frame'.png = frame.image /\ frame'.image = frame.image
        BY <1>1, <2>1, <2>2
      <3>2. QED
        BY <3>1 DEF PreviewCurrent
    <2>3. CASE frame.image # thr[c].event
      BY <1>1, <2>1, <2>3 DEF PreviewCurrent
    <2>4. QED
      BY <2>2, <2>3
  <1>4. ServerTypes'
    BY <1>1, <1>2, <1>3 DEF ServerInv, ServerTypes
  <1>5. Reads(c)
    BY <1>1, <1>2, ReadsOn
  <1>6. QED
    BY <1>1, <1>2, <1>3, <1>4, <1>5, TurnedPlain DEF States, Telling, Composes

LEMMA ComposeKeeps ==
  ASSUME ServerInv, NEW c \in Conns, Compose(c)
  PROVE  ServerInv' /\ Onward
  <1>1. /\ thr[c].at = "body" /\ thr[c].ask \in Composes /\ deadlines' = deadlines \ {c}
        /\ \E ok \in BOOLEAN : thr' = [thr EXCEPT ![c].at = "answer", ![c].ok = ok]
        /\ UNCHANGED <<slots, late, renders, perPage, subs, leaked, control, frame>>
    BY DEF Compose
  <1>2. thr' \in [Threads -> ThreadRecs] /\ Turns(c, "answer")
    BY <1>1, ConnThreads, AtOkTurns DEF ServerInv, States
  <1>3. ServerTypes' /\ PreviewCurrent'
    BY <1>1, <1>2 DEF ServerInv, ServerTypes, PreviewCurrent
  <1>4. Reads(c)
    BY <1>1, <1>2, ReadsOn
  <1>5. LET rendering(a) == thr[c].ask \in Composes /\ a \in {"body", "working", "answer"}
        IN  renders' = renders + One(rendering(thr[c].at)) - One(rendering("answer"))
    BY <1>1, RendersInt DEF One
  <1>6. LET streaming(a) == a \in {"gated", "opening", "stream"}
        IN  \A p \in Pages : perPage'[p] = perPage[p]
               + One(thr[c].page = p /\ streaming("answer"))
               - One(thr[c].page = p /\ streaming(thr[c].at))
    BY <1>1 DEF One, ServerInv, ServerTypes
  <1>7. QED
    BY <1>1, <1>2, <1>3, <1>4, <1>5, <1>6, Turned DEF States, Telling

-----------------------------------------------------------------------------
(* Control requests, and telling the viewers *)

LEMMA IdleIs ==
  ASSUME NEW h \in Pages \cup {None}
  PROVE  Idle(h) \in [state : TxStates, holder : Pages \cup {None}] /\ Idle(h).holder = h
  BY DEF Idle, TxStates

LEMMA OutcomesTyped ==
  ASSUME control \in [state : TxStates, holder : Pages \cup {None}],
         NEW ask \in Posts, NEW p \in Pages, NEW o \in Outcomes(ask, p)
  PROVE  o.ok \in BOOLEAN /\ o.next \in [state : TxStates, holder : Pages \cup {None}]
  <1> DEFINE no == [ok |-> FALSE, next |-> control]
             yes(n) == [ok |-> TRUE, next |-> n]
             C == [state : TxStates, holder : Pages \cup {None}]
  <1>1. no.ok \in BOOLEAN /\ no.next \in C
    OBVIOUS
  <1>2. \A n \in C : yes(n).ok \in BOOLEAN /\ yes(n).next \in C
    OBVIOUS
  <1>3. /\ [control EXCEPT !.holder = p] \in C
        /\ [control EXCEPT !.state = "awaiting"] \in C
        /\ [control EXCEPT !.state = "transmitting"] \in C
    BY DEF TxStates
  <1>4. Idle(None) \in C /\ Idle(p) \in C /\ control \in C
    BY IdleIs
  <1>5. [ok |-> FALSE, next |-> Idle(p)].ok \in BOOLEAN /\ [ok |-> FALSE, next |-> Idle(p)].next \in C
    BY <1>4
  <1>6. o \in {no, yes([control EXCEPT !.holder = p]), yes(Idle(None)), yes(control), yes(Idle(p)),
               yes([control EXCEPT !.state = "awaiting"]), yes([control EXCEPT !.state = "transmitting"]),
               [ok |-> FALSE, next |-> Idle(p)]}
    <2> HIDE DEF C
    <2>1. CASE ask = "lease"
      BY <2>1 DEF Outcomes
    <2>2. CASE ask = "release"
      BY <2>2 DEF Outcomes
    <2>3. CASE ask = "heartbeat"
      BY <2>3 DEF Outcomes
    <2>4. CASE ask = "abort"
      BY <2>4 DEF Outcomes
    <2>5. CASE ask = "request"
      BY <2>5 DEF Outcomes
    <2>6. CASE ask = "confirm"
      BY <2>6 DEF Outcomes
    <2>7. QED
      BY <2>1, <2>2, <2>3, <2>4, <2>5, <2>6 DEF Posts
  <1> HIDE DEF no, yes, C
  <1>7. o.ok \in BOOLEAN /\ o.next \in C
    BY <1>1, <1>2, <1>3, <1>4, <1>5, <1>6
  <1>8. QED
    BY <1>7 DEF C

LEMMA ControlKeeps ==
  ASSUME ServerInv, NEW c \in Conns, Control(c)
  PROVE  ServerInv' /\ Onward
  <1>1. /\ thr[c].at = "body" /\ thr[c].ask \in Posts /\ deadlines' = deadlines \ {c}
        /\ UNCHANGED <<slots, late, renders, perPage, subs, leaked, frame>>
    BY DEF Control
  <1>2. PICK o \in Outcomes(thr[c].ask, thr[c].page) :
           control' = o.next /\ thr' = [thr EXCEPT ![c].at = "telling", ![c].ok = o.ok]
    BY DEF Control
  <1>3. control \in [state : TxStates, holder : Pages \cup {None}] /\ thr[c].page \in Pages
    BY <1>1 DEF ServerInv, ServerTypes, Roles, Live
  <1>4. o.ok \in BOOLEAN /\ o.next \in [state : TxStates, holder : Pages \cup {None}]
    BY <1>1, <1>3, OutcomesTyped
  <1>5. thr' \in [Threads -> ThreadRecs] /\ Turns(c, "telling")
    BY <1>2, <1>4, ConnThreads, AtOkTurns DEF ServerInv, States, Telling
  <1>6. ServerTypes' /\ PreviewCurrent'
    BY <1>1, <1>2, <1>4, <1>5 DEF ServerInv, ServerTypes, PreviewCurrent
  <1>7. Reads(c)
    BY <1>1, <1>5, ReadsOn
  <1>8. QED
    BY <1>1, <1>5, <1>6, <1>7, TurnedPlain DEF States, Telling, Posts, Composes

\* A thread goes on telling the viewers, or is done with it.
LEMMA TellingGoesOn ==
  ASSUME ServerInv, NEW t \in Threads, NEW s \in Telling \cup {"answer", "closing"}, Turns(t, s),
         t \in Conns => thr[t].at \in Telling, ServerTypes',
         UNCHANGED <<slots, deadlines, late, renders, perPage, frame>>
  PROVE  ServerInv' /\ Onward
  <1>1. PreviewCurrent'
    BY DEF ServerInv, PreviewCurrent
  <1>2. CASE t \in Conns
    <2>1. thr[t].ask \in Posts /\ thr[t].at \in Telling
      BY <1>2 DEF ServerInv, Roles
    <2>2. Reads(t)
      BY <1>2, <2>1, ReadsOn DEF Telling
    <2>3. QED
      BY <1>1, <1>2, <2>1, <2>2, TurnedPlain DEF States, Telling, Posts, Composes
  <1>3. CASE t \notin Conns
    <2>1. \A d \in Conns : thr'[d] = thr[d]
      BY <1>3, ConnThreads DEF Turns
    <2>2. QED
      BY <1>1, <2>1, ServerRests DEF Onward, Flowing, Live
  <1>4. QED
    BY <1>2, <1>3

LEMMA SubsNames == ASSUME ServerTypes PROVE DOMAIN subs \in SUBSET Nat
  BY DEF ServerTypes

LEMMA BeginTurns ==
  ASSUME ServerTypes, NEW t \in Threads, NEW e \in Nat \cup {None} \cup Events, Begin(t, e)
  PROVE  thr' \in [Threads -> ThreadRecs] /\ Turns(t, "putting")
  BY SubsNames, AtEventTodoTurns DEF Begin, States, Telling

LEMMA TellKeeps ==
  ASSUME ServerInv, NEW t \in Threads, Tell(t)
  PROVE  ServerInv' /\ Onward
  <1>1. /\ thr[t].at = "telling" /\ Begin(t, Status)
        /\ UNCHANGED <<slots, deadlines, late, renders, perPage, subs, leaked, control, frame>>
    BY DEF Tell
  <1>2. Status \in Events
    BY DEF Status, Events, ServerInv, ServerTypes
  <1>3. thr' \in [Threads -> ThreadRecs] /\ Turns(t, "putting")
    BY <1>1, <1>2, BeginTurns DEF ServerInv
  <1>4. ServerTypes'
    BY <1>1, <1>3 DEF ServerInv, ServerTypes
  <1>5. QED
    BY <1>1, <1>3, <1>4, TellingGoesOn DEF Telling

LEMMA PutKeeps ==
  ASSUME ServerInv, NEW t \in Threads, NEW q \in thr[t].todo, Put(t, q)
  PROVE  ServerInv' /\ Onward
  <1>1. /\ thr[t].at = "putting" /\ thr[t].todo \in SUBSET Nat /\ q \in Nat
        /\ UNCHANGED <<slots, deadlines, late, renders, perPage, leaked, control, frame>>
    BY DEF Put, ServerInv, ServerTypes, ThreadRecs
  <1>2. \/ /\ thr' = [thr EXCEPT ![t].at = "full", ![t].queue = q] /\ subs' = subs
        \/ /\ thr' = [thr EXCEPT ![t].todo = thr[t].todo \ {q}]
           /\ subs' = IF q \in DOMAIN subs THEN Push(q, thr[t].event) ELSE subs
    BY DEF Put
  <1>3. DOMAIN subs' = DOMAIN subs
    BY <1>2 DEF Push
  <1>4. PICK s \in {"full", "putting"} : thr' \in [Threads -> ThreadRecs] /\ Turns(t, s)
    <2>1. CASE thr' = [thr EXCEPT ![t].at = "full", ![t].queue = q]
      <3>1. thr' \in [Threads -> ThreadRecs] /\ Turns(t, "full")
        BY <1>1, <2>1, AtQueueTurns DEF ServerInv, States, Telling
      <3>2. QED
        BY <3>1
    <2>2. CASE thr' = [thr EXCEPT ![t].todo = thr[t].todo \ {q}]
      <3>1. thr[t].todo \ {q} \in SUBSET Nat
        BY <1>1
      <3>2. thr' \in [Threads -> ThreadRecs] /\ Turns(t, "putting")
        BY <1>1, <2>2, <3>1, TodoTurns DEF ServerInv
      <3>3. QED
        BY <3>2
    <2>3. QED
      BY <1>2, <2>1, <2>2
  <1>5. ServerTypes'
    BY <1>1, <1>3, <1>4 DEF ServerInv, ServerTypes
  <1>6. QED
    BY <1>1, <1>4, <1>5, TellingGoesOn DEF Telling

LEMMA DropOldestKeeps ==
  ASSUME ServerInv, NEW t \in Threads, DropOldest(t)
  PROVE  ServerInv' /\ Onward
  <1> DEFINE rest == thr[t].todo \ {thr[t].queue}
  <1>1. /\ thr[t].at = "full" /\ rest \in SUBSET Nat
        /\ UNCHANGED <<slots, deadlines, late, renders, perPage, leaked, control, frame>>
    BY DEF DropOldest, ServerInv, ServerTypes, ThreadRecs
  <1>2. \/ /\ thr' = [thr EXCEPT ![t].at = "refill"]
           /\ subs' = [subs EXCEPT ![thr[t].queue] = Tail(@)]
        \/ /\ thr' = [thr EXCEPT ![t].at = "putting", ![t].todo = rest, ![t].queue = None]
           /\ subs' = subs
    BY DEF DropOldest
  <1> HIDE DEF rest
  <1>3. DOMAIN subs' = DOMAIN subs
    BY <1>2
  <1>4. PICK s \in {"refill", "putting"} : thr' \in [Threads -> ThreadRecs] /\ Turns(t, s)
    <2>1. CASE thr' = [thr EXCEPT ![t].at = "refill"]
      <3>1. thr' \in [Threads -> ThreadRecs] /\ Turns(t, "refill")
        BY <2>1, AtTurns DEF ServerInv, States, Telling
      <3>2. QED
        BY <3>1
    <2>2. CASE thr' = [thr EXCEPT ![t].at = "putting", ![t].todo = rest, ![t].queue = None]
      <3>1. thr' \in [Threads -> ThreadRecs] /\ Turns(t, "putting")
        BY <1>1, <2>2, AtTodoQueueTurns DEF ServerInv, States, Telling
      <3>2. QED
        BY <3>1
    <2>3. QED
      BY <1>2, <2>1, <2>2
  <1>5. ServerTypes'
    BY <1>1, <1>3, <1>4 DEF ServerInv, ServerTypes
  <1>6. QED
    BY <1>1, <1>4, <1>5, TellingGoesOn DEF Telling

\* The GUI's publisher goes on or ends: no connection is touched.
LEMMA GuiMoves ==
  ASSUME ServerInv, NEW r \in ThreadRecs, thr' = [thr EXCEPT ![Gui] = r],
         UNCHANGED <<slots, deadlines, late, renders, perPage, frame, control, leaked>>,
         DOMAIN subs' = DOMAIN subs
  PROVE  ServerInv' /\ Onward
  <1>1. thr' \in [Threads -> ThreadRecs] /\ \A d \in Conns : thr'[d] = thr[d]
    BY ConnThreads DEF ServerInv, ServerTypes
  <1>2. ServerTypes' /\ PreviewCurrent'
    BY <1>1 DEF ServerInv, ServerTypes, PreviewCurrent
  <1>3. Onward
    BY <1>1 DEF Onward, Flowing, Live
  <1>4. QED
    BY <1>1, <1>2, <1>3, ServerRests

LEMMA NoThreadTyped == NoThread \in ThreadRecs
  BY DEF NoThread, ThreadRecs, States, Telling

LEMMA RefillKeeps ==
  ASSUME ServerInv, NEW t \in Threads, Refill(t)
  PROVE  ServerInv' /\ Onward
  <1> DEFINE q    == thr[t].queue
             rest == thr[t].todo \ {q}
             over == [thr[t] EXCEPT !.at = "closing", !.todo = {}, !.queue = None, !.event = None]
  <1>1. /\ thr[t].at = "refill" /\ rest \in SUBSET Nat /\ thr[t] \in ThreadRecs
        /\ UNCHANGED <<slots, deadlines, late, renders, perPage, leaked, control, frame>>
    BY DEF Refill, ServerInv, ServerTypes, ThreadRecs
  <1>2. CASE q \in DOMAIN subs /\ Len(subs[q]) >= QueueSize
    <2>1. thr' = [thr EXCEPT ![t] = IF t = Gui THEN NoThread ELSE over] /\ subs' = subs
      BY <1>2 DEF Refill
    <2>2. CASE t = Gui
      BY <1>1, <2>1, <2>2, GuiMoves, NoThreadTyped
    <2>3. CASE t # Gui
      <3>1. over \in ThreadRecs /\ over.at = "closing" /\ over.page = thr[t].page
            /\ over.ask = thr[t].ask /\ over.open = thr[t].open
        BY <1>1 DEF ThreadRecs, States
      <3> HIDE DEF over
      <3>2. thr' \in [Threads -> ThreadRecs] /\ Turns(t, "closing")
        BY <2>1, <2>3, <3>1 DEF ServerInv, ServerTypes, Turns
      <3>3. ServerTypes'
        BY <1>1, <2>1, <3>2 DEF ServerInv, ServerTypes
      <3>4. QED
        BY <1>1, <3>2, <3>3, TellingGoesOn DEF Telling
    <2>4. QED
      BY <2>2, <2>3
  <1>3. CASE ~(q \in DOMAIN subs /\ Len(subs[q]) >= QueueSize)
    <2>1. /\ thr' = [thr EXCEPT ![t].at = "putting", ![t].todo = rest, ![t].queue = None]
          /\ subs' = IF q \in DOMAIN subs THEN Push(q, thr[t].event) ELSE subs
      BY <1>3 DEF Refill
    <2> HIDE DEF rest
    <2>2. DOMAIN subs' = DOMAIN subs
      BY <2>1 DEF Push
    <2>3. thr' \in [Threads -> ThreadRecs] /\ Turns(t, "putting")
      BY <1>1, <2>1, AtTodoQueueTurns DEF ServerInv, States, Telling
    <2>4. ServerTypes'
      BY <1>1, <2>2, <2>3 DEF ServerInv, ServerTypes
    <2>5. QED
      BY <1>1, <2>3, <2>4, TellingGoesOn DEF Telling
  <1>4. QED
    BY <1>2, <1>3

LEMMA ToldKeeps ==
  ASSUME ServerInv, NEW t \in Threads, Told(t)
  PROVE  ServerInv' /\ Onward
  <1> DEFINE done == [thr[t] EXCEPT !.at = "answer", !.event = None]
  <1>1. /\ thr[t].at = "putting" /\ thr[t] \in ThreadRecs
        /\ thr' = [thr EXCEPT ![t] = IF t = Gui THEN NoThread ELSE done]
        /\ UNCHANGED <<slots, deadlines, late, renders, perPage, subs, leaked, control, frame>>
    BY DEF Told, ServerInv, ServerTypes
  <1>2. CASE t = Gui
    BY <1>1, <1>2, GuiMoves, NoThreadTyped
  <1>3. CASE t # Gui
    <2>1. done \in ThreadRecs /\ done.at = "answer" /\ done.page = thr[t].page
          /\ done.ask = thr[t].ask /\ done.open = thr[t].open
      BY <1>1 DEF ThreadRecs, States
    <2> HIDE DEF done
    <2>2. thr' \in [Threads -> ThreadRecs] /\ Turns(t, "answer")
      BY <1>1, <1>3, <2>1 DEF ServerInv, ServerTypes, Turns
    <2>3. ServerTypes'
      BY <1>1, <2>2 DEF ServerInv, ServerTypes
    <2>4. QED
      BY <1>1, <2>2, <2>3, TellingGoesOn DEF Telling
  <1>4. QED
    BY <1>2, <1>3

-----------------------------------------------------------------------------
(* The GUI thread and the tick thread *)

\* The GUI thread begins to publish: no connection is touched.
LEMMA GuiPublishes ==
  ASSUME ServerInv, NEW s, Turns(Gui, s), ServerTypes', PreviewCurrent',
         UNCHANGED <<slots, deadlines, late, renders, perPage>>
  PROVE  ServerInv' /\ Onward
  <1>1. \A d \in Conns : thr'[d] = thr[d]
    BY ConnThreads DEF Turns
  <1>2. QED
    BY <1>1, ServerRests DEF Onward, Flowing, Live

LEMMA RxEvent == [type |-> "rx", state |-> "idle", held |-> FALSE] \in Events
  BY DEF Events, TxStates

LEMMA RxProgressKeeps ==
  ASSUME ServerInv, RxProgress
  PROVE  ServerInv' /\ Onward
  <1>1. /\ frame' = [image |-> frame.count + 1, png |-> None, count |-> frame.count + 1]
        /\ Begin(Gui, [type |-> "rx", state |-> "idle", held |-> FALSE])
        /\ UNCHANGED <<slots, deadlines, late, renders, perPage, subs, leaked, control>>
    BY DEF RxProgress
  <1>2. thr' \in [Threads -> ThreadRecs] /\ Turns(Gui, "putting")
    BY <1>1, RxEvent, BeginTurns, ConnThreads DEF ServerInv
  <1>3. frame' \in [image : Nat \cup {None}, png : Nat \cup {None}, count : Nat] /\ PreviewCurrent'
    BY <1>1 DEF ServerInv, ServerTypes, PreviewCurrent
  <1>4. ServerTypes'
    BY <1>1, <1>2, <1>3 DEF ServerInv, ServerTypes
  <1>5. QED
    BY <1>1, <1>2, <1>3, <1>4, GuiPublishes

LEMMA RxCompleteKeeps ==
  ASSUME ServerInv, RxComplete
  PROVE  ServerInv' /\ Onward
  <1>1. /\ frame' = [frame EXCEPT !.image = None, !.png = None]
        /\ Begin(Gui, [type |-> "rx", state |-> "idle", held |-> FALSE])
        /\ UNCHANGED <<slots, deadlines, late, renders, perPage, subs, leaked, control>>
    BY DEF RxComplete
  <1>2. thr' \in [Threads -> ThreadRecs] /\ Turns(Gui, "putting")
    BY <1>1, RxEvent, BeginTurns, ConnThreads DEF ServerInv
  <1>3. frame' \in [image : Nat \cup {None}, png : Nat \cup {None}, count : Nat] /\ PreviewCurrent'
    BY <1>1 DEF ServerInv, ServerTypes, PreviewCurrent
  <1>4. ServerTypes'
    BY <1>1, <1>2, <1>3 DEF ServerInv, ServerTypes
  <1>5. QED
    BY <1>1, <1>2, <1>3, <1>4, GuiPublishes

LEMMA ReturnedTyped ==
  ASSUME ServerTypes
  PROVE  Returned \in [state : TxStates, holder : Pages \cup {None}]
  BY IdleIs DEF Returned, ServerTypes

LEMMA TxAbandonedKeeps ==
  ASSUME ServerInv, TxAbandoned
  PROVE  ServerInv' /\ Onward
  <1>1. /\ control' = Returned /\ thr' = [thr EXCEPT ![Gui].at = "telling"]
        /\ UNCHANGED <<slots, deadlines, late, renders, perPage, subs, leaked, frame>>
    BY DEF TxAbandoned
  <1>2. thr' \in [Threads -> ThreadRecs] /\ Turns(Gui, "telling")
    BY <1>1, AtTurns, ConnThreads DEF ServerInv, States, Telling
  <1>3. ServerTypes' /\ PreviewCurrent'
    BY <1>1, <1>2, ReturnedTyped DEF ServerInv, ServerTypes, PreviewCurrent
  <1>4. QED
    BY <1>1, <1>2, <1>3, GuiPublishes

\* The plane moves, and no thread with it.
LEMMA PlaneMoves ==
  ASSUME ServerInv, control' \in [state : TxStates, holder : Pages \cup {None}],
         UNCHANGED <<thr, slots, deadlines, late, renders, perPage, subs, leaked, frame>>
  PROVE  ServerInv' /\ Onward
  <1>1. ServerTypes' /\ PreviewCurrent'
    BY DEF ServerInv, ServerTypes, PreviewCurrent
  <1>2. QED
    BY <1>1, ServerRests DEF Onward, Flowing, Live

LEMMA PlaneKeeps ==
  ASSUME ServerInv, Tick \/ ReclaimLocal \/ TxEnded
  PROVE  ServerInv' /\ Onward
  <1>1. UNCHANGED <<thr, slots, deadlines, late, renders, perPage, subs, leaked, frame>>
    BY DEF Tick, ReclaimLocal, TxEnded
  <1>2. control' \in {Idle(None), Idle(control.holder), Returned}
    BY DEF Tick, ReclaimLocal, TxEnded
  <1>3. control' \in [state : TxStates, holder : Pages \cup {None}]
    BY <1>2, IdleIs, ReturnedTyped DEF ServerInv, ServerTypes
  <1>4. QED
    BY <1>1, <1>3, PlaneMoves

-----------------------------------------------------------------------------
(* Event streams *)

LEMMA GateInt ==
  ASSUME ServerInv, NEW c \in Conns, thr[c].at # "none"
  PROVE  /\ thr[c].page \in Pages /\ perPage \in [Pages -> Int]
         /\ \A n \in Int : [perPage EXCEPT ![thr[c].page] = n] \in [Pages -> Int]
  BY DEF ServerInv, ServerTypes, Roles, Live

LEMMA RouteEventsKeeps ==
  ASSUME ServerInv, NEW c \in Conns, RouteEvents(c)
  PROVE  ServerInv' /\ Onward
  <1>1. /\ thr[c].at = "headers" /\ thr[c].ask = "events" /\ deadlines' = deadlines \ {c}
        /\ UNCHANGED <<slots, late, renders, subs, leaked, control, frame>>
    BY DEF RouteEvents, Headers
  <1>2. thr[c].page \in Pages /\ perPage \in [Pages -> Int]
    BY <1>1, GateInt
  <1>3. CASE perPage[thr[c].page] >= MaxPerPage
    <2>1. thr' = [thr EXCEPT ![c].at = "refused", ![c].ok = FALSE] /\ perPage' = perPage
      BY <1>3 DEF RouteEvents, Headers
    <2>2. thr' \in [Threads -> ThreadRecs] /\ Turns(c, "refused")
      BY <2>1, ConnThreads, AtOkTurns DEF ServerInv, States
    <2>3. ServerTypes' /\ PreviewCurrent'
      BY <1>1, <2>1, <2>2 DEF ServerInv, ServerTypes, PreviewCurrent
    <2>4. Reads(c)
      BY <1>1, <2>2, ReadsOn
    <2>5. QED
      BY <1>1, <2>1, <2>2, <2>3, <2>4, TurnedPlain DEF States, Telling, Composes
  <1>4. CASE ~(perPage[thr[c].page] >= MaxPerPage)
    <2>1. /\ thr' = [thr EXCEPT ![c].at = "gated", ![c].ok = FALSE]
          /\ perPage' = [perPage EXCEPT ![thr[c].page] = @ + 1]
      BY <1>4 DEF RouteEvents, Headers
    <2>2. thr' \in [Threads -> ThreadRecs] /\ Turns(c, "gated")
      BY <2>1, ConnThreads, AtOkTurns DEF ServerInv, States
    <2>3. perPage' \in [Pages -> Int]
      BY <1>2, <2>1
    <2>4. ServerTypes' /\ PreviewCurrent'
      BY <1>1, <2>2, <2>3 DEF ServerInv, ServerTypes, PreviewCurrent
    <2>5. Reads(c)
      BY <1>1, <2>2, ReadsOn
    <2>6. LET rendering(a) == thr[c].ask \in Composes /\ a \in {"body", "working", "answer"}
          IN  renders' = renders + One(rendering(thr[c].at)) - One(rendering("gated"))
      BY <1>1, RendersInt DEF One
    <2>7. LET streaming(a) == a \in {"gated", "opening", "stream"}
          IN  \A p \in Pages : perPage'[p] = perPage[p]
                 + One(thr[c].page = p /\ streaming("gated"))
                 - One(thr[c].page = p /\ streaming(thr[c].at))
      BY <1>1, <1>2, <2>1 DEF One
    <2>8. QED
      BY <1>1, <2>2, <2>4, <2>5, <2>6, <2>7, Turned DEF States, Telling
  <1>5. QED
    BY <1>3, <1>4

\* A stream ends before, while or after it opens: its page's gate is left.
LEMMA GateLeft ==
  ASSUME ServerInv, NEW c \in Conns, NEW s \in {"refused", "closing"}, thr' = [thr EXCEPT ![c].at = s],
         thr[c].at \in {"gated", "opening", "stream"}, LeaveGate(c),
         UNCHANGED <<slots, deadlines, late, renders, control, frame>>,
         DOMAIN subs' \subseteq Nat, IsFiniteSet(leaked')
  PROVE  ServerInv' /\ Onward
  <1>1. thr[c].page \in Pages /\ perPage \in [Pages -> Int]
    BY GateInt
  <1>2. perPage' = [perPage EXCEPT ![thr[c].page] = @ - 1] /\ perPage' \in [Pages -> Int]
    BY <1>1 DEF LeaveGate
  <1>3. thr' \in [Threads -> ThreadRecs] /\ Turns(c, s)
    BY ConnThreads, AtTurns DEF ServerInv, States
  <1>4. ServerTypes' /\ PreviewCurrent'
    BY <1>2, <1>3 DEF ServerInv, ServerTypes, PreviewCurrent
  <1>5. Reads(c)
    BY <1>3, ReadsOn
  <1>6. LET rendering(a) == thr[c].ask \in Composes /\ a \in {"body", "working", "answer"}
        IN  renders' = renders + One(rendering(thr[c].at)) - One(rendering(s))
    BY RendersInt DEF One
  <1>7. LET streaming(a) == a \in {"gated", "opening", "stream"}
        IN  \A p \in Pages : perPage'[p] = perPage[p]
               + One(thr[c].page = p /\ streaming(s))
               - One(thr[c].page = p /\ streaming(thr[c].at))
    BY <1>1, <1>2 DEF One
  <1>8. QED
    BY <1>3, <1>4, <1>5, <1>6, <1>7, Turned DEF States, Telling

LEMMA SubscribeKeeps ==
  ASSUME ServerInv, NEW c \in Conns, Subscribe(c)
  PROVE  ServerInv' /\ Onward
  <1>1. /\ thr[c].at = "gated"
        /\ UNCHANGED <<slots, deadlines, late, renders, leaked, control, frame>>
    BY DEF Subscribe
  <1>2. CASE Cardinality(DOMAIN subs) >= MaxStreams
    <2>1. thr' = [thr EXCEPT ![c].at = "refused"] /\ LeaveGate(c) /\ subs' = subs
      BY <1>2 DEF Subscribe
    <2>2. QED
      BY <1>1, <2>1, GateLeft DEF ServerInv, ServerTypes
  <1>3. CASE ~(Cardinality(DOMAIN subs) >= MaxStreams)
    <2>1. /\ thr' = [thr EXCEPT ![c].at = "opening"] /\ perPage' = perPage
          /\ subs' = [q \in DOMAIN subs \cup {c} |-> IF q = c THEN <<>> ELSE subs[q]]
      BY <1>3 DEF Subscribe
    <2>2. thr' \in [Threads -> ThreadRecs] /\ Turns(c, "opening")
      BY <2>1, ConnThreads, AtTurns DEF ServerInv, States
    <2>3. DOMAIN subs' \subseteq Nat
      BY <2>1, ConnsCount DEF ServerInv, ServerTypes
    <2>4. ServerTypes' /\ PreviewCurrent'
      BY <1>1, <2>1, <2>2, <2>3 DEF ServerInv, ServerTypes, PreviewCurrent
    <2>5. Reads(c)
      BY <1>1, <2>2, ReadsOn
    <2>6. QED
      BY <1>1, <2>1, <2>2, <2>4, <2>5, TurnedPlain DEF States, Telling
  <1>4. QED
    BY <1>2, <1>3

\* The queue that stays behind when a client is gone before its stream opened
\* gives back the gate all the same.
LEMMA OpenFailsKeeps ==
  ASSUME ServerInv, NEW c \in Conns, OpenFails(c)
  PROVE  ServerInv' /\ Onward
  <1> DEFINE ghost == MaxConnections + Cardinality(leaked) + 1
  <1>1. /\ thr[c].at = "opening" /\ LeaveGate(c) /\ thr' = [thr EXCEPT ![c].at = "closing"]
        /\ leaked' = leaked \cup {ghost}
        /\ subs' = [q \in (DOMAIN subs \ {c}) \cup {ghost} |-> IF q = ghost THEN subs[c] ELSE subs[q]]
        /\ UNCHANGED <<slots, deadlines, late, renders, control, frame>>
    BY DEF OpenFails
  <1>2. IsFiniteSet(leaked) /\ Cardinality(leaked) \in Nat
    BY FS_CardinalityType DEF ServerInv, ServerTypes
  <1>3. ghost \in Nat
    BY <1>2, ConnsCount
  <1> HIDE DEF ghost
  <1>4. IsFiniteSet(leaked') /\ DOMAIN subs' \subseteq Nat
    <2>1. IsFiniteSet(leaked')
      BY <1>1, <1>2, FS_AddElement
    <2>2. DOMAIN subs' = (DOMAIN subs \ {c}) \cup {ghost}
      BY <1>1
    <2>3. QED
      BY <1>3, <2>1, <2>2 DEF ServerInv, ServerTypes
  <1>5. QED
    BY <1>1, <1>4, GateLeft

LEMMA OpenKeeps ==
  ASSUME ServerInv, NEW c \in Conns, Open(c)
  PROVE  ServerInv' /\ Onward
  <1>1. /\ thr[c].at = "opening" /\ thr' = [thr EXCEPT ![c].at = "stream"]
        /\ UNCHANGED <<slots, deadlines, late, renders, perPage, subs, leaked, control, frame>>
    BY DEF Open
  <1>2. thr' \in [Threads -> ThreadRecs] /\ Turns(c, "stream")
    BY <1>1, ConnThreads, AtTurns DEF ServerInv, States
  <1>3. ServerTypes' /\ PreviewCurrent'
    BY <1>1, <1>2 DEF ServerInv, ServerTypes, PreviewCurrent
  <1>4. Reads(c)
    BY <1>1, <1>2, ReadsOn
  <1>5. QED
    BY <1>1, <1>2, <1>3, <1>4, TurnedPlain DEF States, Telling

LEMMA DeliverKeeps ==
  ASSUME ServerInv, NEW c \in Conns, Deliver(c)
  PROVE  ServerInv' /\ Onward
  <1>1. /\ subs' = [subs EXCEPT ![c] = Tail(@)]
        /\ UNCHANGED <<thr, slots, deadlines, late, renders, perPage, leaked, control, frame>>
    BY DEF Deliver
  <1>2. DOMAIN subs' = DOMAIN subs
    BY <1>1
  <1>3. ServerTypes' /\ PreviewCurrent'
    BY <1>1, <1>2 DEF ServerInv, ServerTypes, PreviewCurrent
  <1>4. QED
    BY <1>1, <1>3, ServerRests DEF Onward, Flowing, Live

LEMMA EndStreamKeeps ==
  ASSUME ServerInv, NEW c \in Conns, NEW stopping, EndStream(c, stopping)
  PROVE  ServerInv' /\ Onward
  <1>1. /\ thr[c].at = "stream" /\ LeaveGate(c) /\ thr' = [thr EXCEPT ![c].at = "closing"]
        /\ DOMAIN subs' = DOMAIN subs \ {c}
        /\ UNCHANGED <<slots, deadlines, late, renders, leaked, control, frame>>
    BY DEF EndStream, Without
  <1>2. QED
    BY <1>1, GateLeft DEF ServerInv, ServerTypes

LEMMA AnswerKeeps ==
  ASSUME ServerInv, NEW c \in Conns, Answer(c)
  PROVE  ServerInv' /\ Onward /\ thr[c].at # "none" /\ Turns(c, "closing")
  <1>1. /\ thr[c].at \in {"answer", "refused"} /\ thr' = [thr EXCEPT ![c].at = "closing"]
        /\ renders' = IF Rendering(c) THEN renders + 1 ELSE renders
        /\ UNCHANGED <<slots, deadlines, late, perPage, subs, leaked, control, frame>>
    BY DEF Answer
  <1>2. thr' \in [Threads -> ThreadRecs] /\ Turns(c, "closing")
    BY <1>1, ConnThreads, AtTurns DEF ServerInv, States
  <1>3. ServerTypes' /\ PreviewCurrent'
    BY <1>1, <1>2 DEF ServerInv, ServerTypes, PreviewCurrent
  <1>4. Reads(c)
    BY <1>1, <1>2, ReadsOn
  <1>5. LET rendering(a) == thr[c].ask \in Composes /\ a \in {"body", "working", "answer"}
        IN  renders' = renders + One(rendering(thr[c].at)) - One(rendering("closing"))
    BY <1>1, RendersInt DEF Rendering, One
  <1>6. LET streaming(a) == a \in {"gated", "opening", "stream"}
        IN  \A p \in Pages : perPage'[p] = perPage[p]
               + One(thr[c].page = p /\ streaming("closing"))
               - One(thr[c].page = p /\ streaming(thr[c].at))
    BY <1>1 DEF One, ServerInv, ServerTypes
  <1>7. QED
    BY <1>1, <1>2, <1>3, <1>4, <1>5, <1>6, Turned DEF States, Telling

-----------------------------------------------------------------------------
(* Connections: accepted, finished, timed out, broken *)

LEMMA SlotsInt ==
  ASSUME ServerInv
  PROVE  slots \in Int
  <1>1. {d \in Conns : Live(d)} \in SUBSET Conns
    OBVIOUS
  <1>2. Cardinality({d \in Conns : Live(d)}) \in Nat
    BY <1>1, CountMoves
  <1>3. QED
    BY <1>2, ConnsCount DEF ServerInv, SlotsReturned

LEMMA AcceptKeeps ==
  ASSUME ServerInv, NEW c \in Conns, NEW p \in Pages, NEW ask \in Asks, Accept(c, p, ask)
  PROVE  /\ ServerInv' /\ \A d \in Conns \ {c} : thr'[d] = thr[d]
         /\ thr'[c].page = p /\ thr'[c].ask = ask
  <1> DEFINE new == [NoThread EXCEPT !.at = "headers", !.page = p, !.ask = ask, !.open = TRUE]
  <1>1. /\ thr[c].at = "none" /\ slots' = slots - 1 /\ thr' = [thr EXCEPT ![c] = new]
        /\ deadlines' = deadlines \cup {c}
        /\ UNCHANGED <<late, renders, perPage, subs, leaked, control, frame>>
    BY DEF Accept, Live
  <1>2. new \in ThreadRecs /\ new.at = "headers" /\ new.page = p /\ new.ask = ask
    BY DEF NoThread, ThreadRecs, States, Telling
  <1> HIDE DEF new
  <1>3. thr' \in [Threads -> ThreadRecs] /\ thr'[c] = new /\ \A d \in Conns \ {c} : thr'[d] = thr[d]
    BY <1>1, <1>2, ConnThreads DEF ServerInv, ServerTypes
  <1>4. ServerTypes' /\ PreviewCurrent'
    BY <1>1, <1>3 DEF ServerInv, ServerTypes, PreviewCurrent
  <1>5. Settles(c)
    <2>1. Live(c)' /\ ~Live(c) /\ ~Rendering(c)' /\ ~Rendering(c) /\ ~Streaming(c)' /\ ~Streaming(c)
      BY <1>1, <1>2, <1>3 DEF Live, Rendering, Streaming
    <2>2. QED
      BY <1>1, <1>3, <2>1, SlotsInt, RendersInt DEF Settles, OnStream, One, ServerInv, ServerTypes
  <1>6. Reads(c)
    BY <1>1, <1>2, <1>3 DEF Reads, Reading
  <1>7. QED
    BY <1>2, <1>3, <1>4, <1>5, <1>6, ServerMoves DEF Telling

LEMMA FinishKeeps ==
  ASSUME ServerInv, NEW c \in Conns, Finish(c)
  PROVE  ServerInv' /\ Onward
  <1>1. /\ thr[c].at = "closing" /\ slots' = slots + 1 /\ thr' = [thr EXCEPT ![c] = NoThread]
        /\ deadlines' = deadlines \ {c} /\ late' = late \ {c}
        /\ UNCHANGED <<renders, perPage, subs, leaked, control, frame>>
    BY DEF Finish
  <1>2. NoThread.at = "none"
    BY DEF NoThread
  <1>3. thr' \in [Threads -> ThreadRecs] /\ thr'[c] = NoThread /\ \A d \in Conns \ {c} : thr'[d] = thr[d]
    BY <1>1, NoThreadTyped, ConnThreads DEF ServerInv, ServerTypes
  <1>4. ServerTypes' /\ PreviewCurrent'
    BY <1>1, <1>3 DEF ServerInv, ServerTypes, PreviewCurrent
  <1>5. ~Live(c)' /\ Live(c) /\ ~Rendering(c)' /\ ~Rendering(c) /\ ~Streaming(c)' /\ ~Streaming(c)
    BY <1>1, <1>2, <1>3 DEF Live, Rendering, Streaming
  <1>6. Settles(c)
    BY <1>1, <1>3, <1>5, SlotsInt, RendersInt DEF Settles, OnStream, One, ServerInv, ServerTypes
  <1>7. Roles'
    BY <1>2, <1>3 DEF ServerInv, Roles, Live, Telling
  <1>8. SlotsReturned'
    BY <1>6, SlotsMove DEF ServerInv
  <1>9. BoundedReading'
    BY <1>1, <1>2, <1>3 DEF ServerInv, BoundedReading, Reading
  <1>10. Onward
    BY <1>3, <1>5 DEF Onward, Flowing, Live, NoThread
  <1>11. QED
    BY <1>4, <1>7, <1>8, <1>9, <1>10 DEF ServerInv

\* The sockets of some connections are gone; their threads have yet to notice.
LEMMA SocketsGone ==
  ASSUME ServerInv, thr' \in [Threads -> ThreadRecs],
         \A c \in Conns : /\ thr'[c].at = thr[c].at /\ thr'[c].page = thr[c].page /\ thr'[c].ask = thr[c].ask
                          /\ thr'[c].open => thr[c].open,
         deadlines' \subseteq deadlines,
         \A c \in Conns : (c \in deadlines => c \in deadlines' \cup late') /\
                          (c \in late => c \in late' \/ ~thr'[c].open),
         UNCHANGED <<slots, renders, perPage, subs, leaked, control, frame>>
  PROVE  ServerInv' /\ Onward
  <1>1. \A d \in Conns : /\ Live(d)' <=> Live(d)
                         /\ Rendering(d)' <=> Rendering(d)
                         /\ Streaming(d)' <=> Streaming(d)
                         /\ thr'[d].page = thr[d].page
    BY DEF Live, Rendering, Streaming
  <1>2. ServerTypes' /\ PreviewCurrent'
    BY DEF ServerInv, ServerTypes, PreviewCurrent
  <1>3. Roles'
    BY DEF ServerInv, Roles, Live
  <1>4. BoundedReading'
    <2>1. \A c \in Conns : c \in Reading' <=> c \in Reading
      BY DEF Reading
    <2>2. \A c \in Reading : c \in deadlines' \cup late' \/ ~thr'[c].open
      BY DEF ServerInv, BoundedReading, Reading
    <2>3. Reading \subseteq Conns /\ Reading' \subseteq Conns
      BY DEF Reading
    <2>4. QED
      BY <2>1, <2>2, <2>3 DEF ServerInv, BoundedReading
  <1>5. SlotsReturned'
    BY <1>1 DEF ServerInv, SlotsReturned
  <1>6. Onward
    BY DEF Onward, Flowing, Live
  <1>7. QED
    BY <1>2, <1>3, <1>4, <1>5, <1>6 DEF ServerInv

LEMMA PickLateKeeps ==
  ASSUME ServerInv, NEW c \in Conns, PickLate(c)
  PROVE  ServerInv' /\ Onward
  <1>1. /\ thr' = thr /\ deadlines' = deadlines \ {c} /\ late' = late \cup {c}
        /\ UNCHANGED <<slots, renders, perPage, subs, leaked, control, frame>>
    BY DEF PickLate
  <1>2. thr' \in [Threads -> ThreadRecs]
    BY <1>1 DEF ServerInv, ServerTypes
  <1>3. QED
    BY <1>1, <1>2, SocketsGone

LEMMA GoneKeeps ==
  ASSUME ServerInv, NEW c \in Conns, Gone(c), deadlines' = deadlines,
         late' = late \/ late' = late \ {c},
         UNCHANGED <<slots, renders, perPage, subs, leaked, control, frame>>
  PROVE  ServerInv' /\ Onward /\ ~thr'[c].open /\ \A d \in Conns \ {c} : thr'[d] = thr[d]
  <1>1. thr \in [Threads -> ThreadRecs] /\ thr' = [thr EXCEPT ![c].open = FALSE] /\ c \in Threads
    BY ConnThreads DEF ServerInv, ServerTypes, Gone
  <1>2. thr' \in [Threads -> ThreadRecs]
    BY <1>1, OpenSet
  <1>3. /\ \A d \in Threads \ {c} : thr'[d] = thr[d]
        /\ thr'[c].at = thr[c].at /\ thr'[c].page = thr[c].page /\ thr'[c].ask = thr[c].ask
        /\ ~thr'[c].open
    BY <1>1 DEF ThreadRecs
  <1>4. QED
    BY <1>2, <1>3, ConnThreads, SocketsGone

\* The connections of a page go at once when it is reloaded.
LEMMA ReloadGone ==
  ASSUME ServerInv, NEW p \in Pages,
         thr' = [c \in DOMAIN thr |-> IF thr[c].page = p THEN [thr[c] EXCEPT !.open = FALSE] ELSE thr[c]],
         UNCHANGED <<slots, deadlines, late, renders, perPage, subs, leaked, control, frame>>
  PROVE  ServerInv' /\ Onward /\ \A c \in Conns : thr[c].page = p => ~thr'[c].open
  <1>1. thr \in [Threads -> ThreadRecs] /\ DOMAIN thr = Threads
    BY DEF ServerInv, ServerTypes
  <1>2. \A r \in ThreadRecs : LET gone == [r EXCEPT !.open = FALSE] IN
           /\ gone \in ThreadRecs /\ gone.at = r.at /\ gone.page = r.page /\ gone.ask = r.ask
           /\ ~gone.open
    BY DEF ThreadRecs
  <1>3. \A c \in Threads :
           /\ thr'[c] \in ThreadRecs
           /\ thr'[c].at = thr[c].at /\ thr'[c].page = thr[c].page /\ thr'[c].ask = thr[c].ask
           /\ thr'[c].open => thr[c].open
           /\ thr[c].page = p => ~thr'[c].open
    BY <1>1, <1>2
  <1>4. thr' \in [Threads -> ThreadRecs]
    BY <1>1, <1>3
  <1>5. QED
    BY <1>3, <1>4, ConnThreads, SocketsGone

-----------------------------------------------------------------------------
(* The script of a page *)

\* A record with the fields of a page's state.  What the viewer is shown of
\* the transmit state is left open.
Fields(pg) == [hold |-> pg.hold, beat |-> pg.beat, state |-> pg.state, held |-> pg.held,
               flow |-> pg.flow, stream |-> pg.stream]

IsPage(pg) ==
    /\ pg = Fields(pg)
    /\ pg.hold \in BOOLEAN /\ pg.beat \in BOOLEAN /\ pg.flow \in Seq(FlowSteps)
    /\ pg.hold => pg.beat

\* A step of a flow under way is the first of what the flow has left.
InFlight == \A c \in Conns : Flowing(c) =>
    /\ page[thr[c].page].flow # <<>>
    /\ Head(page[thr[c].page].flow) = thr[c].ask

OneInFlight == \A c, d \in Conns :
    Flowing(c) /\ Flowing(d) /\ thr[c].page = thr[d].page => c = d

PageInv ==
    /\ DOMAIN page = Pages
    /\ \A p \in Pages : IsPage(page[p])
    /\ \A c \in Conns : thr[c].open => Live(c)
    /\ InFlight /\ OneInFlight

LEMMA FreshIs == IsPage(Fresh) /\ Fresh.flow = <<>>
  BY DEF IsPage, Fresh, Fields

LEMMA HoldField ==
  ASSUME NEW pg, pg = Fields(pg), NEW x
  PROVE  LET to == [pg EXCEPT !.hold = x]
         IN  /\ to = Fields(to) /\ to.hold = x
             /\ to.beat = pg.beat /\ to.state = pg.state /\ to.held = pg.held
             /\ to.flow = pg.flow /\ to.stream = pg.stream
  BY DEF Fields

LEMMA BeatField ==
  ASSUME NEW pg, pg = Fields(pg), NEW x
  PROVE  LET to == [pg EXCEPT !.beat = x]
         IN  /\ to = Fields(to) /\ to.beat = x
             /\ to.hold = pg.hold /\ to.state = pg.state /\ to.held = pg.held
             /\ to.flow = pg.flow /\ to.stream = pg.stream
  BY DEF Fields

LEMMA StateField ==
  ASSUME NEW pg, pg = Fields(pg), NEW x
  PROVE  LET to == [pg EXCEPT !.state = x]
         IN  /\ to = Fields(to) /\ to.state = x
             /\ to.hold = pg.hold /\ to.beat = pg.beat /\ to.held = pg.held
             /\ to.flow = pg.flow /\ to.stream = pg.stream
  BY DEF Fields

LEMMA HeldField ==
  ASSUME NEW pg, pg = Fields(pg), NEW x
  PROVE  LET to == [pg EXCEPT !.held = x]
         IN  /\ to = Fields(to) /\ to.held = x
             /\ to.hold = pg.hold /\ to.beat = pg.beat /\ to.state = pg.state
             /\ to.flow = pg.flow /\ to.stream = pg.stream
  BY DEF Fields

LEMMA HoldSet ==
  ASSUME NEW pg, IsPage(pg), NEW h \in BOOLEAN, NEW b \in BOOLEAN, h => b
  PROVE  /\ IsPage([pg EXCEPT !.hold = h, !.beat = b])
         /\ [pg EXCEPT !.hold = h, !.beat = b].flow = pg.flow
  <1> DEFINE one == [pg EXCEPT !.hold = h]
             two == [one EXCEPT !.beat = b]
  <1>1. pg = Fields(pg)
    BY DEF IsPage
  <1>2. one = Fields(one) /\ one.hold = h /\ one.beat = pg.beat /\ one.flow = pg.flow
    BY <1>1, HoldField
  <1>3. [pg EXCEPT !.hold = h, !.beat = b] = two
    OBVIOUS
  <1> HIDE DEF one
  <1>4. two = Fields(two) /\ two.hold = one.hold /\ two.flow = one.flow
        /\ two.beat = b
    BY <1>2, BeatField
  <1> HIDE DEF two
  <1>5. IsPage(two) /\ two.flow = pg.flow
    BY <1>2, <1>4 DEF IsPage
  <1>6. QED
    BY <1>3, <1>5

LEMMA ShownSet ==
  ASSUME NEW pg, IsPage(pg), NEW h, NEW b
  PROVE  /\ IsPage([pg EXCEPT !.state = h, !.held = b])
         /\ [pg EXCEPT !.state = h, !.held = b].flow = pg.flow
  <1> DEFINE one == [pg EXCEPT !.state = h]
             two == [one EXCEPT !.held = b]
  <1>1. pg = Fields(pg)
    BY DEF IsPage
  <1>2. one = Fields(one) /\ one.hold = pg.hold /\ one.beat = pg.beat /\ one.flow = pg.flow
    BY <1>1, StateField
  <1>3. [pg EXCEPT !.state = h, !.held = b] = two
    OBVIOUS
  <1> HIDE DEF one
  <1>4. two = Fields(two) /\ two.hold = one.hold /\ two.flow = one.flow
        /\ two.beat = one.beat
    BY <1>2, HeldField
  <1> HIDE DEF two
  <1>5. IsPage(two) /\ two.flow = pg.flow
    BY <1>2, <1>4 DEF IsPage
  <1>6. QED
    BY <1>3, <1>5

LEMMA FlowSet ==
  ASSUME NEW pg, IsPage(pg), NEW f \in Seq(FlowSteps)
  PROVE  IsPage([pg EXCEPT !.flow = f]) /\ [pg EXCEPT !.flow = f].flow = f
  BY DEF IsPage, Fields

LEMMA StreamSet ==
  ASSUME NEW pg, IsPage(pg), NEW s
  PROVE  IsPage([pg EXCEPT !.stream = s]) /\ [pg EXCEPT !.stream = s].flow = pg.flow
  BY DEF IsPage, Fields

LEMMA Advances ==
  ASSUME NEW f \in Seq(FlowSteps), NEW ok, f # <<>>
  PROVE  Advance(f, ok) \in Seq(FlowSteps)
  BY DEF Advance

\* The answer to a step of the flow moves the flow; any other leaves it.
LEMMA AnswerPage ==
  ASSUME NEW pg, IsPage(pg), NEW ask, NEW ok \in BOOLEAN, ask \in FlowSteps => pg.flow # <<>>
  PROVE  /\ IsPage(OnAnswer(pg, ask, ok))
         /\ ask \notin FlowSteps => OnAnswer(pg, ask, ok).flow = pg.flow
  <1> DEFINE on == OnAnswer(pg, ask, ok)
             f  == Advance(pg.flow, ok)
  <1>1. pg.flow \in Seq(FlowSteps) /\ pg.hold \in BOOLEAN /\ pg.beat \in BOOLEAN /\ (pg.hold => pg.beat)
    BY DEF IsPage
  <1>2. CASE ask = "lease"
    <2> DEFINE h == pg.hold \/ ok
               b == pg.beat \/ ok
               taken == [pg EXCEPT !.hold = h, !.beat = b]
    <2>1. on = [pg EXCEPT !.hold = h, !.beat = b, !.flow = f]
      BY <1>2 DEF OnAnswer
    <2>2. h \in BOOLEAN /\ b \in BOOLEAN /\ (h => b) /\ f \in Seq(FlowSteps)
      BY <1>1, <1>2, Advances DEF FlowSteps
    <2> HIDE DEF h, b, f
    <2>3. on = [taken EXCEPT !.flow = f]
      BY <2>1
    <2>4. IsPage(taken)
      BY <2>2, HoldSet
    <2>5. IsPage([taken EXCEPT !.flow = f])
      BY <2>2, <2>4, FlowSet
    <2>6. QED
      BY <1>2, <2>3, <2>5 DEF FlowSteps
  <1>3. CASE ask = "release"
    <2>1. on = [DropHold(pg) EXCEPT !.flow = <<>>] /\ IsPage(DropHold(pg))
      BY <1>3, HoldSet DEF OnAnswer, DropHold
    <2>2. <<>> \in Seq(FlowSteps)
      OBVIOUS
    <2>3. \A q : IsPage(q) => IsPage([q EXCEPT !.flow = <<>>])
      BY <2>2, FlowSet
    <2>4. QED
      BY <1>3, <2>1, <2>3 DEF FlowSteps
  <1>4. CASE ask \in {"abort", "request", "confirm", "stage"}
    <2>1. on = [pg EXCEPT !.flow = f] /\ f \in Seq(FlowSteps)
      BY <1>1, <1>4, Advances DEF OnAnswer, FlowSteps
    <2> HIDE DEF f
    <2>2. QED
      BY <1>4, <2>1, FlowSet DEF FlowSteps
  <1>5. CASE ask = "heartbeat"
    <2>1. on = IF ok THEN pg ELSE DropHold(pg)
      BY <1>5 DEF OnAnswer
    <2>2. QED
      BY <2>1, HoldSet DEF DropHold
  <1>6. CASE ask = "events"
    <2>1. on = [pg EXCEPT !.stream = IF ok THEN "open" ELSE "dead"]
      BY <1>6 DEF OnAnswer
    <2>2. QED
      BY <2>1, StreamSet
  <1>7. CASE ask \notin {"lease", "release", "abort", "request", "confirm", "stage", "heartbeat", "events"}
    <2>1. on = pg
      BY <1>7 DEF OnAnswer
    <2>2. QED
      BY <2>1
  <1>8. QED
    BY <1>2, <1>3, <1>4, <1>5, <1>6, <1>7

LEMMA EventPage ==
  ASSUME NEW pg, IsPage(pg), NEW ev
  PROVE  IsPage(OnEvent(pg, ev)) /\ OnEvent(pg, ev).flow = pg.flow
  <1> DEFINE told == [pg EXCEPT !.state = ev.state, !.held = ev.held]
  <1>1. IsPage(told) /\ told.flow = pg.flow
    BY ShownSet
  <1>2. OnEvent(pg, ev) \in {pg, told, DropHold(told)}
    BY DEF OnEvent
  <1> HIDE DEF told
  <1>3. IsPage(DropHold(told)) /\ DropHold(told).flow = told.flow
    BY <1>1, HoldSet DEF DropHold
  <1>4. QED
    BY <1>1, <1>2, <1>3

LEMMA BrokenPage ==
  ASSUME NEW pg, IsPage(pg), NEW ask, ask \in FlowSteps => pg.flow # <<>>
  PROVE  /\ IsPage(OnBroken(pg, ask))
         /\ ask \notin FlowSteps => OnBroken(pg, ask).flow = pg.flow
  <1>1. CASE ask = "events"
    BY <1>1, StreamSet DEF OnBroken
  <1>2. CASE ask # "events"
    BY <1>2, AnswerPage DEF OnBroken
  <1>3. QED
    BY <1>1, <1>2

\* One page moves, and its flow only when no step of it is under way.
LEMMA PageMoves ==
  ASSUME PageInv, Onward, NEW p \in Pages, NEW pg, IsPage(pg), page' = [page EXCEPT ![p] = pg],
         pg.flow = page[p].flow \/ \A c \in Conns : Flowing(c)' => thr'[c].page # p
  PROVE  PageInv'
  <1>1. DOMAIN page' = Pages /\ page'[p] = pg /\ \A q \in Pages \ {p} : page'[q] = page[q]
    BY DEF PageInv
  <1>2. \A q \in Pages : IsPage(page'[q])
    BY <1>1 DEF PageInv
  <1>3. \A c \in Conns : thr'[c].open => Live(c)'
    BY DEF PageInv, Onward
  <1>4. OneInFlight'
    BY DEF PageInv, Onward, OneInFlight
  <1>5. InFlight'
    <2> SUFFICES ASSUME NEW c \in Conns, Flowing(c)'
                 PROVE  /\ page'[thr'[c].page].flow # <<>>
                        /\ Head(page'[thr'[c].page].flow) = thr'[c].ask
      BY DEF InFlight
    <2>1. Flowing(c) /\ thr'[c].page = thr[c].page /\ thr'[c].ask = thr[c].ask
      BY DEF Onward
    <2>2. page[thr[c].page].flow # <<>> /\ Head(page[thr[c].page].flow) = thr[c].ask
      BY <2>1 DEF PageInv, InFlight
    <2>3. page'[thr[c].page].flow = page[thr[c].page].flow
      <3>1. page' = [page EXCEPT ![p] = pg]
        OBVIOUS
      <3>2. CASE thr[c].page = p
        BY <1>1, <2>1, <3>2
      <3>3. CASE thr[c].page # p
        BY <3>1, <3>3, <1>1
      <3>4. QED
        BY <3>2, <3>3
    <2>4. QED
      BY <2>1, <2>2, <2>3
  <1>6. QED
    BY <1>1, <1>2, <1>3, <1>4, <1>5 DEF PageInv

LEMMA PageRests ==
  ASSUME PageInv, Onward, page' = page
  PROVE  PageInv'
  <1>1. InFlight' /\ OneInFlight'
    BY DEF PageInv, Onward, OneInFlight, InFlight
  <1>2. QED
    BY <1>1 DEF PageInv, Onward

-----------------------------------------------------------------------------
(* Requests of the page, answers and events *)

RemoteInv == ServerInv /\ PageInv

\* A request reaches the server or is turned away: a step of the flow only
\* when no other is under way, and then the first that is left.
LEMMA FetchKeeps ==
  ASSUME RemoteInv, NEW p \in Pages, NEW ask \in Asks, Fetch(p, ask),
         ask \in FlowSteps => ~Waiting(p) /\ page[p].flow # <<>> /\ Head(page[p].flow) = ask
  PROVE  RemoteInv'
  <1>1. ask \in FlowSteps => \A c \in Conns : Flowing(c) => thr[c].page # p
    BY DEF Waiting, Asking, Flowing
  <1>2. CASE \E c \in Conns : Accept(c, p, ask) /\ SamePage
    <2>1. PICK c \in Conns : Accept(c, p, ask) /\ page' = page
      BY <1>2 DEF SamePage
    <2>2. /\ ServerInv' /\ \A d \in Conns \ {c} : thr'[d] = thr[d]
          /\ thr'[c].page = p /\ thr'[c].ask = ask
      BY <2>1, AcceptKeeps DEF RemoteInv
    <2>3. Live(c)'
      BY <2>1, ConnThreads DEF Accept, RemoteInv, ServerInv, ServerTypes, Live, NoThread
    <2>4. \A d \in Conns \ {c} : (Flowing(d)' <=> Flowing(d)) /\ (Live(d)' <=> Live(d))
      BY <2>2 DEF Flowing, Live
    <2>5. Flowing(c)' => ask \in FlowSteps
      BY <2>2 DEF Flowing
    <2>6. InFlight'
      BY <2>1, <2>2, <2>4, <2>5 DEF RemoteInv, PageInv, InFlight
    <2>7. OneInFlight'
      BY <1>1, <2>2, <2>4, <2>5 DEF RemoteInv, PageInv, OneInFlight
    <2>8. \A d \in Conns : thr'[d].open => Live(d)'
      BY <2>2, <2>3, <2>4 DEF RemoteInv, PageInv
    <2>9. QED
      BY <2>1, <2>2, <2>6, <2>7, <2>8 DEF RemoteInv, PageInv
  <1>3. CASE Refuse /\ page' = [page EXCEPT ![p] = OnBroken(@, ask)]
    <2>1. UNCHANGED serverVars
      BY <1>3 DEF Refuse
    <2>2. ServerInv' /\ Onward
      BY <2>1, PlaneMoves DEF serverVars, RemoteInv, ServerInv, ServerTypes
    <2>3. IsPage(page[p]) /\ page' = [page EXCEPT ![p] = OnBroken(page[p], ask)]
      BY <1>3 DEF RemoteInv, PageInv
    <2>4. /\ IsPage(OnBroken(page[p], ask))
          /\ ask \notin FlowSteps => OnBroken(page[p], ask).flow = page[p].flow
      BY <2>3, BrokenPage
    <2>5. ask \in FlowSteps => \A c \in Conns : Flowing(c)' => thr'[c].page # p
      BY <1>1, <2>2 DEF Onward
    <2>6. PageInv'
      BY <2>2, <2>3, <2>4, <2>5, PageMoves DEF RemoteInv
    <2>7. QED
      BY <2>2, <2>6 DEF RemoteInv
  <1>4. QED
    BY <1>2, <1>3 DEF Fetch

\* What answers a connection's request, or breaks it, moves its page's
\* flow on or ends it: it was the one request of the flow under way.
LEMMA RequestEnds ==
  ASSUME RemoteInv, ServerInv', Onward, NEW c \in Conns, NEW pg,
         thr[c].page \in Pages, page' = [page EXCEPT ![thr[c].page] = pg], IsPage(pg),
         thr[c].ask \notin FlowSteps => pg.flow = page[thr[c].page].flow,
         thr[c].ask \in FlowSteps => Flowing(c) /\ ~Flowing(c)'
  PROVE  RemoteInv'
  <1>1. CASE thr[c].ask \in FlowSteps
    <2>1. \A d \in Conns : Flowing(d)' => thr'[d].page # thr[c].page
      BY <1>1 DEF Onward, RemoteInv, PageInv, OneInFlight
    <2>2. QED
      BY <2>1, PageMoves DEF RemoteInv
  <1>2. CASE thr[c].ask \notin FlowSteps
    BY <1>2, PageMoves DEF RemoteInv
  <1>3. QED
    BY <1>1, <1>2

LEMMA AnsweredKeeps ==
  ASSUME RemoteInv, NEW c \in Conns, Answered(c)
  PROVE  RemoteInv'
  <1>1. ServerInv' /\ Onward /\ thr[c].at # "none" /\ Turns(c, "closing")
    BY AnswerKeeps DEF Answered, RemoteInv
  <1>2. thr[c].at # "closing" /\ ~Flowing(c)' /\ thr[c].page \in Pages
    BY <1>1, ConnThreads DEF Answered, Answer, Turns, Flowing, RemoteInv, ServerInv, Roles, Live
  <1>3. CASE thr[c].open
    <2> DEFINE ok == thr[c].ok /\ thr[c].at = "answer"
               pg == OnAnswer(page[thr[c].page], thr[c].ask, ok)
    <2>1. page' = [page EXCEPT ![thr[c].page] = pg] /\ IsPage(page[thr[c].page]) /\ ok \in BOOLEAN
      BY <1>2, <1>3 DEF Answered, RemoteInv, PageInv
    <2>2. thr[c].ask \in FlowSteps => Flowing(c)
      BY <1>1, <1>2, <1>3 DEF Flowing, Live
    <2>3. thr[c].ask \in FlowSteps => page[thr[c].page].flow # <<>>
      BY <2>2 DEF RemoteInv, PageInv, InFlight
    <2> HIDE DEF ok
    <2>4. IsPage(pg) /\ (thr[c].ask \notin FlowSteps => pg.flow = page[thr[c].page].flow)
      BY <2>1, <2>3, AnswerPage
    <2> HIDE DEF pg
    <2>5. QED
      BY <1>1, <1>2, <2>1, <2>2, <2>4, RequestEnds
  <1>4. CASE ~thr[c].open
    BY <1>1, <1>4, PageRests DEF Answered, RemoteInv
  <1>5. QED
    BY <1>3, <1>4

\* The connection of c breaks.
LEMMA BrokenKeeps ==
  ASSUME RemoteInv, ServerInv', Onward, NEW c \in Conns, ~thr'[c].open, Broken(c)
  PROVE  RemoteInv'
  <1>1. CASE thr[c].open /\ thr[c].at # "closing"
    <2> DEFINE pg == OnBroken(page[thr[c].page], thr[c].ask)
    <2>1. thr[c].page \in Pages /\ Live(c)
      BY <1>1 DEF RemoteInv, PageInv, ServerInv, Roles
    <2>2. page' = [page EXCEPT ![thr[c].page] = pg] /\ IsPage(page[thr[c].page])
      BY <1>1, <2>1 DEF Broken, RemoteInv, PageInv
    <2>3. thr[c].ask \in FlowSteps => Flowing(c)
      BY <1>1, <2>1 DEF Flowing
    <2>4. thr[c].ask \in FlowSteps => page[thr[c].page].flow # <<>>
      BY <2>3 DEF RemoteInv, PageInv, InFlight
    <2>5. IsPage(pg) /\ (thr[c].ask \notin FlowSteps => pg.flow = page[thr[c].page].flow)
      BY <2>2, <2>4, BrokenPage
    <2>6. ~Flowing(c)'
      BY DEF Flowing
    <2> HIDE DEF pg
    <2>7. QED
      BY <2>1, <2>2, <2>3, <2>5, <2>6, RequestEnds
  <1>2. CASE ~(thr[c].open /\ thr[c].at # "closing")
    BY <1>2, PageRests DEF Broken, RemoteInv
  <1>3. QED
    BY <1>1, <1>2

\* An event or the state of the stream: the flow is left as it is.
LEMMA StreamMoves ==
  ASSUME RemoteInv, ServerInv', Onward, NEW c \in Conns, thr[c].at # "none", NEW pg, IsPage(pg),
         pg.flow = page[thr[c].page].flow, page' = [page EXCEPT ![thr[c].page] = pg]
  PROVE  RemoteInv'
  <1>1. thr[c].page \in Pages
    BY DEF RemoteInv, ServerInv, Roles, Live
  <1>2. QED
    BY <1>1, PageMoves DEF RemoteInv

LEMMA StreamPage ==
  ASSUME RemoteInv, NEW c \in Conns, thr[c].at # "none"
  PROVE  thr[c].page \in Pages /\ IsPage(page[thr[c].page]) /\ DOMAIN page = Pages
  BY DEF RemoteInv, ServerInv, Roles, Live, PageInv

LEMMA StreamOpensKeeps ==
  ASSUME RemoteInv, NEW c \in Conns, StreamOpens(c)
  PROVE  RemoteInv'
  <1> DEFINE on == OnAnswer(page[thr[c].page], "events", TRUE)
             pg == OnEvent(on, Status)
  <1>1. ServerInv' /\ Onward /\ thr[c].at # "none"
    BY OpenKeeps DEF StreamOpens, Open, RemoteInv
  <1>2. IsPage(page[thr[c].page]) /\ page' = [page EXCEPT ![thr[c].page] = pg]
    BY <1>1, StreamPage DEF StreamOpens
  <1>3. IsPage(on) /\ on.flow = page[thr[c].page].flow
    BY <1>2, AnswerPage DEF FlowSteps
  <1> HIDE DEF on
  <1>4. IsPage(pg) /\ pg.flow = on.flow
    BY <1>3, EventPage
  <1> HIDE DEF pg
  <1>5. QED
    BY <1>1, <1>2, <1>3, <1>4, StreamMoves

LEMMA EventArrivesKeeps ==
  ASSUME RemoteInv, NEW c \in Conns, EventArrives(c)
  PROVE  RemoteInv'
  <1> DEFINE pg == OnEvent(page[thr[c].page], Head(subs[c]))
  <1>1. ServerInv' /\ Onward /\ thr[c].at # "none"
    BY DeliverKeeps DEF EventArrives, Deliver, RemoteInv
  <1>2. IsPage(page[thr[c].page]) /\ page' = [page EXCEPT ![thr[c].page] = pg]
    BY <1>1, StreamPage DEF EventArrives
  <1>3. IsPage(pg) /\ pg.flow = page[thr[c].page].flow
    BY <1>2, EventPage
  <1> HIDE DEF pg
  <1>4. QED
    BY <1>1, <1>2, <1>3, StreamMoves

LEMMA StreamEndsKeeps ==
  ASSUME RemoteInv, NEW c \in Conns, StreamEnds(c)
  PROVE  RemoteInv'
  <1> DEFINE pg == OnBroken(page[thr[c].page], "events")
  <1>1. ServerInv' /\ Onward /\ thr[c].at # "none"
    BY EndStreamKeeps DEF StreamEnds, EndStream, RemoteInv
  <1>2. CASE thr[c].open
    <2>1. IsPage(page[thr[c].page]) /\ page' = [page EXCEPT ![thr[c].page] = pg]
      BY <1>1, <1>2, StreamPage DEF StreamEnds
    <2>2. IsPage(pg) /\ pg.flow = page[thr[c].page].flow
      BY <2>1, BrokenPage DEF FlowSteps
    <2> HIDE DEF pg
    <2>3. QED
      BY <1>1, <2>1, <2>2, StreamMoves
  <1>3. CASE ~thr[c].open
    BY <1>1, <1>3, PageRests DEF StreamEnds, RemoteInv
  <1>4. QED
    BY <1>2, <1>3

LEMMA RefilledKeeps ==
  ASSUME RemoteInv, NEW t \in Threads, Refilled(t)
  PROVE  RemoteInv'
  <1>1. ServerInv' /\ Onward /\ thr[t].at = "refill"
    BY RefillKeeps DEF Refilled, Refill, RemoteInv
  <1>2. CASE t # Gui /\ raised' /\ thr'[t].at = "closing" /\ thr[t].open
    <2> DEFINE pg == OnAnswer(page[thr[t].page], thr[t].ask, FALSE)
    <2>1. t \in Conns /\ thr[t].ask \in Posts
      BY <1>1, <1>2 DEF Threads, RemoteInv, ServerInv, Roles, Telling
    <2>2. /\ thr[t].page \in Pages /\ IsPage(page[thr[t].page])
          /\ page' = [page EXCEPT ![thr[t].page] = pg]
      BY <1>1, <1>2, <2>1, StreamPage DEF Refilled
    <2>3. (thr[t].ask \in FlowSteps => Flowing(t)) /\ ~Flowing(t)'
      BY <1>1, <1>2 DEF Flowing, Live
    <2>4. thr[t].ask \in FlowSteps => page[thr[t].page].flow # <<>>
      BY <2>1, <2>3 DEF RemoteInv, PageInv, InFlight
    <2>5. IsPage(pg) /\ (thr[t].ask \notin FlowSteps => pg.flow = page[thr[t].page].flow)
      BY <2>2, <2>4, AnswerPage
    <2> HIDE DEF pg
    <2>6. QED
      BY <1>1, <2>1, <2>2, <2>3, <2>5, RequestEnds
  <1>3. CASE ~(t # Gui /\ raised' /\ thr'[t].at = "closing" /\ thr[t].open)
    BY <1>1, <1>3, PageRests DEF Refilled, RemoteInv
  <1>4. QED
    BY <1>2, <1>3

-----------------------------------------------------------------------------
(* The steps of the page and of the station *)

LEMMA Unserved ==
  ASSUME RemoteInv, UNCHANGED serverVars
  PROVE  ServerInv' /\ Onward
  BY PlaneMoves DEF serverVars, RemoteInv, ServerInv, ServerTypes

LEMMA ClickKeeps ==
  ASSUME RemoteInv, NEW p \in Pages, Click(p)
  PROVE  RemoteInv'
  <1>1. PICK f \in Flows(page[p]) : page' = [page EXCEPT ![p].flow = f]
    BY DEF Click
  <1>2. /\ DOMAIN page = Pages /\ IsPage(page[p]) /\ page[p].flow = <<>> /\ UNCHANGED serverVars
        /\ page' = [page EXCEPT ![p] = [page[p] EXCEPT !.flow = f]]
    BY <1>1 DEF Click, RemoteInv, PageInv
  <1>3. f \in Seq(FlowSteps)
    <2>1. /\ <<"lease">> \in Seq(FlowSteps) /\ <<"release">> \in Seq(FlowSteps)
          /\ <<"abort">> \in Seq(FlowSteps) /\ <<"request", "confirm">> \in Seq(FlowSteps)
          /\ <<"stage", "request", "confirm">> \in Seq(FlowSteps)
          /\ <<"lease", "stage", "request", "confirm">> \in Seq(FlowSteps)
      BY DEF FlowSteps
    <2>2. f \in {<<"lease">>, <<"release">>, <<"abort">>, <<"request", "confirm">>,
                 <<"stage", "request", "confirm">>, <<"lease", "stage", "request", "confirm">>}
      BY <1>1 DEF Flows
    <2>3. QED
      BY <2>1, <2>2
  <1>4. IsPage([page[p] EXCEPT !.flow = f])
    BY <1>2, <1>3, FlowSet
  <1>5. ServerInv' /\ Onward
    BY <1>2, Unserved
  <1>6. \A c \in Conns : Flowing(c)' => thr'[c].page # p
    BY <1>2, <1>5 DEF Onward, RemoteInv, PageInv, InFlight
  <1>7. QED
    BY <1>2, <1>4, <1>5, <1>6, PageMoves DEF RemoteInv

LEMMA ReloadKeeps ==
  ASSUME RemoteInv, NEW p \in Pages, Reload(p)
  PROVE  RemoteInv'
  <1>1. ServerInv' /\ Onward /\ \A c \in Conns : thr[c].page = p => ~thr'[c].open
    BY ReloadGone DEF Reload, RemoteInv
  <1>2. page' = [page EXCEPT ![p] = Fresh]
    BY DEF Reload
  <1>3. \A c \in Conns : Flowing(c)' => thr'[c].page # p
    BY <1>1 DEF Onward, Flowing
  <1>4. QED
    BY <1>1, <1>2, <1>3, FreshIs, PageMoves DEF RemoteInv

\* Connect, FlowStep, Beat and Look.
LEMMA AskKeeps ==
  ASSUME RemoteInv, NEW p \in Pages, Connect(p) \/ FlowStep(p) \/ Beat(p) \/ Look(p)
  PROVE  RemoteInv'
  <1>1. CASE FlowStep(p)
    <2>1. page[p].flow # <<>> /\ ~Waiting(p) /\ Fetch(p, Head(page[p].flow))
      BY <1>1 DEF FlowStep
    <2>2. page[p].flow \in Seq(FlowSteps)
      BY DEF RemoteInv, PageInv, IsPage
    <2>3. Head(page[p].flow) \in FlowSteps
      BY <2>1, <2>2
    <2>4. QED
      BY <2>1, <2>3, FetchKeeps DEF Asks
  <1>2. ASSUME NEW ask \in {"events", "heartbeat", "frame", "render"}, Fetch(p, ask)
        PROVE  RemoteInv'
    BY <1>2, FetchKeeps DEF Asks, FlowSteps
  <1>3. QED
    BY <1>1, <1>2 DEF Connect, Beat, Look

LEMMA StationKeeps ==
  ASSUME RemoteInv, Station
  PROVE  RemoteInv'
  <1>1. ServerInv' /\ Onward
    BY RxProgressKeeps, RxCompleteKeeps, TxAbandonedKeeps, PlaneKeeps DEF Station, RemoteInv
  <1>2. QED
    BY <1>1, PageRests DEF Station, RemoteInv

LEMMA StopServerKeeps ==
  ASSUME RemoteInv, StopServer
  PROVE  RemoteInv'
  <1>1. control' \in [state : TxStates, holder : Pages \cup {None}]
    BY IdleIs DEF StopServer
  <1>2. ServerInv' /\ Onward
    BY <1>1, PlaneMoves DEF StopServer, RemoteInv
  <1>3. QED
    BY <1>2, PageRests DEF StopServer, RemoteInv

LEMMA ServerStepKeeps ==
  ASSUME RemoteInv, ServerStep
  PROVE  RemoteInv'
  <1>1. ServerInv
    BY DEF RemoteInv
  <1>2. ASSUME NEW c \in Conns,
               \/ Finish(c) \/ ReadFails(c)
               \/ RouteControl(c) \/ RouteCompose(c) \/ RouteFrame(c) \/ RouteEvents(c)
               \/ Encode(c) \/ Compose(c) \/ Control(c)
               \/ Subscribe(c) \/ OpenFails(c)
        PROVE  ServerInv' /\ Onward
    BY <1>1, <1>2, FinishKeeps, ReadFailsKeeps, RouteControlKeeps, RouteComposeKeeps, RouteFrameKeeps,
       RouteEventsKeeps, EncodeKeeps, ComposeKeeps, ControlKeeps, SubscribeKeeps, OpenFailsKeeps
  <1>3. ASSUME NEW t \in Threads,
               \/ Tell(t) \/ DropOldest(t) \/ Told(t)
               \/ \E q \in thr[t].todo : Put(t, q)
        PROVE  ServerInv' /\ Onward
    BY <1>1, <1>3, TellKeeps, DropOldestKeeps, ToldKeeps, PutKeeps
  <1>4. ServerInv' /\ Onward
    BY <1>2, <1>3 DEF ServerStep, Threads
  <1>5. QED
    BY <1>4, PageRests DEF ServerStep, RemoteInv

LEMMA RemoteStarts == Init => RemoteInv
  <1> SUFFICES ASSUME Init
               PROVE  RemoteInv
    OBVIOUS
  <1>1. ServerInv
    BY ServerStarts DEF Init
  <1>2. DOMAIN page = Pages /\ \A p \in Pages : IsPage(page[p])
    BY FreshIs DEF Init
  <1>3. \A c \in Conns : ~thr[c].open
    BY DEF Init, InitServer, NoThread
  <1>4. QED
    BY <1>1, <1>2, <1>3 DEF RemoteInv, PageInv, InFlight, OneInFlight, Flowing

LEMMA RemoteStep == RemoteInv /\ [Next]_vars => RemoteInv'
  <1> SUFFICES ASSUME RemoteInv, [Next]_vars
               PROVE  RemoteInv'
    OBVIOUS
  <1>1. CASE ServerStep
    BY <1>1, ServerStepKeeps
  <1>2. ASSUME NEW p \in Pages,
               Connect(p) \/ Click(p) \/ FlowStep(p) \/ Beat(p) \/ Look(p) \/ Reload(p)
        PROVE  RemoteInv'
    BY <1>2, AskKeeps, ClickKeeps, ReloadKeeps
  <1>3. ASSUME NEW c \in Conns,
               Answered(c) \/ StreamOpens(c) \/ EventArrives(c) \/ StreamEnds(c)
        PROVE  RemoteInv'
    BY <1>3, AnsweredKeeps, StreamOpensKeeps, EventArrivesKeeps, StreamEndsKeeps
  <1>4. ASSUME NEW c \in Conns, Drop(c) \/ Reaped(c)
        PROVE  RemoteInv'
    <2>1. /\ Gone(c) /\ Broken(c) /\ deadlines' = deadlines
          /\ late' = late \/ late' = late \ {c}
          /\ UNCHANGED <<slots, renders, perPage, subs, leaked, control, frame>>
      BY <1>4 DEF Drop, Reaped, ShutLate
    <2>2. ServerInv' /\ Onward /\ ~thr'[c].open
      BY <2>1, GoneKeeps DEF RemoteInv
    <2>3. QED
      BY <2>1, <2>2, BrokenKeeps
  <1>5. ASSUME NEW c \in Conns, Late(c)
        PROVE  RemoteInv'
    <2>1. ServerInv' /\ Onward /\ page' = page
      BY <1>5, PickLateKeeps DEF Late, RemoteInv
    <2>2. QED
      BY <2>1, PageRests DEF RemoteInv
  <1>6. ASSUME NEW t \in Threads, Refilled(t)
        PROVE  RemoteInv'
    BY <1>6, RefilledKeeps
  <1>7. CASE Station \/ StopServer
    BY <1>7, StationKeeps, StopServerKeeps
  <1>8. CASE UNCHANGED <<serverVars, page>>
    <2>1. ServerInv' /\ Onward
      BY <1>8, Unserved
    <2>2. QED
      BY <1>8, <2>1, PageRests DEF RemoteInv
  <1>9. CASE ServerStops \/ StartServer \/ UNCHANGED vars
    <2>1. UNCHANGED <<serverVars, page>>
      BY <1>9 DEF ServerStops, StartServer, vars
    <2>2. QED
      BY <1>8, <2>1
  <1>10. QED
    BY <1>1, <1>2, <1>3, <1>4, <1>5, <1>6, <1>7, <1>9 DEF Next, Threads

LEMMA RemoteAlways == Spec => []RemoteInv
  BY RemoteStarts, RemoteStep, PTL DEF Spec

-----------------------------------------------------------------------------
(* Theorems *)

\* Whichever way a request ends, by an answer, a read that fails, an
\* exception in publish() or a client that leaves, it gives back its
\* connection slot, its render slot and its share of its address's streams;
\* and whoever waits for a client's bytes has a deadline running or a reaper
\* about to shut it (server.py:340-383, 551-574, 904-988).
THEOREM ServerGivesBack == Spec => []PlacesGivenBack
  <1>1. RemoteInv => PlacesGivenBack
    BY DEF RemoteInv, ServerInv, PlacesGivenBack
  <1>2. QED
    BY <1>1, RemoteAlways, PTL

\* A PNG encoded outside the lock is never kept for a frame that the GUI has
\* replaced or cleared meanwhile, however many request threads encode and
\* however many frames are received (service.py:278-313).
THEOREM ServerShowsCurrent == Spec => []PreviewCurrent
  <1>1. RemoteInv => PreviewCurrent
    BY DEF RemoteInv, ServerInv
  <1>2. QED
    BY <1>1, RemoteAlways, PTL

\* No order of answers, events, broken connections and reloads leaves a page
\* in control with its heartbeat stopped, so one that lost its lease asks
\* again and is told (page.py:670-690, 764-776).
THEOREM PageNoticesLoss == Spec => []LostLeaseNoticed
  <1>1. RemoteInv => LostLeaseNoticed
    BY DEF RemoteInv, PageInv, IsPage, LostLeaseNoticed
  <1>2. QED
    BY <1>1, RemoteAlways, PTL

\* A page's flow has one request under way at most, and it is the flow's next
\* step: no answer is taken for that of another step, or of a flow the page
\* has given up (page.py:685-716).
THEOREM PageStepsInOrder == Spec => [](InFlight /\ OneInFlight)
  <1>1. RemoteInv => InFlight /\ OneInFlight
    BY DEF RemoteInv, PageInv
  <1>2. QED
    BY <1>1, RemoteAlways, PTL

-----------------------------------------------------------------------------
(* Remote and local transmit.                                              *)
(*                                                                         *)
(* The argument has four parts.  Every transmission that has not ended, or *)
(* whose end the GUI has not handled, is counted in inFlight (Counted).    *)
(* The transmit callbacks of requests travel in order: through the plane's *)
(* queue, the thread that runs them, the GUI's queue and its handler       *)
(* (Pipeline).  While the operator's transmission is on its way, only      *)
(* slipped requests have anything left to say (Apart).  And while the      *)
(* plane transmits, at most its own transmission is counted (OneAtATime).  *)

Calls == [kind : {"transmit", "unkey"}, req : Requests]

Shape ==
  /\ state \in {"idle", "awaiting_confirm", "transmitting"}
  /\ issued \in 0 .. MaxRequests
  /\ state # "idle" => pending = issued /\ issued \in Requests
  /\ calls \in Seq(Calls)
  /\ running \in Calls \cup {[kind |-> "none", req |-> 0]}
  /\ dispatched \in 0 .. MaxTx /\ slotsRun \in 0 .. dispatched
  /\ covers \in 0 .. dispatched
  /\ stage \in {"idle", "running", "ending"} /\ (stage # "idle" => slotsRun > 0)
  /\ cause \in [Slots -> 0 .. MaxRequests]
  /\ guiQueue \in Seq(Signal)
  /\ gui \in {"loop", "loading", "checked", "reclaiming", "sending", "stopping", "stop"}
  /\ gui \in {"loading", "checked"} => guiReq \in Requests
  /\ inFlight \in Nat

\* The last transmission the worker has ended.
LastDone == IF stage = "idle" THEN slotsRun ELSE slotsRun - 1

Finished(i) == guiQueue[i].kind = "finished"
Counted ==
  /\ dispatched - inFlight <= LastDone
  /\ \A i \in DOMAIN guiQueue : Finished(i) =>
        dispatched - inFlight < guiQueue[i].n /\ guiQueue[i].n <= LastDone
  /\ \A i, j \in DOMAIN guiQueue :
        i < j /\ Finished(i) /\ Finished(j) => guiQueue[i].n < guiQueue[j].n

\* r is older than every request whose transmit callback is still ahead.
Posted(i) == guiQueue[i].kind = "request"
Handling == gui \in {"loading", "checked"}
BeforeCalls(r) == \A i \in DOMAIN calls : calls[i].kind = "transmit" => r < calls[i].req
BeforeRunning(r) == BeforeCalls(r) /\ (running.kind = "transmit" => r < running.req)
BeforePosted(r) ==
  BeforeRunning(r) /\ \A i \in DOMAIN guiQueue : Posted(i) => r < guiQueue[i].n
BeforeHandled(r) == BeforePosted(r) /\ (Handling => r < guiReq)

Pipeline ==
  /\ \A i, j \in DOMAIN calls :
        i < j /\ calls[i].kind = "transmit" /\ calls[j].kind = "transmit"
          => calls[i].req < calls[j].req
  /\ running.kind = "transmit" => BeforeCalls(running.req)
  /\ \A i, j \in DOMAIN guiQueue :
        i < j /\ Posted(i) /\ Posted(j) => guiQueue[i].n < guiQueue[j].n
  /\ \A i \in DOMAIN guiQueue : Posted(i) => BeforeRunning(guiQueue[i].n)
  /\ Handling => BeforePosted(guiReq)
  /\ \A m \in 1 .. dispatched : BeforeHandled(cause[m])

\* No transmit callback is about a request not yet granted.
NotYet(r) == state = "awaiting_confirm" => r < issued
Granted ==
  /\ \A i \in DOMAIN calls : calls[i].kind = "transmit" =>
        calls[i].req <= issued /\ NotYet(calls[i].req)
  /\ running.kind = "transmit" => running.req <= issued /\ NotYet(running.req)
  /\ \A i \in DOMAIN guiQueue : Posted(i) => guiQueue[i].n <= issued /\ NotYet(guiQueue[i].n)
  /\ Handling => guiReq <= issued /\ NotYet(guiReq)
  /\ \A m \in 1 .. dispatched : cause[m] <= issued /\ NotYet(cause[m])

LocalOnItsWay == \E m \in 1 .. dispatched : m > LastDone /\ cause[m] = 0
UnkeysSlipped ==
  /\ \A i \in DOMAIN calls : calls[i].kind = "unkey" => calls[i].req \in slipped
  /\ running.kind = "unkey" => running.req \in slipped
Apart ==
  /\ state = "transmitting" /\ (gui \in {"reclaiming", "sending"} \/ LocalOnItsWay)
        => pending \in slipped
  /\ gui = "sending" \/ LocalOnItsWay => UnkeysSlipped

Clean == stray = {} /\ slipped = {}
OneAtATime ==
  state = "transmitting" /\ Clean =>
    inFlight <= 1 /\ (inFlight = 1 => dispatched > 0 /\ cause[dispatched] = pending)

NotOver(m) == m > slotsRun \/ (m = slotsRun /\ stage = "running")
Unkeying(r) ==
  \/ running = [kind |-> "unkey", req |-> r]
  \/ \E i \in DOMAIN calls : calls[i] = [kind |-> "unkey", req |-> r]
Covered(m) ==
  \/ state = "transmitting" /\ pending = cause[m]
  \/ m <= covers
  \/ Unkeying(cause[m])
Watched ==
  Clean => \A m \in 1 .. dispatched : NotOver(m) /\ cause[m] # 0 => Covered(m)

IInv == Shape /\ Counted /\ Pipeline /\ Granted /\ Apart /\ OneAtATime /\ Watched

----------------------------------------------------------------------------
(* Sequences.                                                              *)

\* What is behind the head of a queue.
LEMMA TailOf ==
  ASSUME NEW S, NEW s \in Seq(S), s # <<>>
  PROVE  /\ Tail(s) \in Seq(S) /\ Head(s) = s[1] /\ Head(s) \in S /\ 1 \in DOMAIN s
         /\ \A i \in DOMAIN Tail(s) : i \in Nat /\ i + 1 \in DOMAIN s /\ 1 < i + 1
                                     /\ Tail(s)[i] = s[i + 1]
         /\ \A i \in DOMAIN s : i \in Nat /\ (i # 1 => i - 1 \in DOMAIN Tail(s))
  OBVIOUS

\* What is appended comes last.
LEMMA AppendOf ==
  ASSUME NEW S, NEW s \in Seq(S), NEW e \in S
  PROVE  /\ Append(s, e) \in Seq(S) /\ Len(s) \in Nat
         /\ \A i \in DOMAIN s : i \in DOMAIN Append(s, e) /\ Append(s, e)[i] = s[i]
                                /\ i \in Nat /\ i < Len(s) + 1
         /\ Len(s) + 1 \in DOMAIN Append(s, e) /\ Append(s, e)[Len(s) + 1] = e
         /\ \A i \in DOMAIN Append(s, e) : i \in DOMAIN s \/ i = Len(s) + 1
  OBVIOUS

----------------------------------------------------------------------------
(* Shape.                                                                  *)

LEMMA ShapeInit == GlueInit => Shape
  BY BoundsAssumption DEF GlueInit, Plane!Init, Plane!NoCall, Tx!Init, Shape, Slots, MaxTx

\* What the plane does by itself.
LEMMA ShapePlane ==
  ASSUME Shape, Plane!Request \/ Plane!Withdraw \/ Plane!Grant \/ Plane!Revoke
                \/ Plane!Finish \/ Plane!Deliver \/ Plane!Returned \/ UNCHANGED planeVars
  PROVE  /\ state' \in {"idle", "awaiting_confirm", "transmitting"}
         /\ issued' \in 0 .. MaxRequests
         /\ state' # "idle" => pending' = issued' /\ issued' \in Requests
         /\ calls' \in Seq(Calls)
         /\ running' \in Calls \cup {[kind |-> "none", req |-> 0]}
  <1> USE DEF Shape
  <1>1. CASE Plane!Request
    BY <1>1, BoundsAssumption DEF Plane!Request, Requests
  <1>2. CASE Plane!Withdraw \/ Plane!Finish \/ UNCHANGED planeVars
    BY <1>2 DEF Plane!Withdraw, Plane!Finish, planeVars
  <1>3. CASE Plane!Grant
    <2>1. calls' = Append(calls, [kind |-> "transmit", req |-> pending]) /\ pending \in Requests
      BY <1>3 DEF Plane!Grant, Plane!Queue
    <2>2. calls' \in Seq(Calls)
      BY <2>1, AppendOf DEF Calls
    <2>3. QED
      BY <1>3, <2>2 DEF Plane!Grant
  <1>4. CASE Plane!Revoke
    <2>1. calls' = Append(calls, [kind |-> "unkey", req |-> pending]) /\ pending \in Requests
      BY <1>4 DEF Plane!Revoke, Plane!Queue
    <2>2. calls' \in Seq(Calls)
      BY <2>1, AppendOf DEF Calls
    <2>3. QED
      BY <1>4, <2>2 DEF Plane!Revoke
  <1>5. CASE Plane!Deliver
    <2>1. calls # <<>> /\ running' = Head(calls) /\ calls' = Tail(calls)
      BY <1>5 DEF Plane!Deliver
    <2>2. Head(calls) \in Calls /\ Tail(calls) \in Seq(Calls)
      BY <2>1, TailOf
    <2>3. QED
      BY <1>5, <2>1, <2>2 DEF Plane!Deliver
  <1>6. CASE Plane!Returned
    BY <1>6 DEF Plane!Returned, Plane!NoCall
  <1>7. QED
    BY <1>1, <1>2, <1>3, <1>4, <1>5, <1>6

PlaneStep ==
  \/ Plane!Request \/ Plane!Withdraw \/ Plane!Grant \/ Plane!Revoke
  \/ Plane!Finish \/ Plane!Deliver \/ Plane!Returned \/ UNCHANGED planeVars

\* Whatever the application does, the plane moves as it promised.
LEMMA PlaneSteps == ASSUME [GlueNext]_glueVars PROVE PlaneStep
  <1> USE DEF PlaneStep
  <1>1. CASE UNCHANGED glueVars
    BY <1>1 DEF glueVars
  <1>2. CASE Remote
    BY <1>2 DEF Remote, RemoteRequest, RemoteConfirm, RemoteGivesUp
  <1>3. CASE Callbacks
    BY <1>3 DEF Callbacks, CallbackBegins, TransmitCallback, UnkeyCallback
  <1>4. CASE WorkerThread \/ WatchdogStops
    BY <1>4 DEF WorkerThread, WorkerBegins, WorkerConcludes, WorkerEnds, WatchdogStops,
                WorkerOnly
  <1>5. CASE Handlers
    BY <1>5 DEF Handlers, Abandon, PlaneFinished, ImageLoaded, DispatchRemote,
                ReclaimReturns, DispatchLocal, StopLocal
  <1>6. CASE Delivery
    BY <1>6 DEF Delivery, OnRequestSignal, OnFinished, AfterFinished, RemoteTxEnded,
                PlaneFinished
  <1>7. CASE PressTransmit \/ PressStop
    BY <1>7 DEF PressTransmit, PressStop, Reclaim
  <1>8. QED
    BY <1>1, <1>2, <1>3, <1>4, <1>5, <1>6, <1>7 DEF GlueNext

\* The worker's part of the shape.
LEMMA ShapeWorker ==
  ASSUME Shape, [GlueNext]_glueVars
  PROVE  /\ dispatched' \in 0 .. MaxTx /\ slotsRun' \in 0 .. dispatched'
         /\ covers' \in 0 .. dispatched'
         /\ stage' \in {"idle", "running", "ending"} /\ (stage' # "idle" => slotsRun' > 0)
  <1> USE BoundsAssumption DEF Shape, MaxTx
  <1>1. CASE UNCHANGED txVars
    BY <1>1 DEF txVars
  <1>2. CASE UnkeyCallback \/ StopLocal
    BY <1>2 DEF UnkeyCallback, StopLocal, Tx!RequestStop
  <1>3. CASE WorkerBegins
    BY <1>3 DEF WorkerBegins, Tx!Begin, Tx!BeginCovered
  <1>4. CASE WorkerConcludes \/ WorkerEnds \/ WatchdogStops
    BY <1>4 DEF WorkerConcludes, WorkerEnds, WatchdogStops, Tx!Conclude, Tx!End, Tx!Overrun
  <1>5. CASE DispatchRemote \/ DispatchLocal
    BY <1>5 DEF DispatchRemote, DispatchLocal, DispatchFor, Tx!Dispatch
  <1>6. CASE UNCHANGED glueVars
    BY <1>6 DEF glueVars, txVars
  <1>7. CASE GlueNext /\ ~(UnkeyCallback \/ StopLocal \/ WorkerBegins \/ WorkerConcludes
                       \/ WorkerEnds \/ WatchdogStops \/ DispatchRemote \/ DispatchLocal)
    <2>1. UNCHANGED txVars
      BY <1>7 DEF GlueNext, Remote, Callbacks, WorkerThread, Handlers, Delivery, RemoteRequest,
                  RemoteConfirm, RemoteGivesUp, CallbackBegins, PlaneOnly, TransmitCallback,
                  Abandon, ImageLoaded, ReclaimReturns, OnRequestSignal, OnFinished,
                  PressTransmit, PressStop
    <2>2. QED
      BY <1>1, <2>1
  <1>8. QED
    BY <1>2, <1>3, <1>4, <1>5, <1>6, <1>7

\* The GUI's part.
LEMMA ShapeGui ==
  ASSUME Shape, [GlueNext]_glueVars
  PROVE  /\ cause' \in [Slots -> 0 .. MaxRequests]
         /\ guiQueue' \in Seq(Signal)
         /\ gui' \in {"loop", "loading", "checked", "reclaiming", "sending", "stopping", "stop"}
         /\ gui' \in {"loading", "checked"} => guiReq' \in Requests
         /\ inFlight' \in Nat
  <1> USE DEF Shape, GuiTo
  <1>1. CASE UNCHANGED <<cause, guiQueue, guiVars>>
    BY <1>1 DEF guiVars
  <1>2. CASE TransmitCallback
    <2>1. guiQueue' = Append(guiQueue, [kind |-> "request", n |-> running.req])
          /\ running.req \in Requests
      BY <1>2 DEF TransmitCallback, Calls
    <2>2. guiQueue' \in Seq(Signal)
      BY <2>1, AppendOf DEF Signal
    <2>3. QED
      BY <1>2, <2>2 DEF TransmitCallback, guiVars
  <1>3. CASE WorkerEnds
    <2>1. guiQueue' = Append(guiQueue, [kind |-> "finished", n |-> slotsRun])
          /\ slotsRun \in Slots
      BY <1>3, BoundsAssumption DEF WorkerEnds, Emit, Tx!End, Slots, MaxTx
    <2>2. guiQueue' \in Seq(Signal)
      BY <2>1, AppendOf DEF Signal
    <2>3. QED
      BY <1>3, <2>2 DEF WorkerEnds, WorkerOnly, guiVars
  <1>4. CASE OnRequestSignal \/ OnFinished
    <2>1. guiQueue # <<>> /\ guiQueue' = Tail(guiQueue)
      BY <1>4 DEF OnRequestSignal, OnFinished, Take
    <2>2. guiQueue' \in Seq(Signal) /\ Head(guiQueue) \in Signal
      BY <2>1, TailOf
    <2>3. CASE OnRequestSignal
      <3>1. guiReq' \in Requests
        BY <2>2, <2>3 DEF OnRequestSignal, Take, Signal
      <3>2. QED
        BY <2>2, <2>3, <3>1 DEF OnRequestSignal
    <2>4. CASE OnFinished
      BY <2>2, <2>4 DEF OnFinished, Take
    <2>5. QED
      BY <1>4, <2>3, <2>4
  <1>5. CASE DispatchRemote \/ DispatchLocal
    <2>1. \E n \in 0 .. MaxRequests : cause' = [cause EXCEPT ![dispatched + 1] = n]
      BY <1>5, BoundsAssumption DEF DispatchRemote, DispatchLocal, DispatchFor, Requests
    <2>2. cause' \in [Slots -> 0 .. MaxRequests]
      BY <2>1
    <2>3. QED
      BY <1>5, <2>2 DEF DispatchRemote, DispatchLocal, DispatchFor, OneMore
  <1>6. CASE Abandon \/ ImageLoaded \/ PressTransmit \/ PressStop \/ ReclaimReturns \/ StopLocal
    BY <1>6 DEF Abandon, ImageLoaded, PressTransmit, PressStop, ReclaimReturns, StopLocal
  <1>7. CASE UNCHANGED glueVars \/ Remote \/ CallbackBegins \/ UnkeyCallback \/ WorkerBegins
             \/ WorkerConcludes \/ WatchdogStops
    BY <1>1, <1>7 DEF glueVars, Remote, RemoteRequest, RemoteConfirm, RemoteGivesUp, CallbackBegins,
             PlaneOnly, UnkeyCallback, WorkerBegins, WorkerConcludes, WatchdogStops, WorkerOnly
  <1>8. QED
    BY <1>2, <1>3, <1>4, <1>5, <1>6, <1>7
       DEF GlueNext, Callbacks, WorkerThread, Handlers, Delivery

LEMMA ShapeStep == ASSUME Shape, [GlueNext]_glueVars PROVE Shape'
  BY PlaneSteps, ShapePlane, ShapeWorker, ShapeGui DEF PlaneStep, Shape

----------------------------------------------------------------------------
(* Every transmission under way is counted.                                *)

LEMMA CountedInit == GlueInit => Counted
  BY DEF GlueInit, Tx!Init, Counted, LastDone

\* The signals left in the queue are those behind the head.
LEMMA CountedTail ==
  ASSUME Shape, Counted, guiQueue # <<>>, guiQueue' = Tail(guiQueue),
         UNCHANGED <<dispatched, slotsRun, stage>>,
         inFlight' = IF Finished(1) THEN inFlight - 1 ELSE inFlight
  PROVE  Counted'
  <1>1. \A i \in DOMAIN guiQueue' :
           i \in Nat /\ i + 1 \in DOMAIN guiQueue /\ 1 < i + 1 /\ guiQueue'[i] = guiQueue[i + 1]
    BY TailOf DEF Shape
  <1>2. 1 \in DOMAIN guiQueue
    BY TailOf DEF Shape
  <1>3. \A i \in DOMAIN guiQueue : guiQueue[i].n \in Nat /\ i \in Nat
    <2>1. \A i \in DOMAIN guiQueue : guiQueue[i] \in Signal /\ i \in Nat
      BY DEF Shape
    <2>2. QED
      BY <2>1, BoundsAssumption DEF Signal, Requests, Slots, MaxTx
  <1>4. LastDone' = LastDone /\ LastDone \in Int /\ dispatched \in Nat /\ inFlight \in Nat
    BY BoundsAssumption DEF LastDone, Shape, MaxTx
  <1>5. dispatched' - inFlight' <= LastDone
    BY <1>2, <1>3, <1>4 DEF Counted
  <1>6. ASSUME NEW i \in DOMAIN guiQueue', Finished(i)'
        PROVE  dispatched' - inFlight' < guiQueue'[i].n /\ guiQueue'[i].n <= LastDone
    <2>1. /\ i + 1 \in DOMAIN guiQueue /\ guiQueue'[i] = guiQueue[i + 1]
          /\ Finished(i + 1) /\ 1 < i + 1
      BY <1>1, <1>6 DEF Finished
    <2>2. dispatched - inFlight < guiQueue[i + 1].n /\ guiQueue[i + 1].n <= LastDone
      BY <2>1 DEF Counted
    <2>3. Finished(1) => dispatched - inFlight < guiQueue[1].n /\ guiQueue[1].n < guiQueue[i + 1].n
      BY <1>2, <2>1 DEF Counted
    <2>4. QED
      BY <1>2, <1>3, <1>4, <2>1, <2>2, <2>3
  <1>7. \A i, j \in DOMAIN guiQueue' :
           i < j /\ Finished(i)' /\ Finished(j)' => guiQueue'[i].n < guiQueue'[j].n
    BY <1>1 DEF Counted, Finished
  <1>8. QED
    BY <1>4, <1>5, <1>6, <1>7 DEF Counted

LEMMA CountedStep == ASSUME Shape, Shape', Counted, [GlueNext]_glueVars PROVE Counted'
  <1>0. dispatched \in Nat /\ inFlight \in Nat /\ slotsRun \in Nat
    BY BoundsAssumption DEF Shape, MaxTx
  <1>1. CASE UNCHANGED <<dispatched, inFlight, guiQueue>> /\ LastDone' = LastDone
    BY <1>1 DEF Counted, Finished
  <1>2. CASE TransmitCallback
    <2> DEFINE e == [kind |-> "request", n |-> running.req]
    <2>1. guiQueue' = Append(guiQueue, e) /\ e \in Signal /\ e.kind # "finished"
      BY <1>2 DEF TransmitCallback, Shape, Calls, Signal
    <2>2. UNCHANGED <<dispatched, inFlight, slotsRun, stage>>
      BY <1>2 DEF TransmitCallback, txVars, guiVars
    <2> HIDE DEF e
    <2>3. \A i \in DOMAIN guiQueue' : Finished(i)' =>
             i \in DOMAIN guiQueue /\ Finished(i) /\ guiQueue'[i] = guiQueue[i]
      BY <2>1, AppendOf DEF Shape, Finished
    <2>4. QED
      BY <2>2, <2>3 DEF Counted, LastDone
  <1>3. CASE WorkerEnds
    <2> DEFINE e == [kind |-> "finished", n |-> slotsRun]
    <2>1. guiQueue' = Append(guiQueue, e) /\ e \in Signal /\ e.n = slotsRun
      BY <1>3, BoundsAssumption DEF WorkerEnds, Emit, Tx!End, Shape, Signal, Slots, MaxTx
    <2>2. /\ UNCHANGED <<dispatched, inFlight, slotsRun>>
          /\ LastDone' = slotsRun /\ LastDone = slotsRun - 1
      BY <1>3 DEF WorkerEnds, WorkerOnly, guiVars, Tx!End, LastDone
    <2> HIDE DEF e
    <2>3. /\ \A i \in DOMAIN guiQueue : i \in Nat /\ i < Len(guiQueue) + 1
          /\ guiQueue'[Len(guiQueue) + 1] = e /\ Len(guiQueue) \in Nat
          /\ \A i \in DOMAIN guiQueue' :
                \/ i \in DOMAIN guiQueue /\ guiQueue'[i] = guiQueue[i]
                \/ i = Len(guiQueue) + 1
      BY <2>1, AppendOf DEF Shape
    <2>4. \A i \in DOMAIN guiQueue : guiQueue[i].n \in Nat
      <3>1. \A i \in DOMAIN guiQueue : guiQueue[i] \in Signal
        BY DEF Shape
      <3>2. QED
        BY <3>1, BoundsAssumption DEF Signal, Requests, Slots, MaxTx
    <2>5. \A i \in DOMAIN guiQueue' : Finished(i)' =>
             /\ dispatched' - inFlight' < guiQueue'[i].n
             /\ guiQueue'[i].n <= LastDone'
      BY <1>0, <2>1, <2>2, <2>3, <2>4 DEF Counted, Finished
    <2>6. \A i, j \in DOMAIN guiQueue' :
             i < j /\ Finished(i)' /\ Finished(j)' => guiQueue'[i].n < guiQueue'[j].n
      BY <1>0, <2>1, <2>2, <2>3, <2>4 DEF Counted, Finished
    <2>7. QED
      BY <1>0, <2>2, <2>5, <2>6 DEF Counted
  <1>4. CASE OnRequestSignal
    <2>1. /\ guiQueue # <<>> /\ guiQueue' = Tail(guiQueue) /\ ~Finished(1)
          /\ UNCHANGED <<dispatched, slotsRun, stage, inFlight>>
      BY <1>4, TailOf DEF OnRequestSignal, Take, txVars, Finished, Shape
    <2>2. QED
      BY <2>1, CountedTail
  <1>5. CASE OnFinished
    <2>1. /\ guiQueue # <<>> /\ guiQueue' = Tail(guiQueue) /\ Finished(1) /\ 1 \in DOMAIN guiQueue
          /\ UNCHANGED <<dispatched, slotsRun, stage>>
          /\ inFlight' = IF inFlight > 0 THEN inFlight - 1 ELSE 0
      BY <1>5, TailOf DEF OnFinished, Take, txVars, Finished, Shape
    <2>2. dispatched - inFlight < LastDone /\ LastDone <= dispatched
      <3>1. guiQueue[1].n \in Nat
        <4>1. guiQueue[1] \in Signal
          BY <2>1 DEF Shape
        <4>2. QED
          BY <4>1, BoundsAssumption DEF Signal, Requests, Slots, MaxTx
      <3>2. LastDone <= dispatched /\ LastDone \in Int
        BY BoundsAssumption DEF LastDone, Shape, MaxTx
      <3>3. dispatched - inFlight < guiQueue[1].n /\ guiQueue[1].n <= LastDone
        BY <2>1 DEF Counted
      <3>4. QED
        BY <1>0, <3>1, <3>2, <3>3
    <2>3. inFlight' = inFlight - 1
      BY <1>0, <2>1, <2>2 DEF LastDone
    <2>4. QED
      BY <2>1, <2>3, CountedTail
  <1>6. CASE DispatchRemote \/ DispatchLocal
    <2>1. /\ dispatched' = dispatched + 1 /\ inFlight' = inFlight + 1
          /\ UNCHANGED <<guiQueue, slotsRun, stage>>
      BY <1>6 DEF DispatchRemote, DispatchLocal, DispatchFor, Tx!Dispatch, OneMore
    <2>2. dispatched' - inFlight' = dispatched - inFlight
      BY <1>0, <2>1
    <2>3. QED
      BY <2>1, <2>2 DEF Counted, LastDone, Finished
  <1>7. CASE WorkerBegins \/ WorkerConcludes
    <2>1. LastDone' = LastDone
      BY <1>0, <1>7 DEF WorkerBegins, WorkerConcludes, Tx!Begin, Tx!BeginCovered, Tx!Conclude,
                  LastDone
    <2>2. UNCHANGED <<dispatched, inFlight, guiQueue>>
      BY <1>7 DEF WorkerBegins, WorkerConcludes, Tx!Begin, Tx!BeginCovered, Tx!Conclude,
                  WorkerOnly, guiVars
    <2>3. QED
      BY <1>1, <2>1, <2>2
  <1>8. CASE \/ UNCHANGED glueVars \/ Remote \/ CallbackBegins \/ UnkeyCallback \/ WatchdogStops
             \/ Abandon \/ ImageLoaded \/ PressTransmit \/ PressStop \/ ReclaimReturns
             \/ StopLocal
    <2>1. UNCHANGED <<dispatched, inFlight, guiQueue, slotsRun, stage>>
      BY <1>8 DEF glueVars, Remote, RemoteRequest, RemoteConfirm, RemoteGivesUp, CallbackBegins,
             PlaneOnly, UnkeyCallback, WatchdogStops, WorkerOnly, Tx!RequestStop, Tx!Overrun,
             Abandon, ImageLoaded, PressTransmit, PressStop, ReclaimReturns, StopLocal, guiVars,
             txVars
    <2>2. QED
      BY <1>1, <2>1 DEF LastDone
  <1>9. QED
    BY <1>2, <1>3, <1>4, <1>5, <1>6, <1>7, <1>8
       DEF GlueNext, Callbacks, WorkerThread, Handlers, Delivery

----------------------------------------------------------------------------
(* The requests' callbacks travel in order.                                *)

Ordered == Pipeline /\ Granted

LEMMA OrderedInit == GlueInit => Ordered
  BY DEF GlueInit, Plane!Init, Plane!NoCall, Tx!Init, Ordered, Pipeline, Granted, Handling, Posted

\* What was granted stays granted.
LEMMA StaysGranted ==
  ASSUME Shape, PlaneStep, NEW r \in Nat, r <= issued, NotYet(r)
  PROVE  r <= issued' /\ (state' = "awaiting_confirm" => r < issued')
  BY BoundsAssumption
     DEF Shape, PlaneStep, NotYet, Plane!Request, Plane!Withdraw, Plane!Grant, Plane!Revoke,
         Plane!Finish, Plane!Deliver, Plane!Returned, planeVars

LEMMA Numbers ==
  ASSUME Shape
  PROVE  /\ \A i \in DOMAIN calls : i \in Nat /\ calls[i] \in Calls /\ calls[i].req \in Nat
         /\ running.req \in Nat
         /\ \A i \in DOMAIN guiQueue : i \in Nat /\ guiQueue[i] \in Signal
                                      /\ (Posted(i) => guiQueue[i].n \in Nat)
         /\ Handling => guiReq \in Nat
         /\ \A m \in 1 .. dispatched : m \in Nat /\ cause[m] \in Nat
         /\ issued \in Nat
  <1>1. \A i \in DOMAIN calls : i \in Nat /\ calls[i] \in Calls
    BY DEF Shape
  <1>2. \A i \in DOMAIN guiQueue : i \in Nat /\ guiQueue[i] \in Signal
    BY DEF Shape
  <1>3. \A m \in 1 .. dispatched : m \in Nat /\ m \in Slots
    BY BoundsAssumption DEF Shape, Slots, MaxTx
  <1>4. \A i \in DOMAIN calls : calls[i].req \in Nat
    BY <1>1, BoundsAssumption DEF Calls, Requests
  <1>5. \A i \in DOMAIN guiQueue : Posted(i) => guiQueue[i].n \in Nat
    BY <1>2, BoundsAssumption DEF Signal, Requests, Slots, MaxTx, Posted
  <1>6. \A m \in 1 .. dispatched : cause[m] \in Nat
    BY <1>3, BoundsAssumption DEF Shape
  <1>7. running.req \in Nat /\ issued \in Nat /\ (Handling => guiReq \in Nat)
    BY BoundsAssumption DEF Shape, Calls, Requests, Handling
  <1>8. QED
    BY <1>1, <1>2, <1>3, <1>4, <1>5, <1>6, <1>7

\* A step that makes no callback and takes none on keeps the order.
LEMMA OrderedKept ==
  ASSUME Shape, Ordered, PlaneStep, NEW k \in {0, 1},
         \A i \in DOMAIN calls' : calls'[i].kind = "transmit" =>
            i \in DOMAIN calls /\ calls'[i] = calls[i],
         \A i \in DOMAIN guiQueue' : Posted(i)' =>
            i \in Nat /\ i + k \in DOMAIN guiQueue /\ guiQueue'[i] = guiQueue[i + k],
         running' = running \/ running'.kind # "transmit",
         Handling' => Handling /\ guiReq' = guiReq,
         UNCHANGED <<cause, dispatched>>
  PROVE  Ordered'
  <1> USE DEF Ordered
  <1>1. \A i \in DOMAIN guiQueue' : Posted(i)' => i + k \in DOMAIN guiQueue /\ Posted(i + k)
                                       /\ guiQueue'[i].n = guiQueue[i + k].n
    BY DEF Posted
  <1>2. \A i, j \in DOMAIN calls' :
           i < j /\ calls'[i].kind = "transmit" /\ calls'[j].kind = "transmit"
             => calls'[i].req < calls'[j].req
    BY DEF Pipeline
  <1>3. ASSUME NEW r \in Nat, BeforeCalls(r)
        PROVE  \A i \in DOMAIN calls' : calls'[i].kind = "transmit" => r < calls'[i].req
    BY <1>3 DEF BeforeCalls
  <1>4. ASSUME NEW r \in Nat, BeforeRunning(r)
        PROVE  /\ \A i \in DOMAIN calls' : calls'[i].kind = "transmit" => r < calls'[i].req
               /\ running'.kind = "transmit" => r < running'.req
    BY <1>3, <1>4 DEF BeforeRunning
  <1>5. ASSUME NEW r \in Nat, BeforePosted(r)
        PROVE  /\ \A i \in DOMAIN calls' : calls'[i].kind = "transmit" => r < calls'[i].req
               /\ running'.kind = "transmit" => r < running'.req
               /\ \A i \in DOMAIN guiQueue' : Posted(i)' => r < guiQueue'[i].n
    BY <1>1, <1>4, <1>5 DEF BeforePosted
  <1>6. ASSUME NEW r \in Nat, BeforeHandled(r)
        PROVE  /\ \A i \in DOMAIN calls' : calls'[i].kind = "transmit" => r < calls'[i].req
               /\ running'.kind = "transmit" => r < running'.req
               /\ \A i \in DOMAIN guiQueue' : Posted(i)' => r < guiQueue'[i].n
               /\ Handling' => r < guiReq'
    BY <1>5, <1>6 DEF BeforeHandled
  <1>7. running'.kind = "transmit" => BeforeCalls(running.req)'
    BY <1>3, Numbers DEF Pipeline, BeforeCalls
  <1>8. \A i, j \in DOMAIN guiQueue' :
           i < j /\ Posted(i)' /\ Posted(j)' => guiQueue'[i].n < guiQueue'[j].n
    BY <1>1 DEF Pipeline
  <1>9. \A i \in DOMAIN guiQueue' : Posted(i)' => BeforeRunning(guiQueue[i].n)'
    BY <1>1, <1>4, Numbers DEF Pipeline, BeforeRunning, BeforeCalls
  <1>10. Handling' => BeforePosted(guiReq)'
    BY <1>5, Numbers DEF Pipeline, BeforePosted, BeforeRunning, BeforeCalls
  <1>11. \A m \in 1 .. dispatched' : BeforeHandled(cause[m])'
    BY <1>6, Numbers DEF Pipeline, BeforeHandled, BeforePosted, BeforeRunning, BeforeCalls
  <1>12. Pipeline'
    BY <1>2, <1>7, <1>8, <1>9, <1>10, <1>11 DEF Pipeline
  <1>13. Granted'
    BY <1>1, StaysGranted, Numbers DEF Granted, NotYet
  <1>14. QED
    BY <1>12, <1>13

\* A grant puts the newest request's callback last.
LEMMA OrderedGrant ==
  ASSUME Shape, Ordered, Plane!Grant, UNCHANGED <<guiQueue, gui, guiReq, cause, dispatched>>
  PROVE  Ordered'
  <1> USE DEF Ordered
  <1> DEFINE e == [kind |-> "transmit", req |-> pending]
  <1>1. /\ calls' = Append(calls, e) /\ e \in Calls /\ e.req = issued
        /\ state = "awaiting_confirm" /\ state' = "transmitting" /\ UNCHANGED <<issued, running>>
    BY DEF Plane!Grant, Plane!Queue, Shape, Calls
  <1> HIDE DEF e
  <1>2. /\ \A i \in DOMAIN calls : i \in Nat /\ i < Len(calls) + 1
        /\ calls'[Len(calls) + 1] = e /\ Len(calls) \in Nat
        /\ \A i \in DOMAIN calls' :
              (i \in DOMAIN calls /\ calls'[i] = calls[i]) \/ i = Len(calls) + 1
    BY <1>1, AppendOf DEF Shape
  <1>3. ASSUME NEW r \in Nat, r < issued, BeforeCalls(r)
        PROVE  \A i \in DOMAIN calls' : calls'[i].kind = "transmit" => r < calls'[i].req
    BY <1>1, <1>2, <1>3 DEF BeforeCalls
  <1>4. \A i, j \in DOMAIN calls' :
           i < j /\ calls'[i].kind = "transmit" /\ calls'[j].kind = "transmit"
             => calls'[i].req < calls'[j].req
    BY <1>1, <1>2 DEF Pipeline, Granted, NotYet
  <1>5. running'.kind = "transmit" => BeforeCalls(running.req)'
    BY <1>1, <1>3, Numbers DEF Pipeline, Granted, NotYet, BeforeCalls
  <1>6. \A i, j \in DOMAIN guiQueue' :
           i < j /\ Posted(i)' /\ Posted(j)' => guiQueue'[i].n < guiQueue'[j].n
    BY DEF Pipeline, Posted
  <1>7. \A i \in DOMAIN guiQueue' : Posted(i)' => BeforeRunning(guiQueue[i].n)'
    BY <1>1, <1>3, Numbers DEF Pipeline, Granted, NotYet, BeforeRunning, BeforeCalls, Posted
  <1>8. Handling' => BeforePosted(guiReq)'
    BY <1>1, <1>3, Numbers
       DEF Pipeline, Granted, NotYet, BeforePosted, BeforeRunning, BeforeCalls, Posted, Handling
  <1>9. \A m \in 1 .. dispatched' : BeforeHandled(cause[m])'
    BY <1>1, <1>3, Numbers
       DEF Pipeline, Granted, NotYet, BeforeHandled, BeforePosted, BeforeRunning, BeforeCalls,
           Posted, Handling
  <1>10. Granted'
    BY <1>1, <1>2, Numbers DEF Granted, NotYet, Posted, Handling
  <1>11. QED
    BY <1>4, <1>5, <1>6, <1>7, <1>8, <1>9, <1>10 DEF Pipeline

\* A thread takes the oldest callback.
LEMMA OrderedDeliver ==
  ASSUME Shape, Ordered, Plane!Deliver, UNCHANGED <<guiQueue, gui, guiReq, cause, dispatched>>
  PROVE  Ordered'
  <1> USE DEF Ordered
  <1>1. /\ calls # <<>> /\ running' = calls[1] /\ calls' = Tail(calls) /\ 1 \in DOMAIN calls
        /\ UNCHANGED <<state, issued>>
    BY TailOf DEF Plane!Deliver, Shape
  <1>2. \A i \in DOMAIN calls' : i \in Nat /\ i + 1 \in DOMAIN calls /\ 1 < i + 1
                                /\ calls'[i] = calls[i + 1]
    BY <1>1, TailOf DEF Shape
  <1>3. ASSUME NEW r \in Nat, BeforeCalls(r)
        PROVE  /\ \A i \in DOMAIN calls' : calls'[i].kind = "transmit" => r < calls'[i].req
               /\ running'.kind = "transmit" => r < running'.req
    BY <1>1, <1>2, <1>3 DEF BeforeCalls
  <1>4. \A i, j \in DOMAIN calls' :
           i < j /\ calls'[i].kind = "transmit" /\ calls'[j].kind = "transmit"
             => calls'[i].req < calls'[j].req
    BY <1>2 DEF Pipeline
  <1>5. running'.kind = "transmit" => BeforeCalls(running.req)'
    BY <1>1, <1>2 DEF Pipeline, BeforeCalls
  <1>6. \A i, j \in DOMAIN guiQueue' :
           i < j /\ Posted(i)' /\ Posted(j)' => guiQueue'[i].n < guiQueue'[j].n
    BY DEF Pipeline, Posted
  <1>7. \A i \in DOMAIN guiQueue' : Posted(i)' => BeforeRunning(guiQueue[i].n)'
    BY <1>3, Numbers DEF Pipeline, BeforeRunning, BeforeCalls, Posted
  <1>8. Handling' => BeforePosted(guiReq)'
    BY <1>3, Numbers
       DEF Pipeline, BeforePosted, BeforeRunning, BeforeCalls, Posted, Handling
  <1>9. \A m \in 1 .. dispatched' : BeforeHandled(cause[m])'
    BY <1>3, Numbers
       DEF Pipeline, BeforeHandled, BeforePosted, BeforeRunning, BeforeCalls, Posted, Handling
  <1>10. Granted'
    BY <1>1, <1>2, Numbers DEF Granted, NotYet, Posted, Handling
  <1>11. QED
    BY <1>4, <1>5, <1>6, <1>7, <1>8, <1>9, <1>10 DEF Pipeline

\* The transmit callback posts its request behind those already posted.
LEMMA OrderedPost ==
  ASSUME Shape, Ordered, Plane!Returned, running.kind = "transmit",
         guiQueue' = Append(guiQueue, [kind |-> "request", n |-> running.req]),
         UNCHANGED <<gui, guiReq, cause, dispatched>>
  PROVE  Ordered'
  <1> USE DEF Ordered
  <1> DEFINE e == [kind |-> "request", n |-> running.req]
  <1>1. /\ guiQueue' = Append(guiQueue, e) /\ e \in Signal
        /\ e.kind = "request" /\ e.n = running.req
        /\ running'.kind # "transmit" /\ UNCHANGED <<state, issued, calls>>
    BY DEF Plane!Returned, Plane!NoCall, Shape, Calls, Signal
  <1> HIDE DEF e
  <1>2. /\ \A i \in DOMAIN guiQueue : i \in Nat /\ i < Len(guiQueue) + 1
        /\ guiQueue'[Len(guiQueue) + 1] = e /\ Len(guiQueue) \in Nat
        /\ \A i \in DOMAIN guiQueue' :
              (i \in DOMAIN guiQueue /\ guiQueue'[i] = guiQueue[i]) \/ i = Len(guiQueue) + 1
    BY <1>1, AppendOf DEF Shape
  <1>3. ASSUME NEW r \in Nat, BeforePosted(r)
        PROVE  \A i \in DOMAIN guiQueue' : Posted(i)' => r < guiQueue'[i].n
    BY <1>1, <1>2, <1>3 DEF BeforePosted, BeforeRunning, Posted
  <1>4. \A i, j \in DOMAIN guiQueue' :
           i < j /\ Posted(i)' /\ Posted(j)' => guiQueue'[i].n < guiQueue'[j].n
    BY <1>1, <1>2 DEF Pipeline, Posted, BeforeRunning
  <1>5. \A i \in DOMAIN guiQueue' : Posted(i)' => BeforeRunning(guiQueue[i].n)'
    BY <1>1, <1>2, Numbers DEF Pipeline, BeforeRunning, BeforeCalls, Posted
  <1>6. Handling' => BeforePosted(guiReq)'
    BY <1>1, <1>3, Numbers DEF Pipeline, BeforePosted, BeforeRunning, BeforeCalls, Handling
  <1>7. \A m \in 1 .. dispatched' : BeforeHandled(cause[m])'
    BY <1>1, <1>3, Numbers
       DEF Pipeline, BeforeHandled, BeforePosted, BeforeRunning, BeforeCalls, Handling
  <1>8. Granted'
    BY <1>1, <1>2, Numbers DEF Granted, NotYet, Posted, Handling
  <1>9. /\ \A i, j \in DOMAIN calls' :
              i < j /\ calls'[i].kind = "transmit" /\ calls'[j].kind = "transmit"
                => calls'[i].req < calls'[j].req
        /\ running'.kind = "transmit" => BeforeCalls(running.req)'
    BY <1>1 DEF Pipeline
  <1>10. QED
    BY <1>4, <1>5, <1>6, <1>7, <1>8, <1>9 DEF Pipeline

\* The GUI handles the oldest of them.
LEMMA OrderedTake ==
  ASSUME Shape, Ordered, Take("request"), guiReq' = Head(guiQueue).n, ~Handling,
         UNCHANGED <<planeVars, cause, dispatched>>
  PROVE  Ordered'
  <1> USE DEF Ordered
  <1>1. /\ guiQueue # <<>> /\ guiQueue' = Tail(guiQueue) /\ 1 \in DOMAIN guiQueue
        /\ Posted(1) /\ guiReq' = guiQueue[1].n
        /\ UNCHANGED <<state, issued, calls, running>>
    BY TailOf DEF Take, Posted, planeVars, Shape
  <1>2. \A i \in DOMAIN guiQueue' : i \in Nat /\ i + 1 \in DOMAIN guiQueue /\ 1 < i + 1
                                   /\ guiQueue'[i] = guiQueue[i + 1]
    BY <1>1, TailOf DEF Shape
  <1>3. ASSUME NEW r \in Nat, BeforePosted(r)
        PROVE  /\ \A i \in DOMAIN guiQueue' : Posted(i)' => r < guiQueue'[i].n
               /\ r < guiReq'
    BY <1>1, <1>2, <1>3 DEF BeforePosted, Posted
  <1>4. \A i, j \in DOMAIN guiQueue' :
           i < j /\ Posted(i)' /\ Posted(j)' => guiQueue'[i].n < guiQueue'[j].n
    BY <1>2 DEF Pipeline, Posted
  <1>5. \A i \in DOMAIN guiQueue' : Posted(i)' => BeforeRunning(guiQueue[i].n)'
    BY <1>1, <1>2, Numbers DEF Pipeline, BeforeRunning, BeforeCalls, Posted
  <1>6. BeforePosted(guiReq)'
    <2>1. BeforeRunning(guiQueue[1].n)
      BY <1>1 DEF Pipeline
    <2>2. \A i \in DOMAIN guiQueue' : Posted(i)' => guiReq' < guiQueue'[i].n
      BY <1>1, <1>2 DEF Pipeline, Posted
    <2>3. QED
      BY <1>1, <2>1, <2>2 DEF BeforePosted, BeforeRunning, BeforeCalls
  <1>7. \A m \in 1 .. dispatched' : BeforeHandled(cause[m])'
    BY <1>1, <1>3, Numbers
       DEF Pipeline, BeforeHandled, BeforePosted, BeforeRunning, BeforeCalls
  <1>8. Granted'
    BY <1>1, <1>2, Numbers DEF Granted, NotYet, Posted, Handling
  <1>9. /\ \A i, j \in DOMAIN calls' :
              i < j /\ calls'[i].kind = "transmit" /\ calls'[j].kind = "transmit"
                => calls'[i].req < calls'[j].req
        /\ running'.kind = "transmit" => BeforeCalls(running.req)'
    BY <1>1 DEF Pipeline, BeforeCalls
  <1>10. QED
    BY <1>4, <1>5, <1>6, <1>7, <1>8, <1>9 DEF Pipeline

\* A dispatched request is older than those still to be handled.
LEMMA OrderedDispatch ==
  ASSUME Shape, Ordered, NEW n \in 0 .. MaxRequests, DispatchFor(n), gui' = "loop",
         n = 0 \/ (Handling /\ n = guiReq), UNCHANGED <<planeVars, guiQueue>>
  PROVE  Ordered'
  <1> USE DEF Ordered
  <1>1. /\ UNCHANGED <<state, issued, calls, running, guiQueue>>
        /\ dispatched' = dispatched + 1 /\ dispatched \in Nat /\ dispatched + 1 \in Slots
        /\ cause' = [cause EXCEPT ![dispatched + 1] = n] /\ ~Handling'
    BY BoundsAssumption
       DEF DispatchFor, Tx!Dispatch, planeVars, Shape, Slots, MaxTx, Handling
  <1>2. \A m \in 1 .. dispatched' : cause'[m] = n \/ (m \in 1 .. dispatched /\ cause'[m] = cause[m])
    BY <1>1 DEF Shape, Slots
  <1>3. BeforePosted(n)
    <2>1. CASE n = 0
      <3>1. \A i \in DOMAIN calls : 0 < calls[i].req
        <4>1. \A i \in DOMAIN calls : calls[i] \in Calls
          BY DEF Shape
        <4>2. QED
          BY <4>1 DEF Calls, Requests
      <3>2. running.kind = "transmit" => 0 < running.req
        BY DEF Shape, Calls, Requests
      <3>3. \A i \in DOMAIN guiQueue : Posted(i) => 0 < guiQueue[i].n
        BY Numbers DEF Signal, Posted, Requests, Slots
      <3>4. QED
        BY <2>1, <3>1, <3>2, <3>3 DEF BeforePosted, BeforeRunning, BeforeCalls
    <2>2. CASE Handling /\ n = guiReq
      BY <2>2 DEF Pipeline
    <2>3. QED
      BY <2>1, <2>2
  <1>4. n <= issued /\ NotYet(n)
    BY BoundsAssumption DEF Granted, NotYet, Shape, Requests
  <1>5. ASSUME NEW r, BeforePosted(r)
        PROVE  BeforeRunning(r)' /\ BeforePosted(r)'
    BY <1>1, <1>5 DEF BeforePosted, BeforeRunning, BeforeCalls, Posted
  <1>6. \A m \in 1 .. dispatched' : BeforePosted(cause[m])'
    BY <1>1, <1>2, <1>3 DEF Pipeline, BeforeHandled, BeforePosted, BeforeRunning, BeforeCalls, Posted
  <1>7. \A m \in 1 .. dispatched' : BeforeHandled(cause[m])'
    BY <1>1, <1>6 DEF BeforeHandled
  <1>8. Pipeline'
    BY <1>1, <1>7 DEF Pipeline, Posted, BeforeRunning, BeforeCalls
  <1>9. Granted'
    BY <1>1, <1>2, <1>4 DEF Granted, NotYet, Posted
  <1>10. QED
    BY <1>8, <1>9

LEMMA OrderedStep == ASSUME Shape, Ordered, [GlueNext]_glueVars PROVE Ordered'
  <1>1. PlaneStep
    BY PlaneSteps
  <1>2. CASE TransmitCallback
    BY <1>2, OrderedPost DEF TransmitCallback, guiVars, txVars
  <1>3. CASE OnRequestSignal
    BY <1>3, OrderedTake DEF OnRequestSignal, Take, Handling, txVars
  <1>4. CASE DispatchRemote
    <2>1. guiReq \in 0 .. MaxRequests /\ Handling
      BY <1>4, BoundsAssumption DEF DispatchRemote, Shape, Requests, Handling
    <2>2. QED
      BY <1>4, <2>1, OrderedDispatch DEF DispatchRemote, GuiTo
  <1>5. CASE DispatchLocal
    <2>1. 0 \in 0 .. MaxRequests
      BY BoundsAssumption
    <2>2. QED
      BY <1>5, <2>1, OrderedDispatch DEF DispatchLocal, GuiTo
  <1>6. CASE OnFinished
    <2>1. /\ guiQueue # <<>> /\ guiQueue' = Tail(guiQueue)
          /\ UNCHANGED <<gui, guiReq, cause, dispatched>>
      BY <1>6 DEF OnFinished, Take, txVars
    <2>2. \A i \in DOMAIN guiQueue' : i \in Nat /\ i + 1 \in DOMAIN guiQueue
                                     /\ guiQueue'[i] = guiQueue[i + 1]
      BY <2>1, TailOf DEF Shape
    <2>3. UNCHANGED <<calls, running>>
      BY <1>6 DEF OnFinished, AfterFinished, RemoteTxEnded, PlaneFinished, Plane!Finish, planeVars
    <2>4. QED
      BY <1>1, <2>1, <2>2, <2>3, OrderedKept DEF Handling
  <1>7. CASE RemoteConfirm
    <2>1. UNCHANGED <<guiQueue, gui, guiReq, cause, dispatched>> /\ Plane!Grant
      BY <1>7 DEF RemoteConfirm, PlaneOnly, txVars, guiVars
    <2>2. QED
      BY <2>1, OrderedGrant
  <1>8. CASE CallbackBegins
    <2>1. UNCHANGED <<guiQueue, gui, guiReq, cause, dispatched>> /\ Plane!Deliver
      BY <1>8 DEF CallbackBegins, PlaneOnly, txVars, guiVars
    <2>2. QED
      BY <2>1, OrderedDeliver
  <1>9. CASE RemoteGivesUp \/ PressTransmit \/ PressStop \/ Abandon
    <2>1. /\ calls' = calls \/ (Plane!Revoke /\ state = "transmitting")
          /\ UNCHANGED <<running, guiQueue, cause, dispatched>>
          /\ Handling' => Handling /\ guiReq' = guiReq
      BY <1>9 DEF RemoteGivesUp, PlaneOnly, txVars, guiVars, PressTransmit, PressStop, Reclaim,
                  Abandon, PlaneFinished, Plane!Withdraw, Plane!Revoke, Plane!Finish, planeVars,
                  Handling, GuiTo
    <2>2. \A i \in DOMAIN calls' : calls'[i].kind = "transmit" =>
             i \in DOMAIN calls /\ calls'[i] = calls[i]
      <3>1. CASE calls' = calls
        BY <3>1
      <3>2. CASE Plane!Revoke /\ state = "transmitting"
        <4> DEFINE e == [kind |-> "unkey", req |-> pending]
        <4>1. calls' = Append(calls, e) /\ e \in Calls /\ e.kind # "transmit"
          BY <3>2 DEF Plane!Revoke, Plane!Queue, Shape, Calls
        <4> HIDE DEF e
        <4>2. QED
          BY <4>1, AppendOf DEF Shape
      <3>3. QED
        BY <2>1, <3>1, <3>2
    <2>3. \A i \in DOMAIN guiQueue' : i \in Nat /\ i + 0 \in DOMAIN guiQueue
                                     /\ guiQueue'[i] = guiQueue[i + 0]
      BY <2>1 DEF Shape
    <2>4. QED
      BY <1>1, <2>1, <2>2, <2>3, OrderedKept
  <1>10. CASE \/ UNCHANGED glueVars \/ RemoteRequest \/ UnkeyCallback
              \/ WorkerThread \/ WatchdogStops
              \/ ImageLoaded \/ ReclaimReturns \/ StopLocal
    <2>1. /\ calls' = calls /\ UNCHANGED <<cause, dispatched>>
          /\ running' = running \/ running'.kind # "transmit"
          /\ Handling' => Handling /\ guiReq' = guiReq
      BY <1>10 DEF glueVars, planeVars, txVars, guiVars, RemoteRequest, PlaneOnly, UnkeyCallback,
             WorkerThread, WorkerBegins, WorkerConcludes, WorkerEnds, WatchdogStops, WorkerOnly,
             ImageLoaded, ReclaimReturns, StopLocal, Plane!Request, Plane!Returned,
             Plane!NoCall, Tx!RequestStop, Tx!Begin, Tx!BeginCovered, Tx!Conclude, Tx!End,
             Tx!Overrun, Handling, GuiTo
    <2>2. \A i \in DOMAIN guiQueue' : Posted(i)' => i \in Nat /\ i + 0 \in DOMAIN guiQueue
                                     /\ guiQueue'[i] = guiQueue[i + 0]
      <3>1. CASE WorkerEnds
        <4> DEFINE e == [kind |-> "finished", n |-> slotsRun]
        <4>1. guiQueue' = Append(guiQueue, e) /\ e \in Signal /\ e.kind # "request"
          BY <3>1, BoundsAssumption DEF WorkerEnds, Emit, Tx!End, Shape, Signal, Slots, MaxTx
        <4> HIDE DEF e
        <4>2. QED
          BY <4>1, AppendOf DEF Shape, Posted
      <3>2. CASE guiQueue' = guiQueue
        BY <3>2 DEF Shape
      <3>3. WorkerEnds \/ guiQueue' = guiQueue
        BY <1>10 DEF glueVars, RemoteRequest, PlaneOnly, UnkeyCallback, WorkerThread, WorkerBegins,
             WorkerConcludes, WatchdogStops, ImageLoaded, ReclaimReturns, StopLocal
      <3>4. QED
        BY <3>1, <3>2, <3>3
    <2>3. QED
      BY <1>1, <2>1, <2>2, OrderedKept
  <1>11. QED
    BY <1>2, <1>3, <1>4, <1>5, <1>6, <1>7, <1>8, <1>9, <1>10
       DEF GlueNext, Remote, Callbacks, Handlers, Delivery

----------------------------------------------------------------------------
(* Remote and local transmissions keep apart.                              *)

LEMMA ApartInit == GlueInit => Apart
  BY DEF GlueInit, Plane!Init, Plane!NoCall, Tx!Init, Apart, UnkeysSlipped, LocalOnItsWay

\* The plane asks before it grants, and a transmission on its way is busy.
LEMMA LocalIsBusy == ASSUME Shape, Counted, LocalOnItsWay PROVE Busy
  <1>1. PICK m \in 1 .. dispatched : m > LastDone
    BY DEF LocalOnItsWay
  <1>2. LastDone \in Int /\ dispatched \in Nat /\ inFlight \in Nat
    BY BoundsAssumption DEF LastDone, Shape, MaxTx
  <1>3. dispatched - inFlight <= LastDone
    BY DEF Counted
  <1>4. inFlight > 0
    BY <1>1, <1>2, <1>3
  <1>5. QED
    BY <1>4 DEF Busy

\* Only a local dispatch puts a local transmission on its way.
LEMMA OnItsWay ==
  ASSUME Shape, [GlueNext]_glueVars, LocalOnItsWay'
  PROVE  LocalOnItsWay \/ DispatchLocal
  <1> USE DEF LocalOnItsWay
  <1>0. dispatched \in Nat /\ slotsRun \in Nat
    BY BoundsAssumption DEF Shape, MaxTx
  <1>1. CASE DispatchRemote
    <2>1. /\ dispatched' = dispatched + 1 /\ dispatched + 1 \in Slots
          /\ cause' = [cause EXCEPT ![dispatched + 1] = guiReq] /\ LastDone' = LastDone
          /\ guiReq # 0
      BY <1>1, BoundsAssumption
         DEF DispatchRemote, DispatchFor, Tx!Dispatch, LastDone, Shape, Slots, MaxTx, Requests
    <2>2. PICK m \in 1 .. dispatched' : m > LastDone' /\ cause'[m] = 0
      OBVIOUS
    <2>3. m # dispatched + 1
      BY <2>1, <2>2 DEF Shape
    <2>4. m \in 1 .. dispatched /\ cause[m] = 0
      BY <1>0, <2>1, <2>2, <2>3 DEF Shape, Slots
    <2>5. QED
      BY <2>1, <2>2, <2>4
  <1>2. CASE \/ UNCHANGED glueVars \/ Remote \/ Callbacks \/ WorkerThread \/ WatchdogStops
             \/ Delivery \/ PressTransmit \/ PressStop \/ Abandon \/ ImageLoaded
             \/ ReclaimReturns \/ StopLocal
    <2>1. UNCHANGED <<cause, dispatched>>
      BY <1>2 DEF glueVars, txVars, Remote, RemoteRequest, RemoteConfirm, RemoteGivesUp, PlaneOnly,
             Callbacks, CallbackBegins, TransmitCallback, UnkeyCallback, WorkerThread,
             WorkerBegins, WorkerConcludes, WorkerEnds, WatchdogStops, WorkerOnly, Delivery,
             OnRequestSignal, OnFinished, PressTransmit, PressStop, Abandon, ImageLoaded,
             ReclaimReturns, StopLocal, Tx!RequestStop, Tx!Begin, Tx!BeginCovered, Tx!Conclude,
             Tx!End, Tx!Overrun
    <2>2. LastDone \in Int /\ LastDone' \in Int /\ LastDone <= LastDone'
      <3>1. CASE WorkerThread
        BY <1>0, <3>1 DEF WorkerThread, WorkerBegins, WorkerConcludes, WorkerEnds,
               Tx!Begin, Tx!BeginCovered, Tx!Conclude, Tx!End, LastDone
      <3>2. CASE UNCHANGED <<slotsRun, stage>>
        BY <1>0, <3>2 DEF LastDone
      <3>3. WorkerThread \/ UNCHANGED <<slotsRun, stage>>
        BY <1>2 DEF glueVars, txVars, Remote, RemoteRequest, RemoteConfirm, RemoteGivesUp, PlaneOnly,
             Callbacks, CallbackBegins, TransmitCallback, UnkeyCallback, WatchdogStops, Delivery,
             OnRequestSignal, OnFinished, PressTransmit, PressStop, Abandon, ImageLoaded,
             ReclaimReturns, StopLocal, Tx!RequestStop, Tx!Overrun
      <3>4. QED
        BY <3>1, <3>2, <3>3
    <2>3. PICK m \in 1 .. dispatched : m > LastDone' /\ cause[m] = 0
      BY <2>1
    <2>4. m > LastDone
      BY <1>0, <2>2, <2>3
    <2>5. QED
      BY <2>3, <2>4
  <1>3. QED
    BY <1>1, <1>2 DEF GlueNext, Handlers

\* Every callback a step leaves was there before, apart from what it queues.
OldCall(c) == c = running \/ \E i \in DOMAIN calls : c = calls[i]

\* A step without a grant or a local dispatch keeps them apart.
LEMMA ApartKept ==
  ASSUME Shape, Apart, [GlueNext]_glueVars, ~DispatchLocal, slipped' = slipped,
         state' = "transmitting" => state = "transmitting" /\ pending' = pending,
         state' = "transmitting" /\ gui' \in {"reclaiming", "sending"}
           => gui \in {"reclaiming", "sending"},
         gui' = "sending" => gui = "sending",
         \A i \in DOMAIN calls' : calls'[i].kind = "unkey" => OldCall(calls'[i]),
         running'.kind = "unkey" => OldCall(running')
  PROVE  Apart'
  <1>1. LocalOnItsWay' => LocalOnItsWay
    BY OnItsWay
  <1>2. UnkeysSlipped => UnkeysSlipped'
    BY DEF UnkeysSlipped, OldCall
  <1>3. QED
    BY <1>1, <1>2 DEF Apart

\* A transmission revoked while the operator's is on its way had slipped in.
LEMMA ApartRevoke ==
  ASSUME Shape, Apart, [GlueNext]_glueVars, ~DispatchLocal, slipped' = slipped, Plane!Revoke,
         gui' = "sending" => gui = "sending"
  PROVE  Apart'
  <1> DEFINE e == [kind |-> "unkey", req |-> pending]
  <1>1. /\ calls' = Append(calls, e) /\ e \in Calls /\ e.req = pending
        /\ state = "transmitting" /\ state' = "idle" /\ running' = running
    BY DEF Plane!Revoke, Plane!Queue, Shape, Calls
  <1> HIDE DEF e
  <1>2. \A i \in DOMAIN calls' : (i \in DOMAIN calls /\ calls'[i] = calls[i]) \/ calls'[i] = e
    BY <1>1, AppendOf DEF Shape
  <1>3. LocalOnItsWay' => LocalOnItsWay
    BY OnItsWay
  <1>4. UnkeysSlipped /\ pending \in slipped => UnkeysSlipped'
    BY <1>1, <1>2 DEF UnkeysSlipped
  <1>5. QED
    BY <1>1, <1>3, <1>4 DEF Apart

LEMMA ApartStep == ASSUME Shape, Counted, Apart, [GlueNext]_glueVars PROVE Apart'
  <1>1. CASE RemoteConfirm
    <2> DEFINE e == [kind |-> "transmit", req |-> pending]
    <2>1. /\ calls' = Append(calls, e) /\ e \in Calls /\ e.kind = "transmit"
          /\ UNCHANGED <<running, gui, pending>> /\ ~Busy
      BY <1>1 DEF RemoteConfirm, PlaneOnly, guiVars, Plane!Grant, Plane!Queue, Shape, Calls
    <2> HIDE DEF e
    <2>2. \A i \in DOMAIN calls' : calls'[i].kind = "unkey" =>
             i \in DOMAIN calls /\ calls'[i] = calls[i]
      BY <2>1, AppendOf DEF Shape
    <2>3. ~LocalOnItsWay /\ ~LocalOnItsWay'
      <3>1. ~DispatchLocal
        BY <1>1, <2>1 DEF RemoteConfirm, PlaneOnly, guiVars, DispatchLocal, GuiTo
      <3>2. QED
        BY <2>1, <3>1, LocalIsBusy, OnItsWay
    <2>4. /\ slipped \subseteq slipped'
          /\ gui \in {"reclaiming", "sending"} => pending \in slipped'
      BY <1>1 DEF RemoteConfirm
    <2>5. UnkeysSlipped => UnkeysSlipped'
      BY <2>1, <2>2, <2>4 DEF UnkeysSlipped
    <2>6. QED
      BY <2>1, <2>3, <2>4, <2>5 DEF Apart
  <1>2. CASE DispatchLocal
    <2>1. gui = "sending" /\ gui' = "loop" /\ UNCHANGED <<planeVars, slipped>>
      BY <1>2 DEF DispatchLocal, GuiTo, historyVars
    <2>2. QED
      BY <2>1 DEF Apart, UnkeysSlipped, planeVars
  <1>3. CASE ReclaimReturns
    <2>1. calls = <<>> /\ running.kind = "none" /\ gui \in {"reclaiming", "stopping"}
          /\ gui' \in {"sending", "stop"} /\ (gui' = "sending" => gui = "reclaiming")
          /\ UNCHANGED <<planeVars, slipped>>
      BY <1>3 DEF ReclaimReturns, Drained, GuiTo, historyVars
    <2>2. UnkeysSlipped'
      BY <2>1 DEF UnkeysSlipped, planeVars
    <2>3. LocalOnItsWay' => LocalOnItsWay
      BY <2>1, OnItsWay DEF DispatchLocal, GuiTo
    <2>4. QED
      BY <2>1, <2>2, <2>3 DEF Apart, planeVars
  <1>4. CASE (RemoteGivesUp \/ PressTransmit \/ PressStop) /\ Plane!Revoke
    <2>1. slipped' = slipped /\ ~DispatchLocal /\ (gui' = "sending" => gui = "sending")
      BY <1>4 DEF RemoteGivesUp, PressTransmit, PressStop, PlaneOnly, guiVars, historyVars,
             DispatchLocal, GuiTo, Plane!Revoke, planeVars, Shape
    <2>2. QED
      BY <1>4, <2>1, ApartRevoke
  <1>5. CASE (RemoteGivesUp \/ PressTransmit \/ PressStop) /\ ~Plane!Revoke
    <2>1. slipped' = slipped /\ ~DispatchLocal
      BY <1>5 DEF RemoteGivesUp, PressTransmit, PressStop, PlaneOnly, guiVars, historyVars,
             DispatchLocal, GuiTo
    <2>2. state' # "transmitting" /\ UNCHANGED <<calls, running>>
      BY <1>5 DEF RemoteGivesUp, PressTransmit, PressStop, Reclaim, Plane!Withdraw, planeVars
    <2>3. gui' = "sending" => gui = "sending"
      BY <1>5 DEF RemoteGivesUp, PressTransmit, PressStop, PlaneOnly, guiVars, GuiTo
    <2>4. QED
      BY <2>1, <2>2, <2>3, ApartKept DEF OldCall
  <1>6. CASE CallbackBegins
    <2>1. /\ calls # <<>> /\ running' = calls[1] /\ calls' = Tail(calls) /\ 1 \in DOMAIN calls
          /\ UNCHANGED <<state, pending, gui, slipped>>
      BY <1>6, TailOf DEF CallbackBegins, PlaneOnly, guiVars, historyVars, Plane!Deliver, Shape
    <2>2. \A i \in DOMAIN calls' : i + 1 \in DOMAIN calls /\ calls'[i] = calls[i + 1]
      BY <2>1, TailOf DEF Shape
    <2>3. ~DispatchLocal
      BY <2>1 DEF DispatchLocal, GuiTo
    <2>4. QED
      BY <2>1, <2>2, <2>3, ApartKept DEF OldCall
  <1>7. CASE \/ UNCHANGED glueVars \/ RemoteRequest \/ TransmitCallback \/ UnkeyCallback
             \/ WorkerThread \/ WatchdogStops \/ Delivery
             \/ Abandon \/ ImageLoaded \/ DispatchRemote \/ StopLocal
    <2>1. /\ slipped' = slipped /\ calls' = calls
          /\ running' = running \/ running'.kind = "none"
      BY <1>7 DEF glueVars, planeVars, historyVars, RemoteRequest, PlaneOnly, TransmitCallback,
             UnkeyCallback, WorkerThread, WorkerBegins, WorkerConcludes, WorkerEnds,
             WatchdogStops, WorkerOnly, Delivery, OnRequestSignal, OnFinished, AfterFinished,
             RemoteTxEnded, PlaneFinished, Abandon, ImageLoaded, DispatchRemote, StopLocal,
             Plane!Request, Plane!Returned, Plane!NoCall, Plane!Finish
    <2>2. state' = "transmitting" => state = "transmitting" /\ pending' = pending
      BY <1>7 DEF glueVars, planeVars, RemoteRequest, TransmitCallback,
             UnkeyCallback, WorkerThread, WorkerBegins, WorkerConcludes, WorkerEnds,
             WatchdogStops, WorkerOnly, Delivery, OnRequestSignal, OnFinished, AfterFinished,
             RemoteTxEnded, PlaneFinished, Abandon, ImageLoaded, DispatchRemote, StopLocal,
             Plane!Request, Plane!Returned, Plane!Finish
    <2>3. gui' = gui \/ gui' \notin {"reclaiming", "sending"}
      BY <1>7 DEF glueVars, guiVars, RemoteRequest, PlaneOnly, TransmitCallback,
             UnkeyCallback, WorkerThread, WorkerBegins, WorkerConcludes, WorkerEnds,
             WatchdogStops, WorkerOnly, Delivery, OnRequestSignal, OnFinished,
             Abandon, ImageLoaded, DispatchRemote, StopLocal, GuiTo
    <2>4. ~DispatchLocal
      BY <1>7 DEF glueVars, guiVars, txVars, RemoteRequest, PlaneOnly, TransmitCallback,
             UnkeyCallback, WorkerThread, WorkerBegins, WorkerConcludes, WorkerEnds,
             WatchdogStops, WorkerOnly, Delivery, OnRequestSignal, OnFinished, Take,
             Abandon, ImageLoaded, DispatchRemote, StopLocal, DispatchLocal, GuiTo
    <2>5. QED
      BY <2>1, <2>2, <2>3, <2>4, ApartKept DEF OldCall
  <1>8. QED
    BY <1>1, <1>2, <1>3, <1>4, <1>5, <1>6, <1>7
       DEF GlueNext, Remote, Callbacks, Handlers

----------------------------------------------------------------------------
(* One remote transmission at a time, under the plane.                     *)

LEMMA WatchedInit == GlueInit => OneAtATime /\ Watched
  BY DEF GlueInit, Plane!Init, Tx!Init, OneAtATime, Watched

\* What slipped in or went astray is never forgotten.
LEMMA CleanBefore == ASSUME [GlueNext]_glueVars, Clean' PROVE Clean
  <1>1. slipped \subseteq slipped'
    BY DEF GlueNext, glueVars, historyVars, Remote, RemoteRequest, RemoteConfirm, RemoteGivesUp, PlaneOnly,
           Callbacks, CallbackBegins, TransmitCallback, UnkeyCallback, WorkerThread, WorkerBegins,
           WorkerConcludes, WorkerEnds, WatchdogStops, WorkerOnly, Delivery, OnRequestSignal,
           OnFinished, PressTransmit, PressStop, Handlers, Abandon, ImageLoaded, DispatchRemote,
           ReclaimReturns, DispatchLocal, StopLocal
  <1>2. stray \subseteq stray'
    BY DEF GlueNext, glueVars, historyVars, Remote, RemoteRequest, RemoteConfirm, RemoteGivesUp, PlaneOnly,
           Callbacks, CallbackBegins, TransmitCallback, UnkeyCallback, WorkerThread, WorkerBegins,
           WorkerConcludes, WorkerEnds, WatchdogStops, WorkerOnly, Delivery, OnRequestSignal,
           OnFinished, PressTransmit, PressStop, Handlers, Abandon, ImageLoaded, DispatchRemote,
           ReclaimReturns, DispatchLocal, StopLocal
  <1>3. QED
    BY <1>1, <1>2 DEF Clean

\* Every step but these leaves the dispatched transmissions and the plane's
\* request as they are.
LEMMA PlaneKept ==
  ASSUME [GlueNext]_glueVars, ~RemoteConfirm, ~DispatchRemote, ~DispatchLocal
  PROVE  /\ UNCHANGED <<cause, dispatched>>
         /\ state' = "transmitting" => state = "transmitting" /\ pending' = pending
         /\ inFlight' = inFlight \/ OnFinished
  BY DEF GlueNext, glueVars, planeVars, txVars, guiVars, Remote, RemoteRequest, RemoteGivesUp, PlaneOnly,
         Callbacks, CallbackBegins, TransmitCallback, UnkeyCallback, WorkerThread, WorkerBegins,
         WorkerConcludes, WorkerEnds, WatchdogStops, WorkerOnly, Delivery, OnRequestSignal,
         OnFinished, AfterFinished, RemoteTxEnded, PlaneFinished, PressTransmit, PressStop,
         Reclaim, Handlers, Abandon, ImageLoaded, ReclaimReturns, StopLocal,
         Plane!Request, Plane!Withdraw, Plane!Revoke, Plane!Finish, Plane!Deliver,
         Plane!Returned, Tx!Begin, Tx!BeginCovered, Tx!Conclude, Tx!End, Tx!RequestStop,
         Tx!Overrun

LEMMA OneAtATimeStep ==
  ASSUME Shape, Shape', Ordered, Apart, OneAtATime, [GlueNext]_glueVars
  PROVE  OneAtATime'
  <1> SUFFICES ASSUME state' = "transmitting", Clean'
               PROVE  /\ inFlight' <= 1
                      /\ inFlight' = 1 => dispatched' > 0 /\ cause'[dispatched'] = pending'
    BY DEF OneAtATime
  <1>0. Clean /\ inFlight \in Nat /\ dispatched \in Nat
    BY CleanBefore, BoundsAssumption DEF Shape, MaxTx
  <1>1. CASE RemoteConfirm
    BY <1>0, <1>1 DEF RemoteConfirm, Busy, PlaneOnly, guiVars
  <1>2. CASE DispatchRemote
    <2>1. /\ gui = "checked" /\ guiReq \in Requests
          /\ state = "transmitting" /\ pending' = pending
          /\ dispatched' = dispatched + 1 /\ dispatched + 1 \in Slots
          /\ cause' = [cause EXCEPT ![dispatched + 1] = guiReq]
          /\ inFlight' = inFlight + 1
      BY <1>2, BoundsAssumption
         DEF DispatchRemote, DispatchFor, Tx!Dispatch, OneMore, planeVars, Shape, Slots, MaxTx
    <2>2. pending = guiReq
      BY <1>2 DEF DispatchRemote, Clean
    <2>3. inFlight = 0
      <3>1. SUFFICES ASSUME inFlight = 1 PROVE FALSE
        BY <1>0, <2>1 DEF OneAtATime
      <3>2. dispatched > 0 /\ cause[dispatched] = guiReq
        BY <1>0, <2>1, <2>2, <3>1 DEF OneAtATime
      <3>3. cause[dispatched] < guiReq
        BY <1>0, <2>1, <3>2 DEF Ordered, Pipeline, BeforeHandled, Handling
      <3>4. QED
        BY <2>1, <3>2, <3>3, BoundsAssumption DEF Requests
    <2>4. cause'[dispatched'] = guiReq
      BY <2>1 DEF Shape
    <2>5. QED
      BY <1>0, <2>1, <2>2, <2>3, <2>4
  <1>3. CASE DispatchLocal
    <2>1. gui = "sending" /\ state = "transmitting"
      BY <1>3 DEF DispatchLocal, planeVars
    <2>2. pending \in slipped
      BY <2>1 DEF Apart
    <2>3. QED
      BY <1>0, <2>2 DEF Clean
  <1>4. CASE ~RemoteConfirm /\ ~DispatchRemote /\ ~DispatchLocal
    <2>1. /\ UNCHANGED <<cause, dispatched>> /\ state = "transmitting" /\ pending' = pending
          /\ inFlight' = inFlight \/ OnFinished
      BY <1>4, PlaneKept
    <2>2. OnFinished => inFlight' = IF inFlight > 0 THEN inFlight - 1 ELSE 0
      BY DEF OnFinished
    <2>3. inFlight <= 1 /\ (inFlight = 1 => dispatched > 0 /\ cause[dispatched] = pending)
      BY <1>0, <2>1 DEF OneAtATime
    <2>4. inFlight' = inFlight \/ inFlight' = 0
      BY <1>0, <2>1, <2>2, <2>3
    <2>5. QED
      BY <1>0, <2>1, <2>3, <2>4
  <1>5. QED
    BY <1>1, <1>2, <1>3, <1>4

\* An unkey decided on is not lost on its way.
LEMMA UnkeyingKept ==
  ASSUME Shape, [GlueNext]_glueVars, ~UnkeyCallback, NEW r, Unkeying(r)
  PROVE  Unkeying(r)'
  <1>1. CASE CallbackBegins
    <2>1. /\ calls # <<>> /\ running' = calls[1] /\ calls' = Tail(calls) /\ 1 \in DOMAIN calls
          /\ running.kind = "none"
      BY <1>1, TailOf DEF CallbackBegins, Plane!Deliver, Plane!NoCall, Shape
    <2>2. PICK i \in DOMAIN calls : calls[i] = [kind |-> "unkey", req |-> r]
      BY <2>1 DEF Unkeying
    <2>3. CASE i = 1
      BY <2>1, <2>2, <2>3 DEF Unkeying
    <2>4. CASE i # 1
      <3>1. /\ i - 1 \in DOMAIN calls' /\ i \in Nat
            /\ \A j \in DOMAIN calls' : calls'[j] = calls[j + 1]
        BY <2>1, <2>2, <2>4, TailOf DEF Shape
      <3>2. calls'[i - 1] = calls[i - 1 + 1] /\ i - 1 + 1 = i
        BY <3>1
      <3>3. QED
        BY <2>2, <3>1, <3>2 DEF Unkeying
    <2>5. QED
      BY <2>3, <2>4
  <1>2. CASE TransmitCallback
    BY <1>2 DEF TransmitCallback, Plane!Returned, Unkeying
  <1>3. CASE ~CallbackBegins /\ ~TransmitCallback
    <2>1. running' = running /\ (calls' = calls \/ Plane!Grant \/ Plane!Revoke)
      BY <1>3 DEF GlueNext, glueVars, planeVars, Remote, RemoteRequest, RemoteConfirm, RemoteGivesUp,
         Callbacks, WorkerThread, WorkerBegins,
         WorkerConcludes, WorkerEnds, WatchdogStops, WorkerOnly, Delivery, OnRequestSignal,
         OnFinished, AfterFinished, RemoteTxEnded, PlaneFinished, PressTransmit, PressStop,
         Reclaim, Handlers, Abandon, ImageLoaded, DispatchRemote, ReclaimReturns, DispatchLocal,
         StopLocal, Plane!Request, Plane!Withdraw, Plane!Grant, Plane!Revoke, Plane!Finish
    <2>2. \A i \in DOMAIN calls : i \in DOMAIN calls' /\ calls'[i] = calls[i]
      <3>1. CASE Plane!Grant
        <4> DEFINE e == [kind |-> "transmit", req |-> pending]
        <4>1. calls' = Append(calls, e) /\ e \in Calls
          BY <3>1 DEF Plane!Grant, Plane!Queue, Shape, Calls
        <4> HIDE DEF e
        <4>2. QED
          BY <4>1, AppendOf DEF Shape
      <3>2. CASE Plane!Revoke
        <4> DEFINE e == [kind |-> "unkey", req |-> pending]
        <4>1. calls' = Append(calls, e) /\ e \in Calls
          BY <3>2 DEF Plane!Revoke, Plane!Queue, Shape, Calls
        <4> HIDE DEF e
        <4>2. QED
          BY <4>1, AppendOf DEF Shape
      <3>3. QED
        BY <2>1, <3>1, <3>2
    <2>3. QED
      BY <2>1, <2>2 DEF Unkeying
  <1>4. QED
    BY <1>1, <1>2, <1>3

\* A worker's step never reopens a transmission, and nothing uncovers one.
LEMMA OpenBefore ==
  ASSUME Shape, [GlueNext]_glueVars, ~DispatchRemote, ~DispatchLocal, NEW m \in 1 .. dispatched,
         NotOver(m)'
  PROVE  /\ NotOver(m) /\ dispatched' = dispatched /\ cause' = cause
         /\ covers' = covers \/ UnkeyCallback \/ StopLocal
  <1>0. m \in Nat /\ slotsRun \in Nat
    BY BoundsAssumption DEF Shape, MaxTx
  <1>1. CASE WorkerThread \/ WatchdogStops
    BY <1>0, <1>1
       DEF WorkerThread, WorkerBegins, WorkerConcludes, WorkerEnds, WatchdogStops, WorkerOnly,
           Tx!Begin, Tx!BeginCovered, Tx!Conclude, Tx!End, Tx!Overrun, NotOver
  <1>2. CASE ~WorkerThread /\ ~WatchdogStops
    <2>1. /\ UNCHANGED <<dispatched, slotsRun, stage, cause>>
          /\ covers' = covers \/ UnkeyCallback \/ StopLocal
      BY <1>2 DEF GlueNext, glueVars, txVars, Remote, RemoteRequest, RemoteConfirm, RemoteGivesUp,
             PlaneOnly, Callbacks, CallbackBegins, TransmitCallback, UnkeyCallback, Delivery,
             OnRequestSignal, OnFinished, PressTransmit, PressStop, Handlers, Abandon,
             ImageLoaded, ReclaimReturns, StopLocal, Tx!RequestStop
    <2>2. QED
      BY <2>1 DEF NotOver
  <1>3. QED
    BY <1>1, <1>2

\* The plane ends a transmission with an unkey, or because it has ended.
LEMMA PlaneEnds ==
  ASSUME [GlueNext]_glueVars, state = "transmitting",
         ~(state' = "transmitting" /\ pending' = pending)
  PROVE  Plane!Revoke \/ (Plane!Finish /\ (Abandon \/ (OnFinished /\ lastRemote)))
  BY DEF GlueNext, glueVars, planeVars, Remote, RemoteRequest, RemoteConfirm, RemoteGivesUp, PlaneOnly,
         Callbacks, CallbackBegins, TransmitCallback, UnkeyCallback, WorkerThread, WorkerBegins,
         WorkerConcludes, WorkerEnds, WatchdogStops, WorkerOnly, Delivery, OnRequestSignal,
         OnFinished, AfterFinished, RemoteTxEnded, PlaneFinished, PressTransmit, PressStop,
         Reclaim, Handlers, Abandon, ImageLoaded, DispatchRemote, ReclaimReturns, DispatchLocal,
         StopLocal, Plane!Request, Plane!Withdraw, Plane!Grant, Plane!Deliver, Plane!Returned

\* Nothing is under way when the end of the only transmission is handled.
LEMMA LastEnd ==
  ASSUME Shape, Counted, OneAtATime, Clean, state = "transmitting", OnFinished,
         NEW m \in 1 .. dispatched
  PROVE  ~NotOver(m)
  <1>1. Finished(1) /\ 1 \in DOMAIN guiQueue
    BY TailOf DEF OnFinished, Take, Finished, Shape
  <1>2. guiQueue[1].n \in Nat
    <2>1. guiQueue[1] \in Signal
      BY <1>1 DEF Shape
    <2>2. QED
      BY <2>1, BoundsAssumption DEF Signal, Requests, Slots, MaxTx
  <1>3. dispatched - inFlight < guiQueue[1].n /\ guiQueue[1].n <= LastDone
    BY <1>1 DEF Counted
  <1>4. inFlight <= 1
    BY DEF OneAtATime
  <1>5. dispatched \in Nat /\ inFlight \in Nat /\ slotsRun \in Nat /\ slotsRun <= dispatched
    BY BoundsAssumption DEF Shape, MaxTx
  <1>6. stage = "idle" /\ slotsRun = dispatched
    BY <1>2, <1>3, <1>4, <1>5 DEF LastDone
  <1>7. QED
    BY <1>5, <1>6 DEF NotOver

LEMMA WatchedStep ==
  ASSUME Shape, Shape', Counted, Ordered, OneAtATime, Watched, [GlueNext]_glueVars
  PROVE  Watched'
  <1> SUFFICES ASSUME Clean', NEW m \in 1 .. dispatched', NotOver(m)', cause'[m] # 0
               PROVE  Covered(m)'
    BY DEF Watched
  <1>0. Clean /\ dispatched \in Nat /\ covers \in Nat /\ slotsRun \in Nat
    BY CleanBefore, BoundsAssumption DEF Shape, MaxTx
  <1>1. CASE DispatchRemote \/ DispatchLocal
    <2>1. PICK n \in {0, guiReq} : cause' = [cause EXCEPT ![dispatched + 1] = n]
      BY <1>1 DEF DispatchRemote, DispatchLocal, DispatchFor
    <2>2. /\ dispatched' = dispatched + 1 /\ dispatched + 1 \in Slots
          /\ UNCHANGED <<planeVars, slotsRun, stage, covers>>
      BY <1>1, BoundsAssumption
         DEF DispatchRemote, DispatchLocal, DispatchFor, Tx!Dispatch, Shape, Slots, MaxTx
    <2>3. CASE m = dispatched + 1
      <3>1. cause'[m] = n /\ n # 0
        BY <2>1, <2>2, <2>3 DEF Shape
      <3>2. DispatchRemote /\ n = guiReq
        <4>1. DispatchLocal => cause' = [cause EXCEPT ![dispatched + 1] = 0]
          BY DEF DispatchLocal, DispatchFor
        <4>2. DispatchLocal => cause'[m] = 0
          BY <2>2, <2>3, <4>1 DEF Shape
        <4>3. QED
          BY <1>1, <2>1, <3>1, <4>2
      <3>3. state = "transmitting" /\ pending = guiReq
        BY <3>2 DEF DispatchRemote, Clean
      <3>4. QED
        BY <2>2, <3>1, <3>2, <3>3 DEF Covered, planeVars
    <2>4. CASE m # dispatched + 1
      <3>1. m \in 1 .. dispatched /\ cause'[m] = cause[m]
        BY <1>0, <2>1, <2>2, <2>4 DEF Shape, Slots
      <3>2. Covered(m)
        BY <1>0, <2>2, <3>1 DEF Watched, NotOver
      <3>3. QED
        BY <2>2, <3>1, <3>2 DEF Covered, Unkeying, planeVars
    <2>5. QED
      BY <2>3, <2>4
  <1>2. CASE UnkeyCallback \/ StopLocal
    BY <1>0, <1>2 DEF UnkeyCallback, StopLocal, Tx!RequestStop, Covered
  <1>3. CASE ~DispatchRemote /\ ~DispatchLocal /\ ~UnkeyCallback /\ ~StopLocal
    <2>1. dispatched' = dispatched
      BY <1>3 DEF GlueNext, glueVars, txVars, Remote, RemoteRequest, RemoteConfirm, RemoteGivesUp,
             PlaneOnly, Callbacks, CallbackBegins, TransmitCallback, WorkerThread, WorkerBegins,
             WorkerConcludes, WorkerEnds, WatchdogStops, Delivery, Tx!Begin, Tx!BeginCovered,
             Tx!Conclude, Tx!End, Tx!Overrun,
             OnRequestSignal, OnFinished, PressTransmit, PressStop, Handlers, Abandon,
             ImageLoaded, ReclaimReturns
    <2>2. /\ m \in 1 .. dispatched /\ NotOver(m) /\ cause' = cause /\ covers' = covers
      BY <1>3, <2>1, OpenBefore
    <2>3. CASE m <= covers
      BY <2>2, <2>3 DEF Covered
    <2>4. CASE Unkeying(cause[m])
      BY <1>3, <2>2, <2>4, UnkeyingKept DEF Covered, Unkeying
    <2>5. CASE state = "transmitting" /\ pending = cause[m]
      <3>1. CASE state' = "transmitting" /\ pending' = pending
        BY <2>2, <2>5, <3>1 DEF Covered
      <3>2. CASE Plane!Revoke
        <4> DEFINE e == [kind |-> "unkey", req |-> pending]
        <4>1. calls' = Append(calls, e) /\ e \in Calls
          BY <3>2 DEF Plane!Revoke, Plane!Queue, Shape, Calls
        <4> HIDE DEF e
        <4>2. Len(calls) + 1 \in DOMAIN calls' /\ calls'[Len(calls) + 1] = e
          BY <4>1, AppendOf DEF Shape
        <4>3. QED
          BY <2>2, <2>5, <4>2 DEF Covered, Unkeying, e
      <3>3. CASE Abandon
        <4>1. cause[m] < guiReq /\ guiReq <= issued /\ pending = issued
          BY <2>2, <2>5, <3>3
             DEF Abandon, Ordered, Pipeline, Granted, BeforeHandled, Handling, Shape
        <4>2. QED
          BY <2>2, <2>5, <3>3, <4>1, Numbers DEF Abandon, Handling
      <3>4. CASE OnFinished
        BY <1>0, <2>2, <2>5, <3>4, LastEnd
      <3>5. QED
        BY <2>5, <3>1, <3>2, <3>3, <3>4, PlaneEnds
    <2>6. QED
      BY <1>0, <2>2, <2>3, <2>4, <2>5 DEF Watched, Covered
  <1>4. QED
    BY <1>1, <1>2, <1>3

----------------------------------------------------------------------------
LEMMA IInvInit == GlueInit => IInv
  BY ShapeInit, CountedInit, OrderedInit, ApartInit, WatchedInit DEF IInv, Ordered

LEMMA IInvStep == IInv /\ [GlueNext]_glueVars => IInv'
  <1> SUFFICES ASSUME IInv, [GlueNext]_glueVars PROVE IInv'
    OBVIOUS
  <1>1. Shape' /\ Ordered
    BY ShapeStep DEF IInv, Ordered
  <1>2. Counted' /\ Ordered' /\ Apart'
    BY <1>1, CountedStep, OrderedStep, ApartStep DEF IInv
  <1>3. OneAtATime' /\ Watched'
    BY <1>1, OneAtATimeStep, WatchedStep DEF IInv
  <1>4. QED
    BY <1>1, <1>2, <1>3 DEF IInv, Ordered

LEMMA IInvAlways == GlueSpec => []IInv
  BY IInvInit, IInvStep, PTL DEF GlueSpec

\* A transmission in flight has not been ended by the worker.
LEMMA InFlightOnItsWay == ASSUME Shape, LocalInFlight PROVE LocalOnItsWay
  <1>1. PICK m \in 1 .. dispatched :
           cause[m] = 0 /\ (m > slotsRun \/ (m = slotsRun /\ stage # "idle"))
    BY DEF LocalInFlight
  <1>2. m \in Nat /\ slotsRun \in Nat
    BY BoundsAssumption DEF Shape, MaxTx
  <1>3. m > LastDone
    BY <1>1, <1>2 DEF LastDone
  <1>4. QED
    BY <1>1, <1>3 DEF LocalOnItsWay

\* The plane grants no request behind a transmission of the operator at the
\* radio (RemoteConfirm asks _remote_tx_busy), slipped ones apart.
THEOREM RemoteKeepsOut == GlueSpec => []NeverBehindLocal
  <1>1. IInv => NeverBehindLocal
    BY InFlightOnItsWay DEF IInv, Apart, NeverBehindLocal
  <1>2. QED
    BY <1>1, IInvAlways, PTL

\* No unkey of the plane stops a transmission of the operator at the radio:
\* reclaim_local has drained the callbacks before it is dispatched.
THEOREM LocalStaysUnharmed == GlueSpec => LocalUnharmed
  <1>1. IInv => [running.kind = "unkey" /\ covers' # covers /\ LocalInFlight
                   => running.req \in slipped \/ gui = "stop"]_glueVars
    BY InFlightOnItsWay DEF IInv, Apart, UnkeysSlipped
  <1>2. QED
    BY <1>1, IInvAlways, PTL DEF LocalUnharmed

\* A remote transmission that runs is the one the plane has on the air, or is
\* being stopped, unless its request was revoked as it was dispatched or
\* slipped into a local Transmit.
THEOREM RemoteUnderThePlane == GlueSpec => []Supervised
  <1>1. IInv => Supervised
    <2> SUFFICES ASSUME IInv, stage = "running", Current # 0, stray = {}, slipped = {}
                 PROVE  \/ state = "transmitting" /\ pending = Current
                        \/ slotsRun <= covers
                        \/ UnkeyComing(Current)
      BY DEF Supervised
    <2>1. slotsRun \in 1 .. dispatched /\ NotOver(slotsRun)
      BY BoundsAssumption DEF IInv, Shape, MaxTx, NotOver
    <2>2. Covered(slotsRun)
      BY <2>1 DEF IInv, Watched, Clean, Current
    <2>3. DOMAIN calls = 1 .. Len(calls)
      BY DEF IInv, Shape
    <2>4. QED
      BY <2>2, <2>3 DEF Covered, Unkeying, UnkeyComing, Current
  <1>2. QED
    BY <1>1, IInvAlways, PTL

=============================================================================
