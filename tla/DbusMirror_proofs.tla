-------------------------- MODULE DbusMirror_proofs --------------------------
(* Theorems about the D-Bus mirror, for any sessions, any size of a frame and *)
(* any number of failures.                                                    *)
EXTENDS DbusMirrorInv, TLAPS

-----------------------------------------------------------------------------
(* Sequences of messages. *)

LEMMA SeqGrows ==
    ASSUME NEW S, NEW T, S \subseteq T, NEW q \in Seq(S)
    PROVE  q \in Seq(T)
OBVIOUS

LEMMA HeadAndTail ==
    ASSUME NEW S, NEW q \in Seq(S), q # <<>>
    PROVE  /\ Head(q) \in S /\ Tail(q) \in Seq(S)
           /\ 1 \in DOMAIN q /\ q[1] = Head(q)
           /\ \A i \in DOMAIN Tail(q) : i + 1 \in DOMAIN q /\ Tail(q)[i] = q[i + 1]
           /\ \A i \in DOMAIN q : i # 1 => i - 1 \in DOMAIN Tail(q) /\ Tail(q)[i - 1] = q[i]
OBVIOUS

LEMMA Concatenated ==
    ASSUME NEW S, NEW q \in Seq(S), NEW r \in Seq(S)
    PROVE  /\ q \o r \in Seq(S)
           /\ \A i \in DOMAIN (q \o r) :
                 \/ i \in DOMAIN q /\ (q \o r)[i] = q[i]
                 \/ i - Len(q) \in DOMAIN r /\ (q \o r)[i] = r[i - Len(q)] /\ i > Len(q)
           /\ \A i \in DOMAIN q : i \in DOMAIN (q \o r) /\ (q \o r)[i] = q[i] /\ i <= Len(q)
           /\ \A i \in DOMAIN r : i + Len(q) \in DOMAIN (q \o r) /\ (q \o r)[i + Len(q)] = r[i]
OBVIOUS

LEMMA One ==
    ASSUME NEW S, NEW x \in S
    PROVE  /\ <<x>> \in Seq(S) /\ DOMAIN <<x>> = {1} /\ <<x>>[1] = x /\ Len(<<x>>) = 1
OBVIOUS

LEMMA EmptyQueue ==
    ASSUME NEW S
    PROVE  <<>> \in Seq(S) /\ DOMAIN <<>> = {}
OBVIOUS

LEMMA Appended ==
    ASSUME NEW S, NEW q \in Seq(S), NEW x \in S
    PROVE  Append(q, x) \in Seq(S) /\ Append(q, x) = q \o <<x>>
OBVIOUS

\* What a queue says is what its last state says.
LEMMA SaysConcat ==
    ASSUME NEW q \in Seq(Message), NEW r \in Seq(Message), NEW t
    PROVE  /\ Says(r, t) => Says(q \o r, t)
           /\ Silent(r) /\ Says(q, t) => Says(q \o r, t)
           /\ Silent(q) /\ Silent(r) => Silent(q \o r)
<1>0. /\ \A i \in DOMAIN (q \o r) :
            \/ i \in DOMAIN q /\ (q \o r)[i] = q[i]
            \/ i - Len(q) \in DOMAIN r /\ (q \o r)[i] = r[i - Len(q)] /\ i > Len(q)
      /\ \A i \in DOMAIN q : i \in DOMAIN (q \o r) /\ (q \o r)[i] = q[i] /\ i <= Len(q)
      /\ \A i \in DOMAIN r : i + Len(q) \in DOMAIN (q \o r) /\ (q \o r)[i + Len(q)] = r[i]
  BY Concatenated
<1>1. Len(q) \in Nat /\ DOMAIN q \subseteq Nat /\ DOMAIN r \subseteq Nat /\ DOMAIN (q \o r) \subseteq Nat
  BY Concatenated
<1> DEFINE c == q \o r
<1> HIDE DEF c
<1>2. ASSUME Says(r, t) PROVE Says(c, t)
  <2>1. PICK i \in DOMAIN r : /\ r[i].kind \in {"response", "state"} /\ r[i].snap.sessions = t
                             /\ \A j \in DOMAIN r : j > i => r[j].kind \notin {"response", "state"}
    BY <1>2 DEF Says
  <2>2. i + Len(q) \in DOMAIN c /\ c[i + Len(q)] = r[i]
    BY <1>0 DEF c
  <2>3. ASSUME NEW j \in DOMAIN c, j > i + Len(q) PROVE c[j].kind \notin {"response", "state"}
    <3>1. j - Len(q) \in DOMAIN r /\ c[j] = r[j - Len(q)]
      BY <1>0, <1>1, <2>3 DEF c
    <3>2. j - Len(q) > i
      BY <1>1, <2>3 DEF c
    <3>3. QED
      BY <2>1, <3>1, <3>2
  <2>4. QED
    BY <2>1, <2>2, <2>3 DEF Says
<1>3. ASSUME Silent(r), Says(q, t) PROVE Says(c, t)
  <2>1. PICK i \in DOMAIN q : /\ q[i].kind \in {"response", "state"} /\ q[i].snap.sessions = t
                             /\ \A j \in DOMAIN q : j > i => q[j].kind \notin {"response", "state"}
    BY <1>3 DEF Says
  <2>2. i \in DOMAIN c /\ c[i] = q[i]
    BY <1>0 DEF c
  <2>3. ASSUME NEW j \in DOMAIN c, j > i PROVE c[j].kind \notin {"response", "state"}
    BY <1>0, <1>3, <2>1, <2>3 DEF c, Silent
  <2>4. QED
    BY <2>1, <2>2, <2>3 DEF Says
<1>4. ASSUME Silent(q), Silent(r) PROVE Silent(c)
  BY <1>0, <1>4 DEF c, Silent
<1>5. QED
  BY <1>2, <1>3, <1>4 DEF c

LEMMA SaysTail ==
    ASSUME NEW q \in Seq(Message), q # <<>>, NEW t
    PROVE  /\ Says(q, t) => \/ Says(Tail(q), t)
                            \/ /\ Silent(Tail(q)) /\ Head(q).kind \in {"response", "state"}
                               /\ Head(q).snap.sessions = t
           /\ Silent(q) => Silent(Tail(q)) /\ Head(q).kind \notin {"response", "state"}
<1> DEFINE r == Tail(q)
<1>0. /\ 1 \in DOMAIN q /\ q[1] = Head(q) /\ DOMAIN q \subseteq Nat \ {0} /\ DOMAIN r \subseteq Nat \ {0}
      /\ \A i \in DOMAIN r : i + 1 \in DOMAIN q /\ r[i] = q[i + 1]
      /\ \A i \in DOMAIN q : i # 1 => i - 1 \in DOMAIN r /\ r[i - 1] = q[i]
  BY HeadAndTail
<1> HIDE DEF r
<1>1. ASSUME Says(q, t)
      PROVE  Says(r, t) \/ (Silent(r) /\ Head(q).kind \in {"response", "state"} /\ Head(q).snap.sessions = t)
  <2>1. PICK i \in DOMAIN q : /\ q[i].kind \in {"response", "state"} /\ q[i].snap.sessions = t
                             /\ \A j \in DOMAIN q : j > i => q[j].kind \notin {"response", "state"}
    BY <1>1 DEF Says
  <2>2. CASE i = 1
    BY <1>0, <2>1, <2>2 DEF Silent
  <2>3. CASE i # 1
    <3>1. i - 1 \in DOMAIN r /\ r[i - 1] = q[i]
      BY <1>0, <2>3
    <3>2. ASSUME NEW j \in DOMAIN r, j > i - 1 PROVE r[j].kind \notin {"response", "state"}
      BY <1>0, <2>1, <3>2
    <3>3. QED
      BY <2>1, <3>1, <3>2 DEF Says
  <2>4. QED
    BY <2>2, <2>3
<1>2. ASSUME Silent(q) PROVE Silent(r) /\ Head(q).kind \notin {"response", "state"}
  BY <1>0, <1>2 DEF Silent
<1>3. QED
  BY <1>1, <1>2 DEF r

-----------------------------------------------------------------------------
(* Types, and sessions known to the daemon. *)

Typed == TypeOK /\ KnownInv

LEMMA Monotone ==
    ASSUME NEW K, NEW L, K \subseteq L
    PROVE  /\ SnapshotOf(K) \subseteq SnapshotOf(L) /\ MessageOf(K) \subseteq MessageOf(L)
           /\ \A q \in Seq(MessageOf(K)) : q \in Seq(MessageOf(L))
           /\ \A q \in Seq(BroadcastOf(K)) : q \in Seq(BroadcastOf(L))
<1>1. SnapshotOf(K) \subseteq SnapshotOf(L)
  BY DEF SnapshotOf
<1>2. MessageOf(K) \subseteq MessageOf(L) /\ BroadcastOf(K) \subseteq BroadcastOf(L)
  BY <1>1 DEF MessageOf, BroadcastOf
<1>3. QED
  BY <1>1, <1>2, SeqGrows

\* The messages of known sessions are those of TypeOK.
LEMMA Widen ==
    ASSUME NEW K \in SUBSET Session
    PROVE  /\ SnapshotOf(K) \subseteq Snapshot /\ MessageOf(K) \subseteq Message
           /\ \A q \in Seq(MessageOf(K)) : q \in Seq(Message)
           /\ \A q \in Seq(BroadcastOf(K)) : q \in Seq(Broadcasts)
<1>1. Snapshot = SnapshotOf(Session) /\ Message = MessageOf(Session) /\ Broadcasts = BroadcastOf(Session)
  BY DEF Snapshot, SnapshotOf, Message, MessageOf, Broadcasts, BroadcastOf
<1>2. QED
  BY <1>1, Monotone

\* What is known grows, and with it the sets of messages.
LEMMA KnownGrows ==
    ASSUME KnownInv, Known \subseteq Known'
    PROVE  /\ inbox \in Seq(MessageOf(Known')) /\ idle \in Seq(MessageOf(Known'))
           /\ stalled \in Seq(BroadcastOf(Known')) /\ snapshot \in SnapshotOf(Known')
           /\ sessions \subseteq Known'
BY Monotone DEF KnownInv

LEMMA Tokens ==
    ASSUME NEW K
    PROVE  /\ Event \in MessageOf(K) /\ Quit \in MessageOf(K) /\ NoSnapshot \in SnapshotOf(K)
           /\ \A s \in SnapshotOf(K) : State(s) \in MessageOf(K)
           /\ Event.kind = "event" /\ Quit.kind = "quit"
           /\ \A s : State(s).kind = "state" /\ State(s).snap = s
BY DEF Event, Quit, NoSnapshot, State, MessageOf, SnapshotOf

LEMMA FramesTyped ==
    ASSUME NEW K, NEW s \in SnapshotOf(K)
    PROVE  Frames(s) \in Seq(MessageOf(K))
BY Tokens, One, EmptyQueue DEF Frames

LEMMA DeliverTyped ==
    ASSUME Typed, Known \subseteq Known', NEW ms \in Seq(MessageOf(Known')), Deliver(ms)
    PROVE  inbox' \in Seq(MessageOf(Known')) /\ overtaken' \in BOOLEAN
BY KnownGrows, Concatenated DEF Deliver, Typed, TypeOK, Events

LEMMA SuspendTyped ==
    ASSUME Typed, Known \subseteq Known', NEW s \in SnapshotOf(Known'),
           NEW kind \in {"starting", "started", "finished"}, Suspend(kind, s)
    PROVE  stalled' \in Seq(BroadcastOf(Known'))
<1>1. [kind |-> kind, snap |-> s] \in BroadcastOf(Known')
  BY DEF BroadcastOf
<1>2. QED
  BY <1>1, KnownGrows, Appended DEF Suspend, Typed

\* With the queues typed by what is known, the rest of TypeOK is scalar.
Scalars ==
    /\ sessions \subseteq Session /\ begun \subseteq Session
    /\ launching \in Session \cup {None}
    /\ ready \in BOOLEAN /\ stopping \in BOOLEAN
    /\ greeter \in {"reading", "stuck", "gone"}
    /\ adapter \in {"down", "failed", "booting", "asking", "serving"}
    /\ writer \in BOOLEAN /\ asked \in BOOLEAN
    /\ exported \subseteq Objects
    /\ watcher \in (SUBSET Session) \cup {Unwatched}
    /\ overtaken \in BOOLEAN
    /\ losses \in 0..MaxLosses

LEMMA Assemble == (Scalars /\ KnownInv => Typed) /\ (Typed => Scalars)
<1>1. ASSUME Scalars, KnownInv PROVE Typed
  <2>1. Known \in SUBSET Session
    BY <1>1 DEF Scalars, Known
  <2>2. QED
    BY <1>1, <2>1, Widen DEF Typed, TypeOK, Scalars, KnownInv
<1>2. QED
  BY <1>1 DEF Typed, TypeOK, Scalars

LEMMA AssembleNext == (Scalars /\ KnownInv)' => Typed'
BY Assemble, PTL

-----------------------------------------------------------------------------
(* Actions of the users and the daemon that change what is known. *)

\* Only a session that starts hides, and only the one being started.
LEMMA KnownFrame ==
    ASSUME Typed, Next
    PROVE  Known \subseteq Known'
<1> USE DEF daemonVars, adapterVars, Known, Typed, TypeOK
<1>1. CASE Users
  BY <1>1 DEF Users, StartSession, FinishSession, Stop
<1>2. CASE Daemon
  BY <1>2, MirrorAssumption DEF Daemon, LaunchSession, Resume, ServeGetState, StartAdapter, StartAdapterFails, Attach
<1>3. CASE Greeter
  BY <1>3 DEF Greeter, GreeterSpeaks, GreeterStalls, GreeterReads, GreeterLeaves, GreeterReturns
<1>4. CASE Adapter
  BY <1>4 DEF Adapter, Watch, RequestState, BeginService, MalformedState, BusFails, NameLost,
     ReadEvent, UpdateState, QuitLoop
<1>5. QED
  BY <1>1, <1>2, <1>3, <1>4 DEF Next

\* A snapshot the daemon takes knows only what it spawned.
LEMMA StateTyped ==
    ASSUME TypeOK, NEW K, NEW table, table \subseteq K
    PROVE  StateSnapshot(table) \in SnapshotOf(K)
BY DEF StateSnapshot, SnapshotOf, TypeOK

LEMMA StartKept ==
    ASSUME Typed, NEW p \in Session, StartSession(p)
    PROVE  KnownInv' /\ Scalars'
<1>0. Known \subseteq Known'
  BY KnownFrame DEF Next, Users
<1>1. <<Event>> \in Seq(MessageOf(Known'))
  BY Tokens, One
<1>2. inbox' \in Seq(MessageOf(Known')) /\ stalled' \in Seq(BroadcastOf(Known')) /\ overtaken' \in BOOLEAN
  <2>1. CASE Suspend("starting", NoSnapshot) /\ UNCHANGED <<inbox, overtaken>>
    BY <1>0, <2>1, SuspendTyped, Tokens, KnownGrows DEF Typed, TypeOK
  <2>2. CASE Deliver(<<Event>>) /\ UNCHANGED stalled
    BY <1>0, <1>1, <2>2, DeliverTyped, KnownGrows DEF Typed
  <2>3. QED
    BY <2>1, <2>2 DEF StartSession
<1>3. KnownInv'
  <2>1. /\ UNCHANGED <<sessions, idle, snapshot>>
        /\ launching' = p /\ p \in begun'
    BY DEF StartSession, adapterVars
  <2>2. QED
    BY <1>0, <1>2, <2>1, KnownGrows DEF KnownInv, Typed
<1>4. QED
  BY <1>2, <1>3 DEF StartSession, adapterVars, Scalars, Typed, TypeOK

LEMMA LaunchKept ==
    ASSUME Typed, LaunchSession
    PROVE  KnownInv' /\ Scalars'
<1>0. Known \subseteq Known'
  BY KnownFrame DEF Next, Daemon
<1>1. sessions' \subseteq Known' /\ launching' = None
  BY MirrorAssumption DEF LaunchSession, Typed, KnownInv, Known, TypeOK
<1>2. StateSnapshot(sessions') \in SnapshotOf(Known')
  BY <1>1, StateTyped DEF Typed
<1>3. Frames(StateSnapshot(sessions')) \in Seq(MessageOf(Known'))
  BY <1>2, FramesTyped
<1>4. inbox' \in Seq(MessageOf(Known')) /\ stalled' \in Seq(BroadcastOf(Known')) /\ overtaken' \in BOOLEAN
  <2>1. CASE Suspend("started", StateSnapshot(sessions')) /\ UNCHANGED <<inbox, overtaken>>
    BY <1>0, <1>2, <2>1, SuspendTyped, KnownGrows DEF Typed, TypeOK
  <2>2. CASE Deliver(Frames(StateSnapshot(sessions'))) /\ UNCHANGED stalled
    BY <1>0, <1>3, <2>2, DeliverTyped, KnownGrows DEF Typed
  <2>3. QED
    BY <2>1, <2>2 DEF LaunchSession, BroadcastState
<1>5. KnownInv'
  BY <1>0, <1>1, <1>4, KnownGrows DEF KnownInv, Typed, LaunchSession, adapterVars
<1>6. sessions' \subseteq Session
  BY DEF LaunchSession, Typed, TypeOK
<1>7. QED
  BY <1>1, <1>4, <1>5, <1>6 DEF LaunchSession, adapterVars, Scalars, Typed, TypeOK

\* session-finished, then the state, when it fits.
LEMMA EventAndFrames ==
    ASSUME NEW K, NEW s \in SnapshotOf(K)
    PROVE  <<Event>> \o Frames(s) \in Seq(MessageOf(K))
BY Tokens, One, FramesTyped, Concatenated

LEMMA FinishKept ==
    ASSUME Typed, NEW p \in Session, FinishSession(p)
    PROVE  KnownInv' /\ Scalars'
<1>0. Known \subseteq Known'
  BY KnownFrame DEF Next, Users
<1>1. sessions' \subseteq Known'
  BY <1>0 DEF FinishSession, Typed, KnownInv
<1>2. <<Event>> \o Frames(StateSnapshot(sessions')) \in Seq(MessageOf(Known'))
  BY <1>1, StateTyped, EventAndFrames DEF Typed
<1>3. inbox' \in Seq(MessageOf(Known')) /\ stalled' \in Seq(BroadcastOf(Known')) /\ overtaken' \in BOOLEAN
  <2>1. CASE Suspend("finished", NoSnapshot) /\ UNCHANGED <<inbox, overtaken>>
    BY <1>0, <2>1, Tokens, SuspendTyped, KnownGrows DEF Typed, TypeOK
  <2>2. CASE Deliver(<<Event>> \o Frames(StateSnapshot(sessions'))) /\ UNCHANGED stalled
    BY <1>0, <1>2, <2>2, DeliverTyped, KnownGrows DEF Typed
  <2>3. QED
    BY <2>1, <2>2 DEF FinishSession
<1>4. KnownInv'
  BY <1>0, <1>1, <1>3, KnownGrows DEF KnownInv, Typed, FinishSession, adapterVars
<1>5. QED
  BY <1>1, <1>3, <1>4 DEF FinishSession, adapterVars, Scalars, Typed, TypeOK

LEMMA ResumeKept ==
    ASSUME Typed, Resume
    PROVE  KnownInv' /\ Scalars'
<1>0. Known = Known' /\ UNCHANGED <<sessions, launching, begun, idle, snapshot>>
  BY DEF Resume, Known, adapterVars
<1>1. Head(stalled) \in BroadcastOf(Known) /\ stalled' \in Seq(BroadcastOf(Known'))
  BY <1>0, HeadAndTail DEF Resume, Typed, KnownInv
<1>2. Head(stalled).snap \in SnapshotOf(Known)
  BY <1>1 DEF BroadcastOf
<1>3. State(Head(stalled).snap) \in MessageOf(Known')
  BY <1>0, <1>2, Tokens
<1>4. inbox' \in Seq(MessageOf(Known')) /\ overtaken' \in BOOLEAN
  <2>1. CASE Head(stalled).kind = "started"
    BY <1>0, <1>3, <2>1, Appended DEF Resume, Typed, KnownInv
  <2>2. CASE Head(stalled).kind = "finished"
    <3>1. <<Event>> \o Frames(StateSnapshot(sessions)) \in Seq(MessageOf(Known'))
      BY <1>0, StateTyped, EventAndFrames DEF Typed, KnownInv
    <3>2. Deliver(<<Event>> \o Frames(StateSnapshot(sessions)))
      BY <2>2 DEF Resume
    <3>3. QED
      BY <1>0, <3>1, <3>2, DeliverTyped
  <2>3. CASE Head(stalled).kind = "starting"
    <3>1. <<Event>> \o <<>> \in Seq(MessageOf(Known'))
      BY Tokens, One, EmptyQueue, Concatenated
    <3>2. Deliver(<<Event>> \o <<>>)
      BY <2>3 DEF Resume
    <3>3. QED
      BY <1>0, <3>1, <3>2, DeliverTyped
  <2>4. QED
    BY <1>1, <2>1, <2>2, <2>3 DEF BroadcastOf
<1>5. KnownInv'
  BY <1>0, <1>1, <1>4 DEF KnownInv, Typed
<1>6. QED
  BY <1>4, <1>5 DEF Resume, adapterVars, Scalars, Typed, TypeOK

LEMMA GreeterKept ==
    ASSUME Typed, Greeter
    PROVE  KnownInv' /\ Scalars'
<1> USE DEF Typed, TypeOK, Scalars, KnownInv, Known, adapterVars
<1>1. CASE GreeterSpeaks
  BY <1>1 DEF GreeterSpeaks
<1>2. CASE GreeterStalls
  BY <1>2 DEF GreeterStalls
<1>3. CASE GreeterReads
  BY <1>3 DEF GreeterReads
<1>4. CASE GreeterLeaves
  BY <1>4 DEF GreeterLeaves
<1>5. CASE GreeterReturns
  BY <1>5 DEF GreeterReturns
<1>6. QED
  BY <1>1, <1>2, <1>3, <1>4, <1>5 DEF Greeter

LEMMA ChannelKept ==
    ASSUME Typed, ServeGetState \/ StartAdapter \/ StartAdapterFails \/ Attach \/ Stop
    PROVE  KnownInv' /\ Scalars'
<1> USE DEF Typed, TypeOK, Scalars, daemonVars
<1>0. Known' = Known
  BY DEF ServeGetState, StartAdapter, StartAdapterFails, Attach, Stop, Known
<1>1. CASE ServeGetState
  <2> DEFINE s == StateSnapshot(sessions)
  <2>1. s \in SnapshotOf(Known)
    BY StateTyped DEF KnownInv
  <2>2. [kind |-> "response", snap |-> s] \in MessageOf(Known)
    BY <2>1 DEF MessageOf
  <2>3. inbox' \in Seq(MessageOf(Known))
    BY <1>1, <2>2, Appended DEF ServeGetState, KnownInv
  <2>4. QED
    BY <1>0, <1>1, <2>3 DEF ServeGetState, KnownInv
<1>2. CASE StartAdapter \/ StartAdapterFails \/ Attach
  <2>1. KnownInv'
    BY <1>0, <1>2 DEF StartAdapter, StartAdapterFails, Attach, KnownInv
  <2>2. CASE StartAdapter \/ Attach
    BY <2>1, <2>2 DEF StartAdapter, Attach
  <2>3. CASE StartAdapterFails
    <3>1. losses' \in 0..MaxLosses
      BY <2>3, MirrorAssumption DEF StartAdapterFails
    <3>2. QED
      BY <2>1, <2>3, <3>1 DEF StartAdapterFails
  <2>4. QED
    BY <1>2, <2>2, <2>3
<1>3. CASE Stop
  <2>1. inbox' \in Seq(MessageOf(Known))
    BY <1>3, Tokens, Appended DEF Stop, KnownInv
  <2>2. QED
    BY <1>0, <1>3, <2>1 DEF Stop, KnownInv
<1>4. QED
  BY <1>1, <1>2, <1>3

LEMMA AdapterKept ==
    ASSUME Typed, Adapter
    PROVE  KnownInv' /\ Scalars'
<1> USE DEF daemonVars
<1>0. Known' = Known /\ UNCHANGED daemonVars
  BY DEF Adapter, Watch, RequestState, BeginService, MalformedState, BusFails, NameLost,
     ReadEvent, UpdateState, QuitLoop, Known
<1>a. Known \subseteq Session /\ snapshot.sessions \subseteq Session
  BY DEF Typed, TypeOK, Known, Snapshot
<1>1. CASE Exit /\ (losses' = losses \/ (losses < MaxLosses /\ losses' = losses + 1))
  <2>1. <<>> \in Seq(MessageOf(Known)) /\ NoSnapshot \in SnapshotOf(Known)
    BY Tokens, EmptyQueue
  <2>2. KnownInv'
    BY <1>0, <1>1, <2>1 DEF Exit, KnownInv, Typed
  <2>3. losses' \in 0..MaxLosses
    BY <1>1, MirrorAssumption DEF Typed, TypeOK
  <2>4. QED
    BY <1>0, <1>1, <2>2, <2>3 DEF Exit, Scalars, Typed, TypeOK
<1>2. CASE Watch
  BY <1>0, <1>2, <1>a DEF Watch, ListSessions, KnownInv, Scalars, Typed, TypeOK
<1>3. CASE RequestState
  BY <1>0, <1>3 DEF RequestState, KnownInv, Scalars, Typed, TypeOK
<1>4. CASE BeginService
  <2>1. Head(inbox) \in MessageOf(Known) /\ inbox' \in Seq(MessageOf(Known))
    BY <1>4, HeadAndTail DEF BeginService, Typed, KnownInv
  <2>2. snapshot' \in SnapshotOf(Known) /\ snapshot'.sessions \subseteq Session
    BY <1>4, <1>a, <2>1 DEF BeginService, MessageOf, SnapshotOf
  <2>3. exported' \subseteq Objects
    BY <1>4, <2>2 DEF BeginService, ListSeats, Objects
  <2>4. QED
    BY <1>0, <1>4, <2>1, <2>2, <2>3 DEF BeginService, KnownInv, Scalars, Typed, TypeOK
<1>5. CASE NameLost
  <2>1. idle' \in Seq(MessageOf(Known))
    BY <1>5, Tokens, Appended DEF NameLost, Typed, KnownInv
  <2>2. QED
    BY <1>0, <1>5, <2>1, MirrorAssumption DEF NameLost, KnownInv, Scalars, Typed, TypeOK
<1>6. CASE ReadEvent
  <2>1. Head(inbox) \in MessageOf(Known) /\ inbox' \in Seq(MessageOf(Known))
    BY <1>6, HeadAndTail DEF ReadEvent, Typed, KnownInv
  <2>2. idle' \in Seq(MessageOf(Known))
    BY <1>6, <2>1, Appended DEF ReadEvent, Typed, KnownInv
  <2>3. QED
    BY <1>0, <1>6, <2>1, <2>2 DEF ReadEvent, KnownInv, Scalars, Typed, TypeOK
<1>7. CASE UpdateState
  <2>1. Head(idle) \in MessageOf(Known) /\ idle' \in Seq(MessageOf(Known))
    BY <1>7, HeadAndTail DEF UpdateState, Typed, KnownInv
  <2>2. snapshot' \in SnapshotOf(Known) /\ snapshot'.sessions \subseteq Session
    BY <1>7, <1>a, <2>1 DEF UpdateState, MessageOf, SnapshotOf
  <2>3. exported' \subseteq Objects /\ watcher' \in (SUBSET Session) \cup {Unwatched}
    BY <1>7, <2>2 DEF UpdateState, Objects, Typed, TypeOK, Unwatched
  <2>4. QED
    BY <1>0, <1>7, <2>1, <2>2, <2>3 DEF UpdateState, KnownInv, Scalars, Typed, TypeOK
<1>8. MalformedState \/ BusFails \/ QuitLoop
        => Exit /\ (losses' = losses \/ (losses < MaxLosses /\ losses' = losses + 1))
  BY DEF MalformedState, BusFails, QuitLoop
<1>9. QED
  BY <1>1, <1>2, <1>3, <1>4, <1>5, <1>6, <1>7, <1>8 DEF Adapter

LEMMA TypedKept == Typed /\ [Next]_vars => Typed'
<1>1. Typed /\ UNCHANGED vars => Typed'
  BY DEF Typed, TypeOK, KnownInv, Known, vars
<1>2. Typed /\ Next => KnownInv' /\ Scalars'
  BY StartKept, LaunchKept, FinishKept, ResumeKept, GreeterKept, ChannelKept, AdapterKept
     DEF Next, Users, Daemon
<1>3. QED
  BY <1>1, <1>2, AssembleNext

-----------------------------------------------------------------------------
(* What is on the bus. *)

LEMMA ServiceKept == Typed /\ ServiceInv /\ [Next]_vars => ServiceInv'
<1> SUFFICES ASSUME Typed, ServiceInv, [Next]_vars PROVE ServiceInv'
  OBVIOUS
<1> USE DEF ServiceInv, ExportsSnapshot, ObserversAgree, ListSessions, ListSeats
<1>1. CASE UNCHANGED <<adapter, idle, exported, snapshot, watcher>>
  BY <1>1
<1>2. CASE Exit
  BY <1>2 DEF Exit
<1>3. CASE Watch \/ RequestState \/ NameLost \/ ReadEvent
  BY <1>3 DEF Watch, RequestState, NameLost, ReadEvent
<1>4. CASE StartAdapter \/ StartAdapterFails \/ GreeterReturns
  BY <1>4 DEF StartAdapter, StartAdapterFails, GreeterReturns
<1>5. CASE BeginService
  BY <1>5 DEF BeginService
<1>6. CASE UpdateState
  <2>1. snapshot.sessions \subseteq Session
    BY DEF Typed, TypeOK, Snapshot
  <2>2. adapter' = "serving" /\ adapter = "serving"
    BY <1>6 DEF UpdateState
  <2>3. exported' = {"manager", "seat"} \cup snapshot'.sessions
    BY <1>6, <2>1, <2>2, MirrorAssumption DEF UpdateState
  <2>4. watcher # Unwatched => watcher' = snapshot'.sessions
    BY <1>6 DEF UpdateState
  <2>5. QED
    BY <1>6, <2>2, <2>3, <2>4 DEF UpdateState
<1>7. \/ UNCHANGED <<adapter, idle, exported, snapshot, watcher>> \/ Exit
      \/ Watch \/ RequestState \/ NameLost \/ ReadEvent
      \/ StartAdapter \/ StartAdapterFails \/ GreeterReturns \/ BeginService \/ UpdateState
  BY DEF Next, Users, StartSession, FinishSession, Stop, Daemon, LaunchSession, Resume, ServeGetState,
     Attach, Greeter, GreeterSpeaks, GreeterStalls, GreeterReads, GreeterLeaves, Adapter, BusFails,
     MalformedState, QuitLoop, adapterVars, vars
<1>8. QED
  BY <1>1, <1>2, <1>3, <1>4, <1>5, <1>6, <1>7

-----------------------------------------------------------------------------
(* The adapter's channel. *)

\* Deliver leaves responses alone.
LEMMA Grown ==
    ASSUME NEW q \in Seq(Message), NEW r \in Seq(Message), NoResponse(r)
    PROVE  /\ NoResponse(q) => NoResponse(q \o r)
           /\ \A i \in DOMAIN (q \o r) : (q \o r)[i].kind = "response" => i \in DOMAIN q /\ q[i].kind = "response"
<1>1. \A i \in DOMAIN (q \o r) :
            \/ i \in DOMAIN q /\ (q \o r)[i] = q[i]
            \/ i - Len(q) \in DOMAIN r /\ (q \o r)[i] = r[i - Len(q)]
  BY Concatenated
<1>2. QED
  BY <1>1 DEF NoResponse

\* What the adapter's channel is sent in one step of the daemon.
LEMMA DeliveredQuietly ==
    ASSUME Typed, ChannelInv, NEW ms \in Seq(Message), NoResponse(ms),
           inbox' = IF writer THEN inbox \o ms ELSE inbox,
           UNCHANGED <<adapter, writer, asked, stopping>>
    PROVE  ChannelInv' /\ (Following' => Following)
<1>0. inbox \in Seq(Message)
  BY DEF Typed, TypeOK
<1>1. /\ NoResponse(inbox) => NoResponse(inbox')
      /\ \A i \in DOMAIN inbox' : inbox'[i].kind = "response" => i \in DOMAIN inbox /\ inbox[i].kind = "response"
  BY <1>0, Grown
<1>2. Following' => Following
  BY <1>1 DEF Following
<1>3. QED
  BY <1>1, <1>2 DEF ChannelInv

\* The states and events of a broadcast.
LEMMA Broadcasted ==
    ASSUME NEW s \in Snapshot
    PROVE  /\ Frames(s) \in Seq(Message) /\ NoResponse(Frames(s))
           /\ <<Event>> \in Seq(Message) /\ NoResponse(<<Event>>) /\ Silent(<<Event>>)
           /\ <<Event>> \o Frames(s) \in Seq(Message) /\ NoResponse(<<Event>> \o Frames(s))
           /\ Fits(s) => Says(Frames(s), s.sessions) /\ Says(<<Event>> \o Frames(s), s.sessions)
<1>1. Event \in Message /\ State(s) \in Message /\ Event.kind = "event" /\ State(s).kind = "state"
      /\ State(s).snap = s
  BY DEF Event, State, Message, NoSnapshot, Snapshot
<1>2. /\ <<Event>> \in Seq(Message) /\ DOMAIN <<Event>> = {1} /\ <<Event>>[1] = Event
      /\ <<State(s)>> \in Seq(Message) /\ DOMAIN <<State(s)>> = {1} /\ <<State(s)>>[1] = State(s)
  BY <1>1, One
<1>3. NoResponse(<<Event>>) /\ Silent(<<Event>>)
  BY <1>1, <1>2 DEF NoResponse, Silent
<1>4. Frames(s) \in Seq(Message) /\ NoResponse(Frames(s))
  BY <1>1, <1>2, EmptyQueue DEF Frames, NoResponse
<1>5. ASSUME Fits(s) PROVE Says(Frames(s), s.sessions)
  <2> DEFINE q == <<State(s)>>
  <2>1. DOMAIN q = {1} /\ q[1].kind = "state" /\ q[1].snap.sessions = s.sessions
    BY <1>1, <1>2
  <2> HIDE DEF q
  <2>2. Says(q, s.sessions)
    BY <2>1 DEF Says
  <2>3. QED
    BY <1>5, <2>2 DEF Frames, q
<1>6. QED
  BY <1>2, <1>3, <1>4, <1>5, Concatenated, Grown, SaysConcat

LEMMA StateIn ==
    ASSUME Typed, NEW table, table \subseteq Session
    PROVE  /\ StateSnapshot(table) \in Snapshot /\ StateSnapshot(table).sessions = table
BY DEF StateSnapshot, Snapshot, Typed, TypeOK

\* The daemon's broadcasts, in the three forms a step can give them.
LEMMA StepDelivers ==
    ASSUME Typed, ChannelInv, (\E p \in Session : StartSession(p) \/ FinishSession(p)) \/ LaunchSession \/ Resume
    PROVE  ChannelInv' /\ (Following' => Following)
<1> USE DEF adapterVars, Deliver
<1>0. UNCHANGED <<adapter, writer, asked, stopping>> /\ sessions' \subseteq Session
  BY DEF StartSession, FinishSession, LaunchSession, Resume, Typed, TypeOK
<1>1. <<>> \in Seq(Message) /\ NoResponse(<<>>) /\ inbox \o <<>> = inbox
  BY EmptyQueue DEF NoResponse, Typed, TypeOK
<1>2. CASE \E p \in Session : StartSession(p)
  <2>1. <<Event>> \in Seq(Message) /\ NoResponse(<<Event>>)
    BY <1>0, Broadcasted, StateIn
  <2>2. inbox' = inbox \/ inbox' = IF writer THEN inbox \o <<Event>> ELSE inbox
    BY <1>2 DEF StartSession
  <2>3. QED
    BY <1>0, <1>1, <2>1, <2>2, DeliveredQuietly
<1>3. CASE \E p \in Session : FinishSession(p)
  <2> DEFINE ms == <<Event>> \o Frames(StateSnapshot(sessions'))
  <2>1. ms \in Seq(Message) /\ NoResponse(ms)
    BY <1>0, Broadcasted, StateIn
  <2>2. inbox' = inbox \/ inbox' = IF writer THEN inbox \o ms ELSE inbox
    BY <1>3 DEF FinishSession
  <2> HIDE DEF ms
  <2>3. QED
    BY <1>0, <1>1, <2>1, <2>2, DeliveredQuietly
<1>4. CASE LaunchSession
  <2> DEFINE ms == Frames(StateSnapshot(sessions'))
  <2>1. ms \in Seq(Message) /\ NoResponse(ms)
    BY <1>0, Broadcasted, StateIn
  <2>2. inbox' = inbox \/ inbox' = IF writer THEN inbox \o ms ELSE inbox
    BY <1>4 DEF LaunchSession, BroadcastState
  <2> HIDE DEF ms
  <2>3. QED
    BY <1>0, <1>1, <2>1, <2>2, DeliveredQuietly
<1>5. CASE Resume
  <2> DEFINE b == Head(stalled)
             ms == IF b.kind = "started" THEN <<State(b.snap)>>
                   ELSE <<Event>> \o IF b.kind = "finished" THEN Frames(StateSnapshot(sessions)) ELSE <<>>
  <2>1. b \in Broadcasts
    BY <1>5, HeadAndTail DEF Resume, Typed, TypeOK
  <2>2. b.snap \in Snapshot
    BY <2>1 DEF Broadcasts
  <2>3. <<State(b.snap)>> \in Seq(Message) /\ NoResponse(<<State(b.snap)>>)
    <3>1. State(b.snap) \in Message /\ State(b.snap).kind = "state"
      BY <2>2 DEF State, Message
    <3>2. QED
      BY <3>1, One DEF NoResponse
  <2>4. ms \in Seq(Message) /\ NoResponse(ms)
    <3>1. <<Event>> \o <<>> \in Seq(Message) /\ NoResponse(<<Event>> \o <<>>)
      BY <1>0, <1>1, Broadcasted, StateIn, Concatenated, Grown
    <3>2. <<Event>> \o Frames(StateSnapshot(sessions)) \in Seq(Message)
          /\ NoResponse(<<Event>> \o Frames(StateSnapshot(sessions)))
      BY Broadcasted, StateIn DEF Typed, TypeOK
    <3>3. QED
      BY <2>3, <3>1, <3>2
  <2>5. inbox' = IF writer THEN inbox \o ms ELSE inbox
    <3>1. Append(inbox, State(b.snap)) = inbox \o <<State(b.snap)>>
      <4>1. State(b.snap) \in Message /\ inbox \in Seq(Message)
        BY <2>2 DEF State, Message, Typed, TypeOK
      <4>2. QED
        BY <4>1, Appended
    <3>2. QED
      BY <1>5, <3>1 DEF Resume
  <2> HIDE DEF ms
  <2>6. QED
    BY <1>0, <2>4, <2>5, DeliveredQuietly
<1>6. QED
  BY <1>2, <1>3, <1>4, <1>5

LEMMA ChannelInvKept == Typed /\ ServiceInv /\ ChannelInv /\ [Next]_vars => ChannelInv'
<1> SUFFICES ASSUME Typed, ServiceInv, ChannelInv, [Next]_vars PROVE ChannelInv'
  OBVIOUS
<1> USE DEF daemonVars, adapterVars
<1>0. inbox \in Seq(Message) /\ (writer => ~stopping)
  BY DEF Typed, TypeOK, ChannelInv
<1>1. CASE UNCHANGED <<adapter, writer, asked, inbox, stopping>>
  BY <1>1 DEF ChannelInv, NoResponse, Following
<1>2. CASE (\E p \in Session : StartSession(p) \/ FinishSession(p)) \/ LaunchSession \/ Resume
  BY <1>2, StepDelivers
<1>3. CASE Exit /\ UNCHANGED stopping
  BY <1>3 DEF Exit, ChannelInv, NoResponse, Following
<1>4. CASE /\ adapter \in {"down", "failed"} /\ adapter' \in {"down", "failed", "booting"}
           /\ UNCHANGED <<writer, asked, inbox, stopping>>
  BY <1>4 DEF ChannelInv, NoResponse, Following
<1>5. CASE Attach
  BY <1>5 DEF Attach, ChannelInv, NoResponse, Following
<1>6. CASE ServeGetState
  <2>1. CASE UNCHANGED inbox
    BY <1>6, <2>1 DEF ServeGetState, ChannelInv, NoResponse, Following
  <2>2. CASE ~UNCHANGED inbox
    <3>1. PICK m \in Message : inbox' = Append(inbox, m)
      <4> DEFINE m == [kind |-> "response", snap |-> StateSnapshot(sessions)]
      <4>1. m \in Message
        BY StateIn DEF Typed, TypeOK, Message
      <4>2. inbox' = Append(inbox, m)
        BY <1>6, <2>2 DEF ServeGetState
      <4>3. QED
        BY <4>1, <4>2
    <3>2. inbox' = inbox \o <<m>> /\ <<m>> \in Seq(Message) /\ DOMAIN <<m>> = {1}
      BY <1>0, <3>1, Appended, One
    <3>3. \A i \in DOMAIN inbox' : i = Len(inbox) + 1 \/ (i \in DOMAIN inbox /\ inbox'[i] = inbox[i])
      BY <1>0, <3>2, Concatenated
    <3>4. NoResponse(inbox) /\ adapter = "asking" /\ adapter' = "asking" /\ ~asked' /\ writer' /\ writer
          /\ UNCHANGED stopping
      BY <1>6 DEF ServeGetState, ChannelInv, Typed, TypeOK
    <3>5. QED
      BY <1>0, <3>3, <3>4 DEF ChannelInv, NoResponse, Following
  <2>3. QED
    BY <2>1, <2>2
<1>7. CASE Stop
  <2>1. CASE UNCHANGED inbox
    BY <1>7, <2>1 DEF Stop, ChannelInv, NoResponse, Following
  <2>2. CASE inbox' = Append(inbox, Quit) /\ adapter \in {"booting", "asking", "serving"}
    <3>1. Quit \in Message /\ Quit.kind = "quit"
      BY DEF Quit, Message, NoSnapshot, Snapshot
    <3>2. inbox' = inbox \o <<Quit>> /\ <<Quit>> \in Seq(Message) /\ NoResponse(<<Quit>>)
      BY <1>0, <2>2, <3>1, Appended, One DEF NoResponse
    <3>3. /\ NoResponse(inbox) => NoResponse(inbox')
          /\ \A i \in DOMAIN inbox' : inbox'[i].kind = "response"
                => i \in DOMAIN inbox /\ inbox[i].kind = "response"
      BY <1>0, <3>2, Grown
    <3>4. adapter' = adapter /\ ~writer' /\ ~asked' /\ stopping'
      BY <1>7 DEF Stop
    <3>5. QED
      BY <2>2, <3>3, <3>4 DEF ChannelInv
  <2>3. QED
    BY <1>7, <2>1, <2>2 DEF Stop
<1>8. CASE RequestState
  BY <1>8 DEF RequestState, ChannelInv, NoResponse, Following
<1>9. CASE BeginService \/ ReadEvent
  <2>1. inbox # <<>> /\ inbox' = Tail(inbox) /\ UNCHANGED <<writer, asked, stopping>> /\ adapter' = "serving"
    BY <1>9 DEF BeginService, ReadEvent
  <2>2. /\ 1 \in DOMAIN inbox /\ inbox[1] = Head(inbox) /\ DOMAIN inbox' \subseteq Nat \ {0}
        /\ \A i \in DOMAIN inbox' : i + 1 \in DOMAIN inbox /\ inbox'[i] = inbox[i + 1]
    BY <1>0, <2>1, HeadAndTail
  <2>3. NoResponse(inbox') /\ ~asked
    <3>1. CASE BeginService
      <4>1. inbox[1].kind = "response" /\ ~asked
        BY <2>2, <3>1 DEF BeginService, ChannelInv, NoResponse
      <4>2. ASSUME NEW i \in DOMAIN inbox' PROVE inbox'[i].kind # "response"
        <5>1. i + 1 \in DOMAIN inbox /\ inbox'[i] = inbox[i + 1] /\ i + 1 # 1
          BY <2>2, <4>2
        <5>2. QED
          BY <2>2, <4>1, <5>1 DEF ChannelInv
      <4>3. QED
        BY <4>1, <4>2 DEF NoResponse
    <3>2. CASE ReadEvent
      BY <2>2, <3>2 DEF ReadEvent, ChannelInv, NoResponse
    <3>3. QED
      BY <1>9, <3>1, <3>2
  <2>4. Following
    <3>1. CASE BeginService
      BY <2>2, <3>1 DEF BeginService, Following
    <3>2. CASE ReadEvent
      BY <3>2 DEF ReadEvent, Following
    <3>3. QED
      BY <1>9, <3>1, <3>2
  <2>5. QED
    BY <2>1, <2>3, <2>4 DEF ChannelInv, NoResponse
<1>10. \/ UNCHANGED <<adapter, writer, asked, inbox, stopping>>
       \/ (\E p \in Session : StartSession(p) \/ FinishSession(p)) \/ LaunchSession \/ Resume
       \/ Exit /\ UNCHANGED stopping
       \/ /\ adapter \in {"down", "failed"} /\ adapter' \in {"down", "failed", "booting"}
          /\ UNCHANGED <<writer, asked, inbox, stopping>>
       \/ Attach \/ ServeGetState \/ Stop \/ RequestState \/ BeginService \/ ReadEvent
  <2>1. CASE Greeter
    BY <2>1 DEF Greeter, GreeterSpeaks, GreeterStalls, GreeterReads, GreeterLeaves, GreeterReturns
  <2>2. CASE Adapter
    BY <2>2 DEF Adapter, Watch, MalformedState, BusFails, NameLost, UpdateState, QuitLoop
  <2>3. CASE Daemon \/ Users
    BY <2>3 DEF Daemon, Users, StartAdapter, StartAdapterFails
  <2>4. QED
    BY <2>1, <2>2, <2>3 DEF Next, vars
<1>11. QED
  BY <1>1, <1>2, <1>3, <1>4, <1>5, <1>6, <1>7, <1>8, <1>9, <1>10

-----------------------------------------------------------------------------
(* What the adapter will believe. *)

FitsNow == Fits(StateSnapshot(sessions))
Settled == ~stopping /\ ~overtaken /\ OnlyStarting

LEMMA FitsNext == FitsNow' <=> Cardinality(sessions') <= MaxListed
BY DEF FitsNow, Fits, StateSnapshot

\* Messages that say nothing leave the belief alone; a newest state makes it.
LEMMA BelievesGrown ==
    ASSUME Typed, NEW ms \in Seq(Message), inbox' = inbox \o ms, UNCHANGED <<idle, snapshot>>, NEW t
    PROVE  /\ Silent(ms) /\ Believes(t) => Believes(t)'
           /\ Says(ms, t) => Believes(t)'
<1>0. inbox \in Seq(Message)
  BY DEF Typed, TypeOK
<1>1. /\ Says(ms, t) => Says(inbox', t)
      /\ Silent(ms) /\ Says(inbox, t) => Says(inbox', t)
      /\ Silent(inbox) /\ Silent(ms) => Silent(inbox')
  BY <1>0, SaysConcat
<1>2. QED
  BY <1>1 DEF Believes

\* One step of Deliver, for messages that end in the present state or say nothing.
LEMMA Delivered ==
    ASSUME Typed, ChannelInv, NEW ms \in Seq(Message),
           inbox' = IF writer THEN inbox \o ms ELSE inbox,
           UNCHANGED <<adapter, writer, stopping, idle, snapshot>>,
           Following, ~stopping, NEW t
    PROVE  /\ Silent(ms) /\ Believes(t) => Believes(t)'
           /\ Says(ms, t) => Believes(t)'
<1>1. writer
  BY DEF ChannelInv
<1>2. QED
  BY <1>1, BelievesGrown

\* A broadcast that may change the belief is under way as long as it is listed.
LEMMA StillStarting ==
    ASSUME Typed, NEW kind \in {"starting", "started", "finished"}, NEW s \in Snapshot,
           Suspend(kind, s), OnlyStarting'
    PROVE  OnlyStarting /\ kind = "starting"
<1> DEFINE b == [kind |-> kind, snap |-> s]
<1>0. stalled \in Seq(Broadcasts) /\ b \in Broadcasts /\ b.kind = kind
  BY DEF Typed, TypeOK, Broadcasts
<1>1. stalled' = stalled \o <<b>> /\ <<b>> \in Seq(Broadcasts) /\ DOMAIN <<b>> = {1} /\ <<b>>[1] = b
  BY <1>0, Appended, One DEF Suspend
<1> HIDE DEF b
<1>2. /\ \A i \in DOMAIN stalled : i \in DOMAIN stalled' /\ stalled'[i] = stalled[i]
      /\ 1 + Len(stalled) \in DOMAIN stalled' /\ stalled'[1 + Len(stalled)] = b
  BY <1>0, <1>1, Concatenated
<1>3. QED
  BY <1>0, <1>2 DEF OnlyStarting

LEMMA NoSnapshotIsOne == NoSnapshot \in Snapshot
BY DEF NoSnapshot, Snapshot

LEMMA StartBelief ==
    ASSUME Typed, ChannelInv, BeliefInv, NEW p \in Session, StartSession(p)
    PROVE  BeliefInv'
<1> SUFFICES ASSUME Following', Settled'
             PROVE  Believes(sessions)' \/ ~FitsNow'
  BY DEF BeliefInv, Settled, FitsNow
<1> USE DEF adapterVars
<1>1. Following
  BY StepDelivers
<1>2. UNCHANGED <<sessions, ready, stopping, adapter, writer, idle, snapshot>>
  BY DEF StartSession
<1>3. CASE Suspend("starting", NoSnapshot) /\ UNCHANGED <<inbox, overtaken>>
  <2>1. Settled
    BY <1>2, <1>3, StillStarting, NoSnapshotIsOne DEF Settled
  <2>2. QED
    BY <1>1, <1>2, <1>3, <2>1 DEF BeliefInv, Settled, FitsNow, StateSnapshot, Believes
<1>4. CASE Deliver(<<Event>>) /\ UNCHANGED stalled
  <2>0. <<Event>> \in Seq(Message) /\ Silent(<<Event>>) /\ Events(<<Event>>)
    BY One, NoSnapshotIsOne DEF Event, Message, Silent, Events
  <2>1. Settled
    BY <1>2, <1>4, <2>0 DEF Settled, Deliver, OnlyStarting, Typed, TypeOK
  <2>2. Believes(sessions) => Believes(sessions)'
    BY <1>1, <1>2, <1>4, <2>0, <2>1, Delivered DEF Deliver, Settled
  <2>3. QED
    BY <1>1, <1>2, <2>1, <2>2 DEF BeliefInv, Settled, FitsNow, StateSnapshot
<1>5. QED
  BY <1>3, <1>4 DEF StartSession

LEMMA FinishBelief ==
    ASSUME Typed, ChannelInv, BeliefInv, NEW p \in Session, FinishSession(p)
    PROVE  BeliefInv'
<1> SUFFICES ASSUME Following', Settled', FitsNow'
             PROVE  Believes(sessions)'
  BY DEF BeliefInv, Settled, FitsNow
<1> USE DEF adapterVars
<1>1. Following
  BY StepDelivers
<1>2. UNCHANGED <<ready, stopping, adapter, writer, idle, snapshot>> /\ sessions' \subseteq Session
  BY DEF FinishSession, Typed, TypeOK
<1>3. CASE Suspend("finished", NoSnapshot)
  BY <1>3, StillStarting, NoSnapshotIsOne DEF Settled
<1>4. CASE Deliver(<<Event>> \o Frames(StateSnapshot(sessions')))
  <2>0. PICK t : t = sessions'
    OBVIOUS
  <2> DEFINE s == StateSnapshot(t)
             ms == <<Event>> \o Frames(s)
  <2>1. s \in Snapshot /\ s.sessions = t
    BY <1>2, <2>0, StateIn
  <2>2. Fits(s)
    BY <2>0, <2>1, FitsNext DEF Fits
  <2>3. ms \in Seq(Message) /\ Says(ms, t)
    BY <2>1, <2>2, Broadcasted
  <2>4. inbox' = IF writer THEN inbox \o ms ELSE inbox
    BY <1>4, <2>0 DEF Deliver
  <2> HIDE DEF ms
  <2>5. Believes(t)'
    BY <1>1, <1>2, <2>3, <2>4, Delivered DEF Settled
  <2>6. QED
    BY <2>0, <2>5 DEF Believes
<1>5. QED
  BY <1>3, <1>4 DEF FinishSession

LEMMA LaunchBelief ==
    ASSUME Typed, ChannelInv, BeliefInv, LaunchSession
    PROVE  BeliefInv'
<1> SUFFICES ASSUME Following', Settled', FitsNow'
             PROVE  Believes(sessions)'
  BY DEF BeliefInv, Settled, FitsNow
<1> USE DEF adapterVars
<1>1. Following
  BY StepDelivers
<1>2. UNCHANGED <<ready, stopping, adapter, writer, idle, snapshot>> /\ sessions' \subseteq Session
  BY DEF LaunchSession, Typed, TypeOK
<1>3. PICK t : t = sessions'
  OBVIOUS
<1> DEFINE s == StateSnapshot(t)
<1>4. s \in Snapshot /\ s.sessions = t
  BY <1>2, <1>3, StateIn
<1>5. Fits(s)
  BY <1>3, <1>4, FitsNext DEF Fits
<1>6. ~Suspend("started", s)
  BY <1>4, StillStarting DEF Settled
<1>7. Frames(s) \in Seq(Message) /\ Says(Frames(s), t)
  BY <1>4, <1>5, Broadcasted
<1>8. inbox' = IF writer THEN inbox \o Frames(s) ELSE inbox
  BY <1>3, <1>6 DEF LaunchSession, BroadcastState, Deliver
<1> HIDE DEF s
<1>9. Believes(t)'
  BY <1>1, <1>2, <1>7, <1>8, Delivered DEF Settled
<1>10. QED
  BY <1>3, <1>9 DEF Believes

LEMMA ResumeBelief ==
    ASSUME Typed, ChannelInv, BeliefInv, Resume
    PROVE  BeliefInv'
<1> SUFFICES ASSUME Following', Settled', FitsNow'
             PROVE  Believes(sessions)'
  BY DEF BeliefInv, Settled, FitsNow
<1> USE DEF adapterVars
<1> DEFINE b == Head(stalled)
<1>1. Following
  BY StepDelivers
<1>2. UNCHANGED <<sessions, ready, stopping, adapter, writer, idle, snapshot>>
  BY DEF Resume
<1>3. b \in Broadcasts /\ b.snap \in Snapshot
  <2>1. stalled \in Seq(Broadcasts) /\ stalled # <<>>
    BY DEF Resume, Typed, TypeOK
  <2>2. b \in Broadcasts
    BY <2>1, HeadAndTail
  <2>3. QED
    BY <2>2 DEF Broadcasts
<1>4. PICK t : t = sessions
  OBVIOUS
<1>5. CASE b.kind = "started"
  <2> DEFINE m == State(b.snap)
  <2>1. m \in Message /\ m.kind = "state" /\ m.snap = b.snap /\ b.snap.sessions = t
    BY <1>3, <1>4, <1>5 DEF State, Message, Resume, Settled
  <2>2. <<m>> \in Seq(Message) /\ DOMAIN <<m>> = {1} /\ <<m>>[1] = m
    BY <2>1, One
  <2>3. Append(inbox, m) = inbox \o <<m>>
    BY <2>1, Appended DEF Typed, TypeOK
  <2>4. inbox' = IF writer THEN inbox \o <<m>> ELSE inbox
    BY <1>5, <2>3 DEF Resume
  <2> DEFINE ms == <<m>>
  <2> HIDE DEF m, ms
  <2>5. Says(ms, t)
    BY <2>1, <2>2 DEF Says, ms
  <2>6. ms \in Seq(Message) /\ inbox' = IF writer THEN inbox \o ms ELSE inbox
    BY <2>2, <2>4 DEF ms
  <2>7. Believes(t)'
    BY <1>1, <1>2, <2>5, <2>6, Delivered DEF Settled
  <2>8. QED
    BY <1>2, <1>4, <2>7 DEF Believes
<1>6. CASE b.kind = "finished"
  <2> DEFINE s == StateSnapshot(t)
             ms == <<Event>> \o Frames(s)
  <2>1. s \in Snapshot /\ s.sessions = t
    BY <1>4, StateIn DEF Typed, TypeOK
  <2>2. Fits(s)
    BY <1>2, <1>4, <2>1, FitsNext DEF Fits
  <2>3. ms \in Seq(Message) /\ Says(ms, t)
    BY <2>1, <2>2, Broadcasted
  <2>4. inbox' = IF writer THEN inbox \o ms ELSE inbox
    BY <1>4, <1>6 DEF Resume, Deliver
  <2> HIDE DEF ms
  <2>5. Believes(t)'
    BY <1>1, <1>2, <2>3, <2>4, Delivered DEF Settled
  <2>6. QED
    BY <1>2, <1>4, <2>5 DEF Believes
<1>7. CASE b.kind = "starting"
  <2> DEFINE ms == <<Event>> \o <<>>
  <2>1. Event \in Message /\ Event.kind = "event"
    BY NoSnapshotIsOne DEF Event, Message
  <2>2. <<Event>> \in Seq(Message) /\ <<Event>> \o <<>> = <<Event>> /\ DOMAIN <<Event>> = {1}
        /\ <<Event>>[1] = Event
    BY <2>1, One
  <2>3. ms \in Seq(Message) /\ Silent(ms) /\ Events(ms)
    BY <2>1, <2>2 DEF Silent, Events
  <2>4. Deliver(ms)
    BY <1>7 DEF Resume
  <2> HIDE DEF ms
  <2>5. Settled
    <3>1. \A i \in DOMAIN stalled : i # 1 => i - 1 \in DOMAIN stalled' /\ stalled'[i - 1] = stalled[i]
      BY HeadAndTail DEF Resume, Typed, TypeOK
    <3>2. stalled[1] = b
      BY HeadAndTail DEF Resume, Typed, TypeOK
    <3>3. OnlyStarting
      BY <1>7, <3>1, <3>2 DEF OnlyStarting, Settled
    <3>4. QED
      BY <1>2, <2>3, <2>4, <3>3 DEF Settled, Deliver, Typed, TypeOK
  <2>6. Believes(t)
    BY <1>1, <1>2, <1>4, <2>5, FitsNext DEF BeliefInv, Settled, Fits, StateSnapshot
  <2>7. Believes(t)'
    BY <1>1, <1>2, <2>3, <2>4, <2>6, Delivered DEF Settled, Deliver
  <2>8. QED
    BY <1>2, <1>4, <2>7 DEF Believes
<1>8. QED
  BY <1>3, <1>5, <1>6, <1>7 DEF Broadcasts

\* The adapter's own steps: what it reads goes where it will believe it.
LEMMA AdapterBelief ==
    ASSUME Typed, ServiceInv, ChannelInv, BeliefInv, Adapter
    PROVE  BeliefInv'
<1> SUFFICES ASSUME Following', Settled', FitsNow'
             PROVE  Believes(sessions)'
  BY DEF BeliefInv, Settled, FitsNow
<1> USE DEF daemonVars
<1>0. UNCHANGED <<sessions, stopping, stalled, ready>> /\ inbox \in Seq(Message) /\ idle \in Seq(Message)
  BY DEF Adapter, Watch, RequestState, BeginService, MalformedState, BusFails, NameLost,
     ReadEvent, UpdateState, QuitLoop, Typed, TypeOK
<1>1. ~Exit /\ ~RequestState
  BY DEF Exit, RequestState, Following, ChannelInv, NoResponse
<1>2. Watch \/ BeginService \/ NameLost \/ ReadEvent \/ UpdateState
  BY <1>1 DEF Adapter, MalformedState, BusFails, QuitLoop
<1>3. Following /\ UNCHANGED overtaken
  <2>1. CASE BeginService
    <3>1. 1 \in DOMAIN inbox /\ inbox[1] = Head(inbox)
      BY <1>0, <2>1, HeadAndTail DEF BeginService
    <3>2. QED
      BY <2>1, <3>1 DEF BeginService, Following
  <2>2. CASE Watch \/ NameLost \/ ReadEvent \/ UpdateState
    BY <2>2 DEF Watch, NameLost, ReadEvent, UpdateState, Following
  <2>3. QED
    BY <1>2, <2>1, <2>2
<1>4. PICK t : t = sessions
  OBVIOUS
<1>5. Believes(t)
  BY <1>0, <1>3, <1>4, FitsNext DEF BeliefInv, Settled, OnlyStarting, Fits, StateSnapshot
<1>6. CASE Watch
  BY <1>0, <1>4, <1>5, <1>6 DEF Watch, Believes
<1>7. CASE BeginService
  <2>1. inbox # <<>> /\ Head(inbox).kind = "response" /\ inbox' = Tail(inbox) /\ snapshot' = Head(inbox).snap
        /\ idle = <<>> /\ idle' = idle
    BY <1>7 DEF BeginService, ServiceInv
  <2>2. Silent(idle)
    BY <2>1, EmptyQueue DEF Silent
  <2>3. ~Silent(inbox)
    BY <1>0, <2>1, SaysTail
  <2>4. Says(inbox, t)
    BY <1>5, <2>3 DEF Believes
  <2>5. Says(inbox', t) \/ (Silent(inbox') /\ snapshot'.sessions = t)
    BY <1>0, <2>1, <2>4, SaysTail
  <2>6. QED
    BY <1>0, <1>4, <2>1, <2>2, <2>5 DEF Believes
<1>8. CASE NameLost
  <2>1. Quit \in Message /\ Quit.kind = "quit"
    BY NoSnapshotIsOne DEF Quit, Message
  <2>2. <<Quit>> \in Seq(Message) /\ DOMAIN <<Quit>> = {1} /\ <<Quit>>[1] = Quit
    BY <2>1, One
  <2>3. Silent(<<Quit>>)
    BY <2>1, <2>2 DEF Silent
  <2>4. idle' = idle \o <<Quit>> /\ UNCHANGED <<inbox, snapshot>>
    BY <1>0, <1>8, <2>1, Appended DEF NameLost
  <2>5. (Says(idle, t) => Says(idle', t)) /\ (Silent(idle) => Silent(idle'))
    BY <1>0, <2>2, <2>3, <2>4, SaysConcat
  <2>6. QED
    BY <1>0, <1>4, <1>5, <2>4, <2>5 DEF Believes
<1>9. CASE ReadEvent
  <2> DEFINE m == Head(inbox)
  <2>1. inbox # <<>> /\ inbox' = Tail(inbox) /\ snapshot' = snapshot /\ adapter = "serving"
    BY <1>9 DEF ReadEvent
  <2>2. m \in Message /\ m = inbox[1] /\ 1 \in DOMAIN inbox
    BY <1>0, <2>1, HeadAndTail
  <2>3. m.kind # "response"
    BY <2>1, <2>2 DEF ChannelInv, NoResponse
  <2> HIDE DEF m
  <2>4. <<m>> \in Seq(Message) /\ DOMAIN <<m>> = {1} /\ <<m>>[1] = m
    BY <2>2, One
  <2>5. idle' = idle \/ idle' = idle \o <<m>>
    BY <1>0, <1>9, <2>2, Appended DEF ReadEvent, m
  <2>6. m.kind = "state" => idle' = idle \o <<m>>
    BY <1>0, <1>9, <2>2, Appended DEF ReadEvent, m
  <2>7. m.kind # "state" => Silent(<<m>>)
    BY <2>3, <2>4 DEF Silent
  <2>8. m.kind = "state" /\ m.snap.sessions = t => Says(<<m>>, t)
    BY <2>4 DEF Says
  <2>9. CASE Silent(inbox)
    <3>1. Silent(inbox') /\ m.kind # "state"
      BY <1>0, <2>1, <2>9, SaysTail DEF m
    <3>2. (Says(idle, t) => Says(idle', t)) /\ (Silent(idle) => Silent(idle'))
      BY <1>0, <2>4, <2>5, <2>7, <3>1, SaysConcat
    <3>3. ~Says(inbox, t)
      BY <2>9 DEF Silent, Says
    <3>4. QED
      BY <1>0, <1>4, <1>5, <2>1, <3>1, <3>2, <3>3 DEF Believes
  <2>10. CASE ~Silent(inbox)
    <3>1. Says(inbox, t)
      BY <1>5, <2>10 DEF Believes
    <3>2. CASE Says(inbox', t)
      BY <1>0, <1>4, <3>2 DEF Believes
    <3>3. CASE ~Says(inbox', t)
      <4>1. Silent(inbox') /\ m.kind = "state" /\ m.snap.sessions = t
        BY <1>0, <2>1, <2>3, <3>1, <3>3, SaysTail DEF m
      <4>2. Says(idle', t)
        <5> DEFINE r == <<m>>
        <5>1. r \in Seq(Message) /\ Says(r, t) /\ idle' = idle \o r
          BY <2>4, <2>6, <2>8, <4>1
        <5> HIDE DEF r
        <5>2. QED
          BY <1>0, <5>1, SaysConcat
      <4>3. QED
        BY <1>0, <1>4, <4>1, <4>2 DEF Believes
    <3>4. QED
      BY <3>2, <3>3
  <2>11. QED
    BY <2>9, <2>10
<1>10. CASE UpdateState
  <2>1. idle # <<>> /\ Head(idle).kind = "state" /\ idle' = Tail(idle) /\ inbox' = inbox
        /\ snapshot' = Head(idle).snap
    BY <1>10 DEF UpdateState
  <2>2. ~Silent(idle)
    BY <1>0, <2>1, SaysTail
  <2>3. CASE Says(inbox, t)
    BY <1>0, <1>4, <2>1, <2>3 DEF Believes
  <2>4. CASE Silent(inbox) /\ Says(idle, t)
    <3>1. Says(idle', t) \/ (Silent(idle') /\ snapshot'.sessions = t)
      BY <1>0, <2>1, <2>4, SaysTail
    <3>2. QED
      BY <1>0, <1>4, <2>1, <2>4, <3>1 DEF Believes
  <2>5. QED
    BY <1>5, <2>2, <2>3, <2>4 DEF Believes
<1>11. QED
  BY <1>2, <1>6, <1>7, <1>8, <1>9, <1>10

LEMMA ServeBelief ==
    ASSUME Typed, ChannelInv, ServeGetState
    PROVE  BeliefInv'
<1> SUFFICES ASSUME Following', Settled', FitsNow'
             PROVE  Believes(sessions)'
  BY DEF BeliefInv, Settled, FitsNow
<1> USE DEF daemonVars
<1>1. PICK t : t = sessions /\ t = sessions'
  BY DEF ServeGetState
<1> DEFINE m == [kind |-> "response", snap |-> StateSnapshot(t)]
<1>2. m \in Message /\ m.kind = "response" /\ m.snap.sessions = t /\ inbox \in Seq(Message)
  BY <1>1, StateIn DEF Typed, TypeOK, Message
<1>3. Fits(StateSnapshot(t))
  BY <1>1, FitsNext DEF Fits, StateSnapshot
<1>4. inbox' = inbox \o <<m>>
  BY <1>1, <1>2, <1>3, Appended DEF ServeGetState
<1>5. <<m>> \in Seq(Message) /\ DOMAIN <<m>> = {1} /\ <<m>>[1] = m
  BY <1>2, One
<1> HIDE DEF m
<1>6. Says(<<m>>, t)
  BY <1>2, <1>5 DEF Says
<1>7. Says(inbox', t)
  BY <1>2, <1>4, <1>5, <1>6, SaysConcat
<1>8. QED
  BY <1>1, <1>7 DEF Believes

LEMMA BeliefKept == Typed /\ ServiceInv /\ ChannelInv /\ BeliefInv /\ [Next]_vars => BeliefInv'
<1> SUFFICES ASSUME Typed, ServiceInv, ChannelInv, BeliefInv, [Next]_vars PROVE BeliefInv'
  OBVIOUS
<1>1. CASE UNCHANGED <<sessions, stalled, stopping, adapter, inbox, idle, snapshot, overtaken>>
  BY <1>1 DEF BeliefInv, Following, OnlyStarting, Believes, Says, Silent, Fits, StateSnapshot
<1>2. CASE Stop \/ StartAdapter \/ StartAdapterFails
  BY <1>2 DEF Stop, StartAdapter, StartAdapterFails, BeliefInv, Following
<1>3. CASE GreeterReturns
  <2>1. CASE adapter = "failed"
    BY <1>3, <2>1 DEF GreeterReturns, BeliefInv, Following
  <2>2. CASE adapter # "failed"
    BY <1>1, <1>3, <2>2 DEF GreeterReturns
  <2>3. QED
    BY <2>1, <2>2
<1>4. \/ UNCHANGED <<sessions, stalled, stopping, adapter, inbox, idle, snapshot, overtaken>>
      \/ Stop \/ StartAdapter \/ StartAdapterFails \/ GreeterReturns
      \/ Adapter \/ (\E p \in Session : StartSession(p) \/ FinishSession(p)) \/ LaunchSession \/ Resume
      \/ ServeGetState
  BY DEF Next, Users, Daemon, Greeter, GreeterSpeaks, GreeterStalls, GreeterReads, GreeterLeaves, Attach,
     adapterVars, daemonVars, vars
<1>5. QED
  BY <1>1, <1>2, <1>3, <1>4, AdapterBelief, StartBelief, FinishBelief, LaunchBelief, ResumeBelief, ServeBelief

-----------------------------------------------------------------------------
(* The theorems. *)

LEMMA InitInv == Init => MirrorInv
<1> SUFFICES ASSUME Init PROVE MirrorInv
  OBVIOUS
<1>1. NoSnapshot \in SnapshotOf(Known) /\ <<>> \in Seq(MessageOf(Known)) /\ <<>> \in Seq(BroadcastOf(Known))
  BY Tokens, EmptyQueue
<1>2. KnownInv
  BY <1>1 DEF Init, KnownInv
<1>3. Scalars
  <2>1. 0 \in 0..MaxLosses
    BY MirrorAssumption
  <2>2. sessions \subseteq Session /\ begun \subseteq Session /\ exported \subseteq Objects
        /\ launching \in Session \cup {None} /\ watcher \in (SUBSET Session) \cup {Unwatched}
    BY DEF Init
  <2>3. QED
    BY <2>1, <2>2 DEF Init, Scalars
<1>4. ServiceInv /\ ChannelInv /\ BeliefInv
  BY DEF Init, ServiceInv, ExportsSnapshot, ObserversAgree, ChannelInv, NoResponse, Following, BeliefInv
<1>5. QED
  BY <1>2, <1>3, <1>4, Assemble DEF MirrorInv, Typed

LEMMA StepInv == MirrorInv /\ [Next]_vars => MirrorInv'
<1>1. MirrorInv <=> Typed /\ ServiceInv /\ ChannelInv /\ BeliefInv
  BY DEF MirrorInv, Typed
<1>2. MirrorInv' <=> Typed' /\ ServiceInv' /\ ChannelInv' /\ BeliefInv'
  BY <1>1, PTL
<1>3. QED
  BY <1>1, <1>2, TypedKept, ServiceKept, ChannelInvKept, BeliefKept

\* The invariant the results below rest on: the queues between daemon.py and
\* dbus_adapter.py carry only what the daemon spawned, one response answers one
\* get-state, and what is on its way ends in the daemon's table.
THEOREM MirrorInvariant == Spec => []MirrorInv
BY InitInv, StepInv, PTL DEF Spec

\* No change of the daemon's session table is missed by the adapter: what it was
\* sent ends in the present table, whenever it came up.
THEOREM NothingIsMissed == Spec => []NothingMissed
<1>1. MirrorInv => NothingMissed
  <2> SUFFICES ASSUME MirrorInv, Following, ~stopping, stalled = <<>>, ~overtaken
               PROVE  Believes(sessions) \/ ~Fits(StateSnapshot(sessions))
    BY DEF NothingMissed
  <2>1. OnlyStarting
    BY EmptyQueue DEF OnlyStarting
  <2>2. QED
    BY <2>1 DEF MirrorInv, BeliefInv
<1>2. QED
  BY <1>1, MirrorInvariant, PTL

\* update_state exports and withdraws objects one by one; together they are
\* always those of the snapshot the methods answer from.
THEOREM ExportsAreSnapshot == Spec => []ExportsSnapshot
<1>1. MirrorInv => ExportsSnapshot
  BY DEF MirrorInv, ServiceInv
<1>2. QED
  BY <1>1, MirrorInvariant, PTL

\* A bus client that follows the signals agrees with one that calls ListSessions.
THEOREM SignalsSuffice == Spec => []ObserversAgree
<1>1. MirrorInv => ObserversAgree
  BY DEF MirrorInv, ServiceInv
<1>2. QED
  BY <1>1, MirrorInvariant, PTL

\* No session is on the bus before its wrapper was spawned.
THEOREM NothingShownEarly == Spec => []NeverEarly
<1>1. MirrorInv => NeverEarly
  <2> SUFFICES ASSUME MirrorInv PROVE exported \cap Session \subseteq begun \ {launching}
    BY DEF NeverEarly
  <2>1. snapshot.sessions \subseteq begun \ {launching}
    BY DEF MirrorInv, KnownInv, SnapshotOf, Known
  <2>2. exported \subseteq {"manager", "seat"} \cup snapshot.sessions
    BY DEF MirrorInv, ServiceInv, ExportsSnapshot, ListSeats, ListSessions
  <2>3. QED
    BY <2>1, <2>2, MirrorAssumption
<1>2. QED
  BY <1>1, MirrorInvariant, PTL
=============================================================================
