----------------------------- MODULE DbusMirror -----------------------------
(* The daemon's broadcasts and the D-Bus adapter that mirrors its state:        *)
(* dbus_adapter.py, ipc_client.py and the observer side of daemon.py.           *)
(*                                                                              *)
(* The daemon owns the table of active sessions and the greeter's readiness.    *)
(* The adapter asks for a snapshot once, then follows the state-changed events: *)
(* a thread reads the channel and queues callbacks, the main loop runs them.    *)
(* A broadcast goes to the greeter first and waits there while the greeter's    *)
(* buffer is full; the adapter gets it after that wait.                         *)
EXTENDS Naturals, Sequences, FiniteSets, SequencesExt

CONSTANTS
    Session,      \* pids of the session wrappers the daemon may start
    MaxListed,    \* sessions whose descriptions fit one frame
    MaxLosses,    \* bound: how often the bus or exec fails the adapter
    SlowGreeter,  \* may the greeter stop reading with its buffer full?
    None          \* no session

ASSUME MirrorAssumption ==
    /\ MaxListed \in Nat /\ MaxLosses \in Nat
    /\ SlowGreeter \in BOOLEAN
    /\ None \notin Session
    /\ "manager" \notin Session /\ "seat" \notin Session

VARIABLES
    sessions,   \* state.active_sessions of the daemon
    begun,      \* sessions ever started (each pid is used once)
    launching,  \* session the greeter's handler is about to spawn
    ready,      \* ClientState.ready of the greeter
    greeter,    \* the greeter's end of its channel
    stalled,    \* broadcasts suspended in the greeter's drain, oldest first
    stopping,   \* the daemon closes its channels
    adapter,    \* stage of the adapter process
    writer,     \* is client.writer of the adapter set?
    asked,      \* a get-state request the daemon has not read
    inbox,      \* messages to the adapter it has not read
    idle,       \* callbacks queued by GLib.idle_add
    snapshot,   \* DisplayManagerService.snapshot
    exported,   \* DisplayManagerService.registration_ids
    watcher,    \* sessions a bus client listed and kept by signals
    overtaken,  \* history: the last state sent to the adapter is an older one
    losses

daemonVars == <<sessions, begun, launching, ready, greeter, stalled, stopping>>
adapterVars == <<adapter, writer, asked, idle, snapshot, exported, watcher, losses>>
vars == <<sessions, begun, launching, ready, greeter, stalled, stopping,
          adapter, writer, asked, inbox, idle, snapshot, exported, watcher, overtaken,
          losses>>

Snapshot == [ready : BOOLEAN, sessions : SUBSET Session]
NoSnapshot == [ready |-> FALSE, sessions |-> {}]

\* response: to get-state; state: state-changed; event: session-starting and
\* session-finished; quit: end of file on the channel, loop.quit in the queue.
Message == [kind : {"response", "state", "event", "quit"}, snap : Snapshot]
State(s) == [kind |-> "state", snap |-> s]
Event == [kind |-> "event", snap |-> NoSnapshot]
Quit == [kind |-> "quit", snap |-> NoSnapshot]
Events(q) == \A i \in DOMAIN q : q[i].kind = "event"

\* starting and started are sent by the greeter's handler, finished by the
\* monitor of the session that ended.
Broadcasts == [kind : {"starting", "started", "finished"}, snap : Snapshot]

Objects == {"manager", "seat"} \cup Session
Unwatched == {None}

TypeOK ==
    /\ sessions \subseteq Session /\ begun \subseteq Session
    /\ launching \in Session \cup {None}
    /\ ready \in BOOLEAN /\ stopping \in BOOLEAN
    /\ greeter \in {"reading", "stuck", "gone"}
    /\ stalled \in Seq(Broadcasts)
    /\ adapter \in {"down", "failed", "booting", "asking", "serving"}
    /\ writer \in BOOLEAN /\ asked \in BOOLEAN
    /\ inbox \in Seq(Message) /\ idle \in Seq(Message)
    /\ snapshot \in Snapshot
    /\ exported \subseteq Objects
    /\ watcher \in (SUBSET Session) \cup {Unwatched}
    /\ overtaken \in BOOLEAN
    /\ losses \in 0..MaxLosses

Init ==
    /\ sessions = {} /\ begun = {} /\ launching = None
    /\ ready = FALSE /\ greeter = "reading" /\ stalled = <<>> /\ stopping = FALSE
    /\ adapter = "down" /\ writer = FALSE /\ asked = FALSE
    /\ inbox = <<>> /\ idle = <<>>
    /\ snapshot = NoSnapshot /\ exported = {} /\ watcher = Unwatched
    /\ overtaken = FALSE /\ losses = 0

-----------------------------------------------------------------------------
(* The daemon. *)

\* What state_snapshot builds, for a given table of sessions.
StateSnapshot(table) == [ready |-> ready, sessions |-> table]

Fits(s) == Cardinality(s.sessions) <= MaxListed

\* send_message encodes first: a snapshot too large for a frame goes nowhere.
Frames(s) == IF Fits(s) THEN <<State(s)>> ELSE <<>>

\* send_message to the adapter: nothing without a writer.
Deliver(ms) ==
    /\ inbox' = IF writer THEN inbox \o ms ELSE inbox
    /\ overtaken' = (overtaken /\ Events(ms))

Suspend(kind, s) == stalled' = Append(stalled, [kind |-> kind, snap |-> s])

\* broadcast_state_changed by the handler.
BroadcastState(s) ==
    \/ /\ greeter = "stuck" /\ Fits(s)
       /\ Suspend("started", s)
       /\ UNCHANGED <<inbox, overtaken>>
    \/ /\ greeter # "stuck" \/ ~Fits(s)
       /\ Deliver(Frames(s))
       /\ UNCHANGED stalled

HandlerSuspended ==
    \E i \in DOMAIN stalled : stalled[i].kind \in {"starting", "started"}

\* Slip: the session is listed and announced before its wrapper is spawned.
StartSessionListed(p) ==
    /\ ~stopping /\ greeter # "gone" /\ ready
    /\ launching = None /\ ~HandlerSuspended
    /\ p \notin begun
    /\ begun' = begun \cup {p}
    /\ launching' = p
    /\ sessions' = sessions \cup {p}
    /\ Deliver(<<Event, State(StateSnapshot(sessions'))>>)
    /\ UNCHANGED <<ready, greeter, stalled, stopping>> /\ UNCHANGED adapterVars

\* The greeter's handler accepts start-session and announces session-starting.
StartSession(p) ==
    /\ ~stopping /\ greeter # "gone" /\ ready
    /\ launching = None /\ ~HandlerSuspended
    /\ p \notin begun
    /\ begun' = begun \cup {p}
    /\ launching' = p
    /\ \/ greeter = "stuck" /\ Suspend("starting", NoSnapshot) /\ UNCHANGED <<inbox, overtaken>>
       \/ greeter # "stuck" /\ Deliver(<<Event>>) /\ UNCHANGED stalled
    /\ UNCHANGED <<sessions, ready, greeter, stopping>> /\ UNCHANGED adapterVars

\* The wrapper is spawned and listed, and the new state is announced.
LaunchSession ==
    /\ launching # None /\ ~HandlerSuspended
    /\ launching' = None
    /\ sessions' = sessions \cup {launching}
    /\ BroadcastState(StateSnapshot(sessions'))
    /\ UNCHANGED <<begun, ready, greeter, stopping>> /\ UNCHANGED adapterVars

\* Slip: the snapshot announced is the one taken before the session was dropped.
FinishSessionStale(p) ==
    /\ p \in sessions
    /\ sessions' = sessions \ {p}
    /\ Deliver(<<Event>> \o Frames(StateSnapshot(sessions)))
    /\ UNCHANGED <<begun, launching, ready, greeter, stalled, stopping>>
    /\ UNCHANGED adapterVars

\* monitor_session: the session is dropped from the table, then announced; the
\* snapshot is taken after the first broadcast.
FinishSession(p) ==
    /\ p \in sessions
    /\ sessions' = sessions \ {p}
    /\ \/ /\ greeter = "stuck"
          /\ Suspend("finished", NoSnapshot)
          /\ UNCHANGED <<inbox, overtaken>>
       \/ /\ greeter # "stuck"
          /\ Deliver(<<Event>> \o Frames(StateSnapshot(sessions')))
          /\ UNCHANGED stalled
    /\ UNCHANGED <<begun, launching, ready, greeter, stopping>>
    /\ UNCHANGED adapterVars

\* The oldest broadcast comes back from the greeter's drain.
Resume ==
    /\ greeter # "stuck" /\ stalled # <<>>
    /\ stalled' = Tail(stalled)
    /\ LET b == Head(stalled) IN
       IF b.kind = "started"
       THEN /\ inbox' = IF writer THEN Append(inbox, State(b.snap)) ELSE inbox
            /\ overtaken' = (b.snap.sessions # sessions)
       ELSE Deliver(<<Event>> \o IF b.kind = "finished" THEN Frames(StateSnapshot(sessions))
                                 ELSE <<>>)
    /\ UNCHANGED <<sessions, begun, launching, ready, greeter, stopping>>
    /\ UNCHANGED adapterVars

\* The greeter: any request makes it ready, a restart makes it unready.
GreeterSpeaks ==
    /\ greeter = "reading" /\ ~ready /\ ready' = TRUE
    /\ UNCHANGED <<sessions, begun, launching, greeter, stalled, stopping, inbox, overtaken>>
    /\ UNCHANGED adapterVars

GreeterStalls ==
    /\ SlowGreeter /\ greeter = "reading" /\ greeter' = "stuck"
    /\ UNCHANGED <<sessions, begun, launching, ready, stalled, stopping, inbox, overtaken>>
    /\ UNCHANGED adapterVars

GreeterReads ==
    /\ greeter = "stuck" /\ greeter' = "reading"
    /\ UNCHANGED <<sessions, begun, launching, ready, stalled, stopping, inbox, overtaken>>
    /\ UNCHANGED adapterVars

\* handle_client of the greeter ends: client.writer is None.
GreeterLeaves ==
    /\ greeter # "gone" /\ launching = None /\ ~HandlerSuspended
    /\ greeter' = "gone"
    /\ UNCHANGED <<sessions, begun, launching, ready, stalled, stopping, inbox, overtaken>>
    /\ UNCHANGED adapterVars

\* Slip: only the greeter is looked after when the main loop comes round.
GreeterReturnsAlone ==
    /\ greeter = "gone" /\ ~stopping
    /\ greeter' = "reading" /\ ready' = FALSE
    /\ UNCHANGED <<sessions, begun, launching, stalled, stopping, inbox, overtaken>>
    /\ UNCHANGED adapterVars

\* The main loop starts the greeter again; coming round, it also tries an
\* adapter whose start had failed.
GreeterReturns ==
    /\ greeter = "gone" /\ ~stopping
    /\ greeter' = "reading" /\ ready' = FALSE
    /\ adapter' = IF adapter = "failed" THEN "down" ELSE adapter
    /\ UNCHANGED <<sessions, begun, launching, stalled, stopping, inbox, overtaken,
                   writer, asked, idle, snapshot, exported, watcher, losses>>

-----------------------------------------------------------------------------
(* The daemon's side of the adapter's channel. *)

StartAdapter ==
    /\ adapter = "down" /\ ~stopping
    /\ adapter' = "booting"
    /\ UNCHANGED daemonVars
    /\ UNCHANGED <<writer, asked, inbox, idle, snapshot, exported, watcher, overtaken, losses>>

\* start_dbus_adapter logs the exception and returns None.
StartAdapterFails ==
    /\ adapter = "down" /\ ~stopping /\ losses < MaxLosses
    /\ adapter' = "failed"
    /\ losses' = losses + 1
    /\ UNCHANGED daemonVars
    /\ UNCHANGED <<writer, asked, inbox, idle, snapshot, exported, watcher, overtaken>>

\* The first step of handle_client publishes the writer.
Attach ==
    /\ adapter \in {"booting", "asking"} /\ ~writer /\ ~stopping
    /\ writer' = TRUE
    /\ UNCHANGED daemonVars
    /\ UNCHANGED <<adapter, asked, inbox, idle, snapshot, exported, watcher, overtaken, losses>>

\* process_request answers get-state with a snapshot of this moment.
ServeGetState ==
    /\ writer /\ asked
    /\ asked' = FALSE
    /\ LET s == StateSnapshot(sessions) IN
       inbox' = IF Fits(s) THEN Append(inbox, [kind |-> "response", snap |-> s]) ELSE inbox
    /\ overtaken' = FALSE
    /\ UNCHANGED daemonVars
    /\ UNCHANGED <<adapter, writer, idle, snapshot, exported, watcher, losses>>

\* Cleanup closes the adapter's channel; what was written can still be read.
Stop ==
    /\ ~stopping /\ stopping' = TRUE
    /\ inbox' = IF adapter \in {"booting", "asking", "serving"} THEN Append(inbox, Quit) ELSE inbox
    /\ writer' = FALSE /\ asked' = FALSE
    /\ UNCHANGED <<sessions, begun, launching, ready, greeter, stalled>>
    /\ UNCHANGED <<adapter, idle, snapshot, exported, watcher, overtaken, losses>>

-----------------------------------------------------------------------------
(* The adapter process. *)

\* run_adapter ends: service.close unregisters the objects and client.close
\* ends the channel, which the daemon sees as an end of file.
Exit ==
    /\ adapter' = "down"
    /\ writer' = FALSE /\ asked' = FALSE /\ overtaken' = FALSE
    /\ inbox' = <<>> /\ idle' = <<>>
    /\ exported' = {} /\ snapshot' = NoSnapshot /\ watcher' = Unwatched

\* What the getters and methods of the service answer: they read the snapshot
\* of the moment. The seat is configured once and never changes.
ListSeats == {"seat"}
ListSessions == snapshot.sessions

\* A bus client calls ListSessions, and follows the signals from then on.
Watch ==
    /\ adapter = "serving" /\ watcher = Unwatched
    /\ watcher' = ListSessions
    /\ UNCHANGED daemonVars
    /\ UNCHANGED <<adapter, writer, asked, inbox, idle, snapshot, exported, overtaken, losses>>

\* request_state writes the request and waits for one message.
RequestState ==
    /\ adapter = "booting"
    /\ adapter' = "asking"
    /\ asked' = ~stopping
    /\ UNCHANGED daemonVars
    /\ UNCHANGED <<writer, inbox, idle, snapshot, exported, watcher, overtaken, losses>>

\* The message is the response: the service is built and the loop started.
BeginService ==
    /\ adapter = "asking" /\ inbox # <<>> /\ Head(inbox).kind = "response"
    /\ adapter' = "serving"
    /\ inbox' = Tail(inbox)
    /\ snapshot' = Head(inbox).snap
    /\ exported' = {"manager"} \cup ListSeats \cup snapshot'.sessions
    /\ UNCHANGED daemonVars
    /\ UNCHANGED <<writer, asked, idle, watcher, overtaken, losses>>

\* It is an event or the end of file: RuntimeError, cmd_main returns a failure.
MalformedState ==
    /\ adapter = "asking" /\ inbox # <<>> /\ Head(inbox).kind # "response"
    /\ Exit
    /\ UNCHANGED daemonVars /\ UNCHANGED losses

\* The bus cannot be reached, or an import fails.
BusFails ==
    /\ adapter \in {"booting", "asking"} /\ losses < MaxLosses
    /\ losses' = losses + 1
    /\ Exit
    /\ UNCHANGED daemonVars

\* _on_name_lost queues the end of the loop behind what is already queued.
NameLost ==
    /\ adapter = "serving" /\ losses < MaxLosses
    /\ losses' = losses + 1
    /\ idle' = Append(idle, Quit)
    /\ UNCHANGED daemonVars
    /\ UNCHANGED <<adapter, writer, asked, inbox, snapshot, exported, watcher, overtaken>>

\* One message of the reader thread: states and the end of file are queued for
\* the main loop, other events are passed over.
ReadEvent ==
    /\ adapter = "serving" /\ inbox # <<>>
    /\ inbox' = Tail(inbox)
    /\ idle' = IF Head(inbox).kind \in {"state", "quit"} THEN Append(idle, Head(inbox)) ELSE idle
    /\ UNCHANGED daemonVars
    /\ UNCHANGED <<adapter, writer, asked, snapshot, exported, watcher, overtaken, losses>>

\* Slip: a session already exported is not announced as removed when another
\* took its place in the list.
UpdateStateSilent ==
    /\ adapter = "serving" /\ idle # <<>> /\ Head(idle).kind = "state"
    /\ idle' = Tail(idle)
    /\ snapshot' = Head(idle).snap
    /\ exported' = {"manager"} \cup ListSeats \cup snapshot'.sessions
    /\ watcher' = IF watcher = Unwatched THEN watcher ELSE watcher \cup snapshot'.sessions
    /\ UNCHANGED daemonVars
    /\ UNCHANGED <<adapter, writer, asked, inbox, overtaken, losses>>

\* Slip: objects of finished sessions stay registered.
UpdateStateLeaky ==
    /\ adapter = "serving" /\ idle # <<>> /\ Head(idle).kind = "state"
    /\ idle' = Tail(idle)
    /\ snapshot' = Head(idle).snap
    /\ exported' = exported \cup snapshot'.sessions
    /\ watcher' = IF watcher = Unwatched THEN watcher ELSE snapshot'.sessions
    /\ UNCHANGED daemonVars
    /\ UNCHANGED <<adapter, writer, asked, inbox, overtaken, losses>>

\* update_state: objects of sessions that went are withdrawn, new ones exported,
\* each with its signal. _unregister_object and _register_object pass over paths
\* they do not know or know already.
UpdateState ==
    /\ adapter = "serving" /\ idle # <<>> /\ Head(idle).kind = "state"
    /\ idle' = Tail(idle)
    /\ snapshot' = Head(idle).snap
    /\ LET removed == snapshot.sessions \ snapshot'.sessions
           added == snapshot'.sessions \ snapshot.sessions
       IN /\ exported' = (exported \ removed) \cup added
          /\ watcher' = IF watcher = Unwatched THEN watcher ELSE (watcher \ removed) \cup added
    /\ UNCHANGED daemonVars
    /\ UNCHANGED <<adapter, writer, asked, inbox, overtaken, losses>>

QuitLoop ==
    /\ adapter = "serving" /\ idle # <<>> /\ Head(idle).kind = "quit"
    /\ Exit
    /\ UNCHANGED daemonVars /\ UNCHANGED losses

-----------------------------------------------------------------------------
Users == (\E p \in Session : StartSession(p) \/ FinishSession(p)) \/ Stop
Daemon == LaunchSession \/ Resume \/ ServeGetState \/ StartAdapter \/ StartAdapterFails \/ Attach
Greeter == GreeterSpeaks \/ GreeterStalls \/ GreeterReads \/ GreeterLeaves \/ GreeterReturns
Adapter ==
    \/ Watch \/ RequestState \/ BeginService \/ MalformedState \/ BusFails \/ NameLost
    \/ ReadEvent \/ UpdateState \/ QuitLoop

Next == Users \/ Daemon \/ Greeter \/ Adapter

Spec == Init /\ [][Next]_vars

\* The daemon's event loop and the adapter's process, thread and main loop run;
\* a start of the adapter does not fail for ever, a gone greeter is replaced.
Fairness ==
    /\ WF_vars(LaunchSession) /\ WF_vars(Resume) /\ WF_vars(ServeGetState)
    /\ WF_vars(StartAdapter) /\ WF_vars(Attach) /\ WF_vars(GreeterReturns)
    /\ WF_vars(RequestState) /\ WF_vars(BeginService) /\ WF_vars(MalformedState)
    /\ WF_vars(ReadEvent) /\ WF_vars(UpdateState) /\ WF_vars(QuitLoop)

FairSpec == Spec /\ Fairness

-----------------------------------------------------------------------------
(* Properties. *)

\* The newest state among what is queued in q, if any, says the given table.
Says(q, table) ==
    \E i \in DOMAIN q :
        /\ q[i].kind \in {"response", "state"}
        /\ q[i].snap.sessions = table
        /\ \A j \in DOMAIN q : j > i => q[j].kind \notin {"response", "state"}

Silent(q) == \A i \in DOMAIN q : q[i].kind \notin {"response", "state"}

\* What the adapter will believe once it has read all that is on its way.
Believes(table) ==
    \/ Says(inbox, table)
    \/ Silent(inbox) /\ Says(idle, table)
    \/ Silent(inbox) /\ Silent(idle) /\ snapshot.sessions = table

\* The adapter follows the daemon: it has its first snapshot, or is being sent it.
Following ==
    \/ adapter = "serving"
    \/ adapter = "asking" /\ \E i \in DOMAIN inbox : inbox[i].kind = "response"

\* No change of the session table is missed, whenever the adapter came up: what
\* it has been sent always ends in the present table, except when that table does
\* not fit a frame, a broadcast waits in the greeter's drain or came out of it
\* behind a newer one, or the daemon closed the channel.
NothingMissed ==
    (Following /\ ~stopping /\ stalled = <<>> /\ ~overtaken)
        => Believes(sessions) \/ ~Fits(StateSnapshot(sessions))

\* The objects on the bus are the ones the methods list, through every sequence
\* of updates, and none outlives the service (registration_ids).
ExportsSnapshot ==
    exported = IF adapter = "serving" THEN {"manager"} \cup ListSeats \cup ListSessions ELSE {}

\* A bus client that listed the sessions once and applies SessionAdded and
\* SessionRemoved from then on agrees with a client that lists them now.
ObserversAgree == watcher # Unwatched => watcher = ListSessions

\* No session is shown on the bus before its wrapper was spawned, however the
\* broadcasts of the handler and of the monitors overtake one another.
NeverEarly == exported \cap Session \subseteq begun \ {launching}

Shown == adapter = "serving" /\ exported \cap Session = sessions

\* When users leave the daemon alone, the bus ends up showing its sessions,
\* through lost names, failed starts and events that raced the first request.
\* What keeps it from there: the daemon stops, the table does not fit a frame, a
\* broadcast never comes out of the greeter's drain or came out last although
\* older. Only an adapter whose start failed stays away, and only as long as
\* the greeter does not exit: nothing else brings the main loop round.
MirrorSettles ==
    \/ <>[](Shown \/ stopping \/ stalled # <<>> \/ overtaken \/ ~Fits(StateSnapshot(sessions)))
    \/ <>[](adapter = "failed" /\ greeter # "gone")
=============================================================================
