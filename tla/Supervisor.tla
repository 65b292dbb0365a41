----------------------------- MODULE Supervisor -----------------------------
(***************************************************************************)
(* The daemon's main coroutine (daemon.py, run_daemon_async): it keeps the *)
(* greeter and the D-Bus adapter running, counts greeters that never get   *)
(* ready, falls back to curses, and takes everything down when told to     *)
(* stop (cleanup_async). Beside it run the coroutines that serve the       *)
(* clients, the monitors of the user sessions and the processes.           *)
(*                                                                         *)
(* A conversation is reduced to what holds up the main coroutine: the      *)
(* handler may be waiting for a PAM worker (AuthBroker has the rest).      *)
(***************************************************************************)
EXTENDS Naturals

CONSTANTS
    Session,        \* identities of user sessions
    MaxRestarts,    \* greeter.max-restarts
    FirstBackend,   \* greeter.backend
    AdapterEnabled, \* dbus.enabled
    SlowStart,      \* whether a signal may come before a wrapper's setsid
    MaxInbox        \* bound: requests waiting on a client's channel

Client == {"greeter", "adapter"}

ASSUME SessionAssumption == Session \cap Client = {}
ASSUME RestartAssumption == MaxRestarts \in Nat
ASSUME BackendAssumption == FirstBackend \in {"gtk", "curses"}
ASSUME FlagAssumption    == AdapterEnabled \in BOOLEAN /\ SlowStart \in BOOLEAN
ASSUME InboxAssumption   == MaxInbox \in Nat

VARIABLES
    main,      \* where the main coroutine is suspended
    at,        \* the client whose channel it closes, or the process it ends
    left,      \* what cleanup_async has still to end
    passes,    \* how many times cleanup_async has still to run
    stop,      \* stop_event
    cause,     \* history: why the daemon left its loop
    backend,   \* state.greeter_backend
    failures,  \* greeter.failures
    fruitless, \* history: greeters in a row that never got ready, in all
    proc,      \* each client's and each session's process
    link,      \* each client's channel
    inbox,     \* how many requests are on it: what they ask for is chosen as they are read
    handler,   \* where the coroutine serving it is suspended
    ready,     \* ClientState.ready
    conv,      \* the greeter's client.auth_session
    worker,    \* its PAM worker
    stray,     \* is there one ending PAM that start-session let go of?
    monitored  \* active_sessions, and session_tasks

loopVars    == <<main, at, left, passes, cause>>
countVars   == <<backend, failures, fruitless>>
channelVars == <<link, inbox, handler, ready>>
authVars    == <<conv, worker, stray>>
vars == <<loopVars, stop, countVars, proc, channelVars, authVars, monitored>>

Managed == IF AdapterEnabled THEN Client ELSE {"greeter"}
\* What a client asks for; "other" is answered without waiting, "bad" is no frame. The
\* adapter asks for the state only.
Kinds(c) == IF c = "greeter"
            THEN {"create", "continue", "cancel", "start", "power", "other", "bad"}
            ELSE {"other"}

\* A wrapper leads its process group from setsid on, in prepare_terminal. The
\* adapter never calls it.
Newborn(p) == IF SlowStart \/ p = "adapter" THEN "young" ELSE "leader"
Running    == {"young", "leader"}
\* astray: the wrapper has exited, the program it forked has not.
Over       == {"exited", "astray"}

Init ==
    /\ main = "ensure" /\ at = "greeter" /\ left = {} /\ passes = 0
    /\ stop = FALSE /\ cause = "none"
    /\ backend = FirstBackend /\ failures = 0 /\ fruitless = 0
    /\ proc = [p \in Client \cup Session |-> "none"]
    /\ link = [c \in Client |-> "shut"]
    /\ inbox = [c \in Client |-> 0]
    /\ handler = [c \in Client |-> "none"]
    /\ ready = [c \in Client |-> FALSE]
    /\ conv = "none" /\ worker = "none" /\ stray = FALSE
    /\ monitored = {}

-----------------------------------------------------------------------------
(* ensure_managed_clients.                                                  *)

\* start_client: a process, a channel and a handler.
Launch(c) ==
    /\ proc' = [proc EXCEPT ![c] = Newborn(c)]
    /\ link' = [link EXCEPT ![c] = "open"]
    /\ inbox' = [inbox EXCEPT ![c] = 0]
    /\ handler' = [handler EXCEPT ![c] = "read"]
    /\ ready' = [ready EXCEPT ![c] = FALSE]

BeginCleanup(why, n) ==
    /\ main' = "stop-auth" /\ cause' = why /\ passes' = n
    /\ UNCHANGED <<at, left>>

StartGreeter ==
    /\ main = "ensure" /\ proc["greeter"] = "none"
    /\ Launch("greeter") /\ main' = "ensure-adapter"
    /\ UNCHANGED <<at, left, passes, cause, stop, countVars, authVars, monitored>>

\* The exception ends the loop; cleanup_async runs for it and again for finally.
StartGreeterFails ==
    /\ main = "ensure" /\ proc["greeter"] = "none"
    /\ BeginCleanup("failure", 2)
    /\ UNCHANGED <<stop, countVars, proc, channelVars, authVars, monitored>>

GreeterRuns ==
    /\ main = "ensure" /\ proc["greeter"] # "none"
    /\ main' = "ensure-adapter"
    /\ UNCHANGED <<at, left, passes, cause, stop, countVars, proc, channelVars,
                   authVars, monitored>>

StartAdapter ==
    /\ main = "ensure-adapter" /\ AdapterEnabled /\ proc["adapter"] = "none"
    /\ Launch("adapter") /\ main' = "wait"
    /\ UNCHANGED <<at, left, passes, cause, stop, countVars, authVars, monitored>>

\* It runs already, is disabled, or could not be started: the loop goes on.
SkipAdapter ==
    /\ main = "ensure-adapter" /\ main' = "wait"
    /\ UNCHANGED <<at, left, passes, cause, stop, countVars, proc, channelVars,
                   authVars, monitored>>

-----------------------------------------------------------------------------
(* wait_for_stop_or_client, and the loop after it. A stop wins over an exit, *)
(* and the greeter over the adapter.                                        *)

StopSeen ==
    /\ main = "wait" /\ stop
    /\ BeginCleanup("stopped", 1)
    /\ UNCHANGED <<stop, countVars, proc, channelVars, authVars, monitored>>

\* Slip: the process is not forgotten.
ExitSeenKept(c) ==
    /\ main = "wait" /\ ~stop
    /\ proc[c] = "exited" /\ (c = "adapter" => proc["greeter"] # "exited")
    /\ main' = "close" /\ at' = c
    /\ UNCHANGED <<left, passes, cause, stop, countVars, proc, channelVars, authVars,
                   monitored>>

ExitSeen(c) ==
    /\ main = "wait" /\ ~stop
    /\ proc[c] = "exited" /\ (c = "adapter" => proc["greeter"] # "exited")
    /\ proc' = [proc EXCEPT ![c] = "none"]
    /\ main' = "close" /\ at' = c
    /\ UNCHANGED <<left, passes, cause, stop, countVars, channelVars, authVars, monitored>>

\* close_client_channel up to its wait for the handler. What the daemon has not
\* received by then is lost.
CloseChannel(c) ==
    /\ link' = [link EXCEPT ![c] = "shut"]
    /\ \E n \in 0..inbox[c] : inbox' = [inbox EXCEPT ![c] = n]
    /\ UNCHANGED <<stop, countVars, proc, handler, ready, authVars, monitored>>

CloseExited ==
    /\ main = "close" /\ main' = "join"
    /\ CloseChannel(at)
    /\ UNCHANGED <<at, left, passes, cause>>

\* Slip: the handler is not waited for.
NotJoined(c) == c \in Client

\* await client.task
Joined(c) == handler[c] = "none"

Rejoin ==
    /\ main = "join" /\ Joined(at)
    /\ UNCHANGED <<at, left, stop, proc, channelVars, authVars, monitored>>

AdapterGone ==
    /\ Rejoin /\ at = "adapter" /\ main' = "pause"
    /\ UNCHANGED <<passes, cause, countVars>>

GreeterWasReady ==
    /\ Rejoin /\ at = "greeter" /\ ready["greeter"]
    /\ failures' = 0 /\ fruitless' = 0 /\ main' = "pause"
    /\ UNCHANGED <<passes, cause, backend>>

GreeterFailed ==
    /\ Rejoin /\ at = "greeter" /\ ~ready["greeter"]
    /\ fruitless' = fruitless + 1

\* Slip: the comparison lets one more greeter through.
RetryLate ==
    /\ GreeterFailed /\ failures + 1 <= MaxRestarts
    /\ failures' = failures + 1 /\ main' = "pause"
    /\ UNCHANGED <<passes, cause, backend>>

Retry ==
    /\ GreeterFailed /\ failures + 1 < MaxRestarts
    /\ failures' = failures + 1 /\ main' = "pause"
    /\ UNCHANGED <<passes, cause, backend>>

FallBack ==
    /\ GreeterFailed /\ failures + 1 >= MaxRestarts /\ backend # "curses"
    /\ backend' = "curses" /\ failures' = 0 /\ main' = "pause"
    /\ UNCHANGED <<passes, cause>>

GiveUp ==
    /\ GreeterFailed /\ failures + 1 >= MaxRestarts /\ backend = "curses"
    /\ failures' = failures + 1 /\ BeginCleanup("gave-up", 1)
    /\ UNCHANGED backend

Pause ==
    /\ main = "pause" /\ main' = "ensure"
    /\ UNCHANGED <<at, left, passes, cause, stop, countVars, proc, channelVars,
                   authVars, monitored>>

-----------------------------------------------------------------------------
(* cleanup_async.                                                           *)

\* stop_auth_session: the worker is told to end, killed in the end, and waited for.
Doom == worker' = (IF worker = "none" THEN "none" ELSE "doomed") /\ UNCHANGED stray

StopAuth ==
    /\ main = "stop-auth"
    /\ IF conv = "none" THEN main' = "close-all" /\ UNCHANGED <<worker, stray>>
                        ELSE main' = "stopping" /\ Doom
    /\ at' = "greeter"
    /\ UNCHANGED <<left, passes, cause, stop, countVars, proc, channelVars, conv, monitored>>

\* Slip: the worker is looked up again instead of remembered.
AuthStoppedNow == main = "stopping" /\ worker = "none"

\* The worker that was stopped is gone, or a new one is there already, started
\* by the handler on the same exit.
AuthStopped == main = "stopping" /\ worker # "doomed"

FinishStopAuth ==
    /\ AuthStopped
    /\ conv' = "none" /\ main' = "close-all"
    /\ UNCHANGED <<at, left, passes, cause, stop, countVars, proc, channelVars, worker,
                   stray, monitored>>

CloseNext ==
    /\ main = "close-all" /\ main' = "join-all"
    /\ CloseChannel(at)
    /\ UNCHANGED <<at, left, passes, cause>>

JoinNext ==
    /\ main = "join-all" /\ Joined(at)
    /\ IF at = "greeter" /\ AdapterEnabled
       THEN at' = "adapter" /\ main' = "close-all" /\ UNCHANGED left
       ELSE left' = Managed \cup monitored /\ main' = "end" /\ UNCHANGED at
    /\ UNCHANGED <<passes, cause, stop, countVars, proc, channelVars, authVars, monitored>>

\* The greeter first, then the adapter, then the sessions.
NextToEnd(p) ==
    /\ p \in left
    /\ "greeter" \in left => p = "greeter"
    /\ p \in Session => "adapter" \notin left

\* terminate_process_group: there is nothing to do for a process that is gone, and
\* nothing done for one whose group does not exist.
SignalGroup(p) ==
    /\ main = "end" /\ NextToEnd(p)
    /\ left' = left \ {p} /\ at' = p
    /\ main' = IF proc[p] = "leader" THEN "await" ELSE "end"
    /\ UNCHANGED <<passes, cause, stop, countVars, proc, channelVars, authVars, monitored>>

Ended ==
    /\ main = "await" /\ proc[at] \in Over /\ main' = "end"
    /\ UNCHANGED <<at, left, passes, cause, stop, countVars, proc, channelVars,
                   authVars, monitored>>

\* Slip: the monitors are not gathered.
NotGathered == main = "end" /\ left = {}

\* asyncio.gather(*state.session_tasks)
Gathered == main = "end" /\ left = {} /\ monitored = {}

FinishCleanup ==
    /\ Gathered
    /\ passes' = passes - 1
    /\ main' = IF passes = 1 THEN "exited" ELSE "stop-auth"
    /\ UNCHANGED <<at, left, cause, stop, countVars, proc, channelVars, authVars, monitored>>

-----------------------------------------------------------------------------
(* handle_client.                                                           *)

HandlerFrame == UNCHANGED <<loopVars, stop, countVars, link>>

Goes(c, place) == handler' = [handler EXCEPT ![c] = place]

\* A request is decoded: the client is ready.
Serves(c, kind) ==
    /\ handler[c] = "read" /\ inbox[c] > 0 /\ kind \in Kinds(c)
    /\ inbox' = [inbox EXCEPT ![c] = @ - 1]
    /\ ready' = [ready EXCEPT ![c] = TRUE]
    /\ HandlerFrame

\* A request answered without waiting, whatever the answer.
ServeAtOnce(c) ==
    /\ \/ Serves(c, "other")
       \/ Serves(c, "continue") /\ conv # "pending"
       \/ Serves(c, "start") /\ conv # "ready"
    /\ UNCHANGED <<proc, handler, authVars, monitored>>

ServeCreate ==
    /\ Serves("greeter", "create")
    /\ IF conv = "none" THEN Goes("greeter", "starting") /\ worker' = "live" /\ UNCHANGED stray
                        ELSE Goes("greeter", "replacing") /\ Doom
    /\ UNCHANGED <<proc, conv, monitored>>

FinishReplace ==
    /\ handler["greeter"] = "replacing" /\ worker = "none"
    /\ conv' = "none" /\ worker' = "live" /\ Goes("greeter", "starting")
    /\ HandlerFrame /\ UNCHANGED <<inbox, ready, proc, stray, monitored>>

\* The answer reaches the worker, or breaks on its closed channel.
ServeContinue ==
    /\ Serves("greeter", "continue") /\ conv = "pending"
    /\ IF worker = "live" THEN Goes("greeter", "answering") /\ UNCHANGED <<worker, stray>>
                          ELSE Goes("greeter", "final") /\ Doom
    /\ UNCHANGED <<proc, conv, monitored>>

ServeCancel ==
    /\ Serves("greeter", "cancel") /\ Goes("greeter", "dropping") /\ Doom
    /\ UNCHANGED <<proc, conv, monitored>>

ServePower ==
    /\ Serves("greeter", "power") /\ Goes("greeter", "control")
    /\ UNCHANGED <<proc, authVars, monitored>>

RunPowerCommand ==
    /\ handler["greeter"] = "control" /\ Goes("greeter", "read")
    /\ HandlerFrame /\ UNCHANGED <<inbox, ready, proc, authVars, monitored>>

\* A worker that is still ending PAM is neither stopped nor waited for.
ServeStart ==
    /\ Serves("greeter", "start") /\ conv = "ready"
    /\ conv' = "none" /\ Goes("greeter", "launching")
    /\ IF worker = "ending" THEN worker' = "none" /\ stray' = TRUE ELSE UNCHANGED <<worker, stray>>
    /\ UNCHANGED <<proc, monitored>>

LaunchSession ==
    /\ handler["greeter"] = "launching"
    /\ \E s \in Session :
         /\ proc[s] = "none"
         /\ proc' = [proc EXCEPT ![s] = Newborn(s)]
         /\ monitored' = monitored \cup {s}
    /\ Goes("greeter", "read")
    /\ HandlerFrame /\ UNCHANGED <<inbox, ready, authVars>>

Waiting == handler["greeter"] \in {"starting", "answering"}

\* The worker's message, and what client.auth_session and the worker become. The
\* main coroutine wakes from the same exit before a new worker can speak.
WorkerSays(newConv, newWorker, place) ==
    /\ Waiting /\ worker = "live" /\ ~AuthStopped
    /\ conv' = newConv /\ worker' = newWorker /\ Goes("greeter", place)
    /\ HandlerFrame /\ UNCHANGED <<inbox, ready, proc, stray, monitored>>

\* It waits for an answer, goes on to end PAM, or is stopped.
WorkerPrompts == WorkerSays("pending", "live", "read")
WorkerAccepts == WorkerSays("ready", "ending", "read")
WorkerFails   == WorkerSays("pending", "doomed", "dropping")

\* End of file from the worker.
WorkerHungUp ==
    /\ Waiting /\ worker # "live"
    /\ Goes("greeter", "dropping")
    /\ HandlerFrame /\ UNCHANGED <<inbox, ready, proc, authVars, monitored>>

FinishDrop ==
    /\ handler["greeter"] = "dropping" /\ worker = "none"
    /\ conv' = "none" /\ Goes("greeter", "read")
    /\ HandlerFrame /\ UNCHANGED <<inbox, ready, proc, worker, stray, monitored>>

\* End of file from the client, or a frame the codec refuses: the loop ends.
HangUp(c) ==
    /\ handler[c] = "read"
    /\ \/ inbox[c] = 0 /\ link[c] = "shut"
       \/ inbox[c] > 0 /\ "bad" \in Kinds(c)
    /\ Goes(c, "final")
    /\ IF c = "greeter" THEN Doom ELSE UNCHANGED <<worker, stray>>
    /\ HandlerFrame /\ UNCHANGED <<inbox, ready, proc, conv, monitored>>

\* An exception: a read of the worker's channel is reset, or a process cannot be
\* created.
Raise ==
    /\ \/ Waiting /\ worker = "none"
       \/ handler["greeter"] \in {"launching", "control"}
    /\ Goes("greeter", "final") /\ Doom
    /\ HandlerFrame /\ UNCHANGED <<inbox, ready, proc, conv, monitored>>

\* The rest of the finally clause.
HandlerEnds(c) ==
    /\ handler[c] = "final"
    /\ c = "greeter" => worker = "none"
    /\ conv' = IF c = "greeter" THEN "none" ELSE conv
    /\ Goes(c, "none")
    /\ link' = [link EXCEPT ![c] = "shut"]
    /\ UNCHANGED <<loopVars, stop, countVars, inbox, ready, proc, worker, stray, monitored>>

\* run_auth_timeout, while no one else stops the conversation.
TimeoutStops ==
    /\ conv = "pending" /\ worker = "live"
    /\ handler["greeter"] \in {"read", "answering"} /\ main # "stopping"
    /\ worker' = "doomed"
    /\ UNCHANGED <<loopVars, stop, countVars, proc, channelVars, conv, stray, monitored>>

TimeoutEnds ==
    /\ conv = "pending" /\ worker = "none"
    /\ handler["greeter"] = "read" /\ main # "stopping"
    /\ conv' = "none"
    /\ UNCHANGED <<loopVars, stop, countVars, proc, channelVars, worker, stray, monitored>>

\* monitor_session and send_session_finished.
SessionFinished(s) ==
    /\ s \in monitored /\ proc[s] \in Over
    /\ monitored' = monitored \ {s}
    /\ UNCHANGED <<loopVars, stop, countVars, proc, channelVars, authVars>>

-----------------------------------------------------------------------------
(* Processes and signals.                                                   *)

\* Not in the last pass of cleanup_async: the signal handlers are gone by then.
StopRequested ==
    /\ ~stop /\ passes # 1 /\ main # "exited" /\ stop' = TRUE
    /\ UNCHANGED <<loopVars, countVars, proc, channelVars, authVars, monitored>>

ClientSends(c) ==
    /\ proc[c] \in Running /\ link[c] = "open" /\ inbox[c] < MaxInbox
    /\ inbox' = [inbox EXCEPT ![c] = @ + 1]
    /\ UNCHANGED <<loopVars, stop, countVars, proc, link, handler, ready, authVars, monitored>>

\* The user interface leaves before its wrapper does.
ClientHangsUp(c) ==
    /\ proc[c] \in Running /\ link[c] = "open"
    /\ link' = [link EXCEPT ![c] = "shut"]
    /\ UNCHANGED <<loopVars, stop, countVars, proc, inbox, handler, ready, authVars, monitored>>

GetsSid(p) ==
    /\ proc[p] = "young" /\ p # "adapter"
    /\ proc' = [proc EXCEPT ![p] = "leader"]
    /\ UNCHANGED <<loopVars, stop, countVars, channelVars, authVars, monitored>>

\* A wrapper waits for its program, except one that dies of the daemon's SIGTERM: it
\* is all that terminate_process_group waits for, and a program of its group that
\* does not heed the signal is left alone.
Exits(p) ==
    /\ proc[p] \in Running
    /\ \E over \in IF p \in Session /\ main = "await" /\ at = p THEN Over ELSE {"exited"} :
           proc' = [proc EXCEPT ![p] = over]
    /\ link' = IF p \in Client THEN [link EXCEPT ![p] = "shut"] ELSE link
    /\ UNCHANGED <<loopVars, stop, countVars, inbox, handler, ready, authVars, monitored>>

ProgramEnds(p) ==
    /\ proc[p] = "astray"
    /\ proc' = [proc EXCEPT ![p] = "exited"]
    /\ UNCHANGED <<loopVars, stop, countVars, channelVars, authVars, monitored>>

\* It dies, or its last call to PAM returns.
WorkerDies ==
    /\ worker # "none" /\ worker' = "none"
    /\ UNCHANGED <<loopVars, stop, countVars, proc, channelVars, conv, stray, monitored>>

StrayEnds ==
    /\ stray /\ stray' = FALSE
    /\ UNCHANGED <<loopVars, stop, countVars, proc, channelVars, conv, worker, monitored>>

-----------------------------------------------------------------------------
Cleanup ==
    \/ StopAuth \/ FinishStopAuth \/ CloseNext \/ JoinNext
    \/ \E p \in Client \cup Session : SignalGroup(p)
    \/ Ended \/ FinishCleanup

MainLoop ==
    \/ StartGreeter \/ StartGreeterFails \/ GreeterRuns \/ StartAdapter \/ SkipAdapter
    \/ StopSeen \/ (\E c \in Client : ExitSeen(c)) \/ CloseExited
    \/ AdapterGone \/ GreeterWasReady \/ Retry \/ FallBack \/ GiveUp \/ Pause

Logins ==
    \/ ServeCreate \/ FinishReplace \/ ServeContinue \/ ServeCancel \/ FinishDrop
    \/ ServeStart \/ LaunchSession \/ ServePower \/ RunPowerCommand
    \/ WorkerHungUp \/ Raise

Handler(c) ==
    \/ ServeAtOnce(c) \/ HangUp(c) \/ HandlerEnds(c)
    \/ c = "greeter" /\ Logins

Conversation == WorkerPrompts \/ WorkerAccepts \/ WorkerFails

Environment ==
    \/ StopRequested \/ WorkerDies \/ StrayEnds \/ Conversation
    \/ (\E c \in Client : ClientHangsUp(c) \/ ClientSends(c))
    \/ \E p \in Client \cup Session : GetsSid(p) \/ Exits(p) \/ ProgramEnds(p)

Next ==
    \/ MainLoop \/ Cleanup \/ (\E c \in Client : Handler(c))
    \/ TimeoutStops \/ TimeoutEnds \/ (\E s \in Session : SessionFinished(s))
    \/ Environment

Spec == Init /\ [][Next]_vars

\* The loop runs what can run; a process group being waited for is killed in the
\* end, and so is a worker being stopped. A process waited for is `at`.
LoopFairness ==
    /\ WF_vars(MainLoop \/ Cleanup)
    /\ \A c \in Client : WF_vars(Handler(c))
    /\ \A s \in Session : WF_vars(SessionFinished(s))
    /\ \A p \in Client \cup Session : WF_vars(main = "await" /\ at = p /\ Exits(p))
    /\ WF_vars(worker = "doomed" /\ WorkerDies)

\* PAM modules return.
PamFairness == WF_vars(Conversation)

FairSpec == Spec /\ LoopFairness /\ PamFairness

-----------------------------------------------------------------------------
(* Correctness.                                                             *)

Places == {"ensure", "ensure-adapter", "wait", "close", "join", "pause", "stop-auth",
           "stopping", "close-all", "join-all", "end", "await", "exited"}

\* Every variable keeps its shape.
TypeOK ==
    /\ main \in Places /\ at \in Client \cup Session
    /\ left \subseteq Client \cup Session /\ passes \in 0..2
    /\ stop \in BOOLEAN /\ cause \in {"none", "stopped", "failure", "gave-up"}
    /\ backend \in {"gtk", "curses"} /\ failures \in Nat /\ fruitless \in Nat
    /\ proc \in [Client \cup Session -> {"none"} \cup Running \cup Over]
    /\ link \in [Client -> {"open", "shut"}]
    /\ inbox \in [Client -> Nat]
    /\ handler \in [Client -> {"none", "read", "starting", "answering", "replacing",
                               "dropping", "launching", "control", "final"}]
    /\ ready \in [Client -> BOOLEAN]
    /\ conv \in {"none", "pending", "ready"} /\ worker \in {"none", "live", "ending", "doomed"}
    /\ stray \in BOOLEAN
    /\ monitored \subseteq Session

\* run_daemon_async: greeters that never get ready are not started for ever. Each
\* back end has max-restarts of them in a row, at least one, and the daemon gives
\* up only when curses has used its own.
Tries  == IF MaxRestarts > 0 THEN MaxRestarts ELSE 1
Budget == IF FirstBackend = "curses" THEN Tries ELSE 2 * Tries
Looping == {"ensure", "ensure-adapter", "wait", "close", "join", "pause"}
CrashBudget ==
    /\ fruitless <= Budget
    /\ main \in Looping => fruitless < Budget
    /\ cause = "gave-up" => fruitless >= Tries /\ backend = "curses"

\* close_client_channel: a greeter or an adapter is started again only when the
\* coroutine that served the previous one has ended, conversation and all.
HandlerGoneBeforeRestart ==
    /\ main \in {"ensure", "pause"} /\ proc["greeter"] = "none"
         => handler["greeter"] = "none" /\ conv = "none" /\ worker = "none"
    /\ main \in {"ensure", "ensure-adapter", "pause"} /\ proc["adapter"] = "none"
         => handler["adapter"] = "none"

\* The part of cleanup_async that ends processes, and what follows it.
Ending == {"end", "await", "exited"}

\* cleanup_async closes every channel and waits for every handler before it ends
\* the sessions, so that no request, buffered or half served, opens one behind it.
NoLateSession ==
    [][\A s \in Session : main \in Ending /\ proc[s] = "none" => proc'[s] = "none"]_vars

\* When the daemon exits, whenever the stop came, every session wrapper it launched
\* has exited and no PAM worker it holds is running. What may go on are the programs
\* it told to end and did not wait for, and workers let go of at start-session, which
\* had said their last word: neither is accounted for any more.
NoOrphans ==
    main = "exited" =>
        /\ \A s \in Session : proc[s] \notin Running
        /\ monitored = {} /\ conv = "none" /\ worker = "none"

\* A stop ends the daemon, whatever the handlers are doing.
ShutdownEnds == stop ~> main = "exited"

\* A greeter that died is replaced, unless the daemon ends.
GreeterReplaced ==
    proc["greeter"] = "exited" ~> (proc["greeter"] \in Running \/ main = "exited")
=============================================================================
