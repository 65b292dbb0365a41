----------------------------- MODULE AuthBroker -----------------------------
(***************************************************************************)
(* The daemon's side of one greeter login: the coroutine that serves the   *)
(* greeter's channel (daemon.py, handle_client and handle_request_async),  *)
(* the PAM workers it starts and stops (daemon_auth.py) and the timeout    *)
(* task of a pending conversation (reset_auth_timeout, run_auth_timeout).  *)
(*                                                                         *)
(* The daemon is one asyncio loop, so a step of this module is the code    *)
(* between two awaits that can suspend.  A write to a stream followed by   *)
(* drain() does not suspend: the frames are far below the high-water mark  *)
(* of the transport.  A cancelled task runs no more of its body.           *)
(*                                                                         *)
(* The greeter is arbitrary: it may pipeline requests, send any request at *)
(* any time, stop reading and disappear.  The worker follows pam/worker.py *)
(* with PAM itself as an oracle, and may die at any point.                 *)
(***************************************************************************)
EXTENDS Naturals, Sequences

CONSTANTS
    Attempt,      \* identities of authentication attempts, one worker each
    User,         \* usernames a greeter may ask for
    NoAttempt,    \* "no attempt": None in the code
    NoUser,       \* the username of an attempt not made yet
    AuthTimeout,  \* greeter.auth-timeout, in seconds; 0 disables the timer
    PowerEnabled, \* whether the requested power action has a command
    LongMessages, \* whether a message may be too long for a greeter frame
    MaxInFlight   \* bound: requests a greeter has sent and not seen answered

ASSUME NoAttemptAssumption == NoAttempt \notin Attempt
ASSUME NoUserAssumption    == NoUser \notin User
ASSUME TimeoutAssumption   == AuthTimeout \in Nat
ASSUME SwitchAssumption    == PowerEnabled \in BOOLEAN /\ LongMessages \in BOOLEAN
ASSUME BoundAssumption     == MaxInFlight \in Nat

VARIABLES
    pc,         \* where the coroutine serving the greeter is suspended
    request,    \* the request it is handling, Idle between two requests
    starting,   \* the attempt start_auth_session is building
    verdict,    \* the error to answer once a failed worker is stopped
    auth,       \* client.auth_session
    ready,      \* the attempts whose AuthSessionState.ready is set
    timer,      \* the running auth timeout task, and the attempt it watches
    user,       \* username of each attempt
    worker,     \* state of each attempt's PAM worker process
    toWorker,   \* bytes in the daemon-to-worker direction
    fromWorker, \* bytes in the worker-to-daemon direction
    link,       \* the daemon's end of each worker channel
    clientUp,   \* the greeter holds its end of its channel
    requests,   \* greeter-to-daemon direction of that channel
    out,        \* daemon-to-greeter direction of that channel
    awaiting,   \* history: what the greeter sent and `out` has not answered
    outcome,    \* the session handle_request_async is about to launch
    opened,     \* history: users for whom an attempt opened a session
    granted,    \* history: attempts PAM accepted
    stopped     \* history: attempts the daemon stopped

taskVars   == <<pc, request, starting, verdict>>
clientVars == <<auth, ready, timer>>
workerVars == <<worker, toWorker, fromWorker, link>>
wireVars   == <<clientUp, requests, out, awaiting>>
launchVars == <<outcome, opened>>
vars == <<taskVars, clientVars, user, workerVars, wireVars, launchVars,
          granted, stopped>>

-----------------------------------------------------------------------------
(* Messages. "fits" is the auth_field_is_too_long test.                     *)

CreateRequests   == [kind : {"create"}, user : User, fits : BOOLEAN]
ContinueRequests == [kind : {"continue"}, fits : BOOLEAN]
PlainKinds       == {"cancel", "start", "get-state", "power", "unknown", "malformed"}
PlainRequests    == [kind : PlainKinds]
Requests     == CreateRequests \cup ContinueRequests \cup PlainRequests
RequestKinds == {"create", "continue"} \cup PlainKinds
Idle         == [kind |-> "idle"]

FailureCodes  == {"auth_failed", "auth_retryable"}
WorkerReports == [kind : {"prompt", "ready"}] \cup [kind : {"failed"}, code : FailureCodes]

Statuses == FailureCodes \cup {"ok", "pending", "ready", "bad_request",
                "session_not_found", "session_not_ready", "action_disabled",
                "unknown_action"}
Events   == {"auth-warning", "auth-expired", "session-starting",
             "state-changed", "re-exec"}
Messages == [kind : {"response"}, to : RequestKinds, status : Statuses]
            \cup [kind : {"unsent"}, to : RequestKinds] \cup [kind : Events]

\* The response to r. One that exceeds a frame, for what it carries (the session
\* table, a prompt, a message of PAM) or echoes (the request's id or action), is
\* refused by encode_message, and send_message logs that and goes on: history
\* keeps its place in `out`, and nothing is written.
Responses(r, status) ==
    {[kind |-> "response", to |-> r.kind, status |-> status]}
    \cup IF LongMessages THEN {[kind |-> "unsent", to |-> r.kind]} ELSE {}

IsAnswer(m) == m.kind \in {"response", "unsent"}

Event(name) == [kind |-> name]

\* An event that carries a command or the session table is dropped likewise.
Telling(name) == {<<Event(name)>>} \cup IF LongMessages THEN {<<>>} ELSE {}

\* send_message and broadcast_message: nothing is sent without a writer, and
\* what is written after the greeter left is lost.
Send(msgs) == out' = IF clientUp THEN out \o msgs ELSE out

Respond(r, status) == \E m \in Responses(r, status) : Send(<<m>>)

NoOutcome == [attempt |-> NoAttempt, user |-> NoUser]

-----------------------------------------------------------------------------
(* The timeout task.                                                        *)

NoTimer == [phase |-> "off", of |-> NoAttempt]

WarningDelay ==
    LET third == AuthTimeout \div 3
        last  == IF third > 1 THEN third ELSE 1
    IN IF AuthTimeout > last THEN AuthTimeout - last ELSE 0

\* reset_auth_timeout: the new task sleeps until the warning, or straight to
\* the expiry when there is no time for a warning.
ArmedTimer(a) ==
    IF AuthTimeout = 0 THEN NoTimer
    ELSE [phase |-> IF WarningDelay > 0 THEN "quiet" ELSE "warned", of |-> a]

\* Slip: the test is the wrong way round.
IsNotCurrent(a) == auth # a \/ a \in ready

\* The is_current() callback of the task that watches attempt a.
IsCurrent(a) == auth = a /\ a \notin ready

-----------------------------------------------------------------------------
(* Stopping a worker: stop_auth_session up to its first suspension, and the  *)
(* wait for the process that terminate_process ends.                         *)

\* A worker that has given no verdict, and one whose process exists: after the
\* verdict it still ends its PAM transaction.
InPam == {"boot", "busy", "asking"}
Live  == InPam \cup {"ending"}

\* Closing the daemon's end drops what it has not read.
StopWorker(a, sendCancel) ==
    /\ link' = [link EXCEPT ![a] = "closed"]
    /\ fromWorker' = [fromWorker EXCEPT ![a] = <<>>]
    /\ toWorker' = IF sendCancel /\ link[a] = "open" /\ worker[a] \in Live
                   THEN [toWorker EXCEPT ![a] = Append(@, "cancel")]
                   ELSE toWorker
    /\ stopped' = stopped \cup {a}
    /\ UNCHANGED worker

LeaveWorkers == UNCHANGED <<workerVars, stopped>>

\* Slip: the timer survives the stop.
BeginStopTimerOn(at, sendCancel) ==
    /\ pc' = at /\ timer' = timer
    /\ IF auth = NoAttempt THEN LeaveWorkers ELSE StopWorker(auth, sendCancel)

\* stop_client_auth_session up to its await; `at` is where the handler waits.
BeginStop(at, sendCancel) ==
    /\ pc' = at
    /\ timer' = NoTimer
    /\ IF auth = NoAttempt THEN LeaveWorkers ELSE StopWorker(auth, sendCancel)

\* Slip: the conversation is forgotten without waiting for the process.
EndStopEarly == auth' = NoAttempt

\* The rest of it: the process is gone and the conversation is forgotten.
EndStop ==
    /\ auth # NoAttempt => worker[auth] = "exited"
    /\ auth' = NoAttempt

-----------------------------------------------------------------------------
Init ==
    /\ pc = "read" /\ request = Idle /\ starting = NoAttempt /\ verdict = "none"
    /\ auth = NoAttempt /\ ready = {} /\ timer = NoTimer
    /\ user = [a \in Attempt |-> NoUser]
    /\ worker = [a \in Attempt |-> "unborn"]
    /\ toWorker = [a \in Attempt |-> <<>>]
    /\ fromWorker = [a \in Attempt |-> <<>>]
    /\ link = [a \in Attempt |-> "closed"]
    /\ clientUp = TRUE /\ requests = <<>> /\ out = <<>> /\ awaiting = <<>>
    /\ outcome = NoOutcome /\ opened = [a \in Attempt |-> <<>>]
    /\ granted = {} /\ stopped = {}

-----------------------------------------------------------------------------
(* The loop of handle_client, and the requests answered without an await.   *)

Reading(kind) ==
    /\ pc = "read" /\ requests # <<>> /\ Head(requests).kind = kind
    /\ requests' = Tail(requests)

\* The request being read is answered at once and the loop reads on.
AnswerNow(status) ==
    /\ Respond(Head(requests), status)
    /\ UNCHANGED <<taskVars, auth, ready, timer, user, workerVars, clientUp,
                   awaiting, launchVars, granted, stopped>>

\* An exception leaves the loop: the finally clause of handle_client stops the
\* conversation with a cancel. The request at hand stays unanswered.
Raise ==
    /\ BeginStop("final", TRUE)
    /\ starting' = NoAttempt /\ outcome' = NoOutcome
    /\ UNCHANGED <<request, verdict, auth, ready, user, wireVars, opened, granted>>

\* End of file, or a frame the codec refuses (ProtocolError): the loop ends.
Hangup ==
    /\ \/ pc = "read" /\ requests = <<>> /\ ~clientUp /\ UNCHANGED requests
       \/ Reading("malformed")
    /\ BeginStop("final", TRUE)
    /\ UNCHANGED <<request, starting, verdict, auth, ready, user, clientUp, out,
                   awaiting, launchVars, granted>>

FinishHangup ==
    /\ pc = "final" /\ EndStop
    /\ pc' = "none" /\ request' = Idle /\ verdict' = "none" /\ clientUp' = FALSE
    /\ UNCHANGED <<starting, ready, timer, user, workerVars, requests, out,
                   awaiting, launchVars, granted, stopped>>

GetState ==
    Reading("get-state") /\ AnswerNow("ok")

UnknownAction ==
    Reading("unknown") /\ AnswerNow("unknown_action")

RejectPower ==
    Reading("power") /\ ~PowerEnabled /\ AnswerNow("action_disabled")

\* The answer goes out before the command is started.
AcceptPower ==
    /\ Reading("power") /\ PowerEnabled
    /\ Respond(Head(requests), "ok")
    /\ pc' = "control"
    /\ UNCHANGED <<request, starting, verdict, clientVars, user, workerVars,
                   clientUp, awaiting, launchVars, granted, stopped>>

RunPowerCommand ==
    /\ pc = "control" /\ pc' = "read"
    /\ UNCHANGED <<request, starting, verdict, clientVars, user, workerVars,
                   wireVars, launchVars, granted, stopped>>

\* create_subprocess_exec cannot start /bin/sh.
PowerCommandFails == pc = "control" /\ Raise

-----------------------------------------------------------------------------
(* create-session.                                                          *)

RejectCreate ==
    Reading("create") /\ ~Head(requests).fits /\ AnswerNow("bad_request")

\* No conversation is in progress: start_auth_session is entered at once.
AcceptCreate ==
    /\ Reading("create") /\ Head(requests).fits /\ auth = NoAttempt
    /\ request' = Head(requests) /\ pc' = "launch"
    /\ UNCHANGED <<starting, verdict, clientVars, user, workerVars, clientUp, out,
                   awaiting, launchVars, granted, stopped>>

\* One is, pending or ready: it is stopped first.
ReplaceConversation ==
    /\ Reading("create") /\ Head(requests).fits /\ auth # NoAttempt
    /\ request' = Head(requests) /\ BeginStop("replace", TRUE)
    /\ UNCHANGED <<starting, verdict, auth, ready, user, clientUp, out, awaiting,
                   launchVars, granted>>

FinishReplace ==
    /\ pc = "replace" /\ EndStop
    /\ pc' = "launch"
    /\ UNCHANGED <<request, starting, verdict, ready, timer, user, workerVars,
                   wireVars, launchVars, granted, stopped>>

LaunchWorker ==
    /\ pc = "launch"
    /\ \E a \in Attempt :
         /\ worker[a] = "unborn"
         /\ worker' = [worker EXCEPT ![a] = "boot"]
         /\ link' = [link EXCEPT ![a] = "open"]
         /\ user' = [user EXCEPT ![a] = request.user]
         /\ starting' = a
    /\ pc' = "greet"
    /\ UNCHANGED <<request, verdict, clientVars, toWorker, fromWorker, wireVars,
                   launchVars, granted, stopped>>

\* socketpair() or create_subprocess_exec raises.
LaunchFails == pc = "launch" /\ Raise

SendStart ==
    /\ pc = "greet" /\ worker[starting] # "exited"
    /\ toWorker' = [toWorker EXCEPT ![starting] = Append(@, "start")]
    /\ pc' = "first"
    /\ UNCHANGED <<request, starting, verdict, clientVars, user, worker, fromWorker,
                   link, wireVars, launchVars, granted, stopped>>

\* The worker is already gone: the write breaks the pipe and drain() raises.
StartFails == pc = "greet" /\ worker[starting] = "exited" /\ Raise

-----------------------------------------------------------------------------
(* The worker's reply, awaited by create-session ("first", with the attempt   *)
(* not yet in client.auth_session) and by continue-session ("answer").        *)

Conversing == IF pc = "first" THEN starting ELSE auth

Awaiting == pc \in {"first", "answer"}

Reported(kind) ==
    /\ Awaiting /\ fromWorker[Conversing] # <<>>
    /\ Head(fromWorker[Conversing]).kind = kind

TakeReport(a) == fromWorker' = [fromWorker EXCEPT ![a] = Tail(@)]

WorkerPrompts ==
    /\ Reported("prompt")
    /\ auth' = Conversing /\ starting' = NoAttempt
    /\ TakeReport(Conversing)
    /\ Respond(request, "pending")
    /\ timer' = ArmedTimer(Conversing)
    /\ pc' = "read" /\ request' = Idle
    /\ UNCHANGED <<verdict, ready, user, worker, toWorker, link, clientUp, requests,
                   awaiting, launchVars, granted, stopped>>

\* Slip: success leaves the timer running.
WorkerReadyTimerOn ==
    /\ Reported("ready")
    /\ auth' = Conversing /\ starting' = NoAttempt
    /\ ready' = ready \cup {Conversing}
    /\ TakeReport(Conversing)
    /\ Respond(request, "ready")
    /\ pc' = "read" /\ request' = Idle
    /\ UNCHANGED <<timer, verdict, user, worker, toWorker, link, clientUp, requests,
                   awaiting, launchVars, granted, stopped>>

WorkerReady ==
    /\ Reported("ready")
    /\ auth' = Conversing /\ starting' = NoAttempt
    /\ ready' = ready \cup {Conversing}
    /\ TakeReport(Conversing)
    /\ Respond(request, "ready")
    /\ timer' = NoTimer
    /\ pc' = "read" /\ request' = Idle
    /\ UNCHANGED <<verdict, user, worker, toWorker, link, clientUp, requests,
                   awaiting, launchVars, granted, stopped>>

\* stop_client_auth_session(client) without a cancel, before the answer.
DropConversation(a, code) ==
    /\ auth' = a /\ starting' = NoAttempt /\ timer' = NoTimer
    /\ StopWorker(a, FALSE)
    /\ pc' = "drop" /\ verdict' = code
    /\ UNCHANGED <<request, ready, user, wireVars, launchVars, granted>>

WorkerFailed ==
    Reported("failed")
    /\ DropConversation(Conversing, Head(fromWorker[Conversing]).code)

\* End of file on the worker channel: the worker left after reading all it was
\* sent, or the timeout task closed the daemon's end under the handler.
Silent == Awaiting /\ fromWorker[Conversing] = <<>>

\* Slips: only one of the two ways to reach the end of file is noticed.
WorkerHungUpDead ==
    /\ Silent /\ worker[Conversing] = "exited" /\ toWorker[Conversing] = <<>>
    /\ DropConversation(Conversing, "auth_failed")
WorkerHungUpClosed ==
    /\ Silent /\ link[Conversing] = "closed"
    /\ DropConversation(Conversing, "auth_failed")

WorkerHungUp ==
    /\ Silent
    /\ \/ link[Conversing] = "closed"
       \/ worker[Conversing] = "exited" /\ toWorker[Conversing] = <<>>
    /\ DropConversation(Conversing, "auth_failed")

\* The worker left with bytes unread: the read fails with ECONNRESET.
WorkerReset ==
    /\ Silent
    /\ link[Conversing] = "open"
    /\ worker[Conversing] = "exited" /\ toWorker[Conversing] # <<>>
    /\ Raise

\* Slip: the failure is not answered.
FinishDropMute ==
    /\ pc = "drop" /\ EndStop
    /\ pc' = "read" /\ request' = Idle /\ verdict' = "none"
    /\ UNCHANGED <<starting, ready, timer, user, workerVars, wireVars, launchVars,
                   granted, stopped>>

FinishDrop ==
    /\ pc = "drop" /\ EndStop
    /\ Respond(request, verdict)
    /\ pc' = "read" /\ request' = Idle /\ verdict' = "none"
    /\ UNCHANGED <<starting, ready, timer, user, workerVars, clientUp, requests,
                   awaiting, launchVars, granted, stopped>>

-----------------------------------------------------------------------------
(* continue-session and cancel-session.                                     *)

ContinueNothing ==
    Reading("continue") /\ auth = NoAttempt /\ AnswerNow("session_not_found")

ContinueReady ==
    Reading("continue") /\ auth \in ready /\ AnswerNow("bad_request")

Continuing == Reading("continue") /\ auth # NoAttempt /\ auth \notin ready

ContinueTooLong ==
    Continuing /\ ~Head(requests).fits /\ AnswerNow("bad_request")

\* The timer keeps running while the worker digests the answer.
ContinueSession ==
    /\ Continuing /\ Head(requests).fits
    /\ link[auth] = "open" /\ worker[auth] # "exited"
    /\ toWorker' = [toWorker EXCEPT ![auth] = Append(@, "answer")]
    /\ request' = Head(requests) /\ pc' = "answer"
    /\ UNCHANGED <<starting, verdict, clientVars, user, worker, fromWorker, link,
                   clientUp, out, awaiting, launchVars, granted, stopped>>

\* The channel is closed on one side or the other, and client.auth_session does
\* not tell: drain() raises ConnectionResetError.
ContinueBroken ==
    /\ Continuing /\ Head(requests).fits
    /\ link[auth] = "closed" \/ worker[auth] = "exited"
    /\ BeginStop("final", TRUE)
    /\ request' = Head(requests)
    /\ UNCHANGED <<starting, verdict, auth, ready, user, clientUp, out, awaiting,
                   launchVars, granted>>

CancelSession ==
    /\ Reading("cancel")
    /\ request' = Head(requests) /\ BeginStop("cancel", TRUE)
    /\ UNCHANGED <<starting, verdict, auth, ready, user, clientUp, out, awaiting,
                   launchVars, granted>>

FinishCancel ==
    /\ pc = "cancel" /\ EndStop
    /\ Respond(request, "ok")
    /\ pc' = "read" /\ request' = Idle
    /\ UNCHANGED <<starting, verdict, ready, timer, user, workerVars, clientUp,
                   requests, awaiting, launchVars, granted, stopped>>

-----------------------------------------------------------------------------
(* start-session.                                                           *)

StartNothing ==
    Reading("start") /\ auth = NoAttempt /\ AnswerNow("session_not_found")

StartNotReady ==
    Reading("start") /\ auth # NoAttempt /\ auth \notin ready
    /\ AnswerNow("session_not_ready")

\* process_request accepts the attempt: `kept` is what client.auth_session becomes
\* and `name` the username of the session. The answer and the session-starting
\* event precede the launch.
Accept(kept, name) ==
    /\ Reading("start")
    /\ outcome' = [attempt |-> auth, user |-> name]
    /\ auth' = kept /\ timer' = NoTimer
    /\ \E m \in Responses(Head(requests), "ok"), told \in Telling("session-starting") :
         Send(<<m>> \o told)
    /\ pc' = "spawn"
    /\ UNCHANGED <<request, starting, verdict, ready, user, workerVars, clientUp,
                   awaiting, opened, granted, stopped>>

\* Slips: the attempt stays usable; readiness goes unchecked.
StartSessionTwice == auth \in ready /\ Accept(auth, user[auth])
StartSessionEarly == auth # NoAttempt /\ Accept(NoAttempt, user[auth])

\* The attempt is given up before anything is launched.
StartSession == auth \in ready /\ Accept(NoAttempt, user[auth])

SpawnSession ==
    /\ pc = "spawn"
    /\ opened' = [opened EXCEPT ![outcome.attempt] = Append(@, outcome.user)]
    /\ outcome' = NoOutcome
    /\ \E told \in Telling("state-changed") : Send(told \o <<Event("re-exec")>>)
    /\ pc' = "read"
    /\ UNCHANGED <<request, starting, verdict, clientVars, user, workerVars,
                   clientUp, requests, awaiting, granted, stopped>>

SpawnFails == pc = "spawn" /\ Raise

-----------------------------------------------------------------------------
(* run_auth_timeout. Each step ends the task when is_current() says no.     *)

TimerWarns ==
    /\ timer.phase = "quiet"
    /\ IF IsCurrent(timer.of)
       THEN /\ timer' = [timer EXCEPT !.phase = "warned"]
            /\ Send(<<Event("auth-warning")>>)
       ELSE timer' = NoTimer /\ UNCHANGED out
    /\ UNCHANGED <<taskVars, auth, ready, user, workerVars, clientUp, requests,
                   awaiting, launchVars, granted, stopped>>

TimerExpires ==
    /\ timer.phase = "warned"
    /\ IF IsCurrent(timer.of)
       THEN StopWorker(timer.of, TRUE) /\ timer' = [timer EXCEPT !.phase = "expiring"]
       ELSE LeaveWorkers /\ timer' = NoTimer
    /\ UNCHANGED <<taskVars, auth, ready, user, wireVars, launchVars, granted>>

\* expire() resumes once the worker is gone. The wake-up of a handler reading
\* the closed channel is queued before it.
TimerFinishes ==
    /\ timer.phase = "expiring" /\ worker[timer.of] = "exited"
    /\ pc # "answer"
    /\ auth' = IF auth = timer.of THEN NoAttempt ELSE auth
    /\ timer' = NoTimer
    /\ Send(<<Event("auth-expired")>>)
    /\ UNCHANGED <<taskVars, ready, user, workerVars, clientUp, requests, awaiting,
                   launchVars, granted, stopped>>

-----------------------------------------------------------------------------
(* The worker process. A report written after the daemon closed its end is    *)
(* lost with the exception it raises.                                         *)

Report(a, report) ==
    fromWorker' = IF link[a] = "open"
                  THEN [fromWorker EXCEPT ![a] = Append(@, report)] ELSE fromWorker

Unread(a) == toWorker[a] # <<>>

Hears(a) == toWorker' = [toWorker EXCEPT ![a] = Tail(@)]

Becomes(a, s) ==
    /\ worker' = [worker EXCEPT ![a] = s]
    /\ UNCHANGED <<taskVars, clientVars, user, link, wireVars, launchVars, stopped>>

\* cmd_main reads the start message and run_auth_session begins.
WorkerBoots(a) ==
    /\ worker[a] = "boot" /\ Unread(a) /\ Hears(a)
    /\ Becomes(a, "busy") /\ UNCHANGED <<fromWorker, granted>>

\* PAM calls the conversation function and PromptBroker.ask sends the prompt.
WorkerAsks(a) ==
    /\ worker[a] = "busy" /\ link[a] = "open"
    /\ Report(a, [kind |-> "prompt"])
    /\ Becomes(a, "asking") /\ UNCHANGED <<toWorker, granted>>

\* ask returns the answer, returns None for a cancel, or raises at end of file;
\* in every case PAM goes on, with an answer or with PAM_CONV_ERR.
WorkerHears(a) ==
    /\ worker[a] = "asking"
    /\ \/ Unread(a) /\ Hears(a)
       \/ ~Unread(a) /\ link[a] = "closed" /\ UNCHANGED toWorker
    /\ Becomes(a, "busy") /\ UNCHANGED <<fromWorker, granted>>

\* pam_authenticate and pam_acct_mgmt both succeeded. The verdict is written first,
\* the transaction is ended after it.
WorkerAccepts(a) ==
    /\ worker[a] = "busy" /\ Report(a, [kind |-> "ready"])
    /\ granted' = granted \cup {a}
    /\ Becomes(a, "ending") /\ UNCHANGED toWorker

WorkerRefuses(a) ==
    /\ worker[a] = "busy"
    /\ \E code \in FailureCodes : Report(a, [kind |-> "failed", code |-> code])
    /\ Becomes(a, "ending") /\ UNCHANGED <<toWorker, granted>>

\* The finally clauses: pam_end, as root, after the verdict is on its way; then
\* the channel is closed with the process.
WorkerEnds(a) ==
    /\ worker[a] = "ending"
    /\ Becomes(a, "exited") /\ UNCHANGED <<toWorker, fromWorker, granted>>

\* The process dies: a crash, SIGTERM or SIGKILL.
WorkerDies(a) ==
    /\ worker[a] \in Live
    /\ Becomes(a, "exited") /\ UNCHANGED <<toWorker, fromWorker, granted>>

BeingStopped(a) ==
    \/ auth = a /\ pc \in {"replace", "drop", "cancel", "final"}
    \/ timer.phase = "expiring" /\ timer.of = a

-----------------------------------------------------------------------------
(* The greeter's end of its channel.                                        *)

ClientSends(r) ==
    /\ clientUp /\ Len(awaiting) < MaxInFlight
    /\ requests' = Append(requests, r)
    /\ awaiting' = Append(awaiting, r.kind)
    /\ UNCHANGED <<taskVars, clientVars, user, workerVars, clientUp, out,
                   launchVars, granted, stopped>>

\* A response that was never written is passed over.
ClientReceives ==
    /\ clientUp /\ out # <<>>
    /\ out' = Tail(out)
    /\ awaiting' = IF IsAnswer(Head(out)) /\ awaiting # <<>>
                   THEN Tail(awaiting) ELSE awaiting
    /\ UNCHANGED <<taskVars, clientVars, user, workerVars, clientUp, requests,
                   launchVars, granted, stopped>>

\* The greeter exits and close_client_channel closes the daemon's end: requests
\* the daemon had not received are lost, those it had buffered are served.
ClientLeaves ==
    /\ clientUp
    /\ clientUp' = FALSE /\ out' = <<>> /\ awaiting' = <<>>
    /\ \E n \in 0..Len(requests) : requests' = SubSeq(requests, 1, n)
    /\ UNCHANGED <<taskVars, clientVars, user, workerVars, launchVars, granted, stopped>>

\* The main loop starts the next greeter, after it awaited the previous handler.
ClientConnects ==
    /\ pc = "none"
    /\ pc' = "read" /\ clientUp' = TRUE
    /\ requests' = <<>> /\ out' = <<>> /\ awaiting' = <<>>
    /\ UNCHANGED <<request, starting, verdict, clientVars, user, workerVars,
                   launchVars, granted, stopped>>

-----------------------------------------------------------------------------
Handler ==
    \/ Hangup \/ FinishHangup \/ GetState \/ UnknownAction
    \/ RejectPower \/ AcceptPower \/ RunPowerCommand \/ PowerCommandFails
    \/ RejectCreate \/ AcceptCreate \/ ReplaceConversation \/ FinishReplace
    \/ LaunchWorker \/ LaunchFails \/ SendStart \/ StartFails
    \/ WorkerPrompts \/ WorkerReady \/ WorkerFailed \/ WorkerHungUp \/ WorkerReset
    \/ FinishDrop
    \/ ContinueNothing \/ ContinueReady \/ ContinueTooLong \/ ContinueSession
    \/ ContinueBroken \/ CancelSession \/ FinishCancel
    \/ StartNothing \/ StartNotReady \/ StartSession \/ SpawnSession \/ SpawnFails

Timer == TimerWarns \/ TimerExpires \/ TimerFinishes

Worker(a) ==
    \/ WorkerBoots(a) \/ WorkerAsks(a) \/ WorkerHears(a)
    \/ WorkerAccepts(a) \/ WorkerRefuses(a) \/ WorkerEnds(a) \/ WorkerDies(a)

Client ==
    \/ \E r \in Requests : ClientSends(r)
    \/ ClientReceives \/ ClientLeaves \/ ClientConnects

Next == Handler \/ Timer \/ Client \/ \E a \in Attempt : Worker(a)

Spec == Init /\ [][Next]_vars

\* The loop runs every task that can run, and terminate_process ends with a
\* SIGKILL: a worker being stopped dies. Nothing is assumed of the greeter, nor
\* of a worker that is left alone: PAM may take for ever.
DaemonFairness ==
    /\ WF_vars(Handler) /\ WF_vars(Timer)
    /\ \A a \in Attempt : WF_vars(WorkerDies(a) /\ BeingStopped(a))

\* PAM modules return: every worker keeps moving.
PamFairness == \A a \in Attempt : WF_vars(Worker(a))

FairSpec == Spec /\ DaemonFairness

-----------------------------------------------------------------------------
(* Correctness.                                                             *)

Places == {"none", "read", "replace", "launch", "greet", "first", "answer",
           "drop", "cancel", "spawn", "control", "final"}

\* Every variable keeps its shape: the fields of ClientState and
\* AuthSessionState, the two channels, and the history.
TypeOK ==
    /\ pc \in Places
    /\ request \in Requests \cup {Idle}
    /\ starting \in Attempt \cup {NoAttempt}
    /\ verdict \in FailureCodes \cup {"none"}
    /\ auth \in Attempt \cup {NoAttempt}
    /\ ready \in SUBSET Attempt
    /\ timer \in [phase : {"off", "quiet", "warned", "expiring"},
                  of : Attempt \cup {NoAttempt}]
    /\ user \in [Attempt -> User \cup {NoUser}]
    /\ worker \in [Attempt -> Live \cup {"unborn", "exited"}]
    /\ toWorker \in [Attempt -> Seq({"start", "answer", "cancel"})]
    /\ fromWorker \in [Attempt -> Seq(WorkerReports)]
    /\ link \in [Attempt -> {"open", "closed"}]
    /\ clientUp \in BOOLEAN
    /\ requests \in Seq(Requests)
    /\ out \in Seq(Messages)
    /\ awaiting \in Seq(RequestKinds)
    /\ outcome \in [attempt : Attempt \cup {NoAttempt}, user : User \cup {NoUser}]
    /\ opened \in [Attempt -> Seq(User)]
    /\ granted \in SUBSET Attempt
    /\ stopped \in SUBSET Attempt

\* start-session: an attempt opens at most one session, for the user it was
\* created for, and only if PAM accepted that very attempt. An attempt that was
\* cancelled, replaced, timed out, failed or abandoned opens none, whatever the
\* greeter sends and whenever the timer fires.
SessionsAuthenticated ==
    \A a \in Attempt : opened[a] # <<>> =>
        /\ opened[a] = <<user[a]>>
        /\ a \in granted
        /\ a \notin stopped

\* stop_client_auth_session: a PAM worker, which runs as root and holds a user's
\* PAM transaction, is the one the daemon converses with or is starting; no order
\* of replacing, cancelling, expiring and failing leaves one behind in PAM. The
\* only worker nobody holds is one whose verdict the daemon has seen to be "ready"
\* and start-session has spent, still ending its transaction.
NoStrayWorker ==
    \A a \in Attempt :
        /\ worker[a] \in InPam => a \in {auth, starting}
        /\ worker[a] = "ending" => a \in {auth, starting} \/ a \in ready \ stopped

\* reset_auth_timeout and cancel_auth_timeout: a running timer watches the
\* pending conversation and no other, so that a stale timer never stops a new
\* conversation and never interrupts one that became ready.
TimerWatchesPending ==
    timer.phase # "off" => auth = timer.of /\ auth # NoAttempt /\ auth \notin ready

\* With a timeout configured, a conversation waiting for the greeter or for the
\* worker's next step is under a timer unless it is already being stopped.
PendingIsWatched ==
    AuthTimeout > 0 /\ auth # NoAttempt /\ auth \notin ready
        /\ pc \notin {"replace", "drop", "cancel", "final"}
    => timer.phase # "off"

\* The requests answered by the responses of q, written or not, in order.
AnswersIn(q) ==
    LET upTo[n \in 0..Len(q)] ==
            IF n = 0 THEN <<>>
            ELSE IF IsAnswer(q[n]) THEN Append(upTo[n - 1], q[n].to) ELSE upTo[n - 1]
    IN upTo[Len(q)]

Kinds(s)     == [i \in DOMAIN s |-> s[i].kind]
Answered     == AnswersIn(out)
BeingHandled == IF request = Idle THEN <<>> ELSE <<request.kind>>

\* handle_request_async makes one response to each request, in order, whatever the
\* worker and the timer do meanwhile: what the greeter waits for is what was
\* answered and not yet read, then the request being handled, then those not
\* read yet. So a response that is written follows those to earlier requests and
\* comes once; the only requests passed over are those whose response was too long.
ResponsesInOrder ==
    clientUp /\ pc \notin {"none", "final"}
    => awaiting = Answered \o BeingHandled \o Kinds(requests)

\* run_auth_timeout, with a timeout configured: a conversation left alone by the
\* greeter does not stay pending, even if its worker hangs.
IdleConversationExpires ==
    \A a \in Attempt :
        (auth = a /\ a \notin ready /\ pc = "read")
            ~> (auth # a \/ a \in ready \/ pc = "answer")

\* The timer is not suspended while the worker digests an answer: a worker that
\* hangs then does not hold the greeter's channel for ever.
HungWorkerReleased == (pc = "answer") ~> (pc # "answer")

\* Every request is served to its end as long as PAM modules return, timeout or
\* not: stopping a worker never waits for a worker nobody kills.
RequestsServed ==
    PamFairness => ((pc \notin {"none", "read"}) ~> (pc \in {"none", "read"}))

\* protocol.md on continue-session: each greeter reply gets exactly one response.
\* The daemon never gives the channel up with the reply of a connected greeter
\* unanswered.
ReplyAnswered ==
    ~ (pc = "final" /\ clientUp /\ request.kind = "continue")
=============================================================================
