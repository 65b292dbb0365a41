-------------------------------- MODULE Login --------------------------------
(* A greeter front end and its conversation with the daemon: greeter/client.py, *)
(* auth.py, the GTK and curses front ends and the remembered session of         *)
(* state.py.                                                                    *)
(*                                                                              *)
(* A front end runs one thread.  A request blocks it in send_recv_answer, which *)
(* handles the events that arrive before the answer; at rest it polls.  When a  *)
(* session starts the daemon tells the front end to execute itself again on     *)
(* the same socket.                                                             *)
(*                                                                              *)
(* The daemon is the part of AuthBroker a well-behaved greeter can see: it      *)
(* handles requests in order, PAM is an oracle and a worker's end is a failure. *)
EXTENDS Naturals, Sequences, SequencesExt

CONSTANTS
    User,         \* usernames
    Command,      \* session commands, one desktop entry each
    NoUser,       \* the empty username
    NoCommand,    \* the empty command
    Catalogue,    \* desktop_sessions: the commands listed for each username
    Frontends,    \* front ends the daemon may start first: "gtk", "curses"
    Timed,        \* is greeter.auth-timeout positive?
    Frail,        \* may the daemon close the channel, or the front end die?
    LongMessages, \* may what PAM says exceed a frame?
    MaxSessions,  \* bound: sessions started
    MaxAttempts   \* bound: create-session requests

ASSUME LoginAssumption ==
    /\ NoUser \notin User /\ NoCommand \notin Command
    /\ Catalogue \in [User \cup {NoUser} -> Seq(Command)]
    /\ Frontends \subseteq {"gtk", "curses"}
    /\ Timed \in BOOLEAN /\ Frail \in BOOLEAN /\ LongMessages \in BOOLEAN
    /\ MaxSessions \in Nat /\ MaxAttempts \in Nat

VARIABLES
    app,        \* the front end's own state
    waiting,    \* the request send_recv_answer waits on
    up,         \* the front end has not quit
    toDaemon,   \* requests on the socket
    toGreeter,  \* responses and events on the socket
    auth,       \* the daemon's attempt
    launching,  \* the session the daemon is about to spawn or announce
    running,    \* sessions running
    disk,       \* the last-session file
    latest,     \* history: the last session that completed, Nothing before
    attempts,
    started

greeterVars == <<app, waiting, up>>
daemonVars == <<auth, launching, running, latest, started>>
vars == <<app, waiting, up, toDaemon, toGreeter, auth, launching, running, disk,
          latest, attempts, started>>

AnyUser == User \cup {NoUser}
AnyCommand == Command \cup {NoCommand}
Session == [user : AnyUser, command : AnyCommand]
Nothing == [user |-> NoUser, command |-> NoCommand]

\* typed: an answer that can be sent is in the field.
\* A prompt either takes typed input (secret, visible) or is a note (info, error).
Styles == {"input", "note"}
Stages == {"name", "ready"} \cup Styles
Kinds == {"create", "continue", "cancel", "start", "power"}

\* "mine": the request was made by the process image that still runs.
Requests == [kind : Kinds, user : AnyUser, command : AnyCommand, mine : BOOLEAN]
Ask(kind, u, c) == [kind |-> kind, user |-> u, command |-> c, mine |-> TRUE]
NotWaiting == Ask("none", NoUser, NoCommand)

Answers == {"ok", "input", "note", "ready", "auth_failed", "auth_retryable", "refused"}
Events == {"starting", "re-exec", "warned", "expired", "finished", "failed", "eof"}
Event(name) == [what |-> name, mine |-> FALSE]

Apps == [busy : BOOLEAN, stage : Stages, name : AnyUser, entry : AnyUser,
         typed : BOOLEAN, last : Session,
         list : AnyUser, chosen : AnyCommand,
         focus : {"username", "password", "sessions"}, frontend : {"gtk", "curses"}]

NoAttempt == [state |-> "none", user |-> NoUser, style |-> "note"]
Ready(u) == [state |-> "ready", user |-> u, style |-> "note"]

TypeOK ==
    /\ app \in Apps /\ up \in BOOLEAN
    /\ waiting \in Requests \cup {NotWaiting}
    /\ toDaemon \in Seq(Requests)
    /\ toGreeter \in Seq([what : Answers \cup Events, mine : BOOLEAN])
    /\ auth \in [state : {"none", "asking", "warned", "ready"}, user : AnyUser, style : Styles]
    /\ launching \in [stage : {"no", "spawn", "announce"}, session : Session]
    /\ running \in [Session -> 0..MaxSessions]
    /\ disk \in Session /\ latest \in Session
    /\ attempts \in 0..MaxAttempts /\ started \in 0..MaxSessions

-----------------------------------------------------------------------------
(* The front end's operations, each from one state of the front end to another. *)

Curses == app.frontend = "curses"

\* The entry a list opens on: the wanted command, or the first.
Choose(u, want) ==
    IF want \in ToSet(Catalogue[u]) THEN want
    ELSE IF Catalogue[u] = <<>> THEN NoCommand ELSE Head(Catalogue[u])

\* refresh_sessions; GTK falls back to the entry selected so far.
Refresh(a, u, preferred) ==
    LET kept == IF Curses THEN NoCommand ELSE a.chosen
        want == IF preferred # NoCommand THEN preferred
                ELSE IF kept # NoCommand THEN kept ELSE a.last.command
    IN [a EXCEPT !.list = u, !.chosen = Choose(u, want)]

\* Setting the text emits "changed" in GTK, which refreshes the list.
SetEntry(a, u) ==
    LET b == [a EXCEPT !.entry = u]
    IN IF Curses THEN b ELSE Refresh(b, u, NoCommand)

SetAuthState(a, busy) == [a EXCEPT !.busy = busy]

ClearConversation(a) == [a EXCEPT !.stage = "name", !.name = NoUser]

SetPrompt(a, style) ==
    [a EXCEPT !.stage = style, !.typed = FALSE,
              !.focus = IF style = "input" THEN "password" ELSE @]

SetReady(a) ==
    IF Curses
    THEN [Refresh([a EXCEPT !.stage = "ready"], a.name, a.last.command)
              EXCEPT !.focus = "sessions"]
    ELSE [a EXCEPT !.stage = "ready"]

\* Slip: the conversation is left on the screen.
ResetWidgets(a) ==
    [SetEntry(SetAuthState(a, FALSE), a.name)
        EXCEPT !.typed = FALSE, !.focus = "username"]

ResetAuthFlow(a) ==
    LET b == [SetEntry(ClearConversation(SetAuthState(a, FALSE)), a.name)
                  EXCEPT !.typed = FALSE, !.focus = "username"]
    IN Refresh(b, a.name, b.last.command)

\* What session-finished makes the front end remember.
Remember(a, failed) ==
    IF failed \/ a.entry = NoUser THEN a ELSE [a EXCEPT !.last.user = a.entry]

\* session-finished. TextEntry.grab_focus of the curses front end leaves the
\* focus of the application alone.
SessionFinished(a, failed) ==
    LET b == Remember(ClearConversation(SetAuthState(a, FALSE)), failed)
        c == [SetEntry(b, b.last.user)
                  EXCEPT !.typed = FALSE,
                         !.focus = IF Curses THEN @ ELSE "username"]
    IN Refresh(c, c.last.user, c.last.command)

\* save_last_session_file replaces the file, or writes none without both names.
Save(last) ==
    disk' = IF last.user = NoUser \/ last.command = NoCommand THEN disk ELSE last

\* A new process image, which reads what the last one saved.
Boot(frontend, saved) ==
    [frontend |-> frontend, busy |-> FALSE, stage |-> "name", name |-> NoUser, entry |-> saved.user,
     typed |-> FALSE, last |-> saved, list |-> saved.user,
     chosen |-> Choose(saved.user, saved.command), focus |-> "username"]

\* handle_conversation_answer
HandleAnswer(a, answer) ==
    CASE answer \in Styles -> SetPrompt(a, answer)
      [] answer = "ready"  -> SetReady(a)
      [] OTHER             -> ClearConversation(a)

-----------------------------------------------------------------------------
(* The socket. *)

Closed == Event("eof") \in ToSet(toGreeter)

\* What the daemon writes reaches a front end that is there.
Send(ms) == toGreeter' = IF up /\ ~Closed THEN toGreeter \o ms ELSE toGreeter

\* Messages of, or to, a process image that is gone.
Disown(ms) == [i \in DOMAIN ms |-> [ms[i] EXCEPT !.mine = FALSE]]

Request(kind, u, c) ==
    /\ toDaemon' = Append(toDaemon, Ask(kind, u, c))
    /\ waiting' = Ask(kind, u, c)

-----------------------------------------------------------------------------
(* What the user does while the front end is at rest. *)

AtRest == up /\ waiting = NotWaiting

LeaveDaemon == UNCHANGED <<daemonVars, toGreeter, disk>>
LeaveSocket == UNCHANGED <<waiting, up, toDaemon, attempts>> /\ LeaveDaemon

\* GTK disables the fields; the curses front end follows its focus.
TypeName(u) ==
    /\ AtRest
    /\ IF Curses THEN app.focus = "username" ELSE app.stage = "name" /\ ~app.busy
    /\ app' = SetEntry(app, u)
    /\ LeaveSocket

\* Nothing, or more than AUTH_FIELD_MAX_LENGTH, is not an answer.
TypeAnswer(fits) ==
    /\ AtRest
    /\ IF Curses THEN app.focus = "password" ELSE app.stage = "input" /\ ~app.busy
    /\ app' = [app EXCEPT !.typed = fits]
    /\ LeaveSocket

PickSession(c) ==
    /\ AtRest
    /\ IF Curses THEN app.focus = "sessions" ELSE app.stage = "ready" /\ ~app.busy
    /\ c \in ToSet(Catalogue[app.list])
    /\ app' = [app EXCEPT !.chosen = c]
    /\ LeaveSocket

\* _cycle_focus
CycleFocus ==
    /\ AtRest /\ Curses
    /\ app' = [app EXCEPT !.focus =
                 CASE app.stage = "ready" -> "sessions"
                   [] app.stage = "input" -> "password"
                   [] OTHER -> IF @ = "username" THEN "password" ELSE "username"]
    /\ LeaveSocket

\* Slip: the attempt is named after the field on the screen.
CreateForEntry(a, u) ==
    /\ app' = [SetAuthState(a, TRUE) EXCEPT !.name = a.entry]
    /\ Request("create", u, NoCommand)
    /\ attempts' = attempts + 1

\* create_session_for_username, up to the answer
CreateFor(a, u) ==
    /\ app' = [SetAuthState(a, TRUE) EXCEPT !.name = u]
    /\ Request("create", u, NoCommand)
    /\ attempts' = attempts + 1

\* on_login_clicked at each stage.
ClickNext ==
    /\ AtRest /\ ~app.busy /\ app.stage = "name" /\ app.entry # NoUser
    /\ attempts < MaxAttempts
    /\ CreateFor(app, app.entry)
    /\ UNCHANGED up /\ LeaveDaemon

\* A note is answered with an empty response, a prompt with what was typed.
ClickContinue ==
    /\ AtRest /\ ~app.busy
    /\ app.stage = "note" \/ (app.stage = "input" /\ app.typed)
    /\ app' = SetAuthState([app EXCEPT !.typed = FALSE], TRUE)
    /\ Request("continue", app.name, NoCommand)
    /\ UNCHANGED <<up, attempts>> /\ LeaveDaemon

ClickStart ==
    /\ AtRest /\ ~app.busy /\ app.stage = "ready" /\ started < MaxSessions
    /\ app' = SetAuthState(app, TRUE)
    /\ Request("start", NoUser, app.chosen)
    /\ UNCHANGED <<up, attempts>> /\ LeaveDaemon

\* on_cancel_clicked: the button of GTK is disabled while busy, the key of the
\* curses front end is not.
ClickCancel ==
    /\ AtRest /\ app.stage # "name"
    /\ Curses \/ ~app.busy
    /\ app' = SetAuthState(app, TRUE)
    /\ Request("cancel", NoUser, NoCommand)
    /\ UNCHANGED <<up, attempts>> /\ LeaveDaemon

\* request_system_action
ClickPower ==
    /\ AtRest /\ ~Curses
    /\ Request("power", NoUser, NoCommand)
    /\ UNCHANGED <<app, up, attempts>> /\ LeaveDaemon

-----------------------------------------------------------------------------
(* What the front end reads. *)

Reads(ms) == up /\ toGreeter # <<>> /\ Head(toGreeter) \in ms

LeaveWriter == UNCHANGED <<waiting, up, toDaemon, attempts, daemonVars>>

HandleStarting ==
    /\ Reads({Event("starting")})
    /\ app' = SetAuthState(app, TRUE)
    /\ toGreeter' = Tail(toGreeter)
    /\ LeaveWriter /\ UNCHANGED disk

\* handle_event only shows a warning.
HandleWarning ==
    /\ Reads({Event("warned")})
    /\ toGreeter' = Tail(toGreeter)
    /\ LeaveWriter /\ UNCHANGED <<app, disk>>

HandleExpired ==
    /\ Reads({Event("expired")})
    /\ app' = ResetAuthFlow(app)
    /\ toGreeter' = Tail(toGreeter)
    /\ LeaveWriter /\ UNCHANGED disk

HandleFinished ==
    \E failed \in BOOLEAN :
        /\ Reads({Event(IF failed THEN "failed" ELSE "finished")})
        /\ app' = SessionFinished(app, failed)
        /\ IF failed THEN UNCHANGED disk ELSE Save(Remember(app, FALSE).last)
        /\ toGreeter' = Tail(toGreeter)
        /\ LeaveWriter

\* reexec_self, which does not return: a request under way is forgotten.
HandleReexec ==
    /\ Reads({Event("re-exec")})
    /\ app' = Boot(app.frontend, disk)
    /\ waiting' = NotWaiting
    /\ toDaemon' = Disown(toDaemon)
    /\ toGreeter' = Disown(Tail(toGreeter))
    /\ UNCHANGED <<up, attempts, disk, daemonVars>>

\* handle_connection_lost
LoseConnection ==
    /\ Reads({Event("eof")})
    /\ up' = FALSE
    /\ UNCHANGED <<app, waiting, toDaemon, toGreeter, attempts, disk, daemonVars>>

Reply(w, mine) == [what |-> w, mine |-> mine]
Replies == {Reply(w, mine) : w \in Answers, mine \in BOOLEAN}

\* A response to nothing the front end waits for is skipped.
SkipResponse ==
    /\ Reads(Replies) /\ (waiting = NotWaiting \/ ~Head(toGreeter).mine)
    /\ toGreeter' = Tail(toGreeter)
    /\ LeaveWriter /\ UNCHANGED <<app, disk>>

Answered(kind, ws) ==
    /\ waiting.kind = kind
    /\ Reads({Reply(w, TRUE) : w \in ws})
    /\ toGreeter' = Tail(toGreeter)
    /\ UNCHANGED <<up, disk, daemonVars>>

Answer == Head(toGreeter).what

Conclude(a) == app' = a /\ waiting' = NotWaiting /\ UNCHANGED <<toDaemon, attempts>>

CreateAnswered ==
    /\ Answered("create", Answers)
    /\ Conclude(HandleAnswer(SetAuthState(app, FALSE), Answer))

ContinueAnswered ==
    /\ Answered("continue", Answers)
    /\ Answer # "auth_retryable" \/ waiting.user = NoUser
    /\ Conclude(HandleAnswer(SetAuthState(app, FALSE), Answer))

\* The password was wrong: a new attempt for the same user.
ContinueRetried ==
    /\ Answered("continue", {"auth_retryable"}) /\ waiting.user # NoUser
    /\ CreateFor(HandleAnswer(SetAuthState(app, FALSE), Answer), waiting.user)

CancelAnswered ==
    /\ Answered("cancel", Answers)
    /\ Conclude(ResetAuthFlow(app))

\* Slip: the front end is unlocked as soon as the daemon accepts.
StartUnlocked ==
    /\ Answered("start", Answers)
    /\ Conclude(SetAuthState(app, FALSE))

\* start_selected_session, after the answer: the front end stays locked until
\* the daemon executes it again.
StartAnswered ==
    /\ Answered("start", Answers)
    /\ Conclude(IF Answer = "ok"
                THEN SetEntry([app EXCEPT !.last = [user |-> app.name,
                                                    command |-> waiting.command]], NoUser)
                ELSE SetAuthState(app, FALSE))

PowerAnswered ==
    /\ Answered("power", Answers)
    /\ Conclude(app)

\* The front end is killed, and the daemon starts another, or curses in its
\* place.
Dies ==
    /\ Frail /\ up
    /\ up' = FALSE
    /\ UNCHANGED <<app, waiting, toDaemon, toGreeter, attempts, disk, daemonVars>>

Restart ==
    /\ ~up /\ launching.stage = "no"
    /\ \E frontend \in {app.frontend, "curses"} : app' = Boot(frontend, disk)
    /\ up' = TRUE /\ waiting' = NotWaiting
    /\ toDaemon' = <<>> /\ toGreeter' = <<>> /\ auth' = NoAttempt
    /\ UNCHANGED <<launching, running, disk, latest, attempts, started>>

-----------------------------------------------------------------------------
(* The daemon. *)

LeaveGreeter == UNCHANGED <<greeterVars, attempts, disk>>
LeaveSessions == UNCHANGED <<launching, running, latest, started>>

Serving(kinds) ==
    /\ launching.stage = "no" /\ ~Closed
    /\ toDaemon # <<>> /\ Head(toDaemon).kind \in kinds
    /\ toDaemon' = Tail(toDaemon)
    /\ LeaveGreeter

Respond(w) == Reply(w, Head(toDaemon).mine)

\* PAM's prompts and the errors of its failures go out in the response as they are.
\* send_message drops one that exceeds a frame, and nothing else answers the request.
PassOn(w) == Send(<<Respond(w)>>) \/ (LongMessages /\ UNCHANGED toGreeter)

\* What a worker reports of the attempt for u, and what becomes of the attempt. The
\* request is taken off as the worker speaks: until then its handler awaits the worker.
WorkerSays(u) ==
    \/ \E style \in Styles :
           /\ auth' = [state |-> "asking", user |-> u, style |-> style]
           /\ PassOn(style)
    \/ auth' = Ready(u) /\ Send(<<Respond("ready")>>)
    \/ auth' = NoAttempt /\ PassOn("auth_failed")
    \/ /\ attempts < MaxAttempts
       /\ auth' = NoAttempt /\ Send(<<Respond("auth_retryable")>>)

ServeCreate ==
    /\ Serving({"create"})
    /\ WorkerSays(Head(toDaemon).user)
    /\ LeaveSessions

Pending == auth.state \in {"asking", "warned"}

ServeContinue ==
    /\ Serving({"continue"})
    /\ \/ Pending /\ WorkerSays(auth.user)
       \/ ~Pending /\ Send(<<Respond("refused")>>) /\ UNCHANGED auth
    /\ LeaveSessions

ServeCancel ==
    /\ Serving({"cancel"})
    /\ auth' = NoAttempt /\ Send(<<Respond("ok")>>)
    /\ LeaveSessions

ServeStart ==
    /\ Serving({"start"})
    /\ IF auth.state = "ready"
       THEN /\ Send(<<Respond("ok"), Event("starting")>>)
            /\ launching' = [stage |-> "spawn", session |-> [user |-> auth.user,
                                                command |-> Head(toDaemon).command]]
            /\ auth' = NoAttempt /\ started' = started + 1
       ELSE Send(<<Respond("refused")>>) /\ UNCHANGED <<auth, launching, started>>
    /\ UNCHANGED <<running, latest>>

ServePower ==
    /\ Serving({"power"})
    /\ \E w \in {"ok", "refused"} : Send(<<Respond(w)>>)
    /\ UNCHANGED auth /\ LeaveSessions

\* Slip: the request to spawn is not taken off.
SpawnAgain ==
    /\ launching.stage = "spawn"
    /\ running' = [running EXCEPT ![launching.session] = @ + 1]
    /\ LeaveGreeter
    /\ UNCHANGED <<toDaemon, toGreeter, auth, launching, latest, started>>

SpawnSession ==
    /\ launching.stage = "spawn"
    /\ launching' = [launching EXCEPT !.stage = "announce"]
    /\ running' = [running EXCEPT ![launching.session] = @ + 1]
    /\ LeaveGreeter /\ UNCHANGED <<toDaemon, toGreeter, auth, latest, started>>

NoLaunch == [stage |-> "no", session |-> Nothing]

\* Slip: a session takes over without the front end being told.
SkipReexec ==
    /\ launching.stage = "announce"
    /\ launching' = NoLaunch
    /\ LeaveGreeter
    /\ UNCHANGED <<toDaemon, toGreeter, auth, running, latest, started>>

SendReexec ==
    /\ launching.stage = "announce"
    /\ launching' = NoLaunch
    /\ Send(<<Event("re-exec")>>)
    /\ LeaveGreeter /\ UNCHANGED <<toDaemon, auth, running, latest, started>>

SessionEnds(s, failed) ==
    /\ running[s] > 0
    /\ running' = [running EXCEPT ![s] = @ - 1]
    /\ latest' = IF failed THEN latest ELSE s
    /\ Send(<<Event(IF failed THEN "failed" ELSE "finished")>>)
    /\ LeaveGreeter /\ UNCHANGED <<toDaemon, auth, launching, started>>

\* Slip: the warning starts the delay again.
TimerRearms ==
    /\ Timed /\ auth.state = "asking" /\ ~Closed
    /\ Send(<<Event("warned")>>)
    /\ LeaveGreeter /\ LeaveSessions /\ UNCHANGED <<toDaemon, auth>>

\* run_auth_timeout
TimerWarns ==
    /\ Timed /\ auth.state = "asking" /\ ~Closed
    /\ auth' = [auth EXCEPT !.state = "warned"]
    /\ Send(<<Event("warned")>>)
    /\ LeaveGreeter /\ LeaveSessions /\ UNCHANGED toDaemon

TimerExpires ==
    /\ Timed /\ auth.state = "warned" /\ ~Closed
    /\ auth' = NoAttempt
    /\ Send(<<Event("expired")>>)
    /\ LeaveGreeter /\ LeaveSessions /\ UNCHANGED toDaemon

\* A handler fails, as when a session cannot be spawned, or the daemon stops.
HangUp ==
    /\ Frail /\ up /\ ~Closed
    /\ Send(<<Event("eof")>>)
    /\ auth' = NoAttempt /\ launching' = NoLaunch
    /\ LeaveGreeter /\ UNCHANGED <<toDaemon, running, latest, started>>

-----------------------------------------------------------------------------
Init ==
    /\ disk \in {Nothing} \cup [user : User, command : Command]
    /\ \E frontend \in Frontends : app = Boot(frontend, disk)
    /\ waiting = NotWaiting /\ up = TRUE
    /\ toDaemon = <<>> /\ toGreeter = <<>>
    /\ auth = NoAttempt /\ launching = NoLaunch
    /\ running = [s \in Session |-> 0] /\ latest = Nothing
    /\ attempts = 0 /\ started = 0

UserActs ==
    \/ \E u \in AnyUser : TypeName(u)
    \/ \E fits \in BOOLEAN : TypeAnswer(fits)
    \/ \E c \in Command : PickSession(c)
    \/ CycleFocus
    \/ ClickNext \/ ClickContinue \/ ClickStart \/ ClickCancel \/ ClickPower

GreeterReads ==
    \/ HandleStarting \/ HandleWarning \/ HandleExpired \/ HandleFinished
    \/ HandleReexec \/ LoseConnection \/ SkipResponse
    \/ CreateAnswered \/ ContinueAnswered \/ ContinueRetried \/ CancelAnswered
    \/ StartAnswered \/ PowerAnswered

DaemonServes ==
    \/ ServeCreate \/ ServeContinue \/ ServeCancel \/ ServeStart \/ ServePower

Timer == TimerWarns \/ TimerExpires

Launch == SpawnSession \/ SendReexec

Next ==
    \/ UserActs \/ GreeterReads \/ DaemonServes \/ Timer \/ Launch
    \/ \E s \in Session, failed \in BOOLEAN : SessionEnds(s, failed)
    \/ Dies \/ Restart \/ HangUp

Spec == Init /\ [][Next]_vars

\* What the daemon answers without waiting for a worker.
ServesAlone ==
    \/ ServeCancel \/ ServeStart \/ ServePower
    \/ ~Pending /\ ServeContinue

\* The daemon's loop serves its channel and its timers; the front end polls.
\* Nothing is assumed of the user, of PAM, whose modules may never speak, or of
\* the sessions.
FairSpec ==
    /\ Spec
    /\ WF_vars(GreeterReads) /\ WF_vars(ServesAlone)
    /\ WF_vars(Timer) /\ WF_vars(Launch)

-----------------------------------------------------------------------------
Quiet == AtRest /\ ~app.busy /\ toDaemon = <<>> /\ toGreeter = <<>>

\* A front end at rest with nothing on the socket shows the prompt the daemon's
\* attempt is asking, and offers to start a session only while the daemon keeps
\* an accepted attempt, whatever events came inside the last round trip.
InStep ==
    Quiet =>
        /\ app.stage \in Styles => (Pending /\ auth.style = app.stage)
        /\ app.stage = "ready" => auth.state = "ready"

\* A start the front end offers is not refused: the attempt it would spend is
\* there, whatever the user pressed while an earlier start was under way.
StartHonoured ==
    waiting.kind = "start" => Reply("refused", TRUE) \notin ToSet(toGreeter)

\* A front end may lose the name of the user it is logging in, but it never
\* takes the attempt for another user's (create_session_for_username).
NeverMisnamed ==
    (Quiet /\ app.stage # "name") => app.name \in {NoUser, auth.user}

\* The front end takes no keys, or shows them no effect.
Locked == up /\ (app.busy \/ waiting # NotWaiting)

\* The daemon awaits a worker and no timer runs: the first word of a new worker has
\* none (start_auth_session), and what follows has one if auth-timeout is set.
Held ==
    /\ toDaemon # <<>>
    /\ Head(toDaemon).kind \in {"create"} \cup IF Timed THEN {} ELSE {"continue"}

\* What PAM said to the request the front end waits on was dropped.
Unheard ==
    /\ LongMessages /\ waiting.kind \in {"create", "continue"}
    /\ \A i \in DOMAIN toDaemon : ~toDaemon[i].mine
    /\ \A i \in DOMAIN toGreeter : ~toGreeter[i].mine

\* A locked front end is unlocked, executed again or told to quit, whatever PAM does
\* after its first word, unless that word or an answer that fits a frame never comes:
\* it does not stay at "Waiting for session" (on_login_clicked, send_recv_answer).
Unlocks == Locked ~> (~Locked \/ Held \/ Unheard)

\* A conversation the front end forgot, because a session ended or started in
\* the middle of it, does not stay open in the daemon.
ForgottenExpires ==
    (Quiet /\ app.stage = "name" /\ Pending) ~> (~Pending \/ app.stage # "name" \/ ~up)

\* configuration.md: the state file holds the last completed session.
RemembersLast ==
    (Quiet /\ latest # Nothing /\ launching = NoLaunch) => disk = latest
=============================================================================
