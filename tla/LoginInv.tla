------------------------------- MODULE LoginInv -------------------------------
(* The inductive invariant of a front end and its conversation. *)
EXTENDS Login

\* The types the arguments below need; the bounds of the counters are left out.
Shaped ==
    /\ app \in Apps /\ up \in BOOLEAN
    /\ waiting \in Requests \cup {NotWaiting}
    /\ toDaemon \in Seq(Requests)
    /\ toGreeter \in Seq([what : Answers \cup Events, mine : BOOLEAN])
    /\ auth \in [state : {"none", "asking", "warned", "ready"}, user : AnyUser, style : Styles]
    /\ launching \in [stage : {"no", "spawn", "announce"}, session : Session]
    /\ disk \in Session

\* One request at most is the front end's own, the last one, and so is its
\* response, which the daemon writes when nothing is left to serve.
ChannelInv ==
    /\ \A i \in DOMAIN toDaemon : toDaemon[i].mine => i = Len(toDaemon) /\ toDaemon[i] = waiting
    /\ \A i \in DOMAIN toGreeter :
          toGreeter[i].mine =>
              toGreeter[i].what \in Answers /\ toDaemon = <<>> /\ waiting # NotWaiting
    /\ \A i, j \in DOMAIN toGreeter : toGreeter[i].mine /\ toGreeter[j].mine => i = j

Stale == \E i \in DOMAIN toDaemon : ~toDaemon[i].mine
Own(kind) == \E i \in DOMAIN toDaemon : toDaemon[i].mine /\ toDaemon[i].kind = kind

\* What an earlier process image left on the socket is served while the present
\* one is still at its first request.
StaleInv == Stale => app.stage = "name" /\ (app.name = NoUser \/ Own("create"))

\* The front end is there and the daemon did not hang up.
Joined == up /\ ~Closed

\* A start is offered on an accepted attempt only, and answered well.
StartInv ==
    /\ waiting.kind = "start" /\ app.stage = "ready" => app.busy
    /\ Own("start") => Len(toDaemon) = 1 /\ (Joined => auth.state = "ready")
    /\ \A i \in DOMAIN toGreeter :
          toGreeter[i].mine /\ waiting.kind = "start" => toGreeter[i].what = "ok"

Asked == waiting.kind \in {"create", "continue"}

\* A prompt or an acceptance on its way is the one of the daemon's attempt,
\* unless the attempt expired behind it.
ReplyInv ==
    Joined /\ Asked => \A i \in DOMAIN toGreeter : toGreeter[i].mine =>
        /\ toGreeter[i].what = "ready" => auth.state = "ready"
        /\ toGreeter[i].what \in Styles =>
              \/ Pending /\ auth.style = toGreeter[i].what
              \/ \E j \in DOMAIN toGreeter : j > i /\ toGreeter[j] = Event("expired")

\* A response that decides anew what the front end shows is on its way, or was
\* dropped.
Deciding ==
    /\ waiting.kind \in {"create", "continue", "cancel"}
    /\ \A i \in DOMAIN toDaemon : ~toDaemon[i].mine

Expiring == \E i \in DOMAIN toGreeter : toGreeter[i] = Event("expired")

\* The accepted attempt was spent on a session that is being launched.
Leaving ==
    app.busy /\ (launching.stage # "no" \/ \E i \in DOMAIN toGreeter : toGreeter[i] = Event("re-exec"))

\* What the front end shows is the daemon's attempt.
ScreenInv ==
    Joined /\ ~Deciding =>
        /\ app.stage \in Styles => (Pending /\ auth.style = app.stage) \/ Expiring
        /\ app.stage = "ready" => auth.state = "ready" \/ Leaving

\* Whose attempt it is.
NameInv ==
    /\ \A i \in DOMAIN toDaemon :
          toDaemon[i].mine /\ toDaemon[i].kind = "create"
              => app.name \in {NoUser, toDaemon[i].user}
    /\ Joined /\ ~Own("create") /\ auth.state # "none" => app.name \in {NoUser, auth.user}

\* The bound on sessions: a session not yet spawned is counted, and a start on
\* its way is the only one.
StartedInv ==
    /\ started \in 0..MaxSessions /\ latest \in Session
    /\ running \in [Session -> 0..MaxSessions]
    /\ \A s \in Session :
          running[s] <= started /\ (launching.stage = "spawn" => running[s] < started)

OneStart ==
    \A i, j \in DOMAIN toDaemon :
        toDaemon[i].kind = "start" => started < MaxSessions /\ (toDaemon[j].kind = "start" => i = j)

\* The bound on attempts: what may be retried is retried once.
RetryInv ==
    /\ attempts \in 0..MaxAttempts
    /\ \A i \in DOMAIN toGreeter :
          toGreeter[i].mine /\ toGreeter[i].what = "auth_retryable" => attempts < MaxAttempts

LoginInvariant ==
    /\ Shaped /\ ChannelInv /\ StaleInv /\ StartInv /\ ReplyInv /\ ScreenInv /\ NameInv
=============================================================================
