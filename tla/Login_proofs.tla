----------------------------- MODULE Login_proofs -----------------------------
(* Theorems about a greeter front end and the daemon it talks to, for any users, *)
(* commands and session lists, any number of logins, and either front end.       *)
EXTENDS LoginInv, TLAPS

-----------------------------------------------------------------------------
(* Sequences. *)

LEMMA HeadAndTail ==
    ASSUME NEW S, NEW q \in Seq(S), q # <<>>
    PROVE  /\ Head(q) \in S /\ Tail(q) \in Seq(S)
           /\ 1 \in DOMAIN q /\ q[1] = Head(q) /\ Len(Tail(q)) = Len(q) - 1
           /\ \A i \in DOMAIN Tail(q) : i \in Nat /\ i + 1 \in DOMAIN q /\ i + 1 # 1 /\ Tail(q)[i] = q[i + 1]
           /\ \A i \in DOMAIN q : i \in Nat /\ (i # 1 => i - 1 \in DOMAIN Tail(q) /\ Tail(q)[i - 1] = q[i])
OBVIOUS

LEMMA Appended ==
    ASSUME NEW S, NEW q \in Seq(S), NEW x \in S
    PROVE  /\ Append(q, x) \in Seq(S) /\ Append(q, x) # <<>>
           /\ Len(Append(q, x)) = Len(q) + 1 /\ Len(q) \in Nat
           /\ \A i \in DOMAIN q : i \in DOMAIN Append(q, x) /\ Append(q, x)[i] = q[i] /\ i <= Len(q) /\ i \in Nat
           /\ \A i \in DOMAIN Append(q, x) :
                 (i \in DOMAIN q /\ Append(q, x)[i] = q[i]) \/ (i = Len(q) + 1 /\ Append(q, x)[i] = x)
           /\ Len(q) + 1 \in DOMAIN Append(q, x) /\ Append(q, x)[Len(q) + 1] = x
           /\ Len(q) + 1 \notin DOMAIN q
OBVIOUS

LEMMA Pushed ==
    ASSUME NEW S, NEW q \in Seq(S), NEW x \in S, NEW y \in S
    PROVE  q \o <<x>> = Append(q, x) /\ q \o <<x, y>> = Append(Append(q, x), y)
OBVIOUS

LEMMA ClosedDef == Closed <=> \E i \in DOMAIN toGreeter : toGreeter[i] = Event("eof")
BY DEF Closed, ToSet

-----------------------------------------------------------------------------
(* The front end's operations. *)

LEMMA Chosen ==
    ASSUME NEW u \in AnyUser, NEW want \in AnyCommand
    PROVE  Choose(u, want) \in AnyCommand
<1>1. Catalogue[u] \in Seq(Command)
  BY LoginAssumption DEF AnyUser
<1>2. Catalogue[u] # <<>> => Head(Catalogue[u]) \in Command
  BY <1>1
<1>3. QED
  BY <1>2 DEF Choose, AnyCommand

\* What an operation may do with the conversation on the screen.
SameScreen(a, b) == b.stage = a.stage /\ b.name = a.name /\ b.busy = a.busy
Clear(a) == a.stage = "name" /\ a.name = NoUser

LEMMA Refreshed ==
    ASSUME NEW a \in Apps, NEW u \in AnyUser, NEW c \in AnyCommand
    PROVE  Refresh(a, u, c) \in Apps /\ SameScreen(a, Refresh(a, u, c))
<1> DEFINE kept == IF Curses THEN NoCommand ELSE a.chosen
           want == IF c # NoCommand THEN c ELSE IF kept # NoCommand THEN kept ELSE a.last.command
<1>1. a.chosen \in AnyCommand /\ a.last.command \in AnyCommand
  BY DEF Apps, Session
<1>2. want \in AnyCommand
  BY <1>1 DEF AnyCommand
<1>3. Choose(u, want) \in AnyCommand
  BY <1>2, Chosen
<1>4. Refresh(a, u, c) = [a EXCEPT !.list = u, !.chosen = Choose(u, want)]
  BY DEF Refresh
<1> HIDE DEF want
<1>5. QED
  BY <1>3, <1>4 DEF Apps, SameScreen

LEMMA EntrySet ==
    ASSUME NEW a \in Apps, NEW u \in AnyUser
    PROVE  SetEntry(a, u) \in Apps /\ SameScreen(a, SetEntry(a, u))
<1> DEFINE b == [a EXCEPT !.entry = u]
<1>1. b \in Apps /\ SameScreen(a, b)
  BY DEF Apps, SameScreen
<1>2. Refresh(b, u, NoCommand) \in Apps /\ SameScreen(b, Refresh(b, u, NoCommand))
  BY <1>1, Refreshed DEF AnyCommand
<1>3. SetEntry(a, u) = IF Curses THEN b ELSE Refresh(b, u, NoCommand)
  BY DEF SetEntry
<1> HIDE DEF b
<1>4. QED
  BY <1>1, <1>2, <1>3 DEF SameScreen

LEMMA StateSet ==
    ASSUME NEW a \in Apps, NEW busy \in BOOLEAN
    PROVE  /\ SetAuthState(a, busy) \in Apps /\ SetAuthState(a, busy).busy = busy
           /\ SetAuthState(a, busy).stage = a.stage /\ SetAuthState(a, busy).name = a.name
BY DEF SetAuthState, Apps

LEMMA Clears ==
    ASSUME NEW a \in Apps
    PROVE  ClearConversation(a) \in Apps /\ Clear(ClearConversation(a))
BY DEF ClearConversation, Apps, AnyUser, Stages, Clear

LEMMA Resets ==
    ASSUME NEW a \in Apps
    PROVE  ResetAuthFlow(a) \in Apps /\ Clear(ResetAuthFlow(a))
<1> DEFINE a1 == SetAuthState(a, FALSE)
           a2 == ClearConversation(a1)
           a3 == SetEntry(a2, a.name)
           a4 == [a3 EXCEPT !.typed = FALSE, !.focus = "username"]
           a5 == Refresh(a4, a.name, a4.last.command)
<1>1. a1 \in Apps
  BY StateSet
<1>2. a2 \in Apps /\ Clear(a2)
  BY <1>1, Clears
<1>3. a3 \in Apps /\ SameScreen(a2, a3)
  <2>1. a.name \in AnyUser
    BY DEF Apps
  <2>2. QED
    BY <1>2, <2>1, EntrySet
<1> HIDE DEF a3
<1>4. a4 \in Apps /\ SameScreen(a3, a4)
  BY <1>3 DEF Apps, SameScreen
<1> HIDE DEF a4
<1>5. a5 \in Apps /\ SameScreen(a4, a5)
  <2>1. a.name \in AnyUser /\ a4.last.command \in AnyCommand
    BY <1>4 DEF Apps, Session
  <2>2. QED
    BY <1>4, <2>1, Refreshed
<1>6. ResetAuthFlow(a) = a5
  BY DEF ResetAuthFlow, a3, a4
<1> HIDE DEF a5, a2
<1>7. QED
  BY <1>2, <1>3, <1>4, <1>5, <1>6 DEF SameScreen, Clear

LEMMA Remembers ==
    ASSUME NEW a \in Apps, NEW failed \in BOOLEAN
    PROVE  Remember(a, failed) \in Apps /\ SameScreen(a, Remember(a, failed))
BY DEF Remember, Apps, SameScreen, Session

LEMMA Finishes ==
    ASSUME NEW a \in Apps, NEW failed \in BOOLEAN
    PROVE  SessionFinished(a, failed) \in Apps /\ Clear(SessionFinished(a, failed))
<1> DEFINE a2 == ClearConversation(SetAuthState(a, FALSE))
           b == Remember(a2, failed)
           b2 == SetEntry(b, b.last.user)
           c == [b2 EXCEPT !.typed = FALSE, !.focus = IF Curses THEN @ ELSE "username"]
           d == Refresh(c, c.last.user, c.last.command)
<1>1. a2 \in Apps /\ Clear(a2)
  BY StateSet, Clears
<1> HIDE DEF a2
<1>2. b \in Apps /\ SameScreen(a2, b)
  BY <1>1, Remembers
<1> HIDE DEF b
<1>3. b2 \in Apps /\ SameScreen(b, b2)
  <2>1. b.last.user \in AnyUser
    BY <1>2 DEF Apps, Session
  <2>2. QED
    BY <1>2, <2>1, EntrySet
<1> HIDE DEF b2
<1>4. c \in Apps /\ SameScreen(b2, c)
  BY <1>3 DEF Apps, SameScreen
<1> HIDE DEF c
<1>5. d \in Apps /\ SameScreen(c, d)
  <2>1. c.last.user \in AnyUser /\ c.last.command \in AnyCommand
    BY <1>4 DEF Apps, Session
  <2>2. QED
    BY <1>4, <2>1, Refreshed
<1>6. SessionFinished(a, failed) = d
  BY DEF SessionFinished, a2, b, b2, c
<1> HIDE DEF d
<1>7. QED
  BY <1>1, <1>2, <1>3, <1>4, <1>5, <1>6 DEF SameScreen, Clear

LEMMA Boots ==
    ASSUME NEW frontend \in {"gtk", "curses"}, NEW saved \in Session
    PROVE  Boot(frontend, saved) \in Apps /\ Clear(Boot(frontend, saved))
<1>1. Choose(saved.user, saved.command) \in AnyCommand
  BY Chosen DEF Session
<1>2. QED
  BY <1>1 DEF Boot, Apps, Session, Clear, AnyUser, Stages

LEMMA AnswerHandled ==
    ASSUME NEW a \in Apps, NEW w \in Answers
    PROVE  /\ HandleAnswer(a, w) \in Apps
           /\ \/ /\ w \in Styles \cup {"ready"}
                 /\ HandleAnswer(a, w).stage = w /\ HandleAnswer(a, w).name = a.name
              \/ w \notin Styles \cup {"ready"} /\ Clear(HandleAnswer(a, w))
<1>1. CASE w \in Styles
  <2>1. HandleAnswer(a, w) = SetPrompt(a, w)
    BY <1>1 DEF HandleAnswer, Styles
  <2>2. w \in Stages
    BY <1>1 DEF Stages
  <2>3. SetPrompt(a, w) \in Apps /\ SetPrompt(a, w).stage = w /\ SetPrompt(a, w).name = a.name
    BY <2>2 DEF SetPrompt, Apps
  <2>4. QED
    BY <1>1, <2>1, <2>3
<1>2. CASE w = "ready"
  <2> DEFINE b == [a EXCEPT !.stage = "ready"]
             r == Refresh(b, a.name, a.last.command)
  <2>1. b \in Apps /\ a.name \in AnyUser /\ a.last.command \in AnyCommand /\ b.name = a.name /\ b.stage = w
    BY <1>2 DEF Apps, Session, Stages
  <2>2. r \in Apps /\ SameScreen(b, r)
    BY <2>1, Refreshed
  <2>3. HandleAnswer(a, w) = IF Curses THEN [r EXCEPT !.focus = "sessions"] ELSE b
    BY <1>2 DEF HandleAnswer, SetReady, Styles
  <2> HIDE DEF b, r
  <2>4. [r EXCEPT !.focus = "sessions"] \in Apps /\ SameScreen(r, [r EXCEPT !.focus = "sessions"])
    BY <2>2 DEF Apps, SameScreen
  <2>5. QED
    BY <1>2, <2>1, <2>2, <2>3, <2>4 DEF SameScreen
<1>3. CASE w \notin Styles \cup {"ready"}
  BY <1>3, Clears DEF HandleAnswer
<1>4. QED
  BY <1>1, <1>2, <1>3

-----------------------------------------------------------------------------
(* Every step is one of a dozen kinds, by what it does to the two queues, to   *)
(* the conversation on the screen and to the attempt.                          *)

Replied == [what : Answers \cup Events, mine : BOOLEAN]

Keeps ==
    /\ app'.stage = app.stage /\ app'.name = app.name
    /\ app.busy => app'.busy

Pops == toGreeter # <<>> /\ toGreeter' = Tail(toGreeter)

Edits == Keeps /\ UNCHANGED <<waiting, up, toDaemon, toGreeter, auth, launching>>

Asks ==
    /\ up /\ waiting = NotWaiting
    /\ waiting' \in Requests /\ waiting'.mine /\ waiting' # NotWaiting
    /\ toDaemon' = Append(toDaemon, waiting')
    /\ app'.stage = app.stage
    /\ app.busy => app'.busy
    /\ IF waiting'.kind = "create" THEN app.stage = "name" /\ app'.name = waiting'.user
       ELSE app'.name = app.name
    /\ waiting'.kind \notin {"create", "power"} => app.stage # "name"
    /\ waiting'.kind = "start" => app.stage = "ready" /\ ~app.busy /\ app'.busy
    /\ UNCHANGED <<up, toGreeter, auth, launching>>

Passes ==
    /\ Pops
    /\ ~Head(toGreeter).mine /\ Head(toGreeter).what \notin {"re-exec", "eof"}
    /\ (Keeps /\ Head(toGreeter) # Event("expired")) \/ Clear(app')
    /\ UNCHANGED <<waiting, up, toDaemon, auth, launching>>

Reexecs ==
    /\ toGreeter # <<>> /\ Clear(app')
    /\ Head(toGreeter) = Event("re-exec")
    /\ waiting' = NotWaiting
    /\ toDaemon' = Disown(toDaemon) /\ toGreeter' = Disown(Tail(toGreeter))
    /\ UNCHANGED <<up, auth, launching>>

Quits == ~up' /\ UNCHANGED <<app, waiting, toDaemon, toGreeter, auth, launching>>

Concludes ==
    /\ Pops /\ up
    /\ Head(toGreeter).mine /\ Head(toGreeter).what \in Answers
    /\ waiting' = NotWaiting
    /\ \/ Clear(app')
       \/ Keeps /\ waiting.kind \in {"start", "power"}
       \/ /\ waiting.kind \in {"create", "continue"}
          /\ app'.stage = Head(toGreeter).what /\ app'.name = app.name
          /\ Head(toGreeter).what \in Styles \cup {"ready"}
    /\ UNCHANGED <<up, toDaemon, auth, launching>>

Retries ==
    /\ Pops
    /\ Head(toGreeter).mine /\ Head(toGreeter).what \in Answers
    /\ waiting' \in Requests /\ waiting'.mine /\ waiting' # NotWaiting /\ waiting'.kind = "create"
    /\ toDaemon' = Append(toDaemon, waiting')
    /\ app'.stage = "name" /\ app'.name = waiting'.user
    /\ UNCHANGED <<up, auth, launching>>

Restarts ==
    /\ Clear(app') /\ waiting' = NotWaiting
    /\ toDaemon' = <<>> /\ toGreeter' = <<>> /\ auth' = NoAttempt
    /\ UNCHANGED launching

Serves(w) ==
    /\ ~Closed /\ toDaemon # <<>> /\ toDaemon' = Tail(toDaemon)
    /\ w \in Answers
    /\ UNCHANGED <<app, waiting, up>>

Writes(w) == toGreeter' = IF up THEN Append(toGreeter, Respond(w)) ELSE toGreeter

\* The answer may be dropped.
MayWrite(w) == Writes(w) \/ UNCHANGED toGreeter

\* The attempt is u's, and as the answer says.
Attempted(u, w) ==
    \/ w \in Styles /\ auth' = [state |-> "asking", user |-> u, style |-> w]
    \/ w = "ready" /\ auth' = Ready(u)
    \/ w \notin Styles \cup {"ready"} /\ auth' = NoAttempt

Decides ==
    \E w \in Answers :
        /\ Serves(w) /\ MayWrite(w) /\ UNCHANGED launching
        /\ \/ Head(toDaemon).kind = "create" /\ Attempted(Head(toDaemon).user, w)
           \/ Head(toDaemon).kind = "continue" /\ Pending /\ Attempted(auth.user, w)
           \/ Head(toDaemon).kind = "continue" /\ ~Pending /\ w = "refused" /\ UNCHANGED auth
           \/ Head(toDaemon).kind = "cancel" /\ w = "ok" /\ auth' = NoAttempt

Starts ==
    /\ Serves("ok") /\ Head(toDaemon).kind = "start" /\ auth.state = "ready"
    /\ toGreeter' = IF up THEN Append(Append(toGreeter, Respond("ok")), Event("starting")) ELSE toGreeter
    /\ launching'.stage = "spawn" /\ auth' = NoAttempt

Declines ==
    \E w \in Answers :
        /\ Serves(w) /\ Writes(w) /\ UNCHANGED <<auth, launching>>
        /\ \/ Head(toDaemon).kind = "start" /\ auth.state # "ready" /\ w = "refused"
           \/ Head(toDaemon).kind = "power"

Spawns ==
    /\ launching'.stage # "no"
    /\ UNCHANGED <<app, waiting, up, toDaemon, toGreeter, auth>>

Announces ==
    \E e \in Events \ {"eof"} :
        /\ toGreeter' = IF Joined THEN Append(toGreeter, Event(e)) ELSE toGreeter
        /\ \/ UNCHANGED auth /\ e # "expired"
           \/ Pending /\ auth' = [auth EXCEPT !.state = "warned"]
           \/ Pending /\ auth' = NoAttempt /\ e = "expired"
        /\ launching' = launching \/ e = "re-exec"
        /\ UNCHANGED <<app, waiting, up, toDaemon>>

HangsUp ==
    /\ toGreeter' = Append(toGreeter, Event("eof"))
    /\ UNCHANGED <<app, waiting, up, toDaemon>>
    /\ auth' = NoAttempt /\ launching' = NoLaunch

Step ==
    \/ Edits \/ Asks \/ Passes \/ Reexecs \/ Quits \/ Concludes \/ Retries \/ Restarts
    \/ Decides \/ Starts \/ Declines \/ Spawns \/ Announces \/ HangsUp

\* What every step keeps of the types.
Forms ==
    /\ app \in Apps /\ up \in BOOLEAN
    /\ auth \in [state : {"none", "asking", "warned", "ready"}, user : AnyUser, style : Styles]
    /\ launching \in [stage : {"no", "spawn", "announce"}, session : Session]
    /\ disk \in Session

LEMMA Values ==
    /\ NoAttempt \in [state : {"none", "asking", "warned", "ready"}, user : AnyUser, style : Styles]
    /\ NoLaunch \in [stage : {"no", "spawn", "announce"}, session : Session]
    /\ \A e \in Events : Event(e) \in Replied /\ ~Event(e).mine /\ Event(e).what = e
    /\ \A w \in Answers, m \in BOOLEAN : Reply(w, m) \in Replied
    /\ NotWaiting.kind = "none" /\ NotWaiting \notin Requests
<1>1. NotWaiting.kind = "none" /\ NotWaiting \notin Requests
  BY DEF NotWaiting, Ask, Requests, Kinds
<1>2. QED
  BY <1>1 DEF NoAttempt, NoLaunch, Nothing, Session, AnyUser, AnyCommand, Styles, Event, Reply, Replied

LEMMA Asking ==
    ASSUME NEW kind \in Kinds, NEW u \in AnyUser, NEW c \in AnyCommand
    PROVE  /\ Ask(kind, u, c) \in Requests /\ Ask(kind, u, c).mine
           /\ Ask(kind, u, c).kind = kind /\ Ask(kind, u, c).user = u
           /\ Ask(kind, u, c) # NotWaiting
<1>1. Ask(kind, u, c) \in Requests /\ Ask(kind, u, c).mine
      /\ Ask(kind, u, c).kind = kind /\ Ask(kind, u, c).user = u
  BY DEF Ask, Requests
<1>2. QED
  BY <1>1, Values

LEMMA Requested ==
    ASSUME NEW kind \in Kinds, NEW u \in AnyUser, NEW c \in AnyCommand, Request(kind, u, c)
    PROVE  /\ waiting' \in Requests /\ waiting'.mine /\ waiting' # NotWaiting
           /\ waiting'.kind = kind /\ waiting'.user = u
           /\ toDaemon' = Append(toDaemon, waiting')
BY Asking DEF Request

LEMMA UserSteps ==
    ASSUME LoginInvariant, UserActs
    PROVE  Step /\ Forms'
<1> USE DEF LoginInvariant, Shaped
<1>0. app \in Apps /\ app.name \in AnyUser /\ app.entry \in AnyUser /\ app.chosen \in AnyCommand
      /\ NoUser \in AnyUser /\ NoCommand \in AnyCommand
      /\ Kinds = {"create", "continue", "cancel", "start", "power"}
  BY DEF Apps, AnyUser, AnyCommand, Kinds
<1>1. ASSUME NEW u \in AnyUser, TypeName(u) PROVE Step /\ Forms'
  <2>1. app' = SetEntry(app, u) /\ LeaveSocket
    BY <1>1 DEF TypeName
  <2>2. app' \in Apps /\ SameScreen(app, app')
    BY <1>0, <2>1, EntrySet
  <2>3. QED
    BY <2>1, <2>2 DEF SameScreen, Step, Edits, Keeps, Forms, LeaveSocket, LeaveDaemon, daemonVars
<1>2. ASSUME NEW fits \in BOOLEAN, TypeAnswer(fits) PROVE Step /\ Forms'
  <2>1. app' = [app EXCEPT !.typed = fits] /\ LeaveSocket
    BY <1>2 DEF TypeAnswer
  <2>2. app' \in Apps /\ SameScreen(app, app')
    BY <1>0, <2>1 DEF Apps, SameScreen
  <2>3. QED
    BY <2>1, <2>2 DEF SameScreen, Step, Edits, Keeps, Forms, LeaveSocket, LeaveDaemon, daemonVars
<1>3. ASSUME NEW c \in Command, PickSession(c) PROVE Step /\ Forms'
  <2>1. app' = [app EXCEPT !.chosen = c] /\ LeaveSocket
    BY <1>3 DEF PickSession
  <2>2. app' \in Apps /\ SameScreen(app, app')
    BY <1>0, <2>1 DEF Apps, SameScreen, AnyCommand
  <2>3. QED
    BY <2>1, <2>2 DEF SameScreen, Step, Edits, Keeps, Forms, LeaveSocket, LeaveDaemon, daemonVars
<1>4. CASE CycleFocus
  <2> DEFINE f == CASE app.stage = "ready" -> "sessions"
                    [] app.stage = "input" -> "password"
                    [] OTHER -> IF app.focus = "username" THEN "password" ELSE "username"
  <2>1. app' = [app EXCEPT !.focus = f] /\ LeaveSocket
    BY <1>0, <1>4 DEF CycleFocus, Apps
  <2>2. f \in {"username", "password", "sessions"}
    BY <1>0 DEF Apps
  <2> HIDE DEF f
  <2>3. app' \in Apps /\ SameScreen(app, app')
    BY <1>0, <2>1, <2>2 DEF Apps, SameScreen
  <2>4. QED
    BY <2>1, <2>3 DEF SameScreen, Step, Edits, Keeps, Forms, LeaveSocket, LeaveDaemon, daemonVars
<1>5. CASE ClickNext
  <2>1. app' = [SetAuthState(app, TRUE) EXCEPT !.name = app.entry] /\ Request("create", app.entry, NoCommand)
    BY <1>5 DEF ClickNext, CreateFor
  <2>2. app' \in Apps /\ app'.busy /\ app'.stage = app.stage /\ app'.name = app.entry
    BY <1>0, <2>1 DEF SetAuthState, Apps
  <2>5. /\ waiting' \in Requests /\ waiting'.mine /\ waiting' # NotWaiting
        /\ waiting'.kind = "create" /\ waiting'.user = app.entry
        /\ toDaemon' = Append(toDaemon, waiting')
    BY <1>0, <2>1, Requested
  <2>3. Asks
    BY <1>0, <1>5, <2>1, <2>2, <2>5 DEF ClickNext, Asks, AtRest, LeaveDaemon, daemonVars, Styles
  <2>4. QED
    BY <1>5, <2>2, <2>3 DEF Step, Forms, ClickNext, LeaveDaemon, daemonVars
<1>6. CASE ClickContinue
  <2>1. app' = SetAuthState([app EXCEPT !.typed = FALSE], TRUE) /\ Request("continue", app.name, NoCommand)
    BY <1>6 DEF ClickContinue
  <2>2. app' \in Apps /\ app'.busy /\ app'.stage = app.stage /\ app'.name = app.name
    BY <1>0, <2>1 DEF SetAuthState, Apps
  <2>5. /\ waiting' \in Requests /\ waiting'.mine /\ waiting' # NotWaiting
        /\ waiting'.kind = "continue" /\ waiting'.user = app.name
        /\ toDaemon' = Append(toDaemon, waiting')
    BY <1>0, <2>1, Requested
  <2>3. Asks
    BY <1>0, <1>6, <2>1, <2>2, <2>5 DEF ClickContinue, Asks, AtRest, LeaveDaemon, daemonVars, Styles
  <2>4. QED
    BY <1>6, <2>2, <2>3 DEF Step, Forms, ClickContinue, LeaveDaemon, daemonVars
<1>7. CASE ClickStart
  <2>1. app' = SetAuthState(app, TRUE) /\ Request("start", NoUser, app.chosen)
    BY <1>7 DEF ClickStart
  <2>2. app' \in Apps /\ app'.busy /\ app'.stage = app.stage /\ app'.name = app.name
    BY <1>0, <2>1, StateSet
  <2>5. /\ waiting' \in Requests /\ waiting'.mine /\ waiting' # NotWaiting
        /\ waiting'.kind = "start" /\ waiting'.user = NoUser
        /\ toDaemon' = Append(toDaemon, waiting')
    BY <1>0, <2>1, Requested
  <2>3. Asks
    BY <1>0, <1>7, <2>1, <2>2, <2>5 DEF ClickStart, Asks, AtRest, LeaveDaemon, daemonVars, Styles
  <2>4. QED
    BY <1>7, <2>2, <2>3 DEF Step, Forms, ClickStart, LeaveDaemon, daemonVars
<1>8. CASE ClickCancel
  <2>1. app' = SetAuthState(app, TRUE) /\ Request("cancel", NoUser, NoCommand)
    BY <1>8 DEF ClickCancel
  <2>2. app' \in Apps /\ app'.busy /\ app'.stage = app.stage /\ app'.name = app.name
    BY <1>0, <2>1, StateSet
  <2>5. /\ waiting' \in Requests /\ waiting'.mine /\ waiting' # NotWaiting
        /\ waiting'.kind = "cancel" /\ waiting'.user = NoUser
        /\ toDaemon' = Append(toDaemon, waiting')
    BY <1>0, <2>1, Requested
  <2>3. Asks
    BY <1>0, <1>8, <2>1, <2>2, <2>5 DEF ClickCancel, Asks, AtRest, LeaveDaemon, daemonVars, Styles
  <2>4. QED
    BY <1>8, <2>2, <2>3 DEF Step, Forms, ClickCancel, LeaveDaemon, daemonVars
<1>9. CASE ClickPower
  <2>1. app' = app /\ Request("power", NoUser, NoCommand)
    BY <1>9 DEF ClickPower
  <2>2. Asks
    BY <1>0, <1>9, <2>1, Asking DEF ClickPower, Asks, Request, AtRest, LeaveDaemon, daemonVars, Kinds
  <2>3. QED
    BY <1>9, <2>2 DEF Step, Forms, ClickPower, LeaveDaemon, daemonVars
<1>10. QED
  BY <1>1, <1>2, <1>3, <1>4, <1>5, <1>6, <1>7, <1>8, <1>9 DEF UserActs

LEMMA ReadSteps ==
    ASSUME LoginInvariant, GreeterReads
    PROVE  Step /\ Forms'
<1> USE DEF LoginInvariant, Shaped
<1> USE DEF LeaveWriter, daemonVars
<1>0. /\ app \in Apps /\ disk \in Session /\ app.frontend \in {"gtk", "curses"}
      /\ toGreeter # <<>> => Head(toGreeter) \in Replied
      /\ \A e \in Events : Event(e).what = e /\ ~Event(e).mine
  <2>1. toGreeter \in Seq(Replied)
    BY DEF Replied
  <2>2. QED
    BY <2>1, HeadAndTail, Values DEF Apps
<1>1. CASE HandleStarting
  <2>1. app' = SetAuthState(app, TRUE) /\ Pops /\ Head(toGreeter) = Event("starting")
    BY <1>1 DEF HandleStarting, Pops, Reads
  <2>2. app' \in Apps /\ Keeps
    BY <1>0, <2>1, StateSet DEF Keeps
  <2>3. ~Head(toGreeter).mine /\ Head(toGreeter).what = "starting"
    BY <1>0, <2>1 DEF Events
  <2>4. Head(toGreeter) # Event("expired")
    BY <1>0, <2>3 DEF Events
  <2>5. QED
    BY <1>1, <2>1, <2>2, <2>3, <2>4 DEF HandleStarting, Passes, Step, Forms
<1>2. CASE HandleWarning
  <2>1. app' = app /\ Pops /\ Head(toGreeter) = Event("warned")
    BY <1>2 DEF HandleWarning, Pops, Reads
  <2>2. ~Head(toGreeter).mine /\ Head(toGreeter).what = "warned"
    BY <1>0, <2>1 DEF Events
  <2>3. Head(toGreeter) # Event("expired")
    BY <1>0, <2>2 DEF Events
  <2>4. QED
    BY <1>2, <2>1, <2>2, <2>3 DEF HandleWarning, Keeps, Passes, Step, Forms
<1>3. CASE HandleExpired
  <2>1. app' = ResetAuthFlow(app) /\ Pops /\ Head(toGreeter) = Event("expired")
    BY <1>3 DEF HandleExpired, Pops, Reads
  <2>2. app' \in Apps /\ Clear(app')
    BY <1>0, <2>1, Resets
  <2>3. ~Head(toGreeter).mine /\ Head(toGreeter).what = "expired"
    BY <1>0, <2>1 DEF Events
  <2>4. QED
    BY <1>3, <2>1, <2>2, <2>3 DEF HandleExpired, Passes, Step, Forms
<1>4. CASE HandleFinished
  <2>1. PICK failed \in BOOLEAN :
            /\ Reads({Event(IF failed THEN "failed" ELSE "finished")})
            /\ app' = SessionFinished(app, failed)
            /\ IF failed THEN UNCHANGED disk ELSE Save(Remember(app, FALSE).last)
            /\ toGreeter' = Tail(toGreeter)
            /\ LeaveWriter
    BY <1>4 DEF HandleFinished
  <2>2. app' \in Apps /\ Clear(app')
    BY <1>0, <2>1, Finishes
  <2>3. /\ ~Head(toGreeter).mine /\ Head(toGreeter).what \in {"failed", "finished"}
        /\ toGreeter # <<>>
    BY <1>0, <2>1 DEF Events, Reads
  <2>4. disk' \in Session
    <3>1. Remember(app, FALSE) \in Apps
      BY <1>0, Remembers
    <3>2. Remember(app, FALSE).last \in Session
      BY <3>1 DEF Apps
    <3>3. QED
      BY <1>0, <2>1, <3>2 DEF Save
  <2>5. QED
    BY <2>1, <2>2, <2>3, <2>4 DEF Pops, Passes, Step, Forms
<1>5. CASE HandleReexec
  <2>1. app' = Boot(app.frontend, disk) /\ toGreeter # <<>> /\ Head(toGreeter) = Event("re-exec")
    BY <1>5 DEF HandleReexec, Reads
  <2>2. app' \in Apps /\ Clear(app')
    BY <1>0, <2>1, Boots
  <2>3. QED
    BY <1>5, <2>1, <2>2 DEF HandleReexec, Reexecs, Step, Forms
<1>6. CASE LoseConnection
  BY <1>6 DEF LoseConnection, Quits, Step, Forms
<1>7. CASE SkipResponse
  <2>1. app' = app /\ Pops /\ Head(toGreeter) \in Replies /\ (waiting = NotWaiting \/ ~Head(toGreeter).mine)
    BY <1>7 DEF SkipResponse, Pops, Reads
  <2>2. ~Head(toGreeter).mine
    <3>1. 1 \in DOMAIN toGreeter /\ toGreeter[1] = Head(toGreeter)
      BY <2>1, HeadAndTail DEF Pops
    <3>2. QED
      BY <2>1, <3>1 DEF ChannelInv
  <2>3. Head(toGreeter).what \in Answers
    <3>1. PICK w \in Answers, m \in BOOLEAN : Head(toGreeter) = Reply(w, m)
      BY <2>1 DEF Replies
    <3>2. QED
      BY <3>1 DEF Reply
  <2>4. Head(toGreeter).what \notin {"re-exec", "eof", "expired"}
    BY <2>3 DEF Answers
  <2>5. Head(toGreeter) # Event("expired")
    BY <1>0, <2>4 DEF Events
  <2>6. QED
    BY <1>7, <2>1, <2>2, <2>4, <2>5 DEF SkipResponse, Keeps, Passes, Step, Forms
<1>8. ASSUME NEW kind \in Kinds, Answered(kind, Answers)
      PROVE  /\ Pops /\ up /\ Head(toGreeter).mine /\ Head(toGreeter).what \in Answers /\ Answer \in Answers
             /\ Answer = Head(toGreeter).what /\ waiting.kind = kind
             /\ UNCHANGED <<up, disk, daemonVars>>
             /\ 1 \in DOMAIN toGreeter /\ toGreeter[1] = Head(toGreeter)
  <2>1. Pops /\ Head(toGreeter) \in {Reply(w, TRUE) : w \in Answers} /\ waiting.kind = kind /\ up
    BY <1>8 DEF Answered, Reads, Pops
  <2>2. 1 \in DOMAIN toGreeter /\ toGreeter[1] = Head(toGreeter)
    BY <2>1, HeadAndTail DEF Pops
  <2>3. QED
    BY <1>8, <2>1, <2>2 DEF Answered, Reply, Answer
<1>9. CASE CreateAnswered \/ (ContinueAnswered /\ Answered("continue", Answers))
  <2> DEFINE b == SetAuthState(app, FALSE)
             a == HandleAnswer(b, Answer)
  <2>1. \E kind \in {"create", "continue"} : Answered(kind, Answers)
    BY <1>9 DEF CreateAnswered
  <2>2. app' = a /\ waiting' = NotWaiting /\ UNCHANGED toDaemon
    BY <1>9 DEF CreateAnswered, ContinueAnswered, Conclude
  <2>3. /\ Pops /\ up /\ Head(toGreeter).mine /\ Head(toGreeter).what \in Answers /\ Answer \in Answers
        /\ Answer = Head(toGreeter).what /\ waiting.kind \in {"create", "continue"}
        /\ UNCHANGED <<up, disk, daemonVars>>
    BY <1>8, <2>1 DEF Kinds
  <2>4. b \in Apps /\ b.name = app.name
    BY <1>0, StateSet
  <2> HIDE DEF b
  <2>5. a \in Apps /\ (\/ Answer \in Styles \cup {"ready"} /\ a.stage = Answer /\ a.name = b.name
                       \/ Clear(a))
    BY <2>3, <2>4, AnswerHandled
  <2> HIDE DEF a
  <2>6. Concludes
    BY <2>2, <2>3, <2>4, <2>5 DEF Concludes
  <2>7. QED
    BY <2>2, <2>3, <2>5, <2>6 DEF Step, Forms
<1>10. CASE ContinueRetried
  <2>1. /\ Answered("continue", {"auth_retryable"})
        /\ waiting.user # NoUser
        /\ CreateFor(HandleAnswer(SetAuthState(app, FALSE), Answer), waiting.user)
    BY <1>10 DEF ContinueRetried
  <2> DEFINE b == HandleAnswer(SetAuthState(app, FALSE), Answer)
  <2>2. Answered("continue", Answers)
    BY <2>1 DEF Answered, Reads, Answers
  <2>3. /\ Pops /\ Head(toGreeter).mine /\ Head(toGreeter).what \in Answers /\ Answer \in Answers
        /\ Answer = Head(toGreeter).what
        /\ UNCHANGED <<up, disk, daemonVars>>
    BY <1>8, <2>2 DEF Kinds
  <2>4. Answer = "auth_retryable"
    BY <2>1, <2>3 DEF Answered, Reads, Reply
  <2>5. b \in Apps /\ Clear(b)
    <3>1. Answer \notin Styles \cup {"ready"}
      BY <2>4 DEF Styles
    <3>2. QED
      BY <1>0, <2>3, <3>1, StateSet, AnswerHandled
  <2>6. waiting.user \in AnyUser
    BY <2>1 DEF Requests, NotWaiting, Ask, AnyUser
  <2>7. app' = [SetAuthState(b, TRUE) EXCEPT !.name = waiting.user] /\ Request("create", waiting.user, NoCommand)
    BY <2>1 DEF CreateFor
  <2> HIDE DEF b
  <2>8. app' \in Apps /\ app'.stage = "name" /\ app'.name = waiting.user
    BY <2>5, <2>6, <2>7 DEF SetAuthState, Apps, Clear
  <2>9. /\ waiting' \in Requests /\ waiting'.mine /\ waiting' # NotWaiting
        /\ waiting'.kind = "create" /\ waiting'.user = waiting.user
        /\ toDaemon' = Append(toDaemon, waiting')
    <3>1. NoCommand \in AnyCommand /\ "create" \in Kinds
      BY DEF AnyCommand, Kinds
    <3>2. QED
      BY <2>6, <2>7, <3>1, Requested
  <2>10. QED
    BY <2>3, <2>8, <2>9 DEF Retries, Step, Forms
<1>11. CASE CancelAnswered
  <2>1. Answered("cancel", Answers) /\ app' = ResetAuthFlow(app) /\ waiting' = NotWaiting /\ UNCHANGED toDaemon
    BY <1>11 DEF CancelAnswered, Conclude
  <2>2. app' \in Apps /\ Clear(app')
    BY <1>0, <2>1, Resets
  <2>3. QED
    BY <1>8, <2>1, <2>2 DEF Concludes, Step, Forms, Kinds
<1>12. CASE StartAnswered
  <2> DEFINE b == [app EXCEPT !.last = [user |-> app.name, command |-> waiting.command]]
  <2>1. /\ Answered("start", Answers) /\ waiting' = NotWaiting /\ UNCHANGED toDaemon
        /\ app' = IF Answer = "ok" THEN SetEntry(b, NoUser) ELSE SetAuthState(app, FALSE)
    BY <1>12 DEF StartAnswered, Conclude
  <2>2. Answer = "ok" /\ waiting.kind = "start"
    BY <1>8, <2>1 DEF Kinds, StartInv
  <2>3. b \in Apps /\ SameScreen(app, b)
    <3>1. waiting.command \in AnyCommand
      BY DEF Requests, NotWaiting, Ask, AnyCommand
    <3>2. QED
      BY <1>0, <3>1 DEF Apps, SameScreen, Session
  <2> HIDE DEF b
  <2>4. app' \in Apps /\ SameScreen(b, app')
    BY <2>1, <2>2, <2>3, EntrySet DEF AnyUser
  <2>5. QED
    BY <1>8, <2>1, <2>2, <2>3, <2>4 DEF SameScreen, Keeps, Concludes, Step, Forms, Kinds
<1>13. CASE PowerAnswered
  <2>1. Answered("power", Answers) /\ app' = app /\ waiting' = NotWaiting /\ UNCHANGED toDaemon
    BY <1>13 DEF PowerAnswered, Conclude
  <2>2. QED
    BY <1>8, <2>1 DEF Keeps, Concludes, Step, Forms, Kinds
<1>14. QED
  BY <1>1, <1>2, <1>3, <1>4, <1>5, <1>6, <1>7, <1>9, <1>10, <1>11, <1>12, <1>13
  DEF GreeterReads, ContinueAnswered

LEMMA ServeSteps ==
    ASSUME LoginInvariant, DaemonServes
    PROVE  Step /\ Forms'
<1> USE DEF LoginInvariant, Shaped
<1> USE DEF LeaveGreeter, greeterVars, LeaveSessions
<1> DEFINE head == Head(toDaemon)
           Attempts == [state : {"none", "asking", "warned", "ready"}, user : AnyUser, style : Styles]
<1>0. toDaemon # <<>> => head \in Requests /\ head.mine \in BOOLEAN /\ head.user \in AnyUser
                         /\ head.command \in AnyCommand
  <2>1. toDaemon # <<>> => head \in Requests
    BY HeadAndTail
  <2>2. QED
    BY <2>1 DEF Requests
<1>1. ASSUME NEW w \in Answers, toDaemon # <<>>
      PROVE  Respond(w) \in Replied
  BY <1>0, <1>1, Values DEF Respond
<1>2. ASSUME NEW kind, Serving({kind}), NEW w \in Answers
      PROVE  /\ Serves(w) /\ head.kind = kind /\ launching.stage = "no" /\ ~Closed
             /\ UNCHANGED <<app, waiting, up, disk>>
  BY <1>2 DEF Serving, Serves
<1>3. ASSUME NEW w, Send(<<Respond(w)>>), w \in Answers, toDaemon # <<>>, ~Closed
      PROVE  Writes(w) /\ MayWrite(w)
  <2>1. toGreeter \o <<Respond(w)>> = Append(toGreeter, Respond(w))
    BY <1>1, <1>3, Pushed DEF Replied
  <2>2. QED
    BY <1>3, <2>1 DEF Send, Writes, MayWrite
<1>4. Answers = {"ok", "input", "note", "ready", "auth_failed", "auth_retryable", "refused"}
      /\ Styles = {"input", "note"}
  BY DEF Answers, Styles
<1>p. ASSUME NEW w, PassOn(w), w \in Answers, toDaemon # <<>>, ~Closed
      PROVE  MayWrite(w)
  BY <1>3, <1>p DEF PassOn, MayWrite
<1>5. ASSUME NEW u \in AnyUser, WorkerSays(u), toDaemon # <<>>, ~Closed
      PROVE  auth' \in Attempts /\ \E w \in Answers : MayWrite(w) /\ Attempted(u, w)
  <2>1. CASE \E style \in Styles :
                 /\ auth' = [state |-> "asking", user |-> u, style |-> style]
                 /\ PassOn(style)
    BY <1>p, <1>4, <1>5, <2>1 DEF Attempted
  <2>2. CASE auth' = Ready(u) /\ Send(<<Respond("ready")>>)
    BY <1>3, <1>4, <1>5, <2>2 DEF Attempted, Ready
  <2>3. CASE auth' = NoAttempt /\ (PassOn("auth_failed") \/ Send(<<Respond("auth_retryable")>>))
    BY <1>p, <1>3, <1>4, <1>5, <2>3, Values DEF Attempted
  <2>4. QED
    BY <1>5, <2>1, <2>2, <2>3 DEF WorkerSays
<1>6. CASE ServeCreate
  <2>1. Serving({"create"}) /\ WorkerSays(head.user) /\ LeaveSessions /\ toDaemon # <<>> /\ ~Closed
    BY <1>6 DEF ServeCreate, Serving
  <2>2. auth' \in Attempts /\ \E w \in Answers : MayWrite(w) /\ Attempted(head.user, w)
    BY <1>0, <1>5, <2>1
  <2>3. QED
    BY <1>2, <2>1, <2>2 DEF Decides, Step, Forms
<1>7. CASE ServeContinue
  <2>1. /\ Serving({"continue"}) /\ LeaveSessions /\ toDaemon # <<>> /\ ~Closed
        /\ \/ Pending /\ WorkerSays(auth.user)
           \/ ~Pending /\ Send(<<Respond("refused")>>) /\ UNCHANGED auth
    BY <1>7 DEF ServeContinue, Serving
  <2>2. CASE Pending /\ WorkerSays(auth.user)
    <3>1. auth' \in Attempts /\ \E w \in Answers : MayWrite(w) /\ Attempted(auth.user, w)
      BY <1>5, <2>1, <2>2
    <3>2. QED
      BY <1>2, <2>1, <2>2, <3>1 DEF Decides, Step, Forms
  <2>3. CASE ~Pending /\ Send(<<Respond("refused")>>) /\ UNCHANGED auth
    <3>1. MayWrite("refused")
      BY <1>3, <1>4, <2>1, <2>3
    <3>2. QED
      BY <1>2, <1>4, <2>1, <2>3, <3>1 DEF Decides, Step, Forms
  <2>4. QED
    BY <2>1, <2>2, <2>3
<1>8. CASE ServeCancel
  <2>1. Serving({"cancel"}) /\ LeaveSessions /\ toDaemon # <<>> /\ ~Closed
        /\ auth' = NoAttempt /\ MayWrite("ok")
    BY <1>3, <1>4, <1>8 DEF ServeCancel, Serving
  <2>2. QED
    BY <1>2, <1>4, <2>1, Values DEF Decides, Step, Forms
<1>9. CASE ServeStart /\ auth.state = "ready"
  <2>1. /\ Serving({"start"}) /\ toDaemon # <<>> /\ ~Closed
        /\ Send(<<Respond("ok"), Event("starting")>>)
        /\ launching' = [stage |-> "spawn", session |-> [user |-> auth.user, command |-> head.command]]
        /\ auth' = NoAttempt
    BY <1>9 DEF ServeStart, Serving
  <2>2. toGreeter \o <<Respond("ok"), Event("starting")>>
            = Append(Append(toGreeter, Respond("ok")), Event("starting"))
    <3>1. Event("starting") \in Replied
      BY Values DEF Events
    <3>2. Respond("ok") \in Replied /\ toGreeter \in Seq(Replied)
      BY <1>1, <1>4, <2>1 DEF Replied
    <3>3. QED
      BY <3>1, <3>2, Pushed
  <2>3. /\ launching' \in [stage : {"no", "spawn", "announce"}, session : Session]
        /\ launching'.stage = "spawn"
    BY <1>0, <2>1 DEF Session
  <2>4. Starts
    BY <1>2, <1>4, <1>9, <2>1, <2>2, <2>3 DEF Starts, Send
  <2>5. QED
    BY <1>2, <1>4, <2>1, <2>3, <2>4, Values DEF Step, Forms
<1>10. CASE ServeStart /\ auth.state # "ready"
  <2>1. /\ Serving({"start"}) /\ toDaemon # <<>> /\ ~Closed
        /\ Send(<<Respond("refused")>>) /\ UNCHANGED <<auth, launching>>
    BY <1>10 DEF ServeStart, Serving
  <2>2. Writes("refused")
    BY <1>3, <1>4, <2>1
  <2>3. QED
    BY <1>2, <1>4, <1>10, <2>1, <2>2 DEF Declines, Step, Forms
<1>11. CASE ServePower
  <2>1. /\ Serving({"power"}) /\ toDaemon # <<>> /\ ~Closed
        /\ UNCHANGED <<auth, launching>>
    BY <1>11 DEF ServePower, Serving
  <2>2. PICK w \in {"ok", "refused"} : Send(<<Respond(w)>>)
    BY <1>11 DEF ServePower
  <2>3. w \in Answers /\ Writes(w)
    BY <1>3, <1>4, <2>1, <2>2
  <2>4. QED
    BY <1>2, <2>1, <2>3 DEF Declines, Step, Forms
<1>12. QED
  BY <1>6, <1>7, <1>8, <1>9, <1>10, <1>11 DEF DaemonServes

LEMMA OtherSteps ==
    ASSUME LoginInvariant,
           \/ Timer \/ Launch \/ Dies \/ Restart \/ HangUp
           \/ \E s \in Session, failed \in BOOLEAN : SessionEnds(s, failed)
    PROVE  Step /\ Forms'
<1> USE DEF LoginInvariant, Shaped
<1> USE DEF LeaveGreeter, greeterVars, LeaveSessions
<1>1. ASSUME NEW e \in Events, Send(<<Event(e)>>)
      PROVE  toGreeter' = IF Joined THEN Append(toGreeter, Event(e)) ELSE toGreeter
  <2>1. toGreeter \o <<Event(e)>> = Append(toGreeter, Event(e))
    BY Values, Pushed DEF Replied
  <2>2. QED
    BY <1>1, <2>1 DEF Send, Joined
<1>2. Events = {"starting", "re-exec", "warned", "expired", "finished", "failed", "eof"}
  BY DEF Events
<1>3. CASE TimerWarns
  <2>1. Pending /\ auth' = [auth EXCEPT !.state = "warned"]
    BY <1>3 DEF TimerWarns, Pending
  <2>2. toGreeter' = IF Joined THEN Append(toGreeter, Event("warned")) ELSE toGreeter
    BY <1>1, <1>2, <1>3 DEF TimerWarns
  <2>3. Announces
    BY <1>2, <1>3, <2>1, <2>2 DEF TimerWarns, Announces
  <2>4. QED
    BY <1>3, <2>1, <2>3 DEF TimerWarns, Step, Forms
<1>4. CASE TimerExpires
  <2>1. Pending /\ auth' = NoAttempt
    BY <1>4 DEF TimerExpires, Pending
  <2>2. toGreeter' = IF Joined THEN Append(toGreeter, Event("expired")) ELSE toGreeter
    BY <1>1, <1>2, <1>4 DEF TimerExpires
  <2>3. Announces
    BY <1>2, <1>4, <2>1, <2>2 DEF TimerExpires, Announces
  <2>4. QED
    BY <1>4, <2>1, <2>3, Values DEF TimerExpires, Step, Forms
<1>5. CASE SpawnSession
  <2>1. /\ launching' \in [stage : {"no", "spawn", "announce"}, session : Session]
        /\ launching'.stage = "announce"
    BY <1>5 DEF SpawnSession
  <2>2. QED
    BY <1>5, <2>1 DEF SpawnSession, Spawns, Step, Forms
<1>6. CASE SendReexec
  <2>1. toGreeter' = IF Joined THEN Append(toGreeter, Event("re-exec")) ELSE toGreeter
    BY <1>1, <1>2, <1>6 DEF SendReexec
  <2>2. QED
    BY <1>2, <1>6, <2>1, Values DEF SendReexec, Announces, Step, Forms
<1>7. ASSUME NEW s \in Session, NEW failed \in BOOLEAN, SessionEnds(s, failed) PROVE Step /\ Forms'
  <2> DEFINE e == IF failed THEN "failed" ELSE "finished"
  <2>1. e \in Events \ {"eof"} /\ e # "expired"
    BY <1>2
  <2>2. Send(<<Event(e)>>)
    BY <1>7 DEF SessionEnds
  <2> HIDE DEF e
  <2>3. toGreeter' = IF Joined THEN Append(toGreeter, Event(e)) ELSE toGreeter
    BY <1>1, <2>1, <2>2
  <2>4. QED
    BY <1>7, <2>1, <2>3 DEF SessionEnds, Announces, Step, Forms
<1>8. CASE Dies
  BY <1>8 DEF Dies, Quits, Step, Forms, daemonVars
<1>9. CASE Restart
  <2>1. \E frontend \in {"gtk", "curses"} : app' = Boot(frontend, disk)
    BY <1>9 DEF Restart, Apps
  <2>2. app' \in Apps /\ Clear(app')
    BY <2>1, Boots
  <2>3. QED
    BY <1>9, <2>2, Values DEF Restart, Restarts, Step, Forms
<1>10. CASE HangUp
  <2>1. toGreeter' = Append(toGreeter, Event("eof"))
    BY <1>1, <1>2, <1>10 DEF HangUp, Joined
  <2>2. QED
    BY <1>10, <2>1, Values DEF HangUp, HangsUp, Step, Forms
<1>11. QED
  BY <1>3, <1>4, <1>5, <1>6, <1>7, <1>8, <1>9, <1>10 DEF Timer, Launch

LEMMA OneStep ==
    ASSUME LoginInvariant, Next
    PROVE  Step /\ Forms'
BY UserSteps, ReadSteps, ServeSteps, OtherSteps DEF Next

-----------------------------------------------------------------------------
(* Types. *)

LEMMA Disowned ==
    ASSUME NEW q, q \in Seq(Requests) \/ q \in Seq(Replied)
    PROVE  /\ q \in Seq(Requests) => Disown(q) \in Seq(Requests)
           /\ q \in Seq(Replied) => Disown(q) \in Seq(Replied)
           /\ DOMAIN Disown(q) = DOMAIN q /\ Len(Disown(q)) = Len(q)
           /\ \A i \in DOMAIN q : Disown(q)[i] = [q[i] EXCEPT !.mine = FALSE]
           /\ \A i \in DOMAIN q : ~Disown(q)[i].mine
<1>1. \A r \in Requests : [r EXCEPT !.mine = FALSE] \in Requests /\ ~[r EXCEPT !.mine = FALSE].mine
  BY DEF Requests
<1>2. \A r \in Replied : [r EXCEPT !.mine = FALSE] \in Replied /\ ~[r EXCEPT !.mine = FALSE].mine
  BY DEF Replied
<1>3. DOMAIN q = 1..Len(q) /\ Len(q) \in Nat
  OBVIOUS
<1>4. q \in Seq(Requests) => \A i \in 1..Len(q) : q[i] \in Requests
  OBVIOUS
<1>5. q \in Seq(Replied) => \A i \in 1..Len(q) : q[i] \in Replied
  OBVIOUS
<1>6. Disown(q) = [i \in 1..Len(q) |-> [q[i] EXCEPT !.mine = FALSE]]
  BY <1>3 DEF Disown
<1>7. q \in Seq(Requests) => Disown(q) \in Seq(Requests)
  BY <1>1, <1>3, <1>4, <1>6
<1>8. q \in Seq(Replied) => Disown(q) \in Seq(Replied)
  BY <1>2, <1>3, <1>5, <1>6
<1>9. ASSUME NEW i \in DOMAIN q PROVE ~Disown(q)[i].mine
  <2>1. Disown(q)[i] = [q[i] EXCEPT !.mine = FALSE] /\ q[i] \in Requests \cup Replied
    BY <1>3, <1>4, <1>5, <1>6
  <2>2. QED
    BY <1>1, <1>2, <2>1
<1>10. Len(Disown(q)) = Len(q)
  BY <1>3, <1>6, <1>7, <1>8
<1>11. QED
  BY <1>3, <1>6, <1>7, <1>8, <1>9, <1>10

\* What the queues hold.
Queues == toDaemon \in Seq(Requests) /\ toGreeter \in Seq(Replied) /\ waiting \in Requests \cup {NotWaiting}

LEMMA QueuesHold == LoginInvariant => Queues
BY DEF LoginInvariant, Shaped, Queues, Replied

LEMMA Responds ==
    ASSUME Queues, toDaemon # <<>>, NEW w \in Answers
    PROVE  Respond(w) \in Replied /\ Respond(w).what = w /\ Respond(w).mine = Head(toDaemon).mine
<1>1. Head(toDaemon) \in Requests
  BY HeadAndTail DEF Queues
<1>3. Head(toDaemon).mine \in BOOLEAN
  BY <1>1 DEF Requests
<1>2. QED
  BY <1>3 DEF Respond, Reply, Replied

LEMMA QueuesKept ==
    ASSUME LoginInvariant, Step
    PROVE  Queues'
<1> USE DEF Queues
<1>0. Queues
  BY QueuesHold
<1>1. CASE Edits \/ Quits \/ Spawns
  BY <1>0, <1>1 DEF Edits, Quits, Spawns
<1>2. CASE Asks
  BY <1>0, <1>2, Appended DEF Asks
<1>3. CASE Passes \/ Concludes
  BY <1>0, <1>3, HeadAndTail DEF Passes, Concludes, Pops
<1>4. CASE Reexecs
  <2>1. Tail(toGreeter) \in Seq(Replied)
    BY <1>0, <1>4, HeadAndTail DEF Reexecs
  <2>2. QED
    BY <1>0, <1>4, <2>1, Disowned DEF Reexecs
<1>5. CASE Retries
  BY <1>0, <1>5, HeadAndTail, Appended DEF Retries, Pops
<1>6. CASE Restarts
  BY <1>0, <1>6 DEF Restarts
<1>7. ASSUME NEW w \in Answers, Serves(w) PROVE toDaemon' \in Seq(Requests) /\ UNCHANGED waiting
  BY <1>0, <1>7, HeadAndTail DEF Serves
<1>8. ASSUME NEW w \in Answers, Serves(w), MayWrite(w) PROVE toGreeter' \in Seq(Replied)
  <2>1. CASE Writes(w)
    BY <1>0, <1>8, <2>1, Responds, Appended DEF Serves, Writes
  <2>2. QED
    BY <1>0, <1>8, <2>1 DEF MayWrite
<1>9. CASE Decides \/ Declines
  BY <1>0, <1>7, <1>8, <1>9 DEF Decides, Declines, MayWrite
<1>10. CASE Starts
  <2>1. Serves("ok") /\ "ok" \in Answers /\ toDaemon # <<>>
    BY <1>10 DEF Starts, Serves
  <2>2. Respond("ok") \in Replied /\ Event("starting") \in Replied
    BY <1>0, <2>1, Responds, Values DEF Events
  <2>3. Append(Append(toGreeter, Respond("ok")), Event("starting")) \in Seq(Replied)
    BY <1>0, <2>2, Appended
  <2>4. QED
    BY <1>0, <1>7, <1>10, <2>1, <2>3 DEF Starts
<1>11. CASE Announces \/ HangsUp
  <2>1. \A e \in Events : Append(toGreeter, Event(e)) \in Seq(Replied)
    BY <1>0, Values, Appended
  <2>2. "eof" \in Events
    BY DEF Events
  <2>3. QED
    BY <1>0, <1>11, <2>1, <2>2 DEF Announces, HangsUp
<1>12. QED
  BY <1>1, <1>2, <1>3, <1>4, <1>5, <1>6, <1>9, <1>10, <1>11 DEF Step

LEMMA ShapeKept ==
    ASSUME LoginInvariant, Step, Forms'
    PROVE  Shaped'
BY QueuesKept DEF Shaped, Queues, Forms, Replied

\* The front end stays with the daemon only if it was.
LEMMA JoinedBack ==
    ASSUME LoginInvariant, Step, Joined'
    PROVE  Joined \/ Restarts
<1>0. Queues /\ Queues'
  BY QueuesHold, QueuesKept
<1>1. Closed' <=> \E i \in DOMAIN toGreeter' : toGreeter'[i] = Event("eof")
  BY DEF Closed, ToSet
<1>2. up' /\ \A i \in DOMAIN toGreeter' : toGreeter'[i] # Event("eof")
  BY <1>1 DEF Joined
<1>3. Event("eof").mine = FALSE /\ Event("eof").what = "eof" /\ Event("eof") \in Replied
  BY Values DEF Events
<1>4. ASSUME NEW x \in Replied, toGreeter' = Append(toGreeter, x)
      PROVE  ~Closed
  BY <1>0, <1>2, <1>4, Appended, ClosedDef DEF Queues
<1>5. ASSUME Pops, Head(toGreeter).what # "eof"
      PROVE  ~Closed
  <2>1. ASSUME NEW i \in DOMAIN toGreeter, toGreeter[i] = Event("eof") PROVE FALSE
    <3>1. toGreeter # <<>> /\ toGreeter' = Tail(toGreeter) /\ toGreeter \in Seq(Replied)
      BY <1>0, <1>5 DEF Pops, Queues
    <3>2. i # 1
      BY <1>3, <1>5, <2>1, <3>1, HeadAndTail
    <3>3. i - 1 \in DOMAIN toGreeter' /\ toGreeter'[i - 1] = Event("eof")
      BY <2>1, <3>1, <3>2, HeadAndTail
    <3>4. QED
      BY <1>2, <3>3
  <2>2. QED
    BY <2>1, ClosedDef
<1>6. CASE Edits \/ Asks \/ Spawns
  BY <1>2, <1>6, ClosedDef DEF Edits, Asks, Spawns, Joined
<1>7. CASE Passes \/ Concludes
  BY <1>2, <1>5, <1>7 DEF Passes, Concludes, Joined, Answers
<1>8. CASE Reexecs
  <2>1. Tail(toGreeter) \in Seq(Replied)
    BY <1>0, <1>8, HeadAndTail DEF Reexecs, Queues
  <2>2. ASSUME NEW i \in DOMAIN toGreeter, toGreeter[i] = Event("eof") PROVE FALSE
    <3>1. i # 1
      BY <1>0, <1>3, <1>8, <2>2, HeadAndTail, Values DEF Reexecs, Queues, Events
    <3>2. i - 1 \in DOMAIN Tail(toGreeter) /\ Tail(toGreeter)[i - 1] = Event("eof")
      BY <1>0, <1>8, <2>2, <3>1, HeadAndTail DEF Reexecs, Queues
    <3>3. i - 1 \in DOMAIN toGreeter' /\ toGreeter'[i - 1] = [Event("eof") EXCEPT !.mine = FALSE]
      <4>1. toGreeter' = Disown(Tail(toGreeter))
        BY <1>8 DEF Reexecs
      <4>2. /\ i - 1 \in DOMAIN Disown(Tail(toGreeter))
            /\ Disown(Tail(toGreeter))[i - 1] = [Tail(toGreeter)[i - 1] EXCEPT !.mine = FALSE]
        BY <2>1, <3>2, Disowned
      <4>3. QED
        BY <3>2, <4>1, <4>2
    <3>4. [Event("eof") EXCEPT !.mine = FALSE] = Event("eof")
      <4>1. \A r \in Replied : r = Event("eof") => r.mine = FALSE
        BY <1>3
      <4>2. \A r \in Replied : r.mine = FALSE => [r EXCEPT !.mine = FALSE] = r
        BY DEF Replied
      <4>3. QED
        BY <1>3, <4>1, <4>2
    <3>5. QED
      BY <1>2, <3>3, <3>4
  <2>3. QED
    BY <1>2, <1>8, <2>2, ClosedDef DEF Reexecs, Joined
<1>9. CASE Quits
  BY <1>2, <1>9 DEF Quits
<1>10. CASE Retries
  BY <1>2, <1>5, <1>10 DEF Retries, Joined, Answers
<1>11. CASE Restarts
  BY <1>11
<1>12. CASE Decides \/ Starts \/ Declines
  BY <1>2, <1>12 DEF Decides, Starts, Declines, Serves, Joined
<1>13. CASE Announces
  <2>1. ASSUME NEW e \in Events, toGreeter' = (IF Joined THEN Append(toGreeter, Event(e)) ELSE toGreeter), UNCHANGED up
        PROVE  Joined
    BY <1>2, <2>1, ClosedDef DEF Joined
  <2>2. QED
    BY <1>13, <2>1 DEF Announces
<1>14. CASE HangsUp
  <2>1. Len(toGreeter) + 1 \in DOMAIN toGreeter' /\ toGreeter'[Len(toGreeter) + 1] = Event("eof")
    BY <1>0, <1>3, <1>14, Appended DEF HangsUp, Queues
  <2>2. QED
    BY <1>2, <2>1
<1>15. QED
  BY <1>6, <1>7, <1>8, <1>9, <1>10, <1>11, <1>12, <1>13, <1>14 DEF Step

-----------------------------------------------------------------------------
(* The queues. *)

Unowned(q) == \A i \in DOMAIN q : ~q[i].mine

\* Nothing is the front end's own while it waits for nothing.
LEMMA NoneOwn ==
    ASSUME Queues, ChannelInv, waiting = NotWaiting
    PROVE  Unowned(toDaemon) /\ Unowned(toGreeter)
<1>1. \A i \in DOMAIN toDaemon : toDaemon[i] \in Requests
  BY DEF Queues
<1>2. QED
  BY <1>1, Values DEF ChannelInv, Unowned

\* No response to a request comes before it was served.
LEMMA Unanswered ==
    ASSUME Queues, ChannelInv, toDaemon # <<>>
    PROVE  Unowned(toGreeter)
BY DEF ChannelInv, Unowned

\* The front end's own request is the last, and known.
LEMMA OwnLast ==
    ASSUME Queues, ChannelInv, toDaemon # <<>>, Head(toDaemon).mine
    PROVE  /\ Len(toDaemon) = 1 /\ Tail(toDaemon) = <<>>
           /\ waiting = Head(toDaemon) /\ waiting # NotWaiting
<1>1. /\ toDaemon \in Seq(Requests) /\ Tail(toDaemon) \in Seq(Requests)
      /\ 1 \in DOMAIN toDaemon /\ toDaemon[1] = Head(toDaemon) /\ Head(toDaemon) \in Requests
      /\ Len(Tail(toDaemon)) = Len(toDaemon) - 1
  BY HeadAndTail DEF Queues
<1>2. Len(toDaemon) = 1 /\ waiting = Head(toDaemon)
  BY <1>1 DEF ChannelInv
<1>3. ASSUME Tail(toDaemon) # <<>> PROVE FALSE
  <2>1. 1 \in DOMAIN Tail(toDaemon)
    BY <1>1, <1>3, HeadAndTail
  <2>2. 1 + 1 \in DOMAIN toDaemon
    BY <1>1, <1>3, <2>1, HeadAndTail
  <2>3. DOMAIN toDaemon = 1..1
    BY <1>1, <1>2
  <2>4. QED
    BY <2>2, <2>3
<1>4. QED
  BY <1>1, <1>2, <1>3, Values

LEMMA StaleHead ==
    ASSUME Queues, toDaemon # <<>>, ~Head(toDaemon).mine
    PROVE  Stale
BY HeadAndTail DEF Queues, Stale

\* What was popped leaves the rest as it was.
LEMMA Rest ==
    ASSUME Queues, Pops
    PROVE  /\ Head(toGreeter) \in Replied /\ 1 \in DOMAIN toGreeter /\ toGreeter[1] = Head(toGreeter)
           /\ \A i \in DOMAIN toGreeter' : i \in Nat /\ i + 1 \in DOMAIN toGreeter /\ i + 1 # 1
                                           /\ toGreeter'[i] = toGreeter[i + 1]
           /\ \A i \in DOMAIN toGreeter : i \in Nat /\ (i # 1 => /\ i - 1 \in DOMAIN toGreeter'
                                                           /\ toGreeter'[i - 1] = toGreeter[i])
BY HeadAndTail DEF Queues, Pops

LEMMA RestServed ==
    ASSUME Queues, toDaemon # <<>>, toDaemon' = Tail(toDaemon)
    PROVE  /\ Head(toDaemon) \in Requests /\ 1 \in DOMAIN toDaemon /\ toDaemon[1] = Head(toDaemon)
           /\ Len(toDaemon') = Len(toDaemon) - 1 /\ Len(toDaemon) \in Nat
           /\ \A i \in DOMAIN toDaemon' : i \in Nat /\ i + 1 \in DOMAIN toDaemon /\ i + 1 # 1
                                          /\ toDaemon'[i] = toDaemon[i + 1]
           /\ \A i \in DOMAIN toDaemon : i \in Nat /\ (i # 1 => /\ i - 1 \in DOMAIN toDaemon'
                                                          /\ toDaemon'[i - 1] = toDaemon[i])
BY HeadAndTail DEF Queues

\* Once its response is read, nothing else is the front end's own.
LEMMA AllRead ==
    ASSUME Queues, ChannelInv, Pops, Head(toGreeter).mine
    PROVE  toDaemon = <<>> /\ Unowned(toGreeter') /\ waiting # NotWaiting
<1>1. 1 \in DOMAIN toGreeter /\ toGreeter[1].mine
  BY Rest
<1>2. toDaemon = <<>> /\ waiting # NotWaiting
  BY <1>1 DEF ChannelInv
<1>3. ASSUME NEW i \in DOMAIN toGreeter', toGreeter'[i].mine PROVE FALSE
  <2>1. i + 1 \in DOMAIN toGreeter /\ toGreeter[i + 1].mine /\ i + 1 # 1
    BY <1>3, Rest
  <2>2. QED
    BY <1>1, <2>1 DEF ChannelInv
<1>4. QED
  BY <1>2, <1>3 DEF Unowned

\* What was queued stays, and what is new is x.
Gains(q, r, x) ==
    /\ \A i \in DOMAIN q : i \in DOMAIN r /\ r[i] = q[i]
    /\ \A i \in DOMAIN r : (i \in DOMAIN q /\ r[i] = q[i]) \/ r[i] = x
    /\ \E i \in DOMAIN r : r[i] = x /\ i \notin DOMAIN q /\ \A j \in DOMAIN q : i > j

LEMMA Gained ==
    ASSUME NEW S, NEW q \in Seq(S), NEW x \in S
    PROVE  Gains(q, Append(q, x), x)
BY Appended DEF Gains

LEMMA OneAsked ==
    ASSUME NEW r \in Requests
    PROVE  /\ Append(<<>>, r) = <<r>> /\ DOMAIN <<r>> = {1} /\ <<r>>[1] = r /\ Len(<<r>>) = 1
OBVIOUS

\* A request served is answered w, if at all, behind what the front end was told before.
Told(w) ==
    /\ \A i \in DOMAIN toGreeter : i \in DOMAIN toGreeter' /\ toGreeter'[i] = toGreeter[i]
    /\ \A i \in DOMAIN toGreeter' :
          toGreeter'[i].mine => toGreeter'[i].what = w /\ Head(toDaemon).mine
    /\ \A i, j \in DOMAIN toGreeter' : toGreeter'[i].mine /\ toGreeter'[j].mine => i = j

LEMMA Tells ==
    ASSUME Queues, ChannelInv, NEW w \in Answers, Serves(w), MayWrite(w)
    PROVE  Told(w)
<1>1. toDaemon # <<>> /\ toGreeter \in Seq(Replied)
  BY DEF Serves, Queues
<1>2. /\ Respond(w) \in Replied /\ Respond(w).what = w /\ Respond(w).mine = Head(toDaemon).mine
      /\ Unowned(toGreeter)
  BY <1>1, Responds, Unanswered
<1> DEFINE r == Respond(w)
<1> HIDE DEF r
<1>3. CASE up /\ Writes(w)
  <2>1. toGreeter' = Append(toGreeter, r)
    BY <1>3 DEF Writes, r
  <2>2. /\ \A i \in DOMAIN toGreeter : i \in DOMAIN toGreeter' /\ toGreeter'[i] = toGreeter[i]
        /\ \A i \in DOMAIN toGreeter' : (i \in DOMAIN toGreeter /\ toGreeter'[i] = toGreeter[i])
                                        \/ (i = Len(toGreeter) + 1 /\ toGreeter'[i] = r)
        /\ Len(toGreeter) + 1 \in DOMAIN toGreeter' /\ toGreeter'[Len(toGreeter) + 1] = r
    BY <1>1, <1>2, <2>1, Appended DEF r
  <2>3. r.what = w /\ r.mine = Head(toDaemon).mine
    BY <1>2 DEF r
  <2>4. QED
    BY <1>2, <2>2, <2>3 DEF Told, Unowned
<1>4. CASE UNCHANGED toGreeter
  BY <1>2, <1>4 DEF Told, Unowned
<1>5. QED
  BY <1>3, <1>4 DEF MayWrite, Writes

LEMMA TellsStart ==
    ASSUME Queues, ChannelInv, Starts
    PROVE  Told("ok")
<1>1. toDaemon # <<>> /\ toGreeter \in Seq(Replied) /\ "ok" \in Answers /\ "starting" \in Events
  BY DEF Starts, Serves, Queues, Events
<1>2. /\ Respond("ok") \in Replied /\ Respond("ok").what = "ok" /\ Respond("ok").mine = Head(toDaemon).mine
      /\ Event("starting") \in Replied /\ ~Event("starting").mine /\ Unowned(toGreeter)
  BY <1>1, Responds, Unanswered, Values
<1> DEFINE r == Respond("ok")
           e == Event("starting")
           q == Append(toGreeter, r)
<1> HIDE DEF r, e
<1>3. CASE up
  <2>1. toGreeter' = Append(q, e)
    BY <1>3 DEF Starts, r, e
  <2>2. /\ q \in Seq(Replied)
        /\ \A i \in DOMAIN toGreeter : i \in DOMAIN q /\ q[i] = toGreeter[i]
        /\ \A i \in DOMAIN q : (i \in DOMAIN toGreeter /\ q[i] = toGreeter[i])
                                        \/ (i = Len(toGreeter) + 1 /\ q[i] = r)
        /\ Len(toGreeter) + 1 \in DOMAIN q /\ q[Len(toGreeter) + 1] = r
    BY <1>1, <1>2, Appended DEF r
  <2> HIDE DEF q
  <2>3. /\ \A i \in DOMAIN q : i \in DOMAIN toGreeter' /\ toGreeter'[i] = q[i]
        /\ \A i \in DOMAIN toGreeter' : (i \in DOMAIN q /\ toGreeter'[i] = q[i])
                                        \/ (i = Len(q) + 1 /\ toGreeter'[i] = e)
    BY <1>2, <2>1, <2>2, Appended DEF e
  <2>4. r.what = "ok" /\ r.mine = Head(toDaemon).mine /\ ~e.mine
    BY <1>2 DEF r, e
  <2>5. QED
    BY <1>2, <2>2, <2>3, <2>4 DEF Told, Unowned
<1>4. CASE ~up
  BY <1>2, <1>4 DEF Starts, Told, Unowned
<1>5. QED
  BY <1>3, <1>4

\* What is added is an event.
Adds ==
    /\ \A i \in DOMAIN toGreeter : i \in DOMAIN toGreeter' /\ toGreeter'[i] = toGreeter[i]
    /\ \A i \in DOMAIN toGreeter' :
          toGreeter'[i].mine => i \in DOMAIN toGreeter /\ toGreeter'[i] = toGreeter[i]

LEMMA Added ==
    ASSUME Queues, Announces \/ HangsUp
    PROVE  Adds
<1>1. toGreeter \in Seq(Replied) /\ "eof" \in Events
  BY DEF Queues, Events
<1>2. ASSUME NEW e \in Events, toGreeter' = Append(toGreeter, Event(e)) PROVE Adds
  <2>1. Event(e) \in Replied /\ ~Event(e).mine
    BY Values
  <2> DEFINE x == Event(e)
  <2> HIDE DEF x
  <2>2. toGreeter' = Append(toGreeter, x) /\ x \in Replied /\ ~x.mine
    BY <1>2, <2>1 DEF x
  <2>3. QED
    BY <1>1, <2>2, Appended DEF Adds
<1>3. QED
  BY <1>1, <1>2 DEF Announces, HangsUp, Adds

\* The request the daemon takes, and what it says.
LEMMA Handled ==
    ASSUME Queues, ChannelInv, Decides \/ Starts \/ Declines
    PROVE  \E w \in Answers : Serves(w) /\ Told(w)
BY Tells, TellsStart DEF Decides, Starts, Declines, Serves, MayWrite

LEMMA ChannelKept ==
    ASSUME LoginInvariant, Step
    PROVE  ChannelInv'
<1>0. Queues /\ Queues' /\ ChannelInv
  BY QueuesHold, QueuesKept DEF LoginInvariant
<1>1. CASE Edits \/ Quits \/ Spawns
  BY <1>0, <1>1 DEF Edits, Quits, Spawns, ChannelInv
<1>2. CASE Asks
  <2>1. Unowned(toDaemon) /\ Unowned(toGreeter)
    BY <1>0, <1>2, NoneOwn DEF Asks
  <2>2. UNCHANGED toGreeter /\ waiting' \in Requests /\ toDaemon' = Append(toDaemon, waiting')
        /\ toDaemon \in Seq(Requests)
    BY <1>0, <1>2 DEF Asks, Queues
  <2>3. \A i \in DOMAIN toDaemon' : toDaemon'[i].mine => i = Len(toDaemon') /\ toDaemon'[i] = waiting'
    BY <2>1, <2>2, Appended DEF Unowned
  <2>4. QED
    BY <2>1, <2>2, <2>3 DEF ChannelInv, Unowned
<1>3. CASE Passes
  <2>1. Pops /\ UNCHANGED <<waiting, toDaemon>>
    BY <1>3 DEF Passes
  <2>2. ASSUME NEW i \in DOMAIN toGreeter', toGreeter'[i].mine
        PROVE  toGreeter'[i].what \in Answers /\ toDaemon = <<>> /\ waiting # NotWaiting
    BY <1>0, <2>1, <2>2, Rest DEF ChannelInv
  <2>3. ASSUME NEW i \in DOMAIN toGreeter', NEW j \in DOMAIN toGreeter',
               toGreeter'[i].mine, toGreeter'[j].mine
        PROVE  i = j
    <3>1. /\ i \in Nat /\ i + 1 \in DOMAIN toGreeter /\ toGreeter[i + 1].mine
          /\ j \in Nat /\ j + 1 \in DOMAIN toGreeter /\ toGreeter[j + 1].mine
      BY <1>0, <2>1, <2>3, Rest
    <3>2. i + 1 = j + 1
      BY <1>0, <3>1 DEF ChannelInv
    <3>3. QED
      BY <3>1, <3>2
  <2>4. QED
    BY <1>0, <2>1, <2>2, <2>3 DEF ChannelInv
<1>4. CASE Reexecs
  <2>1. Tail(toGreeter) \in Seq(Replied) /\ toDaemon \in Seq(Requests)
    BY <1>0, <1>4, HeadAndTail DEF Reexecs, Queues
  <2>2. Unowned(Disown(Tail(toGreeter))) /\ Unowned(Disown(toDaemon))
    BY <2>1, Disowned DEF Unowned
  <2>3. QED
    BY <1>4, <2>2 DEF Reexecs, Unowned, ChannelInv
<1>5. CASE Concludes \/ Retries
  <2>1. toDaemon = <<>> /\ Unowned(toGreeter')
    BY <1>0, <1>5, AllRead DEF Concludes, Retries
  <2>2. UNCHANGED toDaemon \/ (waiting' \in Requests /\ toDaemon' = <<waiting'>>)
    BY <1>5, <2>1, OneAsked DEF Concludes, Retries
  <2>3. \A i \in DOMAIN toDaemon' : toDaemon'[i].mine => i = Len(toDaemon') /\ toDaemon'[i] = waiting'
    <3>1. CASE toDaemon' = <<>>
      <4>1. DOMAIN toDaemon' = {}
        BY <3>1
      <4>2. QED
        BY <4>1
    <3>2. CASE waiting' \in Requests /\ toDaemon' = <<waiting'>>
      <4>1. DOMAIN toDaemon' = {1} /\ toDaemon'[1] = waiting' /\ Len(toDaemon') = 1
        BY <3>2, OneAsked
      <4>2. QED
        BY <4>1
    <3>3. QED
      BY <2>1, <2>2, <3>1, <3>2
  <2>4. QED
    BY <2>1, <2>3 DEF ChannelInv, Unowned
<1>6. CASE Restarts
  BY <1>6 DEF Restarts, ChannelInv
<1>7. CASE Decides \/ Starts \/ Declines
  <2>1. PICK w \in Answers : Serves(w) /\ Told(w)
    BY <1>0, <1>7, Handled
  <2>2. toDaemon # <<>> /\ toDaemon' = Tail(toDaemon) /\ UNCHANGED waiting
    BY <2>1 DEF Serves
  <2>3. ASSUME NEW i \in DOMAIN toDaemon', toDaemon'[i].mine
        PROVE  i = Len(toDaemon') /\ toDaemon'[i] = waiting'
    <3>1. /\ i \in Nat /\ i + 1 \in DOMAIN toDaemon /\ toDaemon'[i] = toDaemon[i + 1]
          /\ Len(toDaemon') = Len(toDaemon) - 1
      BY <1>0, <2>2, RestServed
    <3>2. i + 1 = Len(toDaemon) /\ toDaemon[i + 1] = waiting
      BY <1>0, <2>3, <3>1 DEF ChannelInv
    <3>3. QED
      BY <2>2, <3>1, <3>2
  <2>4. ASSUME NEW i \in DOMAIN toGreeter', toGreeter'[i].mine
        PROVE  toGreeter'[i].what \in Answers /\ toDaemon' = <<>> /\ waiting' # NotWaiting
    <3>1. toGreeter'[i].what = w /\ Head(toDaemon).mine
      BY <2>1, <2>4 DEF Told
    <3>2. QED
      BY <1>0, <2>1, <2>2, <3>1, OwnLast
  <2>5. QED
    BY <2>1, <2>3, <2>4 DEF ChannelInv, Told
<1>8. CASE Announces \/ HangsUp
  <2>1. Adds /\ UNCHANGED <<toDaemon, waiting>>
    BY <1>0, <1>8, Added DEF Announces, HangsUp
  <2>2. QED
    BY <1>0, <2>1 DEF Adds, ChannelInv
<1>9. QED
  BY <1>1, <1>2, <1>3, <1>4, <1>5, <1>6, <1>7, <1>8 DEF Step

-----------------------------------------------------------------------------
(* What the queues say of the front end's own request. *)

\* The own request, where there is one, is what the front end waits for.
LEMMA OwnWaiting ==
    ASSUME ChannelInv, NEW kind, Own(kind)
    PROVE  waiting.kind = kind /\ waiting.mine
BY DEF ChannelInv, Own

\* A request behind another one stays when that is served.
LEMMA OwnStays ==
    ASSUME Queues, ChannelInv, toDaemon # <<>>, toDaemon' = Tail(toDaemon),
           NEW kind, Own(kind), ~Head(toDaemon).mine \/ Head(toDaemon).kind # kind
    PROVE  Own(kind)'
<1>1. PICK i \in DOMAIN toDaemon : toDaemon[i].mine /\ toDaemon[i].kind = kind
  BY DEF Own
<1>2. i # 1
  BY <1>1, RestServed
<1>3. i - 1 \in DOMAIN toDaemon' /\ toDaemon'[i - 1] = toDaemon[i]
  BY <1>1, <1>2, RestServed
<1>4. QED
  BY <1>1, <1>3 DEF Own

LEMMA OwnBefore ==
    ASSUME Queues, toDaemon # <<>>, toDaemon' = Tail(toDaemon), NEW kind, Own(kind)'
    PROVE  Own(kind)
BY RestServed DEF Own

LEMMA OwnAsked ==
    ASSUME Queues, NEW r \in Requests, r.mine, toDaemon' = Append(toDaemon, r), NEW kind
    PROVE  /\ Unowned(toDaemon) => (Own(kind)' <=> r.kind = kind)
           /\ Stale' <=> Stale
<1>1. toDaemon \in Seq(Requests)
  BY DEF Queues
<1>2. /\ \A i \in DOMAIN toDaemon : i \in DOMAIN toDaemon' /\ toDaemon'[i] = toDaemon[i]
      /\ \A i \in DOMAIN toDaemon' : (i \in DOMAIN toDaemon /\ toDaemon'[i] = toDaemon[i])
                                     \/ (i = Len(toDaemon) + 1 /\ toDaemon'[i] = r)
      /\ Len(toDaemon) + 1 \in DOMAIN toDaemon' /\ toDaemon'[Len(toDaemon) + 1] = r
  BY <1>1, Appended
<1>3. QED
  BY <1>2 DEF Own, Unowned, Stale

\* A retry is alone on the way to the daemon.
LEMMA RetryAlone ==
    ASSUME Queues, ChannelInv, Retries
    PROVE  /\ ~Stale' /\ Unowned(toGreeter') /\ DOMAIN toDaemon' = {1} /\ toDaemon'[1] = waiting'
           /\ Own("create")' /\ ~Own("start")'
<1>1. toDaemon = <<>> /\ Unowned(toGreeter')
  BY AllRead DEF Retries
<1>2. waiting' \in Requests /\ toDaemon' = <<waiting'>> /\ waiting'.mine /\ waiting'.kind = "create"
  BY <1>1, OneAsked DEF Retries
<1>3. DOMAIN toDaemon' = {1} /\ toDaemon'[1] = waiting'
  BY <1>2, OneAsked
<1>4. QED
  BY <1>1, <1>2, <1>3 DEF Stale, Own

LEMMA StaleKept ==
    ASSUME LoginInvariant, Step
    PROVE  StaleInv'
<1>0. Queues /\ Queues' /\ ChannelInv /\ StaleInv
  BY QueuesHold, QueuesKept DEF LoginInvariant
<1>1. CASE Edits \/ Quits \/ Spawns \/ Announces \/ HangsUp
  BY <1>0, <1>1 DEF Edits, Keeps, Quits, Spawns, Announces, HangsUp, StaleInv, Stale, Own
<1>2. CASE Asks
  <2>1. Unowned(toDaemon) /\ waiting' \in Requests /\ waiting'.mine /\ toDaemon' = Append(toDaemon, waiting')
    BY <1>0, <1>2, NoneOwn DEF Asks
  <2>2. (Stale' <=> Stale) /\ (Own("create")' <=> waiting'.kind = "create")
    BY <1>0, <2>1, OwnAsked
  <2>3. ~Own("create")
    BY <2>1 DEF Own, Unowned
  <2>4. QED
    BY <1>0, <1>2, <2>2, <2>3 DEF Asks, StaleInv
<1>3. CASE Passes
  BY <1>0, <1>3 DEF Passes, Keeps, Clear, StaleInv, Stale, Own
<1>4. CASE Reexecs \/ Restarts
  BY <1>4 DEF Reexecs, Restarts, Clear, StaleInv
<1>5. CASE Concludes
  <2>1. toDaemon = <<>> /\ toDaemon' = toDaemon
    BY <1>0, <1>5, AllRead DEF Concludes
  <2>2. DOMAIN toDaemon' = {}
    BY <2>1
  <2>3. QED
    BY <2>2 DEF StaleInv, Stale
<1>6. CASE Retries
  BY <1>0, <1>6, RetryAlone DEF StaleInv
<1>7. CASE Decides \/ Starts \/ Declines
  <2>1. toDaemon # <<>> /\ toDaemon' = Tail(toDaemon) /\ UNCHANGED app
    BY <1>7 DEF Decides, Starts, Declines, Serves
  <2>2. ASSUME Stale' PROVE Stale /\ ~Head(toDaemon).mine
    <3>1. PICK i \in DOMAIN toDaemon' : ~toDaemon'[i].mine
      BY <2>2 DEF Stale
    <3>2. i \in Nat /\ i + 1 \in DOMAIN toDaemon /\ i + 1 # 1 /\ toDaemon'[i] = toDaemon[i + 1]
      BY <1>0, <2>1, RestServed
    <3>3. Len(toDaemon) # 1
      BY <1>0, <3>2 DEF Queues
    <3>4. QED
      BY <1>0, <2>1, <3>1, <3>2, <3>3, OwnLast DEF Stale
  <2>3. ASSUME Stale', Own("create") PROVE Own("create")'
    BY <1>0, <2>1, <2>2, <2>3, OwnStays
  <2>4. QED
    BY <1>0, <2>1, <2>2, <2>3 DEF StaleInv
<1>8. QED
  BY <1>1, <1>2, <1>3, <1>4, <1>5, <1>6, <1>7 DEF Step

\* While there is no reply of its own, the front end shows what it is in.
LEMMA NotDeciding ==
    ASSUME waiting = NotWaiting
    PROVE  ~Deciding
BY Values DEF Deciding

LEMMA HeadOwn ==
    ASSUME Queues, toDaemon # <<>>, Head(toDaemon).mine
    PROVE  Own(Head(toDaemon).kind)
BY HeadAndTail DEF Queues, Own

\* A start is alone on the way to the daemon.
LEMMA StartAlone ==
    ASSUME Queues, ChannelInv, StartInv, toDaemon # <<>>, toDaemon' = Tail(toDaemon)
    PROVE  ~Own("start")'
<1>1. ASSUME Own("start")' PROVE FALSE
  <2>1. Own("start")
    BY <1>1, OwnBefore
  <2>2. Len(toDaemon) = 1
    BY <2>1 DEF StartInv
  <2>3. PICK i \in DOMAIN toDaemon' : toDaemon'[i].mine
    BY <1>1 DEF Own
  <2>4. i + 1 \in DOMAIN toDaemon /\ i + 1 # 1
    BY <2>3, RestServed
  <2>5. DOMAIN toDaemon = 1..1
    BY <2>2 DEF Queues
  <2>6. QED
    BY <2>4, <2>5
<1>2. QED
  BY <1>1

LEMMA HungUp ==
    ASSUME Queues, HangsUp
    PROVE  ~Joined'
<1>1. toGreeter' = Append(toGreeter, Event("eof")) /\ toGreeter \in Seq(Replied) /\ Event("eof") \in Replied
  BY Values DEF HangsUp, Queues, Events
<1>2. Len(toGreeter) + 1 \in DOMAIN toGreeter' /\ toGreeter'[Len(toGreeter) + 1] = Event("eof")
  BY <1>1, Appended
<1>3. Closed'
  BY <1>2 DEF Closed, ToSet
<1>4. QED
  BY <1>3 DEF Joined

\* The daemon announces to a front end that is there, and after all it said.
LEMMA Announced ==
    ASSUME Queues, Announces, Joined'
    PROVE  /\ Joined
           /\ \E e \in Events :
                 /\ Gains(toGreeter, toGreeter', Event(e))
                 /\ \/ UNCHANGED auth /\ e # "expired"
                    \/ Pending /\ auth' = [auth EXCEPT !.state = "warned"]
                    \/ Pending /\ auth' = NoAttempt /\ e = "expired"
                 /\ launching' = launching \/ e = "re-exec"
<1>1. Joined
  <2>1. ASSUME ~Joined PROVE FALSE
    <3>1. UNCHANGED <<up, toGreeter>>
      BY <2>1 DEF Announces
    <3>2. QED
      BY <2>1, <3>1 DEF Joined, Closed
  <2>2. QED
    BY <2>1
<1>2. ASSUME NEW e \in Events, toGreeter' = Append(toGreeter, Event(e))
      PROVE  Gains(toGreeter, toGreeter', Event(e))
  BY <1>2, Values, Gained DEF Queues
<1>3. QED
  BY <1>1, <1>2 DEF Announces

LEMMA StartKept ==
    ASSUME LoginInvariant, Step
    PROVE  StartInv'
<1>0. Queues /\ Queues' /\ ChannelInv /\ StaleInv /\ StartInv /\ ScreenInv
  BY QueuesHold, QueuesKept DEF LoginInvariant
<1>1. NotWaiting.kind = "none"
  BY Values
<1>2. Joined' => Joined \/ Restarts
  BY JoinedBack
<1>3. CASE Edits \/ Quits \/ Spawns
  <2>1. UNCHANGED <<waiting, toDaemon, toGreeter, auth>> /\ (Joined' => Joined)
    BY <1>3, <1>0 DEF Edits, Quits, Spawns, Joined, Closed
  <2>2. app'.stage = app.stage /\ (app.busy => app'.busy)
    BY <1>3 DEF Edits, Keeps, Quits, Spawns
  <2>3. QED
    BY <1>0, <2>1, <2>2 DEF StartInv, Own
<1>4. CASE Asks
  <2>1. /\ Unowned(toDaemon) /\ Unowned(toGreeter) /\ waiting' \in Requests /\ waiting'.mine
        /\ toDaemon' = Append(toDaemon, waiting') /\ UNCHANGED <<up, toGreeter, auth>>
    BY <1>0, <1>4, NoneOwn DEF Asks
  <2>2. Own("start")' <=> waiting'.kind = "start"
    BY <1>0, <2>1, OwnAsked
  <2>3. CASE waiting'.kind # "start"
    BY <2>1, <2>2, <2>3 DEF StartInv, Unowned
  <2>4. CASE waiting'.kind = "start"
    <3>1. app.stage = "ready" /\ ~app.busy /\ app'.busy
      BY <1>4, <2>4 DEF Asks
    <3>2. ~Stale
      BY <1>0, <3>1 DEF StaleInv
    <3>3. toDaemon = <<>>
      <4>1. ASSUME toDaemon # <<>> PROVE FALSE
        <5>1. 1 \in DOMAIN toDaemon
          BY <1>0, <4>1, HeadAndTail DEF Queues
        <5>2. QED
          BY <2>1, <3>2, <5>1 DEF Stale, Unowned
      <4>2. QED
        BY <4>1
    <3>4. Len(toDaemon') = 1
      BY <2>1, <3>3, OneAsked
    <3>5. Joined => auth.state = "ready"
      BY <1>0, <1>4, <3>1, NotDeciding DEF ScreenInv, Leaving, Asks
    <3>6. Joined' => Joined
      BY <2>1 DEF Joined, Closed
    <3>7. QED
      BY <2>1, <3>1, <3>4, <3>5, <3>6 DEF StartInv, Unowned
  <2>5. QED
    BY <2>3, <2>4
<1>5. CASE Passes
  <2>1. Pops /\ UNCHANGED <<waiting, up, toDaemon, auth>> /\ (Keeps \/ Clear(app')) /\ ~Head(toGreeter).mine
        /\ Head(toGreeter).what # "eof"
    BY <1>5 DEF Passes
  <2>2. waiting.kind = "start" /\ app'.stage = "ready" => app'.busy
    BY <1>0, <2>1 DEF StartInv, Keeps, Clear
  <2>3. \A i \in DOMAIN toGreeter' : toGreeter'[i].mine /\ waiting.kind = "start" => toGreeter'[i].what = "ok"
    BY <1>0, <2>1, Rest DEF StartInv
  <2>4. Joined' => Joined \/ toDaemon' = <<>>
    BY <1>2 DEF Restarts
  <2>5. QED
    BY <1>0, <2>1, <2>2, <2>3, <2>4 DEF StartInv, Own
<1>6. CASE Reexecs
  <2>1. Tail(toGreeter) \in Seq(Replied) /\ toDaemon \in Seq(Requests)
    BY <1>0, <1>6, HeadAndTail DEF Reexecs, Queues
  <2>2. Unowned(Disown(Tail(toGreeter))) /\ Unowned(Disown(toDaemon))
    BY <2>1, Disowned DEF Unowned
  <2>3. QED
    BY <1>1, <1>6, <2>2 DEF Reexecs, Unowned, StartInv, Own
<1>7. CASE Concludes
  <2>1. toDaemon = <<>> /\ toDaemon' = toDaemon /\ waiting'.kind = "none"
    BY <1>0, <1>1, <1>7, AllRead DEF Concludes
  <2>2. DOMAIN toDaemon' = {}
    BY <2>1
  <2>3. QED
    BY <2>1, <2>2 DEF StartInv, Own
<1>8. CASE Retries
  <2>1. waiting'.kind = "create"
    BY <1>8 DEF Retries
  <2>2. QED
    BY <1>0, <1>8, <2>1, RetryAlone DEF StartInv
<1>9. CASE Restarts
  BY <1>1, <1>9 DEF Restarts, StartInv, Own
<1>10. CASE Decides \/ Starts \/ Declines
  <2>1. toDaemon # <<>> /\ toDaemon' = Tail(toDaemon) /\ UNCHANGED <<app, waiting, up>> /\ ~Closed
    BY <1>10 DEF Decides, Starts, Declines, Serves
  <2>2. ~Own("start")'
    BY <1>0, <2>1, StartAlone
  <2>3. ASSUME NEW w \in Answers, Told(w), Head(toDaemon).kind = "start" => w = "ok"
        PROVE  \A i \in DOMAIN toGreeter' :
                  toGreeter'[i].mine /\ waiting.kind = "start" => toGreeter'[i].what = "ok"
    BY <1>0, <2>1, <2>3, OwnLast DEF Told
  <2>4. CASE Decides
    <3>1. PICK w \in Answers : Serves(w) /\ MayWrite(w) /\ Head(toDaemon).kind # "start"
      BY <2>4 DEF Decides
    <3>2. Told(w)
      BY <1>0, <3>1, Tells
    <3>3. QED
      BY <1>0, <2>1, <2>2, <2>3, <3>1, <3>2 DEF StartInv
  <2>5. CASE Starts
    <3>1. Told("ok") /\ "ok" \in Answers
      BY <1>0, <2>5, TellsStart DEF Answers
    <3>2. QED
      BY <1>0, <2>1, <2>2, <2>3, <3>1 DEF StartInv
  <2>6. CASE Declines
    <3>1. PICK w \in Answers : /\ Serves(w) /\ Writes(w)
                               /\ Head(toDaemon).kind = "power"
                                     \/ (Head(toDaemon).kind = "start" /\ auth.state # "ready")
      BY <2>6 DEF Declines
    <3>2. Told(w)
      BY <1>0, <3>1, Tells DEF MayWrite
    <3>3. ASSUME NEW i \in DOMAIN toGreeter', toGreeter'[i].mine, waiting.kind = "start" PROVE FALSE
      <4>1. Head(toDaemon).mine
        BY <3>2, <3>3 DEF Told
      <4>2. Head(toDaemon).kind = "start" /\ Own("start")
        BY <1>0, <2>1, <3>3, <4>1, OwnLast, HeadOwn
      <4>3. ~Joined
        BY <1>0, <3>1, <4>2 DEF StartInv
      <4>4. toGreeter' = toGreeter
        BY <2>1, <3>1, <4>3 DEF Writes, Joined
      <4>5. QED
        BY <1>0, <2>1, <3>3, <4>4, Unanswered DEF Unowned
    <3>4. QED
      BY <1>0, <2>1, <2>2, <3>3 DEF StartInv
  <2>7. QED
    BY <1>10, <2>4, <2>5, <2>6
<1>11. CASE Announces \/ HangsUp
  <2>1. Adds /\ UNCHANGED <<app, waiting, up, toDaemon>>
    BY <1>0, <1>11, Added DEF Announces, HangsUp
  <2>2. Joined' => Joined /\ (auth.state = "ready" => auth' = auth)
    <3>1. CASE Announces
      <4>1. Joined' => Joined
        BY <1>0, <3>1, Announced
      <4>2. QED
        BY <3>1, <4>1 DEF Announces, Pending
    <3>2. CASE HangsUp
      BY <1>0, <3>2, HungUp
    <3>3. QED
      BY <1>11, <3>1, <3>2
  <2>3. QED
    BY <1>0, <2>1, <2>2 DEF StartInv, Own, Adds
<1>12. QED
  BY <1>3, <1>4, <1>5, <1>6, <1>7, <1>8, <1>9, <1>10, <1>11 DEF Step

LEMMA StylesAre ==
    /\ "ready" \notin Styles /\ "ok" \notin Styles /\ "refused" \notin Styles
    /\ "name" \notin Styles /\ NoAttempt.state = "none"
    /\ \A u : Ready(u).state = "ready" /\ Ready(u).user = u
BY DEF Styles, NoAttempt, Ready

\* What a verdict of the worker makes of the attempt.
LEMMA Verdict ==
    ASSUME NEW u, NEW w, Attempted(u, w)
    PROVE  /\ w = "ready" => auth'.state = "ready"
           /\ w \in Styles => Pending' /\ auth'.style = w
           /\ auth'.state # "none" => auth'.user = u
<1>1. CASE w \in Styles /\ auth' = [state |-> "asking", user |-> u, style |-> w]
  BY <1>1, StylesAre DEF Pending
<1>2. CASE w = "ready" /\ auth' = Ready(u)
  BY <1>2, StylesAre
<1>3. CASE w \notin Styles \cup {"ready"} /\ auth' = NoAttempt
  BY <1>3, StylesAre
<1>4. QED
  BY <1>1, <1>2, <1>3 DEF Attempted

LEMMA ReplyKept ==
    ASSUME LoginInvariant, Step
    PROVE  ReplyInv'
<1>0. Queues /\ Queues' /\ ChannelInv /\ StartInv /\ ReplyInv
  BY QueuesHold, QueuesKept DEF LoginInvariant
<1>1. NotWaiting.kind = "none"
  BY Values
<1>2. Joined' => Joined \/ Restarts
  BY JoinedBack
<1>a. auth \in [state : {"none", "asking", "warned", "ready"}, user : AnyUser, style : Styles]
  BY DEF LoginInvariant, Shaped
<1>3. CASE Edits \/ Quits \/ Spawns
  <2>1. UNCHANGED <<waiting, toGreeter, auth>> /\ (Joined' => Joined)
    BY <1>3, <1>0 DEF Edits, Quits, Spawns, Joined, Closed
  <2>2. QED
    BY <1>0, <2>1 DEF ReplyInv, Asked, Pending
<1>4. CASE Asks
  <2>1. Unowned(toGreeter) /\ UNCHANGED toGreeter
    BY <1>0, <1>4, NoneOwn DEF Asks
  <2>2. QED
    BY <2>1 DEF ReplyInv, Unowned
<1>5. CASE Passes
  <2>1. Pops /\ UNCHANGED <<waiting, up, toDaemon, auth>>
    BY <1>5 DEF Passes
  <2>2. SUFFICES ASSUME Joined', Asked', NEW i \in DOMAIN toGreeter', toGreeter'[i].mine
                 PROVE  /\ toGreeter'[i].what = "ready" => auth'.state = "ready"
                        /\ toGreeter'[i].what \in Styles =>
                              \/ Pending' /\ auth'.style = toGreeter'[i].what
                              \/ \E j \in DOMAIN toGreeter' : j > i /\ toGreeter'[j] = Event("expired")
    BY DEF ReplyInv
  <2>3. i \in Nat /\ i + 1 \in DOMAIN toGreeter /\ toGreeter'[i] = toGreeter[i + 1]
    BY <1>0, <2>1, Rest
  <2>4. toGreeter # <<>>
    BY <2>1 DEF Pops
  <2>5. Joined /\ Asked
    <3>1. Restarts => toGreeter' = <<>>
      BY DEF Restarts
    <3>2. ~Restarts
      <4>1. ASSUME toGreeter' = <<>> PROVE FALSE
        <5>1. DOMAIN toGreeter' = {}
          BY <4>1
        <5>2. QED
          BY <2>2, <5>1
      <4>2. QED
        BY <3>1, <4>1
    <3>3. QED
      BY <1>2, <2>1, <2>2, <3>2 DEF Asked
  <2>6. /\ toGreeter[i + 1].what = "ready" => auth.state = "ready"
        /\ toGreeter[i + 1].what \in Styles =>
              \/ Pending /\ auth.style = toGreeter[i + 1].what
              \/ \E j \in DOMAIN toGreeter : j > i + 1 /\ toGreeter[j] = Event("expired")
    BY <1>0, <2>2, <2>3, <2>5 DEF ReplyInv
  <2>7. ASSUME NEW j \in DOMAIN toGreeter, j > i + 1, toGreeter[j] = Event("expired")
        PROVE  \E k \in DOMAIN toGreeter' : k > i /\ toGreeter'[k] = Event("expired")
    <3>1. j \in Nat /\ j # 1
      BY <1>0, <2>1, <2>3, <2>7, Rest
    <3>2. j - 1 \in DOMAIN toGreeter' /\ toGreeter'[j - 1] = Event("expired")
      BY <1>0, <2>1, <2>7, <3>1, Rest
    <3>3. j - 1 > i
      BY <2>3, <2>7, <3>1
    <3>4. QED
      BY <3>2, <3>3
  <2>8. QED
    BY <2>1, <2>3, <2>6, <2>7 DEF Pending
<1>6. CASE Reexecs
  <2>1. Tail(toGreeter) \in Seq(Replied)
    BY <1>0, <1>6, HeadAndTail DEF Reexecs, Queues
  <2>2. Unowned(Disown(Tail(toGreeter)))
    BY <2>1, Disowned DEF Unowned
  <2>3. QED
    BY <1>6, <2>2 DEF Reexecs, Unowned, ReplyInv
<1>7. CASE Concludes \/ Retries
  <2>1. Unowned(toGreeter')
    BY <1>0, <1>7, AllRead DEF Concludes, Retries
  <2>2. QED
    BY <2>1 DEF ReplyInv, Unowned
<1>8. CASE Restarts
  <2>1. DOMAIN toGreeter' = {}
    BY <1>8 DEF Restarts
  <2>2. QED
    BY <2>1 DEF ReplyInv
<1>9. CASE Decides \/ Starts \/ Declines
  <2>1. toDaemon # <<>> /\ UNCHANGED waiting
    BY <1>9 DEF Decides, Starts, Declines, Serves
  <2>2. CASE Decides
    <3>1. PICK w \in Answers :
             /\ Serves(w) /\ MayWrite(w)
             /\ \/ \E u : Attempted(u, w)
                \/ w = "refused"
                \/ w = "ok"
      BY <2>2 DEF Decides
    <3>2. Told(w)
      BY <1>0, <3>1, Tells
    <3>3. /\ w = "ready" => auth'.state = "ready"
          /\ w \in Styles => Pending' /\ auth'.style = w
      BY <3>1, Verdict, StylesAre
    <3>4. QED
      BY <3>2, <3>3 DEF ReplyInv, Told
  <2>3. CASE Starts
    BY <1>0, <2>3, TellsStart, StylesAre DEF ReplyInv, Told
  <2>4. CASE Declines
    <3>1. PICK w \in Answers : Serves(w) /\ Writes(w) /\ Head(toDaemon).kind \in {"start", "power"}
      BY <2>4 DEF Declines
    <3>2. Told(w)
      BY <1>0, <3>1, Tells DEF MayWrite
    <3>3. ASSUME NEW i \in DOMAIN toGreeter', toGreeter'[i].mine PROVE ~Asked'
      <4>1. Head(toDaemon).mine
        BY <3>2, <3>3 DEF Told
      <4>2. waiting.kind \in {"start", "power"}
        BY <1>0, <2>1, <3>1, <4>1, OwnLast
      <4>3. QED
        BY <2>1, <4>2 DEF Asked
    <3>4. QED
      BY <3>3 DEF ReplyInv
  <2>5. QED
    BY <1>9, <2>2, <2>3, <2>4
<1>10. CASE Announces
  <2>1. SUFFICES ASSUME Joined', Asked', NEW i \in DOMAIN toGreeter', toGreeter'[i].mine
                 PROVE  /\ toGreeter'[i].what = "ready" => auth'.state = "ready"
                        /\ toGreeter'[i].what \in Styles =>
                              \/ Pending' /\ auth'.style = toGreeter'[i].what
                              \/ \E j \in DOMAIN toGreeter' : j > i /\ toGreeter'[j] = Event("expired")
    BY DEF ReplyInv
  <2>2. Joined /\ Adds /\ UNCHANGED waiting
    BY <1>0, <1>10, <2>1, Announced, Added DEF Announces
  <2>3. i \in DOMAIN toGreeter /\ toGreeter'[i] = toGreeter[i]
    BY <2>1, <2>2 DEF Adds
  <2>4. PICK e \in Events :
                 /\ Gains(toGreeter, toGreeter', Event(e))
                 /\ \/ UNCHANGED auth /\ e # "expired"
                    \/ Pending /\ auth' = [auth EXCEPT !.state = "warned"]
                    \/ Pending /\ auth' = NoAttempt /\ e = "expired"
    BY <1>0, <1>10, <2>1, Announced
  <2>5. /\ toGreeter[i].what = "ready" => auth.state = "ready"
        /\ toGreeter[i].what \in Styles =>
              \/ Pending /\ auth.style = toGreeter[i].what
              \/ \E j \in DOMAIN toGreeter : j > i /\ toGreeter[j] = Event("expired")
    BY <1>0, <2>1, <2>2, <2>3 DEF ReplyInv, Asked
  <2>6. ASSUME \E j \in DOMAIN toGreeter : j > i /\ toGreeter[j] = Event("expired")
        PROVE  \E j \in DOMAIN toGreeter' : j > i /\ toGreeter'[j] = Event("expired")
    BY <2>2, <2>6 DEF Adds
  <2>7. CASE UNCHANGED auth
    BY <2>3, <2>5, <2>6, <2>7 DEF Pending
  <2>8. CASE Pending /\ auth' = [auth EXCEPT !.state = "warned"]
    <3>1. Pending' /\ auth'.style = auth.style /\ auth.state # "ready"
      BY <1>a, <2>8 DEF Pending
    <3>2. QED
      BY <2>3, <2>5, <2>6, <3>1
  <2>9. CASE Pending /\ auth' = NoAttempt /\ e = "expired"
    <3>1. \E j \in DOMAIN toGreeter' : j > i /\ toGreeter'[j] = Event("expired")
      BY <2>3, <2>4, <2>9 DEF Gains
    <3>2. auth.state # "ready"
      BY <2>9 DEF Pending
    <3>3. QED
      BY <2>3, <2>5, <3>1, <3>2
  <2>10. QED
    BY <2>4, <2>7, <2>8, <2>9
<1>11. CASE HangsUp
  BY <1>0, <1>11, HungUp DEF ReplyInv
<1>12. QED
  BY <1>3, <1>4, <1>5, <1>6, <1>7, <1>8, <1>9, <1>10, <1>11 DEF Step

\* What is left on its way when something else was read.
LEMMA StillComing ==
    ASSUME Queues, Pops, NEW e, Head(toGreeter) # e, NEW i \in DOMAIN toGreeter, toGreeter[i] = e
    PROVE  \E j \in DOMAIN toGreeter' : toGreeter'[j] = e
<1>1. i # 1
  BY Rest
<1>2. i - 1 \in DOMAIN toGreeter' /\ toGreeter'[i - 1] = e
  BY <1>1, Rest
<1>3. QED
  BY <1>2

\* Where the invariant holds and nothing it speaks of changed for the worse.
LEMMA ScreenStays ==
    ASSUME ScreenInv, Joined' => Joined /\ (~Deciding' => ~Deciding),
           UNCHANGED auth, app'.stage = app.stage \/ app'.stage = "name",
           Expiring => Expiring', Leaving /\ app'.stage = app.stage => Leaving'
    PROVE  ScreenInv'
BY StylesAre DEF ScreenInv, Pending

LEMMA ScreenKept ==
    ASSUME LoginInvariant, Step
    PROVE  ScreenInv'
<1>0. Queues /\ Queues' /\ ChannelInv /\ StaleInv /\ StartInv /\ ReplyInv /\ ScreenInv
  BY QueuesHold, QueuesKept DEF LoginInvariant
<1>1. NotWaiting.kind = "none"
  BY Values
<1>2. Joined' => Joined \/ Restarts
  BY JoinedBack
<1>a. auth \in [state : {"none", "asking", "warned", "ready"}, user : AnyUser, style : Styles]
  BY DEF LoginInvariant, Shaped
<1>b. ASSUME app'.stage = "name" PROVE ScreenInv'
  BY <1>b, StylesAre DEF ScreenInv
<1>3. CASE Edits \/ Spawns
  <2>1. /\ UNCHANGED <<waiting, toDaemon, toGreeter, auth>> /\ (Joined' => Joined)
        /\ app'.stage = app.stage /\ (app.busy => app'.busy)
        /\ (launching.stage # "no" => launching'.stage # "no")
    BY <1>3 DEF Edits, Keeps, Spawns, Joined, Closed
  <2>2. QED
    BY <1>0, <2>1, ScreenStays DEF Deciding, Expiring, Leaving
<1>4. CASE Quits
  BY <1>4 DEF Quits, ScreenInv, Joined
<1>5. CASE Asks
  <2>1. /\ Unowned(toGreeter) /\ UNCHANGED <<up, toGreeter, auth, launching>>
        /\ app'.stage = app.stage /\ (app.busy => app'.busy)
    BY <1>0, <1>5, NoneOwn DEF Asks
  <2>2. Joined' => Joined /\ ~Deciding
    BY <1>5, <2>1, NotDeciding DEF Joined, Closed, Asks
  <2>3. QED
    BY <1>0, <2>1, <2>2, ScreenStays DEF Expiring, Leaving
<1>6. CASE Passes
  <2>1. Pops /\ UNCHANGED <<waiting, up, toDaemon, auth, launching>> /\ ~Head(toGreeter).mine
        /\ Head(toGreeter).what \notin {"re-exec", "eof"}
    BY <1>6 DEF Passes
  <2>2. CASE Clear(app')
    BY <1>b, <2>2 DEF Clear
  <2>3. CASE Keeps /\ Head(toGreeter) # Event("expired")
    <3>1. Head(toGreeter) # Event("re-exec")
      BY <2>1, Values DEF Events
    <3>2. Expiring => Expiring'
      BY <1>0, <2>1, <2>3, StillComing DEF Expiring
    <3>3. Leaving => Leaving'
      BY <1>0, <2>1, <2>3, <3>1, StillComing DEF Leaving, Keeps
    <3>4. Deciding => Deciding'
      BY <2>1 DEF Deciding
    <3>5. Joined' => Joined
      <4>1. ASSUME Closed PROVE Closed'
        <5>1. Head(toGreeter) # Event("eof")
          BY <2>1, Values DEF Events
        <5>2. QED
          BY <1>0, <2>1, <4>1, <5>1, StillComing DEF Closed, ToSet
      <4>2. QED
        BY <2>1, <4>1 DEF Joined
    <3>6. QED
      BY <1>0, <2>1, <2>3, <3>2, <3>3, <3>4, <3>5, ScreenStays DEF Keeps
  <2>4. QED
    BY <1>6, <2>2, <2>3 DEF Passes
<1>7. CASE Reexecs \/ Restarts
  BY <1>7, <1>b DEF Reexecs, Restarts, Clear
<1>8. CASE Concludes
  <2>1. /\ Pops /\ UNCHANGED <<up, auth, launching>> /\ Head(toGreeter).mine
        /\ 1 \in DOMAIN toGreeter /\ toGreeter[1] = Head(toGreeter)
    BY <1>0, <1>8, Rest DEF Concludes
  <2>2. \A e \in Events : Head(toGreeter) # Event(e)
    BY <2>1, Values
  <2>3. (Expiring => Expiring') /\ (Closed => Closed')
    <3>1. "expired" \in Events /\ "eof" \in Events
      BY DEF Events
    <3>2. QED
      BY <1>0, <2>1, <2>2, <3>1, StillComing DEF Expiring, Closed, ToSet
  <2>4. Joined' => Joined
    BY <2>1, <2>3 DEF Joined
  <2>5. CASE Clear(app')
    BY <1>b, <2>5 DEF Clear
  <2>6. CASE Keeps /\ waiting.kind \in {"start", "power"}
    <3>1. ~Deciding
      BY <2>6 DEF Deciding
    <3>2. "re-exec" \in Events
      BY DEF Events
    <3>3. Leaving => Leaving'
      BY <1>0, <2>1, <2>2, <2>6, <3>2, StillComing DEF Leaving, Keeps
    <3>4. QED
      BY <1>0, <2>1, <2>3, <2>4, <2>6, <3>1, <3>3, ScreenStays DEF Keeps
  <2>7. CASE waiting.kind \in {"create", "continue"} /\ app'.stage = Head(toGreeter).what
    <3>1. SUFFICES ASSUME Joined'
                   PROVE  /\ app'.stage \in Styles => (Pending /\ auth.style = app'.stage) \/ Expiring'
                          /\ app'.stage = "ready" => auth.state = "ready"
      BY <2>1 DEF ScreenInv, Pending
    <3>2. /\ app'.stage = "ready" => auth.state = "ready"
          /\ app'.stage \in Styles =>
                \/ Pending /\ auth.style = app'.stage
                \/ \E j \in DOMAIN toGreeter : j > 1 /\ toGreeter[j] = Event("expired")
      BY <1>0, <2>1, <2>4, <2>7, <3>1 DEF ReplyInv, Asked
    <3>3. QED
      BY <2>3, <3>2 DEF Expiring
  <2>8. QED
    BY <1>8, <2>5, <2>6, <2>7 DEF Concludes
<1>9. CASE Retries
  BY <1>9, <1>b DEF Retries
<1>10. CASE Decides \/ Starts \/ Declines
  <2>1. PICK w \in Answers : Serves(w) /\ Told(w)
    BY <1>0, <1>10, Handled
  <2>2. /\ toDaemon # <<>> /\ toDaemon' = Tail(toDaemon) /\ UNCHANGED <<app, waiting, up>> /\ ~Closed
        /\ Unowned(toGreeter)
    BY <1>0, <2>1, Unanswered DEF Serves
  <2>3. CASE ~Head(toDaemon).mine
    <3>1. app.stage = "name"
      BY <1>0, <2>2, <2>3, StaleHead DEF StaleInv
    <3>2. QED
      BY <1>b, <2>2, <3>1
  <2>4. CASE Head(toDaemon).mine /\ Decides
    <3>1. waiting = Head(toDaemon)
      BY <1>0, <2>2, <2>4, OwnLast
    <3>2. waiting.kind \in {"create", "continue", "cancel"}
      BY <2>4, <3>1 DEF Decides
    <3>3. Deciding'
      <4>1. DOMAIN toDaemon' = {}
        BY <1>0, <2>2, <2>4, OwnLast
      <4>2. QED
        BY <2>2, <3>2, <4>1 DEF Deciding
    <3>4. QED
      BY <2>2, <3>3 DEF ScreenInv, Joined
  <2>5. (Expiring => Expiring') /\ (Joined' => Joined)
    BY <2>1, <2>2 DEF Told, Expiring, Joined
  <2>d. Head(toDaemon).mine => ~Deciding
    BY <1>0, <2>2, RestServed DEF Deciding
  <2>6. CASE Head(toDaemon).mine /\ Starts
    <3>1. waiting.kind = "start" /\ auth.state = "ready" /\ launching'.stage # "no" /\ ~Pending
      BY <1>0, <2>2, <2>6, OwnLast DEF Starts, Pending
    <3>2. app.stage = "ready" => Leaving'
      BY <1>0, <2>2, <3>1 DEF StartInv, Leaving
    <3>3. QED
      BY <1>0, <2>2, <2>5, <2>6, <2>d, <3>1, <3>2 DEF ScreenInv
  <2>7. CASE Head(toDaemon).mine /\ Declines
    <3>1. UNCHANGED <<auth, launching>>
      BY <2>7 DEF Declines
    <3>2. Leaving => Leaving'
      BY <2>1, <2>2, <3>1 DEF Leaving, Told
    <3>3. QED
      BY <1>0, <2>2, <2>5, <2>7, <2>d, <3>1, <3>2, ScreenStays
  <2>8. QED
    BY <1>10, <2>3, <2>4, <2>6, <2>7
<1>11. CASE Announces
  <2>1. SUFFICES ASSUME Joined' PROVE ScreenInv'
    BY DEF ScreenInv
  <2>2. Joined /\ Adds /\ UNCHANGED <<app, waiting, toDaemon>>
    BY <1>0, <1>11, <2>1, Announced, Added DEF Announces
  <2>3. PICK e \in Events :
                 /\ Gains(toGreeter, toGreeter', Event(e))
                 /\ \/ UNCHANGED auth /\ e # "expired"
                    \/ Pending /\ auth' = [auth EXCEPT !.state = "warned"]
                    \/ Pending /\ auth' = NoAttempt /\ e = "expired"
                 /\ launching' = launching \/ e = "re-exec"
    BY <1>0, <1>11, <2>1, Announced
  <2>4. (Expiring => Expiring') /\ (Deciding => Deciding')
    BY <2>2 DEF Adds, Expiring, Deciding
  <2>5. Leaving => Leaving'
    BY <2>2, <2>3 DEF Adds, Gains, Leaving
  <2>6. CASE UNCHANGED auth
    BY <1>0, <2>2, <2>4, <2>5, <2>6, ScreenStays
  <2>7. CASE Pending /\ auth' = [auth EXCEPT !.state = "warned"]
    <3>1. Pending' /\ auth'.style = auth.style /\ auth.state # "ready"
      BY <1>a, <2>7 DEF Pending
    <3>2. QED
      BY <1>0, <2>2, <2>4, <2>5, <2>7, <3>1 DEF ScreenInv
  <2>8. CASE Pending /\ auth' = NoAttempt /\ e = "expired"
    <3>1. Expiring' /\ auth.state # "ready"
      BY <2>3, <2>8 DEF Gains, Expiring, Pending
    <3>2. QED
      BY <1>0, <2>2, <2>4, <2>5, <3>1 DEF ScreenInv
  <2>9. QED
    BY <2>3, <2>6, <2>7, <2>8
<1>12. CASE HangsUp
  BY <1>0, <1>12, HungUp DEF ScreenInv
<1>13. QED
  BY <1>3, <1>4, <1>5, <1>6, <1>7, <1>8, <1>9, <1>10, <1>11, <1>12 DEF Step

LEMMA NameKept ==
    ASSUME LoginInvariant, Step
    PROVE  NameInv'
<1>0. Queues /\ Queues' /\ ChannelInv /\ StaleInv /\ NameInv
  BY QueuesHold, QueuesKept DEF LoginInvariant
<1>2. Joined' => Joined \/ Restarts
  BY JoinedBack
<1>a. auth \in [state : {"none", "asking", "warned", "ready"}, user : AnyUser, style : Styles]
  BY DEF LoginInvariant, Shaped
<1>b. ASSUME app'.name = NoUser PROVE NameInv'
  BY <1>b DEF NameInv
<1>c. ASSUME UNCHANGED toDaemon, app'.name = app.name, Joined' => Joined,
             auth'.state # "none" => auth.state # "none" /\ auth'.user = auth.user
      PROVE  NameInv'
  BY <1>0, <1>c DEF NameInv, Own
<1>3. CASE Edits \/ Spawns \/ Quits
  <2>1. UNCHANGED <<toDaemon, auth>> /\ app'.name = app.name /\ (Joined' => Joined)
    BY <1>3 DEF Edits, Keeps, Spawns, Quits, Joined, Closed
  <2>2. QED
    BY <1>c, <2>1
<1>4. CASE Asks
  <2>1. /\ Unowned(toDaemon) /\ waiting' \in Requests /\ waiting'.mine
        /\ toDaemon' = Append(toDaemon, waiting') /\ UNCHANGED <<up, toGreeter, auth>>
    BY <1>0, <1>4, NoneOwn DEF Asks
  <2>2. (Own("create")' <=> waiting'.kind = "create") /\ ~Own("create") /\ (Joined' => Joined)
    BY <1>0, <2>1, OwnAsked DEF Own, Unowned, Joined, Closed
  <2>3. \A i \in DOMAIN toDaemon' : toDaemon'[i].mine => toDaemon'[i] = waiting'
    <3>1. \A i \in DOMAIN toDaemon' : (i \in DOMAIN toDaemon /\ toDaemon'[i] = toDaemon[i])
                                      \/ toDaemon'[i] = waiting'
      BY <1>0, <2>1, Appended DEF Queues
    <3>2. QED
      BY <2>1, <3>1 DEF Unowned
  <2>4. CASE waiting'.kind = "create"
    <3>1. app'.name = waiting'.user
      BY <1>4, <2>4 DEF Asks
    <3>2. QED
      BY <2>2, <2>3, <2>4, <3>1 DEF NameInv
  <2>5. CASE waiting'.kind # "create"
    <3>1. app'.name = app.name
      BY <1>4, <2>5 DEF Asks
    <3>2. QED
      BY <1>0, <2>1, <2>2, <2>3, <2>5, <3>1 DEF NameInv
  <2>6. QED
    BY <2>4, <2>5
<1>5. CASE Passes \/ Concludes
  <2>1. UNCHANGED <<toDaemon, auth>> /\ (app'.name = app.name \/ app'.name = NoUser)
    BY <1>5 DEF Passes, Concludes, Keeps, Clear
  <2>2. Joined' => Joined \/ Clear(app')
    BY <1>2 DEF Restarts
  <2>3. QED
    BY <1>b, <1>c, <2>1, <2>2 DEF Clear
<1>6. CASE Reexecs \/ Restarts
  BY <1>6, <1>b DEF Reexecs, Restarts, Clear
<1>7. CASE Retries
  <2>1. DOMAIN toDaemon' = {1} /\ toDaemon'[1] = waiting' /\ Own("create")'
    BY <1>0, <1>7, RetryAlone
  <2>2. app'.name = waiting'.user
    BY <1>7 DEF Retries
  <2>3. QED
    BY <2>1, <2>2 DEF NameInv
<1>8. CASE Decides \/ Starts \/ Declines
  <2>1. /\ toDaemon # <<>> /\ toDaemon' = Tail(toDaemon) /\ UNCHANGED <<app, waiting, up>> /\ ~Closed
    BY <1>8 DEF Decides, Starts, Declines, Serves
  <2>2. Joined' => Joined
    BY <2>1 DEF Joined
  <2>3. \A i \in DOMAIN toDaemon' : toDaemon'[i].mine /\ toDaemon'[i].kind = "create"
            => app'.name \in {NoUser, toDaemon'[i].user}
    BY <1>0, <2>1, RestServed DEF NameInv
  <2>4. CASE ~Head(toDaemon).mine
    <3>1. app.name = NoUser \/ Own("create")
      BY <1>0, <2>1, <2>4, StaleHead DEF StaleInv
    <3>2. Own("create") => Own("create")'
      BY <1>0, <2>1, <2>4, OwnStays
    <3>3. QED
      BY <1>b, <2>1, <2>3, <3>1, <3>2 DEF NameInv
  <2>5. CASE Head(toDaemon).mine /\ Decides /\ Head(toDaemon).kind = "create"
    <3>1. PICK w \in Answers : Attempted(Head(toDaemon).user, w)
      BY <2>5 DEF Decides
    <3>2. auth'.state # "none" => auth'.user = Head(toDaemon).user
      BY <3>1, Verdict
    <3>3. app.name \in {NoUser, Head(toDaemon).user}
      BY <1>0, <2>1, <2>5, RestServed DEF NameInv
    <3>4. QED
      BY <2>1, <2>3, <3>2, <3>3 DEF NameInv
  <2>6. CASE Head(toDaemon).mine /\ Head(toDaemon).kind # "create"
    <3>1. ~Own("create")
      BY <1>0, <2>1, <2>6, OwnLast, OwnWaiting
    <3>2. auth'.state # "none" => auth.state # "none" /\ auth'.user = auth.user
      <4>1. CASE UNCHANGED auth
        BY <4>1
      <4>2. CASE auth' = NoAttempt
        BY <4>2, StylesAre
      <4>3. CASE Pending /\ \E w \in Answers : Attempted(auth.user, w)
        BY <4>3, Verdict DEF Pending
      <4>4. QED
        BY <1>8, <2>6, <4>1, <4>2, <4>3 DEF Decides, Starts, Declines
    <3>3. QED
      BY <1>0, <2>1, <2>2, <2>3, <3>1, <3>2 DEF NameInv
  <2>7. QED
    BY <1>8, <2>4, <2>5, <2>6 DEF Starts, Declines, Decides
<1>9. CASE Announces
  <2>1. UNCHANGED <<app, toDaemon>> /\ (Joined' => Joined)
    BY <1>0, <1>9, Announced DEF Announces
  <2>2. auth'.state # "none" => auth.state # "none" /\ auth'.user = auth.user
    <3>1. CASE UNCHANGED auth
      BY <3>1
    <3>2. CASE Pending /\ auth' = [auth EXCEPT !.state = "warned"]
      BY <1>a, <3>2 DEF Pending
    <3>3. CASE auth' = NoAttempt
      BY <3>3, StylesAre
    <3>4. QED
      BY <1>9, <3>1, <3>2, <3>3 DEF Announces
  <2>3. QED
    BY <1>c, <2>1, <2>2
<1>10. CASE HangsUp
  <2>1. UNCHANGED <<app, toDaemon>> /\ ~Joined'
    BY <1>0, <1>10, HungUp DEF HangsUp
  <2>2. QED
    BY <1>0, <2>1 DEF NameInv, Own
<1>11. QED
  BY <1>3, <1>4, <1>5, <1>6, <1>7, <1>8, <1>9, <1>10 DEF Step

-----------------------------------------------------------------------------
(* Theorems. *)

LEMMA InitInv ==
    ASSUME Init
    PROVE  LoginInvariant
<1> USE DEF Init
<1>1. disk \in Session /\ Nothing \in Session
  BY DEF Session, Nothing, AnyUser, AnyCommand
<1>2. app \in Apps /\ Clear(app)
  BY <1>1, LoginAssumption, Boots
<1>3. DOMAIN toDaemon = {} /\ DOMAIN toGreeter = {}
  OBVIOUS
<1>4. Shaped
  <2>1. toDaemon \in Seq(Requests) /\ toGreeter \in Seq([what : Answers \cup Events, mine : BOOLEAN])
    OBVIOUS
  <2>2. QED
    BY <1>1, <1>2, <2>1, Values DEF Shaped
<1>5. ChannelInv /\ StaleInv /\ StartInv /\ ReplyInv
  BY <1>3, Values DEF ChannelInv, StaleInv, Stale, StartInv, Own, ReplyInv
<1>6. ScreenInv /\ NameInv
  BY <1>2, <1>3, StylesAre DEF ScreenInv, NameInv, Clear
<1>7. QED
  BY <1>4, <1>5, <1>6 DEF LoginInvariant

LEMMA StepInv ==
    ASSUME LoginInvariant, [Next]_vars
    PROVE  LoginInvariant'
<1>1. Step /\ Forms'
  <2>1. CASE Next
    BY <2>1, OneStep
  <2>2. CASE UNCHANGED vars
    <3>1. Edits
      BY <2>2 DEF vars, Edits, Keeps
    <3>2. Forms
      BY DEF LoginInvariant, Shaped, Forms
    <3>3. QED
      BY <2>2, <3>1, <3>2 DEF vars, Step, Forms
  <2>3. QED
    BY <2>1, <2>2
<1>2. QED
  BY <1>1, ShapeKept, ChannelKept, StaleKept, StartKept, ReplyKept, ScreenKept, NameKept
  DEF LoginInvariant

\* The requests on the socket, the replies, the screen and the daemon's attempt
\* always fit together, across events, re-execution, fallback and lost channels.
THEOREM LoginInvariantHolds == Spec => []LoginInvariant
<1>1. Init => LoginInvariant
  BY InitInv
<1>2. LoginInvariant /\ [Next]_vars => LoginInvariant'
  BY StepInv
<1>3. QED
  BY <1>1, <1>2, PTL DEF Spec

LEMMA WhenQuiet ==
    ASSUME LoginInvariant, Quiet
    PROVE  /\ app.stage \in Styles => (Pending /\ auth.style = app.stage)
           /\ app.stage = "ready" => auth.state = "ready"
           /\ Joined /\ ~Own("create")
<1>1. DOMAIN toDaemon = {} /\ DOMAIN toGreeter = {} /\ up /\ ~app.busy
  BY DEF Quiet, AtRest
<1>2. Joined /\ ~Deciding /\ ~Expiring /\ ~Leaving /\ ~Own("create")
  BY <1>1, NotDeciding DEF Quiet, AtRest, Joined, Closed, ToSet, Expiring, Leaving, Own
<1>3. QED
  BY <1>2 DEF LoginInvariant, ScreenInv

\* A front end at rest shows what the daemon's attempt asks, and offers to start
\* a session only on an attempt the daemon accepted (handle_conversation_answer).
THEOREM ScreenInStep == Spec => []InStep
<1>1. LoginInvariant => InStep
  BY WhenQuiet DEF InStep
<1>2. QED
  BY <1>1, LoginInvariantHolds, PTL

\* A start the front end sends is never refused: nothing between the verdict and
\* the request takes the attempt away (start_selected_session).
THEOREM StartsHonoured == Spec => []StartHonoured
<1>1. ASSUME LoginInvariant PROVE StartHonoured
  <2>1. Reply("refused", TRUE).mine /\ Reply("refused", TRUE).what # "ok"
    BY DEF Reply
  <2>2. QED
    BY <1>1, <2>1 DEF LoginInvariant, StartInv, StartHonoured, ToSet
<1>2. QED
  BY <1>1, LoginInvariantHolds, PTL

\* The name a front end keeps for a conversation is lost or right, never another
\* user's (create_session_for_username).
THEOREM NeverTakenForAnother == Spec => []NeverMisnamed
<1>1. ASSUME LoginInvariant PROVE NeverMisnamed
  <2>1. SUFFICES ASSUME Quiet, app.stage # "name" PROVE app.name \in {NoUser, auth.user}
    BY DEF NeverMisnamed
  <2>2. app.stage \in Styles \cup {"ready"}
    BY <1>1, <2>1 DEF LoginInvariant, Shaped, Apps, Stages
  <2>3. auth.state # "none" /\ Joined /\ ~Own("create")
    BY <1>1, <2>1, <2>2, WhenQuiet DEF Pending
  <2>4. QED
    BY <1>1, <2>3 DEF LoginInvariant, NameInv
<1>2. QED
  BY <1>1, LoginInvariantHolds, PTL

-----------------------------------------------------------------------------
(* The bounds of the counters. *)

\* What is written is added, and what is read is taken off.
LEMMA Wrote ==
    ASSUME Queues, NEW x \in Replied, NEW y \in Replied, Send(<<x>>) \/ Send(<<x, y>>)
    PROVE  \A i \in DOMAIN toGreeter' :
              (i \in DOMAIN toGreeter /\ toGreeter'[i] = toGreeter[i]) \/ toGreeter'[i] \in {x, y}
<1>1. toGreeter' \in {toGreeter, Append(toGreeter, x), Append(Append(toGreeter, x), y)}
  BY Pushed DEF Queues, Send
<1>2. Append(toGreeter, x) \in Seq(Replied)
  BY Appended DEF Queues
<1>3. \A i \in DOMAIN Append(toGreeter, x) :
          (i \in DOMAIN toGreeter /\ Append(toGreeter, x)[i] = toGreeter[i]) \/ Append(toGreeter, x)[i] = x
  BY Appended DEF Queues
<1> DEFINE q == Append(toGreeter, x)
<1> HIDE DEF q
<1>4. \A i \in DOMAIN Append(q, y) : (i \in DOMAIN q /\ Append(q, y)[i] = q[i]) \/ Append(q, y)[i] = y
  BY <1>2, Appended DEF q
<1>5. toGreeter' \in {toGreeter, q, Append(q, y)}
  BY <1>1 DEF q
<1>6. \A i \in DOMAIN q : (i \in DOMAIN toGreeter /\ q[i] = toGreeter[i]) \/ q[i] = x
  BY <1>3 DEF q
<1>7. QED
  BY <1>4, <1>5, <1>6

LEMMA RetryWritten ==
    ASSUME Queues, RetryInv, UNCHANGED attempts, NEW x \in Replied, NEW y \in Replied,
           Send(<<x>>) \/ Send(<<x, y>>),
           \A z \in {x, y} : z.mine /\ z.what = "auth_retryable" => attempts < MaxAttempts
    PROVE  RetryInv'
BY Wrote DEF RetryInv

LEMMA RetryRead ==
    ASSUME Queues, RetryInv, UNCHANGED attempts, Pops
    PROVE  RetryInv'
BY Rest DEF RetryInv

LEMMA RetryServed ==
    ASSUME LoginInvariant, RetryInv, DaemonServes, UNCHANGED attempts
    PROVE  RetryInv'
<1>1. Queues
  BY QueuesHold
<1>2. ASSUME NEW w \in Answers, toDaemon # <<>>, Send(<<Respond(w)>>),
             w = "auth_retryable" => attempts < MaxAttempts
      PROVE  RetryInv'
  <2>1. Respond(w) \in Replied /\ Respond(w).what = w
    BY <1>1, <1>2, Responds
  <2>2. \A z \in {Respond(w)} : z.mine /\ z.what = "auth_retryable" => attempts < MaxAttempts
    BY <1>2, <2>1
  <2>3. QED
    BY <1>1, <1>2, <2>1, <2>2, RetryWritten
<1>3. /\ Answers = {"ok", "input", "note", "ready", "auth_failed", "auth_retryable", "refused"}
      /\ Styles = {"input", "note"}
  BY DEF Answers, Styles
<1>p. ASSUME NEW w \in Answers, toDaemon # <<>>, PassOn(w), w # "auth_retryable" PROVE RetryInv'
  <2>1. UNCHANGED <<toGreeter, attempts>> => RetryInv'
    BY DEF RetryInv
  <2>2. QED
    BY <1>2, <1>p, <2>1 DEF PassOn
<1>4. ASSUME NEW u, toDaemon # <<>>, WorkerSays(u) PROVE RetryInv'
  BY <1>2, <1>3, <1>p, <1>4 DEF WorkerSays
<1>5. CASE ServeCreate \/ ServeContinue
  <2>1. toDaemon # <<>> /\ \/ \E u : WorkerSays(u)
                           \/ Send(<<Respond("refused")>>)
    BY <1>5 DEF ServeCreate, ServeContinue, Serving
  <2>2. QED
    BY <1>2, <1>3, <1>4, <2>1
<1>6. CASE ServeCancel \/ ServePower
  <2>1. toDaemon # <<>> /\ \E w \in {"ok", "refused"} : Send(<<Respond(w)>>)
    BY <1>6 DEF ServeCancel, ServePower, Serving
  <2>2. QED
    BY <1>2, <1>3, <2>1
<1>7. CASE ServeStart
  <2>1. toDaemon # <<>> /\ (Send(<<Respond("refused")>>) \/ Send(<<Respond("ok"), Event("starting")>>))
    BY <1>7 DEF ServeStart, Serving
  <2>2. CASE Send(<<Respond("refused")>>)
    BY <1>2, <1>3, <2>1, <2>2
  <2>3. CASE Send(<<Respond("ok"), Event("starting")>>)
    <3>1. Respond("ok") \in Replied /\ Respond("ok").what = "ok"
      BY <1>1, <1>3, <2>1, Responds
    <3>2. Event("starting") \in Replied /\ ~Event("starting").mine
      BY Values DEF Events
    <3>3. \A z \in {Respond("ok"), Event("starting")} :
              z.mine /\ z.what = "auth_retryable" => attempts < MaxAttempts
      BY <3>1, <3>2
    <3>4. QED
      BY <1>1, <2>3, <3>1, <3>2, <3>3, RetryWritten
  <2>4. QED
    BY <2>1, <2>2, <2>3
<1>8. QED
  BY <1>5, <1>6, <1>7 DEF DaemonServes

LEMMA RetryTold ==
    ASSUME Queues, RetryInv, UNCHANGED attempts, NEW e \in Events, Send(<<Event(e)>>)
    PROVE  RetryInv'
<1>1. Event(e) \in Replied /\ ~Event(e).mine
  BY Values
<1>2. \A z \in {Event(e)} : z.mine /\ z.what = "auth_retryable" => attempts < MaxAttempts
  BY <1>1
<1>3. QED
  BY <1>1, <1>2, RetryWritten

\* One attempt more, when nothing on the way may be retried.
LEMMA RetryCounted ==
    ASSUME RetryInv, attempts' = attempts + 1, attempts < MaxAttempts, Unowned(toGreeter')
    PROVE  RetryInv'
BY LoginAssumption DEF RetryInv, Unowned

LEMMA RetryKept ==
    ASSUME LoginInvariant, RetryInv, Next
    PROVE  RetryInv'
<1>0. Queues /\ ChannelInv
  BY QueuesHold DEF LoginInvariant
<1>a. UNCHANGED <<toGreeter, attempts>> => RetryInv'
  BY DEF RetryInv
<1>1. CASE UserActs
  <2>1. CASE ClickNext
    <3>1. UNCHANGED toGreeter /\ attempts' = attempts + 1 /\ attempts < MaxAttempts /\ waiting = NotWaiting
      BY <2>1 DEF ClickNext, CreateFor, AtRest, LeaveDaemon
    <3>2. Unowned(toGreeter')
      BY <1>0, <3>1, NoneOwn
    <3>3. QED
      BY <3>1, <3>2, RetryCounted
  <2>2. CASE UserActs /\ ~ClickNext
    <3>1. UNCHANGED <<toGreeter, attempts>>
      BY <2>2 DEF UserActs, TypeName, TypeAnswer, PickSession, CycleFocus, ClickContinue, ClickStart,
                  ClickCancel, ClickPower, LeaveSocket, LeaveDaemon
    <3>2. QED
      BY <1>a, <3>1
  <2>3. QED
    BY <1>1, <2>1, <2>2
<1>2. CASE GreeterReads
  <2>1. CASE ContinueRetried
    <3>1. /\ toGreeter # <<>> /\ toGreeter' = Tail(toGreeter) /\ attempts' = attempts + 1
          /\ Head(toGreeter) \in {Reply(w, TRUE) : w \in {"auth_retryable"}}
      BY <2>1 DEF ContinueRetried, Answered, Reads, CreateFor
    <3>2. Head(toGreeter).mine /\ Head(toGreeter).what = "auth_retryable" /\ Pops
      BY <3>1 DEF Reply, Pops
    <3>3. Unowned(toGreeter') /\ 1 \in DOMAIN toGreeter /\ toGreeter[1] = Head(toGreeter)
      BY <1>0, <3>2, AllRead, Rest
    <3>4. attempts < MaxAttempts
      BY <3>2, <3>3 DEF RetryInv
    <3>5. QED
      BY <3>1, <3>3, <3>4, RetryCounted
  <2>2. CASE HandleReexec
    <3>1. UNCHANGED attempts /\ toGreeter' = Disown(Tail(toGreeter)) /\ toGreeter # <<>>
      BY <2>2 DEF HandleReexec, Reads
    <3>2. Tail(toGreeter) \in Seq(Replied)
      BY <1>0, <3>1, HeadAndTail DEF Queues
    <3>3. Unowned(toGreeter')
      BY <3>1, <3>2, Disowned DEF Unowned
    <3>4. QED
      BY <3>1, <3>3 DEF RetryInv, Unowned
  <2>3. CASE LoseConnection
    BY <1>a, <2>3 DEF LoseConnection
  <2>4. CASE GreeterReads /\ ~ContinueRetried /\ ~HandleReexec /\ ~LoseConnection
    <3>1. Pops /\ UNCHANGED attempts
      BY <2>4 DEF GreeterReads, HandleStarting, HandleWarning, HandleExpired, HandleFinished, SkipResponse,
                  CreateAnswered, ContinueAnswered, CancelAnswered, StartAnswered, PowerAnswered,
                  Answered, Conclude, Reads, Pops, LeaveWriter
    <3>2. QED
      BY <1>0, <3>1, RetryRead
  <2>5. QED
    BY <1>2, <2>1, <2>2, <2>3, <2>4
<1>3. CASE DaemonServes
  <2>1. UNCHANGED attempts
    BY <1>3 DEF DaemonServes, ServeCreate, ServeContinue, ServeCancel, ServeStart, ServePower, Serving, LeaveGreeter
  <2>2. QED
    BY <1>3, <2>1, RetryServed
<1>4. CASE \/ Timer \/ SendReexec \/ HangUp
           \/ \E s \in Session, failed \in BOOLEAN : SessionEnds(s, failed)
  <2>1. UNCHANGED attempts /\ \E e \in Events : Send(<<Event(e)>>)
    BY <1>4 DEF Timer, TimerWarns, TimerExpires, SendReexec, HangUp, SessionEnds, LeaveGreeter, Events
  <2>2. QED
    BY <1>0, <2>1, RetryTold
<1>5. CASE SpawnSession \/ Dies
  BY <1>a, <1>5 DEF SpawnSession, Dies, LeaveGreeter
<1>6. CASE Restart
  <2>1. UNCHANGED attempts /\ toGreeter' = <<>>
    BY <1>6 DEF Restart
  <2>2. DOMAIN toGreeter' = {}
    BY <2>1
  <2>3. QED
    BY <2>1, <2>2 DEF RetryInv
<1>7. QED
  BY <1>1, <1>2, <1>3, <1>4, <1>5, <1>6 DEF Next, Launch

LEMMA OneStartAsked ==
    ASSUME Queues, OneStart, NEW r \in Requests, toDaemon' = Append(toDaemon, r), UNCHANGED started,
           r.kind = "start" => toDaemon = <<>> /\ started < MaxSessions
    PROVE  OneStart'
<1>1. \A i \in DOMAIN toDaemon' :
          (i \in DOMAIN toDaemon /\ toDaemon'[i] = toDaemon[i]) \/ (i = Len(toDaemon) + 1 /\ toDaemon'[i] = r)
  BY Appended DEF Queues
<1>2. CASE r.kind = "start"
  <2>1. DOMAIN toDaemon = {} /\ started < MaxSessions
    BY <1>2
  <2>2. QED
    BY <1>1, <2>1 DEF OneStart
<1>3. CASE r.kind # "start"
  BY <1>1, <1>3 DEF OneStart
<1>4. QED
  BY <1>2, <1>3

LEMMA OneStartServed ==
    ASSUME Queues, OneStart, toDaemon # <<>>, toDaemon' = Tail(toDaemon),
           started' = started \/ (Head(toDaemon).kind = "start")
    PROVE  OneStart'
<1>1. /\ 1 \in DOMAIN toDaemon /\ toDaemon[1] = Head(toDaemon)
      /\ \A i \in DOMAIN toDaemon' : i \in Nat /\ i + 1 \in DOMAIN toDaemon /\ i + 1 # 1
                                     /\ toDaemon'[i] = toDaemon[i + 1]
  BY RestServed
<1>2. CASE Head(toDaemon).kind = "start"
  <2>1. \A i \in DOMAIN toDaemon' : toDaemon'[i].kind # "start"
    BY <1>1, <1>2 DEF OneStart
  <2>2. QED
    BY <2>1 DEF OneStart
<1>3. CASE started' = started
  <2>1. ASSUME NEW i \in DOMAIN toDaemon', NEW j \in DOMAIN toDaemon', toDaemon'[i].kind = "start"
        PROVE  started' < MaxSessions /\ (toDaemon'[j].kind = "start" => i = j)
    <3>1. i + 1 \in DOMAIN toDaemon /\ j + 1 \in DOMAIN toDaemon /\ i \in Nat /\ j \in Nat
          /\ toDaemon[i + 1] = toDaemon'[i] /\ toDaemon[j + 1] = toDaemon'[j]
      BY <1>1
    <3>2. started < MaxSessions /\ (toDaemon[j + 1].kind = "start" => i + 1 = j + 1)
      BY <2>1, <3>1 DEF OneStart
    <3>3. QED
      BY <1>3, <3>1, <3>2
  <2>2. QED
    BY <2>1 DEF OneStart
<1>4. QED
  BY <1>2, <1>3

\* An empty socket: the front end at rest asks to start a session it was
\* offered, and nothing an earlier image asked is left.
LEMMA StartAsked ==
    ASSUME LoginInvariant, ClickStart
    PROVE  toDaemon = <<>>
<1>1. Queues /\ ChannelInv /\ StaleInv
  BY QueuesHold DEF LoginInvariant
<1>2. Unowned(toDaemon)
  BY <1>1, NoneOwn DEF ClickStart, AtRest
<1>3. ~Stale
  BY <1>1 DEF ClickStart, StaleInv
<1>4. SUFFICES ASSUME toDaemon # <<>> PROVE FALSE
  OBVIOUS
<1>5. 1 \in DOMAIN toDaemon
  BY <1>1, <1>4, HeadAndTail DEF Queues
<1>6. QED
  BY <1>2, <1>3, <1>5 DEF Unowned, Stale

LEMMA OneStartKept ==
    ASSUME LoginInvariant, StartedInv, OneStart, Next
    PROVE  OneStart'
<1>0. Queues /\ ChannelInv
  BY QueuesHold DEF LoginInvariant
<1>a. UNCHANGED <<toDaemon, started>> => OneStart'
  BY DEF OneStart
<1>b. ASSUME NEW kind \in Kinds, NEW u \in AnyUser, NEW c \in AnyCommand, Request(kind, u, c), UNCHANGED started,
             kind = "start" => toDaemon = <<>> /\ started < MaxSessions
      PROVE  OneStart'
  <2>1. waiting' \in Requests /\ waiting'.kind = kind /\ toDaemon' = Append(toDaemon, waiting')
    BY <1>b, Requested
  <2>2. QED
    BY <1>0, <1>b, <2>1, OneStartAsked
<1>c. app.name \in AnyUser /\ app.entry \in AnyUser /\ app.chosen \in AnyCommand /\ NoUser \in AnyUser
      /\ NoCommand \in AnyCommand /\ waiting.user \in AnyUser
      /\ Kinds = {"create", "continue", "cancel", "start", "power"}
  <2>1. waiting \in Requests \cup {NotWaiting}
    BY <1>0 DEF Queues
  <2>2. waiting.user \in AnyUser
    BY <2>1 DEF Requests, NotWaiting, Ask, AnyUser
  <2>3. QED
    BY <2>2 DEF LoginInvariant, Shaped, Apps, AnyUser, AnyCommand, Kinds
<1>1. CASE UserActs
  <2>1. CASE ClickNext
    BY <1>b, <1>c, <2>1 DEF ClickNext, CreateFor, LeaveDaemon, daemonVars
  <2>2. CASE ClickContinue
    BY <1>b, <1>c, <2>2 DEF ClickContinue, LeaveDaemon, daemonVars
  <2>3. CASE ClickStart
    <3>1. toDaemon = <<>>
      BY <2>3, StartAsked
    <3>2. Request("start", NoUser, app.chosen) /\ UNCHANGED started /\ started < MaxSessions
      BY <2>3 DEF ClickStart, LeaveDaemon, daemonVars
    <3>3. QED
      BY <1>b, <1>c, <3>1, <3>2
  <2>4. CASE ClickCancel
    BY <1>b, <1>c, <2>4 DEF ClickCancel, LeaveDaemon, daemonVars
  <2>5. CASE ClickPower
    BY <1>b, <1>c, <2>5 DEF ClickPower, LeaveDaemon, daemonVars
  <2>6. CASE \/ \E u \in AnyUser : TypeName(u)
             \/ \E fits \in BOOLEAN : TypeAnswer(fits)
             \/ \E c \in Command : PickSession(c)
             \/ CycleFocus
    BY <1>a, <2>6 DEF TypeName, TypeAnswer, PickSession, CycleFocus, LeaveSocket, LeaveDaemon, daemonVars
  <2>7. QED
    BY <1>1, <2>1, <2>2, <2>3, <2>4, <2>5, <2>6 DEF UserActs
<1>2. CASE GreeterReads
  <2>1. UNCHANGED started
    BY <1>2 DEF GreeterReads, HandleStarting, HandleWarning, HandleExpired, HandleFinished, HandleReexec,
                LoseConnection, SkipResponse, CreateAnswered, ContinueAnswered, ContinueRetried,
                CancelAnswered, StartAnswered, PowerAnswered, Answered, LeaveWriter, daemonVars
  <2>2. CASE HandleReexec
    <3>1. toDaemon' = Disown(toDaemon) /\ toDaemon \in Seq(Requests)
      BY <1>0, <2>2 DEF HandleReexec, Queues
    <3>2. DOMAIN toDaemon' = DOMAIN toDaemon
          /\ \A i \in DOMAIN toDaemon : toDaemon'[i] = [toDaemon[i] EXCEPT !.mine = FALSE]
      BY <3>1, Disowned
    <3>3. \A r \in Requests : [r EXCEPT !.mine = FALSE].kind = r.kind
      BY DEF Requests
    <3>4. \A i \in DOMAIN toDaemon : toDaemon[i] \in Requests
      BY <3>1
    <3>5. \A i \in DOMAIN toDaemon : toDaemon'[i].kind = toDaemon[i].kind
      BY <3>2, <3>3, <3>4
    <3>6. QED
      BY <2>1, <3>2, <3>5 DEF OneStart
  <2>3. CASE ContinueRetried
    <3>1. Request("create", waiting.user, NoCommand)
      BY <2>3 DEF ContinueRetried, CreateFor
    <3>2. QED
      BY <1>b, <1>c, <2>1, <3>1
  <2>4. CASE GreeterReads /\ ~HandleReexec /\ ~ContinueRetried
    <3>1. UNCHANGED toDaemon
      BY <2>4 DEF GreeterReads, HandleStarting, HandleWarning, HandleExpired, HandleFinished,
                  LoseConnection, SkipResponse, CreateAnswered, ContinueAnswered,
                  CancelAnswered, StartAnswered, PowerAnswered, Conclude, LeaveWriter
    <3>2. QED
      BY <1>a, <2>1, <3>1
  <2>5. QED
    BY <1>2, <2>2, <2>3, <2>4
<1>3. CASE DaemonServes
  <2>1. toDaemon # <<>> /\ toDaemon' = Tail(toDaemon)
    BY <1>3 DEF DaemonServes, ServeCreate, ServeContinue, ServeCancel, ServeStart, ServePower, Serving
  <2>2. started' = started \/ Head(toDaemon).kind = "start"
    BY <1>3 DEF DaemonServes, ServeCreate, ServeContinue, ServeCancel, ServeStart, ServePower, Serving, LeaveSessions
  <2>3. QED
    BY <1>0, <2>1, <2>2, OneStartServed
<1>4. CASE Timer \/ Launch \/ HangUp \/ Dies \/ \E s \in Session, failed \in BOOLEAN : SessionEnds(s, failed)
  BY <1>a, <1>4 DEF Timer, TimerWarns, TimerExpires, Launch, SpawnSession, SendReexec, HangUp, Dies, SessionEnds,
                    LeaveSessions, daemonVars
<1>5. CASE Restart
  <2>1. toDaemon' = <<>>
    BY <1>5 DEF Restart
  <2>2. DOMAIN toDaemon' = {}
    BY <2>1
  <2>3. QED
    BY <2>2 DEF OneStart
<1>6. QED
  BY <1>1, <1>2, <1>3, <1>4, <1>5 DEF Next

LEMMA StartedKept ==
    ASSUME LoginInvariant, StartedInv, OneStart, Next
    PROVE  StartedInv'
<1>0. Queues /\ launching.session \in Session /\ launching.stage \in {"no", "spawn", "announce"}
  BY QueuesHold DEF LoginInvariant, Shaped
<1>a. ASSUME UNCHANGED <<running, latest, started>>, launching'.stage = "spawn" => launching.stage = "spawn"
      PROVE  StartedInv'
  BY <1>a DEF StartedInv
<1>1. CASE UserActs \/ GreeterReads \/ Dies \/ Restart
  <2>1. UNCHANGED <<running, latest, started, launching>>
    BY <1>1 DEF UserActs, TypeName, TypeAnswer, PickSession, CycleFocus, ClickNext, ClickContinue, ClickStart,
                ClickCancel, ClickPower, LeaveSocket, LeaveDaemon, daemonVars,
                GreeterReads, HandleStarting, HandleWarning, HandleExpired, HandleFinished, HandleReexec,
                LoseConnection, SkipResponse, CreateAnswered, ContinueAnswered, ContinueRetried,
                CancelAnswered, StartAnswered, PowerAnswered, Answered, LeaveWriter, Dies, Restart
  <2>2. QED
    BY <1>a, <2>1
<1>2. CASE DaemonServes /\ ~ServeStart
  <2>1. UNCHANGED <<running, latest, started, launching>>
    BY <1>2 DEF DaemonServes, ServeCreate, ServeContinue, ServeCancel, ServePower, LeaveSessions
  <2>2. QED
    BY <1>a, <2>1
<1>3. CASE ServeStart
  <2>1. /\ toDaemon # <<>> /\ Head(toDaemon).kind = "start" /\ UNCHANGED <<running, latest>>
        /\ launching.stage = "no"
        /\ started' = started + 1 \/ UNCHANGED <<started, launching>>
    BY <1>3 DEF ServeStart, Serving
  <2>2. 1 \in DOMAIN toDaemon /\ toDaemon[1].kind = "start"
    BY <1>0, <2>1, HeadAndTail DEF Queues
  <2>3. started < MaxSessions
    BY <2>2 DEF OneStart
  <2>4. CASE started' = started + 1
    <3>1. started' \in 0..MaxSessions /\ started \in Nat
      BY <2>3, <2>4, LoginAssumption DEF StartedInv
    <3>2. \A s \in Session : running[s] \in Nat /\ running[s] < started'
      BY <2>4, <3>1 DEF StartedInv
    <3>3. \A s \in Session : running[s] <= started' 
      BY <3>1, <3>2
    <3>4. QED
      BY <2>1, <3>1, <3>2, <3>3 DEF StartedInv
  <2>5. QED
    BY <1>a, <2>1, <2>4
<1>4. CASE Timer \/ SendReexec \/ HangUp
  <2>1. UNCHANGED <<running, latest, started>> /\ (launching' = launching \/ launching' = NoLaunch)
    BY <1>4 DEF Timer, TimerWarns, TimerExpires, SendReexec, HangUp, LeaveSessions
  <2>2. QED
    BY <1>a, <2>1 DEF NoLaunch
<1>5. CASE SpawnSession
  <2> DEFINE s0 == launching.session
  <2>1. /\ running' = [running EXCEPT ![s0] = @ + 1] /\ UNCHANGED <<latest, started>>
        /\ launching.stage = "spawn" /\ launching' = [launching EXCEPT !.stage = "announce"]
    BY <1>5 DEF SpawnSession
  <2>2. launching'.stage = "announce"
    BY <2>1 DEF LoginInvariant, Shaped
  <2>3. running[s0] < started /\ running[s0] \in Nat /\ started \in Nat /\ started <= MaxSessions
    BY <1>0, <2>1, LoginAssumption DEF StartedInv
  <2> HIDE DEF s0
  <2>4. \A s \in Session : running'[s] = IF s = s0 THEN running[s] + 1 ELSE running[s]
    BY <2>1 DEF StartedInv
  <2>5. \A s \in Session : running'[s] \in 0..MaxSessions /\ running'[s] <= started
    BY <2>3, <2>4, LoginAssumption DEF StartedInv
  <2>6. running' \in [Session -> 0..MaxSessions]
    BY <2>1, <2>5 DEF StartedInv
  <2>7. QED
    BY <2>1, <2>2, <2>5, <2>6 DEF StartedInv
<1>6. ASSUME NEW s0 \in Session, NEW failed \in BOOLEAN, SessionEnds(s0, failed) PROVE StartedInv'
  <2>1. /\ running' = [running EXCEPT ![s0] = @ - 1] /\ running[s0] > 0 /\ UNCHANGED <<launching, started>>
        /\ latest' \in Session
    BY <1>6 DEF SessionEnds, StartedInv
  <2>2. \A s \in Session : running'[s] = IF s = s0 THEN running[s] - 1 ELSE running[s]
    BY <2>1 DEF StartedInv
  <2>3. \A s \in Session : running'[s] \in 0..MaxSessions /\ running'[s] <= running[s]
    BY <2>1, <2>2, LoginAssumption DEF StartedInv
  <2>4. running' \in [Session -> 0..MaxSessions]
    BY <2>1, <2>3 DEF StartedInv
  <2>5. ASSUME NEW s \in Session
        PROVE  running'[s] <= started /\ (launching.stage = "spawn" => running'[s] < started)
    <3>1. running[s] \in Int /\ running'[s] \in Int /\ started \in Int
          /\ running[s] <= started /\ (launching.stage = "spawn" => running[s] < started)
      BY <2>3, LoginAssumption DEF StartedInv
    <3>2. QED
      BY <2>3, <3>1
  <2>6. QED
    BY <2>1, <2>4, <2>5 DEF StartedInv
<1>7. QED
  BY <1>1, <1>2, <1>3, <1>4, <1>5, <1>6 DEF Next, Launch, DaemonServes

\* Every variable keeps its type and every counter its bound: a start is counted
\* when it is served, and what was counted is spawned once (ServeStart,
\* SpawnSession), and a password that may be retried is retried once.
THEOREM TypesHold == Spec => []TypeOK
<1> DEFINE Inv == LoginInvariant /\ StartedInv /\ OneStart /\ RetryInv
<1>1. ASSUME Init PROVE Inv
  <2>1. LoginInvariant
    BY <1>1, InitInv
  <2>2. DOMAIN toDaemon = {} /\ DOMAIN toGreeter = {}
    BY <1>1 DEF Init
  <2>3. OneStart /\ RetryInv
    BY <1>1, <2>2, LoginAssumption DEF Init, OneStart, RetryInv
  <2>4. latest \in Session /\ launching.stage = "no"
    BY <1>1 DEF Init, Nothing, Session, AnyUser, AnyCommand, NoLaunch
  <2>5. StartedInv
    BY <1>1, <2>4, LoginAssumption DEF Init, StartedInv
  <2>6. QED
    BY <2>1, <2>3, <2>5
<1>2. ASSUME Inv, [Next]_vars PROVE Inv'
  <2>1. LoginInvariant'
    BY <1>2, StepInv
  <2>2. CASE Next
    BY <1>2, <2>1, <2>2, StartedKept, OneStartKept, RetryKept
  <2>3. CASE UNCHANGED vars
    BY <1>2, <2>1, <2>3 DEF vars, StartedInv, OneStart, RetryInv
  <2>4. QED
    BY <1>2, <2>2, <2>3
<1>3. Inv => TypeOK
  BY DEF LoginInvariant, Shaped, StartedInv, RetryInv, TypeOK
<1>4. QED
  BY <1>1, <1>2, <1>3, PTL DEF Spec
===============================================================================
