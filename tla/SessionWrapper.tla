--------------------------- MODULE SessionWrapper ---------------------------
(* The session wrappers: session/user.py, session/greeter.py, session/common.py *)
(* and the PAM, terminal and wtmp calls they make.                              *)
(*                                                                              *)
(* A wrapper runs as root: it opens a terminal and a PAM session, forks the     *)
(* program that drops privileges, waits for it and gives everything back. Any   *)
(* call may fail; the daemon may end its process group with SIGTERM, which no   *)
(* wrapper handles. Virtual terminals and the one in front are shared.          *)
EXTENDS Naturals, FiniteSets

CONSTANTS
    Users,       \* wrappers of user sessions
    Greeter,     \* the wrapper of the greeter
    MaxTty,      \* MAX_NR_CONSOLES
    GreeterTty,  \* the terminal the daemon reserved for the greeter
    CloseFails,  \* may the calls that give back fail, in the clean-up?
    Signals,     \* may the daemon send SIGTERM to a wrapper's group?
    MaxFaults    \* bound: failing calls before the clean-up

Wrapper == Users \cup {Greeter}
Tty == 1..MaxTty

ASSUME WrapperAssumption ==
    /\ Greeter \notin Users
    /\ MaxTty \in Nat /\ GreeterTty \in Tty
    /\ CloseFails \in BOOLEAN /\ Signals \in BOOLEAN
    /\ MaxFaults \in Nat

VARIABLES
    pc,      \* place of the wrapper in run_user_session or run_greeter_session
    held,    \* what it opened and did not give back
    tty,     \* number of its terminal, 0 before it has one
    leader,  \* did it call setsid?
    child,   \* the forked process
    hooks,   \* session hooks that were run
    front,   \* the active virtual terminal
    failed,  \* history: what could not be given, or given back
    faults

vars == <<pc, held, tty, leader, child, hooks, front, failed, faults>>

\* gone: it never became the program; done: the program ended.
Ended == {"gone", "done"}

\* fd is the open terminal, tty its being the user's; cred and session are PAM's.
Resources == {"ipc", "console", "fd", "tty", "handle", "cred", "session", "wtmp"}
\* What the kernel does not take back from a process that dies.
Lasting == {"tty", "cred", "session", "wtmp"}

Opening == {"start", "console", "picked", "tty", "leader", "pam", "creds", "open", "ready"}
Closing == {"reaped", "closing", "uncred", "ending", "untty", "exiting"}
Over == {"exited", "killed"}
Places == Opening \cup {"forked", "waiting"} \cup Closing \cup Over \cup {"announced"}

TypeOK ==
    /\ pc \in [Wrapper -> Places]
    /\ held \in [Wrapper -> SUBSET Resources]
    /\ tty \in [Wrapper -> 0..MaxTty]
    /\ leader \in [Wrapper -> BOOLEAN]
    /\ child \in [Wrapper -> {"none", "setup", "astray", "running", "gone", "done"}]
    /\ hooks \in [Wrapper -> SUBSET {"pre", "post"}]
    /\ front \in Tty
    /\ failed \in [Wrapper -> SUBSET {"chown", "setcred", "close", "unchown"}]
    /\ faults \in 0..MaxFaults

\* The greeter's wrapper inherits the channel to the daemon.
Fresh(w) == IF w = Greeter THEN {"ipc"} ELSE {}

Init ==
    /\ pc = [w \in Wrapper |-> "start"]
    /\ held = [w \in Wrapper |-> Fresh(w)]
    /\ tty = [w \in Wrapper |-> 0]
    /\ leader = [w \in Wrapper |-> FALSE]
    /\ child = [w \in Wrapper |-> "none"]
    /\ hooks = [w \in Wrapper |-> {}]
    /\ front = GreeterTty
    /\ failed = [w \in Wrapper |-> {}]
    /\ faults = 0

-----------------------------------------------------------------------------
Goto(w, from, to) == pc[w] = from /\ pc' = [pc EXCEPT ![w] = to]
Take(w, r) == held' = [held EXCEPT ![w] = @ \cup r]
Give(w, r) == held' = [held EXCEPT ![w] = @ \ r]

CannotGive(w, call) == failed' = [failed EXCEPT ![w] = @ \cup {call}]

\* An exception: the wrapper unwinds to the handlers it has entered so far.
Fail(w, from, to) ==
    /\ Goto(w, from, to)
    /\ faults < MaxFaults /\ faults' = faults + 1

\* open_console_fd
OpenConsole(w) ==
    /\ Goto(w, "start", "console") /\ Take(w, {"console"})
    /\ UNCHANGED <<tty, leader, child, hooks, front, failed, faults>>

OpenConsoleFails(w) ==
    /\ Fail(w, "start", "exiting")
    /\ UNCHANGED <<held, tty, leader, child, hooks, front, failed>>

\* A wrapper or the program it left behind has its terminal open.
Uses(w, n) ==
    /\ tty[w] = n
    /\ IF pc[w] \in Over \cup {"announced"} THEN child[w] = "running" ELSE "fd" \in held[w]

\* VT_OPENQRY answers the first terminal nobody has open.
FreeTtys == {n \in Tty : \A w \in Wrapper : ~Uses(w, n)}

FirstFree == {n \in FreeTtys : \A k \in FreeTtys : n <= k}

\* TTYdevice: the greeter's number is given, a user session asks for one.
PickTty(w) ==
    /\ Goto(w, "console", "picked")
    /\ \E n \in IF w = Greeter THEN {GreeterTty} ELSE FirstFree :
           tty' = [tty EXCEPT ![w] = n]
    /\ UNCHANGED <<held, leader, child, hooks, front, failed, faults>>

\* No free terminal is a RuntimeError, and so is a query that fails.
NoTty(w) ==
    /\ w \in Users
    /\ Goto(w, "console", "exiting")
    /\ FreeTtys # {} => faults < MaxFaults
    /\ faults' = IF FreeTtys = {} THEN faults ELSE faults + 1
    /\ UNCHANGED <<held, tty, leader, child, hooks, front, failed>>

\* The device is opened and given to the user.
OpenTty(w) ==
    /\ Goto(w, "picked", "tty") /\ Take(w, {"fd", "tty"})
    /\ UNCHANGED <<tty, leader, child, hooks, front, failed, faults>>

\* It cannot be opened; or it cannot be given away, and nothing closes it: the
\* object whose close would do it was never made.
OpenTtyFails(w) ==
    /\ Fail(w, "picked", "exiting")
    /\ \/ UNCHANGED <<held, failed>>
       \/ Take(w, {"fd"}) /\ CannotGive(w, "chown")
    /\ UNCHANGED <<tty, leader, child, hooks, front>>

\* prepare_terminal: switch, setsid, then the controlling terminal.
PrepareTerminal(w) ==
    /\ \/ Goto(w, "tty", "leader") /\ UNCHANGED faults
       \/ Fail(w, "tty", "untty")
    /\ front' = tty[w]
    /\ leader' = [leader EXCEPT ![w] = TRUE]
    /\ UNCHANGED <<held, tty, child, hooks, failed>>

\* pam_start
StartPam(w) ==
    /\ Goto(w, "leader", "pam") /\ Take(w, {"handle"})
    /\ UNCHANGED <<tty, leader, child, hooks, front, failed, faults>>

StartPamFails(w) ==
    /\ Fail(w, "leader", "untty")
    /\ UNCHANGED <<held, tty, leader, child, hooks, front, failed>>

\* open_pam_session checks the account and establishes credentials.
EstablishCred(w) ==
    /\ w \in Users
    /\ Goto(w, "pam", "creds") /\ Take(w, {"cred"})
    /\ UNCHANGED <<tty, leader, child, hooks, front, failed, faults>>

\* open_pam_session goes on to pam_open_session; open_pam_session_only is all of
\* it for the greeter.
OpenSession(w) ==
    /\ Goto(w, IF w = Greeter THEN "pam" ELSE "creds", "open") /\ Take(w, {"session"})
    /\ UNCHANGED <<tty, leader, child, hooks, front, failed, faults>>

\* Slip: the transaction of a refused session is not ended.
PamRefusesUnended(w) ==
    /\ \E from \in {"pam", "creds"} : Fail(w, from, "untty")
    /\ UNCHANGED <<held, tty, leader, child, hooks, front, failed>>

\* An item, a variable, the account, the credentials or the session is refused:
\* the finally clause still closes what was not opened.
PamRefuses(w) ==
    /\ \E from \in {"pam", "creds"} : Fail(w, from, "closing")
    /\ UNCHANGED <<held, tty, leader, child, hooks, front, failed>>

RunHook(w, hook) == hooks' = [hooks EXCEPT ![w] = @ \cup {hook}]

\* A session hook is configured for user sessions only.
PreHook(w) ==
    /\ Goto(w, "open", "ready")
    /\ IF w = Greeter THEN UNCHANGED <<hooks>> ELSE RunHook(w, "pre")
    /\ UNCHANGED <<held, tty, leader, child, front, failed, faults>>

\* A hook that exits with a status, or cannot be run, ends the session.
PreHookFails(w) ==
    /\ w \in Users
    /\ Fail(w, "open", "closing") /\ RunHook(w, "pre")
    /\ UNCHANGED <<held, tty, leader, child, front, failed>>

Fork(w) ==
    /\ Goto(w, "ready", "forked")
    /\ child' = [child EXCEPT ![w] = "setup"]
    /\ UNCHANGED <<held, tty, leader, hooks, front, failed, faults>>

ForkFails(w) ==
    /\ Fail(w, "ready", "closing")
    /\ UNCHANGED <<held, tty, leader, child, hooks, front, failed>>

\* The parent: wtmp.login for a user, its copy of the channel closed for the
\* greeter.
ParentGoesOn(w) ==
    /\ Goto(w, "forked", "waiting")
    /\ IF w = Greeter THEN Give(w, {"ipc"}) ELSE Take(w, {"wtmp"})
    /\ UNCHANGED <<tty, leader, child, hooks, front, failed, faults>>

\* Slip: waitpid with WNOHANG.
ReapEarly(w) ==
    /\ Goto(w, "waiting", IF w = Greeter THEN "closing" ELSE "reaped")
    /\ UNCHANGED <<held, tty, leader, child, hooks, front, failed, faults>>

\* Slip: a session that failed returns before its post hook.
ReapNoHook(w) ==
    /\ child[w] \in Ended
    /\ \E next \in {"closing", "reaped"} :
          Goto(w, "waiting", IF w = Greeter THEN "closing" ELSE next)
    /\ UNCHANGED <<held, tty, leader, child, hooks, front, failed, faults>>

\* waitpid returns.
Reap(w) ==
    /\ child[w] \in Ended /\ Goto(w, "waiting", IF w = Greeter THEN "closing" ELSE "reaped")
    /\ UNCHANGED <<held, tty, leader, child, hooks, front, failed, faults>>

\* The post hook: a status is only logged, an exception fails the wrapper.
PostHook(w) ==
    /\ Goto(w, "reaped", "closing") /\ RunHook(w, "post")
    /\ UNCHANGED <<held, tty, leader, child, front, failed, faults>>

\* close_pam_session of pam/funcs.py. The first call that fails is the last one, and
\* what it raises is only logged: the transaction is ended all the same.
DeleteCred(w) ==
    /\ Goto(w, "closing", "uncred") /\ Give(w, {"cred"})
    /\ UNCHANGED <<tty, leader, child, hooks, front, failed, faults>>

DeleteCredFails(w) ==
    /\ CloseFails /\ Goto(w, "closing", "ending") /\ CannotGive(w, "setcred")
    /\ UNCHANGED <<held, tty, leader, child, hooks, front, faults>>

CloseSession(w) ==
    /\ Goto(w, "uncred", "ending") /\ Give(w, {"session"})
    /\ UNCHANGED <<tty, leader, child, hooks, front, failed, faults>>

CloseSessionFails(w) ==
    /\ CloseFails /\ Goto(w, "uncred", "ending") /\ CannotGive(w, "close")
    /\ UNCHANGED <<held, tty, leader, child, hooks, front, faults>>

EndPam(w) ==
    /\ Goto(w, "ending", "untty") /\ Give(w, {"handle"})
    /\ UNCHANGED <<tty, leader, child, hooks, front, failed, faults>>

\* wtmp.logout of a session that was logged in, and TTYdevice.close, which does not
\* close a terminal it cannot take back.
CloseTty(w) ==
    /\ Goto(w, "untty", "exiting") /\ Give(w, {"wtmp", "fd", "tty"})
    /\ UNCHANGED <<tty, leader, child, hooks, front, failed, faults>>

CloseTtyFails(w) ==
    /\ CloseFails /\ Goto(w, "untty", "exiting") /\ Give(w, {"wtmp"}) /\ CannotGive(w, "unchown")
    /\ UNCHANGED <<tty, leader, child, hooks, front, faults>>

\* The console and, for a greeter that never forked, the channel.
Leave(w) ==
    /\ Goto(w, "exiting", "exited") /\ Give(w, {"console", "ipc"})
    /\ UNCHANGED <<tty, leader, child, hooks, front, failed, faults>>

-----------------------------------------------------------------------------
(* The child between fork and exec, and the program it becomes. *)

Become(w, from, to) == child[w] = from /\ child' = [child EXCEPT ![w] = to]

ChildExecs(w) ==
    /\ Become(w, "setup", "running")
    /\ UNCHANGED <<pc, held, tty, leader, hooks, front, failed, faults>>

\* os._exit(1): for a user at any exception, for the greeter once prog_args is
\* bound.
ChildFails(w) ==
    /\ Become(w, "setup", "gone")
    /\ faults < MaxFaults /\ faults' = faults + 1
    /\ UNCHANGED <<pc, held, tty, leader, hooks, front, failed>>

\* drop_privileges or build_greeter_argv raises: the handler names prog_args,
\* which is not bound, and that exception unwinds the parent's frames.
ChildGoesAstray(w) ==
    /\ w = Greeter
    /\ Become(w, "setup", "astray")
    /\ faults < MaxFaults /\ faults' = faults + 1
    /\ UNCHANGED <<pc, held, tty, leader, hooks, front, failed>>

\* The child runs close_pam_session and TTYdevice.close on what it shares with
\* the parent, with the privileges it has left, and exits through cmd_main.
AstrayCloses(w) ==
    /\ Become(w, "astray", "gone")
    /\ \E closed \in SUBSET {"cred", "session"} : Give(w, closed)
    /\ UNCHANGED <<pc, tty, leader, hooks, front, failed, faults>>

ProgramEnds(w) ==
    /\ Become(w, "running", "done")
    /\ UNCHANGED <<pc, held, tty, leader, hooks, front, failed, faults>>

-----------------------------------------------------------------------------
(* The daemon. *)

\* terminate_process_group: the group exists once the wrapper called setsid. The
\* wrapper dies of the signal, the program may take its time.
Terminate(w) ==
    /\ Signals /\ leader[w] /\ pc[w] \notin Over \cup {"announced"}
    /\ pc' = [pc EXCEPT ![w] = "killed"]
    /\ held' = [held EXCEPT ![w] = @ \cap Lasting]
    /\ child' = [child EXCEPT ![w] = IF @ \in {"setup", "astray"} THEN "gone" ELSE @]
    /\ UNCHANGED <<tty, leader, hooks, front, failed, faults>>

\* Slip: the console is left where the session was.
AnnounceInPlace(w) ==
    /\ w \in Users
    /\ \E over \in Over : Goto(w, over, "announced")
    /\ UNCHANGED <<held, tty, leader, child, hooks, front, failed, faults>>

\* Slip: a wrapper ended by a signal is not announced.
AnnounceExited(w) ==
    /\ w \in Users
    /\ Goto(w, "exited", "announced")
    /\ front' = GreeterTty
    /\ UNCHANGED <<held, tty, leader, child, hooks, failed, faults>>

\* send_session_finished brings the greeter's terminal to the front, whatever
\* is there.
Announce(w) ==
    /\ w \in Users
    /\ \E over \in Over : Goto(w, over, "announced")
    /\ front' = GreeterTty
    /\ UNCHANGED <<held, tty, leader, child, hooks, failed, faults>>

-----------------------------------------------------------------------------
Opens(w) ==
    \/ OpenConsole(w) \/ PickTty(w) \/ OpenTty(w) \/ PrepareTerminal(w)
    \/ StartPam(w) \/ EstablishCred(w) \/ OpenSession(w) \/ PreHook(w) \/ Fork(w)
    \/ ParentGoesOn(w)

Closes(w) ==
    \/ Reap(w) \/ PostHook(w) \/ DeleteCred(w) \/ DeleteCredFails(w)
    \/ CloseSession(w) \/ CloseSessionFails(w) \/ EndPam(w)
    \/ CloseTty(w) \/ CloseTtyFails(w) \/ Leave(w)

Fails(w) ==
    \/ OpenConsoleFails(w) \/ NoTty(w) \/ OpenTtyFails(w) \/ StartPamFails(w) \/ PamRefuses(w)
    \/ PreHookFails(w) \/ ForkFails(w)

Child(w) == ChildExecs(w) \/ ChildFails(w) \/ ChildGoesAstray(w) \/ AstrayCloses(w) \/ ProgramEnds(w)

Next == \E w \in Wrapper : Opens(w) \/ Closes(w) \/ Fails(w) \/ Child(w) \/ Terminate(w) \/ Announce(w)

Spec == Init /\ [][Next]_vars

\* A wrapper runs, the calls and hooks it makes return, a child gets to its exec
\* or fails, and the daemon's monitor notices the end.
Fairness ==
    \A w \in Wrapper :
        /\ WF_vars(Opens(w)) /\ WF_vars(Closes(w))
        /\ WF_vars(ChildExecs(w)) /\ WF_vars(AstrayCloses(w))
        /\ WF_vars(Announce(w))

FairSpec == Spec /\ Fairness

-----------------------------------------------------------------------------
(* Properties. *)

\* Whatever calls fail, on the way in or out, a wrapper that exits by itself has
\* given back all it opened (the nested with and finally clauses), except what a
\* failing call of its own stands for: credentials pam_setcred would not delete, a PAM
\* session pam_close_session would not close or was not asked to after pam_setcred, a
\* terminal that could not be given to the user or taken back. One that was never the
\* user's stays open only until the process is gone.
LeavesNothing ==
    \A w \in Wrapper : pc[w] = "exited" =>
        /\ held[w] \subseteq {"fd", "tty", "cred", "session"}
        /\ "cred" \in held[w] => "setcred" \in failed[w]
        /\ "session" \in held[w] => failed[w] \cap {"setcred", "close"} # {}
        /\ "tty" \in held[w] => "unchown" \in failed[w]
        /\ "fd" \in held[w] => failed[w] \cap {"chown", "unchown"} # {}

Inside(w) == {"fd", "tty", "handle", "session"} \cup (IF w = Greeter THEN {} ELSE {"cred"})

\* While a program runs under its wrapper it has the terminal, the PAM session
\* and its credentials, a user's pre hook was run for it and the post hook was
\* not: no order of failures, no other wrapper and no child that failed to
\* become a program takes them away.
ProgramRunsInside ==
    \A w \in Wrapper :
        child[w] = "running" /\ pc[w] \notin Over \cup {"announced"} =>
            /\ Inside(w) \subseteq held[w]
            /\ pc[w] \in {"forked", "waiting"}
            /\ hooks[w] = IF w = Greeter THEN {} ELSE {"pre"}

\* The terminal in front belongs to the greeter or to a session whose end the
\* daemon has not dealt with: nobody is left looking at a dead console.
ConsoleAccounted ==
    front = GreeterTty
        \/ \E w \in Users : tty[w] = front /\ leader[w] /\ pc[w] # "announced"

\* configuration.md on post-execute: it runs after the user session exits and
\* before the PAM session is closed, even when the session failed; only a wrapper
\* killed by the daemon's signal, which closes no session, does without.
PostHookInTime ==
    [][\A w \in Users :
        /\ "session" \in held[w] \ held'[w] /\ child[w] # "none" => "post" \in hooks[w]
        /\ "post" \in hooks'[w] \ hooks[w] => child[w] \in Ended /\ "session" \in held[w]]_vars

\* Once the program is gone the wrapper ends and the daemon puts the greeter in
\* front again.
EndsWithProgram == \A w \in Users : (child[w] \in Ended) ~> (pc[w] = "announced")
=============================================================================
