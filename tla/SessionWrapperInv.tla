-------------------------- MODULE SessionWrapperInv --------------------------
(* The inductive invariant of the session wrappers, one wrapper at a time. *)
EXTENDS SessionWrapper

\* What a wrapper can hold at each place, at most.
AtMost(w) ==
    /\ pc[w] \in {"start", "console", "picked"} => held[w] \subseteq {"ipc", "console"}
    /\ pc[w] \in {"tty", "leader"} => held[w] \subseteq {"ipc", "console", "fd", "tty"}
    /\ pc[w] = "pam" => held[w] \subseteq {"ipc", "console", "fd", "tty", "handle"}
    /\ pc[w] \in {"untty", "exiting", "exited"} => "handle" \notin held[w]
    /\ pc[w] \in {"exiting", "exited"} => "wtmp" \notin held[w]
    /\ pc[w] = "exited" => "console" \notin held[w] /\ "ipc" \notin held[w]
    /\ w = Greeter => "cred" \notin held[w]

\* What the clean-up passed by is what it could not give back.
LeftBehind(w) ==
    /\ pc[w] \in {"uncred", "ending", "untty", "exiting", "exited"} /\ "cred" \in held[w]
            => "setcred" \in failed[w]
    /\ pc[w] \in {"ending", "untty", "exiting", "exited"} /\ "session" \in held[w]
            => failed[w] \cap {"setcred", "close"} # {}
    /\ pc[w] \in {"exiting", "exited"} /\ "tty" \in held[w] => "unchown" \in failed[w]
    /\ pc[w] \in {"exiting", "exited"} /\ "fd" \in held[w]
            => failed[w] \cap {"chown", "unchown"} # {}

\* What it holds, at least, before the fork and while the child may run.
AtLeast(w) ==
    /\ pc[w] \in {"tty", "leader", "pam", "creds"} => {"fd", "tty"} \subseteq held[w]
    /\ pc[w] \in {"pam", "creds"} => "handle" \in held[w]
    /\ pc[w] = "creds" => "cred" \in held[w] /\ w \in Users
    /\ pc[w] \in {"open", "ready"} => Inside(w) \subseteq held[w]
    /\ pc[w] \in {"forked", "waiting"} /\ (w \in Users \/ child[w] \in {"setup", "running"})
            => Inside(w) \subseteq held[w]
    /\ pc[w] = "reaped" => w \in Users /\ "session" \in held[w]

ChildInv(w) ==
    /\ child[w] = "astray" => w = Greeter
    /\ pc[w] \in Opening => child[w] = "none"
    /\ pc[w] \in {"forked", "waiting"} => child[w] # "none"
    /\ pc[w] = "reaped" => child[w] \in Ended
    /\ pc[w] \in Closing => child[w] \in Ended \cup {"none"}

HooksInv(w) ==
    /\ pc[w] \in Opening \ {"ready"} => hooks[w] = {}
    /\ pc[w] \in {"ready", "forked", "waiting"} =>
          hooks[w] = (IF w = Greeter THEN {} ELSE {"pre"})
    /\ w \in Users /\ pc[w] \in Closing \ {"reaped"} /\ child[w] # "none" => "post" \in hooks[w]

TtyInv(w) ==
    /\ pc[w] \in {"start", "console", "picked", "tty"} => ~leader[w]
    /\ w = Greeter /\ pc[w] \in {"picked", "tty"} => tty[w] = GreeterTty
    /\ pc[w] \in Places \ {"start", "console", "exiting"} /\ pc[w] \notin Over \cup {"announced"}
          => tty[w] \in Tty

Sound(w) ==
    AtMost(w) /\ LeftBehind(w) /\ AtLeast(w) /\ ChildInv(w) /\ HooksInv(w) /\ TtyInv(w)

WrapperInv == TypeOK /\ (\A w \in Wrapper : Sound(w)) /\ ConsoleAccounted
=============================================================================
