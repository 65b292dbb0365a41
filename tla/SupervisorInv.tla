---------------------------- MODULE SupervisorInv ----------------------------
(***************************************************************************)
(* The inductive invariant behind the safety of the supervisor.            *)
(***************************************************************************)
EXTENDS Supervisor

\* What the counters say: failures counts for the back end in use, fruitless for
\* both.
CountInv ==
    /\ backend \in {FirstBackend, "curses"}
    /\ fruitless <= failures + (IF backend = FirstBackend THEN 0 ELSE Tries)
    /\ main \in Looping => failures < Tries /\ failures <= fruitless /\ cause = "none"

\* Where the main coroutine is, and what that says of `at` and `passes`.
PlaceInv ==
    /\ main \in {"close", "join", "close-all", "join-all"} => at \in Client
    /\ main = "stopping" => at = "greeter"
    /\ main \in Looping \cup {"exited"} => passes = 0
    /\ main \notin Looping \cup {"exited"} => passes \in 1..2

\* A handler that is not running has left nothing, and a client without a process has
\* no handler, except the one whose channel is being closed.
HandlerInv ==
    /\ handler["greeter"] = "none" => conv = "none" /\ worker = "none"
    /\ ~AdapterEnabled => proc["adapter"] = "none" /\ handler["adapter"] = "none"
    /\ \A c \in Client :
         main \in Looping /\ proc[c] = "none" /\ ~(main \in {"close", "join"} /\ at = c)
            => handler[c] = "none"
    /\ main \in {"close-all", "join-all"} /\ at = "adapter" => handler["greeter"] = "none"
    /\ main \in Ending => \A c \in Client : handler[c] = "none"

\* A session that runs is monitored, and the daemon leaves none behind.
SessionInv ==
    /\ \A s \in Session : proc[s] \in Running => s \in monitored
    /\ main = "exited" => monitored = {}

\* The inductive invariant of the supervisor: places, counters, handlers and sessions
\* stay consistent through every step of the main coroutine and everyone beside it.
SupInv == TypeOK /\ CrashBudget /\ CountInv /\ PlaceInv /\ HandlerInv /\ SessionInv
=============================================================================
