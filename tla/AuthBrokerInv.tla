--------------------------- MODULE AuthBrokerInv ---------------------------
(***************************************************************************)
(* The inductive invariant of AuthBroker: what the safety properties rest  *)
(* on, in four parts. TLC checks it on the same instance as the properties *)
(* and AuthBroker_proofs proves it for every instance.                     *)
(***************************************************************************)
EXTENDS AuthBroker

\* The places where the handler waits for a worker to be stopped.
StopPlaces == {"replace", "drop", "cancel", "final"}

\* What the place where the coroutine is suspended says of its local variables
\* and of client.auth_session.
HandlerInv ==
    /\ pc \in {"none", "read", "spawn", "control"} => request = Idle
    /\ pc \in {"replace", "launch"} => request \in CreateRequests
    /\ pc \in {"greet", "first", "answer", "drop", "cancel"} => request \in Requests
    /\ starting # NoAttempt <=> pc \in {"greet", "first"}
    /\ pc \in {"launch", "greet", "first", "spawn"} => auth = NoAttempt
    /\ pc \in {"answer", "drop"} => auth # NoAttempt
    /\ pc = "answer" => auth \notin ready
    /\ starting # NoAttempt => starting \notin ready
    /\ pc = "drop" => verdict # "none"
    /\ outcome.attempt # NoAttempt <=> pc = "spawn"

\* The timer watches the pending conversation, and only while no handler has
\* taken it upon itself to stop it.
TimerInv ==
    /\ TimerWatchesPending
    /\ PendingIsWatched
    /\ pc \in StopPlaces => timer.phase = "off"

\* The life of an attempt's worker and of its channel.
AttemptInv(a) ==
    /\ worker[a] = "unborn" =>
         /\ a \notin granted \cup stopped \cup {auth, starting}
         /\ user[a] = NoUser /\ opened[a] = <<>> /\ link[a] = "closed"
    /\ worker[a] # "unborn" => user[a] \in User
    /\ worker[a] \in InPam => a \in {auth, starting}
    /\ worker[a] = "ending" => a \in {auth, starting} \/ a \in ready \ stopped
    /\ a \in granted => worker[a] \in {"ending", "exited"}
    /\ link[a] = "closed" => fromWorker[a] = <<>>
    /\ a \in stopped => link[a] = "closed"
    /\ \A i \in 1..Len(fromWorker[a]) :
         fromWorker[a][i].kind = "ready" => a \in granted
    /\ a \in ready => a \in granted

WorkerInv == \A a \in Attempt : AttemptInv(a)

\* An attempt is spent at most once: where it is remembered excludes the rest.
SpendInv ==
    /\ \A a \in Attempt : opened[a] # <<>> =>
         /\ opened[a] = <<user[a]>> /\ a \in granted /\ a \notin stopped
         /\ a \notin {auth, starting, outcome.attempt}
    /\ outcome.attempt # NoAttempt =>
         /\ outcome.user = user[outcome.attempt]
         /\ outcome.attempt \in granted
         /\ outcome.attempt \notin stopped
    /\ starting # NoAttempt => starting \notin stopped
    /\ auth \in ready /\ pc \notin StopPlaces => auth \notin stopped

\* The four parts and the types, together: what every step preserves.
AuthInv == TypeOK /\ HandlerInv /\ TimerInv /\ WorkerInv /\ SpendInv
=============================================================================
