--------------------------- MODULE AuthRefinement ---------------------------
(***************************************************************************)
(* AuthBroker implements LoginGate. An attempt is under way from the moment *)
(* its worker is launched, and given up at the moment the daemon begins to  *)
(* stop it, long before client.auth_session forgets it: nothing the greeter,*)
(* the worker or the timer does in between can bring it back.               *)
(***************************************************************************)
EXTENDS AuthBroker

UnderWay ==
    IF starting # NoAttempt THEN starting
    ELSE IF auth \in stopped THEN NoAttempt ELSE auth

Gate == INSTANCE LoginGate WITH
    current  <- UnderWay,
    accepted <- granted,
    spending <- outcome.attempt

\* Every step of the daemon, its workers and its timer is a step of the gate or
\* changes nothing the gate tells apart: the conversation machinery adds no way
\* to open a session.
GateSpec == Gate!Spec
=============================================================================
