----------------------------- MODULE LoginGate -----------------------------
(***************************************************************************)
(* What the daemon promises of a login, with no channel, worker or timer:  *)
(* at most one attempt is under way; an attempt given up never comes back; *)
(* a session is opened by spending an attempt PAM accepted, for the user   *)
(* of that attempt, and an attempt is spent once.                          *)
(***************************************************************************)
EXTENDS Naturals, Sequences

CONSTANTS Attempt, User, NoAttempt, NoUser

VARIABLES
    user,      \* for whom each attempt was made, NoUser before it is made
    current,   \* the attempt under way
    accepted,  \* the attempts PAM accepted
    spending,  \* the attempt whose session is being launched
    opened     \* the sessions each attempt opened

vars == <<user, current, accepted, spending, opened>>

Init ==
    /\ user = [a \in Attempt |-> NoUser]
    /\ current = NoAttempt
    /\ accepted = {}
    /\ spending = NoAttempt
    /\ opened = [a \in Attempt |-> <<>>]

\* A new attempt is made, never one made before.
Begin(a, u) ==
    /\ current = NoAttempt /\ user[a] = NoUser
    /\ current' = a
    /\ user' = [user EXCEPT ![a] = u]
    /\ UNCHANGED <<accepted, spending, opened>>

\* PAM's verdict comes once, and may come too late to matter.
Accept(a) ==
    /\ user[a] # NoUser /\ a \notin accepted
    /\ accepted' = accepted \cup {a}
    /\ UNCHANGED <<user, current, spending, opened>>

Abandon ==
    /\ current # NoAttempt
    /\ current' = NoAttempt
    /\ UNCHANGED <<user, accepted, spending, opened>>

Spend ==
    /\ current \in accepted
    /\ spending' = current /\ current' = NoAttempt
    /\ UNCHANGED <<user, accepted, opened>>

Open ==
    /\ spending # NoAttempt
    /\ opened' = [opened EXCEPT ![spending] = Append(@, user[spending])]
    /\ spending' = NoAttempt
    /\ UNCHANGED <<user, current, accepted>>

\* The session could not be launched.
Waste ==
    /\ spending # NoAttempt
    /\ spending' = NoAttempt
    /\ UNCHANGED <<user, current, accepted, opened>>

Next ==
    \/ \E a \in Attempt, u \in User : Begin(a, u)
    \/ \E a \in Attempt : Accept(a)
    \/ Abandon \/ Spend \/ Open \/ Waste

Spec == Init /\ [][Next]_vars
=============================================================================
