---------------------------- MODULE WorkerPromise ----------------------------
(***************************************************************************)
(* What the daemon relies on of a PAM worker, with no PAM, no memory and   *)
(* no channel: it asks one thing at a time and waits for the reply, says   *)
(* one verdict and nothing after it, and is ready only if PAM accepted the *)
(* user's secrets and then the account.                                    *)
(***************************************************************************)
EXTENDS Sequences

CONSTANTS Refusals   \* the verdicts that are not "ready"

VARIABLES
    life,      \* "booting", "busy", "asking" or "over"
    accepted,  \* what PAM accepted, in order
    reports    \* what the worker told the daemon

vars == <<life, accepted, reports>>

Init == life = "booting" /\ accepted = <<>> /\ reports = <<>>

Boot == life = "booting" /\ life' = "busy" /\ UNCHANGED <<accepted, reports>>

Ask ==
    /\ life = "busy" /\ life' = "asking"
    /\ reports' = Append(reports, "prompt")
    /\ UNCHANGED accepted

Hear == life = "asking" /\ life' = "busy" /\ UNCHANGED <<accepted, reports>>

AcceptUser ==
    /\ life = "busy" /\ accepted = <<>>
    /\ accepted' = <<"auth">>
    /\ UNCHANGED <<life, reports>>

AcceptAccount ==
    /\ life = "busy" /\ accepted = <<"auth">>
    /\ accepted' = <<"auth", "acct">>
    /\ UNCHANGED <<life, reports>>

SayReady ==
    /\ life = "busy" /\ accepted = <<"auth", "acct">>
    /\ reports' = Append(reports, "ready")
    /\ life' = "over"
    /\ UNCHANGED accepted

SayRefused ==
    /\ life = "busy"
    /\ \E verdict \in Refusals : reports' = Append(reports, verdict)
    /\ life' = "over"
    /\ UNCHANGED accepted

\* It is killed, or its channel closed.
Die == life' = "over" /\ UNCHANGED <<accepted, reports>>

Next ==
    \/ Boot \/ Ask \/ Hear \/ AcceptUser \/ AcceptAccount
    \/ SayReady \/ SayRefused \/ Die

Spec == Init /\ [][Next]_vars
=============================================================================
