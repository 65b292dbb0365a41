---------------------------- MODULE PamWorkerInv ----------------------------
(* The inductive invariant of the PAM worker. *)
EXTENDS PamWorker

\* While a call is under way the array is the callback's, and so is the response
\* to every input dealt with; outside one, nothing is.
MemoryInv ==
    /\ MemorySound
    /\ pc \in InCallback =>
        /\ memory[0] = "ours" /\ spoilt < calls
        /\ \A b \in 1..MaxMessages :
              IF b <= index /\ batch[b] = "input"
              THEN memory[b] = "ours" /\ slots[b] # 0
              ELSE memory[b] = "free" /\ slots[b] = 0
    /\ pc = "crashed" => spoilt # 0
    /\ spoilt # 0 => MaxMessages > 1

\* Each message dealt with took one prompt.
PromptInv ==
    /\ pc = "boot" => asked = 0
    /\ pc = "asking" => index < Len(batch)
    /\ pc \in InCallback =>
        /\ index <= asked - (IF pc = "asking" THEN 1 ELSE 0)
        /\ \A b \in 1..index : batch[b] = "input" =>
              slots[b] = asked - index + b - (IF pc = "asking" THEN 1 ELSE 0)

\* The daemon has one reply under way at most, the one that is waited for; it
\* starts the worker first and cancels last.
InboxInv ==
    /\ link = "open" /\ pc \notin {"asking", "crashed"} => replied = asked
    /\ \A i \in DOMAIN inbox :
        /\ inbox[i].kind = "answer" =>
              pc \in {"asking", "killed", "crashed"} /\ inbox[i].to = asked /\ replied = asked
        /\ inbox[i].kind = "cancel" => link = "closed" /\ i = Len(inbox)
    /\ \A i, j \in DOMAIN inbox :
          inbox[i].kind = "answer" /\ inbox[j].kind = "answer" => i = j

\* What is registered and open at each place.
BrokerInv ==
    /\ handle => broker
    /\ pc \in {"boot", "unregister", "exited"} => ~handle
    /\ pc \in {"boot", "exited"} => ~broker

VerdictInv ==
    /\ link = "unwritten" => pc = "boot" /\ inbox = <<>>
    /\ pc = "killed" => link = "closed"
    /\ pc \in {"boot", "init"} => calls = 0
    /\ pc \in {"finish", "unregister", "exited"} /\ link # "closed" =>
          reports # <<>> /\ Last(reports) # "prompt"

AcceptInv ==
    /\ pc \in {"boot", "init"} => stage = "auth" /\ accepted = <<>>
    /\ pc \in {"pam"} \cup InCallback =>
          accepted = (IF stage = "auth" THEN <<>> ELSE <<"auth">>)
    /\ pc = "ready" => accepted = <<"auth", "acct">>

\* PAM may call back as long as there is a transaction: the broker its callback
\* looks up is registered, and a worker that ends leaves neither.
BrokerOutlivesHandle ==
    /\ handle => broker
    /\ pc = "exited" => ~handle /\ ~broker

\* A worker the daemon did not hang up on does not end without a verdict, unless it
\* crashes after it gave free() what it should not.
NoSilentEnd ==
    pc \in Gone /\ link # "closed" =>
        \/ reports # <<>> /\ Last(reports) # "prompt"
        \/ pc = "crashed" /\ spoilt # 0

\* A PAM module that asks for one thing at a time never brings that about.
OneByOneSound == MaxMessages = 1 => spoilt = 0 /\ \A b \in Block : memory[b] # "lost"

WorkerInv ==
    /\ TypeOK /\ MemoryInv /\ PromptInv /\ InboxInv /\ AnswersInPlace
    /\ BrokerInv /\ VerdictInv /\ AcceptInv
=============================================================================
