------------------------------ MODULE PamWorker ------------------------------
(***************************************************************************)
(* The PAM worker: pam/worker.py. It reads "start", runs pam_authenticate  *)
(* and pam_acct_mgmt, and says how they went. PAM calls back with batches  *)
(* of messages; the callback allocates an array of responses, sends each   *)
(* message to the daemon, waits for the reply, and hands PAM the array or  *)
(* frees it and returns PAM_CONV_ERR. What it frees of the responses in it *)
(* is not what it allocated: see FreeResponseArray.                        *)
(*                                                                         *)
(* PAM is an oracle: it makes any calls, ignores PAM_CONV_ERR if it likes, *)
(* and returns any code. Block 0 of memory is the array, block i the       *)
(* response to message i; prompts are numbered.                            *)
(***************************************************************************)
EXTENDS Naturals, Sequences, SequencesExt

CONSTANTS
    MaxCalls,     \* bound: conversation calls PAM makes
    MaxMessages   \* bound: messages of one call

ASSUME WorkerAssumption == MaxCalls \in Nat /\ MaxMessages \in Nat \ {0}

VARIABLES
    pc,        \* place of the worker
    stage,     \* the PAM function under way
    verdict,   \* what it will say
    broker,    \* is the broker registered?
    handle,    \* is there a PAM transaction?
    calls,
    batch,     \* styles of the messages of the call under way
    index,     \* messages of it that are dealt with
    memory,    \* who owns each block
    slots,     \* the prompt each response answers, 0 for NULL
    blank,     \* the responses that are empty strings
    spoilt,    \* history: the last call that gave free() a foreign pointer, 0 for none
    asked,     \* prompts sent
    inbox,     \* messages from the daemon
    link,      \* the daemon's end of the channel
    replied,   \* prompts the daemon replied to
    accepted,  \* history: what PAM accepted
    reports    \* history: what the worker sent

pamVars == <<stage, verdict, broker, handle, calls, accepted>>
callVars == <<batch, index, memory, slots, blank, spoilt>>
daemonVars == <<link, replied>>
vars == <<pc, pamVars, callVars, asked, inbox, daemonVars, reports>>

Block == 0..MaxMessages

\* A message asks for an answer (secret, visible), informs (info, error) or has
\* a style the worker does not know.
Styles == {"input", "note", "odd"}
Batches == UNION {[1..n -> Styles] : n \in 1..MaxMessages}

Refusals == {"auth_retryable", "auth_failed"}
Reports == {"prompt", "ready"} \cup Refusals
Kinds == {"start", "answer", "cancel"}
Message(kind, to) == [kind |-> kind, to |-> to]

InCallback == {"callback", "asking"}
Gone == {"exited", "killed", "crashed"}
Over == {"finish", "unregister"} \cup Gone
Places == {"boot", "init", "pam", "ready", "failing"} \cup InCallback \cup Over

TypeOK ==
    /\ pc \in Places
    /\ stage \in {"auth", "acct"} /\ verdict \in Refusals
    /\ broker \in BOOLEAN /\ handle \in BOOLEAN
    /\ calls \in 0..MaxCalls
    /\ batch \in Seq(Styles) /\ Len(batch) <= MaxMessages
    /\ index \in 0..Len(batch)
    /\ memory \in [Block -> {"free", "ours", "pam", "lost"}]
    /\ slots \in [1..MaxMessages -> Nat]
    /\ blank \subseteq 1..MaxMessages
    /\ spoilt \in 0..calls
    /\ asked \in Nat /\ replied \in 0..asked
    /\ inbox \in Seq([kind : Kinds, to : Nat])
    /\ link \in {"unwritten", "open", "closed"}
    /\ accepted \in Seq({"auth", "acct"})
    /\ reports \in Seq(Reports)

Init ==
    /\ pc = "boot" /\ stage = "auth" /\ verdict = "auth_failed"
    /\ broker = FALSE /\ handle = FALSE
    /\ calls = 0 /\ batch = <<>> /\ index = 0
    /\ memory = [b \in Block |-> "free"]
    /\ slots = [b \in 1..MaxMessages |-> 0] /\ blank = {} /\ spoilt = 0
    /\ asked = 0 /\ replied = 0
    /\ inbox = <<>> /\ link = "unwritten"
    /\ accepted = <<>> /\ reports = <<>>

-----------------------------------------------------------------------------
(* The daemon: start, one reply for each prompt, and cancel as it closes.   *)

LeaveWorker == UNCHANGED <<pc, pamVars, callVars, asked, reports>>

DaemonStarts ==
    /\ link = "unwritten" /\ link' = "open"
    /\ inbox' = Append(inbox, Message("start", 0))
    /\ LeaveWorker /\ UNCHANGED replied

DaemonAnswers ==
    /\ link = "open" /\ replied < asked
    /\ replied' = asked
    /\ inbox' = Append(inbox, Message("answer", asked))
    /\ LeaveWorker /\ UNCHANGED link

DaemonCloses ==
    /\ link # "closed" /\ link' = "closed"
    /\ inbox' \in {inbox, Append(inbox, Message("cancel", 0))}
    /\ LeaveWorker /\ UNCHANGED replied

\* terminate_process
WorkerKilled ==
    /\ link = "closed" /\ pc \notin Gone
    /\ pc' = "killed"
    /\ UNCHANGED <<pamVars, callVars, asked, inbox, daemonVars, reports>>

-----------------------------------------------------------------------------
(* cmd_main and run_auth_session.                                           *)

Goto(from, to) == pc = from /\ pc' = to
HungUp == inbox = <<>> /\ link = "closed"

ReadStart ==
    /\ inbox # <<>> /\ Head(inbox).kind = "start"
    /\ Goto("boot", "init")
    /\ inbox' = Tail(inbox)
    /\ UNCHANGED <<pamVars, callVars, asked, daemonVars, reports>>

\* Another message, or none: RuntimeError, and nothing is said.
NoStart ==
    /\ HungUp \/ (inbox # <<>> /\ Head(inbox).kind # "start")
    /\ Goto("boot", "exited")
    /\ UNCHANGED <<pamVars, callVars, asked, inbox, daemonVars, reports>>

\* pam_start, then PAM_TTY; either may fail.
StartPam ==
    /\ pc = "init" /\ broker' = TRUE
    /\ \/ handle' = TRUE /\ pc' = "pam"
       \/ handle' \in BOOLEAN /\ pc' = "failing"
    /\ verdict' = "auth_failed"
    /\ UNCHANGED <<stage, calls, accepted>>
    /\ UNCHANGED <<callVars, asked, inbox, daemonVars, reports>>

PamAccepts ==
    /\ pc = "pam"
    /\ accepted' = Append(accepted, stage)
    /\ stage' = "acct"
    /\ pc' = IF stage = "auth" THEN "pam" ELSE "ready"
    /\ UNCHANGED <<verdict, broker, handle, calls>>
    /\ UNCHANGED <<callVars, asked, inbox, daemonVars, reports>>

\* failure_code: wrong secrets may be tried again, a refused account may not.
FailureCodes == IF stage = "auth" THEN Refusals ELSE {"auth_failed"}

PamRefuses ==
    /\ Goto("pam", "failing")
    /\ verdict' \in FailureCodes
    /\ UNCHANGED <<stage, broker, handle, calls, accepted>>
    /\ UNCHANGED <<callVars, asked, inbox, daemonVars, reports>>

\* Slip: the account is checked after the daemon was told.
SayReadyEarly ==
    /\ pc = "pam" /\ stage = "acct" /\ link = "open"
    /\ reports' = Append(reports, "ready") /\ pc' = "finish"
    /\ UNCHANGED <<pamVars, callVars, asked, inbox, daemonVars>>

\* A channel that is closed raises, and the failure cannot be told either.
SayReady ==
    /\ pc = "ready"
    /\ \/ link = "open" /\ reports' = Append(reports, "ready") /\ pc' = "finish"
       \/ link = "closed" /\ pc' = "failing" /\ UNCHANGED reports
    /\ UNCHANGED <<pamVars, callVars, asked, inbox, daemonVars>>

SayFailed ==
    /\ Goto("failing", "finish")
    /\ reports' = IF link = "open" THEN Append(reports, verdict) ELSE reports
    /\ UNCHANGED <<pamVars, callVars, asked, inbox, daemonVars>>

EndPam ==
    /\ Goto("finish", "unregister")
    /\ handle' = FALSE
    /\ UNCHANGED <<stage, verdict, broker, calls, accepted>>
    /\ UNCHANGED <<callVars, asked, inbox, daemonVars, reports>>

Unregister ==
    /\ Goto("unregister", "exited")
    /\ broker' = FALSE
    /\ UNCHANGED <<stage, verdict, handle, calls, accepted>>
    /\ UNCHANGED <<callVars, asked, inbox, daemonVars, reports>>

-----------------------------------------------------------------------------
(* _conversation_conv.                                                      *)

\* PAM frees the responses it was given, and calls back.
Converse ==
    /\ pc = "pam" /\ calls < MaxCalls
    /\ calls' = calls + 1
    /\ batch' \in Batches /\ index' = 0
    /\ slots' = [b \in 1..MaxMessages |-> 0] /\ blank' = {}
    /\ \/ memory' = [b \in Block |-> IF b = 0 THEN "ours" ELSE "free"] /\ pc' = "callback"
       \/ memory' = [b \in Block |-> "free"] /\ pc' = "pam"
    /\ UNCHANGED <<stage, verdict, broker, handle, accepted, spoilt>>
    /\ UNCHANGED <<asked, inbox, daemonVars, reports>>

\* Slip: the array is not freed.
KeepArray(filled) ==
    /\ memory' = [b \in Block |-> IF b # 0 /\ memory[b] = "ours" THEN "lost" ELSE memory[b]]
    /\ pc' = "pam"
    /\ UNCHANGED spoilt

\* _free_response_array. The field that holds a response is a c_char_p, which reads
\* as a bytes object: a copy. What is freed is the inside of that copy, unless it is
\* None or empty; the response itself is out of reach once the array is freed. The C
\* library aborts on such a pointer, or goes on with a heap that may fail it later.
FreeResponseArray(filled) ==
    /\ memory' = [b \in Block |->
          IF b = 0 THEN "free" ELSE IF memory[b] = "ours" THEN "lost" ELSE memory[b]]
    /\ IF \E b \in 1..filled : slots[b] # 0 /\ b \notin blank
       THEN spoilt' = calls /\ pc' \in {"pam", "crashed"}
       ELSE UNCHANGED spoilt /\ pc' = "pam"

HeapFails ==
    /\ spoilt # 0 /\ pc \notin Gone /\ pc' = "crashed"
    /\ UNCHANGED <<pamVars, callVars, asked, inbox, daemonVars, reports>>

\* ConversationError: the whole array is gone through.
Abort ==
    /\ FreeResponseArray(Len(batch))
    /\ UNCHANGED <<batch, index, slots, blank>>

\* The message is sent. One that does not fit a frame is not.
Ask ==
    /\ pc = "callback" /\ index < Len(batch) /\ batch[index + 1] # "odd"
    /\ link = "open"
    /\ pc' = "asking"
    /\ asked' = asked + 1
    /\ reports' = Append(reports, "prompt")
    /\ UNCHANGED <<pamVars, callVars, inbox, daemonVars>>

AskFails ==
    /\ pc = "callback" /\ index < Len(batch)
    /\ Abort
    /\ UNCHANGED <<pamVars, asked, inbox, daemonVars, reports>>

Hears(kind) ==
    /\ pc = "asking" /\ inbox # <<>> /\ Head(inbox).kind = kind
    /\ inbox' = Tail(inbox)
    /\ UNCHANGED <<pamVars, asked, daemonVars, reports>>

\* A note needs no answer: its response stays NULL.
Acknowledged ==
    /\ Hears("answer") /\ batch[index + 1] = "note"
    /\ pc' = "callback" /\ index' = index + 1
    /\ UNCHANGED <<batch, memory, slots, blank, spoilt>>

\* Slip: the response goes to the first slot that is free.
AnsweredCompact ==
    /\ Hears("answer") /\ batch[index + 1] = "input"
    /\ LET slot == CHOOSE b \in 1..MaxMessages :
                       slots[b] = 0 /\ \A k \in 1..MaxMessages : slots[k] = 0 => b <= k
       IN /\ memory' = [memory EXCEPT ![slot] = "ours"]
          /\ slots' = [slots EXCEPT ![slot] = Head(inbox).to]
    /\ pc' = "callback" /\ index' = index + 1
    /\ UNCHANGED <<batch, blank, spoilt>>

\* _fill_response_slot; a user may answer with nothing.
Answered ==
    /\ Hears("answer") /\ batch[index + 1] = "input"
    /\ memory' = [memory EXCEPT ![index + 1] = "ours"]
    /\ slots' = [slots EXCEPT ![index + 1] = Head(inbox).to]
    /\ blank' \in {blank, blank \cup {index + 1}}
    /\ pc' = "callback" /\ index' = index + 1
    /\ UNCHANGED <<batch, spoilt>>

\* The copy cannot be allocated.
AnswerLost == Hears("answer") /\ batch[index + 1] = "input" /\ Abort

\* The callback returns PAM_CONV_ERR without an exception.
Cancelled ==
    /\ Hears("cancel")
    /\ FreeResponseArray(index)
    /\ UNCHANGED <<batch, index, slots, blank>>

\* Slip: a closed channel is read again.
ChannelClosedRetry == pc = "asking" /\ HungUp /\ UNCHANGED vars

ChannelClosed ==
    /\ pc = "asking" /\ HungUp
    /\ Abort
    /\ UNCHANGED <<pamVars, asked, inbox, daemonVars, reports>>

HandOver ==
    /\ pc = "callback" /\ index = Len(batch)
    /\ pc' = "pam"
    /\ memory' = [b \in Block |-> IF memory[b] = "ours" THEN "pam" ELSE memory[b]]
    /\ UNCHANGED <<batch, index, slots, blank, spoilt>>
    /\ UNCHANGED <<pamVars, asked, inbox, daemonVars, reports>>

-----------------------------------------------------------------------------
Daemon == DaemonStarts \/ DaemonAnswers \/ DaemonCloses \/ WorkerKilled

Session ==
    \/ ReadStart \/ NoStart \/ StartPam \/ PamAccepts \/ PamRefuses
    \/ SayReady \/ SayFailed \/ EndPam \/ Unregister

Callback ==
    \/ Converse \/ Ask \/ AskFails \/ Acknowledged \/ Answered \/ AnswerLost
    \/ Cancelled \/ ChannelClosed \/ HandOver

Next == Daemon \/ Session \/ Callback \/ HeapFails

Spec == Init /\ [][Next]_vars

\* PAM's functions return, and the worker goes on. Nothing is assumed of the
\* daemon.
FairSpec == Spec /\ WF_vars(Session \/ Callback)

-----------------------------------------------------------------------------
(* Correctness.                                                             *)

\* However a call is broken off, by a cancel, a closed channel, a text too long, an
\* unknown style or a lack of memory, the array is PAM's or freed when the callback
\* returns, and what PAM is handed is its own. Responses are lost, and free() is given
\* what it should not be, in one case only: the call failed at a message that came
\* after one answered, and for the second the answer had a text.
MemorySound ==
    /\ pc \notin InCallback \cup Gone => \A b \in Block : memory[b] # "ours"
    /\ \A b \in Block : memory[b] = "lost" =>
          /\ memory[0] = "free" /\ b # 0
          /\ b <= index /\ index < Len(batch) /\ batch[b] = "input"
    /\ spoilt # 0 /\ spoilt = calls => \E b \in Block : memory[b] = "lost" /\ b \notin blank

\* The responses PAM is handed are the replies to this call's own prompts, each
\* at its message; a note has none.
AnswersInPlace ==
    memory[0] = "pam" =>
        \A b \in 1..Len(batch) :
            IF batch[b] = "input" THEN memory[b] = "pam" /\ slots[b] = asked - Len(batch) + b
            ELSE slots[b] = 0

\* A worker whose channel closed ends by itself, in the middle of a call or not.
HungUpEnds == link = "closed" ~> pc \in Gone

\* Seen from the daemon the worker keeps its promise.
Life ==
    CASE pc = "boot" -> "booting"
      [] pc = "asking" -> "asking"
      [] pc \in Over -> "over"
      [] OTHER -> "busy"

Promise == INSTANCE WorkerPromise WITH life <- Life

PromiseKept == Promise!Spec
=============================================================================
