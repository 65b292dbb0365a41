-------------------------- MODULE PamWorker_proofs --------------------------
(* Theorems about the PAM worker, for every number of calls and messages. *)
EXTENDS PamWorkerInv, SequenceTheorems, TLAPS

LEMMA InitInv == Init => WorkerInv
<1> SUFFICES ASSUME Init PROVE WorkerInv
  OBVIOUS
<1>1. TypeOK
  BY WorkerAssumption DEF Init, TypeOK, Places, InCallback, Over, Gone, Refusals, Block, Styles, Kinds, Reports
<1>2. MemoryInv /\ PromptInv /\ InboxInv /\ AnswersInPlace /\ BrokerInv /\ VerdictInv /\ AcceptInv
  BY WorkerAssumption DEF Init, MemoryInv, MemorySound, Gone, PromptInv, InboxInv, AnswersInPlace, BrokerInv,
     VerdictInv, AcceptInv, InCallback, Block
<1>3. QED
  BY <1>1, <1>2 DEF WorkerInv

-----------------------------------------------------------------------------
(* Types. *)

LEMMA HeadAndTail ==
    ASSUME NEW S, NEW q \in Seq(S), q # <<>>
    PROVE  Head(q) \in S /\ Tail(q) \in Seq(S)
OBVIOUS

LEMMA SessionTypes == TypeOK /\ Session => TypeOK'
<1> SUFFICES ASSUME TypeOK, Session PROVE TypeOK'
  OBVIOUS
<1> USE DEF TypeOK, Goto, pamVars, callVars, daemonVars, Places, Over, Gone, InCallback, Refusals, Reports
<1>1. CASE ReadStart
  BY <1>1 DEF ReadStart
<1>2. CASE NoStart
  BY <1>2 DEF NoStart
<1>3. CASE StartPam
  BY <1>3 DEF StartPam
<1>4. CASE PamAccepts
  BY <1>4 DEF PamAccepts
<1>5. CASE PamRefuses
  BY <1>5 DEF PamRefuses, FailureCodes
<1>6. CASE SayReady
  <2>1. CASE link = "open" /\ reports' = Append(reports, "ready") /\ pc' = "finish"
    BY <1>6, <2>1 DEF SayReady
  <2>2. CASE link = "closed" /\ pc' = "failing" /\ UNCHANGED reports
    BY <1>6, <2>2 DEF SayReady
  <2>3. QED
    BY <1>6, <2>1, <2>2 DEF SayReady
<1>7. CASE SayFailed
  BY <1>7 DEF SayFailed
<1>8. CASE EndPam
  BY <1>8 DEF EndPam
<1>9. CASE Unregister
  BY <1>9 DEF Unregister
<1>10. QED
  BY <1>1, <1>2, <1>3, <1>4, <1>5, <1>6, <1>7, <1>8, <1>9 DEF Session

LEMMA DaemonTypes == TypeOK /\ Daemon => TypeOK'
<1> SUFFICES ASSUME TypeOK, Daemon PROVE TypeOK'
  OBVIOUS
<1> USE DEF TypeOK, pamVars, callVars, daemonVars, LeaveWorker, Message, Kinds
<1>1. CASE DaemonStarts
  BY <1>1 DEF DaemonStarts
<1>2. CASE DaemonAnswers
  BY <1>2 DEF DaemonAnswers
<1>3. CASE DaemonCloses
  <2>1. inbox' \in Seq([kind : Kinds, to : Nat])
    <3>1. CASE inbox' = inbox
      BY <3>1
    <3>2. CASE inbox' = Append(inbox, Message("cancel", 0))
      BY <3>2
    <3>3. QED
      BY <1>3, <3>1, <3>2 DEF DaemonCloses
  <2>2. QED
    BY <1>3, <2>1 DEF DaemonCloses
<1>4. CASE WorkerKilled
  BY <1>4 DEF WorkerKilled, Places, Over, Gone
<1>5. QED
  BY <1>1, <1>2, <1>3, <1>4 DEF Daemon

LEMMA FreedTypes ==
    ASSUME TypeOK, NEW filled, FreeResponseArray(filled)
    PROVE  /\ memory' \in [Block -> {"free", "ours", "pam", "lost"}]
           /\ pc' \in {"pam", "crashed"} /\ spoilt' \in 0..calls
<1>1. memory' \in [Block -> {"free", "ours", "pam", "lost"}]
  BY DEF FreeResponseArray, TypeOK
<1>2. CASE \E b \in 1..filled : slots[b] # 0 /\ b \notin blank
  BY <1>1, <1>2 DEF FreeResponseArray, TypeOK
<1>3. CASE ~\E b \in 1..filled : slots[b] # 0 /\ b \notin blank
  BY <1>1, <1>3 DEF FreeResponseArray, TypeOK
<1>4. QED
  BY <1>2, <1>3

LEMMA CallbackTypes == TypeOK /\ PromptInv /\ Callback => TypeOK'
<1> SUFFICES ASSUME TypeOK, PromptInv, Callback PROVE TypeOK'
  OBVIOUS
<1> USE WorkerAssumption DEF TypeOK, pamVars, callVars, daemonVars, Places, Over, Gone, InCallback, Block, Reports, Hears
<1>1. CASE Converse
  <2>1. PICK n \in 1..MaxMessages : batch' \in [1..n -> Styles]
    BY <1>1 DEF Converse, Batches
  <2>2. batch' \in Seq(Styles) /\ Len(batch') = n
    BY <2>1
  <2>3. QED
    BY <1>1, <2>2 DEF Converse
<1>2. CASE Ask
  BY <1>2 DEF Ask
<1>3. CASE AskFails
  BY <1>3, FreedTypes DEF AskFails, Abort
<1>4. CASE Acknowledged
  <2>1. inbox' \in Seq([kind : Kinds, to : Nat])
    <3>1. inbox # <<>> /\ inbox' = Tail(inbox) /\ inbox \in Seq([kind : Kinds, to : Nat])
      BY <1>4 DEF Acknowledged
    <3>2. QED
      BY <3>1, HeadAndTail
  <2>2. index' \in 0..Len(batch) /\ pc' = "callback" /\ batch' = batch
    BY <1>4 DEF Acknowledged, PromptInv
  <2>3. UNCHANGED <<memory, slots, blank, spoilt, pamVars, asked, daemonVars, reports>>
    BY <1>4 DEF Acknowledged
  <2>4. QED
    BY <2>1, <2>2, <2>3
<1>5. CASE Answered
  <2>1. index + 1 \in 1..MaxMessages /\ index + 1 \in 0..Len(batch)
    BY <1>5 DEF Answered, PromptInv
  <2>2. Head(inbox).to \in Nat /\ inbox' \in Seq([kind : Kinds, to : Nat])
    <3>1. inbox # <<>> /\ inbox' = Tail(inbox) /\ inbox \in Seq([kind : Kinds, to : Nat])
      BY <1>5 DEF Answered
    <3>2. Head(inbox) \in [kind : Kinds, to : Nat] /\ Tail(inbox) \in Seq([kind : Kinds, to : Nat])
      BY <3>1, HeadAndTail
    <3>3. QED
      BY <3>1, <3>2
  <2>3. QED
    BY <1>5, <2>1, <2>2 DEF Answered
<1>6. CASE AnswerLost
  <2>1. inbox # <<>> /\ inbox' = Tail(inbox) /\ FreeResponseArray(Len(batch))
    BY <1>6 DEF AnswerLost, Abort
  <2>2. inbox' \in Seq([kind : Kinds, to : Nat])
    BY <2>1
  <2>3. QED
    BY <1>6, <2>1, <2>2, FreedTypes DEF AnswerLost, Abort
<1>7. CASE Cancelled
  <2>1. inbox # <<>> /\ inbox' = Tail(inbox) /\ FreeResponseArray(index)
    BY <1>7 DEF Cancelled
  <2>2. inbox' \in Seq([kind : Kinds, to : Nat])
    BY <2>1
  <2>3. QED
    BY <1>7, <2>1, <2>2, FreedTypes DEF Cancelled
<1>8. CASE ChannelClosed
  BY <1>8, FreedTypes DEF ChannelClosed, Abort
<1>9. CASE HandOver
  BY <1>9 DEF HandOver
<1>10. QED
  BY <1>1, <1>2, <1>3, <1>4, <1>5, <1>6, <1>7, <1>8, <1>9 DEF Callback

LEMMA TypesKept == WorkerInv /\ [Next]_vars => TypeOK'
<1>1. TypeOK /\ UNCHANGED vars => TypeOK'
  BY DEF TypeOK, vars, pamVars, callVars, daemonVars
<1>2. TypeOK /\ HeapFails => TypeOK'
  BY DEF TypeOK, HeapFails, pamVars, callVars, daemonVars, Places, Over, Gone
<1>3. QED
  BY <1>1, <1>2, SessionTypes, DaemonTypes, CallbackTypes DEF Next, WorkerInv

-----------------------------------------------------------------------------
(* The memory of a call. *)

\* Outside a call nothing but the place changes.
LEMMA SessionFrame ==
    ASSUME Session
    PROVE  /\ UNCHANGED <<callVars, asked, daemonVars>>
           /\ UNCHANGED calls
           /\ pc \notin InCallback \cup {"killed", "crashed"}
           /\ pc' \notin InCallback \cup {"boot", "killed", "crashed"}
<1> USE DEF Goto, InCallback, pamVars
<1>1. CASE ReadStart \/ NoStart \/ StartPam \/ PamAccepts
  BY <1>1 DEF ReadStart, NoStart, StartPam, PamAccepts
<1>2. CASE PamRefuses \/ SayReady \/ SayFailed \/ EndPam \/ Unregister
  BY <1>2 DEF PamRefuses, SayReady, SayFailed, EndPam, Unregister
<1>3. QED
  BY <1>1, <1>2 DEF Session

LEMMA DaemonFrame ==
    ASSUME Daemon
    PROVE  /\ UNCHANGED <<pamVars, callVars, asked, reports>>
           /\ UNCHANGED pc \/ (pc' = "killed" /\ link = "closed" /\ UNCHANGED <<inbox, daemonVars>>)
BY DEF Daemon, DaemonStarts, DaemonAnswers, DaemonCloses, WorkerKilled, LeaveWorker

LEMMA HeapFrame ==
    ASSUME HeapFails
    PROVE  UNCHANGED <<pamVars, callVars, asked, inbox, daemonVars, reports>> /\ pc' = "crashed"
           /\ spoilt # 0 /\ pc \notin Gone
BY DEF HeapFails

\* _free_response_array as it is called: the array is freed, the responses that were
\* filled in are lost, and a foreign pointer is freed if one of them has a text.
LEMMA Freed ==
    ASSUME TypeOK, MemoryInv, pc \in InCallback, index < Len(batch), NEW filled \in Nat,
           index <= filled, filled <= MaxMessages, FreeResponseArray(filled),
           UNCHANGED <<batch, index, slots, blank, calls>>
    PROVE  MemoryInv'
<1> USE WorkerAssumption
<1>0. /\ index \in Nat /\ Len(batch) \in Nat /\ Len(batch) <= MaxMessages /\ calls \in Nat
      /\ spoilt < calls /\ memory[0] = "ours"
  BY DEF TypeOK, MemoryInv
<1>1. \A b \in 1..MaxMessages :
         IF b <= index /\ batch[b] = "input"
         THEN memory'[b] = "lost" /\ slots[b] # 0
         ELSE memory'[b] = "free" /\ slots[b] = 0
  BY DEF MemoryInv, FreeResponseArray, Block
<1>2. memory'[0] = "free" /\ pc' \in {"pam", "crashed"}
  BY DEF FreeResponseArray, Block
<1>3. CASE \E b \in 1..filled : slots[b] # 0 /\ b \notin blank
  <2>1. PICK b \in 1..filled : slots[b] # 0 /\ b \notin blank
    BY <1>3
  <2>2. b \in 1..MaxMessages /\ b <= index /\ memory'[b] = "lost" /\ b \in Block
    BY <1>0, <1>1, <2>1 DEF Block
  <2>a. spoilt' = calls
    BY <1>3 DEF FreeResponseArray
  <2>3. MaxMessages > 1 /\ spoilt' = calls /\ calls # 0
    BY <1>0, <2>2, <2>a DEF TypeOK
  <2>4. MemorySound'
    BY <1>0, <1>1, <1>2, <2>1, <2>2 DEF MemorySound, Block, Gone, InCallback
  <2>5. QED
    BY <1>2, <2>3, <2>4 DEF MemoryInv, InCallback
<1>4. CASE ~\E b \in 1..filled : slots[b] # 0 /\ b \notin blank
  <2>1. UNCHANGED spoilt /\ pc' = "pam"
    BY <1>4 DEF FreeResponseArray
  <2>2. MemorySound'
    BY <1>0, <1>1, <1>2, <2>1 DEF MemorySound, Block, Gone, InCallback
  <2>3. QED
    BY <2>1, <2>2 DEF MemoryInv, InCallback
<1>5. QED
  BY <1>3, <1>4

LEMMA AbortFrees ==
    ASSUME TypeOK, MemoryInv, pc \in InCallback, index < Len(batch), Abort, UNCHANGED calls
    PROVE  MemoryInv'
<1>1. Len(batch) \in Nat /\ index <= Len(batch) /\ Len(batch) <= MaxMessages
  BY DEF TypeOK
<1>2. QED
  BY <1>1, Freed DEF Abort

\* The answer that is heard is the one to the prompt that was sent last.
LEMMA HeardAnswer ==
    ASSUME TypeOK, PromptInv, InboxInv, Hears("answer")
    PROVE  Head(inbox).to = asked /\ asked # 0 /\ replied = asked
<1>1. inbox # <<>> /\ Head(inbox).kind = "answer" /\ pc = "asking"
  BY DEF Hears
<1>2. 1 \in DOMAIN inbox /\ Head(inbox) = inbox[1]
  BY <1>1 DEF TypeOK
<1>3. Head(inbox).to = asked /\ replied = asked
  BY <1>1, <1>2 DEF InboxInv
<1>4. asked # 0
  BY <1>1 DEF PromptInv, TypeOK, InCallback
<1>5. QED
  BY <1>3, <1>4

LEMMA MemoryKept == WorkerInv /\ [Next]_vars => MemoryInv'
<1> SUFFICES ASSUME WorkerInv, [Next]_vars PROVE MemoryInv'
  OBVIOUS
<1>0. TypeOK /\ MemoryInv /\ PromptInv /\ WorkerAssumption
  BY WorkerAssumption DEF WorkerInv
<1> USE DEF pamVars, callVars
<1>1. CASE UNCHANGED vars
  BY <1>0, <1>1 DEF vars, MemoryInv, MemorySound
<1>2. CASE Session
  <2>1. /\ UNCHANGED <<batch, index, memory, slots, blank, spoilt, calls>>
        /\ pc \notin InCallback \cup {"killed", "crashed"}
        /\ pc' \notin InCallback \cup {"boot", "killed", "crashed"}
    BY <1>2, SessionFrame
  <2>2. pc # "exited"
    BY <1>2 DEF Session, Goto, ReadStart, NoStart, StartPam, PamAccepts, PamRefuses, SayReady,
       SayFailed, EndPam, Unregister
  <2>3. MemorySound'
    BY <1>0, <2>1, <2>2 DEF MemoryInv, MemorySound, Gone
  <2>4. QED
    BY <1>0, <2>1, <2>3 DEF MemoryInv
<1>3. CASE Daemon
  BY <1>0, <1>3, DaemonFrame DEF MemoryInv, MemorySound, Gone, InCallback
<1>4. CASE Converse
  <2>0. calls \in Nat /\ spoilt \in 0..calls /\ calls' = calls + 1 /\ UNCHANGED spoilt
        /\ pc = "pam" /\ slots' = [b \in 1..MaxMessages |-> 0] /\ index' = 0
    BY <1>0, <1>4 DEF Converse, TypeOK
  <2>1. CASE pc' = "callback" /\ memory' = [b \in Block |-> IF b = 0 THEN "ours" ELSE "free"]
    <3>1. MemorySound'
      BY <2>0, <2>1 DEF MemorySound, InCallback
    <3>2. QED
      BY <1>0, <2>0, <2>1, <3>1 DEF MemoryInv, InCallback, Block
  <2>2. CASE pc' = "pam" /\ memory' = [b \in Block |-> "free"]
    <3>1. MemorySound'
      BY <2>0, <2>2 DEF MemorySound
    <3>2. QED
      BY <1>0, <2>0, <2>2, <3>1 DEF MemoryInv, InCallback
  <2>3. QED
    BY <1>4, <2>1, <2>2 DEF Converse
<1>5. CASE Ask
  BY <1>0, <1>5 DEF Ask, MemoryInv, MemorySound, InCallback, Gone
<1>6. CASE AskFails
  BY <1>0, <1>6, AbortFrees DEF AskFails, InCallback
<1>7. CASE Acknowledged
  BY <1>0, <1>7 DEF Acknowledged, Hears, MemoryInv, MemorySound, InCallback, TypeOK
<1>8. CASE Answered
  <2>1. index + 1 \in 1..MaxMessages /\ index \in Nat /\ index + 1 \in Block
    BY <1>0, <1>8 DEF Answered, Hears, PromptInv, TypeOK, Block
  <2>2. Head(inbox).to # 0
    BY <1>0, <1>8, HeardAnswer DEF WorkerInv, Answered, Hears
  <2>3. pc = "asking" /\ pc' = "callback" /\ UNCHANGED <<batch, spoilt, calls>>
        /\ index' = index + 1 /\ memory' = [memory EXCEPT ![index + 1] = "ours"]
        /\ slots' = [slots EXCEPT ![index + 1] = Head(inbox).to] /\ batch[index + 1] = "input"
    BY <1>8 DEF Answered, Hears
  <2>4. \A b \in 1..MaxMessages :
           IF b <= index' /\ batch'[b] = "input"
           THEN memory'[b] = "ours" /\ slots'[b] # 0
           ELSE memory'[b] = "free" /\ slots'[b] = 0
    BY <1>0, <2>1, <2>2, <2>3 DEF MemoryInv, InCallback, TypeOK, Block
  <2>5. memory'[0] = "ours" /\ spoilt' < calls'
    BY <1>0, <2>1, <2>3 DEF MemoryInv, InCallback, TypeOK, Block
  <2>a. \A b \in Block : memory'[b] # "lost"
    BY <2>4, <2>5 DEF Block
  <2>6. MemorySound'
    BY <2>3, <2>5, <2>a, <1>0 DEF MemorySound, InCallback, TypeOK
  <2>7. QED
    BY <1>0, <2>3, <2>4, <2>5, <2>6 DEF MemoryInv
<1>9. CASE AnswerLost
  BY <1>0, <1>9, AbortFrees DEF AnswerLost, Hears, InCallback, PromptInv
<1>10. CASE Cancelled
  <2>1. index \in Nat /\ index <= MaxMessages
    BY <1>0 DEF TypeOK
  <2>2. QED
    BY <1>0, <1>10, <2>1, Freed DEF Cancelled, Hears, InCallback, PromptInv
<1>11. CASE ChannelClosed
  BY <1>0, <1>11, AbortFrees DEF ChannelClosed, InCallback, PromptInv
<1>12. CASE HandOver
  <2>1. pc = "callback" /\ pc' = "pam" /\ index = Len(batch) /\ UNCHANGED <<spoilt, calls>>
        /\ memory' = [b \in Block |-> IF memory[b] = "ours" THEN "pam" ELSE memory[b]]
    BY <1>12 DEF HandOver
  <2>2. spoilt < calls /\ \A b \in Block : memory[b] \in {"ours", "free"}
    BY <1>0, <2>1 DEF MemoryInv, InCallback, Block
  <2>3. \A b \in Block : memory'[b] \in {"pam", "free"}
    BY <2>1, <2>2
  <2>4. MemorySound'
    BY <1>0, <2>1, <2>2, <2>3 DEF MemorySound, TypeOK
  <2>5. QED
    BY <1>0, <2>1, <2>4 DEF MemoryInv, InCallback
<1>13. CASE HeapFails
  BY <1>0, <1>13, HeapFrame DEF MemoryInv, MemorySound, InCallback, Gone
<1>14. QED
  BY <1>1, <1>2, <1>3, <1>4, <1>5, <1>6, <1>7, <1>8, <1>9, <1>10, <1>11, <1>12, <1>13
     DEF Next, Callback

-----------------------------------------------------------------------------
(* Prompts and replies. *)

LEMMA PromptKept == WorkerInv /\ [Next]_vars => PromptInv'
<1> SUFFICES ASSUME WorkerInv, [Next]_vars PROVE PromptInv'
  OBVIOUS
<1>0. TypeOK /\ MemoryInv /\ PromptInv /\ InboxInv
  BY DEF WorkerInv
<1>1. CASE UNCHANGED vars
  BY <1>0, <1>1 DEF vars, callVars, PromptInv
<1>2. CASE Session
  BY <1>0, <1>2, SessionFrame DEF PromptInv, InCallback
<1>3. CASE Daemon
  BY <1>0, <1>3, DaemonFrame DEF PromptInv, callVars, InCallback
<1>4. CASE pc' \in {"pam", "crashed"}
  BY <1>4 DEF PromptInv, InCallback
<1>5. CASE Converse /\ pc' = "callback"
  BY <1>0, <1>5 DEF Converse, PromptInv, InCallback, TypeOK
<1>6. CASE Ask
  BY <1>0, <1>6 DEF Ask, PromptInv, InCallback, TypeOK, callVars
<1>7. CASE Acknowledged
  BY <1>0, <1>7 DEF Acknowledged, Hears, PromptInv, InCallback, TypeOK
<1>8. CASE Answered
  <2>1. Head(inbox).to = asked
    BY <1>0, <1>8, HeardAnswer DEF Answered
  <2>2. pc = "asking" /\ pc' = "callback" /\ UNCHANGED <<asked, batch>> /\ index' = index + 1
        /\ slots' = [slots EXCEPT ![index + 1] = asked]
    BY <1>8, <2>1 DEF Answered, Hears
  <2>3. index < Len(batch) /\ index \in Nat /\ index + 1 \in 1..MaxMessages
    BY <1>0, <2>2, WorkerAssumption DEF PromptInv, TypeOK
  <2>4. asked \in Nat /\ index <= asked - 1
    BY <1>0, <2>2 DEF PromptInv, TypeOK, InCallback
  <2>5. ASSUME NEW b \in 1..index', batch'[b] = "input" PROVE slots'[b] = asked' - index' + b
    <3>1. b \in 1..MaxMessages /\ (b = index + 1 \/ b \in 1..index)
      BY <2>2, <2>3, <2>5, WorkerAssumption
    <3>2. b \in 1..index => slots[b] = asked - index + b - 1
      BY <1>0, <2>2, <2>5 DEF PromptInv, InCallback
    <3>3. CASE b = index + 1
      <4>1. slots'[b] = asked
        BY <1>0, <2>2, <2>3, <3>3 DEF TypeOK
      <4>2. QED
        BY <2>2, <2>3, <2>4, <3>3, <4>1
    <3>4. CASE b \in 1..index
      <4>1. b # index + 1
        BY <2>3, <3>4
      <4>2. slots'[b] = slots[b]
        BY <1>0, <2>2, <3>1, <4>1 DEF TypeOK
      <4>3. QED
        BY <2>2, <2>3, <2>4, <3>2, <3>4, <4>2
    <3>5. QED
      BY <3>1, <3>3, <3>4
  <2>6. QED
    BY <2>2, <2>3, <2>4, <2>5 DEF PromptInv
<1>9. Callback => Converse \/ Ask \/ Acknowledged \/ Answered \/ pc' \in {"pam", "crashed"}
  BY DEF Callback, AskFails, AnswerLost, Cancelled, ChannelClosed, HandOver, Abort,
     FreeResponseArray
<1>10. Converse => pc' \in {"callback", "pam"}
  BY DEF Converse
<1>11. HeapFails => pc' = "crashed"
  BY DEF HeapFails
<1>12. QED
  BY <1>1, <1>2, <1>3, <1>4, <1>5, <1>6, <1>7, <1>8, <1>9, <1>10, <1>11 DEF Next

LEMMA TailOfOne ==
    ASSUME NEW S, NEW q \in Seq(S), Len(q) = 1
    PROVE  Tail(q) = <<>>
<1>1. Tail(q) \in Seq(S) /\ Len(Tail(q)) = 0
  OBVIOUS
<1>2. QED
  BY <1>1, EmptySeq

LEMMA LastAppended ==
    ASSUME NEW S, NEW q \in Seq(S), NEW x \in S
    PROVE  Append(q, x) # <<>> /\ Last(Append(q, x)) = x
BY DEF Last

LEMMA Appended ==
    ASSUME NEW S, NEW q \in Seq(S), NEW x
    PROVE  \A i \in DOMAIN Append(q, x) :
               \/ i = Len(q) + 1 /\ Append(q, x)[i] = x
               \/ i \in DOMAIN q /\ Append(q, x)[i] = q[i]
OBVIOUS

\* A message the worker hears leaves the others in their order.
LEMMA InboxTail ==
    ASSUME TypeOK, InboxInv, inbox # <<>>, inbox' = Tail(inbox),
           UNCHANGED <<asked, replied, link>>,
           \/ UNCHANGED pc
           \/ Head(inbox).kind = "answer"
           \/ \A i \in DOMAIN inbox : inbox[i].kind # "answer",
           link = "open" /\ pc' \notin {"asking", "crashed"} => replied = asked
    PROVE  InboxInv'
<1>1. \A i \in DOMAIN inbox' : i + 1 \in DOMAIN inbox /\ inbox'[i] = inbox[i + 1]
  BY DEF TypeOK
<1>2. 1 \in DOMAIN inbox /\ Head(inbox) = inbox[1] /\ DOMAIN inbox' \subseteq Nat
  BY DEF TypeOK
<1>3. \A i, j \in DOMAIN inbox' :
          inbox'[i].kind = "answer" /\ inbox'[j].kind = "answer" => i = j
  BY <1>1, <1>2 DEF InboxInv
<1>4. ASSUME NEW i \in DOMAIN inbox', inbox'[i].kind = "answer"
      PROVE  pc' \in {"asking", "killed", "crashed"} /\ inbox'[i].to = asked' /\ replied' = asked'
  <2>1. i + 1 # 1 /\ i + 1 \in DOMAIN inbox /\ inbox[i + 1].kind = "answer" /\ i \in Nat
    BY <1>1, <1>2, <1>4
  <2>2. Head(inbox).kind # "answer"
    BY <2>1, <1>2 DEF InboxInv
  <2>3. UNCHANGED pc
    BY <2>1, <2>2
  <2>4. QED
    BY <1>1, <1>4, <2>1, <2>3 DEF InboxInv
<1>5. ASSUME NEW i \in DOMAIN inbox', inbox'[i].kind = "cancel"
      PROVE  link' = "closed" /\ i = Len(inbox')
  <2>1. link = "closed" /\ i + 1 = Len(inbox) /\ i \in Nat
    BY <1>1, <1>2, <1>5 DEF InboxInv
  <2>2. Len(inbox') = Len(inbox) - 1
    BY DEF TypeOK
  <2>3. QED
    BY <2>1, <2>2
<1>6. QED
  BY <1>3, <1>4, <1>5 DEF InboxInv

LEMMA InboxFrame ==
    ASSUME InboxInv, UNCHANGED <<inbox, asked, replied, link>>,
           \/ pc' = "killed" /\ link = "closed"
           \/ pc' = "crashed"
           \/ pc \notin {"asking", "killed", "crashed"} /\ pc' \notin {"asking", "killed"}
    PROVE  InboxInv'
BY DEF InboxInv

LEMMA InboxKept == WorkerInv /\ [Next]_vars => InboxInv'
<1> SUFFICES ASSUME WorkerInv, [Next]_vars PROVE InboxInv'
  OBVIOUS
<1>0. TypeOK /\ PromptInv /\ InboxInv /\ VerdictInv
  BY DEF WorkerInv
<1>1. CASE UNCHANGED vars
  BY <1>0, <1>1 DEF vars, InboxInv, daemonVars
<1>2. CASE ReadStart
  <2>1. \A i \in DOMAIN inbox : inbox[i].kind # "answer"
    BY <1>0, <1>2 DEF InboxInv, ReadStart, Goto
  <2>2. inbox # <<>> /\ inbox' = Tail(inbox) /\ UNCHANGED <<asked, replied, link>>
        /\ pc = "boot" /\ pc' = "init"
    BY <1>2 DEF ReadStart, Goto, daemonVars
  <2>3. link = "open" => replied = asked
    BY <1>0, <2>2 DEF InboxInv
  <2>4. QED
    BY <1>0, <2>1, <2>2, <2>3, InboxTail
<1>3. CASE Session /\ UNCHANGED inbox
  <2>1. UNCHANGED <<asked, replied, link>> /\ pc \notin {"asking", "killed", "crashed"}
        /\ pc' \notin {"asking", "killed"}
    BY <1>3, SessionFrame DEF daemonVars, InCallback
  <2>2. QED
    BY <1>0, <1>3, <2>1, InboxFrame
<1>4. Session => ReadStart \/ UNCHANGED inbox
  BY DEF Session, NoStart, StartPam, PamAccepts, PamRefuses, SayReady, SayFailed, EndPam, Unregister
<1>5. CASE DaemonStarts \/ DaemonAnswers \/ DaemonCloses
  <2>0. UNCHANGED <<pc, asked>>
    BY <1>5 DEF DaemonStarts, DaemonAnswers, DaemonCloses, LeaveWorker
  <2>1. CASE DaemonStarts
    <3>1. pc = "boot" /\ asked = 0 /\ replied = 0 /\ replied' = replied
          /\ inbox' = Append(inbox, Message("start", 0)) /\ link' = "open"
      BY <1>0, <2>1 DEF DaemonStarts, VerdictInv, PromptInv, TypeOK
    <3>2. \A i \in DOMAIN inbox : inbox[i].kind \notin {"answer", "cancel"}
      BY <1>0, <2>1, <3>1 DEF InboxInv, DaemonStarts
    <3>3. \A i \in DOMAIN inbox' : inbox'[i].kind \notin {"answer", "cancel"}
      BY <1>0, <3>1, <3>2, Appended DEF TypeOK, Message
    <3>4. QED
      BY <2>0, <3>1, <3>3 DEF InboxInv
  <2>2. CASE DaemonAnswers
    <3>1. link = "open" /\ link' = "open" /\ replied # asked /\ replied' = asked
          /\ inbox' = Append(inbox, Message("answer", asked))
      BY <1>0, <2>2 DEF DaemonAnswers, TypeOK
    <3>2. pc \in {"asking", "crashed"}
          /\ \A i \in DOMAIN inbox : inbox[i].kind \notin {"answer", "cancel"}
      BY <1>0, <3>1 DEF InboxInv
    <3>3. \A i \in DOMAIN inbox' :
              \/ i = Len(inbox) + 1 /\ inbox'[i] = Message("answer", asked)
              \/ inbox'[i].kind \notin {"answer", "cancel"}
      BY <1>0, <3>1, <3>2, Appended DEF TypeOK
    <3>4. QED
      BY <2>0, <3>1, <3>2, <3>3 DEF InboxInv, Message
  <2>3. CASE DaemonCloses /\ UNCHANGED inbox
    BY <1>0, <2>0, <2>3 DEF DaemonCloses, InboxInv
  <2>4. CASE DaemonCloses /\ inbox' = Append(inbox, Message("cancel", 0))
    <3>0. \A i \in DOMAIN inbox : inbox[i].kind # "cancel"
      BY <1>0, <2>4 DEF InboxInv, DaemonCloses
    <3>4. Len(inbox') = Len(inbox) + 1
      BY <1>0, <2>4 DEF TypeOK
    <3>1. \A i \in DOMAIN inbox' :
              \/ i = Len(inbox) + 1 /\ inbox'[i] = Message("cancel", 0)
              \/ i \in DOMAIN inbox /\ inbox'[i] = inbox[i]
      BY <1>0, <2>4, Appended DEF TypeOK
    <3>2. link' = "closed" /\ replied' = replied
      BY <2>4 DEF DaemonCloses
    <3>3. QED
      BY <1>0, <2>0, <3>0, <3>1, <3>2, <3>4 DEF InboxInv, Message
  <2>5. QED
    BY <1>5, <2>1, <2>2, <2>3, <2>4 DEF DaemonCloses
<1>6. CASE WorkerKilled
  BY <1>0, <1>6, InboxFrame DEF WorkerKilled, daemonVars
<1>7. CASE Converse \/ AskFails \/ HandOver
  <2>1. UNCHANGED <<inbox, asked, replied, link>> /\ pc \notin {"asking", "killed", "crashed"}
        /\ pc' \notin {"asking", "killed"}
    BY <1>7 DEF Converse, AskFails, Abort, FreeResponseArray, HandOver, daemonVars
  <2>2. QED
    BY <1>0, <2>1, InboxFrame
<1>8. CASE Ask
  <2>1. \A i \in DOMAIN inbox : inbox[i].kind # "answer"
    BY <1>0, <1>8 DEF InboxInv, Ask
  <2>2. QED
    BY <1>0, <1>8, <2>1 DEF Ask, InboxInv, daemonVars
<1>9. CASE Acknowledged \/ Answered \/ AnswerLost
  <2>1. Hears("answer")
    BY <1>9 DEF Acknowledged, Answered, AnswerLost
  <2>2. replied = asked
    BY <1>0, <2>1, HeardAnswer
  <2>3. QED
    BY <1>0, <2>1, <2>2, InboxTail DEF Hears, daemonVars
<1>10. CASE Cancelled
  <2>1. inbox # <<>> /\ Head(inbox).kind = "cancel" /\ inbox' = Tail(inbox)
        /\ pc' \in {"pam", "crashed"} /\ UNCHANGED <<asked, replied, link>> /\ pc = "asking"
    BY <1>10 DEF Cancelled, Hears, daemonVars, FreeResponseArray
  <2>2. inbox[1] = Head(inbox) /\ 1 \in DOMAIN inbox
    BY <1>0, <2>1 DEF TypeOK
  <2>3. link = "closed" /\ Len(inbox) = 1
    BY <1>0, <2>1, <2>2 DEF InboxInv
  <2>4. inbox' = <<>>
    BY <1>0, <2>1, <2>3, TailOfOne DEF TypeOK
  <2>5. QED
    BY <2>1, <2>3, <2>4 DEF InboxInv
<1>11. CASE ChannelClosed
  <2>1. inbox = <<>> /\ link = "closed" /\ UNCHANGED <<inbox, link>>
    BY <1>11 DEF ChannelClosed, HungUp, daemonVars
  <2>2. QED
    BY <2>1 DEF InboxInv
<1>12. CASE HeapFails
  BY <1>0, <1>12, HeapFrame, InboxFrame DEF daemonVars
<1>13. QED
  BY <1>1, <1>2, <1>3, <1>4, <1>5, <1>6, <1>7, <1>8, <1>9, <1>10, <1>11, <1>12
     DEF Next, Daemon, Callback

-----------------------------------------------------------------------------
(* What PAM was handed, what is registered and what is said. *)

LEMMA PlaceKept == WorkerInv /\ [Next]_vars => AnswersInPlace'
<1> SUFFICES ASSUME WorkerInv, [Next]_vars, memory'[0] = "pam",
                    NEW b \in 1..Len(batch')
             PROVE  IF batch'[b] = "input"
                    THEN memory'[b] = "pam" /\ slots'[b] = asked' - Len(batch') + b
                    ELSE slots'[b] = 0
  BY DEF AnswersInPlace
<1>0. TypeOK /\ MemoryInv /\ PromptInv /\ AnswersInPlace /\ WorkerAssumption
  BY WorkerAssumption DEF WorkerInv
<1>1. CASE HandOver
  <2>1. pc = "callback" /\ index = Len(batch) /\ UNCHANGED <<batch, slots, asked>>
        /\ memory' = [k \in Block |-> IF memory[k] = "ours" THEN "pam" ELSE memory[k]]
    BY <1>1 DEF HandOver
  <2>2. b \in 1..MaxMessages /\ b <= index /\ b \in Block /\ b \in 1..index
    BY <1>0, <2>1 DEF TypeOK, Block
  <2>3. CASE batch[b] = "input"
    <3>1. memory[b] = "ours"
      BY <1>0, <2>1, <2>2, <2>3 DEF MemoryInv, InCallback
    <3>2. slots[b] = asked - index + b
      BY <1>0, <2>1, <2>2, <2>3 DEF PromptInv, InCallback, TypeOK
    <3>3. QED
      BY <2>1, <2>2, <2>3, <3>1, <3>2
  <2>4. CASE batch[b] # "input"
    BY <1>0, <2>1, <2>2, <2>4 DEF MemoryInv, InCallback
  <2>5. QED
    BY <2>3, <2>4
<1>2. CASE UNCHANGED <<callVars, asked>>
  BY <1>0, <1>2 DEF AnswersInPlace, callVars
<1>3. ASSUME pc \in InCallback, memory'[0] \in {"ours", "free"} PROVE FALSE
  BY <1>3
<1>4. \/ UNCHANGED <<callVars, asked>> \/ HandOver \/ Converse
      \/ Ask \/ AskFails \/ Acknowledged \/ Answered \/ AnswerLost \/ Cancelled \/ ChannelClosed
  BY SessionFrame, DaemonFrame, HeapFrame DEF Next, Callback, vars
<1>5. CASE Converse
  BY <1>5, <1>0 DEF Converse, Block
<1>6. CASE Ask \/ Acknowledged
  <2>1. pc \in InCallback /\ UNCHANGED memory
    BY <1>6 DEF Ask, Acknowledged, Hears, InCallback, callVars
  <2>2. QED
    BY <1>0, <2>1 DEF MemoryInv
<1>7. CASE Answered
  <2>1. pc \in InCallback /\ index + 1 # 0 /\ memory' = [memory EXCEPT ![index + 1] = "ours"]
    BY <1>0, <1>7 DEF Answered, Hears, InCallback, TypeOK
  <2>2. QED
    BY <1>0, <2>1 DEF MemoryInv, TypeOK, Block
<1>8. CASE AskFails \/ AnswerLost \/ Cancelled \/ ChannelClosed
  <2>1. pc \in InCallback
    BY <1>8 DEF AskFails, AnswerLost, Cancelled, ChannelClosed, Hears, InCallback
  <2>2. PICK filled : FreeResponseArray(filled)
    BY <1>8 DEF AskFails, AnswerLost, Cancelled, ChannelClosed, Abort
  <2>3. memory'[0] = "free"
    BY <1>0, <2>1, <2>2 DEF FreeResponseArray, MemoryInv, Block
  <2>4. QED
    BY <2>3
<1>9. QED
  BY <1>1, <1>2, <1>4, <1>5, <1>6, <1>7, <1>8

\* The callback leaves PAM's transaction, the verdict and the channel alone.
LEMMA CallbackFrame ==
    ASSUME Callback
    PROVE  /\ UNCHANGED <<stage, verdict, broker, handle, daemonVars, accepted>>
           /\ pc \in {"pam"} \cup InCallback /\ pc' \in {"pam", "crashed"} \cup InCallback
<1> USE DEF Hears, pamVars, InCallback, FreeResponseArray
<1>1. CASE Converse \/ Ask \/ AskFails
  BY <1>1 DEF Converse, Ask, AskFails, Abort
<1>2. CASE Acknowledged \/ Answered \/ AnswerLost
  BY <1>2 DEF Acknowledged, Answered, AnswerLost, Abort
<1>3. CASE Cancelled \/ ChannelClosed \/ HandOver
  BY <1>3 DEF Cancelled, ChannelClosed, Abort, HandOver
<1>4. QED
  BY <1>1, <1>2, <1>3 DEF Callback

LEMMA OneAndOne == Append(<<"auth">>, "acct") = <<"auth", "acct">>
<1> DEFINE S == {"auth", "acct"}
           q == Append(<<"auth">>, "acct")
           r == <<"auth", "acct">>
<1>1. <<"auth">> \in Seq(S)
  OBVIOUS
<1>2. Len(<<"auth">>) = 1 /\ <<"auth">>[1] = "auth"
  OBVIOUS
<1>3. q \in Seq(S) /\ Len(q) = 2 /\ q[1] = "auth" /\ q[2] = "acct"
  BY <1>1, <1>2, AppendProperties
<1>4. r \in Seq(S) /\ Len(r) = 2 /\ r[1] = "auth" /\ r[2] = "acct"
  OBVIOUS
<1> HIDE DEF q, r
<1>5. \A i \in 1..Len(q) : q[i] = r[i]
  BY <1>3, <1>4
<1>6. q = r
  BY <1>3, <1>4, <1>5, SeqEqual
<1>7. QED
  BY <1>6 DEF q, r

LEMMA FirstMessage ==
    ASSUME TypeOK, inbox # <<>>
    PROVE  /\ 1 \in DOMAIN inbox /\ inbox[1] = Head(inbox)
           /\ inbox[1].kind \in Kinds
<1> DEFINE M == [kind : Kinds, to : Nat]
<1>1. inbox \in Seq(M)
  BY DEF TypeOK
<1>2. 1 \in DOMAIN inbox /\ inbox[1] = Head(inbox)
  BY <1>1
<1> HIDE DEF M
<1>3. inbox[1] \in M
  BY <1>1, <1>2, HeadAndTail
<1>4. QED
  BY <1>2, <1>3 DEF M

LEMMA LifeKept == WorkerInv /\ [Next]_vars => BrokerInv' /\ VerdictInv' /\ AcceptInv'
<1> SUFFICES ASSUME WorkerInv, [Next]_vars PROVE BrokerInv' /\ VerdictInv' /\ AcceptInv'
  OBVIOUS
<1>0. TypeOK /\ BrokerInv /\ VerdictInv /\ AcceptInv /\ InboxInv
  BY DEF WorkerInv
<1>1. CASE UNCHANGED vars
  BY <1>0, <1>1 DEF vars, pamVars, daemonVars, BrokerInv, VerdictInv, AcceptInv
<1>2. CASE Callback
  BY <1>0, <1>2, CallbackFrame DEF BrokerInv, VerdictInv, AcceptInv, daemonVars, InCallback
<1>3. CASE Daemon
  BY <1>0, <1>3, DaemonFrame DEF BrokerInv, VerdictInv, AcceptInv, pamVars, InCallback,
     Daemon, DaemonStarts, DaemonAnswers, DaemonCloses, WorkerKilled, daemonVars, LeaveWorker
<1>4. CASE Session
  <2> USE <1>0 DEF Goto, BrokerInv, VerdictInv, AcceptInv, daemonVars, pamVars, InCallback
  <2>1. CASE ReadStart
    BY <2>1 DEF ReadStart
  <2>2. CASE NoStart
    <3>1. CASE HungUp
      BY <2>2, <3>1 DEF NoStart, HungUp
    <3>2. CASE inbox # <<>> /\ Head(inbox).kind # "start"
      <4>1. 1 \in DOMAIN inbox /\ inbox[1] = Head(inbox) /\ inbox[1].kind \in Kinds
        BY <1>0, <3>2, FirstMessage
      <4>2. inbox[1].kind = "cancel"
        BY <2>2, <3>2, <4>1 DEF NoStart, InboxInv, Kinds
      <4>3. link = "closed"
        BY <4>1, <4>2 DEF InboxInv
      <4>4. QED
        BY <2>2, <4>3 DEF NoStart
    <3>3. QED
      BY <2>2, <3>1, <3>2 DEF NoStart
  <2>3. CASE StartPam
    BY <2>3 DEF StartPam
  <2>4. CASE PamAccepts
    <3>1. CASE stage = "auth"
      <4>1. accepted' = Append(<<>>, "auth")
        BY <2>4, <3>1 DEF PamAccepts
      <4>2. accepted' = <<"auth">>
        BY <4>1
      <4>3. QED
        BY <2>4, <3>1, <4>2 DEF PamAccepts
    <3>2. CASE stage = "acct"
      <4>1. accepted' = Append(<<"auth">>, "acct")
        BY <2>4, <3>2 DEF PamAccepts
      <4>2. accepted' = <<"auth", "acct">>
        BY <4>1, OneAndOne
      <4>3. QED
        BY <2>4, <3>2, <4>2 DEF PamAccepts
    <3>3. QED
      BY <3>1, <3>2 DEF TypeOK
  <2>5. CASE PamRefuses
    BY <2>5 DEF PamRefuses
  <2>6. CASE SayReady
    <3>1. CASE link = "open" /\ reports' = Append(reports, "ready") /\ pc' = "finish"
      <4>0. "ready" \in Reports /\ reports \in Seq(Reports)
        BY <1>0 DEF TypeOK, Reports
      <4>1. reports' # <<>> /\ Last(reports') = "ready"
        BY <3>1, <4>0, LastAppended
      <4>2. QED
        BY <2>6, <3>1, <4>1 DEF SayReady
    <3>2. CASE link = "closed" /\ pc' = "failing" /\ UNCHANGED reports
      BY <2>6, <3>2 DEF SayReady
    <3>3. QED
      BY <2>6, <3>1, <3>2 DEF SayReady
  <2>7. CASE SayFailed
    <3>1. link # "unwritten"
      BY <2>7 DEF SayFailed
    <3>2. CASE link = "open"
      <4>1. reports' # <<>> /\ Last(reports') = verdict
        BY <2>7, <3>2, LastAppended DEF SayFailed, TypeOK, Reports
      <4>2. verdict # "prompt"
        BY DEF TypeOK, Refusals
      <4>3. QED
        BY <2>7, <3>2, <4>1, <4>2 DEF SayFailed
    <3>3. CASE link = "closed"
      BY <2>7, <3>3 DEF SayFailed
    <3>4. QED
      BY <3>1, <3>2, <3>3 DEF TypeOK
  <2>8. CASE EndPam
    BY <2>8 DEF EndPam
  <2>9. CASE Unregister
    BY <2>9 DEF Unregister
  <2>10. QED
    BY <1>4, <2>1, <2>2, <2>3, <2>4, <2>5, <2>6, <2>7, <2>8, <2>9 DEF Session
<1>5. CASE HeapFails
  <2>1. pc \notin {"boot", "init"}
    BY <1>0, <1>5, HeapFrame DEF VerdictInv, TypeOK
  <2>2. QED
    BY <1>0, <1>5, <2>1, HeapFrame DEF BrokerInv, VerdictInv, AcceptInv, daemonVars, pamVars, InCallback
<1>6. QED
  BY <1>1, <1>2, <1>3, <1>4, <1>5 DEF Next

-----------------------------------------------------------------------------
(* The theorems. *)

LEMMA StepInv == WorkerInv /\ [Next]_vars => WorkerInv'
BY TypesKept, MemoryKept, PromptKept, InboxKept, PlaceKept, LifeKept DEF WorkerInv

\* The invariant the results below rest on: the worker's types, the ownership of
\* every block, the numbering of prompts and replies, and what is registered,
\* accepted and said at each place of pam/worker.py.
THEOREM WorkerInvariant == Spec => []WorkerInv
BY InitInv, StepInv, PTL DEF Spec

\* However a call is broken off, _conversation_conv leaves the array freed or PAM's
\* and what PAM is handed alone; a response is lost, or free() given a foreign
\* pointer, only when a call of several messages failed after one was answered.
THEOREM MemoryIsSound == Spec => []MemorySound
<1>1. WorkerInv => MemorySound
  BY DEF WorkerInv, MemoryInv
<1>2. QED
  BY <1>1, WorkerInvariant, PTL

\* With a PAM module that asks for one thing at a time nothing is lost, and free()
\* is given what calloc returned.
THEOREM OneByOneIsSound == Spec => []OneByOneSound
<1>1. WorkerInv => OneByOneSound
  <2> SUFFICES ASSUME WorkerInv, MaxMessages = 1, NEW b \in Block, memory[b] = "lost"
               PROVE  FALSE
    BY DEF WorkerInv, MemoryInv, OneByOneSound, TypeOK
  <2>1. b <= index /\ index < Len(batch) /\ Len(batch) <= 1 /\ b # 0 /\ b \in Nat
    BY DEF WorkerInv, MemoryInv, MemorySound, TypeOK, Block
  <2>2. QED
    BY <2>1 DEF WorkerInv, TypeOK
<1>2. QED
  BY <1>1, WorkerInvariant, PTL

\* Whatever PAM asks, in however many messages, the array _conversation_conv
\* hands it holds the reply to each message at that message's index.
THEOREM AnswersStayInPlace == Spec => []AnswersInPlace
<1>1. WorkerInv => AnswersInPlace
  BY DEF WorkerInv
<1>2. QED
  BY <1>1, WorkerInvariant, PTL

\* The broker PAM's callback looks up stays registered until pam_end returned.
THEOREM BrokerHeld == Spec => []BrokerOutlivesHandle
<1>1. WorkerInv => BrokerOutlivesHandle
  BY DEF WorkerInv, BrokerInv, BrokerOutlivesHandle
<1>2. QED
  BY <1>1, WorkerInvariant, PTL

\* run_auth_session does not end without telling a daemon that listens, but for the
\* crash that the wrong free() may bring about.
THEOREM VerdictSaid == Spec => []NoSilentEnd
<1>1. WorkerInv => NoSilentEnd
  BY DEF WorkerInv, VerdictInv, MemoryInv, NoSilentEnd, Gone
<1>2. QED
  BY <1>1, WorkerInvariant, PTL

-----------------------------------------------------------------------------
(* The worker implements its promise: each step is one of the promise's, or a *)
(* stutter.                                                                   *)

LEMMA PromiseInit == Init => Promise!Init
BY DEF Init, Promise!Init, Life, Over, Gone, InCallback

LEMMA PromiseStep == WorkerInv /\ [Next]_vars => [Promise!Next]_Promise!vars
<1> SUFFICES ASSUME WorkerInv, [Next]_vars PROVE Promise!Next \/ UNCHANGED Promise!vars
  BY DEF Promise!Next, Promise!vars
<1> USE DEF Life, InCallback, Over, Gone, Goto, pamVars, daemonVars
<1>0. TypeOK /\ AcceptInv /\ VerdictInv
  BY DEF WorkerInv
<1>1. CASE UNCHANGED vars
  BY <1>1 DEF vars, Promise!vars
<1>2. CASE DaemonStarts \/ DaemonAnswers \/ DaemonCloses
  BY <1>2 DEF DaemonStarts, DaemonAnswers, DaemonCloses, LeaveWorker, Promise!vars
<1>3. CASE WorkerKilled
  BY <1>3 DEF WorkerKilled, Promise!Next, Promise!Die
<1>4. CASE ReadStart
  BY <1>4 DEF ReadStart, Promise!Next, Promise!Boot
<1>5. CASE NoStart
  BY <1>5 DEF NoStart, Promise!Next, Promise!Die
<1>6. CASE StartPam
  BY <1>6 DEF StartPam, Promise!vars
<1>7. CASE PamAccepts
  <2>1. CASE stage = "auth"
    <3>1. accepted = <<>> /\ accepted' = <<"auth">> /\ pc = "pam" /\ pc' = "pam"
          /\ UNCHANGED reports
      BY <1>0, <1>7, <2>1 DEF PamAccepts, AcceptInv
    <3>2. QED
      BY <3>1 DEF Promise!Next, Promise!AcceptUser
  <2>2. CASE stage = "acct"
    <3>1. accepted = <<"auth">> /\ accepted' = Append(<<"auth">>, "acct") /\ pc = "pam"
          /\ pc' = "ready" /\ UNCHANGED reports
      BY <1>0, <1>7, <2>2 DEF PamAccepts, AcceptInv
    <3>2. QED
      BY <3>1, OneAndOne DEF Promise!Next, Promise!AcceptAccount
  <2>3. QED
    BY <1>0, <2>1, <2>2 DEF TypeOK
<1>8. CASE PamRefuses
  BY <1>8 DEF PamRefuses, Promise!vars
<1>9. CASE SayReady
  <2>1. CASE link = "open" /\ reports' = Append(reports, "ready") /\ pc' = "finish"
    <3>1. pc = "ready" /\ accepted = <<"auth", "acct">> /\ UNCHANGED accepted
      BY <1>0, <1>9 DEF SayReady, AcceptInv
    <3>2. QED
      BY <2>1, <3>1 DEF Promise!Next, Promise!SayReady
  <2>2. CASE link = "closed" /\ pc' = "failing" /\ UNCHANGED reports
    BY <1>9, <2>2 DEF SayReady, Promise!vars
  <2>3. QED
    BY <1>9, <2>1, <2>2 DEF SayReady
<1>10. CASE SayFailed
  <2>1. pc = "failing" /\ pc' = "finish" /\ UNCHANGED accepted
    BY <1>10 DEF SayFailed
  <2>2. CASE link = "open"
    <3>1. reports' = Append(reports, verdict) /\ verdict \in Refusals
      BY <1>0, <1>10, <2>2 DEF SayFailed, TypeOK
    <3>2. QED
      BY <2>1, <3>1 DEF Promise!Next, Promise!SayRefused
  <2>3. CASE link # "open"
    BY <1>10, <2>1, <2>3 DEF SayFailed, Promise!Next, Promise!Die
  <2>4. QED
    BY <2>2, <2>3
<1>11. CASE EndPam \/ Unregister
  BY <1>11 DEF EndPam, Unregister, Promise!vars
<1>12. CASE Converse \/ HandOver
  BY <1>12 DEF Converse, HandOver, Promise!vars
<1>13. CASE Ask
  BY <1>13 DEF Ask, Promise!Next, Promise!Ask
<1>14. CASE Acknowledged \/ Answered
  BY <1>14 DEF Acknowledged, Answered, Hears, Promise!Next, Promise!Hear
<1>15. CASE AskFails \/ AnswerLost \/ Cancelled \/ ChannelClosed
  <2>1. pc' \in {"pam", "crashed"} /\ pc \in {"asking", "callback"} /\ UNCHANGED <<accepted, reports>>
    BY <1>15 DEF AskFails, AnswerLost, Cancelled, ChannelClosed, Abort, FreeResponseArray, Hears
  <2>2. QED
    BY <2>1 DEF Promise!Next, Promise!Hear, Promise!Die, Promise!vars
<1>16. CASE HeapFails
  BY <1>16, HeapFrame DEF Promise!Next, Promise!Die
<1>17. QED
  BY <1>1, <1>2, <1>3, <1>4, <1>5, <1>6, <1>7, <1>8, <1>9, <1>10, <1>11, <1>12, <1>13, <1>14, <1>15,
     <1>16 DEF Next, Daemon, Session, Callback

\* To the daemon the worker is what it relies on: one prompt at a time, one
\* verdict and the last word, and ready only after PAM accepted the user's
\* secrets and then the account.
THEOREM KeepsPromise == Spec => PromiseKept
<1>1. Init /\ [][Next]_vars /\ []WorkerInv => Promise!Spec
  BY PromiseInit, PromiseStep, PTL DEF Promise!Spec
<1>2. QED
  BY <1>1, WorkerInvariant, PTL DEF Spec, PromiseKept
=============================================================================
