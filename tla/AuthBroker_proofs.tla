------------------------- MODULE AuthBroker_proofs -------------------------
(***************************************************************************)
(* Proofs about AuthBroker, for any set of attempts and users and any      *)
(* timeout: the inductive invariant and what it implies, the order of the  *)
(* answers, and the refinement of LoginGate.                               *)
(***************************************************************************)
EXTENDS AuthBrokerInv, AuthRefinement, Induction

(* The shape of the messages.                                               *)

LEMMA ResponseType ==
    ASSUME NEW r \in Requests, NEW status \in Statuses
    PROVE  Responses(r, status) \subseteq Messages
BY DEF Responses, Messages, Requests, RequestKinds, CreateRequests,
       ContinueRequests, PlainRequests

LEMMA EventType ==
    ASSUME NEW name \in Events
    PROVE  Event(name) \in Messages
BY DEF Event, Messages

LEMMA KindType ==
    ASSUME NEW r \in Requests
    PROVE  r.kind \in RequestKinds
BY DEF Requests, RequestKinds, CreateRequests, ContinueRequests, PlainRequests

LEMMA ReportType ==
    ASSUME NEW m \in WorkerReports
    PROVE  /\ m.kind = "failed" => m.code \in FailureCodes
           /\ m.kind \in {"prompt", "ready", "failed"}
BY DEF WorkerReports

LEMMA SendType ==
    ASSUME TypeOK, NEW msgs \in Seq(Messages), Send(msgs)
    PROVE  out' \in Seq(Messages)
BY DEF TypeOK, Send

LEMMA RespondType ==
    ASSUME TypeOK, NEW r \in Requests, NEW status \in Statuses, Respond(r, status)
    PROVE  out' \in Seq(Messages)
<1>1. PICK m \in Responses(r, status) : Send(<<m>>)
  BY DEF Respond
<1>2. <<m>> \in Seq(Messages)
  BY ResponseType
<1>3. QED
  BY <1>1, <1>2, SendType

LEMMA TellingType ==
    ASSUME NEW name \in Events, NEW told \in Telling(name)
    PROVE  told \in Seq(Messages)
<1>1. told = <<>> \/ told = <<Event(name)>>
  BY Zenon DEF Telling
<1>2. <<>> \in Seq(Messages) /\ <<Event(name)>> \in Seq(Messages)
  BY EventType
<1>3. QED
  BY <1>1, <1>2, Zenon

LEMMA TakeType ==
    ASSUME TypeOK, NEW kind, Reading(kind)
    PROVE  /\ Head(requests) \in Requests
           /\ Head(requests).kind = kind
           /\ requests' \in Seq(Requests)
BY DEF TypeOK, Reading

LEMMA AnswerNowInv ==
    ASSUME AuthInv, NEW kind, Reading(kind), NEW status \in Statuses, AnswerNow(status)
    PROVE  AuthInv'
<1>1. Head(requests) \in Requests /\ requests' \in Seq(Requests)
  BY TakeType DEF AuthInv
<1>2. out' \in Seq(Messages)
  BY <1>1, RespondType DEF AuthInv, AnswerNow
<1>3. TypeOK'
  <2>1. TypeOK /\ UNCHANGED <<taskVars, auth, ready, timer, user, workerVars, clientUp, awaiting,
                              launchVars, granted, stopped>>
    BY DEF AuthInv, AnswerNow
  <2>2. QED
    BY <1>1, <1>2, <2>1, ZenonT(40) DEF TypeOK, taskVars, workerVars, launchVars
<1>4. (HandlerInv /\ TimerInv /\ WorkerInv /\ SpendInv)'
  BY DEF AuthInv, AnswerNow, taskVars, workerVars, launchVars, HandlerInv, TimerInv,
         TimerWatchesPending, PendingIsWatched, WorkerInv, AttemptInv, SpendInv
<1>5. QED
  BY <1>3, <1>4 DEF AuthInv


-----------------------------------------------------------------------------
(* The steps of the handler that only move it.                              *)

LEMMA AcceptPowerInv ==
    ASSUME AuthInv, AcceptPower
    PROVE  AuthInv'
<1>1. Head(requests) \in Requests /\ requests' \in Seq(Requests)
  BY TakeType DEF AuthInv, AcceptPower
<1>2. out' \in Seq(Messages)
  BY <1>1, RespondType DEF AuthInv, AcceptPower, Statuses
<1>3. TypeOK'
  <2>1. /\ TypeOK /\ pc' = "control"
        /\ UNCHANGED <<request, starting, verdict, clientVars, user, workerVars, clientUp, awaiting,
                       launchVars, granted, stopped>>
    BY DEF AuthInv, AcceptPower
  <2>2. QED
    BY <1>1, <1>2, <2>1, ZenonT(40) DEF TypeOK, Places, clientVars, workerVars, launchVars
<1>4. (HandlerInv /\ TimerInv /\ WorkerInv /\ SpendInv)'
  BY DEF AuthInv, AcceptPower, Reading, clientVars, workerVars, launchVars,
         HandlerInv, TimerInv, TimerWatchesPending, PendingIsWatched, WorkerInv, AttemptInv,
         SpendInv, StopPlaces
<1>5. QED
  BY <1>3, <1>4 DEF AuthInv

LEMMA RunPowerCommandInv ==
    ASSUME AuthInv, RunPowerCommand
    PROVE  AuthInv'
<1>1. TypeOK'
  BY SMTT(20) DEF AuthInv, RunPowerCommand, TypeOK, Places, clientVars, workerVars, wireVars,
         launchVars
<1>2. (HandlerInv /\ TimerInv /\ WorkerInv /\ SpendInv)'
  BY DEF AuthInv, RunPowerCommand, clientVars, workerVars, wireVars, launchVars,
         HandlerInv, TimerInv, TimerWatchesPending, PendingIsWatched, WorkerInv, AttemptInv,
         SpendInv, StopPlaces
<1>3. QED
  BY <1>1, <1>2 DEF AuthInv

LEMMA AcceptCreateInv ==
    ASSUME AuthInv, AcceptCreate
    PROVE  AuthInv'
<1>1. Head(requests) \in Requests /\ Head(requests).kind = "create"
      /\ requests' \in Seq(Requests)
  BY TakeType DEF AuthInv, AcceptCreate
<1>2. Head(requests) \in CreateRequests
  BY <1>1 DEF Requests, CreateRequests, ContinueRequests, PlainRequests, PlainKinds
<1>3. TypeOK'
  BY <1>1 DEF AuthInv, AcceptCreate, TypeOK, Places, clientVars, workerVars, launchVars
<1>4. (HandlerInv /\ TimerInv /\ WorkerInv /\ SpendInv)'
  BY <1>2 DEF AuthInv, AcceptCreate, Reading, clientVars, workerVars, launchVars,
              HandlerInv, TimerInv, TimerWatchesPending, PendingIsWatched, WorkerInv, AttemptInv,
              SpendInv, StopPlaces
<1>5. QED
  BY <1>3, <1>4 DEF AuthInv

LEMMA LaunchWorkerInv ==
    ASSUME AuthInv, LaunchWorker
    PROVE  AuthInv'
<1>1. request \in Requests /\ request.user \in User
  BY DEF AuthInv, LaunchWorker, HandlerInv, Requests, CreateRequests
<1>2. TypeOK'
  BY <1>1, SMTT(20) DEF AuthInv, LaunchWorker, TypeOK, Places, InPam, Live, clientVars, wireVars,
              launchVars
<1>3. HandlerInv'
  BY <1>1, NoAttemptAssumption
     DEF AuthInv, LaunchWorker, HandlerInv, WorkerInv, AttemptInv, clientVars, launchVars
<1>4. TimerInv'
  BY DEF AuthInv, LaunchWorker, HandlerInv, TimerInv, TimerWatchesPending,
         PendingIsWatched, StopPlaces, clientVars
<1>5. WorkerInv'
  BY <1>1, NoAttemptAssumption
     DEF AuthInv, LaunchWorker, HandlerInv, WorkerInv, AttemptInv, TypeOK, InPam, Live, clientVars,
         launchVars
<1>6. SpendInv'
  BY NoAttemptAssumption
     DEF AuthInv, LaunchWorker, HandlerInv, WorkerInv, AttemptInv, SpendInv, TypeOK, StopPlaces,
         clientVars, launchVars
<1>7. QED
  BY <1>2, <1>3, <1>4, <1>5, <1>6 DEF AuthInv

LEMMA SendStartInv ==
    ASSUME AuthInv, SendStart
    PROVE  AuthInv'
<1>1. starting \in Attempt /\ request \in Requests
  BY DEF AuthInv, SendStart, HandlerInv, TypeOK
<1>2. TypeOK'
  BY <1>1, SMTT(20) DEF AuthInv, SendStart, TypeOK, Places, clientVars, wireVars, launchVars
<1>3. (HandlerInv /\ TimerInv /\ WorkerInv /\ SpendInv)'
  BY <1>1 DEF AuthInv, SendStart, HandlerInv, TimerInv, TimerWatchesPending,
              PendingIsWatched, WorkerInv, AttemptInv, SpendInv, StopPlaces, clientVars, wireVars,
              launchVars
<1>4. QED
  BY <1>2, <1>3 DEF AuthInv

LEMMA ContinueSessionInv ==
    ASSUME AuthInv, ContinueSession
    PROVE  AuthInv'
<1>1. Head(requests) \in Requests /\ requests' \in Seq(Requests)
  BY TakeType DEF AuthInv, ContinueSession, Continuing
<1>2. auth \in Attempt /\ auth \notin ready
  BY DEF AuthInv, ContinueSession, Continuing, TypeOK
<1>3. TypeOK'
  <2>1. toWorker' \in [Attempt -> Seq({"start", "answer", "cancel"})]
    BY <1>2 DEF AuthInv, ContinueSession, TypeOK
  <2>2. QED
    BY <1>1, <2>1 DEF AuthInv, ContinueSession, TypeOK, Places, clientVars, launchVars
<1>4. (HandlerInv /\ TimerInv /\ WorkerInv /\ SpendInv)'
  BY <1>1, <1>2 DEF AuthInv, ContinueSession, Continuing, Reading, HandlerInv, TimerInv,
              TimerWatchesPending, PendingIsWatched, WorkerInv, AttemptInv, SpendInv, StopPlaces,
              clientVars, launchVars
<1>5. QED
  BY <1>3, <1>4 DEF AuthInv

-----------------------------------------------------------------------------
(* Stopping a worker.                                                       *)

\* What StopWorker may do to the types it touches.
StoppedShape ==
    /\ worker' = worker
    /\ toWorker' \in [Attempt -> Seq({"start", "answer", "cancel"})]
    /\ fromWorker' \in [Attempt -> Seq(WorkerReports)]
    /\ link' \in [Attempt -> {"open", "closed"}]
    /\ stopped' \in SUBSET Attempt

LEMMA StopWorkerType ==
    ASSUME TypeOK, NEW a \in Attempt, NEW c \in BOOLEAN, StopWorker(a, c)
    PROVE  StoppedShape
<1>1. toWorker' \in [Attempt -> Seq({"start", "answer", "cancel"})]
  BY SMTT(20) DEF TypeOK, StopWorker
<1>2. fromWorker' \in [Attempt -> Seq(WorkerReports)]
  BY DEF TypeOK, StopWorker
<1>3. QED
  BY <1>1, <1>2 DEF TypeOK, StopWorker, StoppedShape

LEMMA BeginStopType ==
    ASSUME TypeOK, NEW at \in Places, NEW c \in BOOLEAN, BeginStop(at, c)
    PROVE  pc' = at /\ timer' = NoTimer /\ StoppedShape
<1>1. CASE auth = NoAttempt
  BY <1>1 DEF TypeOK, BeginStop, LeaveWorkers, workerVars, StoppedShape
<1>2. CASE auth # NoAttempt
  <2>1. auth \in Attempt /\ StopWorker(auth, c)
    BY <1>2 DEF TypeOK, BeginStop
  <2>2. QED
    BY <2>1, StopWorkerType DEF BeginStop
<1>3. QED
  BY <1>1, <1>2

\* What a stop leaves of the invariant: it closes the channel of the attempt it
\* stops, and nothing was spent or reported ready behind its back.
LEMMA BeginStopInv ==
    ASSUME AuthInv, NEW at \in StopPlaces, NEW c \in BOOLEAN, BeginStop(at, c),
           pc \notin StopPlaces, auth' = auth, ready' = ready, user' = user,
           granted' = granted, opened' = opened, outcome'.attempt = NoAttempt,
           starting' = NoAttempt,
           starting # NoAttempt => worker[starting] = "exited"
    PROVE  TimerInv' /\ WorkerInv' /\ SpendInv'
<1>1. TimerInv'
  BY DEF BeginStop, NoTimer, TimerInv, TimerWatchesPending, PendingIsWatched, StopPlaces
<1>2. CASE auth = NoAttempt
  <2>1. WorkerInv'
    BY <1>2 DEF AuthInv, BeginStop, LeaveWorkers, workerVars, WorkerInv, AttemptInv, InPam, Live
  <2>2. SpendInv'
    BY <1>2, NoAttemptAssumption
       DEF AuthInv, BeginStop, LeaveWorkers, workerVars, SpendInv, StopPlaces, TypeOK
  <2>3. QED
    BY <1>1, <2>1, <2>2
<1>3. CASE auth # NoAttempt
  <2>1. auth \in Attempt /\ StopWorker(auth, c)
    BY <1>3 DEF AuthInv, TypeOK, BeginStop
  <2>2. ASSUME NEW b \in Attempt
        PROVE  /\ worker'[b] = worker[b] /\ stopped' = stopped \cup {auth}
               /\ link'[b] = IF b = auth THEN "closed" ELSE link[b]
               /\ fromWorker'[b] = IF b = auth THEN <<>> ELSE fromWorker[b]
    BY <2>1 DEF AuthInv, StopWorker, TypeOK
  <2>3. WorkerInv'
    <3>1. SUFFICES ASSUME NEW b \in Attempt PROVE AttemptInv(b)'
      BY DEF WorkerInv
    <3>2. CASE b = auth
      BY <1>3, <2>2, <3>2 DEF AuthInv, WorkerInv, AttemptInv, InPam, Live
    <3>3. CASE b # auth
      BY <1>3, <2>2, <3>3, NoAttemptAssumption DEF AuthInv, WorkerInv, AttemptInv, InPam, Live
    <3>4. QED
      BY <3>2, <3>3
  <2>4. SpendInv'
    BY <2>1, NoAttemptAssumption
       DEF AuthInv, BeginStop, StopWorker, SpendInv, StopPlaces, TypeOK
  <2>5. QED
    BY <1>1, <2>3, <2>4
<1>4. QED
  BY <1>2, <1>3

LEMMA RaiseInv ==
    ASSUME AuthInv, Raise, pc \notin StopPlaces,
           starting # NoAttempt => worker[starting] = "exited"
    PROVE  AuthInv'
<1>1. TypeOK'
  <2>1. BeginStop("final", TRUE) /\ "final" \in Places /\ TypeOK
    BY DEF AuthInv, Raise, Places
  <2>2. pc' = "final" /\ timer' = NoTimer /\ StoppedShape
    BY <2>1, BeginStopType
  <2>3. QED
    BY <2>1, <2>2 DEF Raise, TypeOK, StoppedShape, NoTimer, NoOutcome, wireVars
<1>2. HandlerInv'
  BY DEF Raise, BeginStop, HandlerInv, NoOutcome
<1>3. TimerInv' /\ WorkerInv' /\ SpendInv'
  BY BeginStopInv DEF Raise, StopPlaces, NoOutcome
<1>4. QED
  BY <1>1, <1>2, <1>3 DEF AuthInv

LEMMA HangupInv ==
    ASSUME AuthInv, Hangup
    PROVE  AuthInv'
<1>1. requests' \in Seq(Requests) /\ pc = "read"
  BY TakeType DEF AuthInv, Hangup, Reading, TypeOK
<1>2. outcome.attempt = NoAttempt /\ starting = NoAttempt
  BY <1>1 DEF AuthInv, HandlerInv
<1>3. TypeOK'
  <2>1. BeginStop("final", TRUE) /\ "final" \in Places /\ TypeOK
    BY DEF AuthInv, Hangup, Places
  <2>2. pc' = "final" /\ timer' = NoTimer /\ StoppedShape
    BY <2>1, BeginStopType
  <2>3. QED
    BY <1>1, <2>1, <2>2 DEF Hangup, TypeOK, StoppedShape, NoTimer, launchVars
<1>4. HandlerInv'
  BY <1>1 DEF AuthInv, Hangup, BeginStop, HandlerInv, launchVars
<1>5. TimerInv' /\ WorkerInv' /\ SpendInv'
  BY <1>1, <1>2, BeginStopInv DEF AuthInv, Hangup, HandlerInv, StopPlaces, launchVars
<1>6. QED
  BY <1>3, <1>4, <1>5 DEF AuthInv

LEMMA ReplaceConversationInv ==
    ASSUME AuthInv, ReplaceConversation
    PROVE  AuthInv'
<1>1. Head(requests) \in Requests /\ requests' \in Seq(Requests) /\ pc = "read"
  BY TakeType DEF AuthInv, ReplaceConversation, Reading
<1>2. outcome.attempt = NoAttempt /\ starting = NoAttempt
  BY <1>1 DEF AuthInv, HandlerInv
<1>3. Head(requests) \in CreateRequests
  BY <1>1 DEF ReplaceConversation, Reading, Requests, CreateRequests, ContinueRequests,
              PlainRequests, PlainKinds
<1>4. TypeOK'
  <2>1. BeginStop("replace", TRUE) /\ "replace" \in Places /\ TypeOK
    BY DEF AuthInv, ReplaceConversation, Places
  <2>2. pc' = "replace" /\ timer' = NoTimer /\ StoppedShape
    BY <2>1, BeginStopType
  <2>3. QED
    BY <1>1, <2>1, <2>2 DEF ReplaceConversation, TypeOK, StoppedShape, NoTimer, launchVars
<1>5. HandlerInv'
  BY <1>1, <1>3, <1>2 DEF AuthInv, ReplaceConversation, BeginStop, HandlerInv, launchVars
<1>6. TimerInv' /\ WorkerInv' /\ SpendInv'
  BY <1>1, <1>2, BeginStopInv DEF AuthInv, ReplaceConversation, StopPlaces, launchVars
<1>7. QED
  BY <1>4, <1>5, <1>6 DEF AuthInv

LEMMA ContinueBrokenInv ==
    ASSUME AuthInv, ContinueBroken
    PROVE  AuthInv'
<1>1. Head(requests) \in Requests /\ requests' \in Seq(Requests) /\ pc = "read"
  BY TakeType DEF AuthInv, ContinueBroken, Reading, Continuing
<1>2. outcome.attempt = NoAttempt /\ starting = NoAttempt
  BY <1>1 DEF AuthInv, HandlerInv
<1>4. TypeOK'
  <2>1. BeginStop("final", TRUE) /\ "final" \in Places /\ TypeOK
    BY DEF AuthInv, ContinueBroken, Places
  <2>2. pc' = "final" /\ timer' = NoTimer /\ StoppedShape
    BY <2>1, BeginStopType
  <2>3. QED
    BY <1>1, <2>1, <2>2 DEF ContinueBroken, TypeOK, StoppedShape, NoTimer, launchVars
<1>5. HandlerInv'
  BY <1>1, <1>2 DEF AuthInv, ContinueBroken, BeginStop, HandlerInv, launchVars
<1>6. TimerInv' /\ WorkerInv' /\ SpendInv'
  BY <1>1, <1>2, BeginStopInv DEF AuthInv, ContinueBroken, StopPlaces, launchVars
<1>7. QED
  BY <1>4, <1>5, <1>6 DEF AuthInv

LEMMA CancelSessionInv ==
    ASSUME AuthInv, CancelSession
    PROVE  AuthInv'
<1>1. Head(requests) \in Requests /\ requests' \in Seq(Requests) /\ pc = "read"
  BY TakeType DEF AuthInv, CancelSession, Reading
<1>2. outcome.attempt = NoAttempt /\ starting = NoAttempt
  BY <1>1 DEF AuthInv, HandlerInv
<1>4. TypeOK'
  <2>1. BeginStop("cancel", TRUE) /\ "cancel" \in Places /\ TypeOK
    BY DEF AuthInv, CancelSession, Places
  <2>2. pc' = "cancel" /\ timer' = NoTimer /\ StoppedShape
    BY <2>1, BeginStopType
  <2>3. QED
    BY <1>1, <2>1, <2>2 DEF CancelSession, TypeOK, StoppedShape, NoTimer, launchVars
<1>5. HandlerInv'
  BY <1>1, <1>2 DEF AuthInv, CancelSession, BeginStop, HandlerInv, launchVars
<1>6. TimerInv' /\ WorkerInv' /\ SpendInv'
  BY <1>1, <1>2, BeginStopInv DEF AuthInv, CancelSession, StopPlaces, launchVars
<1>7. QED
  BY <1>4, <1>5, <1>6 DEF AuthInv

-----------------------------------------------------------------------------
(* The end of a stop: the process is gone and the conversation forgotten.   *)

LEMMA FinishHangupInv ==
    ASSUME AuthInv, FinishHangup
    PROVE  AuthInv'
<1>2. TypeOK'
  BY DEF AuthInv, FinishHangup, EndStop, TypeOK, Places, Idle, workerVars, wireVars, launchVars
<1>3. (HandlerInv /\ TimerInv)'
  BY DEF AuthInv, FinishHangup, EndStop, HandlerInv, TimerInv, TimerWatchesPending,
         PendingIsWatched, StopPlaces, launchVars
<1>4. (WorkerInv /\ SpendInv)'
  BY NoAttemptAssumption
     DEF AuthInv, TypeOK, FinishHangup, EndStop, HandlerInv, WorkerInv, AttemptInv, SpendInv, InPam,
         Live, StopPlaces, workerVars, launchVars
<1>5. QED
  BY <1>2, <1>3, <1>4 DEF AuthInv

LEMMA FinishReplaceInv ==
    ASSUME AuthInv, FinishReplace
    PROVE  AuthInv'
<1>2. TypeOK'
  BY DEF AuthInv, FinishReplace, EndStop, TypeOK, Places, Idle, workerVars, wireVars, launchVars
<1>3. (HandlerInv /\ TimerInv)'
  BY DEF AuthInv, FinishReplace, EndStop, HandlerInv, TimerInv, TimerWatchesPending,
         PendingIsWatched, StopPlaces, launchVars
<1>4. (WorkerInv /\ SpendInv)'
  BY NoAttemptAssumption
     DEF AuthInv, TypeOK, FinishReplace, EndStop, HandlerInv, WorkerInv, AttemptInv, SpendInv, InPam,
         Live, StopPlaces, workerVars, launchVars
<1>5. QED
  BY <1>2, <1>3, <1>4 DEF AuthInv

LEMMA FinishDropInv ==
    ASSUME AuthInv, FinishDrop
    PROVE  AuthInv'
<1>1. out' \in Seq(Messages)
  <2>1. request \in Requests /\ verdict \in Statuses
    BY DEF AuthInv, TypeOK, FinishDrop, HandlerInv, Statuses
  <2>2. QED
    BY <2>1, RespondType DEF AuthInv, FinishDrop
<1>2. TypeOK'
  BY <1>1 DEF AuthInv, FinishDrop, EndStop, TypeOK, Places, Idle, workerVars, wireVars, launchVars
<1>3. (HandlerInv /\ TimerInv)'
  BY DEF AuthInv, FinishDrop, EndStop, HandlerInv, TimerInv, TimerWatchesPending,
         PendingIsWatched, StopPlaces, launchVars
<1>4. (WorkerInv /\ SpendInv)'
  BY NoAttemptAssumption
     DEF AuthInv, TypeOK, FinishDrop, EndStop, HandlerInv, WorkerInv, AttemptInv, SpendInv, InPam,
         Live, StopPlaces, workerVars, launchVars
<1>5. QED
  BY <1>2, <1>3, <1>4 DEF AuthInv

LEMMA FinishCancelInv ==
    ASSUME AuthInv, FinishCancel
    PROVE  AuthInv'
<1>1. out' \in Seq(Messages)
  <2>1. request \in Requests
    BY DEF AuthInv, FinishCancel, HandlerInv
  <2>2. QED
    BY <2>1, RespondType DEF AuthInv, FinishCancel, Statuses
<1>2. TypeOK'
  BY <1>1 DEF AuthInv, FinishCancel, EndStop, TypeOK, Places, Idle, workerVars, wireVars, launchVars
<1>3. (HandlerInv /\ TimerInv)'
  BY DEF AuthInv, FinishCancel, EndStop, HandlerInv, TimerInv, TimerWatchesPending,
         PendingIsWatched, StopPlaces, launchVars
<1>4. (WorkerInv /\ SpendInv)'
  BY NoAttemptAssumption
     DEF AuthInv, TypeOK, FinishCancel, EndStop, HandlerInv, WorkerInv, AttemptInv, SpendInv, InPam,
         Live, StopPlaces, workerVars, launchVars
<1>5. QED
  BY <1>2, <1>3, <1>4 DEF AuthInv

-----------------------------------------------------------------------------
(* The worker's replies.                                                    *)

LEMMA WorkerPromptsInv ==
    ASSUME AuthInv, WorkerPrompts
    PROVE  AuthInv'
<1>1. /\ Conversing \in Attempt /\ fromWorker[Conversing] # <<>>
      /\ Head(fromWorker[Conversing]) \in WorkerReports
      /\ Head(fromWorker[Conversing]).kind = "prompt"
      /\ request \in Requests /\ Conversing \notin ready /\ pc \in {"first", "answer"}
  BY DEF AuthInv, WorkerPrompts, Reported, Awaiting, Conversing, TypeOK, HandlerInv
<1>2. /\ Conversing \in {auth, starting} /\ outcome.attempt = NoAttempt
      /\ pc = "first" => auth = NoAttempt
      /\ pc = "answer" => starting = NoAttempt
  BY <1>1 DEF AuthInv, HandlerInv, Conversing
<1>3. TypeOK'
  <2>1. out' \in Seq(Messages)
    BY <1>1, RespondType DEF AuthInv, WorkerPrompts, Statuses
  <2>2. fromWorker' \in [Attempt -> Seq(WorkerReports)]
    BY <1>1 DEF AuthInv, WorkerPrompts, TakeReport, TypeOK
  <2>3. ArmedTimer(Conversing) \in [phase : {"off", "quiet", "warned", "expiring"},
                                    of : Attempt \cup {NoAttempt}]
    BY <1>1 DEF ArmedTimer, NoTimer
  <2>4. QED
    BY <1>1, <2>1, <2>2, <2>3 DEF AuthInv, WorkerPrompts, TypeOK, Places, Idle, NoTimer, launchVars
<1>4. HandlerInv'
  BY <1>1, <1>2 DEF AuthInv, WorkerPrompts, HandlerInv, launchVars
<1>5. TimerInv'
  BY <1>1, <1>2, NoAttemptAssumption, TimeoutAssumption
     DEF AuthInv, WorkerPrompts, TimerInv, TimerWatchesPending, PendingIsWatched, ArmedTimer,
         NoTimer, StopPlaces
<1>6. WorkerInv'
  BY <1>1, <1>2, NoAttemptAssumption, SMTT(20)
     DEF AuthInv, WorkerPrompts, WorkerInv, AttemptInv, TakeReport, TypeOK, InPam, Live, Conversing,
         launchVars
<1>7. SpendInv'
  BY <1>1, <1>2, NoAttemptAssumption
     DEF AuthInv, WorkerPrompts, WorkerInv, AttemptInv, SpendInv, TypeOK, StopPlaces, Conversing,
         launchVars
<1>8. QED
  BY <1>3, <1>4, <1>5, <1>6, <1>7 DEF AuthInv

LEMMA WorkerReadyInv ==
    ASSUME AuthInv, WorkerReady
    PROVE  AuthInv'
<1>1. /\ Conversing \in Attempt /\ fromWorker[Conversing] # <<>>
      /\ Head(fromWorker[Conversing]) \in WorkerReports
      /\ Head(fromWorker[Conversing]).kind = "ready"
      /\ request \in Requests /\ Conversing \notin ready /\ pc \in {"first", "answer"}
  BY DEF AuthInv, WorkerReady, Reported, Awaiting, Conversing, TypeOK, HandlerInv
<1>2. /\ Conversing \in {auth, starting} /\ outcome.attempt = NoAttempt
      /\ pc = "first" => auth = NoAttempt
      /\ pc = "answer" => starting = NoAttempt
  BY <1>1 DEF AuthInv, HandlerInv, Conversing
<1>3. TypeOK'
  <2>1. out' \in Seq(Messages)
    BY <1>1, RespondType DEF AuthInv, WorkerReady, Statuses
  <2>2. fromWorker' \in [Attempt -> Seq(WorkerReports)]
    BY <1>1 DEF AuthInv, WorkerReady, TakeReport, TypeOK
  <2>4. QED
    BY <1>1, <2>1, <2>2 DEF AuthInv, WorkerReady, TypeOK, Places, Idle, NoTimer, launchVars
<1>4. HandlerInv'
  BY <1>1, <1>2 DEF AuthInv, WorkerReady, HandlerInv, launchVars
<1>5. TimerInv'
  BY <1>1, <1>2, NoAttemptAssumption, TimeoutAssumption
     DEF AuthInv, WorkerReady, TimerInv, TimerWatchesPending, PendingIsWatched, ArmedTimer,
         NoTimer, StopPlaces
<1>6. WorkerInv'
  BY <1>1, <1>2, NoAttemptAssumption, SMTT(20)
     DEF AuthInv, WorkerReady, WorkerInv, AttemptInv, TakeReport, TypeOK, InPam, Live, Conversing,
         launchVars
<1>7. SpendInv'
  BY <1>1, <1>2, NoAttemptAssumption
     DEF AuthInv, WorkerReady, WorkerInv, AttemptInv, SpendInv, TypeOK, StopPlaces, Conversing,
         launchVars
<1>8. QED
  BY <1>3, <1>4, <1>5, <1>6, <1>7 DEF AuthInv

LEMMA DropConversationInv ==
    ASSUME AuthInv, Awaiting, NEW code \in FailureCodes,
           DropConversation(Conversing, code)
    PROVE  AuthInv'
<1>1. /\ Conversing \in Attempt /\ request \in Requests
      /\ Conversing \in {auth, starting} /\ outcome.attempt = NoAttempt
      /\ pc \in {"first", "answer"}
      /\ pc = "first" => auth = NoAttempt
      /\ pc = "answer" => starting = NoAttempt
      /\ Conversing \notin ready
  BY DEF AuthInv, Awaiting, Conversing, TypeOK, HandlerInv
<1>2. StoppedShape /\ TypeOK
  BY <1>1, StopWorkerType DEF AuthInv, DropConversation
<1>3. TypeOK'
  BY <1>1, <1>2 DEF DropConversation, TypeOK, StoppedShape, Places, NoTimer, wireVars,
                    launchVars
<1>4. HandlerInv'
  BY <1>1, NoAttemptAssumption
     DEF AuthInv, DropConversation, HandlerInv, FailureCodes, launchVars
<1>5. TimerInv'
  BY DEF DropConversation, NoTimer, TimerInv, TimerWatchesPending, PendingIsWatched,
         StopPlaces
<1>6. ASSUME NEW b \in Attempt
      PROVE  /\ worker'[b] = worker[b] /\ stopped' = stopped \cup {Conversing}
             /\ link'[b] = IF b = Conversing THEN "closed" ELSE link[b]
             /\ fromWorker'[b] = IF b = Conversing THEN <<>> ELSE fromWorker[b]
  BY <1>1 DEF AuthInv, DropConversation, StopWorker, TypeOK
<1>7. WorkerInv'
  <2>1. SUFFICES ASSUME NEW b \in Attempt PROVE AttemptInv(b)'
    BY DEF WorkerInv
  <2>2. CASE b = Conversing
    BY <1>1, <1>6, <2>2, NoAttemptAssumption
       DEF AuthInv, DropConversation, WorkerInv, AttemptInv, InPam, Live, launchVars
  <2>3. CASE b # Conversing
    BY <1>1, <1>6, <2>3, NoAttemptAssumption
       DEF AuthInv, DropConversation, WorkerInv, AttemptInv, InPam, Live, launchVars
  <2>4. QED
    BY <2>2, <2>3
<1>8. SpendInv'
  BY <1>1, NoAttemptAssumption
     DEF AuthInv, DropConversation, StopWorker, SpendInv, StopPlaces, TypeOK, launchVars
<1>9. QED
  BY <1>3, <1>4, <1>5, <1>7, <1>8 DEF AuthInv

LEMMA WorkerFailedInv ==
    ASSUME AuthInv, WorkerFailed
    PROVE  AuthInv'
<1>1. Conversing \in Attempt /\ fromWorker[Conversing] # <<>>
  BY DEF AuthInv, WorkerFailed, Reported, Awaiting, Conversing, TypeOK, HandlerInv
<1>2. Head(fromWorker[Conversing]) \in WorkerReports
  BY <1>1 DEF AuthInv, TypeOK
<1>3. Head(fromWorker[Conversing]).code \in FailureCodes
  BY <1>2, ReportType DEF WorkerFailed, Reported
<1>4. QED
  BY <1>3, DropConversationInv DEF WorkerFailed, Reported

LEMMA WorkerHungUpInv ==
    ASSUME AuthInv, WorkerHungUp
    PROVE  AuthInv'
BY DropConversationInv DEF WorkerHungUp, Silent, FailureCodes

-----------------------------------------------------------------------------
(* Opening a session.                                                       *)

LEMMA StartSessionInv ==
    ASSUME AuthInv, StartSession
    PROVE  AuthInv'
<1>1. /\ Head(requests) \in Requests /\ requests' \in Seq(Requests) /\ pc = "read"
      /\ starting = NoAttempt /\ auth \in Attempt
  BY TakeType DEF AuthInv, StartSession, Accept, Reading, HandlerInv, TypeOK
<1>2. out' \in Seq(Messages)
  <2>1. PICK m \in Responses(Head(requests), "ok"), told \in Telling("session-starting") :
            Send(<<m>> \o told)
    BY DEF StartSession, Accept
  <2>2. <<m>> \in Seq(Messages) /\ told \in Seq(Messages)
    BY <1>1, ResponseType, TellingType DEF Statuses, Events
  <2>3. <<m>> \o told \in Seq(Messages)
    BY <2>2
  <2>4. QED
    BY <2>1, <2>3, SendType DEF AuthInv
<1>3. TypeOK'
  BY <1>1, <1>2 DEF AuthInv, StartSession, Accept, TypeOK, Places, NoTimer, workerVars
<1>4. (HandlerInv /\ TimerInv)'
  BY <1>1, NoAttemptAssumption
     DEF AuthInv, StartSession, Accept, HandlerInv, TimerInv, TimerWatchesPending,
         PendingIsWatched, NoTimer, StopPlaces
<1>5. WorkerInv'
  BY <1>1, NoAttemptAssumption
     DEF AuthInv, StartSession, Accept, WorkerInv, AttemptInv, SpendInv, StopPlaces, InPam, Live,
         workerVars
<1>6. SpendInv'
  BY <1>1, NoAttemptAssumption
     DEF AuthInv, StartSession, Accept, WorkerInv, AttemptInv, SpendInv, TypeOK, StopPlaces
<1>7. QED
  BY <1>3, <1>4, <1>5, <1>6 DEF AuthInv

LEMMA SpawnSessionInv ==
    ASSUME AuthInv, SpawnSession
    PROVE  AuthInv'
<1>1. /\ outcome.attempt \in Attempt /\ outcome.user = user[outcome.attempt]
      /\ outcome.attempt \in granted /\ worker[outcome.attempt] # "unborn"
      /\ auth = NoAttempt /\ starting = NoAttempt
  BY DEF AuthInv, SpawnSession, HandlerInv, SpendInv, WorkerInv, AttemptInv, TypeOK
<1>2. outcome.user \in User /\ opened[outcome.attempt] = <<>>
  BY <1>1 DEF AuthInv, WorkerInv, AttemptInv, SpendInv, InPam, Live
<1>3. out' \in Seq(Messages)
  <2>1. PICK told \in Telling("state-changed") : Send(told \o <<Event("re-exec")>>)
    BY DEF SpawnSession
  <2>2. told \in Seq(Messages) /\ <<Event("re-exec")>> \in Seq(Messages)
    BY EventType, TellingType DEF Events
  <2>3. told \o <<Event("re-exec")>> \in Seq(Messages)
    BY <2>2
  <2>4. QED
    BY <2>1, <2>3, SendType DEF AuthInv
<1>4. TypeOK'
  BY <1>1, <1>2, <1>3
     DEF AuthInv, SpawnSession, TypeOK, Places, NoOutcome, clientVars, workerVars
<1>5. (HandlerInv /\ TimerInv)'
  BY <1>1 DEF AuthInv, SpawnSession, HandlerInv, TimerInv, TimerWatchesPending,
              PendingIsWatched, NoOutcome, StopPlaces, clientVars
<1>6. WorkerInv'
  BY <1>1, <1>2 DEF AuthInv, SpawnSession, WorkerInv, AttemptInv, TypeOK, clientVars,
                    workerVars
<1>7. SpendInv'
  BY <1>1, <1>2, NoAttemptAssumption
     DEF AuthInv, SpawnSession, SpendInv, TypeOK, NoOutcome, StopPlaces, clientVars
<1>8. QED
  BY <1>4, <1>5, <1>6, <1>7 DEF AuthInv

-----------------------------------------------------------------------------
(* The timeout task.                                                        *)

LEMMA TimerWarnsInv ==
    ASSUME AuthInv, TimerWarns
    PROVE  AuthInv'
<1>1. out' \in Seq(Messages)
  <2>1. <<Event("auth-warning")>> \in Seq(Messages)
    BY EventType DEF Events
  <2>2. QED
    BY <2>1, SendType DEF AuthInv, TimerWarns, TypeOK
<1>2. IsCurrent(timer.of)
  BY DEF AuthInv, TimerWarns, TimerInv, TimerWatchesPending, IsCurrent
<1>3. TypeOK'
  <2>1. timer' \in [phase : {"off", "quiet", "warned", "expiring"},
                    of : Attempt \cup {NoAttempt}]
    <3>1. timer \in [phase : {"off", "quiet", "warned", "expiring"}, of : Attempt \cup {NoAttempt}]
      BY DEF AuthInv, TypeOK
    <3>2. timer' = [timer EXCEPT !.phase = "warned"]
      BY <1>2 DEF TimerWarns
    <3>3. QED
      BY <3>1, <3>2
  <2>2. QED
    BY <1>1, <2>1 DEF AuthInv, TimerWarns, TypeOK, taskVars, workerVars, launchVars
<1>4. (HandlerInv /\ TimerInv /\ WorkerInv /\ SpendInv)'
  BY <1>2 DEF AuthInv, TimerWarns, TypeOK, HandlerInv, TimerInv, TimerWatchesPending,
              PendingIsWatched, WorkerInv, AttemptInv, SpendInv, StopPlaces, taskVars,
              workerVars, launchVars
<1>5. QED
  BY <1>3, <1>4 DEF AuthInv

LEMMA TimerExpiresInv ==
    ASSUME AuthInv, TimerExpires
    PROVE  AuthInv'
<1>1. /\ auth = timer.of /\ auth \in Attempt /\ auth \notin ready
      /\ pc \notin StopPlaces /\ StopWorker(auth, TRUE)
      /\ timer' = [timer EXCEPT !.phase = "expiring"]
  BY DEF AuthInv, TimerExpires, TimerInv, TimerWatchesPending, IsCurrent, TypeOK
<1>2. StoppedShape
  BY <1>1, StopWorkerType DEF AuthInv
<1>3. TypeOK'
  BY <1>1, <1>2 DEF AuthInv, TimerExpires, TypeOK, StoppedShape, taskVars, wireVars,
                    launchVars
<1>4. (HandlerInv /\ TimerInv)'
  BY <1>1 DEF AuthInv, TimerExpires, TypeOK, HandlerInv, TimerInv, TimerWatchesPending,
              PendingIsWatched, taskVars, launchVars
<1>5. ASSUME NEW b \in Attempt
      PROVE  /\ worker'[b] = worker[b] /\ stopped' = stopped \cup {auth}
             /\ link'[b] = IF b = auth THEN "closed" ELSE link[b]
             /\ fromWorker'[b] = IF b = auth THEN <<>> ELSE fromWorker[b]
  BY <1>1 DEF AuthInv, StopWorker, TypeOK
<1>6. WorkerInv'
  <2>1. SUFFICES ASSUME NEW b \in Attempt PROVE AttemptInv(b)'
    BY DEF WorkerInv
  <2>2. CASE b = auth
    BY <1>1, <1>5, <2>2
       DEF AuthInv, TimerExpires, WorkerInv, AttemptInv, InPam, Live, taskVars, launchVars
  <2>3. CASE b # auth
    BY <1>1, <1>5, <2>3
       DEF AuthInv, TimerExpires, WorkerInv, AttemptInv, InPam, Live, taskVars, launchVars
  <2>4. QED
    BY <2>2, <2>3
<1>7. SpendInv'
  BY <1>1, NoAttemptAssumption
     DEF AuthInv, TimerExpires, StopWorker, HandlerInv, SpendInv, TypeOK, taskVars,
         launchVars
<1>8. QED
  BY <1>3, <1>4, <1>6, <1>7 DEF AuthInv

LEMMA TimerFinishesInv ==
    ASSUME AuthInv, TimerFinishes
    PROVE  AuthInv'
<1>1. out' \in Seq(Messages)
  <2>1. <<Event("auth-expired")>> \in Seq(Messages)
    BY EventType DEF Events
  <2>2. QED
    BY <2>1, SendType DEF AuthInv, TimerFinishes
<1>2. auth = timer.of /\ auth' = NoAttempt /\ auth \in Attempt /\ pc \notin StopPlaces
  BY DEF AuthInv, TimerFinishes, TimerInv, TimerWatchesPending, TypeOK
<1>3. TypeOK'
  BY <1>1, <1>2 DEF AuthInv, TimerFinishes, TypeOK, NoTimer, taskVars, workerVars,
                    launchVars
<1>4. (HandlerInv /\ TimerInv)'
  BY <1>2 DEF AuthInv, TimerFinishes, HandlerInv, TimerInv, TimerWatchesPending,
              PendingIsWatched, NoTimer, StopPlaces, taskVars, launchVars
<1>5. (WorkerInv /\ SpendInv)'
  BY <1>2, NoAttemptAssumption
     DEF AuthInv, TimerFinishes, TypeOK, WorkerInv, AttemptInv, SpendInv, InPam, Live,
         StopPlaces, taskVars, workerVars, launchVars
<1>6. QED
  BY <1>3, <1>4, <1>5 DEF AuthInv

-----------------------------------------------------------------------------
(* The workers.                                                             *)

LEMMA ReportTypeInv ==
    ASSUME TypeOK, NEW a \in Attempt, NEW report \in WorkerReports, Report(a, report)
    PROVE  fromWorker' \in [Attempt -> Seq(WorkerReports)]
BY DEF TypeOK, Report

LEMMA HearsType ==
    ASSUME TypeOK, NEW a \in Attempt, Unread(a), Hears(a)
    PROVE  toWorker' \in [Attempt -> Seq({"start", "answer", "cancel"})]
BY DEF TypeOK, Unread, Hears

\* A step of a worker changes nothing but its own state and channel.
LEMMA WorkerStepInv ==
    ASSUME AuthInv, NEW a \in Attempt, NEW s \in Live \cup {"exited"}, Becomes(a, s),
           worker[a] \in Live,
           toWorker' \in [Attempt -> Seq({"start", "answer", "cancel"})],
           fromWorker' \in [Attempt -> Seq(WorkerReports)],
           granted' = granted \/ (granted' = granted \cup {a} /\ s = "ending"),
           s \in InPam => worker[a] \in InPam,
           s = "ending" => a \in {auth, starting},
           s = "exited" \/ a \notin granted,
           \A b \in Attempt : link[b] = "closed" => fromWorker'[b] = fromWorker[b],
           \A b \in Attempt : \A i \in 1..Len(fromWorker'[b]) :
               fromWorker'[b][i].kind = "ready" => b \in granted'
    PROVE  AuthInv'
<1>1. TypeOK'
  <2>1. worker' \in [Attempt -> Live \cup {"unborn", "exited"}]
    BY DEF AuthInv, Becomes, TypeOK, InPam, Live
  <2>2. granted' \in SUBSET Attempt
    BY DEF AuthInv, TypeOK
  <2>3. QED
    <3>1. TypeOK /\ UNCHANGED <<taskVars, clientVars, user, link, wireVars, launchVars, stopped>>
      BY DEF AuthInv, Becomes
    <3>2. QED
      BY <2>1, <2>2, <3>1, ZenonT(40) DEF TypeOK, taskVars, clientVars, wireVars, launchVars
<1>2. (HandlerInv /\ TimerInv)'
  BY DEF AuthInv, Becomes, HandlerInv, TimerInv, TimerWatchesPending, PendingIsWatched,
         taskVars, clientVars, launchVars
<1>3. WorkerInv'
  <2>1. SUFFICES ASSUME NEW b \in Attempt PROVE AttemptInv(b)'
    BY DEF WorkerInv
  <2>2. CASE b = a
    BY <2>2 DEF AuthInv, Becomes, WorkerInv, AttemptInv, TypeOK, InPam, Live, taskVars,
                clientVars, launchVars
  <2>3. CASE b # a
    BY <2>3 DEF AuthInv, Becomes, WorkerInv, AttemptInv, TypeOK, taskVars, clientVars,
                launchVars
  <2>4. QED
    BY <2>2, <2>3
<1>4. SpendInv'
  BY DEF AuthInv, Becomes, SpendInv, taskVars, clientVars, launchVars
<1>5. QED
  BY <1>1, <1>2, <1>3, <1>4 DEF AuthInv

LEMMA WorkerInvariance ==
    ASSUME AuthInv, NEW a \in Attempt, Worker(a)
    PROVE  AuthInv'
<1> USE DEF AuthInv
<1>0. worker[a] \in InPam => a \in {auth, starting} /\ a \notin granted
  BY DEF WorkerInv, AttemptInv, InPam
<1>1. CASE WorkerBoots(a)
  BY <1>1, HearsType, WorkerStepInv DEF WorkerBoots, InPam, Live, WorkerInv, AttemptInv, TypeOK
<1>2. CASE WorkerAsks(a)
  <2>2. fromWorker' = [fromWorker EXCEPT ![a] = Append(@, [kind |-> "prompt"])]
    BY <1>2 DEF WorkerAsks, Report
  <2>3. fromWorker' \in [Attempt -> Seq(WorkerReports)]
    BY <1>2, ReportTypeInv DEF WorkerReports, WorkerAsks
  <2>4. \A b \in Attempt : \A i \in 1..Len(fromWorker'[b]) :
            fromWorker'[b][i].kind = "ready" => b \in granted
    <3>1. SUFFICES ASSUME NEW b \in Attempt, NEW i \in 1..Len(fromWorker'[b]),
                          fromWorker'[b][i].kind = "ready"
                   PROVE  b \in granted
      OBVIOUS
    <3>2. CASE b = a
      <4>1. fromWorker'[a] = Append(fromWorker[a], [kind |-> "prompt"])
        BY <2>2 DEF TypeOK
      <4>2. i \in 1..Len(fromWorker[a]) /\ fromWorker'[a][i] = fromWorker[a][i]
        BY <3>1, <3>2, <4>1 DEF TypeOK
      <4>3. QED
        BY <3>1, <3>2, <4>2 DEF WorkerInv, AttemptInv
    <3>3. CASE b # a
      BY <2>2, <3>1, <3>3 DEF WorkerInv, AttemptInv, TypeOK
    <3>4. QED
      BY <3>2, <3>3
  <2>5. QED
    BY <1>0, <1>2, <2>2, <2>3, <2>4, WorkerStepInv DEF WorkerAsks, InPam, Live, TypeOK
<1>3. CASE WorkerHears(a)
  <2>1. toWorker' \in [Attempt -> Seq({"start", "answer", "cancel"})]
    BY <1>3, HearsType DEF WorkerHears, TypeOK
  <2>2. QED
    BY <1>3, <2>1, WorkerStepInv DEF WorkerHears, InPam, Live, WorkerInv, AttemptInv, TypeOK
<1>4. CASE WorkerAccepts(a)
  <2>1. fromWorker' \in [Attempt -> Seq(WorkerReports)]
    BY <1>4, ReportTypeInv DEF WorkerAccepts, WorkerReports
  <2>2. \A b \in Attempt : link[b] = "closed" => fromWorker'[b] = fromWorker[b]
    BY <1>4 DEF WorkerAccepts, Report, TypeOK
  <2>3. \A b \in Attempt : \A i \in 1..Len(fromWorker'[b]) :
            fromWorker'[b][i].kind = "ready" => b \in granted'
    BY <1>4 DEF WorkerAccepts, Report, WorkerInv, AttemptInv, TypeOK
  <2>4. QED
    BY <1>0, <1>4, <2>1, <2>2, <2>3, WorkerStepInv DEF WorkerAccepts, InPam, Live, TypeOK
<1>5. CASE WorkerRefuses(a)
  <2>1. PICK code \in FailureCodes : Report(a, [kind |-> "failed", code |-> code])
    BY <1>5 DEF WorkerRefuses
  <2>2. fromWorker' \in [Attempt -> Seq(WorkerReports)]
    BY <2>1, ReportTypeInv DEF WorkerReports
  <2>3. \A b \in Attempt : link[b] = "closed" => fromWorker'[b] = fromWorker[b]
    BY <2>1 DEF Report, TypeOK
  <2>4. \A b \in Attempt : \A i \in 1..Len(fromWorker'[b]) :
            fromWorker'[b][i].kind = "ready" => b \in granted
    BY <2>1 DEF Report, WorkerInv, AttemptInv, TypeOK
  <2>5. QED
    BY <1>0, <1>5, <2>2, <2>3, <2>4, WorkerStepInv DEF WorkerRefuses, InPam, Live, TypeOK
<1>6. CASE WorkerDies(a)
  BY <1>6, WorkerStepInv DEF WorkerDies, WorkerInv, AttemptInv, TypeOK, InPam
<1>7. CASE WorkerEnds(a)
  BY <1>7, WorkerStepInv DEF WorkerEnds, WorkerInv, AttemptInv, TypeOK, Live, InPam
<1>8. QED
  BY <1>1, <1>2, <1>3, <1>4, <1>5, <1>6, <1>7 DEF Worker

-----------------------------------------------------------------------------
(* The greeter: it moves the messages of its channel and, when it connects,  *)
(* sends the next handler to its loop.                                        *)

LEMMA ClientInv ==
    ASSUME AuthInv, Client
    PROVE  AuthInv'
<1> USE DEF AuthInv
<1>1. CASE \E r \in Requests : ClientSends(r)
  <2>1. PICK r \in Requests : ClientSends(r)
    BY <1>1
  <2>2. requests' \in Seq(Requests) /\ awaiting' \in Seq(RequestKinds)
    BY <2>1, KindType DEF ClientSends, TypeOK
  <2>3. TypeOK'
    BY <2>1, <2>2 DEF ClientSends, TypeOK, taskVars, clientVars, workerVars, launchVars
  <2>4. (HandlerInv /\ TimerInv /\ WorkerInv /\ SpendInv)'
    BY <2>1 DEF ClientSends, HandlerInv, TimerInv, TimerWatchesPending,
                PendingIsWatched, WorkerInv, AttemptInv, SpendInv, taskVars, clientVars,
                workerVars, launchVars
  <2>5. QED
    BY <2>3, <2>4
<1>2. CASE ClientReceives
  <2>1. awaiting' \in Seq(RequestKinds) /\ out' \in Seq(Messages)
    BY <1>2 DEF ClientReceives, TypeOK
  <2>2. TypeOK'
    BY <1>2, <2>1 DEF ClientReceives, TypeOK, taskVars, clientVars, workerVars, launchVars
  <2>3. (HandlerInv /\ TimerInv /\ WorkerInv /\ SpendInv)'
    BY <1>2 DEF ClientReceives, HandlerInv, TimerInv, TimerWatchesPending,
                PendingIsWatched, WorkerInv, AttemptInv, SpendInv, taskVars, clientVars,
                workerVars, launchVars
  <2>4. QED
    BY <2>2, <2>3
<1>3. CASE ClientLeaves
  <2>1. requests' \in Seq(Requests)
    BY <1>3 DEF ClientLeaves, TypeOK
  <2>2. out' \in Seq(Messages) /\ awaiting' \in Seq(RequestKinds) /\ clientUp' \in BOOLEAN
    <3>1. out' = <<>> /\ awaiting' = <<>> /\ clientUp' = FALSE
      BY <1>3 DEF ClientLeaves
    <3>2. <<>> \in Seq(Messages) /\ <<>> \in Seq(RequestKinds)
      OBVIOUS
    <3>3. QED
      BY <3>1, <3>2
  <2>3. TypeOK'
    BY <1>3, <2>1, <2>2 DEF ClientLeaves, TypeOK, taskVars, clientVars, workerVars,
                            launchVars
  <2>4. (HandlerInv /\ TimerInv /\ WorkerInv /\ SpendInv)'
    BY <1>3 DEF ClientLeaves, HandlerInv, TimerInv, TimerWatchesPending,
                PendingIsWatched, WorkerInv, AttemptInv, SpendInv, taskVars, clientVars,
                workerVars, launchVars
  <2>5. QED
    BY <2>3, <2>4
<1>4. CASE ClientConnects
  <2>1. TypeOK'
    BY <1>4 DEF ClientConnects, TypeOK, Places, clientVars, workerVars, launchVars
  <2>2. (HandlerInv /\ TimerInv /\ WorkerInv /\ SpendInv)'
    BY <1>4 DEF ClientConnects, HandlerInv, TimerInv, TimerWatchesPending,
                PendingIsWatched, WorkerInv, AttemptInv, SpendInv, StopPlaces,
                clientVars, workerVars, launchVars
  <2>3. QED
    BY <2>1, <2>2
<1>5. QED
  BY <1>1, <1>2, <1>3, <1>4 DEF Client

-----------------------------------------------------------------------------
(* The whole step.                                                          *)

LEMMA HandlerInvariance ==
    ASSUME AuthInv, Handler
    PROVE  AuthInv'
<1>1. CASE \/ GetState \/ UnknownAction \/ RejectPower \/ RejectCreate
           \/ ContinueNothing \/ ContinueReady \/ ContinueTooLong
           \/ StartNothing \/ StartNotReady
  BY <1>1, AnswerNowInv
     DEF GetState, UnknownAction, RejectPower, RejectCreate, ContinueNothing,
         ContinueReady, Continuing, ContinueTooLong, StartNothing, StartNotReady,
         Statuses
<1>2. CASE PowerCommandFails \/ LaunchFails \/ StartFails \/ WorkerReset \/ SpawnFails
  <2>1. Raise /\ pc \notin StopPlaces
    BY <1>2 DEF PowerCommandFails, LaunchFails, StartFails, WorkerReset, Silent,
                Awaiting, SpawnFails, StopPlaces
  <2>2. starting # NoAttempt => worker[starting] = "exited"
    BY <1>2 DEF PowerCommandFails, LaunchFails, StartFails, WorkerReset, Silent,
                Awaiting, Conversing, SpawnFails, AuthInv, HandlerInv
  <2>3. QED
    BY <2>1, <2>2, RaiseInv
<1>3. CASE \/ Hangup \/ FinishHangup \/ AcceptPower \/ RunPowerCommand
           \/ AcceptCreate \/ ReplaceConversation \/ FinishReplace
           \/ LaunchWorker \/ SendStart
  BY <1>3, HangupInv, FinishHangupInv, AcceptPowerInv, RunPowerCommandInv,
     AcceptCreateInv, ReplaceConversationInv, FinishReplaceInv, LaunchWorkerInv,
     SendStartInv
<1>4. CASE \/ WorkerPrompts \/ WorkerReady \/ WorkerFailed \/ WorkerHungUp
           \/ FinishDrop \/ ContinueSession \/ ContinueBroken
           \/ CancelSession \/ FinishCancel \/ StartSession \/ SpawnSession
  BY <1>4, WorkerPromptsInv, WorkerReadyInv, WorkerFailedInv, WorkerHungUpInv,
     FinishDropInv, ContinueSessionInv, ContinueBrokenInv, CancelSessionInv,
     FinishCancelInv, StartSessionInv, SpawnSessionInv
<1>5. QED
  BY <1>1, <1>2, <1>3, <1>4 DEF Handler

LEMMA AuthInvInit == Init => AuthInv
<1> SUFFICES ASSUME Init PROVE AuthInv
  OBVIOUS
<1>1. TypeOK
  BY DEF Init, TypeOK, Places, InPam, Live, Idle, NoTimer, NoOutcome
<1>2. HandlerInv /\ TimerInv
  BY DEF Init, HandlerInv, TimerInv, TimerWatchesPending, PendingIsWatched, NoTimer,
         NoOutcome, StopPlaces
<1>3. WorkerInv /\ SpendInv
  BY NoAttemptAssumption DEF Init, WorkerInv, AttemptInv, SpendInv, NoOutcome, InPam, Live
<1>4. QED
  BY <1>1, <1>2, <1>3 DEF AuthInv

LEMMA AuthInvStep == AuthInv /\ [Next]_vars => AuthInv'
<1> SUFFICES ASSUME AuthInv, [Next]_vars PROVE AuthInv'
  OBVIOUS
<1>1. CASE Handler
  BY <1>1, HandlerInvariance
<1>2. CASE Timer
  BY <1>2, TimerWarnsInv, TimerExpiresInv, TimerFinishesInv DEF Timer
<1>3. CASE Client
  BY <1>3, ClientInv
<1>4. CASE \E a \in Attempt : Worker(a)
  BY <1>4, WorkerInvariance
<1>5. CASE UNCHANGED vars
  <2>1. TypeOK'
    BY <1>5, SMTT(20) DEF AuthInv, TypeOK, vars, taskVars, clientVars, workerVars, wireVars,
                launchVars
  <2>2. (HandlerInv /\ TimerInv /\ WorkerInv /\ SpendInv)'
    BY <1>5 DEF AuthInv, HandlerInv, TimerInv, TimerWatchesPending, PendingIsWatched,
                WorkerInv, AttemptInv, SpendInv, vars, taskVars, clientVars, workerVars,
                wireVars, launchVars
  <2>3. QED
    BY <2>1, <2>2 DEF AuthInv
<1>6. QED
  BY <1>1, <1>2, <1>3, <1>4, <1>5 DEF Next

-----------------------------------------------------------------------------
\* The inductive invariant holds throughout: the fields of ClientState, the places
\* of the handler, the timer, the workers and the attempts spent stay consistent
\* for any number of attempts and users, any timeout and any greeter.
THEOREM AuthInvariant == Spec => []AuthInv
BY AuthInvInit, AuthInvStep, PTL DEF Spec

\* Every variable keeps its shape through every handler of the daemon.
THEOREM TypeCorrect == Spec => []TypeOK
<1>1. AuthInv => TypeOK
  BY DEF AuthInv
<1>2. QED
  BY <1>1, AuthInvariant, PTL

\* start-session opens at most one session per attempt, for the attempt's own user,
\* and only for an attempt PAM accepted and the daemon never stopped.
THEOREM AuthenticatedSessions == Spec => []SessionsAuthenticated
<1>1. AuthInv => SessionsAuthenticated
  BY DEF AuthInv, SpendInv, SessionsAuthenticated
<1>2. QED
  BY <1>1, AuthInvariant, PTL

\* stop_client_auth_session leaves no worker in PAM that the daemon does not hold, and
\* none behind but one whose attempt start-session has spent, ending its transaction.
THEOREM WorkersHeld == Spec => []NoStrayWorker
<1>1. AuthInv => NoStrayWorker
  BY DEF AuthInv, WorkerInv, AttemptInv, NoStrayWorker
<1>2. QED
  BY <1>1, AuthInvariant, PTL

\* The timeout task only ever watches the conversation that is pending, and with
\* a timeout configured every pending conversation is watched.
THEOREM TimerSound == Spec => [](TimerWatchesPending /\ PendingIsWatched)
<1>1. AuthInv => TimerWatchesPending /\ PendingIsWatched
  BY DEF AuthInv, TimerInv
<1>2. QED
  BY <1>1, AuthInvariant, PTL

\* run_auth_timeout's integer arithmetic, for every timeout: the warning falls
\* strictly before the expiry, by at least a third of the timeout rounded down, and
\* a timeout of one second leaves no room for a warning.
THEOREM WarningBeforeExpiry ==
    ASSUME AuthTimeout > 0
    PROVE  /\ WarningDelay \in 0..(AuthTimeout - 1)
           /\ AuthTimeout - WarningDelay >= AuthTimeout \div 3
           /\ WarningDelay = 0 <=> AuthTimeout = 1
<1> DEFINE third == AuthTimeout \div 3
<1>1. AuthTimeout \in Nat /\ third \in Nat /\ 3 * third <= AuthTimeout
  BY TimeoutAssumption
<1>2. WarningDelay = LET last == IF third > 1 THEN third ELSE 1
                     IN IF AuthTimeout > last THEN AuthTimeout - last ELSE 0
  BY DEF WarningDelay
<1> HIDE DEF third
<1>3. /\ WarningDelay \in 0..(AuthTimeout - 1) /\ AuthTimeout - WarningDelay >= third
      /\ WarningDelay = 0 <=> AuthTimeout = 1
  BY <1>1, <1>2
<1>4. QED
  BY <1>3 DEF third

-----------------------------------------------------------------------------
(* The responses on their way to the greeter.                               *)

\* One step of AnswersIn.
Collect(q) ==
    [p \in (1..Len(q)) \X Seq(RequestKinds) |->
        IF IsAnswer(q[p[1]]) THEN Append(p[2], q[p[1]].to) ELSE p[2]]

LEMMA MessageKinds ==
    ASSUME NEW m \in Messages
    PROVE  IsAnswer(m) => m.to \in RequestKinds
BY DEF Messages, Events, IsAnswer

LEMMA CollectType ==
    ASSUME NEW q \in Seq(Messages), NEW n \in 1..Len(q), NEW v \in Seq(RequestKinds)
    PROVE  /\ Collect(q)[<<n, v>>] = IF IsAnswer(q[n]) THEN Append(v, q[n].to) ELSE v
           /\ Collect(q)[<<n, v>>] \in Seq(RequestKinds)
<1>1. q[n] \in Messages
  OBVIOUS
<1>2. Collect(q)[<<n, v>>] = IF IsAnswer(q[n]) THEN Append(v, q[n].to) ELSE v
  BY DEF Collect
<1>3. QED
  BY <1>1, <1>2, MessageKinds

LEMMA Collected ==
    ASSUME NEW q \in Seq(Messages)
    PROVE  \E f \in [0..Len(q) -> Seq(RequestKinds)] :
              Computes(f, Len(q), <<>>, Collect(q)) /\ AnswersIn(q) = f[Len(q)]
<1> DEFINE Table(f) == f = [n \in 0..Len(q) |->
                              IF n = 0 THEN <<>>
                              ELSE IF IsAnswer(q[n]) THEN Append(f[n - 1], q[n].to) ELSE f[n - 1]]
           g == CHOOSE f : Table(f)
<1>0. Len(q) \in Nat
  OBVIOUS
<1>1. PICK f \in [0..Len(q) -> Seq(RequestKinds)] : Computes(f, Len(q), <<>>, Collect(q))
  <2>1. <<>> \in Seq(RequestKinds)
    OBVIOUS
  <2>2. \A n \in 1..Len(q), v \in Seq(RequestKinds) : Collect(q)[<<n, v>>] \in Seq(RequestKinds)
    BY CollectType
  <2> HIDE DEF Table, g
  <2>3. QED
    BY <1>0, <2>1, <2>2, Recursion
<1>2. Table(f)
  <2>1. \A n \in 0..Len(q) : f[n] = IF n = 0 THEN <<>> ELSE Collect(q)[<<n, f[n - 1]>>]
    BY <1>1 DEF Computes
  <2>2. ASSUME NEW n \in 0..Len(q), n # 0
        PROVE  Collect(q)[<<n, f[n - 1]>>] = IF IsAnswer(q[n]) THEN Append(f[n - 1], q[n].to) ELSE f[n - 1]
    <3>1. n \in 1..Len(q) /\ f[n - 1] \in Seq(RequestKinds)
      BY <1>0, <1>1, <2>2
    <3>2. QED
      BY <3>1, CollectType
  <2>3. \A n \in 0..Len(q) : f[n] = IF n = 0 THEN <<>>
            ELSE IF IsAnswer(q[n]) THEN Append(f[n - 1], q[n].to) ELSE f[n - 1]
    BY <2>1, <2>2
  <2>4. QED
    BY <1>1, <2>3
<1>3. Table(g)
  BY <1>2, Zenon
<1>4. AnswersIn(q) = g[Len(q)]
  BY DEF AnswersIn
<1> HIDE DEF g
<1>5. \A n \in 0..Len(q) : g[n] = IF n = 0 THEN <<>>
          ELSE IF IsAnswer(q[n]) THEN Append(g[n - 1], q[n].to) ELSE g[n - 1]
  BY <1>3
<1>6. DOMAIN g = 0..Len(q) /\ g = [n \in 0..Len(q) |-> g[n]]
  BY <1>3
<1> HIDE DEF Table
<1> DEFINE T == {n \in Nat : n <= Len(q) => g[n] \in Seq(RequestKinds)}
<1>7. 0 \in T
  <2>1. 0 \in 0..Len(q) /\ <<>> \in Seq(RequestKinds)
    BY <1>0
  <2>2. g[0] = <<>>
    BY <1>5, <2>1
  <2>3. QED
    BY <2>1, <2>2
<1>8. ASSUME NEW n \in Nat, n \in T PROVE n + 1 \in T
  <2>1. SUFFICES ASSUME n + 1 <= Len(q) PROVE g[n + 1] \in Seq(RequestKinds)
    OBVIOUS
  <2>2. n + 1 \in 0..Len(q) /\ (n + 1) - 1 = n /\ n + 1 # 0 /\ g[n] \in Seq(RequestKinds) /\ q[n + 1] \in Messages
    BY <1>0, <1>8, <2>1
  <2>3. g[n + 1] = IF IsAnswer(q[n + 1]) THEN Append(g[n], q[n + 1].to) ELSE g[n]
    BY <1>5, <2>2
  <2>4. QED
    BY <2>2, <2>3, MessageKinds
<1> HIDE DEF T
<1>9. \A n \in Nat : n \in T
  BY <1>7, <1>8, Induction
<1>10. \A n \in 0..Len(q) : g[n] \in Seq(RequestKinds)
  BY <1>9 DEF T
<1>11. ASSUME NEW n \in 0..Len(q) PROVE g[n] = IF n = 0 THEN <<>> ELSE Collect(q)[<<n, g[n - 1]>>]
  <2>1. CASE n = 0
    BY <1>5, <2>1
  <2>2. CASE n # 0
    <3>1. n \in 1..Len(q) /\ g[n - 1] \in Seq(RequestKinds)
      BY <1>0, <1>10, <2>2
    <3>2. QED
      BY <1>5, <2>2, <3>1, CollectType
  <2>3. QED
    BY <2>1, <2>2
<1>12. Computes(g, Len(q), <<>>, Collect(q))
  BY <1>6, <1>11 DEF Computes
<1>13. g \in [0..Len(q) -> Seq(RequestKinds)]
  BY <1>6, <1>10
<1>14. QED
  BY <1>4, <1>12, <1>13

LEMMA AnswersType ==
    ASSUME NEW q \in Seq(Messages)
    PROVE  AnswersIn(q) \in Seq(RequestKinds)
BY Collected

LEMMA NoAnswers == AnswersIn(<<>>) = <<>>
<1>1. <<>> \in Seq(Messages) /\ Len(<<>>) = 0
  OBVIOUS
<1>2. PICK f \in [0..0 -> Seq(RequestKinds)] : Computes(f, 0, <<>>, Collect(<<>>)) /\ AnswersIn(<<>>) = f[0]
  BY <1>1, Collected
<1>3. QED
  BY <1>2 DEF Computes

\* A message more is an answer more, or none.
LEMMA AnswersAppended ==
    ASSUME NEW q \in Seq(Messages), NEW m \in Messages
    PROVE  AnswersIn(Append(q, m)) = IF IsAnswer(m) THEN Append(AnswersIn(q), m.to) ELSE AnswersIn(q)
<1> DEFINE r == Append(q, m)
           k == Len(q)
<1>0. /\ r \in Seq(Messages) /\ k \in Nat /\ Len(r) = k + 1 /\ r[k + 1] = m
      /\ \A n \in 1..k : r[n] = q[n]
  OBVIOUS
<1>1. PICK f : /\ f \in [0..k -> Seq(RequestKinds)]
               /\ Computes(f, k, <<>>, Collect(q)) /\ AnswersIn(q) = f[k]
  BY Collected
<1> HIDE DEF r
<1>2. PICK h : /\ h \in [0..(k + 1) -> Seq(RequestKinds)]
               /\ Computes(h, k + 1, <<>>, Collect(r)) /\ AnswersIn(r) = h[k + 1]
  BY <1>0, Collected
<1>3. ASSUME NEW n \in 1..k
      PROVE  Collect(q)[<<n, f[n - 1]>>] = Collect(r)[<<n, f[n - 1]>>]
  <2>1. n - 1 \in 0..k /\ n \in 1..(k + 1) /\ r[n] = q[n]
    BY <1>0
  <2>a. f[n - 1] \in Seq(RequestKinds) /\ n \in 1..Len(r) /\ n \in 1..Len(q)
    BY <1>0, <1>1, <2>1
  <2>b. Collect(q)[<<n, f[n - 1]>>] = IF IsAnswer(q[n]) THEN Append(f[n - 1], q[n].to) ELSE f[n - 1]
    BY <2>a, CollectType
  <2>c. Collect(r)[<<n, f[n - 1]>>] = IF IsAnswer(r[n]) THEN Append(f[n - 1], r[n].to) ELSE f[n - 1]
    BY <1>0, <2>a, CollectType
  <2>2. QED
    BY <2>1, <2>b, <2>c
<1>4. \A n \in 0..k : f[n] = h[n]
  <2> DEFINE G == Collect(q)
             H == Collect(r)
  <2>1. k \in Nat /\ k + 1 \in Nat /\ k <= k + 1
    BY <1>0
  <2>2. Computes(f, k, <<>>, G) /\ Computes(h, k + 1, <<>>, H)
    BY <1>1, <1>2
  <2>3. SameSteps(f, k, G, H)
    BY <1>3 DEF SameSteps
  <2> HIDE DEF G, H, k
  <2>4. QED
    BY <2>1, <2>2, <2>3, Agree
<1>5. h[k + 1] = Collect(r)[<<k + 1, h[k]>>]
  <2>1. k + 1 \in 0..(k + 1) /\ k + 1 # 0 /\ (k + 1) - 1 = k
    BY <1>0
  <2>2. QED
    BY <1>2, <2>1 DEF Computes
<1>6. h[k] \in Seq(RequestKinds) /\ k + 1 \in 1..Len(r) /\ h[k] = f[k]
  BY <1>0, <1>2, <1>4
<1>7. Collect(r)[<<k + 1, h[k]>>] = IF IsAnswer(m) THEN Append(h[k], m.to) ELSE h[k]
  <2>1. Collect(r)[<<k + 1, h[k]>>] = IF IsAnswer(r[k + 1]) THEN Append(h[k], r[k + 1].to) ELSE h[k]
    BY <1>0, <1>6, CollectType
  <2>2. QED
    BY <1>0, <2>1
<1>8. AnswersIn(r) = IF IsAnswer(m) THEN Append(AnswersIn(q), m.to) ELSE AnswersIn(q)
  BY <1>1, <1>2, <1>5, <1>6, <1>7
<1>9. QED
  BY <1>8 DEF r

LEMMA AppendConcat ==
    ASSUME NEW p \in Seq(RequestKinds), NEW q \in Seq(RequestKinds), NEW e \in RequestKinds
    PROVE  Append(p \o q, e) = p \o Append(q, e)
<1> DEFINE u == Append(p \o q, e)
           v == p \o Append(q, e)
<1>1. /\ Len(u) = Len(p) + Len(q) + 1 /\ Len(v) = Len(p) + Len(q) + 1
      /\ u \in Seq(RequestKinds) /\ v \in Seq(RequestKinds)
  OBVIOUS
<1>2. ASSUME NEW i \in 1..(Len(p) + Len(q) + 1) PROVE u[i] = v[i]
  <2>1. CASE i <= Len(p)
    BY <2>1
  <2>2. CASE i > Len(p) /\ i <= Len(p) + Len(q)
    BY <2>2
  <2>3. CASE i = Len(p) + Len(q) + 1
    BY <2>3
  <2>4. QED
    BY <2>1, <2>2, <2>3
<1> HIDE DEF u, v
<1>3. u = v
  BY <1>1, <1>2
<1>4. QED
  BY <1>3 DEF u, v

\* The answer read first is the first.
LEMMA AnswersTail ==
    ASSUME NEW q \in Seq(Messages), q # <<>>
    PROVE  AnswersIn(q) = (IF IsAnswer(Head(q)) THEN <<Head(q).to>> ELSE <<>>) \o AnswersIn(Tail(q))
<1> DEFINE r == Tail(q)
           k == Len(r)
           first == IF IsAnswer(Head(q)) THEN <<Head(q).to>> ELSE <<>>
<1>0. /\ r \in Seq(Messages) /\ k \in Nat /\ Len(q) = k + 1 /\ q[1] = Head(q) /\ Head(q) \in Messages
      /\ \A n \in 1..k : r[n] = q[n + 1]
  OBVIOUS
<1>a. first \in Seq(RequestKinds)
  BY <1>0, MessageKinds
<1>1. PICK f \in [0..(k + 1) -> Seq(RequestKinds)] :
          Computes(f, k + 1, <<>>, Collect(q)) /\ AnswersIn(q) = f[k + 1]
  BY <1>0, Collected
<1> HIDE DEF r
<1>2. PICK h \in [0..k -> Seq(RequestKinds)] : Computes(h, k, <<>>, Collect(r)) /\ AnswersIn(r) = h[k]
  BY <1>0, Collected
<1>3. /\ \A n \in 0..(k + 1) : f[n] = IF n = 0 THEN <<>> ELSE Collect(q)[<<n, f[n - 1]>>]
      /\ \A n \in 0..k : h[n] = IF n = 0 THEN <<>> ELSE Collect(r)[<<n, h[n - 1]>>]
  BY <1>1, <1>2 DEF Computes
<1>b. Len(q) = k + 1 /\ Len(r) = k /\ q[1] = Head(q) /\ \A n \in 1..k : r[n] = q[n + 1] /\ r[n] \in Messages
  BY <1>0
<1> HIDE DEF k, first
<1>4. f[1] = first \o h[0]
  <2>1. 0 \in 0..(k + 1) /\ 1 \in 0..(k + 1) /\ 1 # 0 /\ 1 - 1 = 0 /\ 0 \in 0..k /\ 1 \in 1..Len(q)
    BY <1>0, <1>b
  <2>2. f[0] = <<>> /\ h[0] = <<>> /\ f[1] = Collect(q)[<<1, f[0]>>]
    BY <1>3, <2>1
  <2>a. <<>> \in Seq(RequestKinds)
    OBVIOUS
  <2>b. 1 \in 1..Len(q)
    BY <2>1
  <2>3. Collect(q)[<<1, <<>>>>] = IF IsAnswer(q[1]) THEN Append(<<>>, q[1].to) ELSE <<>>
    <3>1. \A v \in Seq(RequestKinds) :
             Collect(q)[<<1, v>>] = IF IsAnswer(q[1]) THEN Append(v, q[1].to) ELSE v
      BY <2>b, CollectType
    <3>2. QED
      BY <2>a, <3>1
  <2>4. f[1] = IF IsAnswer(Head(q)) THEN <<Head(q).to>> ELSE <<>>
    BY <1>b, <2>2, <2>3
  <2>5. first \o <<>> = first
    BY <1>a
  <2>6. QED
    BY <2>2, <2>4, <2>5 DEF first
<1>5. ASSUME NEW n \in Nat, n + 1 <= k, f[n + 1] = first \o h[n]
      PROVE  f[n + 2] = first \o h[n + 1]
  <2>1. /\ n + 2 \in 0..(k + 1) /\ n + 2 # 0 /\ (n + 2) - 1 = n + 1
        /\ n + 1 \in 0..k /\ n + 1 # 0 /\ (n + 1) - 1 = n /\ n \in 0..k
        /\ n + 1 \in 1..k /\ (n + 1) + 1 = n + 2 /\ n + 1 \in 0..(k + 1)
    <3>1. k \in Nat /\ n \in Nat /\ n + 1 <= k
      BY <1>0, <1>5
    <3>2. QED
      BY <3>1
  <2>2. n + 2 \in 1..Len(q) /\ n + 1 \in 1..Len(r)
    BY <1>0, <1>b, <2>1
  <2>3. f[n + 2] = Collect(q)[<<n + 2, f[n + 1]>>] /\ h[n + 1] = Collect(r)[<<n + 1, h[n]>>]
    BY <1>3, <2>1
  <2>4. r[n + 1] = q[n + 2] /\ r[n + 1] \in Messages
    BY <1>b, <2>1
  <2>5. h[n] \in Seq(RequestKinds) /\ f[n + 1] \in Seq(RequestKinds)
    BY <1>1, <1>2, <2>1
  <2>6. Collect(q)[<<n + 2, f[n + 1]>>]
          = IF IsAnswer(q[n + 2]) THEN Append(f[n + 1], q[n + 2].to) ELSE f[n + 1]
    BY <2>2, <2>5, CollectType
  <2>7. Collect(r)[<<n + 1, h[n]>>]
          = IF IsAnswer(r[n + 1]) THEN Append(h[n], r[n + 1].to) ELSE h[n]
    BY <1>0, <2>2, <2>5, CollectType
  <2>8. ASSUME NEW e \in RequestKinds PROVE Append(first \o h[n], e) = first \o Append(h[n], e)
    BY <1>a, <2>5, AppendConcat
  <2>9. QED
    BY <1>5, <2>3, <2>4, <2>6, <2>7, <2>8, MessageKinds
<1> DEFINE T == {n \in Nat : n <= k => f[n + 1] = first \o h[n]}
<1>c. 0 \in T
  BY <1>4
<1>d. ASSUME NEW n \in Nat, n \in T PROVE n + 1 \in T
  <2>1. SUFFICES ASSUME n + 1 <= k PROVE f[(n + 1) + 1] = first \o h[n + 1]
    OBVIOUS
  <2>2. n <= k /\ (n + 1) + 1 = n + 2
    BY <1>0, <2>1
  <2>3. f[n + 1] = first \o h[n]
    BY <1>d, <2>2
  <2>4. QED
    BY <1>5, <2>1, <2>2, <2>3
<1> HIDE DEF T
<1>6. k \in T
  BY <1>0, <1>c, <1>d, Induction
<1>7. f[k + 1] = first \o h[k]
  BY <1>0, <1>6 DEF T
<1>8. QED
  BY <1>1, <1>2, <1>7 DEF r, first

-----------------------------------------------------------------------------
(* What the greeter waits for, in the order it asked.                       *)

LEMMA JoinType ==
    ASSUME NEW p \in Seq(RequestKinds), NEW q \in Seq(RequestKinds)
    PROVE  p \o q \in Seq(RequestKinds)
OBVIOUS

LEMMA JoinEmpty ==
    ASSUME NEW p \in Seq(RequestKinds)
    PROVE  p \o <<>> = p /\ <<>> \o p = p
OBVIOUS

LEMMA JoinAssociative ==
    ASSUME NEW p \in Seq(RequestKinds), NEW q \in Seq(RequestKinds), NEW r \in Seq(RequestKinds)
    PROVE  (p \o q) \o r = p \o (q \o r)
<1> DEFINE u == (p \o q) \o r
           v == p \o (q \o r)
<1>1. /\ Len(u) = Len(p) + Len(q) + Len(r) /\ Len(v) = Len(p) + Len(q) + Len(r)
      /\ u \in Seq(RequestKinds) /\ v \in Seq(RequestKinds)
  OBVIOUS
<1>2. ASSUME NEW i \in 1..(Len(p) + Len(q) + Len(r)) PROVE u[i] = v[i]
  <2>1. CASE i <= Len(p)
    BY <2>1
  <2>2. CASE i > Len(p) /\ i <= Len(p) + Len(q)
    BY <2>2
  <2>3. CASE i > Len(p) + Len(q)
    BY <2>3
  <2>4. QED
    BY <2>1, <2>2, <2>3
<1> HIDE DEF u, v
<1>3. u = v
  BY <1>1, <1>2
<1>4. QED
  BY <1>3 DEF u, v

LEMMA AppendJoin ==
    ASSUME NEW p \in Seq(RequestKinds), NEW k \in RequestKinds
    PROVE  Append(p, k) = p \o <<k>>
OBVIOUS

LEMMA TailJoin ==
    ASSUME NEW p \in Seq(RequestKinds), NEW k \in RequestKinds
    PROVE  Tail(<<k>> \o p) = p /\ <<k>> \o p # <<>>
<1> DEFINE u == <<k>> \o p
           v == Tail(u)
<1>1. /\ u \in Seq(RequestKinds) /\ Len(u) = Len(p) + 1 /\ u[1] = k
      /\ \A i \in 1..Len(p) : u[i + 1] = p[i]
  OBVIOUS
<1> HIDE DEF u
<1>2. u # <<>>
  BY <1>1
<1>3. v \in Seq(RequestKinds) /\ Len(v) = Len(p) /\ \A i \in 1..Len(p) : v[i] = p[i]
  BY <1>1, <1>2
<1> HIDE DEF v
<1>4. v = p
  BY <1>3
<1>5. QED
  BY <1>2, <1>4 DEF u, v

LEMMA KindsType ==
    ASSUME NEW s \in Seq(Requests)
    PROVE  /\ Kinds(s) \in Seq(RequestKinds) /\ Len(Kinds(s)) = Len(s)
           /\ \A i \in 1..Len(s) : Kinds(s)[i] = s[i].kind /\ s[i].kind \in RequestKinds
<1>1. \A i \in 1..Len(s) : s[i].kind \in RequestKinds
  BY KindType
<1>2. Kinds(s) = [i \in 1..Len(s) |-> s[i].kind]
  BY DEF Kinds
<1>3. QED
  BY <1>1, <1>2

LEMMA NoKinds == Kinds(<<>>) = <<>>
BY DEF Kinds

LEMMA KindsAppended ==
    ASSUME NEW s \in Seq(Requests), NEW r \in Requests
    PROVE  Kinds(Append(s, r)) = Append(Kinds(s), r.kind)
<1> DEFINE u == Append(s, r)
           v == Append(Kinds(s), r.kind)
<1>1. /\ u \in Seq(Requests) /\ Len(u) = Len(s) + 1 /\ u[Len(s) + 1] = r
      /\ \A i \in 1..Len(s) : u[i] = s[i]
  OBVIOUS
<1>2. /\ v \in Seq(RequestKinds) /\ Len(v) = Len(s) + 1 /\ v[Len(s) + 1] = r.kind
      /\ \A i \in 1..Len(s) : v[i] = s[i].kind
  BY KindsType, KindType
<1> HIDE DEF u, v
<1>3. Kinds(u) \in Seq(RequestKinds) /\ Len(Kinds(u)) = Len(s) + 1
      /\ \A i \in 1..(Len(s) + 1) : Kinds(u)[i] = u[i].kind
  BY <1>1, KindsType
<1>4. \A i \in 1..(Len(s) + 1) : Kinds(u)[i] = v[i]
  BY <1>1, <1>2, <1>3
<1>5. Kinds(u) = v
  BY <1>2, <1>3, <1>4
<1>6. QED
  BY <1>5 DEF u, v

LEMMA KindsTaken ==
    ASSUME NEW s \in Seq(Requests), s # <<>>
    PROVE  /\ Kinds(s) = <<Head(s).kind>> \o Kinds(Tail(s))
           /\ Head(s).kind \in RequestKinds
           /\ Kinds(Tail(s)) \in Seq(RequestKinds)
<1> DEFINE t == Tail(s)
           v == <<Head(s).kind>> \o Kinds(t)
<1>1. /\ t \in Seq(Requests) /\ Len(t) = Len(s) - 1 /\ Head(s) = s[1] /\ Head(s) \in Requests
      /\ \A i \in 1..Len(t) : t[i] = s[i + 1]
  OBVIOUS
<1> HIDE DEF t
<1>2. Kinds(t) \in Seq(RequestKinds) /\ Len(Kinds(t)) = Len(s) - 1 /\ Head(s).kind \in RequestKinds
      /\ \A i \in 1..Len(t) : Kinds(t)[i] = t[i].kind
  BY <1>1, KindsType, KindType
<1>3. v \in Seq(RequestKinds) /\ Len(v) = Len(s) /\ v[1] = Head(s).kind
      /\ \A i \in 1..Len(t) : v[i + 1] = Kinds(t)[i]
  BY <1>1, <1>2
<1> HIDE DEF v
<1>4. ASSUME NEW i \in 1..Len(s) PROVE v[i] = s[i].kind
  <2>1. CASE i = 1
    BY <1>1, <1>3, <2>1
  <2>2. CASE i # 1
    <3>1. i - 1 \in 1..Len(t) /\ (i - 1) + 1 = i
      BY <1>1, <2>2
    <3>2. QED
      BY <1>1, <1>2, <1>3, <3>1
  <2>3. QED
    BY <2>1, <2>2
<1>5. Kinds(s) = v
  BY <1>3, <1>4, KindsType
<1>6. QED
  BY <1>2, <1>5 DEF t, v


\* The greeter's account with the daemon, without the conditions under which it
\* is kept.
Ordered == awaiting = Answered \o BeingHandled \o Kinds(requests)

LEMMA PartTypes ==
    ASSUME TypeOK
    PROVE  /\ Answered \in Seq(RequestKinds) /\ BeingHandled \in Seq(RequestKinds)
           /\ Kinds(requests) \in Seq(RequestKinds)
<1>1. Answered \in Seq(RequestKinds)
  BY AnswersType DEF TypeOK, Answered
<1>2. BeingHandled \in Seq(RequestKinds)
  <2>1. CASE request = Idle
    BY <2>1 DEF BeingHandled
  <2>2. CASE request # Idle
    <3>1. request.kind \in RequestKinds
      BY <2>2, KindType DEF TypeOK
    <3>2. QED
      BY <2>2, <3>1 DEF BeingHandled
  <2>3. QED
    BY <2>1, <2>2
<1>3. QED
  BY <1>1, <1>2, KindsType DEF TypeOK

\* An event on its way is nobody's answer.
LEMMA EventAnswers ==
    ASSUME NEW q \in Seq(Messages), NEW name \in Events
    PROVE  AnswersIn(Append(q, Event(name))) = AnswersIn(q)
<1>1. Event(name) \in Messages /\ ~IsAnswer(Event(name))
  BY EventType DEF Event, Events, IsAnswer
<1>2. QED
  BY <1>1, AnswersAppended

\* A response is one answer, written or not.
LEMMA ResponseAnswers ==
    ASSUME NEW q \in Seq(Messages), NEW r \in Requests, NEW status \in Statuses,
           NEW m \in Responses(r, status)
    PROVE  AnswersIn(Append(q, m)) = Append(AnswersIn(q), r.kind)
<1>1. m \in Messages /\ IsAnswer(m) /\ m.to = r.kind
  BY ResponseType DEF Responses, IsAnswer
<1>2. QED
  BY <1>1, AnswersAppended

LEMMA AppendBefore ==
    ASSUME NEW p \in Seq(Messages), NEW m \in Messages, NEW q \in Seq(Messages)
    PROVE  p \o (<<m>> \o q) = Append(p, m) \o q
<1> DEFINE u == p \o (<<m>> \o q)
           v == Append(p, m) \o q
<1>1. /\ Len(u) = Len(p) + 1 + Len(q) /\ Len(v) = Len(p) + 1 + Len(q)
      /\ u \in Seq(Messages) /\ v \in Seq(Messages)
  OBVIOUS
<1>2. ASSUME NEW i \in 1..(Len(p) + 1 + Len(q)) PROVE u[i] = v[i]
  <2>1. CASE i <= Len(p)
    BY <2>1
  <2>2. CASE i = Len(p) + 1
    BY <2>2
  <2>3. CASE i > Len(p) + 1
    BY <2>3
  <2>4. QED
    BY <2>1, <2>2, <2>3
<1> HIDE DEF u, v
<1>3. u = v
  BY <1>1, <1>2
<1>4. QED
  BY <1>3 DEF u, v

LEMMA AppendAfter ==
    ASSUME NEW p \in Seq(Messages), NEW q \in Seq(Messages), NEW m \in Messages
    PROVE  p \o (q \o <<m>>) = Append(p \o q, m)
<1> DEFINE u == p \o (q \o <<m>>)
           v == Append(p \o q, m)
<1>1. /\ Len(u) = Len(p) + Len(q) + 1 /\ Len(v) = Len(p) + Len(q) + 1
      /\ u \in Seq(Messages) /\ v \in Seq(Messages)
  OBVIOUS
<1>2. ASSUME NEW i \in 1..(Len(p) + Len(q) + 1) PROVE u[i] = v[i]
  <2>1. CASE i <= Len(p)
    BY <2>1
  <2>2. CASE i > Len(p) /\ i <= Len(p) + Len(q)
    BY <2>2
  <2>3. CASE i = Len(p) + Len(q) + 1
    BY <2>3
  <2>4. QED
    BY <2>1, <2>2, <2>3
<1> HIDE DEF u, v
<1>3. u = v
  BY <1>1, <1>2
<1>4. QED
  BY <1>3 DEF u, v

LEMMA OneMore ==
    ASSUME NEW q, NEW m, clientUp, Send(<<m>>), out \in Seq(Messages), m \in Messages
    PROVE  out' = Append(out, m)
BY DEF Send

\* The request read is answered at once.
LEMMA AnsweredNow ==
    ASSUME TypeOK, Ordered, request = Idle, NEW kind, Reading(kind),
           Answered' = Append(Answered, Head(requests).kind), UNCHANGED <<request, awaiting>>
    PROVE  Ordered'
<1> DEFINE k == Head(requests).kind
           A == Answered
           K == Kinds(Tail(requests))
<1>1. /\ Kinds(requests) = <<k>> \o K /\ k \in RequestKinds /\ K \in Seq(RequestKinds)
      /\ A \in Seq(RequestKinds)
  BY KindsTaken, PartTypes DEF TypeOK, Reading
<1>2. BeingHandled = <<>> /\ BeingHandled' = <<>> /\ Kinds(requests)' = K
  BY DEF BeingHandled, Reading, Kinds
<1> HIDE DEF k, A, K
<1>3. awaiting = A \o (<<k>> \o K)
  BY <1>1, <1>2, JoinEmpty DEF Ordered, A
<1>4. Answered' = A \o <<k>> /\ Answered' \in Seq(RequestKinds)
  BY <1>1, AppendJoin DEF k, A
<1>5. (Answered' \o <<>>) \o K = A \o (<<k>> \o K)
  <2>1. <<k>> \in Seq(RequestKinds)
    BY <1>1
  <2>2. (A \o <<k>>) \o K = A \o (<<k>> \o K)
    BY <1>1, <2>1, JoinAssociative
  <2>3. QED
    BY <1>4, <2>2, JoinEmpty
<1>6. QED
  BY <1>2, <1>3, <1>5 DEF Ordered

\* The request read is taken up, to be answered later.
LEMMA TakenUp ==
    ASSUME TypeOK, Ordered, request = Idle, NEW kind, Reading(kind),
           request' = Head(requests), UNCHANGED <<out, awaiting>>
    PROVE  Ordered'
<1> DEFINE k == Head(requests).kind
           A == Answered
           K == Kinds(Tail(requests))
<1>1. /\ Kinds(requests) = <<k>> \o K /\ k \in RequestKinds /\ K \in Seq(RequestKinds)
      /\ A \in Seq(RequestKinds)
  BY KindsTaken, PartTypes DEF TypeOK, Reading
<1>a. Head(requests) \in Requests
  BY TakeType
<1>2. Head(requests) # Idle
  BY <1>a DEF Requests, CreateRequests, ContinueRequests, PlainRequests, PlainKinds, Idle
<1>3. BeingHandled = <<>> /\ BeingHandled' = <<k>> /\ Kinds(requests)' = K /\ Answered' = A
  BY <1>2 DEF BeingHandled, Reading, Kinds, Answered
<1> HIDE DEF k, A, K
<1>4. awaiting = A \o (<<k>> \o K)
  BY <1>1, <1>3, JoinEmpty DEF Ordered, A
<1>5. (A \o <<k>>) \o K = A \o (<<k>> \o K)
  <2>1. <<k>> \in Seq(RequestKinds)
    BY <1>1
  <2>2. QED
    BY <1>1, <2>1, JoinAssociative
<1>6. QED
  BY <1>3, <1>4, <1>5 DEF Ordered

\* The request taken up is answered.
LEMMA AnsweredLater ==
    ASSUME TypeOK, Ordered, request \in Requests, request' = Idle,
           Answered' = Append(Answered, request.kind), UNCHANGED <<requests, awaiting>>
    PROVE  Ordered'
<1>1. request # Idle /\ request.kind \in RequestKinds
  BY KindType DEF Requests, CreateRequests, ContinueRequests, PlainRequests, PlainKinds, Idle
<1>2. BeingHandled = <<request.kind>> /\ BeingHandled' = <<>> /\ Kinds(requests)' = Kinds(requests)
  BY <1>1 DEF BeingHandled
<1>3. Answered' = Answered \o <<request.kind>> /\ Answered' \in Seq(RequestKinds)
  <2>1. Answered \in Seq(RequestKinds)
    BY PartTypes
  <2>2. Answered' = Answered \o <<request.kind>>
    BY <1>1, <2>1, AppendJoin
  <2>3. <<request.kind>> \in Seq(RequestKinds)
    BY <1>1
  <2>4. QED
    BY <2>1, <2>2, <2>3, JoinType
<1>4. Answered' \o BeingHandled' = Answered \o BeingHandled
  BY <1>2, <1>3, JoinEmpty
<1>5. QED
  BY <1>2, <1>4 DEF Ordered

\* The daemon says something that answers nothing, or nothing.
LEMMA NothingAnswered ==
    ASSUME Ordered, Answered' = Answered, UNCHANGED <<request, requests, awaiting>>
    PROVE  Ordered'
BY DEF Ordered, BeingHandled, Kinds

LEMMA SendsMore ==
    ASSUME TypeOK, Ordered, NEW r \in Requests, ClientSends(r)
    PROVE  Ordered'
<1> DEFINE AB == Answered \o BeingHandled
           K == Kinds(requests)
<1>1. /\ AB \in Seq(RequestKinds) /\ K \in Seq(RequestKinds) /\ r.kind \in RequestKinds
      /\ K' = Append(K, r.kind)
  BY PartTypes, JoinType, KindType, KindsAppended DEF TypeOK, ClientSends
<1>2. AB' = AB /\ awaiting' = Append(awaiting, r.kind)
  BY DEF ClientSends, taskVars, Answered, BeingHandled
<1>3. awaiting = AB \o K
  BY DEF Ordered
<1> HIDE DEF AB, K
<1>4. awaiting' = AB \o Append(K, r.kind)
  BY <1>1, <1>2, <1>3, AppendConcat
<1>5. awaiting' = AB' \o K'
  BY <1>1, <1>2, <1>4
<1>6. QED
  BY <1>5 DEF Ordered, AB, K

LEMMA ReceivesOne ==
    ASSUME TypeOK, Ordered, ClientReceives
    PROVE  Ordered'
<1> DEFINE B == BeingHandled
           K == Kinds(requests)
           BK == B \o K
           A == Answered
           R == AnswersIn(Tail(out))
<1>1. /\ B \in Seq(RequestKinds) /\ K \in Seq(RequestKinds) /\ A \in Seq(RequestKinds)
      /\ R \in Seq(RequestKinds) /\ BK \in Seq(RequestKinds)
  <2>1. Tail(out) \in Seq(Messages)
    BY DEF TypeOK, ClientReceives
  <2>2. QED
    BY <2>1, PartTypes, JoinType, AnswersType
<1>2. Head(out) \in Messages
  BY DEF TypeOK, ClientReceives
<1>3. A = (IF IsAnswer(Head(out)) THEN <<Head(out).to>> ELSE <<>>) \o R
  BY AnswersTail DEF TypeOK, ClientReceives, Answered
<1>4. B' = B /\ K' = K /\ A' = R
  BY DEF ClientReceives, taskVars, Answered, BeingHandled
<1>5. awaiting' = IF IsAnswer(Head(out)) /\ awaiting # <<>> THEN Tail(awaiting) ELSE awaiting
  BY DEF ClientReceives
<1>6. awaiting = (A \o B) \o K
  BY DEF Ordered
<1> HIDE DEF A, B, K, R, BK
<1>7. awaiting = A \o BK /\ (R \o B) \o K = R \o BK
  <2>1. (A \o B) \o K = A \o BK
    BY <1>1, JoinAssociative DEF BK
  <2>2. (R \o B) \o K = R \o BK
    BY <1>1, JoinAssociative DEF BK
  <2>3. QED
    BY <1>6, <2>1, <2>2
<1>8. CASE IsAnswer(Head(out))
  <2> DEFINE k == Head(out).to
             W == R \o BK
  <2>1. k \in RequestKinds /\ A = <<k>> \o R
    BY <1>2, <1>3, <1>8, MessageKinds
  <2>2. <<k>> \in Seq(RequestKinds) /\ W \in Seq(RequestKinds)
    BY <1>1, <2>1
  <2>3. awaiting = <<k>> \o W
    BY <1>1, <1>7, <2>1, <2>2, JoinAssociative
  <2> HIDE DEF k, W
  <2>4. Tail(awaiting) = W /\ awaiting # <<>>
    BY <2>1, <2>2, <2>3, TailJoin
  <2>5. awaiting' = (R \o B) \o K
    BY <1>5, <1>7, <1>8, <2>4 DEF W
  <2>6. awaiting' = (A' \o B') \o K'
    BY <1>4, <2>5
  <2>7. QED
    BY <2>6 DEF Ordered, A, B, K
<1>9. CASE ~IsAnswer(Head(out))
  <2>1. A = R
    BY <1>1, <1>3, <1>9, JoinEmpty
  <2>2. awaiting' = (A' \o B') \o K'
    BY <1>4, <1>5, <1>6, <1>9, <2>1
  <2>3. QED
    BY <2>2 DEF Ordered, A, B, K
<1>10. QED
  BY <1>8, <1>9


-----------------------------------------------------------------------------
(* The account is kept by every step. Given is what holds of a step between  *)
(* two states in which the greeter is connected and served.                  *)

Given == AuthInv /\ Ordered /\ clientUp /\ pc \notin {"none", "final"}

\* A step that leaves the greeter's channel and the request at hand alone.
LEMMA OrderUntouched ==
    ASSUME Given, UNCHANGED <<request, requests, out, awaiting>>
    PROVE  Ordered'
<1>1. Answered' = Answered
  BY DEF Answered
<1>2. QED
  BY <1>1, NothingAnswered DEF Given

\* A step that only sends an event.
LEMMA OrderEvent ==
    ASSUME Given, NEW name \in Events, Send(<<Event(name)>>), UNCHANGED <<request, requests, awaiting>>
    PROVE  Ordered'
<1>1. out \in Seq(Messages) /\ Event(name) \in Messages
  BY EventType DEF Given, AuthInv, TypeOK
<1>2. out' = Append(out, Event(name))
  BY <1>1, OneMore DEF Given
<1>3. Answered' = Answered
  BY <1>1, <1>2, EventAnswers DEF Answered
<1>4. QED
  BY <1>3, NothingAnswered DEF Given

\* A step that answers the request it reads.
LEMMA OrderNow ==
    ASSUME Given, NEW kind, Reading(kind), NEW status \in Statuses,
           Respond(Head(requests), status), UNCHANGED <<request, awaiting>>
    PROVE  Ordered'
<1>1. Head(requests) \in Requests /\ request = Idle
  BY TakeType DEF Given, AuthInv, HandlerInv, Reading
<1>a. PICK m \in Responses(Head(requests), status) : Send(<<m>>)
  BY DEF Respond
<1>2. out \in Seq(Messages) /\ m \in Messages
  BY <1>1, ResponseType DEF Given, AuthInv, TypeOK
<1>3. out' = Append(out, m)
  BY <1>a, <1>2, OneMore DEF Given
<1>4. Answered' = Append(Answered, Head(requests).kind)
  BY <1>1, <1>2, <1>3, ResponseAnswers DEF Answered
<1>5. QED
  BY <1>1, <1>4, AnsweredNow DEF Given, AuthInv

\* A step that takes up the request it reads.
LEMMA OrderTaken ==
    ASSUME Given, NEW kind, Reading(kind), request' = Head(requests), UNCHANGED <<out, awaiting>>
    PROVE  Ordered'
<1>1. request = Idle
  BY DEF Given, AuthInv, HandlerInv, Reading
<1>2. QED
  BY <1>1, TakenUp DEF Given, AuthInv

\* A step that answers the request taken up.
LEMMA OrderLater ==
    ASSUME Given, request \in Requests, NEW status \in Statuses,
           Respond(request, status), request' = Idle, UNCHANGED <<requests, awaiting>>
    PROVE  Ordered'
<1>a. PICK m \in Responses(request, status) : Send(<<m>>)
  BY DEF Respond
<1>1. out \in Seq(Messages) /\ m \in Messages
  BY ResponseType DEF Given, AuthInv, TypeOK
<1>2. out' = Append(out, m)
  BY <1>a, <1>1, OneMore DEF Given
<1>3. Answered' = Append(Answered, request.kind)
  BY <1>1, <1>2, ResponseAnswers DEF Answered
<1>4. QED
  BY <1>3, AnsweredLater DEF Given, AuthInv

\* What an event, sent or too long to be, adds to a channel is no answer.
LEMMA TellingAnswers ==
    ASSUME NEW q \in Seq(Messages), NEW name \in Events, NEW told \in Telling(name)
    PROVE  q \o told \in Seq(Messages) /\ AnswersIn(q \o told) = AnswersIn(q)
<1>1. CASE told = <<>>
  <2>1. q \o <<>> = q
    OBVIOUS
  <2>2. QED
    BY <1>1, <2>1
<1>2. CASE told = <<Event(name)>>
  <2>1. Event(name) \in Messages
    BY EventType
  <2>2. q \o <<Event(name)>> = Append(q, Event(name)) /\ Append(q, Event(name)) \in Seq(Messages)
    BY <2>1
  <2>3. QED
    BY <1>2, <2>2, EventAnswers
<1>3. QED
  BY <1>1, <1>2 DEF Telling

\* process_request accepts the attempt: an answer, then an event.
LEMMA OrderAccepted ==
    ASSUME Given, StartSession
    PROVE  Ordered'
<1>1. Head(requests) \in Requests /\ request = Idle /\ Reading("start")
  BY TakeType DEF Given, AuthInv, HandlerInv, StartSession, Accept, Reading
<1>2. PICK answer \in Responses(Head(requests), "ok"), told \in Telling("session-starting") :
          Send(<<answer>> \o told)
  BY DEF StartSession, Accept
<1>3. out \in Seq(Messages) /\ answer \in Messages /\ told \in Seq(Messages)
  BY <1>1, ResponseType, TellingType DEF Given, AuthInv, TypeOK, Statuses, Events
<1>4. out' = Append(out, answer) \o told
  <2>1. out' = out \o (<<answer>> \o told)
    BY <1>2 DEF Given, Send
  <2>2. out \o (<<answer>> \o told) = Append(out, answer) \o told
    BY <1>3, AppendBefore
  <2>3. QED
    BY <2>1, <2>2
<1>5. AnswersIn(Append(out, answer)) = Append(Answered, Head(requests).kind)
  BY <1>1, <1>3, ResponseAnswers DEF Answered, Statuses
<1>6. AnswersIn(Append(out, answer) \o told) = AnswersIn(Append(out, answer))
  <2>1. Append(out, answer) \in Seq(Messages)
    BY <1>3
  <2>2. QED
    BY <2>1, TellingAnswers DEF Events
<1>7. Answered' = Append(Answered, Head(requests).kind)
  BY <1>4, <1>5, <1>6 DEF Answered
<1>8. UNCHANGED <<request, awaiting>>
  BY DEF StartSession, Accept
<1>9. QED
  BY <1>1, <1>7, <1>8, AnsweredNow DEF Given, AuthInv

\* The session is launched: two events.
LEMMA OrderSpawned ==
    ASSUME Given, SpawnSession
    PROVE  Ordered'
<1> DEFINE last == Event("re-exec")
<1>1. PICK told \in Telling("state-changed") : Send(told \o <<last>>)
  BY DEF SpawnSession
<1>2. out \in Seq(Messages) /\ told \in Seq(Messages) /\ last \in Messages
  BY EventType, TellingType DEF Given, AuthInv, TypeOK, Events
<1>3. out \o told \in Seq(Messages) /\ AnswersIn(out \o told) = Answered
  BY <1>2, TellingAnswers DEF Answered, Events
<1>4. AnswersIn(Append(out \o told, last)) = AnswersIn(out \o told)
  BY <1>3, EventAnswers DEF Events
<1> HIDE DEF last
<1>5. out' = Append(out \o told, last)
  <2>1. out' = out \o (told \o <<last>>)
    BY <1>1 DEF Given, Send
  <2>2. out \o (told \o <<last>>) = Append(out \o told, last)
    BY <1>2, AppendAfter
  <2>3. QED
    BY <2>1, <2>2
<1>6. Answered' = Answered
  BY <1>3, <1>4, <1>5 DEF Answered
<1>7. QED
  BY <1>6, NothingAnswered DEF Given, SpawnSession

\* The worker's prompt is the answer of create-session and of continue-session.
LEMMA OrderPrompted ==
    ASSUME Given, WorkerPrompts
    PROVE  Ordered'
<1>1. request \in Requests
  BY DEF Given, AuthInv, HandlerInv, WorkerPrompts, Reported, Awaiting
<1>2. QED
  BY <1>1, OrderLater DEF WorkerPrompts, Statuses

LEMMA OrderReady ==
    ASSUME Given, WorkerReady
    PROVE  Ordered'
<1>1. request \in Requests
  BY DEF Given, AuthInv, HandlerInv, WorkerReady, Reported, Awaiting
<1>2. QED
  BY <1>1, OrderLater DEF WorkerReady, Statuses

LEMMA OrderHandler ==
    ASSUME Given, Handler, clientUp', pc' \notin {"none", "final"}
    PROVE  Ordered'
<1>1. CASE GetState \/ UnknownAction \/ RejectPower \/ RejectCreate
  BY <1>1, OrderNow DEF GetState, UnknownAction, RejectPower, RejectCreate, AnswerNow, taskVars,
                        Statuses
<1>2. CASE ContinueNothing \/ ContinueReady \/ ContinueTooLong \/ StartNothing \/ StartNotReady
  BY <1>2, OrderNow DEF ContinueNothing, ContinueReady, ContinueTooLong, Continuing, StartNothing,
                        StartNotReady, AnswerNow, taskVars, Statuses
<1>3. CASE AcceptPower
  BY <1>3, OrderNow DEF AcceptPower, Statuses
<1>4. CASE Hangup \/ FinishHangup \/ ContinueBroken
  BY <1>4 DEF Hangup, FinishHangup, ContinueBroken, BeginStop
<1>5. CASE PowerCommandFails \/ LaunchFails \/ StartFails \/ WorkerReset \/ SpawnFails
  BY <1>5 DEF PowerCommandFails, LaunchFails, StartFails, WorkerReset, SpawnFails, Raise, BeginStop
<1>6. CASE AcceptCreate \/ ReplaceConversation
  BY <1>6, OrderTaken DEF AcceptCreate, ReplaceConversation
<1>7. CASE ContinueSession \/ CancelSession
  BY <1>7, OrderTaken DEF ContinueSession, Continuing, CancelSession
<1>8. CASE RunPowerCommand \/ FinishReplace \/ LaunchWorker \/ SendStart
  BY <1>8, OrderUntouched DEF RunPowerCommand, FinishReplace, LaunchWorker, SendStart, wireVars
<1>9. CASE WorkerFailed \/ WorkerHungUp
  BY <1>9, OrderUntouched DEF WorkerFailed, WorkerHungUp, DropConversation, wireVars
<1>10. CASE FinishDrop
  <2>1. request \in Requests /\ verdict \in Statuses
    BY <1>10 DEF Given, AuthInv, HandlerInv, TypeOK, FinishDrop, Statuses
  <2>2. QED
    BY <1>10, <2>1, OrderLater DEF FinishDrop
<1>11. CASE FinishCancel
  <2>1. request \in Requests
    BY <1>11 DEF Given, AuthInv, HandlerInv, FinishCancel
  <2>2. QED
    BY <1>11, <2>1, OrderLater DEF FinishCancel, Statuses
<1>12. CASE WorkerPrompts
  BY <1>12, OrderPrompted
<1>13. CASE WorkerReady
  BY <1>13, OrderReady
<1>14. CASE StartSession
  BY <1>14, OrderAccepted
<1>15. CASE SpawnSession
  BY <1>15, OrderSpawned
<1>16. QED
  BY <1>1, <1>2, <1>3, <1>4, <1>5, <1>6, <1>7, <1>8, <1>9, <1>10, <1>11, <1>12, <1>13, <1>14, <1>15
     DEF Handler

LEMMA OrderTimer ==
    ASSUME Given, Timer
    PROVE  Ordered'
<1>1. CASE TimerWarns
  <2>1. CASE IsCurrent(timer.of)
    BY <1>1, <2>1, OrderEvent DEF TimerWarns, taskVars, Events
  <2>2. CASE ~IsCurrent(timer.of)
    BY <1>1, <2>2, OrderUntouched DEF TimerWarns, taskVars
  <2>3. QED
    BY <2>1, <2>2
<1>2. CASE TimerExpires
  BY <1>2, OrderUntouched DEF TimerExpires, taskVars, wireVars
<1>3. CASE TimerFinishes
  BY <1>3, OrderEvent DEF TimerFinishes, taskVars, Events
<1>4. QED
  BY <1>1, <1>2, <1>3 DEF Timer

LEMMA OrderWorker ==
    ASSUME Given, NEW a \in Attempt, Worker(a)
    PROVE  Ordered'
BY OrderUntouched DEF Worker, WorkerBoots, WorkerAsks, WorkerHears, WorkerAccepts, WorkerRefuses,
                      WorkerEnds, WorkerDies, Becomes, taskVars, wireVars

\* Whoever is served after a step was served before it, or has just connected.
LEMMA ServedBefore ==
    ASSUME AuthInv, Next, clientUp', pc' \notin {"none", "final"}, ~ClientConnects
    PROVE  clientUp /\ pc \notin {"none", "final"}
<1>1. CASE Handler
  <2>1. pc \notin {"none", "final"} \/ FinishHangup
    BY <1>1 DEF Handler, Hangup, GetState, UnknownAction, RejectPower, AcceptPower, RunPowerCommand,
         PowerCommandFails, RejectCreate, AcceptCreate, ReplaceConversation, FinishReplace,
         LaunchWorker, LaunchFails, SendStart, StartFails, WorkerPrompts, WorkerReady, WorkerFailed,
         WorkerHungUp, WorkerReset, FinishDrop, ContinueNothing, ContinueReady, ContinueTooLong,
         ContinueSession, ContinueBroken, CancelSession, FinishCancel, StartNothing, StartNotReady,
         StartSession, Accept, SpawnSession, SpawnFails, Continuing, Reading, Reported, Silent,
         Awaiting
  <2>2. UNCHANGED clientUp \/ FinishHangup
    BY <1>1 DEF Handler, Hangup, GetState, UnknownAction, RejectPower, AcceptPower, RunPowerCommand,
         PowerCommandFails, RejectCreate, AcceptCreate, ReplaceConversation, FinishReplace,
         LaunchWorker, LaunchFails, SendStart, StartFails, WorkerPrompts, WorkerReady, WorkerFailed,
         WorkerHungUp, WorkerReset, FinishDrop, ContinueNothing, ContinueReady, ContinueTooLong,
         ContinueSession, ContinueBroken, CancelSession, FinishCancel, StartNothing, StartNotReady,
         StartSession, Accept, SpawnSession, SpawnFails, Raise, AnswerNow, DropConversation,
         wireVars
  <2>3. ~FinishHangup
    BY DEF FinishHangup
  <2>4. QED
    BY <2>1, <2>2, <2>3
<1>2. CASE Timer
  BY <1>2 DEF Timer, TimerWarns, TimerExpires, TimerFinishes, taskVars, wireVars
<1>3. CASE Client
  BY <1>3 DEF Client, ClientSends, ClientReceives, ClientLeaves, taskVars
<1>4. CASE \E a \in Attempt : Worker(a)
  BY <1>4 DEF Worker, WorkerBoots, WorkerAsks, WorkerHears, WorkerAccepts, WorkerRefuses,
              WorkerEnds, WorkerDies, Becomes, taskVars, wireVars
<1>5. QED
  BY <1>1, <1>2, <1>3, <1>4 DEF Next

LEMMA OrderStep ==
    ASSUME AuthInv, ResponsesInOrder, [Next]_vars
    PROVE  ResponsesInOrder'
<1>1. SUFFICES ASSUME clientUp', pc' \notin {"none", "final"} PROVE Ordered'
  BY DEF ResponsesInOrder, Ordered, Answered, BeingHandled, Kinds
<1>2. CASE UNCHANGED vars
  BY <1>1, <1>2 DEF vars, taskVars, wireVars, ResponsesInOrder, Ordered, Answered, BeingHandled, Kinds
<1>3. CASE ClientConnects
  <2>1. request = Idle
    BY <1>3 DEF AuthInv, HandlerInv, ClientConnects
  <2>2. Answered' = <<>> /\ BeingHandled' = <<>> /\ Kinds(requests)' = <<>> /\ awaiting' = <<>>
    BY <1>3, <2>1, NoAnswers, NoKinds DEF ClientConnects, Answered, BeingHandled
  <2>3. QED
    BY <2>2, JoinEmpty DEF Ordered
<1>4. CASE Next /\ ~ClientConnects
  <2>1. Given
    BY <1>1, <1>4, ServedBefore DEF Given, ResponsesInOrder, Ordered
  <2>2. CASE Handler
    BY <1>1, <2>1, <2>2, OrderHandler
  <2>3. CASE Timer
    BY <2>1, <2>3, OrderTimer
  <2>4. CASE \E a \in Attempt : Worker(a)
    BY <2>1, <2>4, OrderWorker
  <2>5. CASE Client
    <3>1. CASE \E r \in Requests : ClientSends(r)
      BY <2>1, <3>1, SendsMore DEF Given, AuthInv
    <3>2. CASE ClientReceives
      BY <2>1, <3>2, ReceivesOne DEF Given, AuthInv
    <3>3. CASE ClientLeaves
      BY <1>1, <3>3 DEF ClientLeaves
    <3>4. QED
      BY <1>4, <2>5, <3>1, <3>2, <3>3 DEF Client
  <2>6. QED
    BY <1>4, <2>2, <2>3, <2>4, <2>5 DEF Next
<1>5. QED
  BY <1>2, <1>3, <1>4


LEMMA OrderInit == Init => ResponsesInOrder
<1>1. SUFFICES ASSUME Init PROVE Ordered
  BY DEF ResponsesInOrder, Ordered
<1>2. Answered = <<>> /\ BeingHandled = <<>> /\ Kinds(requests) = <<>> /\ awaiting = <<>>
  BY <1>1, NoAnswers, NoKinds DEF Init, Answered, BeingHandled
<1>3. <<>> \in Seq(RequestKinds)
  OBVIOUS
<1>4. QED
  BY <1>2, <1>3, JoinEmpty DEF Ordered

\* handle_request_async makes one response to every request, in the order they were
\* sent, whatever the workers, the timer and the greeter do in between; so those
\* send_message writes keep that order, and those it refuses are the only ones the
\* greeter misses.
THEOREM AnsweredInOrder == Spec => []ResponsesInOrder
<1>1. AuthInv /\ ResponsesInOrder /\ [Next]_vars => ResponsesInOrder'
  BY OrderStep
<1>2. QED
  BY <1>1, OrderInit, AuthInvariant, PTL DEF Spec

-----------------------------------------------------------------------------
(* AuthBroker implements LoginGate: each step of the daemon begins, gives   *)
(* up, spends or wastes an attempt of the gate, or changes nothing the gate *)
(* sees. The invariant says where the attempt under way may be found.       *)

\* A step the gate allows, or one it does not see.
GateStep == Gate!Next \/ UNCHANGED Gate!vars

\* What the gate sees, apart from the attempt under way and PAM's verdicts.
Unseen == UNCHANGED <<user, outcome, opened>>

-----------------------------------------------------------------------------
LEMMA SameConversation ==
    ASSUME Unseen, UNCHANGED <<starting, auth, stopped, granted>>
    PROVE  GateStep
BY DEF Unseen, GateStep, UnderWay, Gate!vars

\* However a conversation is given up, the gate sees at most one Abandon.
LEMMA GivenUp ==
    ASSUME Unseen, UNCHANGED granted, UnderWay' \in {UnderWay, NoAttempt}
    PROVE  GateStep
<1>1. CASE UnderWay' = UnderWay
  BY <1>1 DEF Unseen, GateStep, Gate!vars
<1>2. CASE UnderWay' # UnderWay
  BY <1>2 DEF Unseen, GateStep, Gate!Next, Gate!Abandon
<1>3. QED
  BY <1>1, <1>2

\* Stopping the worker of client.auth_session gives up that conversation.
LEMMA StopGivesUp ==
    ASSUME AuthInv, NEW at, NEW sendCancel, BeginStop(at, sendCancel),
           UNCHANGED auth, starting' = NoAttempt
    PROVE  UnderWay' = NoAttempt
BY DEF BeginStop, StopWorker, LeaveWorkers, UnderWay

\* An exception gives up the conversation and the session about to be opened.
LEMMA RaiseStep ==
    ASSUME AuthInv, Raise
    PROVE  GateStep
<1>1. UnderWay' = NoAttempt
  BY StopGivesUp DEF Raise
<1>2. UNCHANGED <<user, opened, granted>> /\ outcome' = NoOutcome
  BY DEF Raise
<1>3. CASE outcome.attempt = NoAttempt
  <2>1. outcome'.attempt = outcome.attempt
    BY <1>2, <1>3 DEF NoOutcome
  <2>2. CASE UnderWay = NoAttempt
    BY <1>1, <1>2, <2>1, <2>2 DEF GateStep, Gate!vars
  <2>3. CASE UnderWay # NoAttempt
    BY <1>1, <1>2, <2>1, <2>3 DEF GateStep, Gate!Next, Gate!Abandon
  <2>4. QED
    BY <2>2, <2>3
<1>4. CASE outcome.attempt # NoAttempt
  <2>1. UnderWay = NoAttempt
    BY <1>4 DEF AuthInv, HandlerInv, UnderWay
  <2>2. Gate!Waste
    BY <1>1, <1>2, <1>4, <2>1 DEF Gate!Waste, NoOutcome
  <2>3. QED
    BY <2>2 DEF GateStep, Gate!Next
<1>5. QED
  BY <1>3, <1>4

-----------------------------------------------------------------------------
(* The handler.                                                             *)

LEMMA LaunchStep ==
    ASSUME AuthInv, LaunchWorker
    PROVE  GateStep
<1>1. PICK a \in Attempt :
        /\ worker[a] = "unborn" /\ starting' = a
        /\ user' = [user EXCEPT ![a] = request.user]
  BY DEF LaunchWorker
<1>2. UnderWay = NoAttempt /\ UnderWay' = a
  BY <1>1, NoAttemptAssumption DEF LaunchWorker, AuthInv, HandlerInv, UnderWay
<1>3. user[a] = NoUser /\ request.user \in User
  BY <1>1 DEF LaunchWorker, AuthInv, WorkerInv, AttemptInv, HandlerInv, CreateRequests
<1>4. UNCHANGED <<granted, outcome, opened>>
  BY DEF LaunchWorker, launchVars
<1>5. Gate!Begin(a, request.user)
  BY <1>1, <1>2, <1>3, <1>4 DEF Gate!Begin
<1>6. QED
  BY <1>3, <1>5 DEF GateStep, Gate!Next

\* The worker's report keeps the conversation under way, or ends it.
LEMMA ReportStep ==
    ASSUME AuthInv, WorkerPrompts \/ WorkerReady \/ WorkerFailed \/ WorkerHungUp
    PROVE  GateStep
<1>1. /\ Awaiting /\ auth' = Conversing /\ starting' = NoAttempt
      /\ UNCHANGED <<user, outcome, opened, granted>>
  BY DEF WorkerPrompts, WorkerReady, WorkerFailed, WorkerHungUp, DropConversation,
         Reported, Silent, launchVars
<1>2. Conversing # NoAttempt /\ (starting # NoAttempt => Conversing = starting)
      /\ (starting = NoAttempt => Conversing = auth)
  BY <1>1 DEF Awaiting, Conversing, AuthInv, HandlerInv
<1>3. CASE WorkerPrompts \/ WorkerReady
  <2>1. UNCHANGED stopped
    BY <1>3 DEF WorkerPrompts, WorkerReady
  <2>2. UnderWay' = UnderWay
    BY <1>1, <1>2, <2>1 DEF UnderWay, AuthInv, SpendInv
  <2>3. QED
    BY <1>1, <2>2, GivenUp DEF Unseen
<1>4. CASE WorkerFailed \/ WorkerHungUp
  <2>1. stopped' = stopped \cup {Conversing}
    BY <1>4 DEF WorkerFailed, WorkerHungUp, DropConversation, StopWorker
  <2>2. UnderWay' = NoAttempt
    BY <1>1, <2>1 DEF UnderWay
  <2>3. QED
    BY <1>1, <2>2, GivenUp DEF Unseen
<1>5. QED
  BY <1>3, <1>4

LEMMA StartSessionStep ==
    ASSUME AuthInv, StartSession
    PROVE  GateStep
<1>1. /\ auth \in ready /\ auth' = NoAttempt /\ pc = "read"
      /\ outcome' = [attempt |-> auth, user |-> user[auth]]
      /\ UNCHANGED <<user, starting, stopped, granted, opened>>
  BY DEF StartSession, Accept, Reading, taskVars, workerVars
<1>2. auth \in Attempt /\ auth \in granted /\ auth \notin stopped /\ starting = NoAttempt
  BY <1>1 DEF AuthInv, TypeOK, WorkerInv, AttemptInv, SpendInv, HandlerInv, StopPlaces
<1>3. UnderWay = auth /\ UnderWay' = NoAttempt
  BY <1>1, <1>2 DEF UnderWay
<1>4. Gate!Spend
  BY <1>1, <1>2, <1>3 DEF Gate!Spend
<1>5. QED
  BY <1>4 DEF GateStep, Gate!Next

LEMMA SpawnSessionStep ==
    ASSUME AuthInv, SpawnSession
    PROVE  GateStep
<1>1. /\ opened' = [opened EXCEPT ![outcome.attempt] = Append(@, outcome.user)]
      /\ outcome' = NoOutcome
      /\ UNCHANGED <<user, starting, auth, stopped, granted>>
  BY DEF SpawnSession, taskVars, clientVars
<1>2. outcome.attempt # NoAttempt /\ outcome.user = user[outcome.attempt]
  BY DEF SpawnSession, AuthInv, HandlerInv, SpendInv
<1>3. UNCHANGED UnderWay
  BY <1>1 DEF UnderWay
<1>4. Gate!Open
  BY <1>1, <1>2, <1>3 DEF Gate!Open, NoOutcome
<1>5. QED
  BY <1>4 DEF GateStep, Gate!Next

\* The conversation is forgotten, or one more step is taken towards stopping it.
LEMMA StopStep ==
    ASSUME AuthInv,
           \/ Hangup \/ FinishHangup \/ ReplaceConversation \/ FinishReplace
           \/ FinishDrop \/ ContinueBroken \/ CancelSession \/ FinishCancel
    PROVE  GateStep
<1>1. UNCHANGED <<starting, user, outcome, opened, granted>>
  BY DEF Hangup, FinishHangup, ReplaceConversation, FinishReplace, FinishDrop,
         ContinueBroken, CancelSession, FinishCancel, launchVars
<1>2. starting = NoAttempt
  BY DEF AuthInv, HandlerInv, Hangup, Reading, FinishHangup, ReplaceConversation,
         FinishReplace, FinishDrop, ContinueBroken, Continuing, CancelSession,
         FinishCancel
<1>3. CASE Hangup \/ ReplaceConversation \/ ContinueBroken \/ CancelSession
  <2>1. UnderWay' = NoAttempt
    BY <1>1, <1>2, <1>3, StopGivesUp
       DEF Hangup, ReplaceConversation, ContinueBroken, CancelSession
  <2>2. QED
    BY <1>1, <2>1, GivenUp DEF Unseen
<1>4. CASE FinishHangup \/ FinishReplace \/ FinishDrop \/ FinishCancel
  <2>1. UnderWay' = NoAttempt
    BY <1>1, <1>2, <1>4
       DEF FinishHangup, FinishReplace, FinishDrop, FinishCancel, EndStop, UnderWay
  <2>2. QED
    BY <1>1, <2>1, GivenUp DEF Unseen
<1>5. QED
  BY <1>3, <1>4

LEMMA HandlerStep ==
    ASSUME AuthInv, Handler
    PROVE  GateStep
<1>1. CASE \/ GetState \/ UnknownAction \/ RejectPower \/ RejectCreate
           \/ ContinueNothing \/ ContinueReady \/ ContinueTooLong
           \/ StartNothing \/ StartNotReady
  <2>1. UNCHANGED <<user, outcome, opened, starting, auth, stopped, granted>>
    BY <1>1 DEF GetState, UnknownAction, RejectPower, RejectCreate, ContinueNothing,
                ContinueReady, ContinueTooLong, StartNothing, StartNotReady,
                AnswerNow, taskVars, launchVars
  <2>2. QED
    BY <2>1, SameConversation DEF Unseen
<1>2. CASE AcceptPower \/ RunPowerCommand \/ AcceptCreate \/ SendStart \/ ContinueSession
  <2>1. UNCHANGED <<user, outcome, opened, starting, auth, stopped, granted>>
    BY <1>2 DEF AcceptPower, RunPowerCommand, AcceptCreate, SendStart, ContinueSession,
                clientVars, launchVars
  <2>2. QED
    BY <2>1, SameConversation DEF Unseen
<1>3. CASE PowerCommandFails \/ LaunchFails \/ StartFails \/ WorkerReset \/ SpawnFails
  BY <1>3, RaiseStep
     DEF PowerCommandFails, LaunchFails, StartFails, WorkerReset, SpawnFails
<1>4. CASE \/ Hangup \/ FinishHangup \/ ReplaceConversation \/ FinishReplace
           \/ FinishDrop \/ ContinueBroken \/ CancelSession \/ FinishCancel
  BY <1>4, StopStep
<1>5. CASE \/ LaunchWorker \/ WorkerPrompts \/ WorkerReady \/ WorkerFailed
           \/ WorkerHungUp \/ StartSession \/ SpawnSession
  BY <1>5, LaunchStep, ReportStep, StartSessionStep, SpawnSessionStep
<1>6. QED
  BY <1>1, <1>2, <1>3, <1>4, <1>5 DEF Handler

-----------------------------------------------------------------------------
(* The timer, the workers and the greeter.                                  *)

LEMMA TimerStep ==
    ASSUME AuthInv, Timer
    PROVE  GateStep
<1>1. UNCHANGED <<starting, user, outcome, opened, granted>>
  BY DEF Timer, TimerWarns, TimerExpires, TimerFinishes, taskVars, launchVars
<1>2. UnderWay' \in {UnderWay, NoAttempt}
  BY <1>1 DEF Timer, TimerWarns, TimerExpires, TimerFinishes, StopWorker, LeaveWorkers,
              UnderWay
<1>3. QED
  BY <1>1, <1>2, GivenUp DEF Unseen

LEMMA WorkerStep ==
    ASSUME AuthInv, NEW a \in Attempt, Worker(a)
    PROVE  GateStep
<1>1. UNCHANGED <<user, outcome, opened, starting, auth, stopped>>
  BY DEF Worker, WorkerBoots, WorkerAsks, WorkerHears, WorkerAccepts, WorkerRefuses,
         WorkerEnds, WorkerDies, Becomes, taskVars, clientVars, launchVars
<1>2. CASE WorkerAccepts(a)
  <2>1. user[a] # NoUser
    BY <1>2, NoUserAssumption DEF WorkerAccepts, AuthInv, WorkerInv, AttemptInv
  <2>2. a \notin granted
    BY <1>2 DEF WorkerAccepts, AuthInv, WorkerInv, AttemptInv
  <2>3. Gate!Accept(a)
    BY <1>1, <1>2, <2>1, <2>2 DEF Gate!Accept, WorkerAccepts, UnderWay
  <2>4. QED
    BY <2>3 DEF GateStep, Gate!Next
<1>3. CASE ~WorkerAccepts(a)
  <2>1. UNCHANGED granted
    BY <1>3 DEF Worker, WorkerBoots, WorkerAsks, WorkerHears, WorkerRefuses, WorkerEnds, WorkerDies
  <2>2. QED
    BY <1>1, <2>1, SameConversation DEF Unseen
<1>4. QED
  BY <1>2, <1>3

LEMMA ClientStep ==
    ASSUME AuthInv, Client
    PROVE  GateStep
<1>1. UNCHANGED <<user, outcome, opened, starting, auth, stopped, granted>>
  BY DEF Client, ClientSends, ClientReceives, ClientLeaves, ClientConnects, taskVars,
         clientVars, launchVars
<1>2. QED
  BY <1>1, SameConversation DEF Unseen

LEMMA StepImplements == AuthInv /\ [Next]_vars => [Gate!Next]_(Gate!vars)
<1> SUFFICES ASSUME AuthInv, [Next]_vars PROVE GateStep
  BY DEF GateStep
<1>1. CASE Next
  BY <1>1, HandlerStep, TimerStep, ClientStep, WorkerStep DEF Next
<1>2. CASE UNCHANGED vars
  BY <1>2, SameConversation
     DEF vars, Unseen, taskVars, clientVars, launchVars
<1>3. QED
  BY <1>1, <1>2

LEMMA InitImplements == Init => Gate!Init
BY DEF Init, Gate!Init, UnderWay, NoOutcome

\* The daemon, with its workers, timer and greeter, implements the login gate for
\* any number of attempts and users and any timeout: a session is opened only by
\* spending, once, an attempt PAM accepted, for the user of that attempt.
THEOREM ImplementsGate == Spec => GateSpec
BY InitImplements, StepImplements, AuthInvariant, PTL DEF Spec, GateSpec, Gate!Spec
=============================================================================
