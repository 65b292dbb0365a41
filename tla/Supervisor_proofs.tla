--------------------------- MODULE Supervisor_proofs ---------------------------
(***************************************************************************)
(* The safety of the supervisor, for every bound on restarts, either back   *)
(* end, with and without an adapter, for any set of sessions. One lemma per *)
(* action shows that it preserves SupInv, one step per part of it.          *)
(***************************************************************************)
EXTENDS SupervisorInv, TLAPS

LEMMA Bounds ==
  /\ Tries \in Nat /\ Tries > 0 /\ Tries >= MaxRestarts
  /\ Budget \in Nat /\ Budget >= Tries
  /\ FirstBackend # "curses" => Budget = Tries + Tries
  /\ \A n \in Nat : n + 1 >= MaxRestarts => n + 1 >= Tries
BY RestartAssumption DEF Tries, Budget

LEMMA InitInv == Init => SupInv
<1> SUFFICES ASSUME Init PROVE SupInv
  OBVIOUS
<1> USE DEF Init
<1>1. TypeOK
  <2>1. inbox \in [Client -> Nat] /\ stray \in BOOLEAN
    OBVIOUS
  <2>2. main \in Places /\ at \in Client /\ backend \in {"gtk", "curses"}
    BY BackendAssumption DEF Places, Client
  <2>3. /\ proc \in [Client \cup Session -> {"none"} \cup Running \cup Over]
        /\ link \in [Client -> {"open", "shut"}] /\ ready \in [Client -> BOOLEAN]
    OBVIOUS
  <2>4. handler \in [Client -> {"none", "read", "starting", "answering", "replacing",
                                 "dropping", "launching", "control", "final"}]
    OBVIOUS
  <2>5. passes \in 0..2 /\ left \subseteq Client \cup Session
    OBVIOUS
  <2>6. failures \in Nat /\ fruitless \in Nat /\ monitored \subseteq Session
    OBVIOUS
  <2>7. stop \in BOOLEAN
    OBVIOUS
  <2>8. QED
    BY <2>1, <2>2, <2>3, <2>4, <2>5, <2>6, <2>7 DEF TypeOK
<1>2. CrashBudget /\ CountInv
  BY Bounds DEF CrashBudget, CountInv, Looping, Tries, Budget
<1>3. PlaceInv /\ HandlerInv /\ SessionInv
  BY DEF PlaceInv, HandlerInv, SessionInv, Looping, Ending, Running, Client
<1>4. QED
  BY <1>1, <1>2, <1>3 DEF SupInv

-----------------------------------------------------------------------------
(* What a step that leaves the main coroutine alone cannot disturb.         *)

LEMMA BesideMain ==
  ASSUME SupInv, UNCHANGED <<loopVars, countVars>>
  PROVE  CrashBudget' /\ CountInv' /\ PlaceInv'
BY DEF SupInv, CrashBudget, CountInv, PlaceInv, loopVars, countVars

\* The counters, when the main coroutine stays in its loop or leaves it for good.
LEMMA CountersStay ==
  ASSUME SupInv, UNCHANGED countVars,
         cause' = cause \/ cause' \in {"failure", "stopped"},
         main' \in Looping => main \in Looping /\ cause' = cause
  PROVE  CrashBudget' /\ CountInv'
BY DEF SupInv, CrashBudget, CountInv, countVars

-----------------------------------------------------------------------------
(* The main coroutine, the counters aside.                                   *)

LEMMA StartGreeterInv ==
  ASSUME SupInv, StartGreeter
  PROVE  SupInv'
<1> USE DEF StartGreeter, Launch, Newborn, loopVars, countVars, channelVars,
    authVars
<1>1. TypeOK'
  BY DEF SupInv, TypeOK, Places, Client, Running, Over
<1>2. CrashBudget' /\ CountInv'
  BY CountersStay DEF Looping
<1>3. PlaceInv'
  BY DEF SupInv, PlaceInv, TypeOK, Looping, Client
<1>4. HandlerInv'
  BY DEF SupInv, HandlerInv, PlaceInv, TypeOK, Looping, Ending, Client
<1>5. SessionInv'
  BY SessionAssumption
     DEF SupInv, SessionInv, HandlerInv, Ending, Client, Running, TypeOK
<1>6. QED
  BY <1>1, <1>2, <1>3, <1>4, <1>5 DEF SupInv

LEMMA StartGreeterFailsInv ==
  ASSUME SupInv, StartGreeterFails
  PROVE  SupInv'
<1> USE DEF StartGreeterFails, BeginCleanup, loopVars, countVars, channelVars,
    authVars
<1>1. TypeOK'
  BY DEF SupInv, TypeOK, Places, Client
<1>2. CrashBudget' /\ CountInv'
  BY CountersStay DEF Looping
<1>3. PlaceInv'
  BY DEF SupInv, PlaceInv, TypeOK, Looping, Client
<1>4. HandlerInv'
  BY DEF SupInv, HandlerInv, PlaceInv, TypeOK, Looping, Ending, Client
<1>5. SessionInv'
  BY DEF SupInv, SessionInv, HandlerInv, Ending, Client, Running, TypeOK
<1>6. QED
  BY <1>1, <1>2, <1>3, <1>4, <1>5 DEF SupInv

LEMMA GreeterRunsInv ==
  ASSUME SupInv, GreeterRuns
  PROVE  SupInv'
<1> USE DEF GreeterRuns, loopVars, countVars, channelVars, authVars
<1>1. TypeOK'
  BY DEF SupInv, TypeOK, Places, Client
<1>2. CrashBudget' /\ CountInv'
  BY CountersStay DEF Looping
<1>3. PlaceInv'
  BY DEF SupInv, PlaceInv, TypeOK, Looping, Client
<1>4. HandlerInv'
  BY DEF SupInv, HandlerInv, PlaceInv, TypeOK, Looping, Ending, Client
<1>5. SessionInv'
  BY DEF SupInv, SessionInv, HandlerInv, Ending, Client, Running, TypeOK
<1>6. QED
  BY <1>1, <1>2, <1>3, <1>4, <1>5 DEF SupInv

LEMMA StartAdapterInv ==
  ASSUME SupInv, StartAdapter
  PROVE  SupInv'
<1> USE DEF StartAdapter, Launch, Newborn, loopVars, countVars, channelVars,
    authVars
<1>1. TypeOK'
  BY DEF SupInv, TypeOK, Places, Client, Running, Over
<1>2. CrashBudget' /\ CountInv'
  BY CountersStay DEF Looping
<1>3. PlaceInv'
  BY DEF SupInv, PlaceInv, TypeOK, Looping, Client
<1>4. HandlerInv'
  BY DEF SupInv, HandlerInv, PlaceInv, TypeOK, Looping, Ending, Client
<1>5. SessionInv'
  BY SessionAssumption
     DEF SupInv, SessionInv, HandlerInv, Ending, Client, Running, TypeOK
<1>6. QED
  BY <1>1, <1>2, <1>3, <1>4, <1>5 DEF SupInv

LEMMA SkipAdapterInv ==
  ASSUME SupInv, SkipAdapter
  PROVE  SupInv'
<1> USE DEF SkipAdapter, loopVars, countVars, channelVars, authVars
<1>1. TypeOK'
  BY DEF SupInv, TypeOK, Places, Client
<1>2. CrashBudget' /\ CountInv'
  BY CountersStay DEF Looping
<1>3. PlaceInv'
  BY DEF SupInv, PlaceInv, TypeOK, Looping, Client
<1>4. HandlerInv'
  BY DEF SupInv, HandlerInv, PlaceInv, TypeOK, Looping, Ending, Client
<1>5. SessionInv'
  BY DEF SupInv, SessionInv, HandlerInv, Ending, Client, Running, TypeOK
<1>6. QED
  BY <1>1, <1>2, <1>3, <1>4, <1>5 DEF SupInv

LEMMA StopSeenInv ==
  ASSUME SupInv, StopSeen
  PROVE  SupInv'
<1> USE DEF StopSeen, BeginCleanup, loopVars, countVars, channelVars, authVars
<1>1. TypeOK'
  BY DEF SupInv, TypeOK, Places, Client
<1>2. CrashBudget' /\ CountInv'
  BY CountersStay DEF Looping
<1>3. PlaceInv'
  BY DEF SupInv, PlaceInv, TypeOK, Looping, Client
<1>4. HandlerInv'
  BY DEF SupInv, HandlerInv, PlaceInv, TypeOK, Looping, Ending, Client
<1>5. SessionInv'
  BY DEF SupInv, SessionInv, HandlerInv, Ending, Client, Running, TypeOK
<1>6. QED
  BY <1>1, <1>2, <1>3, <1>4, <1>5 DEF SupInv

LEMMA ExitSeenInv ==
  ASSUME SupInv, NEW c \in Client, ExitSeen(c)
  PROVE  SupInv'
<1> USE DEF ExitSeen, loopVars, countVars, channelVars, authVars
<1>1. TypeOK'
  BY DEF SupInv, TypeOK, Places, Client, Running, Over
<1>2. CrashBudget' /\ CountInv'
  BY CountersStay DEF Looping
<1>3. PlaceInv'
  BY DEF SupInv, PlaceInv, TypeOK, Looping, Client
<1>4. HandlerInv'
  BY DEF SupInv, HandlerInv, PlaceInv, TypeOK, Looping, Ending, Client
<1>5. SessionInv'
  BY DEF SupInv, SessionInv, HandlerInv, Ending, Client, Running, TypeOK
<1>6. QED
  BY <1>1, <1>2, <1>3, <1>4, <1>5 DEF SupInv

LEMMA CloseExitedInv ==
  ASSUME SupInv, CloseExited
  PROVE  SupInv'
<1> USE DEF CloseExited, CloseChannel, loopVars, countVars, channelVars, authVars
<1>1. TypeOK'
  <2>1. inbox' \in [Client -> Nat]
    BY DEF SupInv, TypeOK, PlaceInv
  <2>2. QED
    BY <2>1 DEF SupInv, TypeOK, Places, Client
<1>2. CrashBudget' /\ CountInv'
  BY CountersStay DEF Looping
<1>3. PlaceInv'
  BY DEF SupInv, PlaceInv, TypeOK, Looping, Client
<1>4. HandlerInv'
  BY DEF SupInv, HandlerInv, PlaceInv, TypeOK, Looping, Ending, Client
<1>5. SessionInv'
  BY DEF SupInv, SessionInv, HandlerInv, Ending, Client, Running, TypeOK
<1>6. QED
  BY <1>1, <1>2, <1>3, <1>4, <1>5 DEF SupInv

LEMMA AdapterGoneInv ==
  ASSUME SupInv, AdapterGone
  PROVE  SupInv'
<1> USE DEF AdapterGone, Rejoin, Joined, loopVars, countVars, channelVars, authVars
<1>1. TypeOK'
  BY DEF SupInv, TypeOK, Places, Client
<1>2. CrashBudget' /\ CountInv'
  BY CountersStay DEF Looping
<1>3. PlaceInv'
  BY DEF SupInv, PlaceInv, TypeOK, Looping, Client
<1>4. HandlerInv'
  BY DEF SupInv, HandlerInv, PlaceInv, TypeOK, Looping, Ending, Client
<1>5. SessionInv'
  BY DEF SupInv, SessionInv, HandlerInv, Ending, Client, Running, TypeOK
<1>6. QED
  BY <1>1, <1>2, <1>3, <1>4, <1>5 DEF SupInv

LEMMA PauseInv ==
  ASSUME SupInv, Pause
  PROVE  SupInv'
<1> USE DEF Pause, loopVars, countVars, channelVars, authVars
<1>1. TypeOK'
  BY DEF SupInv, TypeOK, Places, Client
<1>2. CrashBudget' /\ CountInv'
  BY CountersStay DEF Looping
<1>3. PlaceInv'
  BY DEF SupInv, PlaceInv, TypeOK, Looping, Client
<1>4. HandlerInv'
  BY DEF SupInv, HandlerInv, PlaceInv, TypeOK, Looping, Ending, Client
<1>5. SessionInv'
  BY DEF SupInv, SessionInv, HandlerInv, Ending, Client, Running, TypeOK
<1>6. QED
  BY <1>1, <1>2, <1>3, <1>4, <1>5 DEF SupInv

LEMMA StopAuthInv ==
  ASSUME SupInv, StopAuth
  PROVE  SupInv'
<1> USE DEF StopAuth, Doom, loopVars, countVars, channelVars, authVars
<1>1. TypeOK'
  BY DEF SupInv, TypeOK, Places, Client
<1>2. CrashBudget' /\ CountInv'
  BY CountersStay DEF Looping
<1>3. PlaceInv'
  BY DEF SupInv, PlaceInv, TypeOK, Looping, Client
<1>4. HandlerInv'
  BY DEF SupInv, HandlerInv, PlaceInv, TypeOK, Looping, Ending, Client
<1>5. SessionInv'
  BY DEF SupInv, SessionInv, HandlerInv, Ending, Client, Running, TypeOK
<1>6. QED
  BY <1>1, <1>2, <1>3, <1>4, <1>5 DEF SupInv

LEMMA FinishStopAuthInv ==
  ASSUME SupInv, FinishStopAuth
  PROVE  SupInv'
<1> USE DEF FinishStopAuth, AuthStopped, loopVars, countVars, channelVars, authVars
<1>1. TypeOK'
  BY DEF SupInv, TypeOK, Places, Client
<1>2. CrashBudget' /\ CountInv'
  BY CountersStay DEF Looping
<1>3. PlaceInv'
  BY DEF SupInv, PlaceInv, TypeOK, Looping, Client
<1>4. HandlerInv'
  BY DEF SupInv, HandlerInv, PlaceInv, TypeOK, Looping, Ending, Client
<1>5. SessionInv'
  BY DEF SupInv, SessionInv, HandlerInv, Ending, Client, Running, TypeOK
<1>6. QED
  BY <1>1, <1>2, <1>3, <1>4, <1>5 DEF SupInv

LEMMA CloseNextInv ==
  ASSUME SupInv, CloseNext
  PROVE  SupInv'
<1> USE DEF CloseNext, CloseChannel, loopVars, countVars, channelVars, authVars
<1>1. TypeOK'
  <2>1. inbox' \in [Client -> Nat]
    BY DEF SupInv, TypeOK, PlaceInv
  <2>2. QED
    BY <2>1 DEF SupInv, TypeOK, Places, Client
<1>2. CrashBudget' /\ CountInv'
  BY CountersStay DEF Looping
<1>3. PlaceInv'
  BY DEF SupInv, PlaceInv, TypeOK, Looping, Client
<1>4. HandlerInv'
  BY DEF SupInv, HandlerInv, PlaceInv, TypeOK, Looping, Ending, Client
<1>5. SessionInv'
  BY DEF SupInv, SessionInv, HandlerInv, Ending, Client, Running, TypeOK
<1>6. QED
  BY <1>1, <1>2, <1>3, <1>4, <1>5 DEF SupInv

LEMMA JoinNextInv ==
  ASSUME SupInv, JoinNext
  PROVE  SupInv'
<1> USE DEF JoinNext, Joined, Managed, loopVars, countVars, channelVars, authVars
<1>1. TypeOK'
  BY DEF SupInv, TypeOK, Places, Client
<1>2. CrashBudget' /\ CountInv'
  BY CountersStay DEF Looping
<1>3. PlaceInv'
  BY DEF SupInv, PlaceInv, TypeOK, Looping, Client
<1>4. HandlerInv'
  BY DEF SupInv, HandlerInv, PlaceInv, TypeOK, Looping, Ending, Client
<1>5. SessionInv'
  BY DEF SupInv, SessionInv, HandlerInv, Ending, Client, Running, TypeOK
<1>6. QED
  BY <1>1, <1>2, <1>3, <1>4, <1>5 DEF SupInv

LEMMA SignalGroupInv ==
  ASSUME SupInv, NEW p \in Client \cup Session, SignalGroup(p)
  PROVE  SupInv'
<1> USE DEF SignalGroup, NextToEnd, loopVars, countVars, channelVars, authVars
<1>1. TypeOK'
  BY DEF SupInv, TypeOK, Places, Client
<1>2. CrashBudget' /\ CountInv'
  BY CountersStay DEF Looping
<1>3. PlaceInv'
  BY DEF SupInv, PlaceInv, TypeOK, Looping, Client
<1>4. HandlerInv'
  BY DEF SupInv, HandlerInv, PlaceInv, TypeOK, Looping, Ending, Client
<1>5. SessionInv'
  BY DEF SupInv, SessionInv, HandlerInv, Ending, Client, Running, TypeOK
<1>6. QED
  BY <1>1, <1>2, <1>3, <1>4, <1>5 DEF SupInv

LEMMA EndedInv ==
  ASSUME SupInv, Ended
  PROVE  SupInv'
<1> USE DEF Ended, Over, loopVars, countVars, channelVars, authVars
<1>1. TypeOK'
  BY DEF SupInv, TypeOK, Places, Client
<1>2. CrashBudget' /\ CountInv'
  BY CountersStay DEF Looping
<1>3. PlaceInv'
  BY DEF SupInv, PlaceInv, TypeOK, Looping, Client
<1>4. HandlerInv'
  BY DEF SupInv, HandlerInv, PlaceInv, TypeOK, Looping, Ending, Client
<1>5. SessionInv'
  BY DEF SupInv, SessionInv, HandlerInv, Ending, Client, Running, TypeOK
<1>6. QED
  BY <1>1, <1>2, <1>3, <1>4, <1>5 DEF SupInv

LEMMA FinishCleanupInv ==
  ASSUME SupInv, FinishCleanup
  PROVE  SupInv'
<1> USE DEF FinishCleanup, Gathered, loopVars, countVars, channelVars, authVars
<1>1. TypeOK'
  BY DEF SupInv, TypeOK, Places, Client, PlaceInv, Looping
<1>2. CrashBudget' /\ CountInv'
  BY CountersStay DEF Looping
<1>3. PlaceInv'
  BY DEF SupInv, PlaceInv, TypeOK, Looping, Client
<1>4. HandlerInv'
  BY DEF SupInv, HandlerInv, PlaceInv, TypeOK, Looping, Ending, Client
<1>5. SessionInv'
  BY DEF SupInv, SessionInv, HandlerInv, Ending, Client, Running, TypeOK
<1>6. QED
  BY <1>1, <1>2, <1>3, <1>4, <1>5 DEF SupInv

-----------------------------------------------------------------------------
(* The counters.                                                            *)

LEMMA GreeterWasReadyInv ==
  ASSUME SupInv, GreeterWasReady
  PROVE  SupInv'
<1> USE DEF GreeterWasReady, Rejoin, Joined, loopVars, countVars, channelVars,
    authVars
<1>1. TypeOK'
  BY DEF SupInv, TypeOK, Places, Client
<1>2. CountInv'
  BY Bounds, RestartAssumption, BackendAssumption DEF SupInv, CountInv, TypeOK, Looping
<1>3. CrashBudget'
  BY <1>2, Bounds, RestartAssumption, BackendAssumption
     DEF SupInv, CrashBudget, CountInv, TypeOK, Looping
<1>4. PlaceInv'
  BY DEF SupInv, PlaceInv, TypeOK, Looping
<1>5. HandlerInv'
  BY DEF SupInv, HandlerInv, PlaceInv, TypeOK, Looping, Ending, Client
<1>6. SessionInv'
  BY DEF SupInv, SessionInv, HandlerInv, Ending, Client, Running, TypeOK
<1>7. QED
  BY <1>1, <1>2, <1>3, <1>4, <1>5, <1>6 DEF SupInv

LEMMA RetryInv ==
  ASSUME SupInv, Retry
  PROVE  SupInv'
<1> USE DEF Retry, GreeterFailed, Rejoin, Joined, loopVars, countVars, channelVars,
    authVars
<1>1. TypeOK'
  BY DEF SupInv, TypeOK, Places, Client
<1>2. CountInv'
  BY Bounds, RestartAssumption, BackendAssumption DEF SupInv, CountInv, TypeOK, Looping
<1>3. CrashBudget'
  BY <1>2, Bounds, RestartAssumption, BackendAssumption
     DEF SupInv, CrashBudget, CountInv, TypeOK, Looping
<1>4. PlaceInv'
  BY DEF SupInv, PlaceInv, TypeOK, Looping
<1>5. HandlerInv'
  BY DEF SupInv, HandlerInv, PlaceInv, TypeOK, Looping, Ending, Client
<1>6. SessionInv'
  BY DEF SupInv, SessionInv, HandlerInv, Ending, Client, Running, TypeOK
<1>7. QED
  BY <1>1, <1>2, <1>3, <1>4, <1>5, <1>6 DEF SupInv

LEMMA FallBackInv ==
  ASSUME SupInv, FallBack
  PROVE  SupInv'
<1> USE DEF FallBack, GreeterFailed, Rejoin, Joined, loopVars, countVars,
    channelVars, authVars
<1>1. TypeOK'
  BY DEF SupInv, TypeOK, Places, Client
<1>2. CountInv'
  BY Bounds, RestartAssumption, BackendAssumption DEF SupInv, CountInv, TypeOK, Looping
<1>3. CrashBudget'
  BY <1>2, Bounds, RestartAssumption, BackendAssumption
     DEF SupInv, CrashBudget, CountInv, TypeOK, Looping
<1>4. PlaceInv'
  BY DEF SupInv, PlaceInv, TypeOK, Looping
<1>5. HandlerInv'
  BY DEF SupInv, HandlerInv, PlaceInv, TypeOK, Looping, Ending, Client
<1>6. SessionInv'
  BY DEF SupInv, SessionInv, HandlerInv, Ending, Client, Running, TypeOK
<1>7. QED
  BY <1>1, <1>2, <1>3, <1>4, <1>5, <1>6 DEF SupInv

LEMMA GiveUpInv ==
  ASSUME SupInv, GiveUp
  PROVE  SupInv'
<1> USE DEF GiveUp, GreeterFailed, Rejoin, Joined, BeginCleanup, loopVars,
    countVars, channelVars, authVars
<1>1. TypeOK'
  BY DEF SupInv, TypeOK, Places, Client
<1>2. CountInv'
  BY Bounds, RestartAssumption, BackendAssumption DEF SupInv, CountInv, TypeOK, Looping
<1>3. CrashBudget'
  BY <1>2, Bounds, RestartAssumption, BackendAssumption
     DEF SupInv, CrashBudget, CountInv, TypeOK, Looping
<1>4. PlaceInv'
  BY DEF SupInv, PlaceInv, TypeOK, Looping
<1>5. HandlerInv'
  BY DEF SupInv, HandlerInv, PlaceInv, TypeOK, Looping, Ending, Client
<1>6. SessionInv'
  BY DEF SupInv, SessionInv, HandlerInv, Ending, Client, Running, TypeOK
<1>7. QED
  BY <1>1, <1>2, <1>3, <1>4, <1>5, <1>6 DEF SupInv

-----------------------------------------------------------------------------
(* The handlers.                                                            *)

LEMMA ServeAtOnceInv ==
  ASSUME SupInv, NEW c \in Client, ServeAtOnce(c)
  PROVE  SupInv'
<1> USE DEF ServeAtOnce, Serves, HandlerFrame, Goes, loopVars, countVars,
    channelVars, authVars
<1>1. TypeOK'
  <2>1. inbox' \in [Client -> Nat]
    BY DEF SupInv, TypeOK
  <2>2. ready' \in [Client -> BOOLEAN]
    BY DEF SupInv, TypeOK
  <2>3. UNCHANGED <<loopVars, stop, countVars, link, proc, handler, authVars, monitored>>
    OBVIOUS
  <2>4. QED
    BY <2>1, <2>2, <2>3 DEF SupInv, TypeOK, Places, Client
<1>2. CrashBudget' /\ CountInv' /\ PlaceInv'
  BY BesideMain
<1>3. HandlerInv'
  BY DEF SupInv, HandlerInv, PlaceInv, TypeOK, Looping, Ending, Client
<1>4. SessionInv'
  BY DEF SupInv, SessionInv, HandlerInv, Ending, Client, Running, TypeOK
<1>5. QED
  BY <1>1, <1>2, <1>3, <1>4 DEF SupInv

LEMMA ServeCreateInv ==
  ASSUME SupInv, ServeCreate
  PROVE  SupInv'
<1> USE DEF ServeCreate, Serves, Doom, HandlerFrame, Goes, loopVars, countVars,
    channelVars, authVars
<1>1. TypeOK'
  BY DEF SupInv, TypeOK, Places, Client
<1>2. CrashBudget' /\ CountInv' /\ PlaceInv'
  BY BesideMain
<1>3. HandlerInv'
  BY DEF SupInv, HandlerInv, PlaceInv, TypeOK, Looping, Ending, Client
<1>4. SessionInv'
  BY DEF SupInv, SessionInv, HandlerInv, Ending, Client, Running, TypeOK
<1>5. QED
  BY <1>1, <1>2, <1>3, <1>4 DEF SupInv

LEMMA FinishReplaceInv ==
  ASSUME SupInv, FinishReplace
  PROVE  SupInv'
<1> USE DEF FinishReplace, HandlerFrame, Goes, loopVars, countVars, channelVars,
    authVars
<1>1. TypeOK'
  BY DEF SupInv, TypeOK, Places, Client
<1>2. CrashBudget' /\ CountInv' /\ PlaceInv'
  BY BesideMain
<1>3. HandlerInv'
  BY DEF SupInv, HandlerInv, PlaceInv, TypeOK, Looping, Ending, Client
<1>4. SessionInv'
  BY DEF SupInv, SessionInv, HandlerInv, Ending, Client, Running, TypeOK
<1>5. QED
  BY <1>1, <1>2, <1>3, <1>4 DEF SupInv

LEMMA ServeContinueInv ==
  ASSUME SupInv, ServeContinue
  PROVE  SupInv'
<1> USE DEF ServeContinue, Serves, Doom, HandlerFrame, Goes, loopVars, countVars,
    channelVars, authVars
<1>1. TypeOK'
  BY DEF SupInv, TypeOK, Places, Client
<1>2. CrashBudget' /\ CountInv' /\ PlaceInv'
  BY BesideMain
<1>3. HandlerInv'
  BY DEF SupInv, HandlerInv, PlaceInv, TypeOK, Looping, Ending, Client
<1>4. SessionInv'
  BY DEF SupInv, SessionInv, HandlerInv, Ending, Client, Running, TypeOK
<1>5. QED
  BY <1>1, <1>2, <1>3, <1>4 DEF SupInv

LEMMA ServeCancelInv ==
  ASSUME SupInv, ServeCancel
  PROVE  SupInv'
<1> USE DEF ServeCancel, Serves, Doom, HandlerFrame, Goes, loopVars, countVars,
    channelVars, authVars
<1>1. TypeOK'
  BY DEF SupInv, TypeOK, Places, Client
<1>2. CrashBudget' /\ CountInv' /\ PlaceInv'
  BY BesideMain
<1>3. HandlerInv'
  BY DEF SupInv, HandlerInv, PlaceInv, TypeOK, Looping, Ending, Client
<1>4. SessionInv'
  BY DEF SupInv, SessionInv, HandlerInv, Ending, Client, Running, TypeOK
<1>5. QED
  BY <1>1, <1>2, <1>3, <1>4 DEF SupInv

LEMMA ServePowerInv ==
  ASSUME SupInv, ServePower
  PROVE  SupInv'
<1> USE DEF ServePower, Serves, HandlerFrame, Goes, loopVars, countVars,
    channelVars, authVars
<1>1. TypeOK'
  BY DEF SupInv, TypeOK, Places, Client
<1>2. CrashBudget' /\ CountInv' /\ PlaceInv'
  BY BesideMain
<1>3. HandlerInv'
  BY DEF SupInv, HandlerInv, PlaceInv, TypeOK, Looping, Ending, Client
<1>4. SessionInv'
  BY DEF SupInv, SessionInv, HandlerInv, Ending, Client, Running, TypeOK
<1>5. QED
  BY <1>1, <1>2, <1>3, <1>4 DEF SupInv

LEMMA RunPowerCommandInv ==
  ASSUME SupInv, RunPowerCommand
  PROVE  SupInv'
<1> USE DEF RunPowerCommand, HandlerFrame, Goes, loopVars, countVars, channelVars,
    authVars
<1>1. TypeOK'
  BY DEF SupInv, TypeOK, Places, Client
<1>2. CrashBudget' /\ CountInv' /\ PlaceInv'
  BY BesideMain
<1>3. HandlerInv'
  BY DEF SupInv, HandlerInv, PlaceInv, TypeOK, Looping, Ending, Client
<1>4. SessionInv'
  BY DEF SupInv, SessionInv, HandlerInv, Ending, Client, Running, TypeOK
<1>5. QED
  BY <1>1, <1>2, <1>3, <1>4 DEF SupInv

LEMMA ServeStartInv ==
  ASSUME SupInv, ServeStart
  PROVE  SupInv'
<1> USE DEF ServeStart, Serves, HandlerFrame, Goes, loopVars, countVars,
    channelVars, authVars
<1>1. TypeOK'
  <2>1. stray' \in BOOLEAN
    <3>1. CASE worker = "ending"
      BY <3>1
    <3>2. CASE worker # "ending"
      BY <3>2 DEF SupInv, TypeOK
    <3>3. QED
      BY <3>1, <3>2
  <2>2. worker' \in {"none", "live", "ending", "doomed"} /\ conv' \in {"none", "pending", "ready"}
    BY DEF SupInv, TypeOK
  <2>3. inbox' \in [Client -> Nat] /\ ready' \in [Client -> BOOLEAN]
    BY DEF SupInv, TypeOK, Client
  <2>4. handler' \in [Client -> {"none", "read", "starting", "answering", "replacing",
                                 "dropping", "launching", "control", "final"}]
    BY DEF SupInv, TypeOK
  <2>5. QED
    BY <2>1, <2>2, <2>3, <2>4 DEF SupInv, TypeOK
<1>2. CrashBudget' /\ CountInv' /\ PlaceInv'
  BY BesideMain
<1>3. HandlerInv'
  BY DEF SupInv, HandlerInv, PlaceInv, TypeOK, Looping, Ending, Client
<1>4. SessionInv'
  BY DEF SupInv, SessionInv, HandlerInv, Ending, Client, Running, TypeOK
<1>5. QED
  BY <1>1, <1>2, <1>3, <1>4 DEF SupInv

LEMMA LaunchSessionInv ==
  ASSUME SupInv, LaunchSession
  PROVE  SupInv'
<1> USE DEF LaunchSession, Newborn, HandlerFrame, Goes, loopVars, countVars,
    channelVars, authVars
<1>1. TypeOK'
  BY DEF SupInv, TypeOK, Places, Client, Running, Over
<1>2. CrashBudget' /\ CountInv' /\ PlaceInv'
  BY BesideMain
<1>3. HandlerInv'
  BY SessionAssumption DEF SupInv, HandlerInv, PlaceInv, TypeOK, Looping, Ending, Client
<1>4. SessionInv'
  BY DEF SupInv, SessionInv, HandlerInv, Ending, Client, Running, TypeOK
<1>5. QED
  BY <1>1, <1>2, <1>3, <1>4 DEF SupInv

LEMMA WorkerHungUpInv ==
  ASSUME SupInv, WorkerHungUp
  PROVE  SupInv'
<1> USE DEF WorkerHungUp, Waiting, HandlerFrame, Goes, loopVars, countVars,
    channelVars, authVars
<1>1. TypeOK'
  BY DEF SupInv, TypeOK, Places, Client
<1>2. CrashBudget' /\ CountInv' /\ PlaceInv'
  BY BesideMain
<1>3. HandlerInv'
  BY DEF SupInv, HandlerInv, PlaceInv, TypeOK, Looping, Ending, Client
<1>4. SessionInv'
  BY DEF SupInv, SessionInv, HandlerInv, Ending, Client, Running, TypeOK
<1>5. QED
  BY <1>1, <1>2, <1>3, <1>4 DEF SupInv

LEMMA FinishDropInv ==
  ASSUME SupInv, FinishDrop
  PROVE  SupInv'
<1> USE DEF FinishDrop, HandlerFrame, Goes, loopVars, countVars, channelVars,
    authVars
<1>1. TypeOK'
  BY DEF SupInv, TypeOK, Places, Client
<1>2. CrashBudget' /\ CountInv' /\ PlaceInv'
  BY BesideMain
<1>3. HandlerInv'
  BY DEF SupInv, HandlerInv, PlaceInv, TypeOK, Looping, Ending, Client
<1>4. SessionInv'
  BY DEF SupInv, SessionInv, HandlerInv, Ending, Client, Running, TypeOK
<1>5. QED
  BY <1>1, <1>2, <1>3, <1>4 DEF SupInv

LEMMA HangUpInv ==
  ASSUME SupInv, NEW c \in Client, HangUp(c)
  PROVE  SupInv'
<1> USE DEF HangUp, Doom, HandlerFrame, Goes, loopVars, countVars, channelVars,
    authVars
<1>1. TypeOK'
  BY DEF SupInv, TypeOK, Places, Client
<1>2. CrashBudget' /\ CountInv' /\ PlaceInv'
  BY BesideMain
<1>3. HandlerInv'
  BY DEF SupInv, HandlerInv, PlaceInv, TypeOK, Looping, Ending, Client
<1>4. SessionInv'
  BY DEF SupInv, SessionInv, HandlerInv, Ending, Client, Running, TypeOK
<1>5. QED
  BY <1>1, <1>2, <1>3, <1>4 DEF SupInv

LEMMA RaiseInv ==
  ASSUME SupInv, Raise
  PROVE  SupInv'
<1> USE DEF Raise, Waiting, Doom, HandlerFrame, Goes, loopVars, countVars,
    channelVars, authVars
<1>1. TypeOK'
  BY DEF SupInv, TypeOK, Places, Client
<1>2. CrashBudget' /\ CountInv' /\ PlaceInv'
  BY BesideMain
<1>3. HandlerInv'
  BY DEF SupInv, HandlerInv, PlaceInv, TypeOK, Looping, Ending, Client
<1>4. SessionInv'
  BY DEF SupInv, SessionInv, HandlerInv, Ending, Client, Running, TypeOK
<1>5. QED
  BY <1>1, <1>2, <1>3, <1>4 DEF SupInv

LEMMA HandlerEndsInv ==
  ASSUME SupInv, NEW c \in Client, HandlerEnds(c)
  PROVE  SupInv'
<1> USE DEF HandlerEnds, HandlerFrame, Goes, loopVars, countVars, channelVars,
    authVars
<1>1. TypeOK'
  <2>1. handler' \in [Client -> {"none", "read", "starting", "answering", "replacing",
                                 "dropping", "launching", "control", "final"}]
    BY DEF SupInv, TypeOK
  <2>2. link' \in [Client -> {"open", "shut"}] /\ conv' \in {"none", "pending", "ready"}
    BY DEF SupInv, TypeOK
  <2>3. QED
    BY <2>1, <2>2 DEF SupInv, TypeOK, Places, Client
<1>2. CrashBudget' /\ CountInv' /\ PlaceInv'
  BY BesideMain
<1>3. HandlerInv'
  BY DEF SupInv, HandlerInv, PlaceInv, TypeOK, Looping, Ending, Client
<1>4. SessionInv'
  BY DEF SupInv, SessionInv, HandlerInv, Ending, Client, Running, TypeOK
<1>5. QED
  BY <1>1, <1>2, <1>3, <1>4 DEF SupInv

-----------------------------------------------------------------------------
(* The timeout task, the monitors, the processes.                           *)

LEMMA WorkerPromptsInv ==
  ASSUME SupInv, WorkerPrompts
  PROVE  SupInv'
<1> USE DEF WorkerPrompts, WorkerSays, Waiting, HandlerFrame, Goes, loopVars,
    countVars, channelVars, authVars
<1>1. TypeOK'
  BY DEF SupInv, TypeOK, Places, Client
<1>2. CrashBudget' /\ CountInv' /\ PlaceInv'
  BY BesideMain
<1>3. HandlerInv'
  BY DEF SupInv, HandlerInv, PlaceInv, TypeOK, Looping, Ending, Client
<1>4. SessionInv'
  BY DEF SupInv, SessionInv, HandlerInv, Ending, Client, Running, TypeOK
<1>5. QED
  BY <1>1, <1>2, <1>3, <1>4 DEF SupInv

LEMMA WorkerAcceptsInv ==
  ASSUME SupInv, WorkerAccepts
  PROVE  SupInv'
<1> USE DEF WorkerAccepts, WorkerSays, Waiting, HandlerFrame, Goes, loopVars,
    countVars, channelVars, authVars
<1>1. TypeOK'
  BY DEF SupInv, TypeOK, Places, Client
<1>2. CrashBudget' /\ CountInv' /\ PlaceInv'
  BY BesideMain
<1>3. HandlerInv'
  BY DEF SupInv, HandlerInv, PlaceInv, TypeOK, Looping, Ending, Client
<1>4. SessionInv'
  BY DEF SupInv, SessionInv, HandlerInv, Ending, Client, Running, TypeOK
<1>5. QED
  BY <1>1, <1>2, <1>3, <1>4 DEF SupInv

LEMMA WorkerFailsInv ==
  ASSUME SupInv, WorkerFails
  PROVE  SupInv'
<1> USE DEF WorkerFails, WorkerSays, Waiting, HandlerFrame, Goes, loopVars,
    countVars, channelVars, authVars
<1>1. TypeOK'
  BY DEF SupInv, TypeOK, Places, Client
<1>2. CrashBudget' /\ CountInv' /\ PlaceInv'
  BY BesideMain
<1>3. HandlerInv'
  BY DEF SupInv, HandlerInv, PlaceInv, TypeOK, Looping, Ending, Client
<1>4. SessionInv'
  BY DEF SupInv, SessionInv, HandlerInv, Ending, Client, Running, TypeOK
<1>5. QED
  BY <1>1, <1>2, <1>3, <1>4 DEF SupInv

LEMMA TimeoutStopsInv ==
  ASSUME SupInv, TimeoutStops
  PROVE  SupInv'
<1> USE DEF TimeoutStops, loopVars, countVars, channelVars, authVars
<1>1. TypeOK'
  BY DEF SupInv, TypeOK, Places, Client
<1>2. CrashBudget' /\ CountInv' /\ PlaceInv'
  BY BesideMain
<1>3. HandlerInv'
  BY DEF SupInv, HandlerInv, PlaceInv, TypeOK, Looping, Ending, Client
<1>4. SessionInv'
  BY DEF SupInv, SessionInv, HandlerInv, Ending, Client, Running, TypeOK
<1>5. QED
  BY <1>1, <1>2, <1>3, <1>4 DEF SupInv

LEMMA TimeoutEndsInv ==
  ASSUME SupInv, TimeoutEnds
  PROVE  SupInv'
<1> USE DEF TimeoutEnds, loopVars, countVars, channelVars, authVars
<1>1. TypeOK'
  BY DEF SupInv, TypeOK, Places, Client
<1>2. CrashBudget' /\ CountInv' /\ PlaceInv'
  BY BesideMain
<1>3. HandlerInv'
  BY DEF SupInv, HandlerInv, PlaceInv, TypeOK, Looping, Ending, Client
<1>4. SessionInv'
  BY DEF SupInv, SessionInv, HandlerInv, Ending, Client, Running, TypeOK
<1>5. QED
  BY <1>1, <1>2, <1>3, <1>4 DEF SupInv

LEMMA SessionFinishedInv ==
  ASSUME SupInv, NEW s \in Session, SessionFinished(s)
  PROVE  SupInv'
<1> USE DEF SessionFinished, Over, loopVars, countVars, channelVars, authVars
<1>1. TypeOK'
  BY DEF SupInv, TypeOK, Places, Client
<1>2. CrashBudget' /\ CountInv' /\ PlaceInv'
  BY BesideMain
<1>3. HandlerInv'
  BY DEF SupInv, HandlerInv, PlaceInv, TypeOK, Looping, Ending, Client
<1>4. SessionInv'
  BY DEF SupInv, SessionInv, HandlerInv, Ending, Client, Running, TypeOK
<1>5. QED
  BY <1>1, <1>2, <1>3, <1>4 DEF SupInv

LEMMA StopRequestedInv ==
  ASSUME SupInv, StopRequested
  PROVE  SupInv'
<1> USE DEF StopRequested, loopVars, countVars, channelVars, authVars
<1>1. TypeOK'
  BY DEF SupInv, TypeOK, Places, Client
<1>2. CrashBudget' /\ CountInv' /\ PlaceInv'
  BY BesideMain
<1>3. HandlerInv'
  BY DEF SupInv, HandlerInv, PlaceInv, TypeOK, Looping, Ending, Client
<1>4. SessionInv'
  BY DEF SupInv, SessionInv, HandlerInv, Ending, Client, Running, TypeOK
<1>5. QED
  BY <1>1, <1>2, <1>3, <1>4 DEF SupInv

LEMMA ClientSendsInv ==
  ASSUME SupInv, NEW c \in Client, ClientSends(c)
  PROVE  SupInv'
<1> USE DEF ClientSends, loopVars, countVars, channelVars, authVars
<1>1. TypeOK'
  BY DEF SupInv, TypeOK, Places, Client
<1>2. CrashBudget' /\ CountInv' /\ PlaceInv'
  BY BesideMain
<1>3. HandlerInv'
  BY DEF SupInv, HandlerInv, PlaceInv, TypeOK, Looping, Ending, Client
<1>4. SessionInv'
  BY DEF SupInv, SessionInv, HandlerInv, Ending, Client, Running, TypeOK
<1>5. QED
  BY <1>1, <1>2, <1>3, <1>4 DEF SupInv

LEMMA ClientHangsUpInv ==
  ASSUME SupInv, NEW c \in Client, ClientHangsUp(c)
  PROVE  SupInv'
<1> USE DEF ClientHangsUp, loopVars, countVars, channelVars, authVars
<1>1. TypeOK'
  BY DEF SupInv, TypeOK, Places, Client
<1>2. CrashBudget' /\ CountInv' /\ PlaceInv'
  BY BesideMain
<1>3. HandlerInv'
  BY DEF SupInv, HandlerInv, PlaceInv, TypeOK, Looping, Ending, Client
<1>4. SessionInv'
  BY DEF SupInv, SessionInv, HandlerInv, Ending, Client, Running, TypeOK
<1>5. QED
  BY <1>1, <1>2, <1>3, <1>4 DEF SupInv

LEMMA GetsSidInv ==
  ASSUME SupInv, NEW p \in Client \cup Session, GetsSid(p)
  PROVE  SupInv'
<1> USE DEF GetsSid, loopVars, countVars, channelVars, authVars
<1>1. TypeOK'
  BY DEF SupInv, TypeOK, Places, Client, Running, Over
<1>2. CrashBudget' /\ CountInv' /\ PlaceInv'
  BY BesideMain
<1>3. HandlerInv'
  BY DEF SupInv, HandlerInv, PlaceInv, TypeOK, Looping, Ending, Client
<1>4. SessionInv'
  BY DEF SupInv, SessionInv, HandlerInv, Ending, Client, Running, TypeOK
<1>5. QED
  BY <1>1, <1>2, <1>3, <1>4 DEF SupInv

LEMMA ExitsInv ==
  ASSUME SupInv, NEW p \in Client \cup Session, Exits(p)
  PROVE  SupInv'
<1> USE DEF Exits, Over, loopVars, countVars, channelVars, authVars
<1>1. TypeOK'
  BY DEF SupInv, TypeOK, Places, Client, Running, Over
<1>2. CrashBudget' /\ CountInv' /\ PlaceInv'
  BY BesideMain
<1>3. HandlerInv'
  BY DEF SupInv, HandlerInv, PlaceInv, TypeOK, Looping, Ending, Client, Running
<1>4. SessionInv'
  BY DEF SupInv, SessionInv, HandlerInv, Ending, Client, Running, TypeOK
<1>5. QED
  BY <1>1, <1>2, <1>3, <1>4 DEF SupInv

LEMMA WorkerDiesInv ==
  ASSUME SupInv, WorkerDies
  PROVE  SupInv'
<1> USE DEF WorkerDies, loopVars, countVars, channelVars, authVars
<1>1. TypeOK'
  BY DEF SupInv, TypeOK, Places, Client
<1>2. CrashBudget' /\ CountInv' /\ PlaceInv'
  BY BesideMain
<1>3. HandlerInv'
  BY DEF SupInv, HandlerInv, PlaceInv, TypeOK, Looping, Ending, Client
<1>4. SessionInv'
  BY DEF SupInv, SessionInv, HandlerInv, Ending, Client, Running, TypeOK
<1>5. QED
  BY <1>1, <1>2, <1>3, <1>4 DEF SupInv

LEMMA StrayEndsInv ==
  ASSUME SupInv, StrayEnds
  PROVE  SupInv'
<1> USE DEF StrayEnds, loopVars, countVars, channelVars, authVars
<1>1. TypeOK'
  <2>1. stray' \in BOOLEAN
    OBVIOUS
  <2>2. QED
    BY <2>1 DEF SupInv, TypeOK
<1>2. CrashBudget' /\ CountInv' /\ PlaceInv'
  BY BesideMain
<1>3. HandlerInv'
  BY DEF SupInv, HandlerInv, PlaceInv, TypeOK, Looping, Ending, Client
<1>4. SessionInv'
  BY DEF SupInv, SessionInv, HandlerInv, Ending, Client, Running, TypeOK
<1>5. QED
  BY <1>1, <1>2, <1>3, <1>4 DEF SupInv

LEMMA ProgramEndsInv ==
  ASSUME SupInv, NEW p \in Client \cup Session, ProgramEnds(p)
  PROVE  SupInv'
<1> USE DEF ProgramEnds, loopVars, countVars, channelVars, authVars
<1>1. TypeOK'
  BY DEF SupInv, TypeOK, Places, Client, Running, Over
<1>2. CrashBudget' /\ CountInv' /\ PlaceInv'
  BY BesideMain
<1>3. HandlerInv'
  BY DEF SupInv, HandlerInv, PlaceInv, TypeOK, Looping, Ending, Client
<1>4. SessionInv'
  BY DEF SupInv, SessionInv, HandlerInv, Ending, Client, Running, TypeOK
<1>5. QED
  BY <1>1, <1>2, <1>3, <1>4 DEF SupInv

-----------------------------------------------------------------------------
(* The theorems.                                                            *)

LEMMA StepInv == SupInv /\ [Next]_vars => SupInv'
<1> SUFFICES ASSUME SupInv, [Next]_vars
             PROVE  SupInv'
  OBVIOUS
<1>1. CASE MainLoop
  BY <1>1, StartGreeterInv, StartGreeterFailsInv, GreeterRunsInv, StartAdapterInv,
     SkipAdapterInv, StopSeenInv, ExitSeenInv, CloseExitedInv, AdapterGoneInv,
     GreeterWasReadyInv, RetryInv, FallBackInv, GiveUpInv, PauseInv DEF MainLoop
<1>2. CASE Cleanup
  BY <1>2, StopAuthInv, FinishStopAuthInv, CloseNextInv, JoinNextInv, SignalGroupInv,
     EndedInv, FinishCleanupInv DEF Cleanup
<1>3. CASE \E c \in Client : Handler(c)
  BY <1>3, ServeAtOnceInv, ServeCreateInv, FinishReplaceInv, ServeContinueInv,
     ServeCancelInv, ServePowerInv, RunPowerCommandInv, ServeStartInv, LaunchSessionInv,
     WorkerHungUpInv, FinishDropInv, HangUpInv, RaiseInv, HandlerEndsInv
     DEF Handler, Logins
<1>4. CASE TimeoutStops \/ TimeoutEnds \/ \E s \in Session : SessionFinished(s)
  BY <1>4, TimeoutStopsInv, TimeoutEndsInv, SessionFinishedInv
<1>5. CASE Environment
  BY <1>5, StopRequestedInv, WorkerDiesInv, WorkerPromptsInv, WorkerAcceptsInv,
     WorkerFailsInv, ClientHangsUpInv, ClientSendsInv, GetsSidInv, ExitsInv, StrayEndsInv,
     ProgramEndsInv DEF Environment, Conversation
<1>6. CASE UNCHANGED vars
  <2> USE <1>6 DEF vars, loopVars, countVars, channelVars, authVars
  <2>1. TypeOK' /\ CrashBudget' /\ CountInv' /\ PlaceInv'
    BY DEF SupInv, TypeOK, CrashBudget, CountInv, PlaceInv
  <2>2. HandlerInv' /\ SessionInv'
    BY DEF SupInv, HandlerInv, SessionInv
  <2>3. QED
    BY <2>1, <2>2 DEF SupInv
<1>7. QED
  BY <1>1, <1>2, <1>3, <1>4, <1>5, <1>6 DEF Next

\* The inductive invariant of the supervisor holds in every reachable state.
THEOREM SupervisorInvariant == Spec => []SupInv
<1>1. Init => SupInv
  BY InitInv
<1>2. SupInv /\ [Next]_vars => SupInv'
  BY StepInv
<1>3. QED
  BY <1>1, <1>2, PTL DEF Spec

\* run_daemon_async gives up on greeters that never get ready in time, and never before
\* curses has had its share, for every max-restarts and either first back end.
THEOREM RestartsBounded == Spec => []CrashBudget
<1>1. SupInv => CrashBudget
  BY DEF SupInv
<1>2. QED
  BY <1>1, SupervisorInvariant, PTL

\* close_client_channel: no client is started while the handler of its predecessor, or a
\* conversation of it, is still there.
THEOREM RestartsClean == Spec => []HandlerGoneBeforeRestart
<1>1. SupInv => HandlerGoneBeforeRestart
  BY DEF SupInv, HandlerInv, HandlerGoneBeforeRestart, Looping, Client
<1>2. QED
  BY <1>1, SupervisorInvariant, PTL

\* When cleanup_async is done, whenever the stop came, every session wrapper has exited,
\* every monitor has reported, and no PAM worker the daemon holds is there. The programs
\* of those sessions and the workers let go of at start-session are not covered.
THEOREM NothingOrphaned == Spec => []NoOrphans
<1>1. SupInv => NoOrphans
  BY DEF SupInv, TypeOK, HandlerInv, SessionInv, NoOrphans, Ending, Running, Client
<1>2. QED
  BY <1>1, SupervisorInvariant, PTL

\* Once cleanup_async ends processes, no request served late launches another session.
THEOREM NothingLaunchedLate == Spec => NoLateSession
<1>1. ASSUME SupInv, [Next]_vars, NEW s \in Session, main \in Ending, proc[s] = "none"
      PROVE  proc'[s] = "none"
  <2> USE <1>1 DEF loopVars, countVars, channelVars, authVars
  <2>1. CASE MainLoop
    BY <2>1 DEF MainLoop, Ending, StartGreeter, StartGreeterFails, GreeterRuns,
       StartAdapter, SkipAdapter, StopSeen, ExitSeen, CloseExited, AdapterGone,
       GreeterWasReady, Retry, FallBack, GiveUp, GreeterFailed, Rejoin, Pause
  <2>2. CASE Cleanup
    BY <2>2 DEF Cleanup, StopAuth, FinishStopAuth, CloseNext, CloseChannel, JoinNext,
       SignalGroup, Ended, FinishCleanup
  <2>3. CASE \E c \in Client : Handler(c)
    <3>1. \A c \in Client : handler[c] = "none"
      BY DEF SupInv, HandlerInv
    <3>2. PICK c \in Client : Handler(c)
      BY <2>3
    <3>3. CASE c = "greeter" /\ Logins
      BY <3>1, <3>3 DEF Logins, ServeCreate, FinishReplace, ServeContinue, ServeCancel,
         ServePower, RunPowerCommand, ServeStart, LaunchSession, WorkerHungUp,
         FinishDrop, Raise, Serves, Waiting, Client
    <3>4. CASE ServeAtOnce(c) \/ HangUp(c) \/ HandlerEnds(c)
      BY <3>4 DEF ServeAtOnce, HangUp, HandlerEnds
    <3>5. QED
      BY <3>2, <3>3, <3>4 DEF Handler
  <2>4. CASE TimeoutStops \/ TimeoutEnds \/ \E x \in Session : SessionFinished(x)
    BY <2>4 DEF TimeoutStops, TimeoutEnds, SessionFinished
  <2>5. CASE Environment
    BY <2>5 DEF Environment, StopRequested, WorkerDies, Conversation, WorkerPrompts,
       WorkerAccepts, WorkerFails, WorkerSays, ClientHangsUp, ClientSends, GetsSid,
       Exits, Running, StrayEnds, ProgramEnds, SupInv, TypeOK
  <2>6. CASE UNCHANGED vars
    BY <2>6 DEF vars
  <2>7. QED
    BY <2>1, <2>2, <2>3, <2>4, <2>5, <2>6 DEF Next
<1>2. SupInv /\ [Next]_vars
        => [\A s \in Session : main \in Ending /\ proc[s] = "none" => proc'[s] = "none"]_vars
  BY <1>1
<1>3. QED
  BY <1>2, SupervisorInvariant, PTL DEF Spec, NoLateSession
=============================================================================
