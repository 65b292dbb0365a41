------------------------ MODULE SessionWrapper_proofs ------------------------
(* Theorems about the session wrappers, for any number of sessions, terminals *)
(* and failures.                                                              *)
EXTENDS SessionWrapperInv, TLAPS

Step(w) == Opens(w) \/ Closes(w) \/ Fails(w) \/ Child(w) \/ Terminate(w) \/ Announce(w)

LEMMA StepIsNext == Next <=> \E w \in Wrapper : Step(w)
BY DEF Next, Step

LEMMA InitInv == Init => WrapperInv
<1> SUFFICES ASSUME Init PROVE WrapperInv
  OBVIOUS
<1> USE WrapperAssumption DEF Init, Wrapper, Fresh
<1>1. TypeOK
  BY DEF TypeOK, Places, Opening, Resources, Tty
<1>2. ASSUME NEW w \in Wrapper PROVE Sound(w)
  BY <1>2 DEF Sound, AtMost, LeftBehind, AtLeast, ChildInv, HooksInv, TtyInv, Opening, Closing, Over
<1>3. ConsoleAccounted
  BY DEF ConsoleAccounted
<1>4. QED
  BY <1>1, <1>2, <1>3 DEF WrapperInv

-----------------------------------------------------------------------------
(* Types, and what a step leaves alone. *)

LEMMA TypesOpens ==
    ASSUME TypeOK, NEW v \in Wrapper, Sound(v), Opens(v)
    PROVE  TypeOK'
<1> USE WrapperAssumption DEF TypeOK, Goto, Fail, CannotGive, Take, Give, RunHook, Become, Places, Opening,
       Closing, Over, Resources, FirstFree, FreeTtys
<1>1. CASE OpenConsole(v)
  BY <1>1 DEF OpenConsole
<1>2. CASE PickTty(v)
  <2>1. PICK n \in Tty : tty' = [tty EXCEPT ![v] = n]
    BY <1>2 DEF PickTty
  <2>2. tty' \in [Wrapper -> 0..MaxTty]
    BY <2>1 DEF Tty
  <2>3. QED
    BY <1>2, <2>2 DEF PickTty
<1>3. CASE OpenTty(v)
  BY <1>3 DEF OpenTty
<1>4. CASE PrepareTerminal(v)
  <2>1. tty[v] \in Tty
    BY <1>4 DEF PrepareTerminal, Sound, TtyInv
  <2>2. QED
    BY <1>4, <2>1 DEF PrepareTerminal
<1>5. CASE StartPam(v)
  BY <1>5 DEF StartPam
<1>6. CASE EstablishCred(v)
  BY <1>6 DEF EstablishCred
<1>7. CASE OpenSession(v)
  BY <1>7 DEF OpenSession
<1>8. CASE PreHook(v)
  BY <1>8 DEF PreHook
<1>9. CASE Fork(v)
  BY <1>9 DEF Fork
<1>10. CASE ParentGoesOn(v)
  BY <1>10 DEF ParentGoesOn
<1>11. QED
  BY <1>1, <1>2, <1>3, <1>4, <1>5, <1>6, <1>7, <1>8, <1>9, <1>10 DEF Opens

LEMMA TypesCloses ==
    ASSUME TypeOK, NEW v \in Wrapper, Closes(v)
    PROVE  TypeOK'
<1> USE WrapperAssumption DEF TypeOK, Goto, Fail, CannotGive, Take, Give, RunHook, Become, Places, Opening,
       Closing, Over, Resources, FirstFree, FreeTtys
<1>1. CASE Reap(v)
  BY <1>1 DEF Reap
<1>2. CASE PostHook(v)
  BY <1>2 DEF PostHook
<1>3. CASE DeleteCred(v)
  BY <1>3 DEF DeleteCred
<1>4. CASE DeleteCredFails(v)
  BY <1>4 DEF DeleteCredFails
<1>5. CASE CloseSession(v)
  BY <1>5 DEF CloseSession
<1>6. CASE CloseSessionFails(v)
  BY <1>6 DEF CloseSessionFails
<1>7. CASE EndPam(v)
  BY <1>7 DEF EndPam
<1>8. CASE CloseTty(v)
  BY <1>8 DEF CloseTty
<1>9. CASE CloseTtyFails(v)
  BY <1>9 DEF CloseTtyFails
<1>10. CASE Leave(v)
  BY <1>10 DEF Leave
<1>11. QED
  BY <1>1, <1>2, <1>3, <1>4, <1>5, <1>6, <1>7, <1>8, <1>9, <1>10 DEF Closes

LEMMA TypesFails ==
    ASSUME TypeOK, NEW v \in Wrapper, Fails(v)
    PROVE  TypeOK'
<1> USE WrapperAssumption DEF TypeOK, Goto, Fail, CannotGive, Take, Give, RunHook, Become, Places, Opening,
       Closing, Over, Resources, FirstFree, FreeTtys
<1>1. CASE OpenConsoleFails(v)
  BY <1>1 DEF OpenConsoleFails
<1>2. CASE NoTty(v)
  BY <1>2 DEF NoTty
<1>3. CASE OpenTtyFails(v)
  BY <1>3 DEF OpenTtyFails
<1>4. CASE StartPamFails(v)
  BY <1>4 DEF StartPamFails
<1>5. CASE PamRefuses(v)
  BY <1>5 DEF PamRefuses
<1>6. CASE PreHookFails(v)
  BY <1>6 DEF PreHookFails
<1>7. CASE ForkFails(v)
  BY <1>7 DEF ForkFails
<1>8. QED
  BY <1>1, <1>2, <1>3, <1>4, <1>5, <1>6, <1>7 DEF Fails

LEMMA TypesChild ==
    ASSUME TypeOK, NEW v \in Wrapper, Child(v)
    PROVE  TypeOK'
<1> USE WrapperAssumption DEF TypeOK, Goto, Fail, CannotGive, Take, Give, RunHook, Become, Places, Opening,
       Closing, Over, Resources, FirstFree, FreeTtys
<1>1. CASE ChildExecs(v)
  BY <1>1 DEF ChildExecs
<1>2. CASE ChildFails(v)
  BY <1>2 DEF ChildFails
<1>3. CASE ChildGoesAstray(v)
  BY <1>3 DEF ChildGoesAstray
<1>4. CASE AstrayCloses(v)
  BY <1>4 DEF AstrayCloses
<1>5. CASE ProgramEnds(v)
  BY <1>5 DEF ProgramEnds
<1>6. QED
  BY <1>1, <1>2, <1>3, <1>4, <1>5 DEF Child

LEMMA HereOpens ==
    ASSUME TypeOK, NEW v \in Wrapper, Sound(v), Opens(v)
    PROVE  Sound(v)'
<1> USE WrapperAssumption DEF TypeOK, Goto, Fail, CannotGive, Take, Give, RunHook, Become, FirstFree, FreeTtys,
       Sound, AtMost, LeftBehind, AtLeast, ChildInv, HooksInv, TtyInv, Inside, Ended, Wrapper,
       Places, Opening, Closing, Over, Tty, Lasting
<1>1. CASE OpenConsole(v)
  BY <1>1 DEF OpenConsole
<1>2. CASE PickTty(v)
  BY <1>2 DEF PickTty
<1>3. CASE OpenTty(v)
  BY <1>3 DEF OpenTty
<1>4. CASE PrepareTerminal(v)
  BY <1>4 DEF PrepareTerminal
<1>5. CASE StartPam(v)
  BY <1>5 DEF StartPam
<1>6. CASE EstablishCred(v)
  BY <1>6 DEF EstablishCred
<1>7. CASE OpenSession(v)
  BY <1>7 DEF OpenSession
<1>8. CASE PreHook(v)
  <2>1. CASE v = Greeter
    BY <1>8, <2>1 DEF PreHook
  <2>2. CASE v # Greeter
    <3>1. hooks'[v] = {"pre"}
      BY <1>8, <2>2 DEF PreHook
    <3>2. QED
      BY <1>8, <2>2, <3>1 DEF PreHook
  <2>3. QED
    BY <2>1, <2>2
<1>9. CASE Fork(v)
  BY <1>9 DEF Fork
<1>10. CASE ParentGoesOn(v)
  BY <1>10 DEF ParentGoesOn
<1>11. QED
  BY <1>1, <1>2, <1>3, <1>4, <1>5, <1>6, <1>7, <1>8, <1>9, <1>10 DEF Opens

LEMMA HereCloses ==
    ASSUME TypeOK, NEW v \in Wrapper, Sound(v), Closes(v)
    PROVE  Sound(v)'
<1> USE WrapperAssumption DEF TypeOK, Goto, Fail, CannotGive, Take, Give, RunHook, Become, FirstFree, FreeTtys,
       Sound, AtMost, LeftBehind, AtLeast, ChildInv, HooksInv, TtyInv, Inside, Ended, Wrapper,
       Places, Opening, Closing, Over, Tty, Lasting
<1>1. CASE Reap(v)
  BY <1>1 DEF Reap
<1>2. CASE PostHook(v)
  BY <1>2 DEF PostHook
<1>3. CASE DeleteCred(v)
  BY <1>3 DEF DeleteCred
<1>4. CASE DeleteCredFails(v)
  BY <1>4 DEF DeleteCredFails
<1>5. CASE CloseSession(v)
  BY <1>5 DEF CloseSession
<1>6. CASE CloseSessionFails(v)
  BY <1>6 DEF CloseSessionFails
<1>7. CASE EndPam(v)
  BY <1>7 DEF EndPam
<1>8. CASE CloseTty(v)
  BY <1>8 DEF CloseTty
<1>9. CASE CloseTtyFails(v)
  BY <1>9 DEF CloseTtyFails
<1>10. CASE Leave(v)
  BY <1>10 DEF Leave
<1>11. QED
  BY <1>1, <1>2, <1>3, <1>4, <1>5, <1>6, <1>7, <1>8, <1>9, <1>10 DEF Closes

LEMMA HereFails ==
    ASSUME TypeOK, NEW v \in Wrapper, Sound(v), Fails(v)
    PROVE  Sound(v)'
<1> USE WrapperAssumption DEF TypeOK, Goto, Fail, CannotGive, Take, Give, RunHook, Become, FirstFree, FreeTtys,
       Sound, AtMost, LeftBehind, AtLeast, ChildInv, HooksInv, TtyInv, Inside, Ended, Wrapper,
       Places, Opening, Closing, Over, Tty, Lasting
<1>1. CASE OpenConsoleFails(v)
  BY <1>1 DEF OpenConsoleFails
<1>2. CASE NoTty(v)
  BY <1>2 DEF NoTty
<1>3. CASE OpenTtyFails(v)
  BY <1>3 DEF OpenTtyFails
<1>4. CASE StartPamFails(v)
  BY <1>4 DEF StartPamFails
<1>5. CASE PamRefuses(v)
  BY <1>5 DEF PamRefuses
<1>6. CASE PreHookFails(v)
  BY <1>6 DEF PreHookFails
<1>7. CASE ForkFails(v)
  BY <1>7 DEF ForkFails
<1>8. QED
  BY <1>1, <1>2, <1>3, <1>4, <1>5, <1>6, <1>7 DEF Fails

LEMMA HereChild ==
    ASSUME TypeOK, NEW v \in Wrapper, Sound(v), Child(v)
    PROVE  Sound(v)'
<1> USE WrapperAssumption DEF TypeOK, Goto, Fail, CannotGive, Take, Give, RunHook, Become, FirstFree, FreeTtys,
       Sound, AtMost, LeftBehind, AtLeast, ChildInv, HooksInv, TtyInv, Inside, Ended, Wrapper,
       Places, Opening, Closing, Over, Tty, Lasting
<1>1. CASE ChildExecs(v)
  BY <1>1 DEF ChildExecs
<1>2. CASE ChildFails(v)
  BY <1>2 DEF ChildFails
<1>3. CASE ChildGoesAstray(v)
  BY <1>3 DEF ChildGoesAstray
<1>4. CASE AstrayCloses(v)
  BY <1>4 DEF AstrayCloses
<1>5. CASE ProgramEnds(v)
  BY <1>5 DEF ProgramEnds
<1>6. QED
  BY <1>1, <1>2, <1>3, <1>4, <1>5 DEF Child

LEMMA ElsewhereOpens ==
    ASSUME TypeOK, NEW v \in Wrapper, Opens(v), NEW w \in Wrapper, w # v
    PROVE  /\ pc'[w] = pc[w] /\ held'[w] = held[w] /\ tty'[w] = tty[w]
           /\ leader'[w] = leader[w] /\ child'[w] = child[w] /\ hooks'[w] = hooks[w]
           /\ failed'[w] = failed[w]
BY DEF TypeOK, Opens, Goto, Fail, CannotGive, Take, Give, RunHook, Become, OpenConsole, PickTty, OpenTty,
       PrepareTerminal, StartPam, EstablishCred, OpenSession, PreHook, Fork, ParentGoesOn

LEMMA ElsewhereCloses ==
    ASSUME TypeOK, NEW v \in Wrapper, Closes(v), NEW w \in Wrapper, w # v
    PROVE  /\ pc'[w] = pc[w] /\ held'[w] = held[w] /\ tty'[w] = tty[w]
           /\ leader'[w] = leader[w] /\ child'[w] = child[w] /\ hooks'[w] = hooks[w]
           /\ failed'[w] = failed[w]
BY DEF TypeOK, Closes, Goto, Fail, CannotGive, Take, Give, RunHook, Become, Reap, PostHook, DeleteCred,
       DeleteCredFails, CloseSession, CloseSessionFails, EndPam, CloseTty, CloseTtyFails, Leave

LEMMA ElsewhereFails ==
    ASSUME TypeOK, NEW v \in Wrapper, Fails(v), NEW w \in Wrapper, w # v
    PROVE  /\ pc'[w] = pc[w] /\ held'[w] = held[w] /\ tty'[w] = tty[w]
           /\ leader'[w] = leader[w] /\ child'[w] = child[w] /\ hooks'[w] = hooks[w]
           /\ failed'[w] = failed[w]
BY DEF TypeOK, Fails, Goto, Fail, CannotGive, Take, Give, RunHook, Become, OpenConsoleFails, NoTty,
       OpenTtyFails, StartPamFails, PamRefuses, PreHookFails, ForkFails

LEMMA ElsewhereChild ==
    ASSUME TypeOK, NEW v \in Wrapper, Child(v), NEW w \in Wrapper, w # v
    PROVE  /\ pc'[w] = pc[w] /\ held'[w] = held[w] /\ tty'[w] = tty[w]
           /\ leader'[w] = leader[w] /\ child'[w] = child[w] /\ hooks'[w] = hooks[w]
           /\ failed'[w] = failed[w]
BY DEF TypeOK, Child, Goto, Fail, CannotGive, Take, Give, RunHook, Become, ChildExecs, ChildFails,
       ChildGoesAstray, AstrayCloses, ProgramEnds
LEMMA EndHere ==
    ASSUME TypeOK, NEW v \in Wrapper, Sound(v), Terminate(v) \/ Announce(v)
    PROVE  TypeOK' /\ Sound(v)'
<1> USE WrapperAssumption DEF TypeOK, Goto, Lasting, Ended, Wrapper, Places, Opening, Closing, Over
<1>1. CASE Terminate(v)
  <2>1. TypeOK'
    BY <1>1 DEF Terminate
  <2>2. Sound(v)'
    BY <1>1 DEF Terminate, Sound, AtMost, LeftBehind, AtLeast, ChildInv, HooksInv, TtyInv
  <2>3. QED
    BY <2>1, <2>2
<1>2. CASE Announce(v)
  <2>1. TypeOK'
    BY <1>2 DEF Announce
  <2>2. Sound(v)'
    BY <1>2 DEF Announce, Sound, AtMost, LeftBehind, AtLeast, ChildInv, HooksInv, TtyInv
  <2>3. QED
    BY <2>1, <2>2
<1>3. QED
  BY <1>1, <1>2

LEMMA EndElsewhere ==
    ASSUME TypeOK, NEW v \in Wrapper, Terminate(v) \/ Announce(v), NEW w \in Wrapper, w # v
    PROVE  /\ pc'[w] = pc[w] /\ held'[w] = held[w] /\ tty'[w] = tty[w]
           /\ leader'[w] = leader[w] /\ child'[w] = child[w] /\ hooks'[w] = hooks[w]
           /\ failed'[w] = failed[w]
BY DEF TypeOK, Goto, Terminate, Announce

LEMMA Elsewhere ==
    ASSUME TypeOK, NEW v \in Wrapper, Step(v), NEW w \in Wrapper, w # v
    PROVE  /\ pc'[w] = pc[w] /\ held'[w] = held[w] /\ tty'[w] = tty[w]
           /\ leader'[w] = leader[w] /\ child'[w] = child[w] /\ hooks'[w] = hooks[w]
           /\ failed'[w] = failed[w]
BY ElsewhereOpens, ElsewhereCloses, ElsewhereFails, ElsewhereChild, EndElsewhere DEF Step

-----------------------------------------------------------------------------
(* The console in front. *)

\* Only a switch to a terminal and the daemon change what is in front, and only a
\* wrapper that has no terminal yet gets another number.
LEMMA FrontFrame ==
    ASSUME TypeOK, NEW v \in Wrapper, Sound(v), Step(v)
    PROVE  \/ PrepareTerminal(v) \/ Announce(v)
           \/ /\ UNCHANGED <<front, leader>>
              /\ leader[v] => UNCHANGED tty
              /\ pc'[v] = "announced" => pc[v] = "announced"
<1> USE DEF Goto, Fail, TypeOK
<1>1. CASE Opens(v)
  BY <1>1 DEF Opens, OpenConsole, PickTty, OpenTty, StartPam, EstablishCred, OpenSession, PreHook,
     Fork, ParentGoesOn, Sound, TtyInv
<1>2. CASE Closes(v)
    BY <1>2 DEF Closes, Reap, PostHook, DeleteCred, DeleteCredFails, CloseSession, CloseSessionFails,
         EndPam, CloseTty, CloseTtyFails, Leave
<1>3. CASE Fails(v)
  BY <1>3 DEF Fails, OpenConsoleFails, NoTty, OpenTtyFails, StartPamFails, PamRefuses, PreHookFails,
     ForkFails
<1>4. CASE Child(v)
  BY <1>4 DEF Child, ChildExecs, ChildFails, ChildGoesAstray, AstrayCloses, ProgramEnds
<1>5. CASE Terminate(v)
  BY <1>5 DEF Terminate
<1>6. QED
  BY <1>1, <1>2, <1>3, <1>4, <1>5 DEF Step

LEMMA ConsoleKept ==
    ASSUME TypeOK, ConsoleAccounted, NEW v \in Wrapper, Sound(v), Step(v)
    PROVE  ConsoleAccounted'
<1>1. CASE PrepareTerminal(v)
  <2>1. front' = tty[v] /\ tty'[v] = tty[v] /\ leader'[v] /\ pc'[v] # "announced" /\ pc[v] = "tty"
    BY <1>1 DEF PrepareTerminal, Goto, Fail, TypeOK
  <2>2. CASE v = Greeter
    BY <2>1, <2>2 DEF ConsoleAccounted, Sound, TtyInv
  <2>3. CASE v # Greeter
    BY <2>1, <2>3 DEF ConsoleAccounted, Wrapper
  <2>4. QED
    BY <2>2, <2>3
<1>2. CASE Announce(v)
  BY <1>2 DEF Announce, ConsoleAccounted
<1>3. CASE /\ UNCHANGED <<front, leader>>
           /\ leader[v] => UNCHANGED tty
           /\ pc'[v] = "announced" => pc[v] = "announced"
  <2>1. CASE front = GreeterTty
    BY <1>3, <2>1 DEF ConsoleAccounted
  <2>2. ASSUME NEW w \in Users, tty[w] = front, leader[w], pc[w] # "announced"
        PROVE  ConsoleAccounted'
    <3>1. tty'[w] = tty[w] /\ pc'[w] # "announced"
      BY <1>3, <2>2, Elsewhere DEF Wrapper
    <3>2. QED
      BY <1>3, <2>2, <3>1 DEF ConsoleAccounted
  <2>3. QED
    BY <2>1, <2>2 DEF ConsoleAccounted
<1>4. QED
  BY <1>1, <1>2, <1>3, FrontFrame

-----------------------------------------------------------------------------
(* The theorems. *)

LEMMA StepInv == WrapperInv /\ [Next]_vars => WrapperInv'
<1> SUFFICES ASSUME WrapperInv, [Next]_vars PROVE WrapperInv'
  OBVIOUS
<1>1. CASE UNCHANGED vars
  BY <1>1 DEF WrapperInv, vars, TypeOK, Sound, AtMost, LeftBehind, AtLeast, ChildInv, HooksInv,
     TtyInv, ConsoleAccounted
<1>2. ASSUME NEW v \in Wrapper, Step(v) PROVE WrapperInv'
  <2>0. TypeOK /\ Sound(v) /\ ConsoleAccounted
    BY DEF WrapperInv
  <2>1. TypeOK' /\ Sound(v)'
    BY <1>2, <2>0, TypesOpens, TypesCloses, TypesFails, TypesChild,
       HereOpens, HereCloses, HereFails, HereChild, EndHere DEF Step
  <2>2. ASSUME NEW w \in Wrapper, w # v PROVE Sound(w)'
    <3>1. /\ pc'[w] = pc[w] /\ held'[w] = held[w] /\ tty'[w] = tty[w]
          /\ leader'[w] = leader[w] /\ child'[w] = child[w] /\ hooks'[w] = hooks[w]
          /\ failed'[w] = failed[w]
      BY <1>2, <2>0, <2>2, Elsewhere
    <3>2. Sound(w)
      BY DEF WrapperInv
    <3>3. QED
      BY <3>1, <3>2 DEF Sound, AtMost, LeftBehind, AtLeast, ChildInv, HooksInv, TtyInv
  <2>3. ConsoleAccounted'
    BY <1>2, <2>0, ConsoleKept
  <2>4. QED
    BY <2>1, <2>2, <2>3 DEF WrapperInv
<1>3. QED
  BY <1>1, <1>2, StepIsNext

\* The invariant the results below rest on: what each wrapper of session/user.py
\* and session/greeter.py holds, has run and has forked at each of its places.
THEOREM WrapperInvariant == Spec => []WrapperInv
BY InitInv, StepInv, PTL DEF Spec

\* A wrapper that exits by itself gave back all it opened, whatever failed on the
\* way in or out, but for what a failing call of its clean-up stands for.
THEOREM NothingLeft == Spec => []LeavesNothing
<1>1. WrapperInv => LeavesNothing
  BY DEF LeavesNothing, WrapperInv, TypeOK, Resources, Sound, AtMost, LeftBehind
<1>2. QED
  BY <1>1, WrapperInvariant, PTL

\* The program runs inside its terminal, its PAM session and its credentials,
\* between the pre hook and the post hook.
THEOREM RunsInside == Spec => []ProgramRunsInside
<1>1. WrapperInv => ProgramRunsInside
  <2> SUFFICES ASSUME WrapperInv, NEW w \in Wrapper, child[w] = "running",
                      pc[w] \notin Over \cup {"announced"}
               PROVE  /\ Inside(w) \subseteq held[w]
                      /\ pc[w] \in {"forked", "waiting"}
                      /\ hooks[w] = IF w = Greeter THEN {} ELSE {"pre"}
    BY DEF ProgramRunsInside
  <2>1. TypeOK /\ Sound(w)
    BY DEF WrapperInv
  <2>2. pc[w] \in {"forked", "waiting"}
    BY <2>1 DEF TypeOK, Places, Sound, ChildInv, Ended
  <2>3. QED
    BY <2>1, <2>2 DEF Sound, AtLeast, HooksInv
<1>2. QED
  BY <1>1, WrapperInvariant, PTL

\* The terminal in front is the greeter's or one of a session whose end the
\* daemon has still to deal with.
THEOREM ConsoleHeld == Spec => []ConsoleAccounted
<1>1. WrapperInv => ConsoleAccounted
  BY DEF WrapperInv
<1>2. QED
  BY <1>1, WrapperInvariant, PTL

\* A wrapper gives up its PAM session in one place only.
LEMMA SessionGivenUp ==
    ASSUME TypeOK, NEW v \in Users, Step(v), Sound(v), "session" \in held[v] \ held'[v]
    PROVE  pc[v] = "uncred"
<1> USE DEF TypeOK, Goto, Fail, CannotGive, Take, Give, RunHook, Become, Wrapper
<1>1. CASE Opens(v)
  BY <1>1 DEF Opens, OpenConsole, PickTty, OpenTty, PrepareTerminal, StartPam, EstablishCred,
     OpenSession, PreHook, Fork, ParentGoesOn
<1>2. CASE Closes(v)
    BY <1>2 DEF Closes, Reap, PostHook, DeleteCred, DeleteCredFails, CloseSession, CloseSessionFails,
         EndPam, CloseTty, CloseTtyFails, Leave
<1>3. CASE Fails(v)
  BY <1>3 DEF Fails, OpenConsoleFails, NoTty, OpenTtyFails, StartPamFails, PamRefuses, PreHookFails,
     ForkFails
<1>4. CASE Child(v)
    BY <1>4, WrapperAssumption DEF Child, ChildExecs, ChildFails, ChildGoesAstray, AstrayCloses,
         ProgramEnds, Sound, ChildInv
<1>5. CASE Terminate(v) \/ Announce(v)
  BY <1>5 DEF Terminate, Announce, Lasting
<1>6. QED
  BY <1>1, <1>2, <1>3, <1>4, <1>5 DEF Step

LEMMA PostHookRun ==
    ASSUME TypeOK, NEW v \in Users, Step(v), "post" \in hooks'[v] \ hooks[v]
    PROVE  pc[v] = "reaped"
<1> USE DEF TypeOK, Goto, Fail, CannotGive, Take, Give, RunHook, Become, Wrapper
<1>1. CASE Opens(v)
  BY <1>1 DEF Opens, OpenConsole, PickTty, OpenTty, PrepareTerminal, StartPam, EstablishCred,
     OpenSession, PreHook, Fork, ParentGoesOn
<1>2. CASE Closes(v)
    BY <1>2 DEF Closes, Reap, PostHook, DeleteCred, DeleteCredFails, CloseSession, CloseSessionFails,
         EndPam, CloseTty, CloseTtyFails, Leave
<1>3. CASE Fails(v)
  BY <1>3 DEF Fails, OpenConsoleFails, NoTty, OpenTtyFails, StartPamFails, PamRefuses, PreHookFails,
     ForkFails
<1>4. CASE Child(v)
  BY <1>4 DEF Child, ChildExecs, ChildFails, ChildGoesAstray, AstrayCloses, ProgramEnds
<1>5. CASE Terminate(v) \/ Announce(v)
  BY <1>5 DEF Terminate, Announce
<1>6. QED
  BY <1>1, <1>2, <1>3, <1>4, <1>5 DEF Step

\* The post-execute hook comes after the program and before the PAM session is
\* closed, on every path that closes it.
THEOREM PostHookHonoured == Spec => PostHookInTime
<1> DEFINE P(w) ==
      /\ "session" \in held[w] \ held'[w] /\ child[w] # "none" => "post" \in hooks[w]
      /\ "post" \in hooks'[w] \ hooks[w] => child[w] \in Ended /\ "session" \in held[w]
<1>1. WrapperInv /\ [Next]_vars => [\A w \in Users : P(w)]_vars
  <2> SUFFICES ASSUME WrapperInv, Next, NEW w \in Users PROVE P(w)
    OBVIOUS
  <2>1. PICK v \in Wrapper : Step(v)
    BY StepIsNext
  <2>2. TypeOK /\ w \in Wrapper /\ Sound(w)
    BY DEF WrapperInv, Wrapper
  <2>3. CASE w # v
    <3>1. held'[w] = held[w] /\ hooks'[w] = hooks[w]
      BY <2>1, <2>2, <2>3, Elsewhere
    <3>2. QED
      BY <3>1
  <2>4. CASE w = v
    <3>1. ASSUME "session" \in held[w] \ held'[w], child[w] # "none" PROVE "post" \in hooks[w]
      BY <2>1, <2>2, <2>4, <3>1, SessionGivenUp DEF Sound, HooksInv, Closing
    <3>2. ASSUME "post" \in hooks'[w] \ hooks[w] PROVE child[w] \in Ended /\ "session" \in held[w]
      BY <2>1, <2>2, <2>4, <3>2, PostHookRun DEF Sound, ChildInv, AtLeast
    <3>3. QED
      BY <3>1, <3>2
  <2>5. QED
    BY <2>3, <2>4
<1>2. QED
  BY <1>1, WrapperInvariant, PTL DEF Spec, PostHookInTime
=============================================================================
