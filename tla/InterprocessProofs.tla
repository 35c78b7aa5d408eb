------------------------- MODULE InterprocessProofs -------------------------
(*****************************************************************************)
(* What two processes do in turns over a pair of futexes: Lockstep and       *)
(* RemoteTrigger, one after the other.                                       *)
(*****************************************************************************)
EXTENDS Lockstep, RemoteTrigger, TLAPS
-----------------------------------------------------------------------------
(*****************************************************************************)
(* Lockstep for any number of threads on either side, with timeouts, while   *)
(* nobody calls Cancel.  The argument is that of a token: it is in           *)
(* a_finished_, in b_finished_, or with the one thread that has taken it     *)
(* and not yet posted it, and wherever it is, state_ tells.                  *)
(*****************************************************************************)

Starting == {"startCheck", "startExpect", "startStore"}
Ending   == {"endCheck", "endExpect", "endStore"}

\* The thread has the token.
Holds(t) == t \in inside \/ pc[t] \in Starting \cup Ending \cup {"endPost"}

\* There is one token.
OneToken ==
  /\ ~(Posted("A") /\ Posted("B"))
  /\ \A t \in Threads : Holds(t) => ~Posted("A") /\ ~Posted("B")
  /\ \A s, t \in Threads : Holds(s) /\ Holds(t) => s = t

\* state_ tells where it is.
StateTells ==
  /\ \A x \in Sides : Posted(x) => state_ = Finished[x]
  /\ \A t \in Threads :
       /\ pc[t] \in Starting => state_ = Finished[Other(Side[t])]
       /\ t \in inside \/ pc[t] \in Ending => state_ = Running[Side[t]]
       /\ pc[t] = "endPost" => state_ = Finished[Side[t]]

\* What the threads do without a Cancel.
Places ==
  /\ state_ # "kCancelled"
  /\ \A t \in Threads :
       /\ pc[t] \in {"idle", "wait", "endPost"} \cup Starting \cup Ending
       /\ t \in inside => pc[t] = "idle"

LockstepIInv == TypeOK /\ OneToken /\ StateTells /\ Places

\* A new lockstep has the right types.
LEMMA LockstepInitTypeOK == Init => TypeOK
BY DEF Init, TypeOK, Sides, States, OperationPC, ControlPC, Statuses

\* Every step keeps them.
LEMMA LockstepNextTypeOK == TypeOK /\ [Next]_vars => TypeOK'
<1> SUFFICES ASSUME TypeOK, [Next]_vars PROVE TypeOK'
  OBVIOUS
<1> USE LockstepAssumption DEF TypeOK, Sides, States, OperationPC, ControlPC, Statuses, Goto,
     Return, Posted, Take, Post,
        Other, Running, Finished
<1>1. ASSUME NEW t \in Threads,
             StartOperation(t) \/ EndOperation(t)
      PROVE  TypeOK'
  <2>1. CASE StartOperation(t) BY <2>1 DEF StartOperation
  <2>2. CASE EndOperation(t)   BY <2>2 DEF EndOperation
  <2> QED BY <1>1, <2>1, <2>2
<1>2. ASSUME NEW t \in Threads, InStart(t) PROVE TypeOK'
  <2>1. CASE StartWait(t)    BY <2>1 DEF StartWait
  <2>2. CASE StartTimeout(t) BY <2>2 DEF StartTimeout
  <2>3. CASE StartCheck(t)   BY <2>3 DEF StartCheck
  <2>4. CASE StartExpect(t)  BY <2>4 DEF StartExpect
  <2>5. CASE StartStore(t)   BY <2>5 DEF StartStore
  <2> QED BY <1>2, <2>1, <2>2, <2>3, <2>4, <2>5 DEF InStart, StartStep
<1>3. ASSUME NEW t \in Threads, InEnd(t) PROVE TypeOK'
  <2>1. CASE EndCheck(t) \/ EndExpect(t) BY <2>1 DEF EndCheck, EndExpect
  <2>2. CASE EndStore(t) BY <2>2 DEF EndStore
  <2>3. CASE EndPost(t)  BY <2>3 DEF EndPost
  <2> QED BY <1>3, <2>1, <2>2, <2>3 DEF InEnd
<1>4. CASE UNCHANGED vars
  BY <1>4 DEF vars
<1> QED
  BY <1>1, <1>2, <1>3, <1>4 DEF Next

\* Types, for every set of threads.
THEOREM LockstepTypeCorrect == Spec => []TypeOK
BY LockstepInitTypeOK, LockstepNextTypeOK, PTL DEF Spec

-----------------------------------------------------------------------------
LEMMA LockstepInitIInv == Init => LockstepIInv
<1> SUFFICES ASSUME Init PROVE OneToken /\ StateTells /\ Places
  BY LockstepInitTypeOK DEF LockstepIInv
<1> QED
  BY DEF Init, OneToken, StateTells, Places, Holds, Posted, Starting, Ending,
     Sides, Finished

\* A step of a thread.
LEMMA StepIInv ==
  ASSUME LockstepIInv, NEW t \in Threads, TypeOK',
         \/ t \notin inside /\ StartOperation(t)
         \/ t \in inside /\ EndOperation(t)
         \/ InStart(t) \/ InEnd(t)
  PROVE  OneToken' /\ StateTells' /\ Places'
<1> USE LockstepAssumption
    DEF LockstepIInv, TypeOK, OneToken, StateTells, Places, Holds, Starting, Ending, Sides,
        Posted, Goto, Return, Other, Running, Finished
<1>1. CASE t \notin inside /\ StartOperation(t) BY <1>1 DEF StartOperation
<1>2. CASE t \in inside /\ EndOperation(t)      BY <1>2 DEF EndOperation
<1>3. CASE StartWait(t)    BY <1>3 DEF StartWait, Take
<1>4. CASE StartTimeout(t) BY <1>4 DEF StartTimeout
<1>5. CASE StartCheck(t)   BY <1>5 DEF StartCheck
<1>6. CASE StartExpect(t)  BY <1>6 DEF StartExpect
<1>7. CASE StartStore(t)   BY <1>7 DEF StartStore
<1>8. CASE EndCheck(t)    BY <1>8 DEF EndCheck
<1>9. CASE EndExpect(t)   BY <1>9 DEF EndExpect
<1>10. CASE EndStore(t)    BY <1>10 DEF EndStore
<1>11. CASE EndPost(t)
  <2>1. OneToken'   BY <1>11 DEF EndPost, Post
  <2>2. StateTells'
    <3>1. state_' = Finished[Side[t]] /\ \A x \in Sides : Posted(x)' => x = Side[t]
      BY <1>11 DEF EndPost, Post
    <3>2. \A s \in Threads : s \notin inside' /\ pc'[s] \in {"idle", "wait"}
      BY <1>11 DEF EndPost, Post
    <3> QED BY <3>1, <3>2
  <2>3. Places'     BY <1>11 DEF EndPost, Post
  <2> QED BY <2>1, <2>2, <2>3
<1> QED
  BY <1>1, <1>2, <1>3, <1>4, <1>5, <1>6, <1>7, <1>8, <1>9, <1>10, <1>11
     DEF InStart, StartStep, InEnd

\* Every step preserves the invariant.
LEMMA LockstepNextIInv == LockstepIInv /\ [Next]_vars => LockstepIInv'
<1> SUFFICES ASSUME LockstepIInv, [Next]_vars PROVE LockstepIInv'
  OBVIOUS
<1>1. TypeOK'
  BY LockstepNextTypeOK DEF LockstepIInv
<1>2. CASE Next
  BY <1>1, <1>2, StepIInv DEF Next, LockstepIInv
<1>3. CASE UNCHANGED vars
  BY <1>3 DEF vars, LockstepIInv, TypeOK, OneToken, StateTells, Places, Holds, Posted
<1> QED
  BY <1>2, <1>3

\* The inductive invariant.
THEOREM LockstepInvariantHolds == Spec => []LockstepIInv
BY LockstepInitIInv, LockstepNextIInv, PTL DEF Spec

\* The operations exclude each other, for any number of threads.
THEOREM Exclusion == Spec => []MutualExclusion
<1>1. LockstepIInv => MutualExclusion
  BY DEF LockstepIInv, TypeOK, OneToken, Holds, MutualExclusion
<1> QED
  BY <1>1, LockstepInvariantHolds, PTL
-----------------------------------------------------------------------------
(* NoMismatch follows from where the token is, one step before each return. *)

\* No step makes a Start or an End find a state that it does not expect.
LEMMA NextNoMismatch ==
  LockstepIInv /\ NoMismatch /\ [Next]_vars => NoMismatch'
<1> SUFFICES ASSUME LockstepIInv, NoMismatch, [Next]_vars PROVE NoMismatch'
  OBVIOUS
<1> USE DEF LockstepIInv, TypeOK, NoMismatch, Goto, Return
<1>1. ASSUME NEW t \in Threads, t \notin inside /\ StartOperation(t) PROVE NoMismatch'
  BY <1>1 DEF StartOperation
<1>2. ASSUME NEW t \in Threads, t \in inside /\ EndOperation(t) PROVE NoMismatch'
  BY <1>2 DEF EndOperation
<1>3. ASSUME NEW t \in Threads, InStart(t) PROVE NoMismatch'
  <2>1. CASE StartExpect(t)
    BY <2>1 DEF StartExpect, StateTells, Starting
  <2>2. CASE StartWait(t) \/ StartTimeout(t) \/ StartCheck(t) \/ StartStore(t)
    BY <2>2 DEF StartWait, StartTimeout, StartCheck, StartStore
  <2> QED BY <1>3, <2>1, <2>2 DEF InStart, StartStep
<1>4. ASSUME NEW t \in Threads, InEnd(t) PROVE NoMismatch'
  <2>1. CASE EndExpect(t)
    BY <2>1 DEF EndExpect, StateTells, Ending
  <2>2. CASE EndCheck(t) \/ EndStore(t) \/ EndPost(t)
    BY <2>2 DEF EndCheck, EndStore, EndPost
  <2> QED BY <1>4, <2>1, <2>2 DEF InEnd
<1>5. CASE UNCHANGED vars
  BY <1>5 DEF vars
<1> QED
  BY <1>1, <1>2, <1>3, <1>4, <1>5 DEF Next

\* No start and no end returns FailedPrecondition.
THEOREM Matched == Spec => []NoMismatch
<1>1. Init => NoMismatch
  BY DEF Init, NoMismatch
<1> QED
  BY <1>1, LockstepInvariantHolds, NextNoMismatch, PTL DEF Spec
-----------------------------------------------------------------------------
(* The operations of all threads together alternate. *)

\* A new lockstep is an alternation that has not begun.
LEMMA InitAlternation == Init => A!Init
BY DEF Init, A!Init

\* Every step begins a turn, ends one or is not visible.
LEMMA NextAlternation ==
  LockstepIInv /\ LockstepIInv' /\ [Next]_vars => [A!Begin \/ A!End]_(A!vars)
<1> SUFFICES ASSUME LockstepIInv, LockstepIInv', [Next]_vars PROVE [A!Begin \/ A!End]_(A!vars)
  OBVIOUS
<1> USE DEF LockstepIInv
<1>1. ASSUME NEW t \in Threads, StartStore(t) PROVE A!Begin
  <2>1. /\ inside = {} /\ inside' = {t} /\ Side[t] \in Sides
        /\ state_ = Finished[Other(Side[t])]
    BY <1>1, LockstepAssumption DEF StartStore, TypeOK, OneToken, StateTells, Places, Holds,
       Starting, Sides
  <2> QED
    BY <2>1 DEF A!Begin, Finished, Other, Sides
<1>2. ASSUME NEW t \in Threads, t \in inside, EndOperation(t) PROVE A!End
  <2>1. /\ inside = {t} /\ inside' = {} /\ Side[t] \in Sides
        /\ state_ = Running[Side[t]] /\ state_' = state_
    BY <1>2, LockstepAssumption DEF EndOperation, TypeOK, OneToken, StateTells, Holds, Sides
  <2> QED
    BY <2>1 DEF A!End, Running, Sides
<1>3. ASSUME NEW t \in Threads, EndStore(t) PROVE UNCHANGED A!vars
  <2>1. /\ inside = {} /\ inside' = {} /\ Side[t] \in Sides
        /\ state_ = Running[Side[t]] /\ state_' = Finished[Side[t]]
    BY <1>3, LockstepAssumption DEF EndStore, TypeOK, OneToken, StateTells, Places, Holds,
       Ending, Sides
  <2> QED
    BY <2>1 DEF A!vars, Running, Finished, Sides
<1>4. ASSUME UNCHANGED <<inside, state_>> PROVE UNCHANGED A!vars
  BY <1>4 DEF A!vars
<1>5. ASSUME NEW t \in Threads,
             \/ StartOperation(t)
             \/ StartWait(t) \/ StartTimeout(t) \/ StartCheck(t) \/ StartExpect(t)
             \/ EndCheck(t) \/ EndExpect(t) \/ EndPost(t)
      PROVE  UNCHANGED <<inside, state_>>
  BY <1>5 DEF StartOperation, StartWait, StartTimeout, StartCheck,
       StartExpect, EndCheck, EndExpect, EndPost
<1>6. CASE UNCHANGED vars
  BY <1>6, <1>4 DEF vars
<1> QED
  BY <1>1, <1>2, <1>3, <1>4, <1>5, <1>6 DEF Next, InStart, StartStep, InEnd

\* Lockstep implements Alternation: whatever the number of
\* threads, operations are performed one at a time, A, B, A, B, ...
THEOREM LockstepRefinement == Spec => ImplementsAlternation
BY LockstepInvariantHolds, InitAlternation, NextAlternation, PTL DEF Spec,
     ImplementsAlternation, A!Spec
-----------------------------------------------------------------------------
(*****************************************************************************)
(* RemoteTrigger for any number of client threads and requests, with         *)
(* timeouts, restarts of the server thread and a futex that is closed.       *)
(*                                                                           *)
(* At most one call is between the two futexes, and the request and the      *)
(* response on their way are its own: a request is numbered by its client,   *)
(* the server serves the last number, and a response that is posted or       *)
(* about to be posted answers it.  A call that gives up while its request    *)
(* is under way ("abandoned") ends the argument, and the property says so.   *)
(*****************************************************************************)

\* The server's thread has consumed a request that it has not answered yet.
Busy == {"check", "callback", "calling", "respond", "query_callback", "query_calling",
         "query_respond"}

\* A client that has posted its request and has not returned yet.
Awaiting(c) == cpc[c] \in {"async", "wait"}

\* The flag lets one call in at a time.
OneCall ==
  /\ \A c \in ClientThreads : cpc[c] # "idle" => request_started_
  /\ \A c, d \in ClientThreads : cpc[c] # "idle" /\ cpc[d] # "idle" => c = d
  /\ \A c \in ClientThreads :
       cpc[c] \in {"drain", "post", "async_post"} => requests < MaxRequests

\* Callbacks follow the requests; a waiting client's request is the last.
Numbered ==
  /\ served <= serving /\ serving <= requests
  /\ spc \in {"respond", "query_respond"} => served = serving
  /\ \A c \in ClientThreads : mine[c] <= requests /\ (Awaiting(c) => mine[c] = requests)

\* While nobody gives up, a request or a response is on its way only for a client that waits
\* for it, and one of them at a time.
OnItsWay ==
  /\ spc = "gone" => response_ = "kClosed"
  /\ ~abandoned /\ response_ # "kClosed" =>
       /\ \/ \E c \in ClientThreads : Awaiting(c)
          \/ request_ = "kReady" /\ response_ = "kReady" /\ spc \notin Busy
       /\ spc \in Busy => request_ = "kReady" /\ response_ = "kReady" /\ serving = requests
       /\ response_ = "kPosted" => request_ = "kReady" /\ served = requests /\ spc \notin Busy

TriggerIInv == TriggerTypeOK /\ OneCall /\ Numbered /\ OnItsWay /\ (~abandoned => AnswersMatch)
-----------------------------------------------------------------------------
\* Before the first call nothing is on its way.
LEMMA TriggerInitIInv == TriggerInit => TriggerIInv
<1> SUFFICES ASSUME TriggerInit PROVE TriggerIInv
  OBVIOUS
<1>1. 0 \in 0 .. MaxRequests
  BY RemoteTriggerAssumption
<1>2. TriggerTypeOK
  BY <1>1 DEF TriggerInit, TriggerTypeOK
<1>3. OneCall /\ Numbered /\ OnItsWay /\ AnswersMatch
  BY RemoteTriggerAssumption DEF TriggerInit, OneCall, Numbered, OnItsWay, AnswersMatch,
       Awaiting, Busy
<1> QED
  BY <1>2, <1>3 DEF TriggerIInv

\* Every step keeps the types.
LEMMA TriggerNextTypeOK == TriggerIInv /\ [TriggerNext]_triggerVars => TriggerTypeOK'
<1> SUFFICES ASSUME TriggerIInv, [TriggerNext]_triggerVars PROVE TriggerTypeOK'
  OBVIOUS
<1> USE RemoteTriggerAssumption DEF TriggerIInv, TriggerTypeOK, OneCall, Numbered, clientVars,
     serverVars
<1>1. ASSUME NEW t \in ClientThreads, Trigger(t) PROVE TriggerTypeOK'
  BY <1>1 DEF Trigger, Begin, ClientGoto
<1>2. ASSUME NEW t \in ClientThreads, TriggerAsync(t) PROVE TriggerTypeOK'
  BY <1>2 DEF TriggerAsync, Begin, ClientGoto
<1>3. ASSUME NEW t \in ClientThreads, Drain(t) PROVE TriggerTypeOK'
  BY <1>3 DEF Drain, ClientGoto
<1>4. ASSUME NEW t \in ClientThreads, PostRequest(t) PROVE TriggerTypeOK'
  BY <1>4 DEF PostRequest, ClientGoto
<1>5. ASSUME NEW t \in ClientThreads, AsyncWait(t) PROVE TriggerTypeOK'
  BY <1>5 DEF AsyncWait, ClientGoto
<1>6. ASSUME NEW t \in ClientThreads, WaitResponse(t) PROVE TriggerTypeOK'
  BY <1>6 DEF WaitResponse, ClientGoto
<1>7. ASSUME NEW t \in ClientThreads, WaitTimeout(t) PROVE TriggerTypeOK'
  BY <1>7 DEF WaitTimeout, ClientGoto
<1>8. ASSUME NEW t \in ClientThreads, Clear(t) PROVE TriggerTypeOK'
  BY <1>8 DEF Clear, ClientGoto
<1>9. ASSUME NEW t \in ClientThreads, AsyncDrop(t) PROVE TriggerTypeOK'
  BY <1>9 DEF AsyncDrop, ClientGoto
<1>10. CASE RunLoop
  BY <1>10 DEF RunLoop, Loop
<1>11. CASE TakeRequest
  BY <1>11 DEF TakeRequest
<1>12. CASE WaitRequestTimeout
  BY <1>12 DEF WaitRequestTimeout, Loop
<1>13. CASE CheckRunning
  BY <1>13 DEF CheckRunning, Loop
<1>14. CASE BeginCallback
  BY <1>14 DEF BeginCallback
<1>15. CASE EndCallback
  BY <1>15 DEF EndCallback
<1>16. CASE Respond
  BY <1>16 DEF Respond
<1>17. CASE Query
  BY <1>17 DEF Query, Loop
<1>18. CASE Start
  BY <1>18 DEF Start
<1>19. CASE RequestStop
  BY <1>19 DEF RequestStop
<1>20. CASE JoinAsyncThread
  BY <1>20 DEF JoinAsyncThread
<1>21. CASE Destroy
  BY <1>21 DEF Destroy
<1>22. CASE Close
  BY <1>22 DEF Close, Loop
<1>23. CASE UNCHANGED triggerVars
  BY <1>23 DEF triggerVars
<1> QED
  BY <1>1, <1>2, <1>3, <1>4, <1>5, <1>6, <1>7, <1>8, <1>9, <1>10, <1>11, <1>12, <1>13, <1>14,
       <1>15, <1>16, <1>17, <1>18, <1>19, <1>20, <1>21, <1>22, <1>23
     DEF TriggerNext, Client, ServerThread, Control, Quiet

\* The compare-exchange lets one call in, which clears the flag as it leaves.
LEMMA NextOneCall == TriggerIInv /\ [TriggerNext]_triggerVars => OneCall'
<1> SUFFICES ASSUME TriggerIInv, [TriggerNext]_triggerVars PROVE OneCall'
  OBVIOUS
<1> USE RemoteTriggerAssumption DEF TriggerIInv, TriggerTypeOK, OneCall, clientVars, serverVars
<1>1. ASSUME NEW t \in ClientThreads, Trigger(t) PROVE OneCall'
  BY <1>1 DEF Trigger, Begin, ClientGoto
<1>2. ASSUME NEW t \in ClientThreads, TriggerAsync(t) PROVE OneCall'
  BY <1>2 DEF TriggerAsync, Begin, ClientGoto
<1>3. ASSUME NEW t \in ClientThreads, PostRequest(t) PROVE OneCall'
  BY <1>3 DEF PostRequest, ClientGoto
<1>4. ASSUME NEW t \in ClientThreads,
             Drain(t) \/ AsyncWait(t) \/ WaitResponse(t) \/ WaitTimeout(t) \/ Clear(t)
                  \/ AsyncDrop(t)
      PROVE  OneCall'
  BY <1>4 DEF Drain, AsyncWait, WaitResponse, WaitTimeout, Clear, AsyncDrop, ClientGoto
<1>5. CASE RunLoop \/ TakeRequest \/ WaitRequestTimeout \/ CheckRunning \/ BeginCallback
           \/ EndCallback \/ Respond \/ Query \/ Start \/ RequestStop \/ JoinAsyncThread
           \/ Destroy \/ Close
  BY <1>5 DEF RunLoop, Loop, TakeRequest, WaitRequestTimeout, CheckRunning, BeginCallback,
       EndCallback, Respond, Query, Start, RequestStop, JoinAsyncThread, Destroy, Close
<1>6. CASE UNCHANGED triggerVars
  BY <1>6 DEF triggerVars
<1> QED
  BY <1>1, <1>2, <1>3, <1>4, <1>5, <1>6
     DEF TriggerNext, Client, ServerThread, Control, Quiet

\* A request is numbered as it is posted, and served after it was consumed.
LEMMA NextNumbered == TriggerIInv /\ [TriggerNext]_triggerVars => Numbered'
<1> SUFFICES ASSUME TriggerIInv, [TriggerNext]_triggerVars PROVE Numbered'
  OBVIOUS
<1> USE RemoteTriggerAssumption DEF TriggerIInv, TriggerTypeOK, OneCall, Numbered, Awaiting,
     clientVars,
     serverVars
<1>1. ASSUME NEW t \in ClientThreads, PostRequest(t) PROVE Numbered'
  BY <1>1 DEF PostRequest, ClientGoto
<1>2. CASE TakeRequest
  BY <1>2 DEF TakeRequest
<1>3. CASE EndCallback
  BY <1>3 DEF EndCallback
<1>4. CASE Respond
  BY <1>4 DEF Respond
<1>5. ASSUME NEW t \in ClientThreads,
             Trigger(t) \/ TriggerAsync(t) \/ Drain(t) \/ AsyncWait(t) \/ WaitResponse(t)
                  \/ WaitTimeout(t) \/ Clear(t) \/ AsyncDrop(t)
      PROVE  Numbered'
  BY <1>5 DEF Trigger, Begin, TriggerAsync, Drain, AsyncWait, WaitResponse, WaitTimeout, Clear,
       AsyncDrop, ClientGoto
<1>6. CASE RunLoop \/ WaitRequestTimeout \/ CheckRunning \/ BeginCallback \/ Query \/ Start
           \/ RequestStop \/ JoinAsyncThread \/ Destroy \/ Close
  BY <1>6 DEF RunLoop, Loop, WaitRequestTimeout, CheckRunning, BeginCallback, Query, Start,
       RequestStop, JoinAsyncThread, Destroy, Close
<1>7. CASE UNCHANGED triggerVars
  BY <1>7 DEF triggerVars
<1> QED
  BY <1>1, <1>2, <1>3, <1>4, <1>5, <1>6, <1>7
     DEF TriggerNext, Client, ServerThread, Control, Quiet

\* What is on its way is for the one client that waits.
LEMMA NextOnItsWay == TriggerIInv /\ [TriggerNext]_triggerVars => OnItsWay'
<1> SUFFICES ASSUME TriggerIInv, [TriggerNext]_triggerVars PROVE OnItsWay'
  OBVIOUS
<1> USE RemoteTriggerAssumption DEF TriggerIInv, TriggerTypeOK, OneCall, Numbered, OnItsWay,
     Awaiting, Busy,
     clientVars, serverVars
<1>1. ASSUME NEW t \in ClientThreads, Drain(t) PROVE OnItsWay'
  BY <1>1 DEF Drain, ClientGoto
<1>2. ASSUME NEW t \in ClientThreads, PostRequest(t) PROVE OnItsWay'
  BY <1>2 DEF PostRequest, ClientGoto
<1>3. ASSUME NEW t \in ClientThreads, AsyncWait(t) PROVE OnItsWay'
  BY <1>3 DEF AsyncWait, ClientGoto
<1>4. ASSUME NEW t \in ClientThreads, WaitResponse(t) PROVE OnItsWay'
  BY <1>4 DEF WaitResponse, ClientGoto
<1>5. ASSUME NEW t \in ClientThreads, Clear(t) PROVE OnItsWay'
  BY <1>5 DEF Clear, ClientGoto
<1>6. CASE TakeRequest
  BY <1>6 DEF TakeRequest
<1>7. CASE CheckRunning
  BY <1>7 DEF CheckRunning, Loop
<1>8. CASE BeginCallback
  BY <1>8 DEF BeginCallback
<1>9. CASE EndCallback
  BY <1>9 DEF EndCallback
<1>10. CASE Respond
  BY <1>10 DEF Respond
<1>11. CASE Close
  BY <1>11 DEF Close, Loop
<1>12. ASSUME NEW t \in ClientThreads,
             Trigger(t) \/ TriggerAsync(t) \/ WaitTimeout(t) \/ AsyncDrop(t)
      PROVE  OnItsWay'
  BY <1>12 DEF Trigger, Begin, TriggerAsync, WaitTimeout, AsyncDrop, ClientGoto
<1>13. CASE RunLoop \/ WaitRequestTimeout \/ Query \/ Start \/ RequestStop \/ JoinAsyncThread
            \/ Destroy
  BY <1>13 DEF RunLoop, Loop, WaitRequestTimeout, Query, Start, RequestStop, JoinAsyncThread,
       Destroy
<1>14. CASE UNCHANGED triggerVars
  BY <1>14 DEF triggerVars
<1> QED
  BY <1>1, <1>2, <1>3, <1>4, <1>5, <1>6, <1>7, <1>8, <1>9, <1>10, <1>11, <1>12, <1>13, <1>14
     DEF TriggerNext, Client, ServerThread, Control, Quiet

\* An answer that is taken is that of the request.
LEMMA NextAnswersMatch == TriggerIInv /\ [TriggerNext]_triggerVars => (~abandoned => AnswersMatch)'
<1> SUFFICES ASSUME TriggerIInv, [TriggerNext]_triggerVars PROVE (~abandoned => AnswersMatch)'
  OBVIOUS
<1> USE RemoteTriggerAssumption DEF TriggerIInv, TriggerTypeOK, OneCall, Numbered, OnItsWay,
     Awaiting,
     AnswersMatch, clientVars, serverVars
<1>1. ASSUME NEW t \in ClientThreads, PostRequest(t) PROVE (~abandoned => AnswersMatch)'
  BY <1>1 DEF PostRequest, ClientGoto
<1>2. ASSUME NEW t \in ClientThreads, WaitResponse(t) PROVE (~abandoned => AnswersMatch)'
  BY <1>2 DEF WaitResponse, ClientGoto
<1>3. CASE EndCallback
  BY <1>3 DEF EndCallback
<1>4. ASSUME NEW t \in ClientThreads,
             Trigger(t) \/ TriggerAsync(t) \/ Drain(t) \/ AsyncWait(t) \/ WaitTimeout(t)
                  \/ Clear(t) \/ AsyncDrop(t)
      PROVE  (~abandoned => AnswersMatch)'
  BY <1>4 DEF Trigger, Begin, TriggerAsync, Drain, AsyncWait, WaitTimeout, Clear, AsyncDrop,
       ClientGoto
<1>5. CASE RunLoop \/ TakeRequest \/ WaitRequestTimeout \/ CheckRunning \/ BeginCallback
           \/ Respond \/ Query \/ Start \/ RequestStop \/ JoinAsyncThread \/ Destroy \/ Close
  BY <1>5 DEF RunLoop, Loop, TakeRequest, WaitRequestTimeout, CheckRunning, BeginCallback,
       Respond, Query, Start, RequestStop, JoinAsyncThread, Destroy, Close
<1>6. CASE UNCHANGED triggerVars
  BY <1>6 DEF triggerVars
<1> QED
  BY <1>1, <1>2, <1>3, <1>4, <1>5, <1>6
     DEF TriggerNext, Client, ServerThread, Control, Quiet

\* Every step preserves the invariant.
LEMMA TriggerNextIInv == TriggerIInv /\ [TriggerNext]_triggerVars => TriggerIInv'
BY TriggerNextTypeOK, NextOneCall, NextNumbered, NextOnItsWay, NextAnswersMatch DEF TriggerIInv

\* The inductive invariant holds of every behaviour.
THEOREM TriggerInvariantHolds == TriggerSpec => []TriggerIInv
BY TriggerInitIInv, TriggerNextIInv, PTL DEF TriggerSpec

\* As long as no client gives a request up, a call that returns OK was answered after
\* the callback had finished for its own request, for any number of threads that share
\* the client and whatever stops and restarts the server.
THEOREM AnswersArePaired == TriggerSpec => []PatientAnswersMatch
<1>1. TriggerIInv => PatientAnswersMatch
  BY DEF TriggerIInv, PatientAnswersMatch
<1> QED
  BY <1>1, TriggerInvariantHolds, PTL
=============================================================================
