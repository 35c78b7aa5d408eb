----------------------- MODULE RealtimeSessionProofs -----------------------
(***************************************************************************)
(* A session for any actions, reactions, part slots and requests.  The client *)
(* frees what the real-time thread borrows, and neither takes a lock that the *)
(* other waits for; so the proof says for each place of the client which of   *)
(* the two objects the real-time thread may have, and that it has none once   *)
(* it is on its way to give the session up.                                   *)
(***************************************************************************)
EXTENDS RealtimeSession, TLAPS

Starting == {"startLocked", "startAwait"}
Calling  == {"check", "insert", "locked", "await"}
Ending   == {"error", "errorService", "close", "closeService", "notify"}

\* The real-time thread uses the session, and may go on doing so.
Using == rchan /\ rpc \notin Ending

\* Who knows of the session.
LifeInv ==
  /\ cpc = "none" <=> ~chan
  /\ cpc \in {"none", "startLocked"} => ~rchan
  /\ rchan \/ (cpc \in Starting /\ answer = "none") => ~done
  /\ cpc = "startAwait" /\ answer # "ok" => ~rchan
  /\ ~rchan => rpc = "pre" /\ current = 0 /\ active = {}
  /\ rpc = "run" => current # 0

\* A call is answered once, and one that fails ends the session.
CallInv ==
  /\ cpc \notin {"startAwait", "await"} => answer = "none"
  /\ cpc \in {"startAwait", "await"} /\ answer # "none" => call = "nowhere"
  /\ cpc = "await" /\ answer = "error" => ~Using

\* What the client is about to install: made of what exists, and not in use before the
\* real-time thread has answered.
NewInv ==
  cpc \in Calling =>
    /\ obj[Next1or2].exists
    /\ obj[Next1or2].actions \subseteq arena
    /\ wish.start \subseteq obj[Next1or2].actions

\* What the real-time thread uses.
UseInv ==
  Using =>
    /\ current # 0 => current = IF cpc = "await" /\ answer = "ok" THEN Next1or2 ELSE inst
    /\ cpc = "await" /\ answer = "ok" => current # 0
    /\ current = 0 => active = {} /\ spent = {}
    /\ current # 0 =>
         /\ obj[current].exists
         /\ obj[current].actions \subseteq arena
         /\ active \subseteq obj[current].actions
         /\ obj[current].fired = spent
         /\ spent \subseteq obj[current].reactions

\* A session starts with nothing.
FreshInv == cpc \in {"none"} \cup Starting => current = 0 /\ spent = {}

IInv == /\ TypeOK /\ LifeInv /\ CallInv /\ NewInv /\ UseInv /\ FreshInv
        /\ SlotsExclusive
-----------------------------------------------------------------------------
(* What the larger actions do. *)

\* Starting actions stops the ones that overlap with them.
LEMMA StartedExclusive ==
  ASSUME NEW S, NEW A, Exclusive(S), Exclusive(A)
  PROVE  Exclusive(Started(S, A))
BY DEF Exclusive, Started, Overlap

\* Stopping actions keeps the others apart.
LEMMA SubsetExclusive ==
  ASSUME NEW S, NEW A, Exclusive(S), A \subseteq S
  PROVE  Exclusive(A)
BY DEF Exclusive

\* A new object, built from what exists, is to be installed.
Builds ==
  /\ cpc' = "check"
  /\ \E A \in SUBSET arena', R \in SUBSET Reactions :
       /\ obj' = [obj EXCEPT ![Next1or2] =
                    [exists |-> TRUE, actions |-> A, reactions |-> R, fired |-> {}]]
       /\ wish' \in [start : SUBSET A, stop : BOOLEAN]

\* An operation frees nothing; it builds an object, or it has failed.
OperationEffect ==
  /\ UNCHANGED <<known, inst>>
  /\ arena \subseteq arena' /\ arena' \subseteq Actions /\ reacts' \subseteq Reactions
  /\ adding' \subseteq Actions \cup Reactions
  /\ \/ Builds
     \/ cpc' \in {"idle", "finish"} /\ UNCHANGED <<obj, wish>>

\* Every operation of a session has that effect.
LEMMA OperationDoes ==
  ASSUME IInv, Operation
  PROVE  /\ cpc = "idle" /\ UNCHANGED <<chan, channels, call, answer, rt, spent>>
         /\ OperationEffect
<1>1. cpc = "idle" /\ UNCHANGED <<chan, channels, call, answer, rt, spent>>
  BY DEF Operation
<1>2. arena \subseteq Actions /\ reacts \subseteq Reactions
  BY DEF IInv, TypeOK
<1>3. ASSUME NEW A \in SUBSET Actions, NEW R \in SUBSET Reactions, Add(A, R)
      PROVE  OperationEffect
  <2>1. CASE cpc' \in {"idle", "finish"}
    <3>1. UNCHANGED <<known, inst, adding, obj, wish>>
      BY <1>3, <2>1 DEF Add, Fail, Install
    <3>2. arena \subseteq arena' /\ arena' \subseteq Actions /\ reacts' \subseteq Reactions
      BY <1>2, <1>3 DEF Add
    <3> QED BY <2>1, <3>1, <3>2 DEF OperationEffect, IInv, TypeOK
  <2>2. CASE cpc' \notin {"idle", "finish"}
    <3>1. /\ arena' = arena \cup A /\ reacts' = reacts \cup R
          /\ Install(arena', reacts', {}, FALSE) /\ adding' = A \cup R
          /\ UNCHANGED <<known, inst>>
      BY <1>3, <2>2 DEF Add, Fail
    <3>2. reacts' \subseteq Reactions
      BY <1>2, <3>1
    <3>3. Builds
      BY <3>1, <3>2 DEF Install, Builds
    <3> QED BY <1>2, <3>1, <3>3 DEF OperationEffect
  <2> QED BY <2>1, <2>2
<1>4. ASSUME NEW A \in SUBSET Actions, NEW R \in SUBSET Reactions, Remove(A, R)
      PROVE  OperationEffect
  <2> DEFINE B == arena \ A
             Q == {r \in reacts \ R : From[r] \notin A /\ Target[r] \notin A}
  <2>1. /\ UNCHANGED <<arena, reacts, known, inst>> /\ adding' = {}
        /\ Install(B, Q, {}, FALSE)
    BY <1>4 DEF Remove
  <2>2. B \subseteq arena' /\ Q \subseteq Reactions
    BY <1>2, <2>1
  <2> HIDE DEF B, Q
  <2>3. Builds
    BY <2>1, <2>2 DEF Install, Builds
  <2> QED BY <1>2, <2>1, <2>3 DEF OperationEffect
<1>5. ASSUME RemoveAll PROVE OperationEffect
  <2>1. UNCHANGED <<arena, reacts, known, inst>> /\ adding' = {} /\ Install({}, {}, {}, FALSE)
    BY <1>5 DEF RemoveAll
  <2>2. /\ cpc' = "check" /\ wish' \in [start : SUBSET {}, stop : BOOLEAN]
        /\ obj' = [obj EXCEPT ![Next1or2] =
                     [exists |-> TRUE, actions |-> {}, reactions |-> {}, fired |-> {}]]
    BY <2>1 DEF Install
  <2>3. Builds
    BY <2>2, Zenon DEF Builds
  <2> QED BY <1>2, <2>1, <2>3 DEF OperationEffect
<1>6. ASSUME NEW A \in SUBSET Actions, NEW stop \in BOOLEAN, StartActions(A, stop)
      PROVE  OperationEffect
  <2>1. UNCHANGED <<arena, reacts, known, inst>> /\ adding' = {} /\ Builds
    BY <1>2, <1>6 DEF StartActions, Install, Builds
  <2> QED BY <1>2, <2>1 DEF OperationEffect
<1>7. ASSUME Fail, UNCHANGED data PROVE OperationEffect
  BY <1>7 DEF Fail, data, OperationEffect, IInv, TypeOK
<1>8. OperationEffect
  <2>1. \A q \in Requests : q[1] \in SUBSET Actions /\ q[2] \in SUBSET Reactions
    BY SessionAssumption
  <2> QED BY <1>3, <1>4, <1>5, <1>6, <1>7, <2>1 DEF Operation
<1> QED
  BY <1>1, <1>8

\* An installed object takes over what has fired.
LEMMA InstallDoes ==
  ASSUME IInv, rpc = "install", Pending, Unlocked, InstallNew
  PROVE  /\ current' = Next1or2 /\ current' \in 1..2
         /\ active' \subseteq obj[current'].actions /\ Exclusive(active')
         /\ spent' \subseteq obj[current'].reactions
         /\ obj' = [obj EXCEPT ![current'].fired = spent']
<1> USE DEF IInv
<1> DEFINE new   == obj[Next1or2]
           kept  == IF current = 0 THEN {} ELSE obj[current].fired \cap new.reactions
           still == IF wish.stop THEN {} ELSE active \cap new.actions
<1>1. Next1or2 \in 1..2 /\ new \in Session
  BY DEF TypeOK, Next1or2
<1>2. Using /\ cpc = "await"
  BY DEF LifeInv, Using, Ending, Unlocked
<1>3. kept = spent \cap new.reactions
  BY <1>2 DEF UseInv
<1>4. wish.start \subseteq new.actions
  BY <1>2 DEF NewInv, Calling
<1>5. /\ Exclusive(wish.start) /\ current' = Next1or2
      /\ active' = Started(still, wish.start)
      /\ obj' = [obj EXCEPT ![Next1or2].fired = Rearmed(kept, wish.start)]
      /\ spent' = Rearmed(spent \cap new.reactions, wish.start)
  BY DEF InstallNew
<1>6. still \subseteq active /\ still \subseteq new.actions
  OBVIOUS
<1> HIDE DEF still, kept, new
<1>7. Exclusive(active')
  BY <1>5, <1>6, SubsetExclusive, StartedExclusive DEF SlotsExclusive
<1>8. active' \subseteq new.actions
  BY <1>4, <1>5, <1>6 DEF Started
<1>9. spent' \subseteq new.reactions /\ obj' = [obj EXCEPT ![Next1or2].fired = spent']
  BY <1>3, <1>5 DEF Rearmed
<1> QED
  BY <1>1, <1>5, <1>7, <1>8, <1>9 DEF new

\* Reactions fire as the history says.
LEMMA ReactionsDo ==
  ASSUME IInv, rpc = "run", NEW holds \in SUBSET obj[current].reactions, HandleReactions(holds)
  PROVE  /\ current \in 1..2
         /\ active' \subseteq obj[current].actions /\ Exclusive(active')
         /\ spent' \subseteq obj[current].reactions
         /\ obj' = [obj EXCEPT ![current].fired = spent']
<1> USE DEF IInv
<1> DEFINE s       == obj[current]
           seen    == {r \in s.reactions : From[r] = "none" \/ From[r] \in active}
           rearm   == MayTriggerAgain(seen, holds)
           fire    == ShouldFire(seen, holds, s.fired)
           switch  == {r \in fire : Target[r] # "none"}
           targets == {Target[r] : r \in switch}
           stopped == {From[r] : r \in switch \cap Stops}
<1>1. current \in 1..2 /\ s \in Session
  BY DEF TypeOK, LifeInv
<1>2. s.fired = spent /\ spent \subseteq s.reactions /\ active \subseteq s.actions
  BY DEF LifeInv, UseInv, Using, Ending
<1>3. fire \subseteq s.reactions
  BY DEF ShouldFire
<1>4. /\ targets \subseteq s.actions /\ CheckReactionEffects(switch)
      /\ active' = Started(active \ stopped, targets)
      /\ obj' = [obj EXCEPT ![current].fired = Rearmed((s.fired \ rearm) \cup fire, targets)]
      /\ spent' = Rearmed((spent \ rearm) \cup fire, targets)
  BY DEF HandleReactions
<1>5. Exclusive(targets)
  BY <1>4 DEF CheckReactionEffects
<1> HIDE DEF seen, rearm, fire, switch, targets, stopped, s
<1>6. Exclusive(active')
  BY <1>4, <1>5, SubsetExclusive, StartedExclusive DEF SlotsExclusive
<1>7. active' \subseteq s.actions
  BY <1>2, <1>4 DEF Started
<1>8. spent' \subseteq s.reactions /\ obj' = [obj EXCEPT ![current].fired = spent']
  BY <1>2, <1>3, <1>4 DEF Rearmed
<1> QED
  BY <1>1, <1>6, <1>7, <1>8 DEF s

-----------------------------------------------------------------------------
(* The parts of the invariant, one by one. *)

\* The value of a freed object has the type of an object.
LEMMA FreedIsSession == freed \in Session
BY DEF freed, Session

\* Every step keeps the types.
LEMMA NextType == ASSUME IInv, [Next]_vars PROVE TypeOK'
<1> USE DEF IInv, TypeOK, data, channels, rt
<1>1. CASE Operation
  <2>1. /\ UNCHANGED <<chan, channels, call, answer, rt, spent>> /\ OperationEffect
    BY <1>1, OperationDoes
  <2>2. CASE Builds
    <3>1. Next1or2 \in 1..2
      BY DEF Next1or2
    <3>2. obj' \in [1..2 -> Session] /\ wish' \in [start : SUBSET Actions, stop : BOOLEAN]
      BY <2>1, <2>2, <3>1 DEF Builds, OperationEffect, Session
    <3> QED BY <2>1, <2>2, <3>2 DEF Builds, OperationEffect
  <2>3. CASE ~Builds
    BY <2>1, <2>3 DEF OperationEffect
  <2> QED BY <2>2, <2>3
<1>2. CASE CallCheck \/ CallReturn \/ FinishDone
  <2>1. Next1or2 \in 1..2 /\ 3 - Next1or2 \in 1..2
    BY DEF Next1or2
  <2>2. obj' \in [1..2 -> Session]
    BY <1>2, <2>1, FreedIsSession DEF CallCheck, CallReturn, FinishDone
  <2>3. wish' \in [start : SUBSET Actions, stop : BOOLEAN]
    <3>1. noWish \in [start : SUBSET Actions, stop : BOOLEAN]
      BY DEF noWish
    <3> QED BY <1>2, <3>1 DEF CallCheck, CallReturn, FinishDone
  <2>4. CASE CallCheck  BY <2>2, <2>3, <2>4 DEF CallCheck
  <2>5. CASE CallReturn BY <2>1, <2>2, <2>3, <2>5 DEF CallReturn, Session
  <2>6. CASE FinishDone
    <3>1. {chan, closed, requested, done, rchan}' \subseteq BOOLEAN
      BY <2>6, Zenon DEF FinishDone
    <3> QED BY <2>2, <2>3, <2>6, <3>1 DEF FinishDone
  <2> QED BY <1>2, <2>4, <2>5, <2>6
<1>3. CASE StartSession \/ Await \/ StartReturn \/ CallInsert \/ Close \/ FinishSession
  BY <1>3 DEF StartSession, Await, StartReturn, CallInsert, Close, FinishSession
<1>4. CASE HandleNewSessionData
  <2>1. CASE Pending /\ Unlocked /\ InstallNew /\ Answer("ok") /\ rpc' = "run"
    <3>1. /\ current' \in 1..2 /\ active' \subseteq Actions /\ spent' \subseteq Reactions
          /\ obj' \in [1..2 -> Session]
      BY <1>4, <2>1, InstallDoes DEF HandleNewSessionData, Session
    <3> QED BY <1>4, <2>1, <3>1 DEF HandleNewSessionData, Answer
  <2>2. CASE ~(Pending /\ Unlocked /\ InstallNew /\ Answer("ok") /\ rpc' = "run")
    BY <1>4, <2>2 DEF HandleNewSessionData, Answer, KeepCall, Next1or2
  <2> QED BY <2>1, <2>2
<1>5. CASE Run
  <2>1. ASSUME NEW holds \in SUBSET obj[current].reactions, rpc = "run", HandleReactions(holds)
        PROVE  active' \subseteq Actions /\ spent' \subseteq Reactions /\ obj' \in [1..2 -> Session]
    BY <2>1, ReactionsDo DEF Session
  <2>2. active' \subseteq Actions /\ spent' \subseteq Reactions /\ obj' \in [1..2 -> Session]
    BY <1>5, <2>1 DEF Run
  <2> QED BY <1>5, <2>2 DEF Run
<1>6. CASE PreUpdate \/ HandleStartSession \/ ExecuteCycle \/ SetError
  BY <1>6 DEF PreUpdate, HandleStartSession, ExecuteCycle, SetError, Answer
<1>7. CASE ErrorService \/ CloseService
  BY <1>7 DEF ErrorService, CloseService, AnswerError, Answer, KeepCall
<1>8. CASE CloseBridge BY <1>8 DEF CloseBridge
<1>9. CASE Notify
  <2>1. {chan, closed, requested, done, rchan}' \subseteq BOOLEAN
    BY <1>9, Zenon DEF Notify
  <2> QED BY <1>9, <2>1 DEF Notify
<1>10. CASE UNCHANGED vars BY <1>10 DEF vars
<1> QED
  BY <1>1, <1>2, <1>3, <1>4, <1>5, <1>6, <1>7, <1>8, <1>9, <1>10
     DEF Next, Client, InCall, Realtime

\* Both sides agree on whether there is a session.
LEMMA NextLife == ASSUME IInv, [Next]_vars PROVE LifeInv'
<1> USE DEF IInv, LifeInv, Starting, data, channels, rt
<1>1. CASE StartSession \/ Await \/ FinishSession \/ FinishDone
  BY <1>1 DEF StartSession, Await, FinishSession, FinishDone, CallInv, FreshInv
<1>2. CASE StartReturn
  BY <1>2 DEF StartReturn, CallInv, TypeOK
<1>3. CASE Operation
  BY <1>3, OperationDoes DEF OperationEffect, Builds
<1>4. CASE CallCheck \/ CallInsert \/ Close
  BY <1>4 DEF CallCheck, CallInsert, Close
<1>5. CASE CallReturn
  BY <1>5 DEF CallReturn
<1>6. CASE PreUpdate \/ HandleStartSession \/ ExecuteCycle
  BY <1>6 DEF PreUpdate, HandleStartSession, ExecuteCycle, Answer, CallInv, TypeOK
<1>7. CASE HandleNewSessionData
  <2>1. rpc = "install" /\ rchan /\ UNCHANGED <<cpc, chan, done, rchan>>
    BY <1>7 DEF HandleNewSessionData
  <2>2. rpc' = "run" => current' # 0
    BY <1>7, InstallDoes DEF HandleNewSessionData
  <2>3. UNCHANGED answer \/ cpc = "await"
    BY <1>7 DEF HandleNewSessionData, Unlocked, KeepCall
  <2> QED BY <2>1, <2>2, <2>3
<1>8. CASE Run \/ SetError \/ CloseBridge \/ Notify
  BY <1>8 DEF Run, SetError, CloseBridge, Notify
<1>9. CASE ErrorService \/ CloseService
  BY <1>9 DEF ErrorService, CloseService, AnswerError, Pending, Unlocked, Answer, KeepCall
<1>10. CASE UNCHANGED vars
  BY <1>10 DEF vars
<1> QED
  BY <1>1, <1>2, <1>3, <1>4, <1>5, <1>6, <1>7, <1>8, <1>9, <1>10
     DEF Next, Client, InCall, Realtime

\* A call is answered once, and one that fails ends the session.
LEMMA NextCall == ASSUME IInv, [Next]_vars PROVE CallInv'
<1> USE DEF IInv, CallInv, Using, Ending, data, channels, rt
<1>1. CASE StartSession \/ Await \/ StartReturn
  BY <1>1 DEF StartSession, Await, StartReturn
<1>2. CASE Operation
  BY <1>2, OperationDoes DEF OperationEffect, Builds
<1>3. CASE CallCheck \/ CallInsert \/ CallReturn \/ Close
  BY <1>3 DEF CallCheck, CallInsert, CallReturn, Close
<1>4. CASE FinishSession \/ FinishDone
  BY <1>4 DEF FinishSession, FinishDone
<1>5. CASE PreUpdate \/ HandleStartSession \/ ExecuteCycle
  BY <1>5 DEF PreUpdate, HandleStartSession, ExecuteCycle, Answer, LifeInv
<1>6. CASE HandleNewSessionData
  BY <1>6 DEF HandleNewSessionData, InstallNew, Pending, Unlocked, Answer, KeepCall
<1>7. CASE Run \/ SetError \/ CloseBridge \/ Notify
  BY <1>7 DEF Run, SetError, CloseBridge, Notify
<1>8. CASE ErrorService \/ CloseService
  BY <1>8 DEF ErrorService, CloseService, AnswerError, Pending, Unlocked, Answer, KeepCall
<1>9. CASE UNCHANGED vars
  BY <1>9 DEF vars
<1> QED
  BY <1>1, <1>2, <1>3, <1>4, <1>5, <1>6, <1>7, <1>8, <1>9 DEF Next, Client, InCall, Realtime

\* A session starts with no object and no fired reaction.
LEMMA NextFresh == ASSUME IInv, [Next]_vars PROVE FreshInv'
<1> USE DEF IInv, FreshInv, Starting, data, channels, rt
<1>1. CASE StartSession \/ Await \/ StartReturn \/ FinishSession \/ FinishDone
  BY <1>1 DEF StartSession, Await, StartReturn, FinishSession, FinishDone, LifeInv, TypeOK
<1>2. CASE Operation
  BY <1>2, OperationDoes DEF OperationEffect, Builds
<1>3. CASE CallCheck \/ CallInsert \/ CallReturn \/ Close
  BY <1>3 DEF CallCheck, CallInsert, CallReturn, Close
<1>4. CASE PreUpdate \/ HandleStartSession \/ ExecuteCycle
  BY <1>4 DEF PreUpdate, HandleStartSession, ExecuteCycle
<1>5. CASE HandleNewSessionData
  BY <1>5 DEF HandleNewSessionData, Unlocked, LifeInv
<1>6. CASE Run
  BY <1>6 DEF Run, LifeInv
<1>7. CASE SetError \/ CloseBridge \/ Notify \/ ErrorService \/ CloseService
  BY <1>7 DEF SetError, CloseBridge, Notify, ErrorService, CloseService, AnswerError
<1>8. CASE UNCHANGED vars
  BY <1>8 DEF vars
<1> QED
  BY <1>1, <1>2, <1>3, <1>4, <1>5, <1>6, <1>7, <1>8 DEF Next, Client, InCall, Realtime

\* No step starts an action on slots that another one uses.
LEMMA NextSlots == ASSUME IInv, [Next]_vars PROVE SlotsExclusive'
<1> USE DEF IInv, SlotsExclusive
<1>1. ASSUME active' = active \/ active' = {} PROVE SlotsExclusive'
  BY <1>1 DEF Exclusive
<1>2. CASE HandleNewSessionData
  BY <1>1, <1>2, InstallDoes DEF HandleNewSessionData
<1>3. CASE Run
  BY <1>1, <1>3, ReactionsDo DEF Run
<1>4. CASE Operation
  BY <1>1, <1>4, OperationDoes DEF rt
<1>5. CASE StartSession \/ Await \/ StartReturn \/ CallCheck \/ CallInsert \/ CallReturn \/ Close
           \/ FinishSession \/ FinishDone
  BY <1>1, <1>5 DEF StartSession, Await, StartReturn, CallCheck, CallInsert, CallReturn, Close,
     FinishSession, FinishDone, rt
<1>6. CASE PreUpdate \/ HandleStartSession \/ ExecuteCycle \/ SetError \/ ErrorService
           \/ CloseBridge \/ CloseService \/ Notify
  BY <1>1, <1>6 DEF PreUpdate, HandleStartSession, ExecuteCycle, SetError, ErrorService,
     CloseBridge, CloseService, Notify, AnswerError, rt
<1>7. CASE UNCHANGED vars
  BY <1>1, <1>7 DEF vars, rt
<1> QED
  BY <1>2, <1>3, <1>4, <1>5, <1>6, <1>7 DEF Next, Client, InCall, Realtime

\* What is to be installed is made of what exists.
LEMMA NextNew == ASSUME IInv, [Next]_vars PROVE NewInv'
<1> USE DEF IInv, TypeOK, Session, NewInv, Calling, Next1or2, data, channels, rt
<1>1. CASE Operation
  <2>1. CASE Builds
    BY <1>1, <2>1, OperationDoes DEF OperationEffect, Builds
  <2>2. CASE ~Builds
    BY <1>1, <2>2, OperationDoes DEF OperationEffect
  <2> QED BY <2>1, <2>2
<1>2. CASE StartSession \/ Await \/ StartReturn \/ FinishSession \/ FinishDone \/ Close
  BY <1>2 DEF StartSession, Await, StartReturn, FinishSession, FinishDone, Close
<1>3. CASE CallCheck \/ CallInsert \/ CallReturn
  BY <1>3 DEF CallCheck, CallInsert, CallReturn
<1>4. CASE PreUpdate \/ HandleStartSession \/ ExecuteCycle \/ SetError \/ CloseBridge \/ Notify
  BY <1>4 DEF PreUpdate, HandleStartSession, ExecuteCycle, SetError, CloseBridge, Notify
<1>5. CASE ErrorService \/ CloseService
  BY <1>5 DEF ErrorService, CloseService, AnswerError
<1>6. ASSUME UNCHANGED <<cpc, arena, inst, wish>>, NEW c \in 1..2, NEW F,
             obj' = [obj EXCEPT ![c].fired = F]
      PROVE  NewInv'
  BY <1>6
<1>7. ASSUME UNCHANGED <<cpc, arena, inst, wish, obj>> PROVE NewInv'
  BY <1>7
<1>8. CASE HandleNewSessionData
  BY <1>6, <1>7, <1>8, InstallDoes DEF HandleNewSessionData
<1>9. CASE Run
  BY <1>6, <1>7, <1>9, ReactionsDo DEF Run
<1>10. CASE UNCHANGED vars
  BY <1>10 DEF vars
<1> QED
  BY <1>1, <1>2, <1>3, <1>4, <1>5, <1>8, <1>9, <1>10 DEF Next, Client, InCall, Realtime

\* What the real-time thread uses exists.
LEMMA NextUse == ASSUME IInv, [Next]_vars PROVE UseInv'
<1> USE DEF IInv, UseInv, Using, Ending, data, channels, rt
<1>1. CASE Operation
  <2>1. /\ cpc = "idle" /\ cpc' # "await" /\ UNCHANGED <<answer, rt, spent, inst>>
        /\ arena \subseteq arena'
    BY <1>1, OperationDoes DEF OperationEffect, Builds
  <2>2. Using /\ current # 0 => UNCHANGED obj[current]
    <3>1. Using /\ current # 0 => current \in 1..2 /\ current # Next1or2
      BY <2>1 DEF TypeOK, Next1or2
    <3> QED BY <1>1, <3>1, OperationDoes DEF OperationEffect, Builds, TypeOK
  <2> QED BY <2>1, <2>2
<1>2. CASE StartSession \/ Await \/ StartReturn \/ FinishSession \/ FinishDone \/ Close
  BY <1>2 DEF StartSession, Await, StartReturn, FinishSession, FinishDone, Close, LifeInv, CallInv
<1>3. CASE CallCheck \/ CallInsert
  <2>1. /\ cpc # "await" /\ cpc' # "await" /\ UNCHANGED <<rt, spent, inst, arena>>
        /\ UNCHANGED obj \/ obj' = [obj EXCEPT ![Next1or2] = freed]
    BY <1>3 DEF CallCheck, CallInsert
  <2>2. Using /\ current # 0 => current \in 1..2 /\ current # Next1or2
    BY <2>1 DEF TypeOK, Next1or2
  <2>3. Using /\ current # 0 => UNCHANGED obj[current]
    BY <2>1, <2>2 DEF TypeOK
  <2> QED BY <2>1, <2>3
<1>4. CASE CallReturn
  BY <1>4 DEF CallReturn, TypeOK, Session, CallInv, Next1or2
<1>5. CASE PreUpdate \/ ExecuteCycle \/ SetError \/ CloseBridge \/ Notify
  BY <1>5 DEF PreUpdate, ExecuteCycle, SetError, CloseBridge, Notify, Next1or2
<1>6. CASE HandleStartSession
  BY <1>6 DEF HandleStartSession, LifeInv, FreshInv, Starting
<1>7. CASE ErrorService \/ CloseService
  BY <1>7 DEF ErrorService, CloseService, AnswerError
<1>8. CASE HandleNewSessionData
  <2>1. CASE Pending /\ Unlocked /\ InstallNew /\ Answer("ok") /\ rpc' = "run"
    <3>1. /\ cpc = "await" /\ answer' = "ok" /\ UNCHANGED <<cpc, inst, arena>>
      BY <1>8, <2>1 DEF HandleNewSessionData, Unlocked, Answer
    <3>2. /\ obj[Next1or2].exists /\ obj[Next1or2].actions \subseteq arena
      BY <3>1 DEF NewInv, Calling
    <3>3. /\ current' = Next1or2 /\ current' \in 1..2
          /\ active' \subseteq obj[current'].actions
          /\ spent' \subseteq obj[current'].reactions
          /\ obj' = [obj EXCEPT ![current'].fired = spent']
      BY <1>8, <2>1, InstallDoes DEF HandleNewSessionData
    <3>4. /\ obj'[current'].exists = obj[current'].exists
          /\ obj'[current'].actions = obj[current'].actions
          /\ obj'[current'].reactions = obj[current'].reactions
          /\ obj'[current'].fired = spent'
      BY <3>3 DEF TypeOK, Session
    <3>5. Next1or2' = Next1or2
      BY <3>1 DEF Next1or2
    <3> QED BY <3>1, <3>2, <3>3, <3>4, <3>5
  <2>2. CASE ~(Pending /\ Unlocked /\ InstallNew /\ Answer("ok") /\ rpc' = "run")
    BY <1>8, <2>2 DEF HandleNewSessionData, KeepCall, Next1or2
  <2> QED BY <2>1, <2>2
<1>9. CASE Run
  <2>1. ASSUME NEW holds \in SUBSET obj[current].reactions, rpc = "run", HandleReactions(holds)
        PROVE  UseInv'
    <3>1. /\ current \in 1..2 /\ active' \subseteq obj[current].actions
          /\ spent' \subseteq obj[current].reactions
          /\ obj' = [obj EXCEPT ![current].fired = spent']
      BY <2>1, ReactionsDo
    <3>2. Using /\ UNCHANGED <<cpc, answer, inst, arena, rchan, current>>
      BY <1>9 DEF Run, LifeInv
    <3> QED BY <3>1, <3>2 DEF TypeOK, Session, Next1or2
  <2>2. CASE rpc' = "error"
    BY <2>2
  <2> QED BY <1>9, <2>1, <2>2 DEF Run
<1>10. CASE UNCHANGED vars
  BY <1>10 DEF vars, Next1or2
<1> QED
  BY <1>1, <1>2, <1>3, <1>4, <1>5, <1>6, <1>7, <1>8, <1>9, <1>10
     DEF Next, Client, InCall, Realtime

-----------------------------------------------------------------------------
LEMMA InitIInv == Init => IInv
<1> SUFFICES ASSUME Init PROVE IInv
  OBVIOUS
<1> USE DEF Init
<1>1. TypeOK
  <2>1. {chan, closed, requested, done, rchan} \subseteq BOOLEAN
    BY Zenon
  <2>2. wish \in [start : SUBSET Actions, stop : BOOLEAN] /\ obj \in [1..2 -> Session]
    BY FreedIsSession DEF noWish
  <2> QED BY <2>1, <2>2 DEF TypeOK
<1>2. LifeInv /\ CallInv /\ NewInv /\ UseInv /\ FreshInv
  BY DEF LifeInv, CallInv, NewInv, UseInv, FreshInv, Using, Calling, Starting
<1>3. SlotsExclusive
  BY DEF SlotsExclusive, Exclusive
<1> QED BY <1>1, <1>2, <1>3 DEF IInv

\* The real-time thread and the client keep to the invariant in every step.
THEOREM InvariantHolds == Spec => []IInv
<1>1. IInv /\ [Next]_vars => IInv'
  BY NextType, NextLife, NextCall, NextNew, NextUse, NextFresh, NextSlots DEF IInv
<1> QED BY <1>1, InitIInv, PTL DEF Spec

\* The client frees an object or an action only when the real-time thread no longer uses it
\* (realtime_session_channels.h:37-39), whatever the session is asked for.
THEOREM NothingFreedInUse == Spec => []NothingDangles
<1>1. IInv => NothingDangles
  BY DEF IInv, NothingDangles, LifeInv, UseInv, Using, Ending
<1> QED BY <1>1, InvariantHolds, PTL

\* An installed object has taken over which reactions have triggered, so that none triggers
\* twice where it may trigger once (types.proto:328-334).
THEOREM ReactionsRemember == Spec => []FiredIsKept
<1>1. IInv => FiredIsKept
  BY DEF IInv, FiredIsKept, LifeInv, UseInv, Using, Ending
<1> QED BY <1>1, InvariantHolds, PTL

\* No part slot is driven by two actions at once, for any slots, actions and reactions.
THEOREM OneActionPerSlot == Spec => []SlotsExclusive
<1>1. IInv => SlotsExclusive
  BY DEF IInv
<1> QED BY <1>1, InvariantHolds, PTL
=============================================================================
