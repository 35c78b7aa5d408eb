--------------------------- MODULE RealtimeSession ---------------------------
(***************************************************************************)
(* One ICON session, from StartSession to its end: the client's              *)
(* RtclControllerSession and its bridge on one side, RtclSessionManager and   *)
(* RtclReactionManager in the real-time thread on the other, and between them *)
(* RealtimeSessionChannels (icon/control/).                                   *)
(*                                                                            *)
(* The client owns the actions and the RtclRealtimeSession objects; the       *)
(* real-time thread only borrows pointers to them.  Every change builds a new *)
(* object, passes it through install_session_data_bridge and frees the old    *)
(* one when the call is answered.  The real-time thread may end the session   *)
(* at any time: a fault, a safety request, an action that fails, another      *)
(* session that fails.                                                        *)
(*                                                                            *)
(* session_mutex_ and mutex_ are held for a whole operation, so that the      *)
(* client is one thread.  A step of either side ends where the other can see  *)
(* a difference.  kFinishDoneTimeout (60 s) does not pass.                    *)
(***************************************************************************)
EXTENDS Naturals

CONSTANTS
  Actions, Reactions,
  Slots,    \* Slots[a]: the part slots that action a uses
  From,     \* From[r]: the action reaction r is associated with, or "none"
  Target,   \* Target[r]: the action it starts, or "none"
  Once,     \* the reactions with fire_once
  Stops,    \* the reactions with stop_associated_action
  Requests  \* the pairs <<actions, reactions>> that clients ask to add or to remove

ASSUME SessionAssumption ==
  /\ "none" \notin Actions
  /\ DOMAIN Slots = Actions
  /\ From \in [Reactions -> Actions \cup {"none"}]
  /\ Target \in [Reactions -> Actions \cup {"none"}]
  /\ Once \subseteq Reactions /\ Stops \subseteq Reactions
  /\ Requests \subseteq (SUBSET Actions) \X (SUBSET Reactions)
  \* FromProto: only a reaction with a source and a target can stop its source.
  /\ \A r \in Stops : From[r] # "none" /\ Target[r] # "none"

VARIABLES
  \* The client.
  cpc,         \* where it is
  arena,       \* action_instance_arena_: the actions that exist
  reacts,      \* reaction_instances_by_id_
  known,       \* known_action_ids_ and known_reaction_ids_
  adding,      \* the ids the operation under way will add to known
  inst,        \* installed_realtime_session_: 1 or 2, or 0 for none
  obj,         \* the two RtclRealtimeSession objects
  wish,        \* actions_to_start and stop_active_actions of the object in the call
  \* RealtimeSessionChannels.
  chan,        \* it exists
  closed,      \* install_session_data_bridge: closed_,
  call,        \*   where the client's FunctionData is: nowhere, in queue_ or in handle_,
  answer,      \*   and what it has been answered
  requested,   \* finish_requested is posted
  done,        \* finish_done is posted
  status,      \* session_status_buffer
  \* The real-time thread.
  rpc,         \* where it is in its cycle
  rchan,       \* channels_ # nullptr: the session is active
  current,     \* current_session_
  active,      \* active_action_indices_
  \* History: the reactions that have triggered and may not trigger again yet.
  spent

data     == <<arena, reacts, known, adding, inst>>
channels == <<closed, requested, done, status>>
rt       == <<rpc, rchan, current, active>>
vars == <<cpc, data, obj, wish, chan, channels, call, answer, rt, spent>>

Session == [exists : BOOLEAN, actions : SUBSET Actions, reactions : SUBSET Reactions,
            fired : SUBSET Reactions]
freed   == [exists |-> FALSE, actions |-> {}, reactions |-> {}, fired |-> {}]
noWish  == [start |-> {}, stop |-> FALSE]

Init ==
  /\ cpc = "none" /\ arena = {} /\ reacts = {} /\ known = {} /\ adding = {} /\ inst = 0
  /\ obj = [i \in 1..2 |-> freed] /\ wish = noWish
  /\ chan = FALSE /\ closed = FALSE /\ call = "nowhere" /\ answer = "none"
  /\ requested = FALSE /\ done = FALSE /\ status = "ok"
  /\ rpc = "pre" /\ rchan = FALSE /\ current = 0 /\ active = {}
  /\ spent = {}

Overlap(a, b)  == Slots[a] \cap Slots[b] # {}
Exclusive(A)   == \A a, b \in A : a # b => ~Overlap(a, b)
ReactionsOf(A) == {r \in Reactions : From[r] \in A}
-----------------------------------------------------------------------------
(* StartSession: the call to start_realtime_session_bridge_.               *)

StartSession ==
  /\ cpc = "none" /\ cpc' = "startLocked"
  /\ chan' = TRUE /\ closed' = FALSE /\ requested' = FALSE /\ done' = FALSE /\ status' = "ok"
  /\ call' = "queue" /\ answer' = "none"
  /\ UNCHANGED <<data, obj, wish, rt, spent>>

\* BinaryFutexConditionVariable::Await unlocks the FunctionData; until then the
\* real-time thread cannot lock it.
Await ==
  /\ \/ cpc = "startLocked" /\ cpc' = "startAwait"
     \/ cpc = "locked" /\ cpc' = "await"
  /\ UNCHANGED <<data, obj, wish, chan, channels, call, answer, rt, spent>>

StartReturn ==
  /\ cpc = "startAwait" /\ answer # "none"
  /\ cpc' = IF answer = "ok" THEN "idle" ELSE "none"
  /\ chan' = (answer = "ok") /\ answer' = "none"
  /\ UNCHANGED <<data, obj, wish, channels, call, rt, spent>>
-----------------------------------------------------------------------------
(* The operations of RtclControllerSession.                                *)

\* The place of the next object: the one that is not installed.
Next1or2 == IF inst = 1 THEN 2 ELSE 1

\* MakeRtclRealtimeSession, then InstallSessionData.
Install(A, R, start, stop) ==
  /\ obj' = [obj EXCEPT ![Next1or2] =
               [exists |-> TRUE, actions |-> A, reactions |-> R, fired |-> {}]]
  /\ wish' = [start |-> start, stop |-> stop]
  /\ cpc' = "check"

\* The Cleanup: an operation fails and ends the session.
Fail == cpc' = "finish" /\ UNCHANGED <<obj, wish>>

\* VerifySessionData: a reaction that does not stop its action starts one that
\* can run beside it.
Verify(R) ==
  \A r \in R : From[r] # "none" /\ Target[r] # "none" /\ r \notin Stops
                 => Exclusive({From[r], Target[r]})

\* AddActionsAndReactions.  An action whose id is known or whose part belongs to another
\* session, and a reaction that is known or was left behind, are refused without ending the
\* session: what stands before them in the request stays.  Any other error ends it.
Add(A, R) ==
  LET Exist(Q) == \A r \in Q : {From[r], Target[r]} \subseteq arena' \cup {"none"}
  IN
  /\ \/ /\ \E B \in SUBSET (A \ (known \cup arena)) : B # A /\ arena' = arena \cup B
        /\ cpc' = "idle" /\ UNCHANGED <<reacts, adding, obj, wish>>
     \/ /\ A \cap (known \cup arena) = {} /\ R \cap (known \cup reacts) # {}
        /\ arena' = arena \cup A
        /\ \E Q \in SUBSET (R \ (known \cup reacts)) : Exist(Q) /\ reacts' = reacts \cup Q
        /\ cpc' = "idle" /\ UNCHANGED <<adding, obj, wish>>
     \/ A \cup R # {} /\ Fail /\ UNCHANGED <<arena, reacts, adding>>
     \/ /\ A \cap (known \cup arena) = {} /\ R \cap (known \cup reacts) = {}
        /\ arena' = arena \cup A /\ reacts' = reacts \cup R
        /\ Exist(R) /\ Verify(reacts')
        /\ Install(arena', reacts', {}, FALSE) /\ adding' = A \cup R
  /\ UNCHANGED <<known, inst>>

\* Mutant: the actions are deleted before the real-time thread has let go of them.
RemoveEarly(A, R) ==
  /\ A \subseteq arena /\ R \subseteq reacts
  /\ Install(arena \ A, {r \in reacts \ R : From[r] \notin A /\ Target[r] \notin A}, {}, FALSE)
  /\ arena' = arena \ A
  /\ adding' = {} /\ UNCHANGED <<reacts, known, inst>>

\* RemoveActionsAndReactions: a reaction goes with either of its actions.
Remove(A, R) ==
  /\ A \subseteq arena /\ R \subseteq reacts
  /\ Install(arena \ A, {r \in reacts \ R : From[r] \notin A /\ Target[r] \notin A}, {}, FALSE)
  /\ adding' = {} /\ UNCHANGED <<arena, reacts, known, inst>>

RemoveAll ==
  /\ Install({}, {}, {}, FALSE)
  /\ adding' = {} /\ UNCHANGED <<arena, reacts, known, inst>>

StartActions(A, stop) ==
  /\ A \subseteq arena
  /\ Install(arena, reacts, A, stop)
  /\ adding' = {} /\ UNCHANGED <<arena, reacts, known, inst>>

\* An operation asks for the status of the session first, unless it has nothing to start.
Operation ==
  /\ cpc = "idle"
  /\ \/ status = "ok" /\ \E q \in Requests : Add(q[1], q[2]) \/ Remove(q[1], q[2])
     \/ status = "ok" /\ RemoveAll
     \/ \E A \in SUBSET Actions, stop \in BOOLEAN :
          (status = "ok" \/ A = {}) /\ StartActions(A, stop)
     \/ status # "ok" /\ Fail /\ UNCHANGED data
  /\ UNCHANGED <<chan, channels, call, answer, rt, spent>>

\* RealtimeFunctionBridge::Call.
CallCheck ==
  /\ cpc = "check"
  /\ IF closed THEN cpc' = "finish" /\ obj' = [obj EXCEPT ![Next1or2] = freed] /\ wish' = noWish
               ELSE cpc' = "insert" /\ UNCHANGED <<obj, wish>>
  /\ UNCHANGED <<data, chan, channels, call, answer, rt, spent>>

CallInsert ==
  /\ cpc = "insert" /\ cpc' = "locked"
  /\ call' = "queue" /\ answer' = "none"
  /\ UNCHANGED <<data, obj, wish, chan, channels, rt, spent>>

\* The call returns.  On success the old object and the actions that the new one does
\* not have are freed.  On failure the new one is.
CallReturn ==
  /\ cpc = "await" /\ answer # "none"
  /\ answer' = "none"
  /\ IF answer = "ok"
       THEN /\ cpc' = "idle" /\ inst' = Next1or2
            /\ obj' = [obj EXCEPT ![3 - Next1or2] = freed]
            /\ arena' = obj[Next1or2].actions /\ reacts' = obj[Next1or2].reactions
            /\ known' = known \cup adding
       ELSE /\ cpc' = "finish" /\ obj' = [obj EXCEPT ![Next1or2] = freed]
            /\ UNCHANGED <<inst, arena, reacts, known>>
  /\ adding' = {} /\ wish' = noWish
  /\ UNCHANGED <<chan, channels, call, rt, spent>>

\* The session's destructor.
Close ==
  /\ cpc = "idle" /\ cpc' = "finish"
  /\ UNCHANGED <<data, obj, wish, chan, channels, call, answer, rt, spent>>

FinishSession ==
  /\ cpc = "finish" /\ cpc' = "finishWait"
  /\ requested' = TRUE
  /\ UNCHANGED <<data, obj, wish, chan, closed, done, status, call, answer, rt, spent>>

\* The channels, the installed object and, with the session, the actions are freed.
FinishDone ==
  /\ cpc = "finishWait" /\ done
  /\ cpc' = "none" /\ chan' = FALSE /\ obj' = [i \in 1..2 |-> freed]
  /\ arena' = {} /\ reacts' = {} /\ known' = {} /\ adding' = {} /\ inst' = 0 /\ spent' = {}
  /\ UNCHANGED <<wish, channels, call, answer, rt>>
-----------------------------------------------------------------------------
(* The real-time thread.  SimpleRealtimeFunctionBridge::ServiceCall takes    *)
(* the call out of the queue, and answers it if it can lock it; otherwise it *)
(* keeps the handle for the next time.                                       *)

Pending   == cpc \in {"locked", "await"} /\ call # "nowhere"
Unlocked  == cpc = "await"
Answer(s) == answer' = s /\ call' = "nowhere"
KeepCall  == call' = (IF Pending THEN "handle" ELSE call) /\ UNCHANGED answer

\* Before its cycle the session may be ended for reasons of others (PreUpdateSessions,
\* UpdateOperationalStatus, or Update when another session has failed).
PreUpdate ==
  /\ rpc = "pre" /\ rchan /\ rpc' = "error"
  /\ UNCHANGED <<cpc, data, obj, wish, chan, channels, call, answer, rchan, current, active, spent>>

\* HandleStartSession: the call may be left running while a safety action is
\* unfinished, refused, or answered with a new RtclSessionManager.
HandleStartSession ==
  /\ rpc = "pre" /\ cpc \in {"startLocked", "startAwait"} /\ call # "nowhere"
  /\ \/ call' = "handle" /\ UNCHANGED <<answer, rt>>
     \/ cpc = "startAwait" /\ Answer("error") /\ UNCHANGED rt
     \/ cpc = "startAwait" /\ Answer("ok") /\ rchan' = TRUE /\ UNCHANGED <<rpc, current, active>>
  /\ UNCHANGED <<cpc, data, obj, wish, chan, channels, spent>>

\* ExecuteCycle: FinishSessionIfRequested.  Without a session there is nothing to do.
ExecuteCycle ==
  /\ rpc = "pre"
  /\ rpc' = CASE ~rchan -> "pre" [] rchan /\ requested -> "close" [] OTHER -> "install"
  /\ UNCHANGED <<cpc, data, obj, wish, chan, channels, call, answer, rchan, current, active, spent>>

\* Mutant: only the action of the reaction is stopped.
StartedBeside(S, A) == S \cup A

\* StartActions: whatever overlaps with an action to start is stopped, and the
\* reactions of the started actions may fire again.
Started(S, A)   == {a \in S : \A b \in A : ~Overlap(a, b)} \cup A
Rearmed(F, A)   == F \ ReactionsOf(A)

\* Mutant: the new reactions have not fired.
InstallNewForgets ==
  LET new   == obj[Next1or2]
      still == IF wish.stop THEN {} ELSE active \cap new.actions
  IN  /\ Exclusive(wish.start)
      /\ current' = Next1or2
      /\ active' = Started(still, wish.start)
      /\ spent' = Rearmed(spent \cap new.reactions, wish.start)
      /\ UNCHANGED obj

\* HandleNewSessionDataImpl: what had fired in the old object has fired in the new one.
InstallNew ==
  LET new   == obj[Next1or2]
      kept  == IF current = 0 THEN {} ELSE obj[current].fired \cap new.reactions
      still == IF wish.stop THEN {} ELSE active \cap new.actions
  IN  /\ Exclusive(wish.start)
      /\ current' = Next1or2
      /\ active' = Started(still, wish.start)
      /\ obj' = [obj EXCEPT ![Next1or2].fired = Rearmed(kept, wish.start)]
      /\ spent' = Rearmed(spent \cap new.reactions, wish.start)

\* A safety request, overlapping slots, or an action whose OnEnter() fails or that does
\* not support the requested override.
HandleNewSessionData ==
  /\ rpc = "install"
  /\ \/ Pending /\ Unlocked /\ InstallNew /\ Answer("ok") /\ rpc' = "run"
     \/ /\ Pending /\ Unlocked /\ Answer("error") /\ rpc' = "error"
        /\ current' \in {current, Next1or2} /\ UNCHANGED <<active, obj, spent>>
     \/ /\ ~(Pending /\ Unlocked) /\ KeepCall
        /\ rpc' = IF current = 0 THEN "pre" ELSE "run"
        /\ UNCHANGED <<current, active, obj, spent>>
  /\ UNCHANGED <<cpc, data, wish, chan, channels, rchan>>

\* EvaluateReactionAndSendEvent, for the reactions whose condition holds: which of the ones
\* that are looked at may trigger again, and which trigger.
MayTriggerAgain(seen, holds)   == {r \in seen \ Once : r \notin holds}
ShouldFire(seen, holds, fired) == (seen \cap holds) \ fired

\* CheckReactionEffects: the reactions that trigger together agree on what becomes of their
\* actions, and what they start can run side by side.
CheckReactionEffects(switch) ==
  /\ \A q, r \in switch : From[q] = From[r] /\ Target[q] = Target[r] => (q \in Stops <=> r \in Stops)
  /\ Exclusive({Target[r] : r \in switch})

\* HandleReactions: the free-standing reactions and those of active actions.
HandleReactions(holds) ==
  LET s       == obj[current]
      seen    == {r \in s.reactions : From[r] = "none" \/ From[r] \in active}
      rearm   == MayTriggerAgain(seen, holds)
      fire    == ShouldFire(seen, holds, s.fired)
      switch  == {r \in fire : Target[r] # "none"}
      targets == {Target[r] : r \in switch}
      stopped == {From[r] : r \in switch \cap Stops}
  IN  /\ targets \subseteq s.actions
      /\ CheckReactionEffects(switch)
      /\ active' = Started(active \ stopped, targets)
      /\ obj' = [obj EXCEPT ![current].fired = Rearmed((s.fired \ rearm) \cup fire, targets)]
      /\ spent' = Rearmed((spent \ rearm) \cup fire, targets)

\* RunSense, HandleReactions and RunControl; any of them may fail, and a safety request
\* ends the session after RunSense.
Run ==
  /\ rpc = "run"
  /\ \/ rpc' = "pre" /\ \E holds \in SUBSET obj[current].reactions : HandleReactions(holds)
     \/ rpc' = "error" /\ UNCHANGED <<active, obj, spent>>
  /\ UNCHANGED <<cpc, data, wish, chan, channels, call, answer, rchan, current>>

\* SetErrorCleanupNotify.
SetError ==
  /\ rpc = "error" /\ rpc' = "errorService"
  /\ status' = "error"
  /\ UNCHANGED <<cpc, data, obj, wish, chan, closed, requested, done, call, answer, rchan, current, active, spent>>

\* The call is answered with the error, if it can be locked.
AnswerError ==
  /\ IF Pending /\ Unlocked THEN Answer("error") ELSE KeepCall
  /\ UNCHANGED <<cpc, data, obj, wish, chan, channels, rchan, current, active, spent>>

ErrorService == rpc = "errorService" /\ rpc' = "close" /\ AnswerError

\* CleanupAndNotify.
CloseBridge ==
  /\ rpc = "close" /\ rpc' = "closeService"
  /\ closed' = TRUE
  /\ UNCHANGED <<cpc, data, obj, wish, chan, requested, done, status, call, answer, rchan, current, active, spent>>

\* Mutant: the call is not looked at again.
CloseServiceSkipped ==
  /\ rpc = "closeService" /\ rpc' = "notify"
  /\ UNCHANGED <<cpc, data, obj, wish, chan, channels, call, answer, rchan, current, active, spent>>

CloseService == rpc = "closeService" /\ rpc' = "notify" /\ AnswerError

\* Mutant: finish_done is posted only for a client that has asked for the end.
NotifyIfRequested ==
  /\ rpc = "notify" /\ rpc' = "pre"
  /\ current' = 0 /\ active' = {} /\ rchan' = FALSE /\ done' = requested
  /\ UNCHANGED <<cpc, data, obj, wish, chan, closed, requested, status, call, answer, spent>>

Notify ==
  /\ rpc = "notify" /\ rpc' = "pre"
  /\ current' = 0 /\ active' = {} /\ rchan' = FALSE /\ done' = TRUE
  /\ UNCHANGED <<cpc, data, obj, wish, chan, closed, requested, status, call, answer, spent>>
-----------------------------------------------------------------------------
InCall == Await \/ StartReturn \/ CallCheck \/ CallInsert \/ CallReturn \/ FinishSession \/ FinishDone
Client == StartSession \/ Operation \/ Close \/ InCall
Realtime == \/ PreUpdate \/ HandleStartSession \/ ExecuteCycle \/ HandleNewSessionData \/ Run
            \/ SetError \/ ErrorService \/ CloseBridge \/ CloseService \/ Notify

Next == Client \/ Realtime

Spec == Init /\ [][Next]_vars

\* The real-time thread keeps cycling, and a client goes on with an operation that it
\* has begun.
FairSpec == Spec /\ WF_vars(Realtime) /\ WF_vars(InCall)
-----------------------------------------------------------------------------
TypeOK ==
  /\ cpc \in {"none", "startLocked", "startAwait", "idle", "check", "insert", "locked",
              "await", "finish", "finishWait"}
  /\ arena \subseteq Actions /\ reacts \subseteq Reactions
  /\ known \subseteq Actions \cup Reactions /\ adding \subseteq Actions \cup Reactions
  /\ inst \in 0..2 /\ current \in 0..2
  /\ obj \in [1..2 -> Session]
  /\ wish \in [start : SUBSET Actions, stop : BOOLEAN]
  /\ {chan, closed, requested, done, rchan} \subseteq BOOLEAN
  /\ call \in {"nowhere", "queue", "handle"} /\ answer \in {"none", "ok", "error"}
  /\ status \in {"ok", "error"}
  /\ rpc \in {"pre", "install", "run", "error", "errorService", "close",
              "closeService", "notify"}
  /\ active \subseteq Actions /\ spent \subseteq Reactions

\* "We can only delete Action instances once we know the realtime thread is no longer
\* using them" (realtime_session_channels.h:37-39): while the real-time thread uses the
\* session, its channels, its current object and the actions it runs have not been freed,
\* and an action that was removed is not one of them.
NothingDangles ==
  /\ TypeOK
  /\ rchan => chan
  /\ (rpc \in {"install", "run"} /\ current # 0) =>
       /\ obj[current].exists
       /\ obj[current].actions \subseteq arena
       /\ active \subseteq obj[current].actions

\* A fire_once reaction triggers once for every start of its action and others on every
\* rising edge (types.proto:328-334), although every operation of the client replaces the
\* reactions by new ones that have not fired.
FiredIsKept ==
  (rpc = "run" /\ current # 0) => obj[current].fired = spent \cap obj[current].reactions

\* No two actions that run at once use the same part slot, whatever clients and reactions
\* have started.
SlotsExclusive == Exclusive(active)

\* "If we have an active call from the non-realtime thread, we need to return before
\* nullifying the channels_ pointer" (rtcl_session_manager.cc:145-147, 548-550): a call that
\* waits for its answer while the bridge is not closed is answered.
CallAnswered == (cpc = "await" /\ ~closed) ~> (cpc # "await")

\* FinishSession comes to its end: the real-time thread gives the session up, whether
\* or not it has ended it itself before.
FinishReturns == (cpc = "finish") ~> (cpc = "none")
=============================================================================
