------------------------- MODULE HardwareModuleRuntime -------------------------
(***************************************************************************)
(* The callbacks of a hardware module's process: the CallbackHandler of    *)
(* icon/hal/hardware_module_runtime.cc with the transition guard of        *)
(* icon/hal/hardware_module_util.cc, driven by ICON as main_loop.cc and    *)
(* hardware_module_manager.cc drive it (one module, one ICON server).      *)
(*                                                                         *)
(* Five threads of the module's process run callbacks:                     *)
(*   "sc"    StateChange: Prepare, EnableMotion, DisableMotion, ClearFaults *)
(*   "act"   Activate           "dea"    Deactivate                        *)
(*   "read"  ReadStatus         "apply"  ApplyCommand                      *)
(* The state code is written by "read" and "apply" while ICON's loop runs  *)
(* and by the other threads while it does not.  What keeps them apart is   *)
(* that ICON waits for each callback: one that outlives ICON's deadline    *)
(* goes on beside the next.  A StateChange action asks "read" for a        *)
(* transition through request_queue_ and waits for the answer.             *)
(*                                                                         *)
(* Abstractions.  A fault message is only compared with the previous one,  *)
(* so "same message" is a choice.  Clock::Now() is only compared with the  *)
(* time of the last state update: a request carries `fresh', which an      *)
(* update falsifies.  A promise and its future are the request's `owned'   *)
(* (someone waits for it) and the counter future_hospice_.                 *)
(***************************************************************************)
EXTENDS Naturals, Sequences, FiniteSets

CONSTANTS QueueSize,    \* capacity of request_queue_ (10 in the code)
          MaxOverruns,  \* how often, since the process started, a deadline may pass
                        \* although ICON's loop runs (see `overruns')
          HookFails,    \* BOOLEAN: the module's Disabled() hook may fail
          Restarts      \* BOOLEAN: the module's process may be stopped and restarted

ASSUME QueueSizeAssumption == QueueSize \in Nat \ {0}
ASSUME MaxOverrunsAssumption == MaxOverruns \in Nat
ASSUME SwitchesAssumption == {HookFails, Restarts} \subseteq BOOLEAN

Threads == {"sc", "act", "dea", "read", "apply"}

Actions == {"EnableMotion", "DisableMotion", "ClearFaults"}

Faults == {"kFaulted", "kFatallyFaulted", "kInitFailed"}

\* The transitions HardwareModuleTransitionGuard calls kAllowed, by origin.
AllowedFrom ==
  [kPreparing       |-> {"kPrepared", "kFaulted"},
   kPrepared        |-> {"kActivating", "kDeactivating"},
   kDeactivating    |-> {"kDeactivated"},
   kDeactivated     |-> {"kPreparing", "kInitFailed"},
   kActivating      |-> {"kActivated"},
   kActivated       |-> {"kMotionEnabling", "kDeactivating", "kFaulted"},
   kMotionEnabling  |-> {"kDeactivating", "kMotionEnabled", "kFaulted"},
   kMotionEnabled   |-> {"kMotionDisabling", "kFaulted", "kDeactivating"},
   kMotionDisabling |-> {"kFaulted", "kActivated", "kDeactivating"},
   kFaulted         |-> {"kClearingFaults", "kDeactivating", "kFaulted"},
   kClearingFaults  |-> {"kDeactivating", "kFaulted", "kActivated"},
   kInitFailed      |-> {},
   kFatallyFaulted  |-> {}]

StateCode == DOMAIN AllowedFrom

\* kNoOp and kProhibited differ only in what is logged.
TransitionGuard(from, to) == to = "kFatallyFaulted" \/ to \in AllowedFrom[from]

\* The state an action passes through, and the one it ends in.
Transient == [EnableMotion |-> "kMotionEnabling", DisableMotion |-> "kMotionDisabling",
              ClearFaults |-> "kClearingFaults"]
Final == [EnableMotion |-> "kMotionEnabled", DisableMotion |-> "kActivated",
          ClearFaults |-> "kActivated"]

NoRequest == [from |-> "kDeactivated", to |-> "kDeactivated", fresh |-> FALSE, owned |-> FALSE]

Request == [from : StateCode, to : StateCode, fresh : BOOLEAN, owned : BOOLEAN]

VARIABLES
  code,      \* hardware_module_state_code_, also in shared memory
  prev,      \* previous_cycle_hardware_module_state_code_
  queue,     \* request_queue_
  reject,    \* reject_new_requests_
  hospice,   \* Len(future_hospice_)
  pc,        \* per thread, the next step of its callback ("idle": none)
  want,      \* per thread, the argument of SetStateDirectly
  ret,       \* per thread, where SetStateDirectly returns to
  changed,   \* per thread, the value SetStateDirectly returned
  item,      \* the request the "read" thread has taken from the queue
  op,        \* the trigger of the StateChange thread ("none": none pending)
  mine,      \* the request the StateChange thread makes and waits for
  answer,    \* the response to it
  icon,      \* where ICON's main loop is
  cached,    \* HardwareModuleManager's cached_state
  stopped,   \* what Stop() has done so far: "requests" for Shutdown(), and the
             \* threads whose server was told RequestStop()
  hooked,    \* (ghost) Enabled() was called, Disabled() not yet since
  faulty,    \* (ghost) a fault was reported and not cleared since
  reopened,  \* (ghost) requests are accepted again after Shutdown()
  overruns   \* (ghost) cycles of ICON that outlasted the 10 s of a request, and calls
             \* of ReadStatus or ApplyCommand that outlasted ICON's deadline for them

runtime == <<prev, reject, hospice>>
threads == <<pc, want, ret, changed>>
stop == <<stopped, reopened>>
client == <<icon, cached, stop, overruns>>
action == <<op, mine, answer>>
vars == <<code, queue, runtime, threads, item, action, client, hooked, faulty>>

\* ICON's real-time loop is running (or has not noticed yet that it is not).
LoopRuns == icon \in {"running", "reading", "updating", "writing", "applying"}

Init ==
  /\ code = "kDeactivated" /\ prev = "kDeactivated"
  /\ queue = <<>> /\ reject = FALSE /\ hospice = 0
  /\ pc = [t \in Threads |-> "idle"]
  /\ want = [t \in Threads |-> "kDeactivated"]
  /\ ret = [t \in Threads |-> "idle"]
  /\ changed = [t \in Threads |-> FALSE]
  /\ item = NoRequest
  /\ op = "none" /\ mine = NoRequest /\ answer = "none"
  /\ icon = "off" /\ cached = "kDeactivated" /\ stopped = {} /\ reopened = FALSE
  /\ hooked = FALSE /\ faulty = FALSE /\ overruns = 0

\* What SetStateDirectly returned is only looked at in the next step.
Goto(t, label) ==
  /\ pc' = [pc EXCEPT ![t] = label]
  /\ changed' = [changed EXCEPT ![t] = FALSE]
  /\ UNCHANGED <<want, ret>>

Move(t, from, to) == pc[t] = from /\ Goto(t, to)

\* Thread t calls SetStateDirectly(to) and continues at label.
SetState(t, to, label) ==
  /\ pc' = [pc EXCEPT ![t] = "check"]
  /\ want' = [want EXCEPT ![t] = to]
  /\ ret' = [ret EXCEPT ![t] = label]
  /\ changed' = [changed EXCEPT ![t] = FALSE]

-----------------------------------------------------------------------------
(* SetStateDirectly, called by every thread.                               *)

Return(t, result) ==
  /\ pc' = [pc EXCEPT ![t] = ret[t]]
  /\ changed' = [changed EXCEPT ![t] = result]
  /\ want' = [want EXCEPT ![t] = "kDeactivated"]
  /\ ret' = [ret EXCEPT ![t] = "idle"]

\* The guard, and the early return when state and message stay the same.
SetRefused(t) ==
  /\ pc[t] = "check"
  /\ ~TransitionGuard(code, want[t]) \/ code = want[t]
  /\ Return(t, FALSE)
  /\ UNCHANGED <<code, queue, runtime, item, action, client, hooked, faulty>>

\* The same state with another message: written, but not a change.
SetMessage(t) ==
  /\ pc[t] = "check"
  /\ TransitionGuard(code, want[t])
  /\ code = want[t]
  /\ pc' = [pc EXCEPT ![t] = "write"]
  /\ changed' = [changed EXCEPT ![t] = FALSE]
  /\ UNCHANGED <<code, queue, runtime, want, ret, item, action, client, hooked, faulty>>

\* CheckAndTriggerDisabledTransitionHook: Disabled() on leaving kMotionEnabled;
\* when it fails, a target that is not a fault becomes kFaulted.
SetChecked(t) ==
  /\ pc[t] = "check"
  /\ TransitionGuard(code, want[t])
  /\ code # want[t]
  /\ pc' = [pc EXCEPT ![t] = "write"]
  /\ changed' = [changed EXCEPT ![t] = TRUE]
  /\ hooked' = (hooked /\ code # "kMotionEnabled")
  /\ \/ UNCHANGED <<want, faulty>>
     \/ /\ HookFails
        /\ code = "kMotionEnabled"
        /\ want' = [want EXCEPT ![t] = IF @ \in Faults THEN @ ELSE "kFaulted"]
        /\ faulty' = TRUE
  /\ UNCHANGED <<code, queue, runtime, ret, item, action, client>>

Outdated(r) == [r EXCEPT !.fresh = FALSE]

\* The code, the update time and the copies for ICON and the non-rt threads.
SetWrite(t) ==
  /\ pc[t] = "write"
  /\ code' = want[t]
  /\ queue' = [i \in 1..Len(queue) |-> Outdated(queue[i])]
  /\ mine' = Outdated(mine)
  /\ Return(t, changed[t])
  /\ UNCHANGED <<runtime, item, op, answer, client, hooked, faulty>>

SetStateDirectly(t) == SetRefused(t) \/ SetMessage(t) \/ SetChecked(t) \/ SetWrite(t)

\* CancelPendingRequests: every request is answered with kCancelled.
CancelPendingRequests ==
  /\ queue' = <<>>
  /\ answer' = IF \E i \in 1..Len(queue) : queue[i].owned THEN "cancelled" ELSE answer

-----------------------------------------------------------------------------
(* OnDeactivate (threads "dea" and, from OnPrepare, "sc").                 *)

OnDeactivate(t) ==
  /\ pc[t] = "deactivate"
  /\ SetState(t, "kDeactivating", "deactivating")
  /\ UNCHANGED <<code, queue, runtime, item, action, client, hooked, faulty>>

\* Where thread t goes after OnDeactivate.
AfterDeactivate(t) == IF t = "sc" THEN "prepare" ELSE "done"

DeactivateReject(t) ==
  /\ pc[t] = "deactivating"
  /\ \/ ~changed[t] /\ Goto(t, AfterDeactivate(t)) /\ UNCHANGED reject
     \/ changed[t] /\ Goto(t, "deactivateCancel") /\ reject' = TRUE
  /\ UNCHANGED <<code, queue, prev, hospice, item, action, client, hooked, faulty>>

DeactivateCancel(t) ==
  /\ pc[t] = "deactivateCancel"
  /\ CancelPendingRequests
  /\ Goto(t, "deactivateCall")
  /\ UNCHANGED <<code, runtime, item, op, mine, client, hooked, faulty>>

\* instance_->Deactivate(); all its failures are fatal.
DeactivateCall(t) ==
  /\ pc[t] = "deactivateCall"
  /\ \E to \in {"kDeactivated", "kFatallyFaulted"} : SetState(t, to, AfterDeactivate(t))
  /\ UNCHANGED <<code, queue, runtime, item, action, client, hooked, faulty>>

Deactivating(t) ==
  OnDeactivate(t) \/ DeactivateReject(t) \/ DeactivateCancel(t) \/ DeactivateCall(t)

-----------------------------------------------------------------------------
(* OnPrepare and OnActivate.                                               *)

\* The states from which OnPrepare deactivates first.
DeactivateFirst == {"kActivated", "kMotionEnabled", "kMotionEnabling", "kMotionDisabling",
                    "kFaulted", "kClearingFaults", "kPreparing"}

\* The StateChange thread polls its servers with Query(), which RequestStop()
\* does not keep from serving: its callbacks start until the thread is joined.
OnPrepare ==
  /\ icon = "preparing"
  /\ pc["sc"] = "idle" /\ op = "none"
  /\ op' = "Prepare"
  /\ Goto("sc", IF code \in DeactivateFirst THEN "deactivate" ELSE "prepare")
  /\ UNCHANGED <<code, queue, runtime, item, mine, answer, client, hooked, faulty>>

PrepareSet ==
  /\ pc["sc"] = "prepare"
  /\ SetState("sc", "kPreparing", "preparing")
  /\ UNCHANGED <<code, queue, runtime, item, action, client, hooked, faulty>>

\* The early return, or the cancellation of requests.
PrepareCancel ==
  /\ pc["sc"] = "preparing"
  /\ \/ ~changed["sc"] /\ Goto("sc", "done") /\ UNCHANGED <<queue, answer>>
     \/ changed["sc"] /\ Goto("sc", "prepareCall") /\ CancelPendingRequests
  /\ UNCHANGED <<code, runtime, item, op, mine, client, hooked, faulty>>

\* instance_->Prepare() makes the module ready, or fails for good.
PrepareCall ==
  /\ pc["sc"] = "prepareCall"
  /\ \/ SetState("sc", "kPrepared", "done") /\ faulty' = FALSE
     \/ SetState("sc", "kFatallyFaulted", "done") /\ UNCHANGED faulty
  /\ UNCHANGED <<code, queue, runtime, item, action, client, hooked>>

OnActivate ==
  /\ pc["act"] = "activate"
  /\ SetState("act", "kActivating", "activating")
  /\ UNCHANGED <<code, queue, runtime, item, action, client, hooked, faulty>>

ActivateCancel ==
  /\ pc["act"] = "activating"
  /\ \/ ~changed["act"] /\ Goto("act", "done") /\ UNCHANGED <<queue, answer>>
     \/ changed["act"] /\ Goto("act", "activateCall") /\ CancelPendingRequests
  /\ UNCHANGED <<code, runtime, item, op, mine, client, hooked, faulty>>

ActivateCall ==
  /\ pc["act"] = "activateCall"
  /\ \E to \in {"kActivated", "kFatallyFaulted"} : SetState("act", to, "activated")
  /\ UNCHANGED <<code, queue, runtime, item, action, client, hooked, faulty>>

\* New requests are accepted from here on, also after a failure and also when
\* Shutdown() has been called meanwhile.
ActivateAccept ==
  /\ pc["act"] = "activated"
  /\ reject' = FALSE
  /\ reopened' = ("requests" \in stopped)
  /\ Goto("act", "done")
  /\ UNCHANGED <<code, queue, prev, hospice, item, action, icon, cached, stopped, overruns,
                 hooked, faulty>>

Lifecycle ==
  \/ OnPrepare \/ PrepareSet \/ PrepareCancel \/ PrepareCall
  \/ OnActivate \/ ActivateCancel \/ ActivateCall \/ ActivateAccept
  \/ \E t \in {"sc", "dea"} : Deactivating(t)

-----------------------------------------------------------------------------
(* OnEnableMotion, OnDisableMotion and OnClearFaults with SetStateAndWait. *)
(* action_lock_ is held throughout; one thread runs all three.             *)

\* Requests whose future nobody waits for any more, but whose promise lives.
Abandoned ==
  Cardinality({i \in 1..Len(queue) : ~queue[i].owned})
    + (IF item # NoRequest /\ ~item.owned THEN 1 ELSE 0)

\* SetStateAndWait(from, to), continuing at label if it returns true and at
\* "done" otherwise: the guard on the arguments.
SetStateAndWait(from, to, label) ==
  /\ mine' = [from |-> from, to |-> to, fresh |-> FALSE, owned |-> FALSE]
  /\ pc' = [pc EXCEPT !["sc"] = IF TransitionGuard(from, to) THEN "clean" ELSE "done"]
  /\ ret' = [ret EXCEPT !["sc"] = label]
  /\ UNCHANGED <<want, changed>>

StartAction ==
  /\ pc["sc"] = "idle" /\ op \in Actions
  /\ SetStateAndWait(code, Transient[op], "call")
  /\ UNCHANGED <<code, queue, runtime, item, op, answer, client, hooked, faulty>>

\* Futures in the hospice whose promise is gone are destroyed.
CleanHospice ==
  /\ pc["sc"] = "clean"
  /\ hospice' = Abandoned
  /\ Goto("sc", "lock")
  /\ UNCHANGED <<code, queue, prev, reject, item, action, client, hooked, faulty>>

\* Under non_rt_buffer_lock_, held until Insert: is the module going down?
CheckReject ==
  /\ pc["sc"] = "lock"
  /\ Goto("sc", IF reject THEN "done" ELSE "stamp")
  /\ UNCHANGED <<code, queue, runtime, item, action, client, hooked, faulty>>

\* AsyncRequestData with Clock::Now() and the promise of a new future.
Stamp ==
  /\ pc["sc"] = "stamp"
  /\ mine' = [mine EXCEPT !.fresh = TRUE, !.owned = TRUE]
  /\ Goto("sc", "insert")
  /\ UNCHANGED <<code, queue, runtime, item, op, answer, client, hooked, faulty>>

Insert ==
  /\ pc["sc"] = "insert"
  /\ \/ Len(queue) < QueueSize /\ queue' = Append(queue, mine) /\ Goto("sc", "wait")
     \/ Len(queue) = QueueSize /\ Goto("sc", "done") /\ UNCHANGED queue
  /\ mine' = NoRequest
  /\ UNCHANGED <<code, runtime, item, op, answer, client, hooked, faulty>>

\* WaitForAndGet returned the response.  While the "read" thread still holds the
\* promise, the future cannot be destroyed and moves to the hospice.
TakeAnswer ==
  /\ pc["sc"] = "wait" /\ answer # "none"
  /\ hospice' = IF item.owned THEN hospice + 1 ELSE hospice
  /\ item' = [item EXCEPT !.owned = FALSE]
  /\ answer' = "none"
  /\ Goto("sc", IF answer = "ok" THEN ret["sc"] ELSE "done")
  /\ UNCHANGED <<code, queue, prev, reject, op, mine, client, hooked, faulty>>

\* A deadline that passes while ICON's loop runs is an overrun.
OverrunIf(loopRuns) ==
  /\ loopRuns => overruns < MaxOverruns
  /\ overruns' = IF loopRuns THEN overruns + 1 ELSE overruns

\* kStatechangeRequestTimeout passed: the future moves to the hospice.
WaitTimeout ==
  /\ pc["sc"] = "wait" /\ answer = "none"
  /\ OverrunIf(LoopRuns)
  /\ queue' = [i \in 1..Len(queue) |-> [queue[i] EXCEPT !.owned = FALSE]]
  /\ item' = [item EXCEPT !.owned = FALSE]
  /\ hospice' = hospice + 1
  /\ Goto("sc", "done")
  /\ UNCHANGED <<code, prev, reject, action, icon, cached, stop, hooked, faulty>>

\* Mutant: a failed call leaves the state as it is.
CallInstanceForgets ==
  /\ pc["sc"] = "call"
  /\ \/ SetStateAndWait(Transient[op], Final[op], "done") /\ UNCHANGED faulty
     \/ Goto("sc", "done") /\ faulty' = TRUE /\ UNCHANGED mine
  /\ UNCHANGED <<code, queue, runtime, item, op, answer, client, hooked>>

\* instance_->EnableMotion(), DisableMotion() or ClearFaults(), and the
\* request for the state that its result asks for.
CallInstance ==
  /\ pc["sc"] = "call"
  /\ \/ /\ SetStateAndWait(Transient[op], Final[op], "done")
        /\ faulty' = (faulty /\ op # "ClearFaults")
     \/ \E to \in {"kFaulted", "kFatallyFaulted"} :
          SetStateAndWait(Transient[op], to, "done") /\ faulty' = TRUE
  /\ UNCHANGED <<code, queue, runtime, item, op, answer, client, hooked>>

ActionDone ==
  /\ op \in Actions
  /\ op' = "none" /\ mine' = NoRequest
  /\ pc["sc"] = "done"
  /\ pc' = [pc EXCEPT !["sc"] = "idle"]
  /\ ret' = [ret EXCEPT !["sc"] = "idle"]
  /\ UNCHANGED <<code, queue, runtime, want, changed, item, answer, client, hooked, faulty>>

StateChange ==
  \/ StartAction \/ CleanHospice \/ CheckReject \/ Stamp \/ Insert
  \/ TakeAnswer \/ WaitTimeout \/ CallInstance \/ ActionDone

-----------------------------------------------------------------------------
(* OnReadStatus on the "read" and OnApplyCommand on the "apply" thread.    *)

Respond(r, result) == answer' = IF r.owned THEN result ELSE answer

\* Mutant: the state of the previous cycle is kept when there is a request.
ProcessNextPendingRequestStalePrev ==
  /\ pc["read"] = "process"
  /\ \/ /\ queue = <<>> /\ prev' = code
        /\ Goto("read", "hook") /\ UNCHANGED <<queue, item, answer>>
     \/ /\ queue # <<>>
        /\ item' = Head(queue) /\ queue' = Tail(queue)
        /\ IF Head(queue).fresh /\ Head(queue).from = code
             THEN SetState("read", Head(queue).to, "respond") /\ UNCHANGED answer
             ELSE Goto("read", "release") /\ Respond(Head(queue), "cancelled")
        /\ UNCHANGED prev
  /\ UNCHANGED <<code, reject, hospice, op, mine, client, hooked, faulty>>

\* ProcessNextPendingRequest: take one request and decide whether it still
\* applies.
ProcessNextPendingRequest ==
  /\ pc["read"] = "process"
  /\ prev' = code
  /\ \/ queue = <<>> /\ Goto("read", "hook") /\ UNCHANGED <<queue, item, answer>>
     \/ /\ queue # <<>>
        /\ item' = Head(queue) /\ queue' = Tail(queue)
        /\ IF Head(queue).fresh /\ Head(queue).from = code
             THEN SetState("read", Head(queue).to, "respond") /\ UNCHANGED answer
             ELSE Goto("read", "release") /\ Respond(Head(queue), "cancelled")
  /\ UNCHANGED <<code, reject, hospice, op, mine, client, hooked, faulty>>

\* The answer says whether SetStateDirectly reported a change.
RespondToRequest ==
  /\ pc["read"] = "respond"
  /\ Respond(item, IF changed["read"] THEN "ok" ELSE "failed")
  /\ Goto("read", "release")
  /\ UNCHANGED <<code, queue, runtime, item, op, mine, client, hooked, faulty>>

\* The request goes out of scope and with it the promise.
ReleaseRequest ==
  /\ pc["read"] = "release"
  /\ item' = NoRequest
  /\ Goto("read", "hook")
  /\ UNCHANGED <<code, queue, runtime, action, client, hooked, faulty>>

\* Enabled() in the cycle that completed kMotionEnabling -> kMotionEnabled.
EnabledTransitionHook ==
  /\ pc["read"] = "hook"
  /\ \/ /\ ~(prev = "kMotionEnabling" /\ code = "kMotionEnabled")
        /\ Goto("read", "status")
        /\ UNCHANGED <<hooked, faulty>>
     \/ /\ prev = "kMotionEnabling" /\ code = "kMotionEnabled"
        /\ hooked' = TRUE
        /\ \/ Goto("read", "status") /\ UNCHANGED faulty
           \/ SetState("read", "kFaulted", "status") /\ faulty' = TRUE
  /\ UNCHANGED <<code, queue, runtime, item, action, client>>

\* An error of the module: kAborted is fatal.
Fault(t, label) ==
  /\ \E to \in {"kFaulted", "kFatallyFaulted"} : SetState(t, to, label)
  /\ faulty' = TRUE

\* Mutant: errors matter only while motion is enabled.
ReadStatusWhenEnabled ==
  /\ pc["read"] = "status"
  /\ \/ Goto("read", "alloc") /\ UNCHANGED faulty
     \/ code = "kMotionEnabled" /\ Fault("read", "cancelThenAlloc")
     \/ code # "kMotionEnabled" /\ Goto("read", "alloc") /\ faulty' = TRUE
  /\ UNCHANGED <<code, queue, runtime, item, action, client, hooked>>

\* instance_->ReadStatus(), whose errors are ignored in kClearingFaults.
ReadStatus ==
  /\ pc["read"] = "status"
  /\ \/ Goto("read", "alloc") /\ UNCHANGED faulty
     \/ code # "kClearingFaults" /\ Fault("read", "cancelThenAlloc")
  /\ UNCHANGED <<code, queue, runtime, item, action, client, hooked>>

OnApplyCommand ==
  /\ pc["apply"] = "apply"
  /\ CASE code = "kMotionDisabling" -> Goto("apply", "done")
       [] code = "kMotionEnabled" -> Goto("apply", "applyCall")
       [] OTHER -> SetState("apply", "kFaulted", "cancelThenDone")
  /\ faulty' = (faulty \/ code \notin {"kMotionDisabling", "kMotionEnabled"})
  /\ UNCHANGED <<code, queue, runtime, item, action, client, hooked>>

\* instance_->ApplyCommand()
ApplyCommand ==
  /\ pc["apply"] = "applyCall"
  /\ \/ Goto("apply", "alloc") /\ UNCHANGED faulty
     \/ Fault("apply", "cancelThenAlloc")
  /\ UNCHANGED <<code, queue, runtime, item, action, client, hooked>>

\* A new error cancels what was asked for before it.
CancelAfterFault(t, from, to) ==
  /\ pc[t] = from
  /\ IF changed[t] THEN CancelPendingRequests ELSE UNCHANGED <<queue, answer>>
  /\ Goto(t, to)
  /\ UNCHANGED <<code, runtime, item, op, mine, client, hooked, faulty>>

\* Heap allocation in the real-time call is a fault, in every state.
CheckAllocations(t) ==
  /\ pc[t] = "alloc"
  /\ \/ Goto(t, "done") /\ UNCHANGED faulty
     \/ SetState(t, "kFaulted", "cancelThenDone") /\ faulty' = TRUE
  /\ UNCHANGED <<code, queue, runtime, item, action, client, hooked>>

\* The end of both callbacks.
Finish(t) == \/ CancelAfterFault(t, "cancelThenAlloc", "alloc")
             \/ CancelAfterFault(t, "cancelThenDone", "done")
             \/ CheckAllocations(t)

ReadCallback ==
  \/ ProcessNextPendingRequest \/ RespondToRequest \/ ReleaseRequest
  \/ EnabledTransitionHook \/ ReadStatus \/ Finish("read")

ApplyCallback == OnApplyCommand \/ ApplyCommand \/ Finish("apply")

-----------------------------------------------------------------------------
(* ICON: MainLoop::Run drives the callbacks through remote triggers.       *)

\* ICON goes from one phase to the next.
Icon(from, to) == icon = from /\ icon' = to

\* It triggers a callback of thread t, and gives up if the server has stopped:
\* nobody answers.
IconCall(t, callback, to, failed) ==
  IF t \in stopped THEN icon' = failed /\ UNCHANGED threads
                   ELSE icon' = to /\ Move(t, "idle", callback)

IconPrepare ==
  /\ Icon("off", "preparing")
  /\ UNCHANGED <<code, queue, runtime, threads, item, action, cached, stop, overruns,
                 hooked, faulty>>

\* Prepare() must have ended in kPrepared, Activate() in kActivated.
IconPrepared ==
  /\ Icon("preparing", IF code = "kPrepared" THEN "prepared" ELSE "stopping")
  /\ op = "Prepare" /\ op' = "none"
  /\ Move("sc", "done", "idle")
  /\ UNCHANGED <<code, queue, runtime, item, mine, answer, cached, stop, overruns,
                 hooked, faulty>>

IconActivate ==
  /\ icon = "prepared" /\ IconCall("act", "activate", "activating", "stopping")
  /\ UNCHANGED <<code, queue, runtime, item, action, cached, stop, overruns,
                 hooked, faulty>>

IconActivated ==
  /\ Icon("activating", IF code = "kActivated" THEN "running" ELSE "stopping")
  /\ Move("act", "done", "idle")
  /\ UNCHANGED <<code, queue, runtime, item, action, cached, stop, overruns,
                 hooked, faulty>>

\* CyclicUpdate: Read, Update (which caches the state), Write.
IconRead ==
  /\ icon = "running" /\ IconCall("read", "process", "reading", "stopping")
  /\ UNCHANGED <<code, queue, runtime, item, action, cached, stop, overruns,
                 hooked, faulty>>

IconReadDone ==
  /\ Icon("reading", "updating")
  /\ Move("read", "done", "idle")
  /\ UNCHANGED <<code, queue, runtime, item, action, cached, stop, overruns,
                 hooked, faulty>>

\* A fatal fault ends the loop.
IconUpdate ==
  /\ Icon("updating", IF code \in {"kInitFailed", "kFatallyFaulted"} THEN "stopping" ELSE "writing")
  /\ cached' = code
  /\ UNCHANGED <<code, queue, runtime, threads, item, action, stop, overruns, hooked, faulty>>

\* ProcessTransitionRequestAsync triggers at most one action at a time, then
\* Write triggers ApplyCommand in a module that is enabled.
IconWrite ==
  /\ icon = "writing"
  /\ op' \in IF op = "none" THEN Actions \cup {op} ELSE {op}
  /\ IF cached = "kMotionEnabled" THEN IconCall("apply", "apply", "applying", "stopping")
                                  ELSE icon' = "running" /\ UNCHANGED threads
  /\ UNCHANGED <<code, queue, runtime, item, mine, answer, cached, stop, overruns,
                 hooked, faulty>>

IconApplyDone ==
  /\ Icon("applying", "running")
  /\ Move("apply", "done", "idle")
  /\ UNCHANGED <<code, queue, runtime, item, action, cached, stop, overruns,
                 hooked, faulty>>

\* A shutdown request or an error of the cycle: the loop ends.
IconStop ==
  /\ \E from \in {"prepared", "running", "updating", "writing"} : Icon(from, "stopping")
  /\ UNCHANGED <<code, queue, runtime, threads, item, action, cached, stop, overruns,
                 hooked, faulty>>

\* hwm_read_write_timeout_ passed while ReadStatus or ApplyCommand runs: the
\* loop ends too, the callback does not.
IconTimeout(t, phase) ==
  /\ Icon(phase, "stopping")
  /\ pc[t] # "done"
  /\ OverrunIf(TRUE)
  /\ UNCHANGED <<code, queue, runtime, threads, item, action, cached, stop, hooked, faulty>>

LateDone(t, phase) ==
  /\ icon # phase
  /\ Move(t, "done", "idle")
  /\ UNCHANGED <<code, queue, runtime, item, action, client, hooked, faulty>>

IconReadTimeout == IconTimeout("read", "reading")
IconWriteTimeout == IconTimeout("apply", "applying")
LateReadDone == LateDone("read", "reading")
LateApplyDone == LateDone("apply", "applying")

\* MainLoop::Shutdown: TryDeactivate.
IconDeactivate ==
  /\ icon = "stopping" /\ IconCall("dea", "deactivate", "deactivating", "off")
  /\ UNCHANGED <<code, queue, runtime, item, action, cached, stop, overruns,
                 hooked, faulty>>

IconDeactivated ==
  /\ Icon("deactivating", "off")
  /\ Move("dea", "done", "idle")
  /\ UNCHANGED <<code, queue, runtime, item, action, cached, stop, overruns,
                 hooked, faulty>>

IconLoop ==
  \/ IconPrepare \/ IconPrepared \/ IconActivate \/ IconActivated \/ IconRead \/ IconReadDone
  \/ IconUpdate \/ IconWrite \/ IconApplyDone \/ IconReadTimeout \/ IconWriteTimeout
  \/ LateReadDone \/ LateApplyDone \/ IconDeactivate \/ IconDeactivated

-----------------------------------------------------------------------------
(* HardwareModuleRuntime::Stop and the process that follows it.            *)

\* Mutant: non_rt_buffer_lock_ is not taken.
ShutdownUnlocked ==
  /\ Restarts /\ "requests" \notin stopped
  /\ stopped' = stopped \cup {"requests"}
  /\ reject' = TRUE
  /\ CancelPendingRequests
  /\ UNCHANGED <<code, prev, hospice, threads, item, op, mine, icon, cached, reopened, overruns,
                 hooked, faulty>>

\* Stop() calls Shutdown(), which takes non_rt_buffer_lock_,
Shutdown ==
  /\ Restarts /\ "requests" \notin stopped
  /\ pc["sc"] \notin {"stamp", "insert"}
  /\ stopped' = stopped \cup {"requests"}
  /\ reject' = TRUE
  /\ CancelPendingRequests
  /\ UNCHANGED <<code, prev, hospice, threads, item, op, mine, icon, cached, reopened, overruns,
                 hooked, faulty>>

\* and then RequestStop() of one server after the other: no callback of it
\* starts any more.  For the servers of the StateChange thread it does nothing.
StopAfter == [apply |-> "requests", read |-> "apply", dea |-> "read", act |-> "dea"]

RequestStop(t) ==
  /\ StopAfter[t] \in stopped /\ t \notin stopped
  /\ stopped' = stopped \cup {t}
  /\ UNCHANGED <<code, queue, runtime, threads, item, action, icon, cached, reopened, overruns,
                 hooked, faulty>>

\* Every thread is joined; a new process starts and ICON connects again.
Restart ==
  /\ "act" \in stopped
  /\ \A t \in Threads : pc[t] = "idle"
  /\ code' = "kDeactivated" /\ prev' = "kDeactivated"
  /\ queue' = <<>> /\ reject' = FALSE /\ hospice' = 0
  /\ item' = NoRequest /\ op' = "none" /\ mine' = NoRequest /\ answer' = "none"
  /\ icon' = "off" /\ cached' = "kDeactivated" /\ stopped' = {} /\ reopened' = FALSE
  /\ hooked' = FALSE /\ faulty' = FALSE /\ overruns' = 0
  /\ UNCHANGED threads

Stop == Shutdown \/ \E t \in DOMAIN StopAfter : RequestStop(t)

Steps == (\E t \in Threads : SetStateDirectly(t)) \/ Lifecycle \/ StateChange
           \/ ReadCallback \/ ApplyCallback

Next == Steps \/ IconLoop \/ IconStop \/ Stop \/ Restart

Spec == Init /\ [][Next]_vars

\* A thread that is scheduled takes its steps, a call into the module returns
\* and ICON's loop goes on.  Nobody has to stop, and no deadline has to pass
\* while ICON's loop runs.
Fairness ==
  /\ \A t \in Threads : WF_vars(SetStateDirectly(t))
  /\ WF_vars(Lifecycle) /\ WF_vars(StateChange)
  /\ WF_vars(ReadCallback) /\ WF_vars(ApplyCallback)
  /\ WF_vars(IconLoop)

FairSpec == Spec /\ Fairness

-----------------------------------------------------------------------------
(* Properties.  Those that hold only while every deadline is met say so    *)
(* with overruns = 0; the README describes what an overrun does to them.   *)

TypeOK ==
  /\ code \in StateCode /\ prev \in StateCode /\ cached \in StateCode
  /\ queue \in Seq(Request) /\ Len(queue) <= QueueSize
  /\ stopped \subseteq {"requests"} \cup Threads /\ reopened \in BOOLEAN
  /\ reject \in BOOLEAN /\ hooked \in BOOLEAN /\ faulty \in BOOLEAN
  /\ hospice \in Nat /\ overruns \in 0..MaxOverruns
  /\ want \in [Threads -> StateCode] /\ changed \in [Threads -> BOOLEAN]
  /\ item \in Request /\ mine \in Request
  /\ op \in Actions \cup {"none", "Prepare"}
  /\ answer \in {"none", "ok", "failed", "cancelled"}

\* The module is told Enabled() before its first command and Disabled() for
\* every way out of kMotionEnabled (hardware_module_runtime.cc:664-676,
\* hardware_module_interface.h:222-240): when no callback is in the middle of
\* a change the two hooks agree with the state, and ApplyCommand() is called
\* only between them.
HooksPaired ==
  /\ TypeOK
  /\ overruns = 0 =>
       /\ (\A t \in Threads : pc[t] = "idle") => (hooked <=> code = "kMotionEnabled")
       /\ pc["apply"] = "applyCall" => hooked /\ code = "kMotionEnabled"

\* While ICON's loop runs, a module that is in a transient state has an action
\* under way that will take it out of it: nobody else can, because the guard
\* prohibits every action from a transient state.
TransientHasOwner ==
  \A a \in Actions :
    LoopRuns /\ "requests" \notin stopped /\ overruns = 0 /\ code = Transient[a]
      => op = a /\ pc["sc"] \notin {"idle", "done"}

\* Once Shutdown() has emptied the queue, no request is in it and none will be
\* inserted (hardware_module_runtime.cc:478-484), although an action may be at
\* any step of its request; unless an OnActivate that ended later has cleared
\* reject_new_requests_ (165).
NoRequestAfterStop == "requests" \in stopped /\ ~reopened => queue = <<>>

\* No future is destroyed while its promise is still in the queue or in the
\* hands of the "read" thread: every abandoned request has its future in the
\* hospice (hardware_module_runtime.cc:522-534, 566-574).
EveryPromiseHasFuture == Abandoned <= hospice

\* Requests are accounted for, deadlines missed or not: none after a stop, and
\* none that would answer to a future that is gone.
RequestsAccounted == NoRequestAfterStop /\ EveryPromiseHasFuture

\* A fault that a call into the module reported is not forgotten: the module
\* is ready for motion only after ClearFaults() or Prepare() succeeded after
\* it, whatever the actions and cycles that were under way did later.
HealthyMeansCleared ==
  pc["read"] = "idle" /\ pc["apply"] = "idle" /\ LoopRuns /\ overruns = 0
    /\ code \in {"kActivated", "kMotionEnabled"} => ~faulty

\* While every deadline is met, a module does not stay in a transient state
\* (hardware_module_runtime.cc:194-328): the request that ends it is answered,
\* and when it is not applied a fault, a deactivation or a stop has taken the
\* module out of that state.
TransientIsLeft ==
  \A a \in Actions : (code = Transient[a]) ~> (code # Transient[a] \/ stopped # {} \/ overruns > 0)

\* Every action comes to its end (hardware_module_runtime.cc:562-574): the
\* request it waits for is answered or its own deadline passes.
ActionReturns == \A a \in Actions : (op = a /\ pc["sc"] # "idle") ~> (op # a)
=============================================================================
