--------------------- MODULE HardwareModuleRuntimeProofs ---------------------
(***************************************************************************)
(* The callbacks of a hardware module, for any queue size, any number of   *)
(* overruns and every setting of the switches.                             *)
(*                                                                         *)
(* No lock keeps the threads apart that write the state: the phases of     *)
(* ICON do, and a missed deadline lets two of them overlap.  So the        *)
(* invariant says first what holds in any case (the requests, and the way  *)
(* into and out of kMotionEnabled), then what one run of ICON's loop       *)
(* leaves to the next, and then what the loop keeps up while every         *)
(* deadline is met: that an action is told of every state it has caused    *)
(* and that its second request applies.                                    *)
(***************************************************************************)
EXTENDS HardwareModuleRuntime, FiniteSetTheorems, TLAPS

\* In SetStateDirectly, in OnDeactivate, in OnPrepare, in SetStateAndWait.
SetPcs        == {"check", "write"}
DeactivatePcs == {"deactivate", "deactivating", "deactivateCancel", "deactivateCall"}
PreparePcs    == SetPcs \cup DeactivatePcs \cup {"prepare", "preparing", "prepareCall"}
RequestPcs    == {"clean", "lock", "stamp", "insert", "wait"}

ScPcs  == {"idle", "done", "call"} \cup PreparePcs \cup RequestPcs
ActPcs == {"idle", "done", "activate", "activating", "activateCall", "activated"} \cup SetPcs
DeaPcs == {"idle", "done"} \cup DeactivatePcs \cup SetPcs
ReadPcs == {"idle", "done", "process", "respond", "release", "hook", "status", "alloc",
            "cancelThenAlloc", "cancelThenDone"} \cup SetPcs
ApplyPcs == {"idle", "done", "apply", "applyCall", "alloc", "cancelThenAlloc",
             "cancelThenDone"} \cup SetPcs

IconPhases == {"off", "preparing", "prepared", "activating", "running", "reading",
               "updating", "writing", "applying", "stopping", "deactivating"}

\* Where the threads are, and where SetStateDirectly returns to.
PcInv ==
  /\ DOMAIN pc = Threads /\ DOMAIN ret = Threads /\ icon \in IconPhases
  /\ pc["sc"] \in ScPcs /\ pc["act"] \in ActPcs /\ pc["dea"] \in DeaPcs
  /\ pc["read"] \in ReadPcs /\ pc["apply"] \in ApplyPcs
  /\ pc["sc"] \in SetPcs => ret["sc"] \in {"deactivating", "prepare", "preparing", "done"}
  /\ pc["sc"] \in RequestPcs => ret["sc"] \in {"call", "done"}
  /\ pc["act"] \in SetPcs => ret["act"] \in {"activating", "activated"}
  /\ pc["dea"] \in SetPcs => ret["dea"] \in {"deactivating", "done"}
  /\ pc["read"] \in SetPcs =>
       ret["read"] \in {"respond", "status", "cancelThenAlloc", "cancelThenDone"}
  /\ pc["apply"] \in SetPcs => ret["apply"] \in {"cancelThenAlloc", "cancelThenDone"}

\* Which callbacks run in which phase of ICON.
PhaseInv ==
  /\ pc["sc"] \in PreparePcs => op = "Prepare"
  /\ pc["sc"] \in RequestPcs \cup {"call"} => op \in Actions
  /\ pc["sc"] = "idle" => op # "Prepare"
  /\ op = "none" => pc["sc"] = "idle"
  /\ op = "Prepare" => icon = "preparing"
  /\ icon \in {"prepared", "activating"} => op = "none"
  /\ pc["act"] # "idle" => icon = "activating"
  /\ pc["dea"] # "idle" => icon = "deactivating"
  /\ overruns = 0 /\ pc["read"] # "idle" => icon = "reading"
  /\ overruns = 0 /\ pc["apply"] # "idle" => icon = "applying"

\* Nothing is asked for after Shutdown(), unless OnActivate has allowed it again.
StopInv ==
  "requests" \in stopped /\ ~reopened =>
    reject /\ queue = <<>> /\ pc["sc"] \notin {"stamp", "insert"}

\* Somebody waits for at most one request, and that is the "sc" thread.
OwnInv ==
  /\ pc["sc"] = "insert" => mine.owned
  /\ pc["sc"] # "wait" => answer = "none" /\ ~item.owned
  /\ item.owned \/ answer # "none" \/ pc["sc"] # "wait" => \A i \in 1..Len(queue) : ~queue[i].owned
  /\ \A i, j \in 1..Len(queue) : queue[i].owned /\ queue[j].owned => i = j

\* Motion is enabled only by a request of OnEnableMotion that the cycle has taken, and only
\* OnPrepare makes a module prepared.
TargetInv ==
  /\ mine.to = "kMotionEnabled" => mine.from = "kMotionEnabling"
  /\ mine.to # "kPrepared"
  /\ \A i \in 1..Len(queue) :
       /\ queue[i].to = "kMotionEnabled" => queue[i].from = "kMotionEnabling"
       /\ queue[i].to # "kPrepared"
  /\ \A t \in Threads : pc[t] \in SetPcs /\ want[t] = "kMotionEnabled" =>
       t = "read" /\ ret[t] = "respond" /\ prev = "kMotionEnabling"
  /\ \A t \in Threads : pc[t] \in SetPcs /\ want[t] = "kPrepared" => t = "sc"

\* The hooks.
HookInv ==
  /\ code = "kMotionEnabled" =>
       \/ hooked
       \/ \E t \in Threads : pc[t] = "write" /\ want[t] # "kMotionEnabled"
       \/ pc["read"] \in {"respond", "release", "hook"} /\ prev = "kMotionEnabling"
  /\ overruns = 0 /\ pc["apply"] = "applyCall" => code = "kMotionEnabled"
  /\ overruns = 0 /\ hooked => code = "kMotionEnabled" /\ \A t \in Threads : pc[t] # "write"

-----------------------------------------------------------------------------
(* What is left of an earlier run of the loop when it starts again. *)

FaultCodes     == {"kFaulted", "kFatallyFaulted"}
TransientCodes == {"kMotionEnabling", "kMotionDisabling", "kClearingFaults"}
LoopCodes      == {"kActivated", "kMotionEnabled"} \cup TransientCodes \cup FaultCodes

\* No request: a module is prepared by an OnPrepare that has cancelled them all.
PrepareInv ==
  /\ code = "kPrepared" => queue = <<>> /\ op \notin Actions /\ ~LoopRuns
  /\ pc["sc"] \in SetPcs /\ want["sc"] = "kPrepared" => queue = <<>>
  /\ pc["sc"] = "prepareCall" => queue = <<>>
  /\ icon \in {"prepared", "activating"} => queue = <<>>

\* No fault: Prepare() has succeeded, and only OnActivate has changed the state since.
ActivateInv ==
  overruns = 0 =>
    /\ code = "kPrepared" => ~faulty
    /\ pc["sc"] \in SetPcs /\ want["sc"] = "kPrepared" => ~faulty
    /\ icon \in {"prepared", "activating"} => ~faulty /\ code # "kMotionEnabled"
    /\ pc["act"] \in SetPcs /\ want["act"] = "kActivated" => ret["act"] = "activated"
    /\ icon \in {"prepared", "activating"} /\ code = "kActivated" =>
         pc["act"] \in {"activated", "done"}
    /\ pc["act"] = "done" /\ code = "kActivated" /\ "requests" \notin stopped => ~reject
-----------------------------------------------------------------------------
(* The loop, while every deadline is met. *)

\* A request is the first or the second of the action under way.
Asks(r) ==
  IF ret["sc"] = "call" THEN r.to = Transient[op] /\ r.to \in AllowedFrom[r.from]
  ELSE r.from = Transient[op] /\ r.to \in FaultCodes \cup {Final[op]}

AskInv ==
  /\ pc["sc"] \in RequestPcs \ {"wait"} => Asks(mine)
  /\ pc["sc"] = "wait" /\ item.owned => Asks(item)
  /\ pc["sc"] = "wait" => \A i \in 1..Len(queue) : queue[i].owned => Asks(queue[i])

\* The "read" thread does what a request asks for.
Serving == pc["read"] \in SetPcs /\ ret["read"] = "respond"

\* The first request of an action has been met.
Begun ==
  \/ pc["sc"] = "call"
  \/ /\ pc["sc"] = "wait" /\ ret["sc"] = "call"
     /\ answer = "ok" \/ (pc["read"] = "respond" /\ changed["read"])

\* All requests are waited for, and only the real-time threads change the state: as the
\* request says that has been found to apply, or to a fault.
LoopInv ==
  overruns = 0 /\ LoopRuns =>
    /\ code \in LoopCodes
    /\ "requests" \notin stopped => ~reject
    /\ \A i \in 1..Len(queue) : queue[i].owned
    /\ Serving \/ pc["read"] = "respond" => item.owned /\ answer = "none"
    /\ Serving => item.from = code
    /\ Serving => want["read"] = item.to \/ (pc["read"] = "write" /\ want["read"] = "kFaulted")
    /\ pc["read"] \in SetPcs /\ ret["read"] # "respond" => want["read"] \in FaultCodes
    /\ pc["apply"] \in SetPcs => want["apply"] \in FaultCodes
    /\ pc["read"] = "write" /\ ~changed["read"] => want["read"] \in FaultCodes
    /\ \A t \in {"read", "apply"} :
         pc[t] \in {"cancelThenAlloc", "cancelThenDone"} /\ changed[t] => code \in FaultCodes
    /\ Begun => code \in TransientCodes \cup FaultCodes

\* In a transient state the action has been told of it or will be, and its second request
\* applies: nothing was written since it was stamped.
TransientInv ==
  overruns = 0 /\ LoopRuns /\ "requests" \notin stopped =>
    \A a \in Actions : code = Transient[a] =>
      /\ op = a
      /\ \/ Begun
         \/ ret["sc"] = "done" /\ pc["sc"] \in {"clean", "lock", "stamp"}
         \/ ret["sc"] = "done" /\ pc["sc"] = "insert" /\ mine.fresh
         \/ ret["sc"] = "done" /\ pc["sc"] = "wait" /\ Serving
         \/ ret["sc"] = "done" /\ pc["sc"] = "wait" /\ queue # <<>> /\ queue[1].fresh

\* A fault that was not cleared is the state or is being written, or the module is in a
\* transient state that no request will take to one in which it is ready.
HealthInv ==
  overruns = 0 /\ LoopRuns /\ faulty =>
    \/ code \in FaultCodes
    \/ pc["read"] \in SetPcs /\ want["read"] \in FaultCodes
    \/ pc["apply"] \in SetPcs /\ want["apply"] \in FaultCodes
    \/ /\ code \in TransientCodes
       /\ pc["sc"] = "call" \/ (pc["sc"] \in RequestPcs /\ ret["sc"] = "call") => op = "ClearFaults"
       /\ pc["sc"] \in RequestPcs \ {"wait"} /\ ret["sc"] = "done" => mine.to \in FaultCodes
       /\ \A i \in 1..Len(queue) : queue[i].to \notin {"kActivated", "kMotionEnabled"}
       /\ pc["read"] \in SetPcs => want["read"] \notin {"kActivated", "kMotionEnabled"}

IInv ==
  /\ TypeOK /\ PcInv /\ PhaseInv /\ StopInv /\ OwnInv /\ EveryPromiseHasFuture
  /\ TargetInv /\ HookInv /\ PrepareInv /\ ActivateInv
  /\ AskInv /\ LoopInv /\ TransientInv /\ HealthInv

-----------------------------------------------------------------------------
\* The state codes, one by one.
LEMMA Codes ==
  StateCode = {"kPreparing", "kPrepared", "kDeactivating", "kDeactivated", "kActivating",
               "kActivated", "kMotionEnabling", "kMotionEnabled", "kMotionDisabling",
               "kFaulted", "kClearingFaults", "kInitFailed", "kFatallyFaulted"}
BY DEF StateCode, AllowedFrom

\* What Append, Head and Tail do to a queue of requests.
LEMMA Appended ==
  ASSUME NEW q \in Seq(Request), NEW r \in Request
  PROVE  /\ Append(q, r) \in Seq(Request) /\ Len(Append(q, r)) = Len(q) + 1
         /\ \A i \in 1..Len(q) : Append(q, r)[i] = q[i]
         /\ Append(q, r)[Len(q) + 1] = r
OBVIOUS

\* What the "read" thread takes, and what it leaves.
LEMMA Taken ==
  ASSUME NEW q \in Seq(Request), q # <<>>
  PROVE  /\ Head(q) = q[1] /\ 1 \in 1..Len(q) /\ Head(q) \in Request
         /\ Tail(q) \in Seq(Request) /\ Len(Tail(q)) = Len(q) - 1
         /\ \A i \in 1..Len(Tail(q)) : i + 1 \in 1..Len(q) /\ Tail(q)[i] = q[i + 1]
OBVIOUS

\* A queue whose requests were changed one by one is a queue of the same length.
LEMMA Mapped ==
  ASSUME NEW q \in Seq(Request), NEW g \in [1..Len(q) -> Request]
  PROVE  g \in Seq(Request) /\ Len(g) = Len(q)
OBVIOUS

-----------------------------------------------------------------------------
(* TypeOK, by kinds of variable: each needs other provers and facts. *)

TypeCodes ==
  /\ code \in StateCode /\ prev \in StateCode /\ cached \in StateCode
  /\ want \in [Threads -> StateCode]
TypeFlags ==
  /\ reject \in BOOLEAN /\ reopened \in BOOLEAN /\ hooked \in BOOLEAN /\ faulty \in BOOLEAN
  /\ changed \in [Threads -> BOOLEAN]
TypeRest ==
  /\ stopped \subseteq {"requests"} \cup Threads
  /\ overruns \in 0..MaxOverruns
  /\ op \in Actions \cup {"none", "Prepare"}
  /\ answer \in {"none", "ok", "failed", "cancelled"}
TypeItem == item \in Request /\ mine \in Request
TypeQueue == queue \in Seq(Request) /\ Len(queue) <= QueueSize
TypeHospice == hospice \in Nat

\* The placeholder for no request has the type of one.
LEMMA NoRequestType == NoRequest \in Request
BY Codes DEF NoRequest, Request

\* Only state codes are stored as states.
LEMMA TypeCodesNext == ASSUME IInv, [Next]_vars PROVE TypeCodes'
<1> USE DEF IInv, TypeOK, TypeCodes, Threads, Goto, Move, SetState, Return, Icon, runtime,
    threads, client, stop, action
<1>1. ASSUME NEW t \in Threads, SetStateDirectly(t) PROVE TypeCodes'
  BY <1>1, Codes DEF SetStateDirectly, SetRefused, SetMessage, SetChecked, SetWrite
<1>2. ASSUME NEW t \in {"sc", "dea"}, Deactivating(t) PROVE TypeCodes'
  BY <1>2, Codes DEF Deactivating, OnDeactivate, DeactivateReject, AfterDeactivate,
     DeactivateCancel, CancelPendingRequests, DeactivateCall
<1>3. CASE OnPrepare \/ PrepareSet \/ PrepareCancel \/ PrepareCall
  BY <1>3, Codes DEF OnPrepare, PrepareSet, PrepareCancel, CancelPendingRequests, PrepareCall
<1>4. CASE OnActivate \/ ActivateCancel \/ ActivateCall \/ ActivateAccept
  BY <1>4, Codes DEF OnActivate, ActivateCancel, CancelPendingRequests, ActivateCall,
     ActivateAccept
<1>5. CASE StateChange
  BY <1>5, Codes DEF StateChange, StartAction, SetStateAndWait, CleanHospice, CheckReject,
     Stamp, Insert, TakeAnswer, WaitTimeout, OverrunIf, CallInstance, ActionDone
<1>6. CASE ReadCallback \/ ApplyCallback
  <2>1. CASE RespondToRequest \/ ReleaseRequest \/ EnabledTransitionHook \/ ReadStatus
             \/ OnApplyCommand \/ ApplyCommand \/ Finish("read") \/ Finish("apply")
    BY <2>1, Codes DEF RespondToRequest, Respond, ReleaseRequest, EnabledTransitionHook,
       ReadStatus, Fault, Finish, CancelAfterFault, CancelPendingRequests, CheckAllocations,
       OnApplyCommand, ApplyCommand
  <2>2. CASE ProcessNextPendingRequest
    <3>1. queue # <<>> => Head(queue).to \in StateCode
      BY Taken DEF Request
    <3> QED BY <2>2, <3>1 DEF ProcessNextPendingRequest
  <2> QED BY <1>6, <2>1, <2>2 DEF ReadCallback, ApplyCallback, Finish
<1>7. CASE IconLoop
  BY <1>7, Codes DEF IconLoop, IconPrepare, IconPrepared, IconActivate, IconCall, IconActivated,
     IconRead, IconReadDone, IconUpdate, IconWrite, IconApplyDone, IconReadTimeout,
     IconWriteTimeout, IconTimeout, OverrunIf, LateReadDone, LateApplyDone, LateDone,
     IconDeactivate, IconDeactivated
<1>8. CASE IconStop \/ Stop \/ Restart
  BY <1>8, Codes DEF IconStop, Stop, Shutdown, RequestStop, CancelPendingRequests, Restart
<1>9. CASE UNCHANGED vars
  BY <1>9 DEF vars
<1> QED
  BY <1>1, <1>2, <1>3, <1>4, <1>5, <1>6, <1>7, <1>8, <1>9 DEF Next, Steps, Lifecycle

\* The flags stay Boolean, whatever step is taken.
LEMMA TypeFlagsNext == ASSUME IInv, [Next]_vars PROVE TypeFlags'
<1> USE DEF IInv, TypeOK, TypeFlags, Goto, Move, SetState, Return, Icon, runtime, threads,
    client, stop, action
<1>1. ASSUME NEW t \in Threads, SetStateDirectly(t) PROVE TypeFlags'
  BY <1>1, Zenon DEF SetStateDirectly, SetRefused, SetMessage, SetChecked, SetWrite
<1>2. ASSUME NEW t \in {"sc", "dea"}, Deactivating(t) PROVE TypeFlags'
  BY <1>2, Zenon DEF Deactivating, OnDeactivate, DeactivateReject, AfterDeactivate,
     DeactivateCancel, CancelPendingRequests, DeactivateCall
<1>3. CASE OnPrepare \/ PrepareSet \/ PrepareCancel \/ PrepareCall
  BY <1>3, Zenon DEF OnPrepare, PrepareSet, PrepareCancel, CancelPendingRequests, PrepareCall
<1>4. CASE OnActivate \/ ActivateCancel \/ ActivateCall \/ ActivateAccept
  <2>1. CASE OnActivate \/ ActivateCancel \/ ActivateCall
    BY <2>1, Zenon DEF OnActivate, ActivateCancel, CancelPendingRequests, ActivateCall
  <2>2. CASE ActivateAccept
    <3>1. reopened' \in BOOLEAN
      BY <2>2 DEF ActivateAccept
    <3> QED BY <2>2, <3>1, Zenon DEF ActivateAccept
  <2> QED BY <1>4, <2>1, <2>2
<1>5. CASE StateChange
  BY <1>5, Zenon DEF StateChange, StartAction, SetStateAndWait, CleanHospice, CheckReject,
     Stamp, Insert, TakeAnswer, WaitTimeout, OverrunIf, CallInstance, ActionDone
<1>6. CASE ReadCallback \/ ApplyCallback
  BY <1>6, Zenon DEF ReadCallback, ApplyCallback, Finish, ProcessNextPendingRequest, Respond,
     RespondToRequest, ReleaseRequest, EnabledTransitionHook, ReadStatus, Fault,
     CancelAfterFault, CancelPendingRequests, CheckAllocations, OnApplyCommand, ApplyCommand
<1>7. CASE IconLoop
  BY <1>7, Zenon DEF IconLoop, IconPrepare, IconPrepared, IconActivate, IconCall, IconActivated,
     IconRead, IconReadDone, IconUpdate, IconWrite, IconApplyDone, IconReadTimeout,
     IconWriteTimeout, IconTimeout, OverrunIf, LateReadDone, LateApplyDone, LateDone,
     IconDeactivate, IconDeactivated
<1>8. CASE IconStop \/ Stop \/ Restart
  BY <1>8, Zenon DEF IconStop, Stop, Shutdown, RequestStop, CancelPendingRequests, Restart
<1>9. CASE UNCHANGED vars
  BY <1>9 DEF vars
<1> QED
  BY <1>1, <1>2, <1>3, <1>4, <1>5, <1>6, <1>7, <1>8, <1>9 DEF Next, Steps, Lifecycle

\* The count of overruns keeps its bound; triggers and answers are the known ones.
LEMMA TypeRestNext == ASSUME IInv, [Next]_vars PROVE TypeRest'
<1> USE DEF IInv, TypeOK, TypeRest, Goto, Move, SetState, Return, Icon, runtime, threads,
    client, stop, action
<1>1. ASSUME NEW t \in Threads, SetStateDirectly(t) PROVE TypeRest'
  BY <1>1, MaxOverrunsAssumption DEF SetStateDirectly, SetRefused, SetMessage, SetChecked,
     SetWrite
<1>2. ASSUME NEW t \in {"sc", "dea"}, Deactivating(t) PROVE TypeRest'
  BY <1>2, MaxOverrunsAssumption DEF Deactivating, OnDeactivate, DeactivateReject,
     AfterDeactivate, DeactivateCancel, CancelPendingRequests, DeactivateCall
<1>3. CASE OnPrepare \/ PrepareSet \/ PrepareCancel \/ PrepareCall
  BY <1>3, MaxOverrunsAssumption DEF OnPrepare, PrepareSet, PrepareCancel,
     CancelPendingRequests, PrepareCall
<1>4. CASE OnActivate \/ ActivateCancel \/ ActivateCall \/ ActivateAccept
  BY <1>4, MaxOverrunsAssumption DEF OnActivate, ActivateCancel, CancelPendingRequests,
     ActivateCall, ActivateAccept
<1>5. CASE StateChange
  BY <1>5, MaxOverrunsAssumption DEF StateChange, StartAction, SetStateAndWait, CleanHospice,
     CheckReject, Stamp, Insert, TakeAnswer, WaitTimeout, OverrunIf, CallInstance, ActionDone
<1>6. CASE ReadCallback \/ ApplyCallback
  BY <1>6, MaxOverrunsAssumption DEF ReadCallback, ApplyCallback, Finish,
     ProcessNextPendingRequest, Respond, RespondToRequest, ReleaseRequest,
     EnabledTransitionHook, ReadStatus, Fault, CancelAfterFault, CancelPendingRequests,
     CheckAllocations, OnApplyCommand, ApplyCommand
<1>7. CASE IconLoop
  <2>1. CASE IconWrite
    BY <2>1 DEF IconWrite, Actions
  <2>2. CASE IconReadTimeout \/ IconWriteTimeout \/ LateReadDone \/ LateApplyDone
    <3>1. UNCHANGED <<op, answer, stopped>> /\ overruns' \in {overruns, overruns + 1}
      BY <2>2 DEF IconReadTimeout, IconWriteTimeout, IconTimeout, OverrunIf, LateReadDone,
         LateApplyDone, LateDone
    <3>2. overruns' = overruns + 1 => overruns < MaxOverruns
      BY <2>2, MaxOverrunsAssumption DEF IconReadTimeout, IconWriteTimeout, IconTimeout,
         OverrunIf, LateReadDone, LateApplyDone, LateDone
    <3> QED BY <3>1, <3>2, MaxOverrunsAssumption
  <2>3. CASE IconPrepare \/ IconPrepared \/ IconActivate \/ IconActivated \/ IconRead
             \/ IconReadDone \/ IconUpdate \/ IconApplyDone \/ IconDeactivate \/ IconDeactivated
    BY <2>3 DEF IconPrepare, IconPrepared, IconActivate, IconActivated, IconRead, IconReadDone,
       IconUpdate, IconApplyDone, IconDeactivate, IconDeactivated
  <2> QED BY <1>7, <2>1, <2>2, <2>3 DEF IconLoop
<1>8. CASE IconStop \/ Stop \/ Restart
  <2>1. DOMAIN StopAfter \subseteq Threads
    BY DEF StopAfter, Threads
  <2>2. CASE IconStop
    BY <2>2 DEF IconStop
  <2>3. CASE Shutdown
    BY <2>3 DEF Shutdown, CancelPendingRequests
  <2>4. CASE \E t \in DOMAIN StopAfter : RequestStop(t)
    BY <2>1, <2>4 DEF RequestStop
  <2>5. CASE Restart
    BY <2>5, MaxOverrunsAssumption DEF Restart
  <2> QED BY <1>8, <2>2, <2>3, <2>4, <2>5 DEF Stop
<1>9. CASE UNCHANGED vars
  BY <1>9 DEF vars
<1> QED
  BY <1>1, <1>2, <1>3, <1>4, <1>5, <1>6, <1>7, <1>8, <1>9 DEF Next, Steps, Lifecycle

\* The request that is made and the one in the hands of the "read" thread are requests.
LEMMA TypeItemNext == ASSUME IInv, [Next]_vars PROVE TypeItem'
<1> USE DEF IInv, TypeOK, PcInv, PhaseInv, TypeItem, Request, Outdated, Actions, Transient,
    Final, Goto, Move, SetState, Return, Icon, runtime, threads, client, stop, action
<1>1. ASSUME NEW t \in Threads, SetStateDirectly(t) PROVE TypeItem'
  <2>1. CASE SetRefused(t) \/ SetMessage(t) \/ SetChecked(t)
    BY <2>1 DEF SetRefused, SetMessage, SetChecked
  <2>2. CASE SetWrite(t)
    BY <2>2 DEF SetWrite
  <2> QED BY <1>1, <2>1, <2>2 DEF SetStateDirectly
<1>2. ASSUME NEW t \in {"sc", "dea"}, Deactivating(t) PROVE TypeItem'
  BY <1>2, Codes, NoRequestType DEF Deactivating, OnDeactivate, DeactivateReject,
     AfterDeactivate, DeactivateCancel, CancelPendingRequests, DeactivateCall
<1>3. CASE OnPrepare \/ PrepareSet \/ PrepareCancel \/ PrepareCall
  BY <1>3, Codes, NoRequestType DEF OnPrepare, PrepareSet, PrepareCancel,
     CancelPendingRequests, PrepareCall
<1>4. CASE OnActivate \/ ActivateCancel \/ ActivateCall \/ ActivateAccept
  BY <1>4, Codes, NoRequestType DEF OnActivate, ActivateCancel, CancelPendingRequests,
     ActivateCall, ActivateAccept
<1>5. CASE StateChange
  <2>1. CASE StartAction
    BY <2>1, Codes, NoRequestType DEF StartAction, SetStateAndWait
  <2>2. CASE CleanHospice
    BY <2>2, Codes, NoRequestType DEF CleanHospice
  <2>3. CASE CheckReject
    BY <2>3, Codes, NoRequestType DEF CheckReject
  <2>4. CASE Stamp
    BY <2>4, Codes, NoRequestType DEF Stamp
  <2>5. CASE Insert
    BY <2>5, Codes, NoRequestType DEF Insert
  <2>6. CASE TakeAnswer
    BY <2>6, Codes, NoRequestType DEF TakeAnswer
  <2>7. CASE WaitTimeout
    BY <2>7, Codes, NoRequestType DEF WaitTimeout, OverrunIf
  <2>8. CASE CallInstance
    <3>1. PICK to \in StateCode :
            mine' = [from |-> Transient[op], to |-> to, fresh |-> FALSE, owned |-> FALSE]
      BY <2>8, Codes DEF CallInstance, SetStateAndWait
    <3>2. Transient[op] \in StateCode
      BY <2>8, Codes DEF CallInstance
    <3> QED BY <2>8, <3>1, <3>2 DEF CallInstance
  <2>9. CASE ActionDone
    BY <2>9, Codes, NoRequestType DEF ActionDone
  <2> QED BY <1>5, <2>1, <2>2, <2>3, <2>4, <2>5, <2>6, <2>7, <2>8, <2>9 DEF StateChange
<1>6. CASE ReadCallback \/ ApplyCallback
  <2>1. CASE RespondToRequest \/ ReleaseRequest \/ EnabledTransitionHook \/ ReadStatus
             \/ OnApplyCommand \/ ApplyCommand \/ Finish("read") \/ Finish("apply")
    BY <2>1, Codes, NoRequestType DEF RespondToRequest, Respond, ReleaseRequest,
       EnabledTransitionHook, ReadStatus, Fault, Finish, CancelAfterFault,
       CancelPendingRequests, CheckAllocations, OnApplyCommand, ApplyCommand
  <2>2. CASE ProcessNextPendingRequest
    BY <2>2, Taken DEF ProcessNextPendingRequest
  <2> QED BY <1>6, <2>1, <2>2 DEF ReadCallback, ApplyCallback, Finish
<1>7. CASE IconLoop
  BY <1>7, Codes, NoRequestType DEF IconLoop, IconPrepare, IconPrepared, IconActivate, IconCall,
     IconActivated, IconRead, IconReadDone, IconUpdate, IconWrite, IconApplyDone,
     IconReadTimeout, IconWriteTimeout, IconTimeout, OverrunIf, LateReadDone, LateApplyDone,
     LateDone, IconDeactivate, IconDeactivated
<1>8. CASE IconStop \/ Stop \/ Restart
  BY <1>8, Codes, NoRequestType DEF IconStop, Stop, Shutdown, RequestStop,
     CancelPendingRequests, Restart
<1>9. CASE UNCHANGED vars
  BY <1>9 DEF vars
<1> QED
  BY <1>1, <1>2, <1>3, <1>4, <1>5, <1>6, <1>7, <1>8, <1>9 DEF Next, Steps, Lifecycle

-----------------------------------------------------------------------------
(* The futures of the requests that nobody waits for. *)

\* The requests in q that nobody waits for.
Left(q) == {i \in 1..Len(q) : ~q[i].owned}

\* Only finitely many requests are left by those who waited for them.
LEMMA LeftFinite ==
  ASSUME NEW q \in Seq(Request)
  PROVE  IsFiniteSet(Left(q)) /\ Cardinality(Left(q)) \in Nat
<1>1. IsFiniteSet(1..Len(q)) /\ Left(q) \subseteq 1..Len(q)
  BY FS_Interval DEF Left
<1> QED BY <1>1, FS_Subset, FS_CardinalityType

\* Whoever takes the first request takes at most one that nobody waits for.
LEMMA LeftTail ==
  ASSUME NEW q \in Seq(Request), q # <<>>
  PROVE  Cardinality(Left(Tail(q))) + (IF Head(q).owned THEN 0 ELSE 1) <= Cardinality(Left(q))
<1> DEFINE f == [i \in Left(Tail(q)) |-> i + 1]
<1>1. /\ Head(q) = q[1] /\ 1 \in 1..Len(q) /\ Tail(q) \in Seq(Request)
      /\ \A i \in 1..Len(Tail(q)) : i + 1 \in 1..Len(q) /\ Tail(q)[i] = q[i + 1]
  BY Taken
<1>2. f \in Injection(Left(Tail(q)), Left(q) \ {1})
  <2>1. \A i \in Left(Tail(q)) : i \in Nat /\ i + 1 \in Left(q) \ {1}
    BY <1>1 DEF Left
  <2> QED BY <2>1 DEF Injection, IsInjective
<1>3. /\ IsFiniteSet(Left(q)) /\ Cardinality(Left(q)) \in Nat
      /\ Cardinality(Left(Tail(q))) \in Nat
  BY <1>1, LeftFinite
<1>4. /\ IsFiniteSet(Left(q) \ {1})
      /\ Cardinality(Left(q) \ {1}) = IF 1 \in Left(q) THEN Cardinality(Left(q)) - 1
                                                       ELSE Cardinality(Left(q))
  BY <1>3, FS_RemoveElement
<1>5. Cardinality(Left(Tail(q))) <= Cardinality(Left(q) \ {1})
  BY <1>2, <1>4, FS_Injection
<1>6. 1 \in Left(q) <=> ~Head(q).owned
  BY <1>1 DEF Left
<1> QED BY <1>3, <1>4, <1>5, <1>6

\* Who changes the queue, the request in the hands of the "read" thread or the hospice.
LEMMA Moves ==
  ASSUME [Next]_vars
  PROVE  \/ UNCHANGED <<queue, item, hospice>>
         \/ queue' = <<>> /\ UNCHANGED <<item, hospice>>
         \/ \E t \in Threads : SetWrite(t)
         \/ CleanHospice \/ Insert \/ TakeAnswer \/ WaitTimeout
         \/ ProcessNextPendingRequest \/ ReleaseRequest \/ Restart
<1> DEFINE Same == UNCHANGED <<queue, item, hospice>>
           Cancelled == queue' = <<>> /\ UNCHANGED <<item, hospice>>
<1> USE DEF runtime
<1>1. UNCHANGED vars => Same
  BY DEF vars
<1>2. \A t \in Threads : SetRefused(t) \/ SetMessage(t) \/ SetChecked(t) => Same
  BY DEF SetRefused, SetMessage, SetChecked
<1>3. Lifecycle => Same \/ Cancelled
  BY DEF Lifecycle, OnPrepare, PrepareSet, PrepareCancel, PrepareCall, OnActivate,
     ActivateCancel, ActivateCall, ActivateAccept, Deactivating, OnDeactivate,
     DeactivateReject, DeactivateCancel, DeactivateCall, CancelPendingRequests
<1>4. StartAction \/ CheckReject \/ Stamp \/ CallInstance \/ ActionDone => Same
  BY DEF StartAction, CheckReject, Stamp, CallInstance, ActionDone
<1>5. RespondToRequest \/ EnabledTransitionHook \/ ReadStatus \/ OnApplyCommand \/ ApplyCommand
        => Same
  BY DEF RespondToRequest, EnabledTransitionHook, ReadStatus, OnApplyCommand, ApplyCommand
<1>6. Stop \/ Finish("read") \/ Finish("apply") => Same \/ Cancelled
  BY DEF Stop, Shutdown, RequestStop, Finish, CheckAllocations, CancelAfterFault,
     CancelPendingRequests
<1>7. IconLoop \/ IconStop => Same
  BY DEF IconLoop, IconPrepare, IconPrepared, IconActivate, IconCall, IconActivated, IconRead,
     IconReadDone, IconUpdate, IconWrite, IconApplyDone, IconReadTimeout, IconWriteTimeout,
     IconTimeout, LateReadDone, LateApplyDone, LateDone, IconDeactivate, IconDeactivated,
     IconStop
<1> HIDE DEF Same, Cancelled
<1>8. \/ Same \/ Cancelled \/ \E t \in Threads : SetWrite(t)
      \/ CleanHospice \/ Insert \/ TakeAnswer \/ WaitTimeout
      \/ ProcessNextPendingRequest \/ ReleaseRequest \/ Restart
  BY <1>1, <1>2, <1>3, <1>4, <1>5, <1>6, <1>7 DEF Next, Steps, StateChange, ReadCallback,
     ApplyCallback, Finish, SetStateDirectly
<1> QED BY <1>8 DEF Same, Cancelled

\* The queue never holds more than its capacity.
LEMMA TypeQueueNext == ASSUME IInv, [Next]_vars PROVE TypeQueue' /\ TypeHospice'
<1> USE DEF TypeQueue, TypeHospice
<1>1. /\ queue \in Seq(Request) /\ Len(queue) \in Nat /\ Len(queue) <= QueueSize
      /\ item \in Request /\ mine \in Request /\ hospice \in Nat /\ QueueSize \in Nat
  BY QueueSizeAssumption DEF IInv, TypeOK
<1>0. /\ \A r \in Request : Outdated(r) \in Request /\ [r EXCEPT !.owned = FALSE] \in Request
      /\ \A i \in 1..Len(queue) : queue[i] \in Request
  <2>1. \A r \in Request : Outdated(r) \in Request /\ [r EXCEPT !.owned = FALSE] \in Request
    BY DEF Outdated, Request
  <2> QED BY <1>1, <2>1
<1>2. ASSUME queue' = <<>> PROVE TypeQueue'
  BY <1>1, <1>2
<1>3. ASSUME queue' \in [1..Len(queue) -> Request] PROVE TypeQueue'
  BY <1>1, <1>3, Mapped
<1>4. ASSUME NEW t \in Threads, SetWrite(t) PROVE TypeQueue' /\ TypeHospice'
  BY <1>0, <1>1, <1>3, <1>4 DEF SetWrite, runtime
<1>5. CASE CleanHospice
  <2>1. Cardinality({i \in 1..Len(queue) : ~queue[i].owned}) \in Nat
    BY <1>1, LeftFinite DEF Left
  <2> QED BY <1>1, <1>5, <2>1 DEF CleanHospice, Abandoned
<1>6. CASE Insert
  BY <1>1, <1>6, Appended DEF Insert, runtime
<1>7. CASE TakeAnswer
  BY <1>1, <1>7 DEF TakeAnswer
<1>8. CASE WaitTimeout
  BY <1>0, <1>1, <1>3, <1>8 DEF WaitTimeout
<1>9. CASE ProcessNextPendingRequest
  BY <1>1, <1>9, Taken DEF ProcessNextPendingRequest
<1>10. CASE ReleaseRequest \/ Restart \/ UNCHANGED <<queue, item, hospice>>
  BY <1>1, <1>2, <1>10 DEF ReleaseRequest, Restart, runtime
<1>11. CASE queue' = <<>> /\ UNCHANGED <<item, hospice>>
  BY <1>1, <1>2, <1>11
<1> QED BY <1>4, <1>5, <1>6, <1>7, <1>8, <1>9, <1>10, <1>11, Moves

\* A request whose owner leaves has its future in the hospice from that step on, and
\* the hospice is cleaned only of futures whose promise is gone.
LEMMA NextFuture == ASSUME IInv, [Next]_vars PROVE EveryPromiseHasFuture'
<1> USE DEF IInv, EveryPromiseHasFuture
<1> DEFINE Held == IF item # NoRequest /\ ~item.owned THEN 1 ELSE 0
<1>1. /\ Cardinality(Left(queue)) + Held <= hospice
      /\ EveryPromiseHasFuture' <=> Cardinality(Left(queue')) + Held' <= hospice'
  BY DEF Abandoned, Left
<1>2. /\ queue \in Seq(Request) /\ item \in Request /\ hospice \in Nat
      /\ Cardinality(Left(queue)) \in Nat
  BY LeftFinite DEF TypeOK
<1>0. Held \in 0..1 /\ Held' \in 0..1 /\ (UNCHANGED item => Held' = Held)
  OBVIOUS
<1> HIDE DEF Held
<1>3. ASSUME Left(queue') = Left(queue), UNCHANGED <<item, hospice>>
      PROVE  EveryPromiseHasFuture'
  BY <1>0, <1>1, <1>3
<1>4. ASSUME queue' = <<>>, UNCHANGED <<item, hospice>> PROVE EveryPromiseHasFuture'
  <2>1. Left(queue') = {}
    BY <1>4 DEF Left
  <2>2. Cardinality(Left(queue')) = 0
    BY <2>1, FS_EmptySet
  <2> QED BY <1>0, <1>1, <1>2, <1>4, <2>2
<1>5. ASSUME NEW t \in Threads, SetWrite(t) PROVE EveryPromiseHasFuture'
  <2>1. Left(queue') = Left(queue)
    BY <1>2, <1>5 DEF SetWrite, Left, Outdated, Request
  <2> QED BY <1>3, <1>5, <2>1 DEF SetWrite, runtime
<1>6. CASE CleanHospice
  BY <1>6 DEF CleanHospice, Abandoned
<1>7. CASE Insert
  <2>1. CASE queue' = Append(queue, mine)
    <3>1. mine \in Request /\ mine.owned
      BY <1>7 DEF Insert, OwnInv, TypeOK
    <3>2. Left(queue') = Left(queue)
      BY <1>2, <2>1, <3>1, Appended DEF Left
    <3> QED BY <1>3, <1>7, <3>2 DEF Insert, runtime
  <2> QED BY <1>3, <1>7, <2>1 DEF Insert, runtime
<1>8. CASE TakeAnswer
  <2>1. /\ queue' = queue /\ (item.owned => hospice' = hospice + 1)
        /\ ~item.owned => UNCHANGED <<item, hospice>>
    BY <1>2, <1>8 DEF TakeAnswer, Request
  <2>2. item.owned => Held = 0
    BY DEF Held
  <2> QED BY <1>0, <1>1, <1>2, <1>3, <2>1, <2>2
<1>9. CASE WaitTimeout
  <2>1. /\ hospice' = hospice + 1 /\ item' = [item EXCEPT !.owned = FALSE]
        /\ queue' = [i \in 1..Len(queue) |-> [queue[i] EXCEPT !.owned = FALSE]]
    BY <1>9 DEF WaitTimeout
  <2>2. Left(queue') = 1..Len(queue)
    BY <1>2, <2>1 DEF Left, Request
  <2>3. CASE \E k \in 1..Len(queue) : queue[k].owned
    <3>1. PICK k \in 1..Len(queue) : queue[k].owned
      BY <2>3
    <3>2. ~item.owned /\ \A i \in 1..Len(queue) : queue[i].owned => i = k
      BY <3>1 DEF OwnInv
    <3>3. item' = item
      BY <1>2, <2>1, <3>2 DEF Request
    <3>4. Left(queue') = Left(queue) \cup {k} /\ k \notin Left(queue)
      BY <2>2, <3>1, <3>2 DEF Left
    <3>5. Cardinality(Left(queue')) = Cardinality(Left(queue)) + 1
      BY <1>2, <3>4, LeftFinite, FS_AddElement
    <3> QED BY <1>0, <1>1, <1>2, <2>1, <3>3, <3>5
  <2>4. CASE \A k \in 1..Len(queue) : ~queue[k].owned
    <3>1. Left(queue') = Left(queue)
      BY <2>2, <2>4 DEF Left
    <3> QED BY <1>0, <1>1, <1>2, <2>1, <3>1
  <2> QED BY <2>3, <2>4
<1>10. CASE ProcessNextPendingRequest
  <2>1. CASE queue = <<>>
    BY <1>3, <1>10, <2>1 DEF ProcessNextPendingRequest
  <2>2. CASE queue # <<>>
    <3>1. item' = Head(queue) /\ queue' = Tail(queue) /\ hospice' = hospice
      BY <1>10, <2>2 DEF ProcessNextPendingRequest
    <3>2. Held' <= (IF Head(queue).owned THEN 0 ELSE 1)
      BY <3>1 DEF Held
    <3>3. Cardinality(Left(queue')) \in Nat
      BY <1>2, <2>2, <3>1, LeftFinite, Taken
    <3>4. Cardinality(Left(queue')) + (IF Head(queue).owned THEN 0 ELSE 1)
            <= Cardinality(Left(queue))
      BY <1>2, <2>2, <3>1, LeftTail
    <3> QED BY <1>0, <1>1, <1>2, <3>1, <3>2, <3>3, <3>4
  <2> QED BY <2>1, <2>2
<1>11. CASE ReleaseRequest
  <2>1. queue' = queue /\ hospice' = hospice /\ Held' = 0
    BY <1>11 DEF ReleaseRequest, runtime, Held
  <2> QED BY <1>0, <1>1, <1>2, <2>1
<1>12. CASE Restart
  <2>1. Left(queue') = {} /\ hospice' = 0 /\ Held' = 0
    BY <1>12 DEF Restart, Left, Held
  <2> QED BY <1>1, <2>1, FS_EmptySet
<1>13. CASE UNCHANGED <<queue, item, hospice>>
  BY <1>3, <1>13
<1> QED BY <1>3, <1>4, <1>5, <1>6, <1>7, <1>8, <1>9, <1>10, <1>11, <1>12, <1>13, Moves

-----------------------------------------------------------------------------
(* The threads, the requests and the hooks, whatever the deadlines. *)

\* Each thread runs its own callbacks only, and SetStateDirectly returns to its caller.
LEMMA NextPc == ASSUME IInv, [Next]_vars PROVE PcInv'
<1> USE DEF IInv, PcInv, Threads, ScPcs, ActPcs, DeaPcs, ReadPcs, ApplyPcs, SetPcs,
    DeactivatePcs, PreparePcs, RequestPcs, IconPhases, Goto, Move, SetState, Return, Icon,
    runtime, threads, client, stop, action
<1>1. ASSUME NEW t \in Threads, SetStateDirectly(t) PROVE PcInv'
  BY <1>1 DEF SetStateDirectly, SetRefused, SetMessage, SetChecked, SetWrite
<1>2. ASSUME NEW t \in {"sc", "dea"}, Deactivating(t) PROVE PcInv'
  BY <1>2 DEF Deactivating, OnDeactivate, DeactivateReject, AfterDeactivate, DeactivateCancel,
     CancelPendingRequests, DeactivateCall
<1>3. CASE OnPrepare \/ PrepareSet \/ PrepareCancel \/ PrepareCall
  BY <1>3 DEF OnPrepare, PrepareSet, PrepareCancel, CancelPendingRequests, PrepareCall
<1>4. CASE OnActivate \/ ActivateCancel \/ ActivateCall \/ ActivateAccept
  BY <1>4 DEF OnActivate, ActivateCancel, CancelPendingRequests, ActivateCall, ActivateAccept
<1>5. CASE StateChange
  BY <1>5 DEF StateChange, StartAction, SetStateAndWait, CleanHospice, CheckReject, Stamp,
     Insert, TakeAnswer, WaitTimeout, OverrunIf, CallInstance, ActionDone
<1>6. CASE ReadCallback \/ ApplyCallback
  BY <1>6 DEF ReadCallback, ApplyCallback, Finish, ProcessNextPendingRequest, Respond,
     RespondToRequest, ReleaseRequest, EnabledTransitionHook, ReadStatus, Fault,
     CancelAfterFault, CancelPendingRequests, CheckAllocations, OnApplyCommand, ApplyCommand
<1>7. CASE IconLoop
  BY <1>7 DEF IconLoop, IconPrepare, IconPrepared, IconActivate, IconCall, IconActivated,
     IconRead, IconReadDone, IconUpdate, IconWrite, IconApplyDone, IconReadTimeout,
     IconWriteTimeout, IconTimeout, OverrunIf, LateReadDone, LateApplyDone, LateDone,
     IconDeactivate, IconDeactivated
<1>8. CASE IconStop \/ Stop \/ Restart
  BY <1>8 DEF IconStop, Stop, Shutdown, RequestStop, CancelPendingRequests, Restart
<1>9. CASE UNCHANGED vars
  BY <1>9 DEF vars
<1> QED
  BY <1>1, <1>2, <1>3, <1>4, <1>5, <1>6, <1>7, <1>8, <1>9 DEF Next, Steps, Lifecycle

\* ICON starts a callback only in the phase that it belongs to.
LEMMA NextPhase == ASSUME IInv, [Next]_vars PROVE PhaseInv'
<1> USE DEF IInv, PcInv, PhaseInv, TypeOK, Threads, SetPcs, DeactivatePcs, PreparePcs,
    RequestPcs, Actions, Goto, Move, SetState, Return, Icon, runtime, threads, client, stop,
    action
<1>1. ASSUME NEW t \in Threads, SetStateDirectly(t) PROVE PhaseInv'
  BY <1>1 DEF SetStateDirectly, SetRefused, SetMessage, SetChecked, SetWrite
<1>2. ASSUME NEW t \in {"sc", "dea"}, Deactivating(t) PROVE PhaseInv'
  BY <1>2 DEF Deactivating, OnDeactivate, DeactivateReject, AfterDeactivate, DeactivateCancel,
     CancelPendingRequests, DeactivateCall
<1>3. CASE OnPrepare \/ PrepareSet \/ PrepareCancel \/ PrepareCall
  BY <1>3 DEF OnPrepare, PrepareSet, PrepareCancel, CancelPendingRequests, PrepareCall
<1>4. CASE OnActivate \/ ActivateCancel \/ ActivateCall \/ ActivateAccept
  BY <1>4 DEF OnActivate, ActivateCancel, CancelPendingRequests, ActivateCall, ActivateAccept
<1>5. CASE StateChange
  BY <1>5 DEF StateChange, StartAction, SetStateAndWait, CleanHospice, CheckReject, Stamp,
     Insert, TakeAnswer, WaitTimeout, OverrunIf, CallInstance, ActionDone
<1>6. CASE ReadCallback \/ ApplyCallback
  BY <1>6 DEF ReadCallback, ApplyCallback, Finish, ProcessNextPendingRequest, Respond,
     RespondToRequest, ReleaseRequest, EnabledTransitionHook, ReadStatus, Fault,
     CancelAfterFault, CancelPendingRequests, CheckAllocations, OnApplyCommand, ApplyCommand
<1>7. CASE IconLoop
  BY <1>7 DEF IconLoop, IconPrepare, IconPrepared, IconActivate, IconCall, IconActivated,
     IconRead, IconReadDone, IconUpdate, IconWrite, IconApplyDone, IconReadTimeout,
     IconWriteTimeout, IconTimeout, OverrunIf, LateReadDone, LateApplyDone, LateDone,
     IconDeactivate, IconDeactivated
<1>8. CASE IconStop \/ Stop \/ Restart
  BY <1>8 DEF IconStop, Stop, Shutdown, RequestStop, CancelPendingRequests, Restart
<1>9. CASE UNCHANGED vars
  BY <1>9 DEF vars
<1> QED
  BY <1>1, <1>2, <1>3, <1>4, <1>5, <1>6, <1>7, <1>8, <1>9 DEF Next, Steps, Lifecycle

\* A request is inserted under non_rt_buffer_lock_, so Shutdown() finds all of them.
LEMMA NextStop == ASSUME IInv, [Next]_vars PROVE StopInv'
<1> USE DEF IInv, PcInv, PhaseInv, StopInv, TypeOK, Threads, SetPcs, DeactivatePcs, PreparePcs,
    RequestPcs, Actions, Goto, Move, SetState, Return, Icon, runtime, threads, client, stop,
    action
<1>1. ASSUME NEW t \in Threads, SetStateDirectly(t) PROVE StopInv'
  <2>1. CASE SetRefused(t)
    BY <2>1 DEF SetRefused
  <2>2. CASE SetMessage(t)
    BY <2>2 DEF SetMessage
  <2>3. CASE SetChecked(t)
    BY <2>3 DEF SetChecked
  <2>4. CASE SetWrite(t)
    BY <2>4 DEF SetWrite
  <2> QED BY <1>1, <2>1, <2>2, <2>3, <2>4 DEF SetStateDirectly
<1>2. ASSUME NEW t \in {"sc", "dea"}, Deactivating(t) PROVE StopInv'
  BY <1>2 DEF Deactivating, OnDeactivate, DeactivateReject, AfterDeactivate, DeactivateCancel,
     CancelPendingRequests, DeactivateCall
<1>3. CASE OnPrepare \/ PrepareSet \/ PrepareCancel \/ PrepareCall
  BY <1>3 DEF OnPrepare, PrepareSet, PrepareCancel, CancelPendingRequests, PrepareCall
<1>4. CASE OnActivate \/ ActivateCancel \/ ActivateCall \/ ActivateAccept
  BY <1>4 DEF OnActivate, ActivateCancel, CancelPendingRequests, ActivateCall, ActivateAccept
<1>5. CASE StateChange
  <2>1. CASE StartAction
    BY <2>1 DEF StartAction, SetStateAndWait
  <2>2. CASE CleanHospice
    BY <2>2 DEF CleanHospice
  <2>3. CASE CheckReject
    BY <2>3 DEF CheckReject
  <2>4. CASE Stamp
    BY <2>4 DEF Stamp
  <2>5. CASE Insert
    BY <2>5 DEF Insert
  <2>6. CASE TakeAnswer
    BY <2>6 DEF TakeAnswer
  <2>7. CASE WaitTimeout
    BY <2>7 DEF WaitTimeout, OverrunIf
  <2>8. CASE CallInstance
    BY <2>8 DEF CallInstance, SetStateAndWait
  <2>9. CASE ActionDone
    BY <2>9 DEF ActionDone
  <2> QED BY <1>5, <2>1, <2>2, <2>3, <2>4, <2>5, <2>6, <2>7, <2>8, <2>9 DEF StateChange
<1>6. CASE ReadCallback \/ ApplyCallback
  BY <1>6 DEF ReadCallback, ApplyCallback, Finish, ProcessNextPendingRequest, Respond,
     RespondToRequest, ReleaseRequest, EnabledTransitionHook, ReadStatus, Fault,
     CancelAfterFault, CancelPendingRequests, CheckAllocations, OnApplyCommand, ApplyCommand
<1>7. CASE IconLoop
  BY <1>7 DEF IconLoop, IconPrepare, IconPrepared, IconActivate, IconCall, IconActivated,
     IconRead, IconReadDone, IconUpdate, IconWrite, IconApplyDone, IconReadTimeout,
     IconWriteTimeout, IconTimeout, OverrunIf, LateReadDone, LateApplyDone, LateDone,
     IconDeactivate, IconDeactivated
<1>8. CASE IconStop \/ Stop \/ Restart
  <2>1. CASE IconStop
    BY <2>1 DEF IconStop
  <2>2. CASE Shutdown
    BY <2>2 DEF Shutdown, CancelPendingRequests
  <2>3. CASE \E t \in DOMAIN StopAfter : RequestStop(t)
    BY <2>3 DEF StopAfter, RequestStop
  <2>4. CASE Restart
    BY <2>4 DEF Restart
  <2> QED BY <1>8, <2>1, <2>2, <2>3, <2>4 DEF Stop
<1>9. CASE UNCHANGED vars
  BY <1>9 DEF vars
<1> QED
  BY <1>1, <1>2, <1>3, <1>4, <1>5, <1>6, <1>7, <1>8, <1>9 DEF Next, Steps, Lifecycle

\* The "read" thread takes the first request.
LEMMA RequestTaken ==
  ASSUME IInv, ProcessNextPendingRequest, queue # <<>>
  PROVE  /\ item' = queue[1] /\ Head(queue) = queue[1] /\ 1 \in 1..Len(queue)
         /\ Len(queue') = Len(queue) - 1
         /\ \A i \in 1..Len(queue') : i + 1 \in 1..Len(queue) /\ queue'[i] = queue[i + 1]
<1>1. queue \in Seq(Request) /\ queue' = Tail(queue) /\ item' = Head(queue)
  BY DEF ProcessNextPendingRequest, IInv, TypeOK
<1> QED BY <1>1, Taken

\* One action at a time waits, for one request.
LEMMA NextOwn == ASSUME IInv, [Next]_vars PROVE OwnInv'
<1> USE DEF IInv, PcInv, PhaseInv, OwnInv, TypeOK, Request, NoRequest, Outdated, Threads,
    SetPcs, DeactivatePcs, PreparePcs, RequestPcs, Actions, Goto, Move, SetState, Return, Icon,
    runtime, threads, client, stop, action
<1>1. ASSUME NEW t \in Threads, SetStateDirectly(t) PROVE OwnInv'
  <2>1. CASE SetRefused(t) \/ SetMessage(t) \/ SetChecked(t)
    BY <2>1 DEF SetRefused, SetMessage, SetChecked
  <2>2. CASE SetWrite(t)
    BY <2>2 DEF SetWrite
  <2> QED BY <1>1, <2>1, <2>2 DEF SetStateDirectly
<1>2. ASSUME NEW t \in {"sc", "dea"}, Deactivating(t) PROVE OwnInv'
  BY <1>2 DEF Deactivating, OnDeactivate, DeactivateReject, AfterDeactivate, DeactivateCancel,
     CancelPendingRequests, DeactivateCall
<1>3. CASE OnPrepare \/ PrepareSet \/ PrepareCancel \/ PrepareCall
  BY <1>3 DEF OnPrepare, PrepareSet, PrepareCancel, CancelPendingRequests, PrepareCall
<1>4. CASE OnActivate \/ ActivateCancel \/ ActivateCall \/ ActivateAccept
  BY <1>4 DEF OnActivate, ActivateCancel, CancelPendingRequests, ActivateCall, ActivateAccept
<1>5. CASE StateChange
  <2>1. CASE StartAction
    BY <2>1 DEF StartAction, SetStateAndWait
  <2>2. CASE CleanHospice
    BY <2>2 DEF CleanHospice
  <2>3. CASE CheckReject
    BY <2>3 DEF CheckReject
  <2>4. CASE Stamp
    BY <2>4 DEF Stamp
  <2>5. CASE Insert
    <3>1. CASE queue' = queue /\ pc'["sc"] = "done"
      BY <2>5, <3>1 DEF Insert
    <3>2. CASE queue' = Append(queue, mine) /\ pc'["sc"] = "wait"
      <4>1. /\ Len(queue) \in Nat /\ Len(queue') = Len(queue) + 1
            /\ \A i \in 1..Len(queue) : queue'[i] = queue[i]
        BY <3>2, Appended
      <4>0. \A i \in 1..Len(queue) : ~queue[i].owned
        BY <2>5 DEF Insert
      <4>2. \A i \in 1..Len(queue') : queue'[i].owned => i = Len(queue) + 1
        BY <4>0, <4>1
      <4> QED BY <2>5, <3>2, <4>2 DEF Insert
    <3> QED BY <2>5, <3>1, <3>2 DEF Insert
  <2>6. CASE TakeAnswer
    BY <2>6 DEF TakeAnswer
  <2>7. CASE WaitTimeout
    BY <2>7 DEF WaitTimeout, OverrunIf
  <2>8. CASE CallInstance
    BY <2>8 DEF CallInstance, SetStateAndWait
  <2>9. CASE ActionDone
    BY <2>9 DEF ActionDone
  <2> QED BY <1>5, <2>1, <2>2, <2>3, <2>4, <2>5, <2>6, <2>7, <2>8, <2>9 DEF StateChange
<1>6. CASE ReadCallback \/ ApplyCallback
  <2>1. CASE RespondToRequest \/ ReleaseRequest \/ EnabledTransitionHook \/ ReadStatus
             \/ OnApplyCommand \/ ApplyCommand \/ Finish("read") \/ Finish("apply")
    BY <2>1 DEF RespondToRequest, Respond, ReleaseRequest, EnabledTransitionHook, ReadStatus,
       Fault, Finish, CancelAfterFault, CancelPendingRequests, CheckAllocations, OnApplyCommand,
       ApplyCommand
  <2>2. CASE ProcessNextPendingRequest
    <3>1. CASE queue = <<>>
      BY <2>2, <3>1 DEF ProcessNextPendingRequest
    <3>2. CASE queue # <<>>
      <4>1. /\ Head(queue) = queue[1] /\ 1 \in 1..Len(queue)
            /\ \A i \in 1..Len(queue') : i + 1 \in 1..Len(queue) /\ queue'[i] = queue[i + 1]
        BY <2>2, <3>2, RequestTaken
      <4>2. \A i \in 1..Len(queue') : i \in Nat /\ i + 1 # 1
        BY <4>1
      <4>3. \A i, j \in 1..Len(queue') : queue'[i].owned /\ queue'[j].owned => i = j
        BY <4>1, <4>2
      <4>4. item' = queue[1] /\ (answer' # answer => item'.owned)
        BY <2>2, <3>2, <4>1 DEF ProcessNextPendingRequest, Respond
      <4>5. queue[1].owned => \A i \in 1..Len(queue') : ~queue'[i].owned
        BY <4>1, <4>2
      <4>6. pc'["sc"] = pc["sc"] /\ UNCHANGED mine
        BY <2>2, <3>2 DEF ProcessNextPendingRequest
      <4>7. pc["sc"] # "wait" => answer' = "none" /\ ~item'.owned
        BY <4>1, <4>4
      <4>8. item'.owned \/ answer' # "none" \/ pc["sc"] # "wait" =>
              \A i \in 1..Len(queue') : ~queue'[i].owned
        BY <4>1, <4>4, <4>5
      <4> QED BY <4>3, <4>6, <4>7, <4>8
    <3> QED BY <3>1, <3>2
  <2> QED BY <1>6, <2>1, <2>2 DEF ReadCallback, ApplyCallback, Finish
<1>7. CASE IconLoop
  BY <1>7 DEF IconLoop, IconPrepare, IconPrepared, IconActivate, IconCall, IconActivated,
     IconRead, IconReadDone, IconUpdate, IconWrite, IconApplyDone, IconReadTimeout,
     IconWriteTimeout, IconTimeout, OverrunIf, LateReadDone, LateApplyDone, LateDone,
     IconDeactivate, IconDeactivated
<1>8. CASE IconStop \/ Stop \/ Restart
  BY <1>8 DEF IconStop, Stop, Shutdown, RequestStop, CancelPendingRequests, Restart
<1>9. CASE UNCHANGED vars
  BY <1>9 DEF vars
<1> QED
  BY <1>1, <1>2, <1>3, <1>4, <1>5, <1>6, <1>7, <1>8, <1>9 DEF Next, Steps, Lifecycle

\* Taking a request keeps its origin: it is applied only to the state it names.
LEMMA TargetTaken == ASSUME IInv, ProcessNextPendingRequest PROVE TargetInv'
<1> USE DEF IInv, TargetInv, TypeOK
<1>1. CASE queue = <<>>
  BY <1>1 DEF ProcessNextPendingRequest, Goto, action, SetPcs, Threads, PcInv
<1>2. CASE queue # <<>>
  <2>1. /\ Head(queue) = queue[1] /\ 1 \in 1..Len(queue) /\ Len(Tail(queue)) = Len(queue) - 1
        /\ \A i \in 1..Len(Tail(queue)) : i + 1 \in 1..Len(queue) /\ Tail(queue)[i] = queue[i + 1]
    BY <1>2, Taken
  <2>2. queue' = Tail(queue) /\ prev' = code /\ UNCHANGED mine
    BY <1>2 DEF ProcessNextPendingRequest
  <2>3. \A i \in 1..Len(queue') :
          /\ queue'[i].to = "kMotionEnabled" => queue'[i].from = "kMotionEnabling"
          /\ queue'[i].to # "kPrepared"
    BY <2>1, <2>2
  <2>4. ASSUME NEW t \in Threads, pc'[t] \in SetPcs
        PROVE  /\ want'[t] = "kMotionEnabled" =>
                    t = "read" /\ ret'[t] = "respond" /\ prev' = "kMotionEnabling"
               /\ want'[t] = "kPrepared" => t = "sc"
    BY <1>2, <2>1, <2>4 DEF ProcessNextPendingRequest, SetState, Goto, PcInv, Threads, SetPcs
  <2> QED BY <2>2, <2>3, <2>4
<1> QED BY <1>1, <1>2

\* No step asks for kMotionEnabled or kPrepared in another way.
LEMMA NextTarget == ASSUME IInv, [Next]_vars PROVE TargetInv'
<1> USE DEF IInv, PcInv, PhaseInv, TargetInv, TypeOK, Request, NoRequest, Outdated, Threads,
    Transient, Final, SetPcs, DeactivatePcs, PreparePcs, RequestPcs, Actions, Goto, Move,
    SetState, Return, Icon, runtime, threads, client, stop, action
<1>1. ASSUME NEW t \in Threads, SetStateDirectly(t) PROVE TargetInv'
  <2>1. CASE SetRefused(t) \/ SetMessage(t) \/ SetChecked(t)
    BY <2>1 DEF SetRefused, SetMessage, SetChecked
  <2>2. CASE SetWrite(t)
    BY <2>2 DEF SetWrite
  <2> QED BY <1>1, <2>1, <2>2 DEF SetStateDirectly
<1>2. ASSUME NEW t \in {"sc", "dea"}, Deactivating(t) PROVE TargetInv'
  BY <1>2 DEF Deactivating, OnDeactivate, DeactivateReject, AfterDeactivate, DeactivateCancel,
     CancelPendingRequests, DeactivateCall
<1>3. CASE OnPrepare \/ PrepareSet \/ PrepareCancel \/ PrepareCall
  BY <1>3 DEF OnPrepare, PrepareSet, PrepareCancel, CancelPendingRequests, PrepareCall
<1>4. CASE OnActivate \/ ActivateCancel \/ ActivateCall \/ ActivateAccept
  BY <1>4 DEF OnActivate, ActivateCancel, CancelPendingRequests, ActivateCall, ActivateAccept
<1>5. CASE StateChange
  <2>1. CASE StartAction
    BY <2>1 DEF StartAction, SetStateAndWait
  <2>2. CASE CleanHospice
    BY <2>2 DEF CleanHospice
  <2>3. CASE CheckReject
    BY <2>3 DEF CheckReject
  <2>4. CASE Stamp
    BY <2>4 DEF Stamp
  <2>5. CASE Insert
    <3>1. CASE UNCHANGED queue
      BY <2>5, <3>1 DEF Insert
    <3>2. CASE queue' = Append(queue, mine)
      <4>1. /\ Len(queue) \in Nat /\ Len(queue') = Len(queue) + 1
            /\ \A i \in 1..Len(queue) : queue'[i] = queue[i]
            /\ queue'[Len(queue) + 1] = mine
        BY <3>2, Appended
      <4>2. \A i \in 1..Len(queue') : i = Len(queue) + 1 \/ i \in 1..Len(queue)
        BY <4>1
      <4>3. \A i \in 1..Len(queue') :
              /\ queue'[i].to = "kMotionEnabled" => queue'[i].from = "kMotionEnabling"
              /\ queue'[i].to # "kPrepared"
        BY <4>1, <4>2
      <4>4. /\ mine' = NoRequest /\ UNCHANGED <<want, ret, prev>>
            /\ \A t \in Threads : pc'[t] \in SetPcs => pc[t] \in SetPcs
        BY <2>5 DEF Insert
      <4> QED BY <4>3, <4>4
    <3> QED BY <2>5, <3>1, <3>2 DEF Insert
  <2>6. CASE TakeAnswer
    BY <2>6 DEF TakeAnswer
  <2>7. CASE WaitTimeout
    BY <2>7 DEF WaitTimeout, OverrunIf
  <2>8. CASE CallInstance
    BY <2>8 DEF CallInstance, SetStateAndWait
  <2>9. CASE ActionDone
    BY <2>9 DEF ActionDone
  <2> QED BY <1>5, <2>1, <2>2, <2>3, <2>4, <2>5, <2>6, <2>7, <2>8, <2>9 DEF StateChange
<1>6. CASE ReadCallback \/ ApplyCallback
  <2>1. CASE RespondToRequest \/ ReleaseRequest \/ EnabledTransitionHook \/ ReadStatus
             \/ OnApplyCommand \/ ApplyCommand \/ Finish("read") \/ Finish("apply")
    BY <2>1 DEF RespondToRequest, Respond, ReleaseRequest, EnabledTransitionHook, ReadStatus,
       Fault, Finish, CancelAfterFault, CancelPendingRequests, CheckAllocations, OnApplyCommand,
       ApplyCommand
  <2>2. CASE ProcessNextPendingRequest
    BY <2>2, TargetTaken
  <2> QED BY <1>6, <2>1, <2>2 DEF ReadCallback, ApplyCallback, Finish
<1>7. CASE IconLoop
  BY <1>7 DEF IconLoop, IconPrepare, IconPrepared, IconActivate, IconCall, IconActivated,
     IconRead, IconReadDone, IconUpdate, IconWrite, IconApplyDone, IconReadTimeout,
     IconWriteTimeout, IconTimeout, OverrunIf, LateReadDone, LateApplyDone, LateDone,
     IconDeactivate, IconDeactivated
<1>8. CASE IconStop \/ Stop \/ Restart
  BY <1>8 DEF IconStop, Stop, Shutdown, RequestStop, CancelPendingRequests, Restart
<1>9. CASE UNCHANGED vars
  BY <1>9 DEF vars
<1> QED
  BY <1>1, <1>2, <1>3, <1>4, <1>5, <1>6, <1>7, <1>8, <1>9 DEF Next, Steps, Lifecycle

\* Every way into kMotionEnabled passes Enabled(), every way out Disabled().
LEMMA NextHook == ASSUME IInv, [Next]_vars PROVE HookInv'
<1> USE DEF IInv, PcInv, PhaseInv, TargetInv, HookInv, TypeOK, Threads, TransitionGuard,
    AllowedFrom, SetPcs, DeactivatePcs, PreparePcs, RequestPcs, Actions, Goto, Move, SetState,
    Return, Icon, runtime, threads, client, stop, action
<1>1. ASSUME NEW t \in Threads, SetStateDirectly(t) PROVE HookInv'
  <2>1. CASE SetRefused(t)
    BY <2>1 DEF SetRefused
  <2>2. CASE SetMessage(t)
    BY <2>2 DEF SetMessage
  <2>3. CASE SetChecked(t)
    <3>1. /\ UNCHANGED <<code, overruns>> /\ pc' = [pc EXCEPT ![t] = "write"]
          /\ hooked' = (hooked /\ code # "kMotionEnabled") /\ code # want[t]
      BY <2>3 DEF SetChecked
    <3>2. code = "kMotionEnabled" => want'[t] # "kMotionEnabled"
      BY <2>3, <3>1 DEF SetChecked, Faults
    <3>3. pc'[t] = "write" /\ (pc'["apply"] = "applyCall" => pc["apply"] = "applyCall")
      BY <1>1, <3>1
    <3> QED BY <1>1, <3>1, <3>2, <3>3
  <2>4. CASE SetWrite(t)
    BY <2>4 DEF SetWrite
  <2> QED BY <1>1, <2>1, <2>2, <2>3, <2>4 DEF SetStateDirectly
<1>2. ASSUME NEW t \in {"sc", "dea"}, Deactivating(t) PROVE HookInv'
  BY <1>2 DEF Deactivating, OnDeactivate, DeactivateReject, AfterDeactivate, DeactivateCancel,
     CancelPendingRequests, DeactivateCall
<1>3. CASE OnPrepare \/ PrepareSet \/ PrepareCancel \/ PrepareCall
  BY <1>3 DEF OnPrepare, PrepareSet, PrepareCancel, CancelPendingRequests, PrepareCall
<1>4. CASE OnActivate \/ ActivateCancel \/ ActivateCall \/ ActivateAccept
  BY <1>4 DEF OnActivate, ActivateCancel, CancelPendingRequests, ActivateCall, ActivateAccept
<1>5. CASE StateChange
  BY <1>5 DEF StateChange, StartAction, SetStateAndWait, CleanHospice, CheckReject, Stamp,
     Insert, TakeAnswer, WaitTimeout, OverrunIf, CallInstance, ActionDone
<1>6. CASE ReadCallback \/ ApplyCallback
  BY <1>6 DEF ReadCallback, ApplyCallback, Finish, ProcessNextPendingRequest, Respond,
     RespondToRequest, ReleaseRequest, EnabledTransitionHook, ReadStatus, Fault,
     CancelAfterFault, CancelPendingRequests, CheckAllocations, OnApplyCommand, ApplyCommand
<1>7. CASE IconLoop
  BY <1>7 DEF IconLoop, IconPrepare, IconPrepared, IconActivate, IconCall, IconActivated,
     IconRead, IconReadDone, IconUpdate, IconWrite, IconApplyDone, IconReadTimeout,
     IconWriteTimeout, IconTimeout, OverrunIf, LateReadDone, LateApplyDone, LateDone,
     IconDeactivate, IconDeactivated
<1>8. CASE IconStop \/ Stop \/ Restart
  BY <1>8 DEF IconStop, Stop, Shutdown, RequestStop, CancelPendingRequests, Restart
<1>9. CASE UNCHANGED vars
  BY <1>9 DEF vars
<1> QED
  BY <1>1, <1>2, <1>3, <1>4, <1>5, <1>6, <1>7, <1>8, <1>9 DEF Next, Steps, Lifecycle

-----------------------------------------------------------------------------
(* One run of the loop after another, and the loop while deadlines are met. *)

\* When the loop starts again, no request of its last run is left.
LEMMA NextPrepare == ASSUME IInv, [Next]_vars PROVE PrepareInv'
<1> USE DEF IInv, PcInv, PhaseInv, StopInv, PrepareInv, TargetInv, TypeOK, TransitionGuard,
    AllowedFrom, LoopRuns, Threads, Actions, SetPcs, DeactivatePcs, PreparePcs, RequestPcs, Goto,
    Move, SetState, Return, Icon, runtime, threads, client, stop, action
<1>1. ASSUME NEW t \in Threads, SetStateDirectly(t) PROVE PrepareInv'
  <2>1. CASE SetMessage(t)
    BY <2>1 DEF SetMessage
  <2>2. CASE SetRefused(t)
    BY <2>2 DEF SetRefused
  <2>3. CASE SetChecked(t)
    BY <2>3 DEF SetChecked
  <2>4. CASE SetWrite(t)
    BY <2>4 DEF SetWrite
  <2> QED BY <1>1, <2>1, <2>2, <2>3, <2>4 DEF SetStateDirectly
<1>2. ASSUME NEW t \in {"sc", "dea"}, Deactivating(t) PROVE PrepareInv'
  BY <1>2 DEF Deactivating, OnDeactivate, DeactivateReject, AfterDeactivate, DeactivateCancel,
     CancelPendingRequests, DeactivateCall
<1>3. CASE OnPrepare \/ PrepareSet \/ PrepareCancel \/ PrepareCall
  BY <1>3 DEF OnPrepare, PrepareSet, PrepareCancel, CancelPendingRequests, PrepareCall
<1>4. CASE OnActivate \/ ActivateCancel \/ ActivateCall \/ ActivateAccept
  BY <1>4 DEF OnActivate, ActivateCancel, CancelPendingRequests, ActivateCall, ActivateAccept
<1>5. CASE StateChange
  BY <1>5 DEF StateChange, StartAction, SetStateAndWait, CleanHospice, CheckReject, Stamp,
     Insert, TakeAnswer, WaitTimeout, OverrunIf, CallInstance, ActionDone
<1>6. CASE ReadCallback \/ ApplyCallback
  BY <1>6 DEF ReadCallback, ApplyCallback, Finish, ProcessNextPendingRequest, Respond,
     RespondToRequest, ReleaseRequest, EnabledTransitionHook, ReadStatus, Fault,
     CancelAfterFault, CancelPendingRequests, CheckAllocations, OnApplyCommand, ApplyCommand
<1>7. CASE IconLoop
  BY <1>7 DEF IconLoop, IconPrepare, IconPrepared, IconActivate, IconCall, IconActivated,
     IconRead, IconReadDone, IconUpdate, IconWrite, IconApplyDone, IconReadTimeout,
     IconWriteTimeout, IconTimeout, OverrunIf, LateReadDone, LateApplyDone, LateDone,
     IconDeactivate, IconDeactivated
<1>8. CASE IconStop \/ Stop \/ Restart
  BY <1>8 DEF IconStop, Stop, Shutdown, RequestStop, CancelPendingRequests, Restart
<1>9. CASE UNCHANGED vars
  BY <1>9 DEF vars
<1> QED
  BY <1>1, <1>2, <1>3, <1>4, <1>5, <1>6, <1>7, <1>8, <1>9 DEF Next, Steps, Lifecycle

\* When the loop starts again, Prepare() has succeeded and no fault is left.
LEMMA NextActivate == ASSUME IInv, [Next]_vars PROVE ActivateInv'
<1> USE DEF IInv, PcInv, PhaseInv, PrepareInv, ActivateInv, TargetInv, TypeOK, TransitionGuard,
    AllowedFrom, LoopRuns, Threads, Actions, SetPcs, DeactivatePcs, PreparePcs, RequestPcs,
    Goto, Move, SetState, Return, Icon, runtime, threads, client, stop, action
<1>1. ASSUME NEW t \in Threads, SetStateDirectly(t) PROVE ActivateInv'
  <2>1. CASE SetRefused(t) \/ SetMessage(t)
    BY <2>1 DEF SetRefused, SetMessage
  <2>2. CASE SetChecked(t)
    BY <2>2 DEF SetChecked
  <2>3. CASE SetWrite(t)
    BY <2>3 DEF SetWrite
  <2> QED BY <1>1, <2>1, <2>2, <2>3 DEF SetStateDirectly
<1>2. ASSUME NEW t \in {"sc", "dea"}, Deactivating(t) PROVE ActivateInv'
  BY <1>2 DEF Deactivating, OnDeactivate, DeactivateReject, AfterDeactivate, DeactivateCancel,
     CancelPendingRequests, DeactivateCall
<1>3. CASE OnPrepare \/ PrepareSet \/ PrepareCancel \/ PrepareCall
  BY <1>3 DEF OnPrepare, PrepareSet, PrepareCancel, CancelPendingRequests, PrepareCall
<1>4. CASE OnActivate \/ ActivateCancel \/ ActivateCall \/ ActivateAccept
  BY <1>4 DEF OnActivate, ActivateCancel, CancelPendingRequests, ActivateCall, ActivateAccept
<1>5. CASE StateChange
  BY <1>5 DEF StateChange, StartAction, SetStateAndWait, CleanHospice, CheckReject, Stamp,
     Insert, TakeAnswer, WaitTimeout, OverrunIf, CallInstance, ActionDone
<1>6. CASE ReadCallback \/ ApplyCallback
  BY <1>6 DEF ReadCallback, ApplyCallback, Finish, ProcessNextPendingRequest, Respond,
     RespondToRequest, ReleaseRequest, EnabledTransitionHook, ReadStatus, Fault,
     CancelAfterFault, CancelPendingRequests, CheckAllocations, OnApplyCommand, ApplyCommand
<1>7. CASE IconLoop
  BY <1>7 DEF IconLoop, IconPrepare, IconPrepared, IconActivate, IconCall, IconActivated,
     IconRead, IconReadDone, IconUpdate, IconWrite, IconApplyDone, IconReadTimeout,
     IconWriteTimeout, IconTimeout, OverrunIf, LateReadDone, LateApplyDone, LateDone,
     IconDeactivate, IconDeactivated
<1>8. CASE IconStop \/ Stop \/ Restart
  BY <1>8 DEF IconStop, Stop, Shutdown, RequestStop, CancelPendingRequests, Restart
<1>9. CASE UNCHANGED vars
  BY <1>9 DEF vars
<1> QED
  BY <1>1, <1>2, <1>3, <1>4, <1>5, <1>6, <1>7, <1>8, <1>9 DEF Next, Steps, Lifecycle

\* What is waited for is the first or the second request of the action under way.
LEMMA NextAsk == ASSUME IInv, [Next]_vars PROVE AskInv'
<1> USE DEF IInv, PcInv, PhaseInv, OwnInv, AskInv, Asks, TypeOK, Request, NoRequest, Outdated,
    TransitionGuard, AllowedFrom, Threads, Transient, Final, FaultCodes, Actions, SetPcs,
    DeactivatePcs, PreparePcs, RequestPcs, Goto, Move, SetState, Return, Icon, runtime, threads,
    client, stop, action
<1>1. ASSUME NEW t \in Threads, SetStateDirectly(t) PROVE AskInv'
  <2>1. CASE SetRefused(t) \/ SetMessage(t) \/ SetChecked(t)
    BY <2>1 DEF SetRefused, SetMessage, SetChecked
  <2>2. CASE SetWrite(t)
    BY <2>2 DEF SetWrite
  <2> QED BY <1>1, <2>1, <2>2 DEF SetStateDirectly
<1>2. ASSUME NEW t \in {"sc", "dea"}, Deactivating(t) PROVE AskInv'
  BY <1>2 DEF Deactivating, OnDeactivate, DeactivateReject, AfterDeactivate, DeactivateCancel,
     CancelPendingRequests, DeactivateCall
<1>3. CASE OnPrepare \/ PrepareSet \/ PrepareCancel \/ PrepareCall
  BY <1>3 DEF OnPrepare, PrepareSet, PrepareCancel, CancelPendingRequests, PrepareCall
<1>4. CASE OnActivate \/ ActivateCancel \/ ActivateCall \/ ActivateAccept
  BY <1>4 DEF OnActivate, ActivateCancel, CancelPendingRequests, ActivateCall, ActivateAccept
<1>5. CASE StateChange
  <2>1. CASE StartAction
    BY <2>1 DEF StartAction, SetStateAndWait
  <2>2. CASE CleanHospice
    BY <2>2 DEF CleanHospice
  <2>3. CASE CheckReject
    BY <2>3 DEF CheckReject
  <2>4. CASE Stamp
    BY <2>4 DEF Stamp
  <2>5. CASE Insert
    <3>1. CASE pc'["sc"] = "done"
      BY <2>5, <3>1 DEF Insert
    <3>2. CASE queue' = Append(queue, mine) /\ pc'["sc"] = "wait"
      <4>1. /\ Len(queue) \in Nat /\ Len(queue') = Len(queue) + 1
            /\ \A i \in 1..Len(queue) : queue'[i] = queue[i]
            /\ queue'[Len(queue) + 1] = mine
        BY <3>2, Appended
      <4>2. ~item.owned /\ item' = item /\ \A i \in 1..Len(queue) : ~queue[i].owned
        BY <2>5 DEF Insert
      <4>3. \A r : Asks(r)' <=> Asks(r)
        BY <2>5 DEF Insert
      <4>4. Asks(mine)
        BY <2>5 DEF Insert
      <4> HIDE DEF Asks
      <4> QED BY <3>2, <4>1, <4>2, <4>3, <4>4
    <3> QED BY <2>5, <3>1, <3>2 DEF Insert
  <2>6. CASE TakeAnswer
    BY <2>6 DEF TakeAnswer
  <2>7. CASE WaitTimeout
    BY <2>7 DEF WaitTimeout, OverrunIf
  <2>8. CASE CallInstance
    BY <2>8 DEF CallInstance, SetStateAndWait
  <2>9. CASE ActionDone
    BY <2>9 DEF ActionDone
  <2> QED BY <1>5, <2>1, <2>2, <2>3, <2>4, <2>5, <2>6, <2>7, <2>8, <2>9 DEF StateChange
<1>6. CASE ReadCallback \/ ApplyCallback
  <2>1. CASE RespondToRequest \/ ReleaseRequest \/ EnabledTransitionHook \/ ReadStatus
             \/ OnApplyCommand \/ ApplyCommand \/ Finish("read") \/ Finish("apply")
    BY <2>1 DEF RespondToRequest, Respond, ReleaseRequest, EnabledTransitionHook, ReadStatus,
       Fault, Finish, CancelAfterFault, CancelPendingRequests, CheckAllocations, OnApplyCommand,
       ApplyCommand
  <2>2. CASE ProcessNextPendingRequest
    <3>1. CASE queue = <<>>
      BY <2>2, <3>1 DEF ProcessNextPendingRequest
    <3>2. CASE queue # <<>>
      <4>1. /\ item' = queue[1] /\ 1 \in 1..Len(queue)
            /\ \A i \in 1..Len(queue') : i + 1 \in 1..Len(queue) /\ queue'[i] = queue[i + 1]
        BY <2>2, <3>2, RequestTaken
      <4>2. pc'["sc"] = pc["sc"] /\ ret'["sc"] = ret["sc"] /\ UNCHANGED <<op, mine>>
        BY <2>2, <3>2 DEF ProcessNextPendingRequest
      <4>3. \A r : Asks(r)' <=> Asks(r)
        BY <4>2
      <4> HIDE DEF Asks
      <4> QED BY <4>1, <4>2, <4>3
    <3> QED BY <3>1, <3>2
  <2> QED BY <1>6, <2>1, <2>2 DEF ReadCallback, ApplyCallback, Finish
<1>7. CASE IconLoop
  BY <1>7 DEF IconLoop, IconPrepare, IconPrepared, IconActivate, IconCall, IconActivated,
     IconRead, IconReadDone, IconUpdate, IconWrite, IconApplyDone, IconReadTimeout,
     IconWriteTimeout, IconTimeout, OverrunIf, LateReadDone, LateApplyDone, LateDone,
     IconDeactivate, IconDeactivated
<1>8. CASE IconStop \/ Stop \/ Restart
  BY <1>8 DEF IconStop, Stop, Shutdown, RequestStop, CancelPendingRequests, Restart
<1>9. CASE UNCHANGED vars
  BY <1>9 DEF vars
<1> QED
  BY <1>1, <1>2, <1>3, <1>4, <1>5, <1>6, <1>7, <1>8, <1>9 DEF Next, Steps, Lifecycle

\* While every deadline is met, only the real-time threads change the state in the loop.
LEMMA NextLoop == ASSUME IInv, [Next]_vars PROVE LoopInv'
<1> USE DEF IInv, PrepareInv, ActivateInv, PcInv, PhaseInv, StopInv, OwnInv, AskInv, Asks,
    LoopInv, Begun, TransientInv, Serving, LoopRuns, TypeOK, Request, NoRequest, Outdated,
    TransitionGuard, AllowedFrom, Threads, Transient, Final, FaultCodes, TransientCodes,
    LoopCodes, Actions, SetPcs, DeactivatePcs, PreparePcs, RequestPcs, Goto, Move, SetState,
    Return, Icon, runtime, threads, client, stop, action
<1>1. ASSUME NEW t \in Threads, SetStateDirectly(t) PROVE LoopInv'
  <2>1. CASE SetRefused(t)
    BY <2>1 DEF SetRefused
  <2>2. CASE SetMessage(t)
    BY <2>2 DEF SetMessage
  <2>3. CASE SetChecked(t)
    BY <2>3 DEF SetChecked
  <2>4. CASE SetWrite(t)
    BY <2>4 DEF SetWrite
  <2> QED BY <1>1, <2>1, <2>2, <2>3, <2>4 DEF SetStateDirectly
<1>2. ASSUME NEW t \in {"sc", "dea"}, Deactivating(t) PROVE LoopInv'
  BY <1>2 DEF Deactivating, OnDeactivate, DeactivateReject, AfterDeactivate, DeactivateCancel,
     CancelPendingRequests, DeactivateCall
<1>3. CASE OnPrepare \/ PrepareSet \/ PrepareCancel \/ PrepareCall
  BY <1>3 DEF OnPrepare, PrepareSet, PrepareCancel, CancelPendingRequests, PrepareCall
<1>4. CASE OnActivate \/ ActivateCancel \/ ActivateCall \/ ActivateAccept
  BY <1>4 DEF OnActivate, ActivateCancel, CancelPendingRequests, ActivateCall, ActivateAccept
<1>5. CASE StateChange
  <2>1. CASE CleanHospice \/ CheckReject \/ Stamp \/ TakeAnswer \/ WaitTimeout \/ ActionDone
    BY <2>1 DEF CleanHospice, CheckReject, Stamp, TakeAnswer, WaitTimeout, OverrunIf,
       ActionDone
  <2>2. CASE StartAction
    BY <2>2 DEF StartAction, SetStateAndWait
  <2>3. CASE Insert
    BY <2>3 DEF Insert
  <2>4. CASE CallInstance
    BY <2>4 DEF CallInstance, SetStateAndWait
  <2> QED BY <1>5, <2>1, <2>2, <2>3, <2>4 DEF StateChange
<1>6. CASE ReadCallback \/ ApplyCallback
  <2>1. CASE RespondToRequest \/ ReleaseRequest \/ EnabledTransitionHook \/ ReadStatus
             \/ OnApplyCommand \/ ApplyCommand \/ Finish("read") \/ Finish("apply")
    BY <2>1 DEF RespondToRequest, Respond, ReleaseRequest, EnabledTransitionHook, ReadStatus,
       Fault, Finish, CancelAfterFault, CancelPendingRequests, CheckAllocations, OnApplyCommand,
       ApplyCommand
  <2>2. CASE ProcessNextPendingRequest
    BY <2>2 DEF ProcessNextPendingRequest, Respond
  <2> QED BY <1>6, <2>1, <2>2 DEF ReadCallback, ApplyCallback, Finish
<1>7. CASE IconLoop
  BY <1>7 DEF IconLoop, IconPrepare, IconPrepared, IconActivate, IconCall, IconActivated,
     IconRead, IconReadDone, IconUpdate, IconWrite, IconApplyDone, IconReadTimeout,
     IconWriteTimeout, IconTimeout, OverrunIf, LateReadDone, LateApplyDone, LateDone,
     IconDeactivate, IconDeactivated
<1>8. CASE IconStop \/ Stop \/ Restart
  BY <1>8 DEF IconStop, Stop, Shutdown, RequestStop, CancelPendingRequests, Restart
<1>9. CASE UNCHANGED vars
  BY <1>9 DEF vars
<1> QED
  BY <1>1, <1>2, <1>3, <1>4, <1>5, <1>6, <1>7, <1>8, <1>9 DEF Next, Steps, Lifecycle

\* A transient state is written only for the action that waits for it.
LEMMA TransientWritten == ASSUME IInv, NEW t \in Threads, SetWrite(t) PROVE TransientInv'
<1>1. SUFFICES ASSUME overruns = 0, LoopRuns, "requests" \notin stopped, NEW a \in Actions,
                      want[t] = Transient[a]
      PROVE  op = a /\ Begun'
  BY DEF SetWrite, TransientInv, client, stop, action, LoopRuns
<1>0. want[t] \notin FaultCodes
  BY <1>1 DEF Actions, Transient, FaultCodes
<1>2. t = "read"
  BY <1>0, <1>1 DEF IInv, SetWrite, PhaseInv, LoopInv, Threads, LoopRuns, PreparePcs, SetPcs
<1>3. want["read"] \notin FaultCodes
  BY <1>0, <1>2
<1>4. Serving /\ want["read"] = item.to /\ item.owned /\ changed["read"]
  BY <1>1, <1>2, <1>3 DEF IInv, LoopInv, Serving, SetPcs, SetWrite, FaultCodes
<1>5. pc["sc"] = "wait" /\ Asks(item) /\ op \in Actions
  BY <1>4 DEF IInv, OwnInv, AskInv, PhaseInv, RequestPcs
<1>6. ret["sc"] = "call" /\ op = a
  BY <1>1, <1>2, <1>4, <1>5 DEF Asks, Actions, Transient, Final, FaultCodes
<1> QED BY <1>2, <1>4, <1>5, <1>6 DEF SetWrite, Return, Begun, Serving, IInv, PcInv, TypeOK, Threads

\* The second request of an action applies: no state is written in between.
LEMMA NextTransient == ASSUME IInv, [Next]_vars PROVE TransientInv'
<1> USE DEF IInv, PcInv, PhaseInv, StopInv, OwnInv, AskInv, Asks, LoopInv, Begun, TransientInv,
    Serving, LoopRuns, TypeOK, Request, NoRequest, Outdated, TransitionGuard, AllowedFrom,
    Threads, Transient, Final, FaultCodes, TransientCodes, LoopCodes, Actions, SetPcs,
    DeactivatePcs, PreparePcs, RequestPcs, Goto, Move, SetState, Return, Icon, runtime, threads,
    client, stop, action
<1>1. ASSUME NEW t \in Threads, SetStateDirectly(t) PROVE TransientInv'
  <2>1. CASE SetRefused(t)
    BY <2>1, QueueSizeAssumption DEF SetRefused
  <2>2. CASE SetMessage(t)
    BY <2>2, QueueSizeAssumption DEF SetMessage
  <2>3. CASE SetChecked(t)
    BY <2>3, QueueSizeAssumption DEF SetChecked
  <2>4. CASE SetWrite(t)
    BY <2>4, TransientWritten
  <2> QED BY <1>1, <2>1, <2>2, <2>3, <2>4 DEF SetStateDirectly
<1>2. ASSUME NEW t \in {"sc", "dea"}, Deactivating(t) PROVE TransientInv'
  BY <1>2, QueueSizeAssumption DEF Deactivating, OnDeactivate, DeactivateReject,
     AfterDeactivate, DeactivateCancel, CancelPendingRequests, DeactivateCall
<1>3. CASE OnPrepare \/ PrepareSet \/ PrepareCancel \/ PrepareCall
  BY <1>3, QueueSizeAssumption DEF OnPrepare, PrepareSet, PrepareCancel, CancelPendingRequests,
     PrepareCall
<1>4. CASE OnActivate \/ ActivateCancel \/ ActivateCall \/ ActivateAccept
  BY <1>4, QueueSizeAssumption DEF OnActivate, ActivateCancel, CancelPendingRequests,
     ActivateCall, ActivateAccept
<1>5. CASE StateChange
  <2>1. CASE StartAction
    BY <2>1, QueueSizeAssumption DEF StartAction, SetStateAndWait
  <2>2. CASE CleanHospice
    BY <2>2, QueueSizeAssumption DEF CleanHospice
  <2>3. CASE CheckReject
    BY <2>3, QueueSizeAssumption DEF CheckReject
  <2>4. CASE Stamp
    BY <2>4, QueueSizeAssumption DEF Stamp
  <2>5. CASE Insert
    BY <2>5, QueueSizeAssumption DEF Insert
  <2>6. CASE TakeAnswer
    <3>1. SUFFICES ASSUME overruns = 0, LoopRuns, "requests" \notin stopped, NEW a \in Actions,
                          code = Transient[a]
          PROVE  op = a /\ pc'["sc"] = "call"
      BY <2>6, <3>1 DEF TakeAnswer
    <3>2. ~Serving /\ pc["read"] # "respond" /\ queue = <<>>
      BY <2>6, <3>1 DEF TakeAnswer
    <3>3. op = a /\ ret["sc"] = "call" /\ answer = "ok"
      BY <2>6, <3>1, <3>2 DEF TakeAnswer
    <3> QED BY <2>6, <3>3 DEF TakeAnswer
  <2>7. CASE WaitTimeout
    BY <2>7, QueueSizeAssumption DEF WaitTimeout, OverrunIf
  <2>8. CASE CallInstance
    BY <2>8, QueueSizeAssumption DEF CallInstance, SetStateAndWait
  <2>9. CASE ActionDone
    BY <2>9, QueueSizeAssumption DEF ActionDone
  <2> QED BY <1>5, <2>1, <2>2, <2>3, <2>4, <2>5, <2>6, <2>7, <2>8, <2>9 DEF StateChange
<1>6. CASE ReadCallback \/ ApplyCallback
  <2>1. CASE RespondToRequest \/ ReleaseRequest \/ EnabledTransitionHook \/ ReadStatus
             \/ OnApplyCommand \/ ApplyCommand \/ Finish("read") \/ Finish("apply")
    BY <2>1, QueueSizeAssumption DEF RespondToRequest, Respond, ReleaseRequest,
       EnabledTransitionHook, ReadStatus, Fault, Finish, CancelAfterFault,
       CancelPendingRequests, CheckAllocations, OnApplyCommand, ApplyCommand
  <2>2. CASE ProcessNextPendingRequest
    BY <2>2, QueueSizeAssumption DEF ProcessNextPendingRequest, Respond
  <2> QED BY <1>6, <2>1, <2>2 DEF ReadCallback, ApplyCallback, Finish
<1>7. CASE IconLoop
  BY <1>7, QueueSizeAssumption DEF IconLoop, IconPrepare, IconPrepared, IconActivate, IconCall,
     IconActivated, IconRead, IconReadDone, IconUpdate, IconWrite, IconApplyDone,
     IconReadTimeout, IconWriteTimeout, IconTimeout, OverrunIf, LateReadDone, LateApplyDone,
     LateDone, IconDeactivate, IconDeactivated
<1>8. CASE IconStop \/ Stop \/ Restart
  BY <1>8, QueueSizeAssumption DEF IconStop, Stop, Shutdown, RequestStop, CancelPendingRequests,
     Restart
<1>9. CASE UNCHANGED vars
  BY <1>9 DEF vars
<1> QED
  BY <1>1, <1>2, <1>3, <1>4, <1>5, <1>6, <1>7, <1>8, <1>9 DEF Next, Steps, Lifecycle

\* A fault of a real-time call is going to be the state, before anything else is written.
LEMMA HealthFault ==
  ASSUME IInv, NEW to \in FaultCodes, NEW t \in {"read", "apply"}, NEW l, SetState(t, to, l)
  PROVE  HealthInv'
BY DEF IInv, TypeOK, PcInv, SetState, HealthInv, Threads, SetPcs

\* A step of a real-time thread that changes no state and reports no fault is harmless.
LEMMA HealthMove ==
  ASSUME IInv, NEW t \in {"read", "apply"}, NEW from, NEW to, Move(t, from, to),
         from \notin SetPcs, to \notin SetPcs,
         UNCHANGED <<code, queue, op, mine, icon, overruns, faulty>>
  PROVE  HealthInv'
BY DEF IInv, PcInv, Move, Goto, HealthInv, LoopRuns, Threads

\* The calls of a cycle that may report a fault.
LEMMA HealthRealtime ==
  ASSUME IInv, EnabledTransitionHook \/ ReadStatus \/ ApplyCommand
                 \/ CheckAllocations("read") \/ CheckAllocations("apply")
  PROVE  HealthInv'
BY HealthFault, HealthMove DEF EnabledTransitionHook, ReadStatus, CheckAllocations,
   ApplyCommand, Fault, Move, SetPcs, FaultCodes, client, stop, action

\* An action reports its fault while the module is in the transient state.
LEMMA HealthCalled == ASSUME IInv, CallInstance PROVE HealthInv'
<1>1. SUFFICES ASSUME overruns = 0, LoopRuns, faulty', code \notin FaultCodes, 
                     ~(pc["read"] \in SetPcs /\ want["read"] \in FaultCodes),
                     ~(pc["apply"] \in SetPcs /\ want["apply"] \in FaultCodes)
      PROVE  HealthInv'
  BY DEF CallInstance, HealthInv, client, stop, SetStateAndWait, SetPcs, LoopRuns, IInv, PcInv,
     Threads
<1>2. pc["sc"] = "call" /\ op \in Actions /\ code \in TransientCodes
  BY <1>1 DEF CallInstance, IInv, PhaseInv, LoopInv, Begun
<1>3. queue = <<>> /\ pc["read"] \notin SetPcs
  BY <1>1, <1>2 DEF IInv, OwnInv, LoopInv, Serving, TypeOK
<1>4. ~(SetStateAndWait(Transient[op], Final[op], "done")
          /\ faulty' = (faulty /\ op # "ClearFaults"))
  BY <1>1, <1>2 DEF IInv, HealthInv
<1>5. PICK to \in FaultCodes : SetStateAndWait(Transient[op], to, "done")
  BY <1>4 DEF CallInstance, FaultCodes
<1> QED BY <1>2, <1>3, <1>5 DEF CallInstance, SetStateAndWait, HealthInv, client, stop, IInv,
   PcInv, Threads, RequestPcs

\* A Disabled() that fails turns the state to be written into a fault.
LEMMA HealthChecked == ASSUME IInv, NEW t \in Threads, SetChecked(t) PROVE HealthInv'
<1>1. SUFFICES ASSUME overruns = 0, LoopRuns, faulty' PROVE HealthInv'
  BY DEF SetChecked, HealthInv, client, stop, LoopRuns
<1>2. t \in {"read", "apply"}
  BY <1>1 DEF IInv, SetChecked, PhaseInv, Threads, LoopRuns, PreparePcs, SetPcs
<1>3. CASE UNCHANGED <<want, faulty>>
  BY <1>1, <1>2, <1>3 DEF SetChecked, IInv, HealthInv, PcInv, Threads, SetPcs, action
<1>4. CASE want' = [want EXCEPT ![t] = IF @ \in Faults THEN @ ELSE "kFaulted"]
  <2>1. want[t] # "kInitFailed"
    <3>1. CASE t = "read" /\ Serving
      <4>1. item.owned /\ want[t] = item.to
        BY <1>1, <3>1 DEF SetChecked, IInv, LoopInv
      <4>2. Asks(item) /\ op \in Actions
        BY <4>1 DEF IInv, OwnInv, AskInv, PhaseInv, RequestPcs
      <4> QED BY <4>1, <4>2 DEF Asks, Actions, Transient, Final, FaultCodes
    <3>2. CASE ~(t = "read" /\ Serving)
      BY <1>1, <1>2, <3>2 DEF SetChecked, IInv, LoopInv, Serving, SetPcs, FaultCodes
    <3> QED BY <3>1, <3>2
  <2>2. pc'[t] \in SetPcs /\ want'[t] \in FaultCodes
    BY <1>2, <1>4, <2>1 DEF SetChecked, IInv, PcInv, TypeOK, Threads, SetPcs, Faults, FaultCodes
  <2> QED BY <1>2, <2>2 DEF HealthInv
<1> QED BY <1>3, <1>4 DEF SetChecked

\* What is written is a fault, or the state that the request of the action asks for.
LEMMA HealthWritten == ASSUME IInv, NEW t \in Threads, SetWrite(t) PROVE HealthInv'
<1>1. SUFFICES ASSUME overruns = 0, LoopRuns, faulty, want[t] \notin FaultCodes PROVE HealthInv'
  BY DEF SetWrite, HealthInv, client, LoopRuns
<1>2. t = "read"
  BY <1>1 DEF IInv, SetWrite, PhaseInv, LoopInv, Threads, LoopRuns, PreparePcs, SetPcs
<1>3. Serving /\ want["read"] = item.to /\ item.owned /\ item.from = code
  BY <1>1, <1>2 DEF IInv, LoopInv, Serving, SetPcs, SetWrite, FaultCodes
<1>4. pc["sc"] = "wait" /\ Asks(item) /\ op \in Actions /\ ret["sc"] \in {"call", "done"}
  BY <1>3 DEF IInv, OwnInv, AskInv, PhaseInv, PcInv, RequestPcs
<1>5. pc["apply"] \notin SetPcs /\ queue = <<>>
  BY <1>1, <1>3 DEF IInv, PhaseInv, LoopInv, OwnInv, TypeOK, Serving, SetPcs
<1>6. code \in FaultCodes \cup TransientCodes
  BY <1>1, <1>2, <1>5 DEF IInv, HealthInv
<1>7. ret["sc"] = "call" /\ op = "ClearFaults" /\ want["read"] \in TransientCodes
  <2>1. CASE code \in FaultCodes
    BY <1>3, <1>4, <2>1 DEF Asks, Actions, AllowedFrom, Transient, FaultCodes, TransientCodes
  <2>2. CASE code \in TransientCodes
    BY <1>1, <1>2, <1>3, <1>4, <1>5, <2>2 DEF IInv, HealthInv, Asks, Actions, AllowedFrom,
       Transient, Final, FaultCodes, TransientCodes, Serving, SetPcs
  <2> QED BY <1>6, <2>1, <2>2
<1>8. /\ code' = want["read"] /\ queue' = <<>> /\ op' = op
      /\ pc'["sc"] = "wait" /\ ret'["sc"] = "call" /\ pc'["read"] = "respond"
  BY <1>2, <1>3, <1>4, <1>5, <1>7 DEF SetWrite, Return, Serving, IInv, PcInv, Threads
<1> QED BY <1>7, <1>8 DEF HealthInv, SetPcs, RequestPcs

\* A fault is the state, is going to be, or keeps the second request from making
\* the module ready.
LEMMA NextHealth == ASSUME IInv, [Next]_vars PROVE HealthInv'
<1> USE DEF IInv, ActivateInv, HealthInv, PcInv, PhaseInv, StopInv, OwnInv, AskInv, Asks,
    LoopInv, Begun, TransientInv, Serving, LoopRuns, TypeOK, Request, NoRequest, Outdated,
    TransitionGuard, AllowedFrom, Threads, Transient, Final, FaultCodes, TransientCodes,
    LoopCodes, Actions, SetPcs, DeactivatePcs, PreparePcs, RequestPcs, Goto, Move, SetState,
    Return, Icon, runtime, threads, client, stop, action
<1>1. ASSUME NEW t \in Threads, SetStateDirectly(t) PROVE HealthInv'
  <2>1. CASE SetRefused(t)
    BY <2>1 DEF SetRefused
  <2>2. CASE SetMessage(t)
    BY <2>2 DEF SetMessage
  <2>3. CASE SetChecked(t)
    BY <2>3, HealthChecked
  <2>4. CASE SetWrite(t)
    BY <2>4, HealthWritten
  <2> QED BY <1>1, <2>1, <2>2, <2>3, <2>4 DEF SetStateDirectly
<1>2. ASSUME NEW t \in {"sc", "dea"}, Deactivating(t) PROVE HealthInv'
  BY <1>2 DEF Deactivating, OnDeactivate, DeactivateReject, AfterDeactivate, DeactivateCancel,
     CancelPendingRequests, DeactivateCall
<1>3. CASE OnPrepare \/ PrepareSet \/ PrepareCancel \/ PrepareCall
  BY <1>3 DEF OnPrepare, PrepareSet, PrepareCancel, CancelPendingRequests, PrepareCall
<1>4. CASE OnActivate \/ ActivateCancel \/ ActivateCall \/ ActivateAccept
  BY <1>4 DEF OnActivate, ActivateCancel, CancelPendingRequests, ActivateCall, ActivateAccept
<1>5. CASE StateChange
  <2>1. CASE StartAction
    BY <2>1 DEF StartAction, SetStateAndWait
  <2>2. CASE CleanHospice
    BY <2>2 DEF CleanHospice
  <2>3. CASE CheckReject
    BY <2>3 DEF CheckReject
  <2>4. CASE Stamp
    BY <2>4 DEF Stamp
  <2>5. CASE Insert
    BY <2>5 DEF Insert
  <2>6. CASE TakeAnswer
    BY <2>6 DEF TakeAnswer
  <2>7. CASE WaitTimeout
    BY <2>7 DEF WaitTimeout, OverrunIf
  <2>8. CASE CallInstance
    BY <2>8, HealthCalled
  <2>9. CASE ActionDone
    BY <2>9 DEF ActionDone
  <2> QED BY <1>5, <2>1, <2>2, <2>3, <2>4, <2>5, <2>6, <2>7, <2>8, <2>9 DEF StateChange
<1>6. CASE ReadCallback \/ ApplyCallback
  <2>1. CASE ProcessNextPendingRequest
    BY <2>1 DEF ProcessNextPendingRequest, Respond
  <2>2. CASE RespondToRequest
    BY <2>2 DEF RespondToRequest, Respond
  <2>3. CASE ReleaseRequest
    BY <2>3 DEF ReleaseRequest
  <2>4. CASE EnabledTransitionHook
    BY <2>4, HealthRealtime
  <2>5. CASE ReadStatus
    BY <2>5, HealthRealtime
  <2>6. ASSUME NEW t \in {"read", "apply"}, NEW from, NEW to, CancelAfterFault(t, from, to),
               from \notin SetPcs, to \notin SetPcs
        PROVE  HealthInv'
    BY <2>6 DEF CancelAfterFault, CancelPendingRequests
  <2>7. CASE Finish("read") \/ Finish("apply")
    <3> HIDE DEF HealthInv, IInv
    <3>1. {"cancelThenAlloc", "cancelThenDone", "alloc", "done"} \cap SetPcs = {}
      OBVIOUS
    <3> QED BY <2>6, <2>7, <3>1, HealthRealtime DEF Finish
  <2>8. CASE OnApplyCommand
    BY <2>8 DEF OnApplyCommand
  <2>9. CASE ApplyCommand
    BY <2>9, HealthRealtime
  <2> QED BY <1>6, <2>1, <2>2, <2>3, <2>4, <2>5, <2>7, <2>8, <2>9 DEF ReadCallback, ApplyCallback
<1>7. CASE IconLoop
  <2>1. CASE IconActivated
    BY <2>1 DEF IconActivated
  <2>2. CASE IconWrite
    BY <2>2 DEF IconWrite, IconCall
  <2>3. CASE IconPrepare \/ IconPrepared \/ IconActivate \/ IconDeactivate \/ IconDeactivated
    BY <2>3 DEF IconPrepare, IconPrepared, IconActivate, IconCall, IconDeactivate,
       IconDeactivated
  <2>4. CASE IconRead
    BY <2>4 DEF IconRead, IconCall
  <2>5. CASE IconReadTimeout \/ IconWriteTimeout \/ LateReadDone \/ LateApplyDone
    BY <2>5 DEF IconReadTimeout, IconWriteTimeout, IconTimeout, OverrunIf, LateReadDone,
       LateApplyDone, LateDone
  <2>6. CASE IconUpdate
    BY <2>6 DEF IconUpdate
  <2>7. CASE IconApplyDone
    BY <2>7 DEF IconApplyDone
  <2>8. CASE IconReadDone
    BY <2>8 DEF IconReadDone
  <2> QED BY <1>7, <2>1, <2>2, <2>3, <2>4, <2>5, <2>6, <2>7, <2>8 DEF IconLoop
<1>8. CASE IconStop \/ Stop \/ Restart
  <2>1. CASE IconStop
    BY <2>1 DEF IconStop
  <2>2. CASE Stop
    <3>1. CASE Shutdown
      BY <3>1 DEF Shutdown, CancelPendingRequests
    <3>2. CASE \E t \in DOMAIN StopAfter : RequestStop(t)
      BY <3>2 DEF RequestStop
    <3> QED BY <2>2, <3>1, <3>2 DEF Stop
  <2>3. CASE Restart
    BY <2>3 DEF Restart
  <2> QED BY <1>8, <2>1, <2>2, <2>3
<1>9. CASE UNCHANGED vars
  BY <1>9 DEF vars
<1> QED
  BY <1>1, <1>2, <1>3, <1>4, <1>5, <1>6, <1>7, <1>8, <1>9 DEF Next, Steps, Lifecycle

-----------------------------------------------------------------------------
\* A module that has just started satisfies the invariant.
LEMMA InitIInv == ASSUME Init PROVE IInv
<1> USE DEF Init
<1>1. TypeOK
  <2>1. /\ code \in StateCode /\ prev \in StateCode /\ cached \in StateCode
        /\ want \in [Threads -> StateCode] /\ item \in Request /\ mine \in Request
    BY Codes, NoRequestType
  <2>2. queue \in Seq(Request) /\ Len(queue) <= QueueSize /\ hospice \in Nat
    BY QueueSizeAssumption
  <2>3. /\ changed \in [Threads -> BOOLEAN]
        /\ reject \in BOOLEAN /\ reopened \in BOOLEAN /\ hooked \in BOOLEAN /\ faulty \in BOOLEAN
    BY Zenon
  <2>4. /\ overruns \in 0..MaxOverruns /\ op \in Actions \cup {"none", "Prepare"}
        /\ answer \in {"none", "ok", "failed", "cancelled"}
        /\ stopped \subseteq {"requests"} \cup Threads
    BY MaxOverrunsAssumption
  <2> HIDE DEF Init
  <2> QED BY <2>1, <2>2, <2>3, <2>4 DEF TypeOK
<1>2. PcInv /\ PhaseInv /\ StopInv /\ OwnInv /\ TargetInv /\ HookInv
  BY DEF PcInv, ScPcs, ActPcs, DeaPcs, ReadPcs, ApplyPcs, SetPcs, DeactivatePcs, PreparePcs,
     RequestPcs, IconPhases, PhaseInv, StopInv, OwnInv, TargetInv, HookInv, Threads, NoRequest
<1>3. EveryPromiseHasFuture
  <2>1. {i \in 1..Len(queue) : ~queue[i].owned} = {}
    OBVIOUS
  <2> QED BY <2>1, FS_EmptySet DEF EveryPromiseHasFuture, Abandoned
<1>4. PrepareInv /\ ActivateInv /\ AskInv /\ LoopInv /\ TransientInv /\ HealthInv
  BY DEF PrepareInv, ActivateInv, AskInv, LoopInv, TransientInv, HealthInv, LoopRuns, SetPcs,
     RequestPcs, Threads
<1> QED BY <1>1, <1>2, <1>3, <1>4 DEF IInv

\* Every step preserves the invariant.
LEMMA NextIInv == ASSUME IInv, [Next]_vars PROVE IInv'
<1>1. TypeOK'
  BY TypeCodesNext, TypeFlagsNext, TypeRestNext, TypeItemNext, TypeQueueNext
     DEF TypeOK, TypeCodes, TypeFlags, TypeRest, TypeItem, TypeQueue, TypeHospice
<1> QED
  BY <1>1, NextPc, NextPhase, NextStop, NextOwn, NextFuture, NextTarget, NextHook, NextPrepare,
     NextActivate, NextAsk, NextLoop, NextTransient, NextHealth
     DEF IInv

\* The inductive invariant holds: for every capacity of request_queue_, however many deadlines
\* are missed, whether hooks fail or not and whether the process is restarted or not.
THEOREM InvariantHolds == Spec => []IInv
<1>1. Init => IInv
  BY InitIInv
<1>2. IInv /\ [Next]_vars => IInv'
  BY NextIInv
<1> QED BY <1>1, <1>2, PTL DEF Spec

\* While every deadline is met, Enabled() and Disabled() agree with the state whenever no
\* callback is under way, and ApplyCommand() is called only between the two.
THEOREM HooksAgree == Spec => []HooksPaired
<1>1. ASSUME IInv PROVE HooksPaired
  <2>1. ASSUME \A t \in Threads : pc[t] = "idle", overruns = 0
        PROVE  hooked <=> code = "kMotionEnabled"
    BY <1>1, <2>1 DEF IInv, TypeOK, HookInv, Threads
  <2>2. ASSUME pc["apply"] = "applyCall", overruns = 0 PROVE hooked /\ code = "kMotionEnabled"
    BY <1>1, <2>2 DEF IInv, HookInv, PhaseInv, PreparePcs, SetPcs, Threads
  <2> QED BY <1>1, <2>1, <2>2 DEF HooksPaired, IInv
<1> QED BY <1>1, InvariantHolds, PTL

\* While every deadline is met, the action that has put the module into a transient state is
\* still under way as long as the module is in it.
THEOREM TransientIsOwned == Spec => []TransientHasOwner
<1>1. ASSUME IInv PROVE TransientHasOwner
  BY <1>1 DEF IInv, TransientInv, TransientHasOwner, Begun
<1> QED BY <1>1, InvariantHolds, PTL

\* Deadlines missed or not, no request is left or accepted after Shutdown() unless OnActivate
\* has ended since and accepts requests again, and no future is destroyed while the promise of
\* its request can still be answered.
THEOREM NoPromiseDangles == Spec => []RequestsAccounted
<1>1. ASSUME IInv PROVE RequestsAccounted
  BY <1>1 DEF IInv, StopInv, RequestsAccounted, NoRequestAfterStop
<1> QED BY <1>1, InvariantHolds, PTL

\* While every deadline is met, a fault is not forgotten: the module is ready for motion only
\* after ClearFaults() or Prepare() has succeeded since.
THEOREM FaultsAreCleared == Spec => []HealthyMeansCleared
<1>1. ASSUME IInv PROVE HealthyMeansCleared
  BY <1>1 DEF IInv, HealthInv, HealthyMeansCleared, FaultCodes, TransientCodes, SetPcs
<1> QED BY <1>1, InvariantHolds, PTL
=============================================================================
