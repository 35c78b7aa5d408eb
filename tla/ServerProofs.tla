---------------------------- MODULE ServerProofs ----------------------------
(*****************************************************************************)
(* What servers promise to their clients: OperationalState (ICON) and        *)
(* SkillService, one after the other.                                        *)
(*****************************************************************************)
EXTENDS OperationalState, SkillService, SequenceTheorems, WellFoundedInduction, TLAPS
-----------------------------------------------------------------------------
(*****************************************************************************)
(* OperationalState for any hardware modules, cell control, clients and      *)
(* number of faults.                                                         *)
(*                                                                           *)
(* Neither property is inductive: a session and an answer depend on which    *)
(* requests can still be under way.  The invariant says who owns what is     *)
(* under way.  A module in a transient state works on its request; enabling  *)
(* and clearing of faults always belong to the command in the handle         *)
(* (Owned); what nobody owns is a disable, and then the hardware is not      *)
(* enabled as a whole once it has an effect (Disables); a disable that was   *)
(* not preempted has reached every module that is still enabled              *)
(* (DisableSent).  A session that has lost its hardware lives only while     *)
(* there is a command, and that command cannot bring the hardware back: it   *)
(* disables or clears, or the loss is a fault (SessionOn, SessionOff).       *)
(* Calls relates a command to its caller.                                    *)
(*****************************************************************************)

\* A module is enabled; one of them is not; one of them is faulted.
Enabled(m) == mod[m] = "kMotionEnabled"
Lost   == \E m \in Modules : ~Enabled(m)
Faulty == \E m \in Modules : mod[m] \in Faults

\* A command is under way: its request has been accepted.
UnderWay == handle.id # "none"
Disabling(command) == command \in {"kDisable", "kDisableSkipCellControlHardware"}

\* A module is in a transient state only while it works on its request.
Transitions ==
  \A m \in Modules :
    /\ req[m] # "kDisableMotionSkipCellControlHardware"
    /\ mod[m] \in {"kMotionEnabling", "kMotionDisabling", "kClearingFaults"} =>
         req[m] = "working"
    /\ req[m] = "working" =>
         mod[m] \in {"kMotionEnabling", "kMotionDisabling", "kClearingFaults"} \cup Faults

\* Only a command enables or clears faults, and it is under way until that is done.
OwnedBy(request, transient, command) ==
  \/ UnderWay /\ handle.cmd = command
  \/ /\ pending # request
     /\ \A m \in Modules : req[m] # request /\ mod[m] # transient

Owned == /\ OwnedBy("kEnableMotion", "kMotionEnabling", "kEnable")
         /\ OwnedBy("kClearFaults", "kClearingFaults", "kClearFaults")

\* What the real-time thread itself disables is not enabled as a whole: either no module has
\* answered yet, or one has been disabled or is faulted.
Disables ==
  ~UnderWay =>
    /\ \A m \in Modules : req[m] = "ready" => ~Enabled(m)
    /\ pending = "kDisableMotionSkipCellControlHardware" => Lost
    /\ (\E m \in Modules : req[m] = "kDisableMotion") => Lost \/ \A m \in Modules : Valid(m)

\* A disable that was not preempted has been sent to all the modules that are still enabled.
DisableSent ==
  handle.id = "current" /\ Disabling(handle.cmd) =>
    \/ pending = RequestOf[handle.cmd]
    \/ \A m \in Addressed(RequestOf[handle.cmd]) : Enabled(m) => req[m] = "kDisableMotion"

\* After HandleOperationalStatus, a command that is under way has a request under way, and
\* sessions that run without all of the hardware have a command.
Handled ==
  rpc = "sessions" =>
    /\ UnderWay => pending # "none" \/ \E m \in Modules : Valid(m)
    /\ session # "none" /\ Lost => handle # NoHandle

\* A session that has seen its hardware enabled: without a command under way, only a fault
\* takes it away ...
SessionOn ==
  session = "on" =>
    /\ UnderWay => handle.cmd # "kEnable"
    /\ ~UnderWay =>
         /\ \A m \in Modules : req[m] = "none" /\ mod[m] \in {"kMotionEnabled"} \cup Faults
         /\ pending # "none" => rpc # "hardware" /\ Faulty

\* ... and until the command is done the hardware stays away.
SessionOff ==
  session = "off" =>
    /\ handle # NoHandle /\ Lost
    /\ ~UnderWay \/ handle.cmd = "kEnable" => Faulty

\* Nothing is under way in a server that shuts down.
ShutDown ==
  rpc \in {"close", "abort", "stopped"} =>
    /\ session = "none" /\ pending = "none"
    /\ \A m \in Modules : mod[m] = "kActivated" /\ req[m] = "none"

\* A call is in the queue or has the handle, and only once.
Calls ==
  /\ \A i \in 1 .. Len(queue) :
       cpc[queue[i]] \in {"locked", "await"} /\ cmd[queue[i]] # "kNone" /\ queue[i] # handle.who
  /\ \A i, j \in 1 .. Len(queue) : queue[i] = queue[j] => i = j
  /\ handle.who \in Clients =>
       /\ cpc[handle.who] \in {"locked", "await"} /\ cmd[handle.who] = handle.cmd
       /\ UnderWay => cpc[handle.who] = "await"

OperationalIInv ==
  /\ TypeOK /\ Transitions /\ Owned /\ Disables /\ DisableSent /\ Handled
  /\ SessionOn /\ SessionOff /\ ShutDown /\ Calls
-----------------------------------------------------------------------------
(* Facts about the operators of the model. *)

\* The tables, entry by entry.
LEMMA Tables ==
  /\ AllowedFrom["kEnableMotion"] = "kActivated" /\ AllowedFrom["kDisableMotion"] = "kMotionEnabled"
  /\ AllowedFrom["kClearFaults"] = "kFaulted"
  /\ RequestOf["kEnable"] = "kEnableMotion" /\ RequestOf["kDisable"] = "kDisableMotion"
  /\ RequestOf["kDisableSkipCellControlHardware"] = "kDisableMotionSkipCellControlHardware"
  /\ RequestOf["kClearFaults"] = "kClearFaults"
  /\ Async["kEnableMotion"] = "kEnableMotion" /\ Async["kDisableMotion"] = "kDisableMotion"
  /\ Async["kDisableMotionSkipCellControlHardware"] = "kDisableMotion"
  /\ Async["kClearFaults"] = "kClearFaults"
  /\ Transient["kEnableMotion"] = "kMotionEnabling"
  /\ Transient["kDisableMotion"] = "kMotionDisabling"
  /\ Transient["kClearFaults"] = "kClearingFaults"
  /\ Final["kMotionEnabling"] = "kMotionEnabled" /\ Final["kMotionDisabling"] = "kActivated"
  /\ Final["kClearingFaults"] = "kActivated"
  /\ DOMAIN Final = {"kMotionEnabling", "kMotionDisabling", "kClearingFaults"}
  /\ NoOpFrom["kEnableMotion"] = {"kMotionEnabled"} /\ NoOpFrom["kDisableMotion"] = {"kActivated"}
  /\ NoOpFrom["kDisableMotionSkipCellControlHardware"] = {"kActivated"}
  /\ NoOpFrom["kClearFaults"] = {"kActivated", "kMotionEnabled"}
  /\ ExpectedState["kEnable"] = "kEnabled" /\ ExpectedState["kDisable"] = "kDisabled"
  /\ ExpectedState["kDisableSkipCellControlHardware"] = "kDisabled"
  /\ ExpectedState["kClearFaults"] = "kDisabled"
BY DEF AllowedFrom, RequestOf, Async, Transient, Final, NoOpFrom, ExpectedState

\* Every request is about modules.
LEMMA AddressedModules ==
  /\ \A request \in Requests : Addressed(request) \subseteq Modules
  /\ Addressed("kDisableMotion") = Modules /\ Addressed("kEnableMotion") = Modules
  /\ Addressed("kClearFaults") = Modules
BY DEF Addressed, Operational

\* The fields of a handle.
LEMMA HandleFields ==
  ASSUME NEW h \in {NoHandle} \cup [who : Clients \cup {"auto"}, cmd : Commands,
                                    id : {"none", "current", "preempted"}]
  PROVE  /\ h.id \in {"none", "current", "preempted"}
         /\ h = NoHandle <=> h.cmd = "kNone"
         /\ h = NoHandle <=> h.who = "nobody"
         /\ h = NoHandle => h.id = "none"
         /\ h # NoHandle => h.cmd \in Commands /\ h.who \in Clients \cup {"auto"}
BY OperationalAssumption DEF NoHandle, Commands

\* A preempted command is still the same one.
LEMMA PreemptedFields ==
  ASSUME NEW h \in {NoHandle} \cup [who : Clients \cup {"auto"}, cmd : Commands,
                                    id : {"none", "current", "preempted"}]
  PROVE  /\ Preempted(h) \in {NoHandle} \cup [who : Clients \cup {"auto"}, cmd : Commands,
                                              id : {"none", "current", "preempted"}]
         /\ Preempted(h).who = h.who /\ Preempted(h).cmd = h.cmd
         /\ Preempted(h).id = IF h.id = "current" THEN "preempted" ELSE h.id
         /\ Preempted(h) = NoHandle <=> h = NoHandle
BY DEF NoHandle, Preempted, Commands

\* All modules are enabled exactly when the combined state says so.
LEMMA CombinedEnabled == CombinedState = "kEnabled" <=> ~Lost
BY DEF CombinedState, In, Lost, Enabled

\* A server that is disabled has no faults, and nothing on its way to clearing them.
LEMMA CombinedDisabled ==
  CombinedState = "kDisabled" =>
    \A m \in Modules : mod[m] \notin Faults \cup {"kClearingFaults"}
BY DEF CombinedState, In, Faults

\* Nothing is under way when the requests are done.
LEMMA RequestsDone ==
  GetRequestState = "kDone" <=> pending = "none" /\ \A m \in Modules : ~Valid(m)
BY OperationalAssumption DEF GetRequestState

\* What a request's result says about the modules.
LEMMA RequestResults ==
  ASSUME NEW request
  PROVE  /\ RequestResult(request) = "kPending" => pending = request
         /\ RequestResult(request) \in {"kAllowed", "kNoOp"} =>
              pending = "none" /\ \E m \in Modules : ~Valid(m)
         /\ RequestResult(request) = "kAllowed" =>
              \E m \in Addressed(request) : mod[m] = AllowedFrom[request]
         /\ RequestResult(request) = "kNoOp" =>
              \A m \in Addressed(request) : mod[m] \notin StateCode \ NoOpFrom[request]
BY DEF RequestResult, In

\* Only a fault is propagated, by a disable.
LEMMA PropagatedFault ==
  Propagated # "none" =>
    Faulty /\ Propagated \in {"kDisableMotion", "kDisableMotionSkipCellControlHardware"}
BY OperationalAssumption DEF Propagated, In, Faulty, Operational, Faults
-----------------------------------------------------------------------------
(* What the steps of the real-time thread do. *)

HandleType == {NoHandle} \cup [who : Clients \cup {"auto"}, cmd : Commands,
                               id : {"none", "current", "preempted"}]

\* PreUpdateSessions without an error: a fault may have asked for a disable.
Propagates ==
  /\ rpc = "hardware" /\ rpc' = "command"
  /\ session' \in {session, "none"}
  /\ \/ UNCHANGED <<pending, handle>>
     \/ /\ pending = "none" /\ Faulty /\ handle' = Preempted(handle)
        /\ pending' \in {"kDisableMotion", "kDisableMotionSkipCellControlHardware"}
  /\ UNCHANGED <<mod, req, faults, everSet, button, cpc, cmd, queue, closed>>

\* What HandleOperationalStatus does with the handle: a command waits for its caller, starts,
\* ends at once, goes on, or is done.
Waits  == /\ ~UnderWay /\ handle'.id = "none" /\ pending' = pending
          /\ handle # NoHandle => handle' = handle
Starts == /\ ~UnderWay /\ handle'.id = "current" /\ handle'.cmd \in Commands
          /\ pending = "none" /\ pending' = RequestOf[handle'.cmd]
          /\ \E m \in Addressed(pending') : mod[m] = AllowedFrom[pending']
EndsAtOnce   == ~UnderWay /\ handle' = NoHandle /\ pending' = pending
GoesOn == /\ UnderWay /\ handle' = handle /\ pending' = pending
          /\ pending # "none" \/ \E m \in Modules : Valid(m)
Done   == /\ UnderWay /\ handle' = NoHandle /\ pending' = pending
          /\ pending = "none" /\ \A m \in Modules : ~Valid(m)

\* The handle that HandleOperationalStatus looks at is well formed, and the current one if
\* there is one.
LEMMA NextHandles ==
  ASSUME TypeOK, Calls, NEW b
  PROVE  /\ NextHandle(b) \in HandleType
         /\ handle # NoHandle => NextHandle(b) = handle
         /\ handle = NoHandle => NextHandle(b).id = "none"
         /\ NextHandle(b).who \in Clients =>
              /\ cpc[NextHandle(b).who] \in {"locked", "await"}
              /\ cmd[NextHandle(b).who] = NextHandle(b).cmd
         /\ handle = NoHandle /\ NextHandle(b).who \in Clients =>
              queue # <<>> /\ NextHandle(b).who = Head(queue)
<1>1. CASE handle # NoHandle
  BY <1>1, HandleFields DEF NextHandle, TypeOK, Calls, HandleType
<1>2. CASE handle = NoHandle /\ queue = <<>>
  BY <1>2, OperationalAssumption DEF NextHandle, HandleType, NoHandle, Commands
<1>3. CASE handle = NoHandle /\ queue # <<>>
  <2>1. Head(queue) = queue[1] /\ 1 \in 1 .. Len(queue) /\ queue[1] \in Clients
    BY <1>3 DEF TypeOK
  <2>2. cpc[Head(queue)] \in {"locked", "await"} /\ cmd[Head(queue)] \in Commands
    BY <2>1 DEF TypeOK, Calls
  <2>. QED
    BY <1>3, <2>1, <2>2, OperationalAssumption DEF NextHandle, HandleType, NoHandle, Commands
<1>. QED BY <1>1, <1>2, <1>3

\* PreUpdateSessions fails or propagates a fault.
LEMMA PreUpdateEffect ==
  ASSUME TypeOK, PreUpdateSessions
  PROVE  Fail \/ (Propagates /\ mode' \in {"AUTOMATIC", "TEACH_PENDANT_1"})
<1>1. {i[1] : i \in SafetyInputs} \subseteq {"AUTOMATIC", "TEACH_PENDANT_1"}
  BY OperationalAssumption
<1>2. CASE UNCHANGED <<pending, handle>>
  BY <1>1, <1>2 DEF PreUpdateSessions, Propagates, hardware, clients, bridge
<1>3. CASE /\ GetRequestState # "kActive" /\ Propagated # "none"
           /\ RequestTransition(Propagated) /\ ~UNCHANGED <<pending, handle>>
  <2>1. /\ RequestResult(Propagated) = "kAllowed"
        /\ pending' = Propagated /\ handle' = Preempted(handle)
    BY <1>3 DEF RequestTransition
  <2>2. pending = "none" BY <2>1, RequestResults
  <2>. QED
    BY <1>1, <1>3, <2>1, <2>2, PropagatedFault
    DEF PreUpdateSessions, Propagates, hardware, clients, bridge
<1>. QED BY <1>2, <1>3 DEF PreUpdateSessions, RequestTransition

\* HandleOperationalStatus does one of five things to the handle, and cancels the sessions
\* that have neither all of their hardware nor a command.
LEMMA HandleEffect ==
  ASSUME TypeOK, Calls, HandleOperationalStatus
  PROVE  /\ rpc = "command" /\ rpc' = "sessions" /\ handle' \in HandleType
         /\ UNCHANGED <<mod, req, faults, mode, closed>>
         /\ session' = IF handle' = NoHandle /\ Lost THEN "none" ELSE session
         /\ Waits \/ Starts \/ EndsAtOnce \/ GoesOn \/ Done
<1>. DEFINE h == NextHandle(button')
<1>1. /\ h \in HandleType /\ (handle # NoHandle => h = handle)
      /\ (handle = NoHandle => h.id = "none")
  BY NextHandles
<1>2. /\ h.id \in {"none", "current", "preempted"} /\ (h = NoHandle => h.id = "none")
      /\ (h # NoHandle => h.cmd \in Commands /\ h.who \in Clients \cup {"auto"})
  BY <1>1, HandleFields DEF HandleType
<1>3. NoHandle.id = "none" /\ NoHandle \in HandleType BY DEF NoHandle, HandleType
<1>4. UnderWay => Unlocked(handle.who)
  BY DEF Calls, Unlocked
<1>5. UnderWay <=> h.id # "none"
  BY <1>1, <1>3 DEF UnderWay
<1>6. handle' \in HandleType /\ (Waits \/ Starts \/ EndsAtOnce \/ GoesOn \/ Done)
  <2>1. CASE h = NoHandle \/ ~Unlocked(h.who)
    <3>1. handle' = h /\ pending' = pending BY <2>1 DEF HandleOperationalStatus
    <3>2. h.id = "none" BY <1>1, <1>2, <1>4, <2>1 DEF UnderWay
    <3>. QED BY <1>1, <1>5, <3>1, <3>2 DEF Waits
  <2>2. CASE h # NoHandle /\ Unlocked(h.who) /\ h.id = "none"
    <3>. DEFINE request == RequestOf[h.cmd]
    <3>1. StartCommand(h) BY <2>2 DEF HandleOperationalStatus
    <3>2. CASE RequestResult(request) = "kAllowed"
      <4>1. pending' = request /\ handle' = [h EXCEPT !.id = "current"]
        BY <3>1, <3>2 DEF StartCommand
      <4>2. handle'.id = "current" /\ handle'.cmd = h.cmd /\ handle' \in HandleType
        BY <1>1, <2>2, <4>1 DEF HandleType
      <4>3. pending = "none" /\ \E m \in Addressed(request) : mod[m] = AllowedFrom[request]
        BY <3>2, RequestResults
      <4>. QED BY <1>2, <1>5, <2>2, <4>1, <4>2, <4>3 DEF Starts
    <3>3. CASE RequestResult(request) # "kAllowed"
      BY <1>3, <1>5, <2>2, <3>1, <3>3 DEF StartCommand, EndsAtOnce
    <3>. QED BY <3>2, <3>3
  <2>3. CASE h # NoHandle /\ Unlocked(h.who) /\ h.id # "none"
    <3>1. CheckCommandState(h) BY <2>3 DEF HandleOperationalStatus
    <3>2. h = handle /\ UnderWay BY <1>1, <1>5, <2>3
    <3>. QED
      BY <1>1, <1>3, <3>1, <3>2, RequestsDone DEF CheckCommandState, GoesOn, Done
  <2>. QED BY <2>1, <2>2, <2>3
<1>7. session' = IF handle' = NoHandle /\ Lost THEN "none" ELSE session
  BY CombinedEnabled DEF HandleOperationalStatus, UpdateOperationalStatus
<1>. QED BY <1>6, <1>7 DEF HandleOperationalStatus, hardware

\* UpdateSessions sends the pending request, or the disable of a failing session, unless a
\* safety action runs.
LEMMA UpdateEffect ==
  ASSUME TypeOK, NEW safetyAction \in BOOLEAN, UpdateSessions(safetyAction)
  PROVE  /\ rpc = "sessions" /\ rpc' = "hardware"
         /\ UNCHANGED <<mod, faults, everSet, mode, button, cpc, cmd, queue, closed>>
         /\ session' \in {"none", "new", Ran}
         /\ \E p \in Requests \cup {"none"} :
              /\ \/ p = pending /\ handle' = handle
                 \/ /\ pending = "none" /\ p = "kDisableMotion" /\ session' = "none"
                    /\ handle' = Preempted(handle)
              /\ \/ pending' = p /\ req' = req
                 \/ ProcessTransitionRequestAsync(p)
<1>1. PICK failed \in BOOLEAN :
       /\ \/ failed /\ session' = "none"
          \/ ~failed /\ session' \in {IF session = "none" THEN "new" ELSE "none", Ran}
       /\ LET accepted == failed /\ RequestResult("kDisableMotion") = "kAllowed"
              p == IF accepted THEN "kDisableMotion" ELSE pending
          IN  /\ handle' = IF accepted THEN Preempted(handle) ELSE handle
              /\ IF safetyAction THEN pending' = p /\ UNCHANGED req
                                 ELSE ProcessTransitionRequestAsync(p)
  BY DEF UpdateSessions
<1>. DEFINE accepted == failed /\ RequestResult("kDisableMotion") = "kAllowed"
            p == IF accepted THEN "kDisableMotion" ELSE pending
<1>2. p \in Requests \cup {"none"} BY DEF TypeOK, Requests
<1>3. (pending' = p /\ req' = req) \/ ProcessTransitionRequestAsync(p)
  BY <1>1
<1>4. \/ p = pending /\ handle' = handle
      \/ /\ pending = "none" /\ p = "kDisableMotion" /\ session' = "none"
         /\ handle' = Preempted(handle)
  BY <1>1, RequestResults
<1>5. session' \in {"none", "new", Ran} BY <1>1
<1>. HIDE DEF p
<1>. QED BY <1>2, <1>3, <1>4, <1>5 DEF UpdateSessions, clients, bridge

\* A module accepts a request, rejects it, or finishes what it works on.
Accepted(m) ==
  /\ req'[m] = "working"
  /\ \/ req[m] = "kEnableMotion" /\ mod[m] = "kActivated" /\ mod'[m] = "kMotionEnabling"
     \/ req[m] = "kDisableMotion" /\ mod[m] = "kMotionEnabled" /\ mod'[m] = "kMotionDisabling"
     \/ req[m] = "kClearFaults" /\ mod[m] = "kFaulted" /\ mod'[m] = "kClearingFaults"
Rejected(m) ==
  /\ req'[m] = "ready" /\ mod'[m] = mod[m]
  /\ req[m] \in {"kEnableMotion", "kDisableMotion", "kClearFaults"}
  /\ req[m] = "kDisableMotion" => ~Enabled(m)
Finished(m) ==
  /\ req[m] = "working" /\ req'[m] = "ready"
  /\ \/ mod[m] = "kMotionEnabling" /\ mod'[m] = "kMotionEnabled"
     \/ mod[m] \in {"kMotionDisabling", "kClearingFaults"} /\ mod'[m] = "kActivated"
     \/ mod[m] \in Faults /\ mod'[m] = mod[m]

\* A step of the hardware changes one module.
LEMMA ModuleEffect ==
  ASSUME TypeOK, Transitions, NEW m \in Modules, ModuleStep(m)
  PROVE  /\ rpc = "hardware" /\ rpc' = "hardware"
         /\ UNCHANGED <<faults, pending, handle, everSet, mode, button, session, cpc, cmd,
                        queue, closed>>
         /\ mod' \in [Modules -> StateCode]
         /\ req' \in [Modules -> Requests \cup {"none", "working", "ready"}]
         /\ \A n \in Modules \ {m} : mod'[n] = mod[n] /\ req'[n] = req[n]
         /\ Accepted(m) \/ Rejected(m) \/ Finished(m)
<1>1. /\ mod[m] \in StateCode /\ req[m] # "kDisableMotionSkipCellControlHardware"
      /\ req[m] = "working" =>
           mod[m] \in {"kMotionEnabling", "kMotionDisabling", "kClearingFaults"} \cup Faults
  BY DEF TypeOK, Transitions
<1>2. CASE req[m] \in Requests /\ mod[m] = AllowedFrom[req[m]]
  <2>1. mod' = [mod EXCEPT ![m] = Transient[req[m]]] /\ req' = [req EXCEPT ![m] = "working"]
    BY <1>2 DEF ModuleStep, Requests
  <2>2. Transient[req[m]] \in StateCode BY <1>1, <1>2, Tables DEF Requests, StateCode
  <2>3. Accepted(m)
    BY <1>1, <1>2, <2>1, Tables DEF Accepted, Requests, TypeOK
  <2>. QED BY <2>1, <2>2, <2>3 DEF ModuleStep, TypeOK, clients, bridge
<1>3. CASE req[m] \in Requests /\ mod[m] # AllowedFrom[req[m]]
  <2>1. mod' = mod /\ req' = [req EXCEPT ![m] = "ready"]
    BY <1>3 DEF ModuleStep, Requests
  <2>2. Rejected(m)
    BY <1>1, <1>3, <2>1, Tables DEF Rejected, Requests, TypeOK, Enabled
  <2>. QED BY <2>1, <2>2 DEF ModuleStep, TypeOK, clients, bridge
<1>4. CASE req[m] = "working"
  <2>. DEFINE code == IF mod[m] \in DOMAIN Final THEN Final[mod[m]] ELSE mod[m]
  <2>1. mod' = [mod EXCEPT ![m] = code] /\ req' = [req EXCEPT ![m] = "ready"]
    BY <1>4 DEF ModuleStep, Requests, TypeOK
  <2>2. /\ code \in StateCode
        /\ \/ mod[m] = "kMotionEnabling" /\ code = "kMotionEnabled"
           \/ mod[m] \in {"kMotionDisabling", "kClearingFaults"} /\ code = "kActivated"
           \/ mod[m] \in Faults /\ code = mod[m]
    BY <1>1, <1>4, Tables DEF StateCode, Faults
  <2>. HIDE DEF code
  <2>3. Finished(m) BY <1>4, <2>1, <2>2 DEF Finished, TypeOK
  <2>. QED BY <2>1, <2>2, <2>3 DEF ModuleStep, TypeOK, clients, bridge
<1>. QED BY <1>2, <1>3, <1>4 DEF ModuleStep

\* A fault.
LEMMA FaultEffect ==
  ASSUME TypeOK, NEW m \in Modules, Fault(m)
  PROVE  /\ rpc = "hardware" /\ rpc' = "hardware"
         /\ UNCHANGED <<req, pending, handle, everSet, mode, button, session, cpc, cmd, queue,
                        closed>>
         /\ mod' \in [Modules -> StateCode] /\ mod'[m] \in Faults /\ faults' \in 0 .. MaxFaults
         /\ \A n \in Modules \ {m} : mod'[n] = mod[n]
BY OperationalAssumption DEF Fault, TypeOK, StateCode, Faults, clients, bridge

\* The steps that leave the hardware, the requests and the sessions alone: of a server that
\* shuts down, and of clients.
ShutsDown ==
  /\ rpc \in {"close", "abort"} /\ rpc' \in {"abort", "stopped"}
  /\ handle' \in {handle, NoHandle}
  /\ UNCHANGED <<mod, req, pending, session>>
Rests == UNCHANGED <<mod, req, pending, handle, session, rpc>>

\* Every step is one of these.
LEMMA Steps ==
  ASSUME OperationalIInv, [Next]_vars
  PROVE  \/ Fail
         \/ Propagates
         \/ HandleOperationalStatus
         \/ \E safetyAction \in BOOLEAN : UpdateSessions(safetyAction)
         \/ \E m \in Modules : ModuleStep(m)
         \/ \E m \in Modules : Fault(m)
         \/ ShutsDown
         \/ Rests
<1>. USE DEF ShutsDown, Rests, hardware, bridge, clients
<1>1. CASE PreUpdateSessions BY <1>1, PreUpdateEffect DEF OperationalIInv
<1>2. CASE CycleFails \/ DisableFails \/ \E m \in Modules : RequestTimeout(m)
  BY <1>2 DEF CycleFails, DisableFails, RequestTimeout
<1>3. CASE Close BY <1>3 DEF Close
<1>4. CASE Abort BY <1>4 DEF Abort
<1>5. CASE \E c \in Clients : CallCheck(c) \/ CallInsert(c) \/ Await(c)
  BY <1>5 DEF CallCheck, CallInsert, Await
<1>6. CASE UNCHANGED vars BY <1>6 DEF vars
<1>. QED BY <1>1, <1>2, <1>3, <1>4, <1>5, <1>6 DEF Next, Cycle
-----------------------------------------------------------------------------
(* Every step keeps every part of the invariant. *)

\* Nothing is under way in a server that shuts down.
LEMMA ShutDownFacts ==
  ASSUME OperationalIInv, ShutsDown
  PROVE  /\ session = "none" /\ pending = "none"
         /\ \A m \in Modules : mod[m] = "kActivated" /\ req[m] = "none"
BY DEF OperationalIInv, ShutDown, ShutsDown

\* Modules work on a request while they are in a transient state.
LEMMA NextTransitions ==
  ASSUME OperationalIInv, [Next]_vars
  PROVE  Transitions'
<1>1. TypeOK /\ Transitions /\ Calls BY DEF OperationalIInv
<1>2. /\ handle.id \in {"none", "current", "preempted"}
      /\ (handle = NoHandle => handle.id = "none")
      /\ handle # NoHandle => handle.cmd \in Commands
  BY <1>1, HandleFields DEF TypeOK
<1>3. NoHandle.id = "none" BY DEF NoHandle
<1>4. /\ Preempted(handle).cmd = handle.cmd
      /\ (Preempted(handle) = NoHandle <=> handle = NoHandle)
      /\ Preempted(handle).id = IF handle.id = "current" THEN "preempted" ELSE handle.id
  BY <1>1, PreemptedFields DEF TypeOK
<1>. USE DEF UnderWay, Transitions, Faults
<1>5. CASE Fail BY <1>1, <1>2, <1>5 DEF Fail, hardware, StateCode
<1>6. CASE Propagates BY <1>1, <1>2, <1>4, <1>6 DEF Propagates
<1>7. CASE HandleOperationalStatus
  <2>1. /\ rpc = "command" /\ rpc' = "sessions" /\ UNCHANGED <<mod, req>>
        /\ session' = IF handle' = NoHandle /\ Lost THEN "none" ELSE session
        /\ Waits \/ Starts \/ EndsAtOnce \/ GoesOn \/ Done
    BY <1>1, <1>7, HandleEffect
  <2>2. CASE Waits BY <1>1, <1>2, <1>3, <2>1, <2>2 DEF Waits
  <2>3. CASE Starts BY <1>1, <1>2, <2>1, <2>3, Tables, AddressedModules DEF Starts, Commands
  <2>4. CASE EndsAtOnce BY <1>1, <1>2, <1>3, <2>1, <2>4 DEF EndsAtOnce
  <2>5. CASE GoesOn BY <1>1, <1>2, <2>1, <2>5 DEF GoesOn
  <2>6. CASE Done BY <1>1, <1>2, <1>3, <2>1, <2>6 DEF Done, Valid
  <2>. QED BY <2>1, <2>2, <2>3, <2>4, <2>5, <2>6
<1>8. ASSUME NEW safetyAction \in BOOLEAN, UpdateSessions(safetyAction)
      PROVE  Transitions'
  <2>1. /\ rpc = "sessions" /\ rpc' = "hardware" /\ mod' = mod
        /\ session' \in {"none", "new", Ran}
    BY <1>1, <1>8, UpdateEffect
  <2>2. PICK p \in Requests \cup {"none"} :
          /\ \/ p = pending /\ handle' = handle
             \/ /\ pending = "none" /\ p = "kDisableMotion" /\ session' = "none"
                /\ handle' = Preempted(handle)
          /\ \/ pending' = p /\ req' = req
             \/ ProcessTransitionRequestAsync(p)
    BY <1>1, <1>8, UpdateEffect
  <2>3. /\ handle'.cmd = handle.cmd /\ (handle' = NoHandle <=> handle = NoHandle)
        /\ handle'.id = "none" <=> handle.id = "none"
        /\ handle'.id = "current" => handle.id = "current" /\ p = pending
    BY <1>2, <1>4, <2>2
  <2>4. CASE pending' = p /\ req' = req
    BY <1>1, <1>2, <2>1, <2>2, <2>3, <2>4, CombinedEnabled, RequestsDone DEF Ran
  <2>5. CASE ProcessTransitionRequestAsync(p)
    BY <1>1, <1>2, <2>1, <2>2, <2>3, <2>5, CombinedEnabled, RequestsDone, Tables,
         AddressedModules
    DEF Ran, ProcessTransitionRequestAsync, TypeOK, Requests
  <2>. QED BY <2>2, <2>4, <2>5
<1>9. ASSUME NEW m \in Modules, ModuleStep(m)
      PROVE  Transitions'
  <2>1. /\ rpc = "hardware" /\ rpc' = "hardware" /\ UNCHANGED <<pending, handle, session>>
        /\ \A n \in Modules \ {m} : mod'[n] = mod[n] /\ req'[n] = req[n]
        /\ Accepted(m) \/ Rejected(m) \/ Finished(m)
    BY <1>1, <1>9, ModuleEffect
  <2>2. CASE Accepted(m)
    BY <1>1, <1>2, <2>1, <2>2 DEF Accepted
  <2>3. CASE Rejected(m)
    BY <1>1, <1>2, <2>1, <2>3 DEF Rejected
  <2>4. CASE Finished(m)
    BY <1>1, <1>2, <2>1, <2>4 DEF Finished
  <2>. QED BY <2>1, <2>2, <2>3, <2>4
<1>10. ASSUME NEW m \in Modules, Fault(m)
       PROVE  Transitions'
  <2>1. /\ rpc = "hardware" /\ rpc' = "hardware" /\ UNCHANGED <<req, pending, handle, session>>
        /\ mod'[m] \in Faults /\ \A n \in Modules \ {m} : mod'[n] = mod[n]
    BY <1>1, <1>10, FaultEffect
  <2>. QED BY <1>1, <1>2, <2>1 DEF Faults
<1>11. CASE ShutsDown BY <1>1, <1>2, <1>3, <1>11, ShutDownFacts DEF ShutsDown
<1>12. CASE Rests BY <1>1, <1>12 DEF Rests
<1>. QED BY Steps, <1>5, <1>6, <1>7, <1>8, <1>9, <1>10, <1>11, <1>12

\* Enabling and clearing faults have their command.
LEMMA NextOwned ==
  ASSUME OperationalIInv, [Next]_vars
  PROVE  Owned'
<1>1. TypeOK /\ Transitions /\ Calls /\ Owned BY DEF OperationalIInv
<1>2. /\ handle.id \in {"none", "current", "preempted"}
      /\ (handle = NoHandle => handle.id = "none")
      /\ handle # NoHandle => handle.cmd \in Commands
  BY <1>1, HandleFields DEF TypeOK
<1>3. NoHandle.id = "none" BY DEF NoHandle
<1>4. /\ Preempted(handle).cmd = handle.cmd
      /\ (Preempted(handle) = NoHandle <=> handle = NoHandle)
      /\ Preempted(handle).id = IF handle.id = "current" THEN "preempted" ELSE handle.id
  BY <1>1, PreemptedFields DEF TypeOK
<1>. USE DEF UnderWay, Owned, OwnedBy, Transitions
<1>5. CASE Fail BY <1>1, <1>2, <1>5 DEF Fail, hardware, StateCode
<1>6. CASE Propagates BY <1>1, <1>2, <1>4, <1>6 DEF Propagates
<1>7. CASE HandleOperationalStatus
  <2>1. /\ rpc = "command" /\ rpc' = "sessions" /\ UNCHANGED <<mod, req>>
        /\ session' = IF handle' = NoHandle /\ Lost THEN "none" ELSE session
        /\ Waits \/ Starts \/ EndsAtOnce \/ GoesOn \/ Done
    BY <1>1, <1>7, HandleEffect
  <2>2. CASE Waits BY <1>1, <1>2, <1>3, <2>1, <2>2 DEF Waits
  <2>3. CASE Starts BY <1>1, <1>2, <2>1, <2>3, Tables, AddressedModules DEF Starts, Commands
  <2>4. CASE EndsAtOnce BY <1>1, <1>2, <1>3, <2>1, <2>4 DEF EndsAtOnce
  <2>5. CASE GoesOn BY <1>1, <1>2, <2>1, <2>5 DEF GoesOn
  <2>6. CASE Done BY <1>1, <1>2, <1>3, <2>1, <2>6 DEF Done, Valid
  <2>. QED BY <2>1, <2>2, <2>3, <2>4, <2>5, <2>6
<1>8. ASSUME NEW safetyAction \in BOOLEAN, UpdateSessions(safetyAction)
      PROVE  Owned'
  <2>1. /\ rpc = "sessions" /\ rpc' = "hardware" /\ mod' = mod
        /\ session' \in {"none", "new", Ran}
    BY <1>1, <1>8, UpdateEffect
  <2>2. PICK p \in Requests \cup {"none"} :
          /\ \/ p = pending /\ handle' = handle
             \/ /\ pending = "none" /\ p = "kDisableMotion" /\ session' = "none"
                /\ handle' = Preempted(handle)
          /\ \/ pending' = p /\ req' = req
             \/ ProcessTransitionRequestAsync(p)
    BY <1>1, <1>8, UpdateEffect
  <2>3. /\ handle'.cmd = handle.cmd /\ (handle' = NoHandle <=> handle = NoHandle)
        /\ handle'.id = "none" <=> handle.id = "none"
        /\ handle'.id = "current" => handle.id = "current" /\ p = pending
    BY <1>2, <1>4, <2>2
  <2>4. CASE pending' = p /\ req' = req
    BY <1>1, <1>2, <2>1, <2>2, <2>3, <2>4, CombinedEnabled, RequestsDone DEF Ran
  <2>5. CASE ProcessTransitionRequestAsync(p)
    BY <1>1, <1>2, <2>1, <2>2, <2>3, <2>5, CombinedEnabled, RequestsDone, Tables,
         AddressedModules
    DEF Ran, ProcessTransitionRequestAsync, TypeOK, Requests
  <2>. QED BY <2>2, <2>4, <2>5
<1>9. ASSUME NEW m \in Modules, ModuleStep(m)
      PROVE  Owned'
  <2>1. /\ rpc = "hardware" /\ rpc' = "hardware" /\ UNCHANGED <<pending, handle, session>>
        /\ \A n \in Modules \ {m} : mod'[n] = mod[n] /\ req'[n] = req[n]
        /\ Accepted(m) \/ Rejected(m) \/ Finished(m)
    BY <1>1, <1>9, ModuleEffect
  <2>2. CASE Accepted(m)
    BY <1>1, <1>2, <2>1, <2>2 DEF Accepted
  <2>3. CASE Rejected(m)
    BY <1>1, <1>2, <2>1, <2>3 DEF Rejected
  <2>4. CASE Finished(m)
    BY <1>1, <1>2, <2>1, <2>4 DEF Finished
  <2>. QED BY <2>1, <2>2, <2>3, <2>4
<1>10. ASSUME NEW m \in Modules, Fault(m)
       PROVE  Owned'
  <2>1. /\ rpc = "hardware" /\ rpc' = "hardware" /\ UNCHANGED <<req, pending, handle, session>>
        /\ mod'[m] \in Faults /\ \A n \in Modules \ {m} : mod'[n] = mod[n]
    BY <1>1, <1>10, FaultEffect
  <2>. QED BY <1>1, <1>2, <2>1 DEF Faults
<1>11. CASE ShutsDown BY <1>1, <1>2, <1>3, <1>11, ShutDownFacts DEF ShutsDown
<1>12. CASE Rests BY <1>1, <1>12 DEF Rests
<1>. QED BY Steps, <1>5, <1>6, <1>7, <1>8, <1>9, <1>10, <1>11, <1>12

\* What is disabled without a command is not enabled as a whole.
LEMMA NextDisables ==
  ASSUME OperationalIInv, [Next]_vars
  PROVE  Disables'
<1>1. TypeOK /\ Transitions /\ Calls /\ Owned /\ Disables BY DEF OperationalIInv
<1>2. /\ handle.id \in {"none", "current", "preempted"}
      /\ (handle = NoHandle => handle.id = "none")
      /\ handle # NoHandle => handle.cmd \in Commands
  BY <1>1, HandleFields DEF TypeOK
<1>3. NoHandle.id = "none" BY DEF NoHandle
<1>4. /\ Preempted(handle).cmd = handle.cmd
      /\ (Preempted(handle) = NoHandle <=> handle = NoHandle)
      /\ Preempted(handle).id = IF handle.id = "current" THEN "preempted" ELSE handle.id
  BY <1>1, PreemptedFields DEF TypeOK
<1>. USE DEF UnderWay, Disables, Lost, Enabled, Valid, Faulty, Faults, Transitions, Owned,
     OwnedBy
<1>5. CASE Fail BY <1>1, <1>2, <1>5 DEF Fail, hardware, StateCode
<1>6. CASE Propagates BY <1>1, <1>2, <1>4, <1>6 DEF Propagates
<1>7. CASE HandleOperationalStatus
  <2>1. /\ rpc = "command" /\ rpc' = "sessions" /\ UNCHANGED <<mod, req>>
        /\ session' = IF handle' = NoHandle /\ Lost THEN "none" ELSE session
        /\ Waits \/ Starts \/ EndsAtOnce \/ GoesOn \/ Done
    BY <1>1, <1>7, HandleEffect
  <2>2. CASE Waits BY <1>1, <1>2, <1>3, <2>1, <2>2 DEF Waits
  <2>3. CASE Starts BY <1>1, <1>2, <2>1, <2>3, Tables, AddressedModules DEF Starts, Commands
  <2>4. CASE EndsAtOnce BY <1>1, <1>2, <1>3, <2>1, <2>4 DEF EndsAtOnce
  <2>5. CASE GoesOn BY <1>1, <1>2, <2>1, <2>5 DEF GoesOn
  <2>6. CASE Done BY <1>1, <1>2, <1>3, <2>1, <2>6 DEF Done, Valid
  <2>. QED BY <2>1, <2>2, <2>3, <2>4, <2>5, <2>6
<1>8. ASSUME NEW safetyAction \in BOOLEAN, UpdateSessions(safetyAction)
      PROVE  Disables'
  <2>1. /\ rpc = "sessions" /\ rpc' = "hardware" /\ mod' = mod
        /\ session' \in {"none", "new", Ran}
    BY <1>1, <1>8, UpdateEffect
  <2>2. PICK p \in Requests \cup {"none"} :
          /\ \/ p = pending /\ handle' = handle
             \/ /\ pending = "none" /\ p = "kDisableMotion" /\ session' = "none"
                /\ handle' = Preempted(handle)
          /\ \/ pending' = p /\ req' = req
             \/ ProcessTransitionRequestAsync(p)
    BY <1>1, <1>8, UpdateEffect
  <2>3. /\ handle'.cmd = handle.cmd /\ (handle' = NoHandle <=> handle = NoHandle)
        /\ handle'.id = "none" <=> handle.id = "none"
        /\ handle'.id = "current" => handle.id = "current" /\ p = pending
    BY <1>2, <1>4, <2>2
  <2>4. CASE pending' = p /\ req' = req
    BY <1>1, <1>2, <2>1, <2>2, <2>3, <2>4, CombinedEnabled, RequestsDone DEF Ran
  <2>5. CASE ProcessTransitionRequestAsync(p)
    BY <1>1, <1>2, <2>1, <2>2, <2>3, <2>5, CombinedEnabled, RequestsDone, Tables,
         AddressedModules
    DEF Ran, ProcessTransitionRequestAsync, TypeOK, Requests
  <2>. QED BY <2>2, <2>4, <2>5
<1>9. ASSUME NEW m \in Modules, ModuleStep(m)
      PROVE  Disables'
  <2>1. /\ rpc = "hardware" /\ rpc' = "hardware" /\ UNCHANGED <<pending, handle, session>>
        /\ \A n \in Modules \ {m} : mod'[n] = mod[n] /\ req'[n] = req[n]
        /\ Accepted(m) \/ Rejected(m) \/ Finished(m)
    BY <1>1, <1>9, ModuleEffect
  <2>2. CASE Accepted(m)
    BY <1>1, <1>2, <2>1, <2>2 DEF Accepted
  <2>3. CASE Rejected(m)
    BY <1>1, <1>2, <2>1, <2>3 DEF Rejected
  <2>4. CASE Finished(m)
    BY <1>1, <1>2, <2>1, <2>4 DEF Finished
  <2>. QED BY <2>1, <2>2, <2>3, <2>4
<1>10. ASSUME NEW m \in Modules, Fault(m)
       PROVE  Disables'
  <2>1. /\ rpc = "hardware" /\ rpc' = "hardware" /\ UNCHANGED <<req, pending, handle, session>>
        /\ mod'[m] \in Faults /\ \A n \in Modules \ {m} : mod'[n] = mod[n]
    BY <1>1, <1>10, FaultEffect
  <2>. QED BY <1>1, <1>2, <2>1 DEF Faults
<1>11. CASE ShutsDown BY <1>1, <1>2, <1>3, <1>11, ShutDownFacts DEF ShutsDown
<1>12. CASE Rests BY <1>1, <1>12 DEF Rests
<1>. QED BY Steps, <1>5, <1>6, <1>7, <1>8, <1>9, <1>10, <1>11, <1>12

\* A disable reaches the modules that are enabled.
LEMMA NextDisableSent ==
  ASSUME OperationalIInv, [Next]_vars
  PROVE  DisableSent'
<1>1. TypeOK /\ Transitions /\ Calls /\ Owned /\ DisableSent BY DEF OperationalIInv
<1>2. /\ handle.id \in {"none", "current", "preempted"}
      /\ (handle = NoHandle => handle.id = "none")
      /\ handle # NoHandle => /\ handle.cmd \in Commands
                            /\ Addressed(RequestOf[handle.cmd]) \subseteq Modules
  BY <1>1, HandleFields, AddressedModules, Tables DEF TypeOK, Commands, Requests
<1>3. NoHandle.id = "none" BY DEF NoHandle
<1>4. /\ Preempted(handle).cmd = handle.cmd
      /\ (Preempted(handle) = NoHandle <=> handle = NoHandle)
      /\ Preempted(handle).id = IF handle.id = "current" THEN "preempted" ELSE handle.id
  BY <1>1, PreemptedFields DEF TypeOK
<1>. USE DEF UnderWay, DisableSent, Enabled, Disabling, Faults, Transitions, Owned, OwnedBy
<1>5. CASE Fail BY <1>1, <1>2, <1>5 DEF Fail, hardware, StateCode
<1>6. CASE Propagates BY <1>1, <1>2, <1>4, <1>6 DEF Propagates
<1>7. CASE HandleOperationalStatus
  <2>1. /\ rpc = "command" /\ rpc' = "sessions" /\ UNCHANGED <<mod, req>>
        /\ session' = IF handle' = NoHandle /\ Lost THEN "none" ELSE session
        /\ Waits \/ Starts \/ EndsAtOnce \/ GoesOn \/ Done
    BY <1>1, <1>7, HandleEffect
  <2>2. CASE Waits BY <1>1, <1>2, <1>3, <2>1, <2>2 DEF Waits
  <2>3. CASE Starts BY <1>1, <1>2, <2>1, <2>3, Tables, AddressedModules DEF Starts, Commands
  <2>4. CASE EndsAtOnce BY <1>1, <1>2, <1>3, <2>1, <2>4 DEF EndsAtOnce
  <2>5. CASE GoesOn BY <1>1, <1>2, <2>1, <2>5 DEF GoesOn
  <2>6. CASE Done BY <1>1, <1>2, <1>3, <2>1, <2>6 DEF Done, Valid
  <2>. QED BY <2>1, <2>2, <2>3, <2>4, <2>5, <2>6
<1>8. ASSUME NEW safetyAction \in BOOLEAN, UpdateSessions(safetyAction)
      PROVE  DisableSent'
  <2>1. /\ rpc = "sessions" /\ rpc' = "hardware" /\ mod' = mod
        /\ session' \in {"none", "new", Ran}
    BY <1>1, <1>8, UpdateEffect
  <2>2. PICK p \in Requests \cup {"none"} :
          /\ \/ p = pending /\ handle' = handle
             \/ /\ pending = "none" /\ p = "kDisableMotion" /\ session' = "none"
                /\ handle' = Preempted(handle)
          /\ \/ pending' = p /\ req' = req
             \/ ProcessTransitionRequestAsync(p)
    BY <1>1, <1>8, UpdateEffect
  <2>3. /\ handle'.cmd = handle.cmd /\ (handle' = NoHandle <=> handle = NoHandle)
        /\ handle'.id = "none" <=> handle.id = "none"
        /\ handle'.id = "current" => handle.id = "current" /\ p = pending
    BY <1>2, <1>4, <2>2
  <2>4. CASE pending' = p /\ req' = req
    BY <1>1, <1>2, <2>1, <2>2, <2>3, <2>4, CombinedEnabled, RequestsDone DEF Ran
  <2>5. CASE ProcessTransitionRequestAsync(p)
    BY <1>1, <1>2, <2>1, <2>2, <2>3, <2>5, CombinedEnabled, RequestsDone, Tables,
         AddressedModules
    DEF Ran, ProcessTransitionRequestAsync, TypeOK, Requests
  <2>. QED BY <2>2, <2>4, <2>5
<1>9. ASSUME NEW m \in Modules, ModuleStep(m)
      PROVE  DisableSent'
  <2>1. /\ rpc = "hardware" /\ rpc' = "hardware" /\ UNCHANGED <<pending, handle, session>>
        /\ \A n \in Modules \ {m} : mod'[n] = mod[n] /\ req'[n] = req[n]
        /\ Accepted(m) \/ Rejected(m) \/ Finished(m)
    BY <1>1, <1>9, ModuleEffect
  <2>2. CASE Accepted(m)
    BY <1>1, <1>2, <2>1, <2>2 DEF Accepted
  <2>3. CASE Rejected(m)
    BY <1>1, <1>2, <2>1, <2>3 DEF Rejected
  <2>4. CASE Finished(m)
    BY <1>1, <1>2, <2>1, <2>4 DEF Finished
  <2>. QED BY <2>1, <2>2, <2>3, <2>4
<1>10. ASSUME NEW m \in Modules, Fault(m)
       PROVE  DisableSent'
  <2>1. /\ rpc = "hardware" /\ rpc' = "hardware" /\ UNCHANGED <<req, pending, handle, session>>
        /\ mod'[m] \in Faults /\ \A n \in Modules \ {m} : mod'[n] = mod[n]
    BY <1>1, <1>10, FaultEffect
  <2>. QED BY <1>1, <1>2, <2>1 DEF Faults
<1>11. CASE ShutsDown BY <1>1, <1>2, <1>3, <1>11, ShutDownFacts DEF ShutsDown
<1>12. CASE Rests BY <1>1, <1>12 DEF Rests
<1>. QED BY Steps, <1>5, <1>6, <1>7, <1>8, <1>9, <1>10, <1>11, <1>12

\* A command under way has a request, a session without hardware a command.
LEMMA NextHandled ==
  ASSUME OperationalIInv, [Next]_vars
  PROVE  Handled'
<1>1. TypeOK /\ Transitions /\ Calls /\ Handled BY DEF OperationalIInv
<1>2. /\ handle.id \in {"none", "current", "preempted"}
      /\ (handle = NoHandle => handle.id = "none")
      /\ handle # NoHandle => handle.cmd \in Commands
  BY <1>1, HandleFields DEF TypeOK
<1>3. NoHandle.id = "none" BY DEF NoHandle
<1>4. /\ Preempted(handle).cmd = handle.cmd
      /\ (Preempted(handle) = NoHandle <=> handle = NoHandle)
      /\ Preempted(handle).id = IF handle.id = "current" THEN "preempted" ELSE handle.id
  BY <1>1, PreemptedFields DEF TypeOK
<1>. USE DEF UnderWay, Handled, Lost, Enabled, Valid
<1>5. CASE Fail BY <1>1, <1>2, <1>5 DEF Fail, hardware, StateCode
<1>6. CASE Propagates BY <1>1, <1>2, <1>4, <1>6 DEF Propagates
<1>7. CASE HandleOperationalStatus
  <2>1. /\ rpc = "command" /\ rpc' = "sessions" /\ UNCHANGED <<mod, req>>
        /\ session' = IF handle' = NoHandle /\ Lost THEN "none" ELSE session
        /\ Waits \/ Starts \/ EndsAtOnce \/ GoesOn \/ Done
    BY <1>1, <1>7, HandleEffect
  <2>2. CASE Waits BY <1>1, <1>2, <1>3, <2>1, <2>2 DEF Waits
  <2>3. CASE Starts BY <1>1, <1>2, <2>1, <2>3, Tables, AddressedModules DEF Starts, Commands
  <2>4. CASE EndsAtOnce BY <1>1, <1>2, <1>3, <2>1, <2>4 DEF EndsAtOnce
  <2>5. CASE GoesOn BY <1>1, <1>2, <2>1, <2>5 DEF GoesOn
  <2>6. CASE Done BY <1>1, <1>2, <1>3, <2>1, <2>6 DEF Done, Valid
  <2>. QED BY <2>1, <2>2, <2>3, <2>4, <2>5, <2>6
<1>8. ASSUME NEW safetyAction \in BOOLEAN, UpdateSessions(safetyAction)
      PROVE  Handled'
  <2>1. /\ rpc = "sessions" /\ rpc' = "hardware" /\ mod' = mod
        /\ session' \in {"none", "new", Ran}
    BY <1>1, <1>8, UpdateEffect
  <2>2. PICK p \in Requests \cup {"none"} :
          /\ \/ p = pending /\ handle' = handle
             \/ /\ pending = "none" /\ p = "kDisableMotion" /\ session' = "none"
                /\ handle' = Preempted(handle)
          /\ \/ pending' = p /\ req' = req
             \/ ProcessTransitionRequestAsync(p)
    BY <1>1, <1>8, UpdateEffect
  <2>3. /\ handle'.cmd = handle.cmd /\ (handle' = NoHandle <=> handle = NoHandle)
        /\ handle'.id = "none" <=> handle.id = "none"
        /\ handle'.id = "current" => handle.id = "current" /\ p = pending
    BY <1>2, <1>4, <2>2
  <2>4. CASE pending' = p /\ req' = req
    BY <1>1, <1>2, <2>1, <2>2, <2>3, <2>4, CombinedEnabled, RequestsDone DEF Ran
  <2>5. CASE ProcessTransitionRequestAsync(p)
    BY <1>1, <1>2, <2>1, <2>2, <2>3, <2>5, CombinedEnabled, RequestsDone, Tables,
         AddressedModules
    DEF Ran, ProcessTransitionRequestAsync, TypeOK, Requests
  <2>. QED BY <2>2, <2>4, <2>5
<1>9. ASSUME NEW m \in Modules, ModuleStep(m)
      PROVE  Handled'
  <2>1. /\ rpc = "hardware" /\ rpc' = "hardware" /\ UNCHANGED <<pending, handle, session>>
        /\ \A n \in Modules \ {m} : mod'[n] = mod[n] /\ req'[n] = req[n]
        /\ Accepted(m) \/ Rejected(m) \/ Finished(m)
    BY <1>1, <1>9, ModuleEffect
  <2>2. CASE Accepted(m)
    BY <1>1, <1>2, <2>1, <2>2 DEF Accepted
  <2>3. CASE Rejected(m)
    BY <1>1, <1>2, <2>1, <2>3 DEF Rejected
  <2>4. CASE Finished(m)
    BY <1>1, <1>2, <2>1, <2>4 DEF Finished
  <2>. QED BY <2>1, <2>2, <2>3, <2>4
<1>10. ASSUME NEW m \in Modules, Fault(m)
       PROVE  Handled'
  <2>1. /\ rpc = "hardware" /\ rpc' = "hardware" /\ UNCHANGED <<req, pending, handle, session>>
        /\ mod'[m] \in Faults /\ \A n \in Modules \ {m} : mod'[n] = mod[n]
    BY <1>1, <1>10, FaultEffect
  <2>. QED BY <1>1, <1>2, <2>1 DEF Faults
<1>11. CASE ShutsDown BY <1>1, <1>2, <1>3, <1>11, ShutDownFacts DEF ShutsDown
<1>12. CASE Rests BY <1>1, <1>12 DEF Rests
<1>. QED BY Steps, <1>5, <1>6, <1>7, <1>8, <1>9, <1>10, <1>11, <1>12

\* Only a fault takes away the hardware of a session without a command.
LEMMA NextSessionOn ==
  ASSUME OperationalIInv, [Next]_vars
  PROVE  SessionOn'
<1>1. TypeOK /\ Transitions /\ Calls /\ Handled /\ SessionOn BY DEF OperationalIInv
<1>2. /\ handle.id \in {"none", "current", "preempted"}
      /\ (handle = NoHandle => handle.id = "none")
      /\ handle # NoHandle => handle.cmd \in Commands
  BY <1>1, HandleFields DEF TypeOK
<1>3. NoHandle.id = "none" BY DEF NoHandle
<1>4. /\ Preempted(handle).cmd = handle.cmd
      /\ (Preempted(handle) = NoHandle <=> handle = NoHandle)
      /\ Preempted(handle).id = IF handle.id = "current" THEN "preempted" ELSE handle.id
  BY <1>1, PreemptedFields DEF TypeOK
<1>. USE DEF UnderWay, SessionOn, Faulty, Faults, Lost, Enabled, Valid, Handled, Transitions
<1>5. CASE Fail BY <1>1, <1>2, <1>5 DEF Fail, hardware, StateCode
<1>6. CASE Propagates BY <1>1, <1>2, <1>4, <1>6 DEF Propagates
<1>7. CASE HandleOperationalStatus
  <2>1. /\ rpc = "command" /\ rpc' = "sessions" /\ UNCHANGED <<mod, req>>
        /\ session' = IF handle' = NoHandle /\ Lost THEN "none" ELSE session
        /\ Waits \/ Starts \/ EndsAtOnce \/ GoesOn \/ Done
    BY <1>1, <1>7, HandleEffect
  <2>2. CASE Waits BY <1>1, <1>2, <1>3, <2>1, <2>2 DEF Waits
  <2>3. CASE Starts BY <1>1, <1>2, <2>1, <2>3, Tables, AddressedModules DEF Starts, Commands
  <2>4. CASE EndsAtOnce BY <1>1, <1>2, <1>3, <2>1, <2>4 DEF EndsAtOnce
  <2>5. CASE GoesOn BY <1>1, <1>2, <2>1, <2>5 DEF GoesOn
  <2>6. CASE Done BY <1>1, <1>2, <1>3, <2>1, <2>6 DEF Done, Valid
  <2>. QED BY <2>1, <2>2, <2>3, <2>4, <2>5, <2>6
<1>8. ASSUME NEW safetyAction \in BOOLEAN, UpdateSessions(safetyAction)
      PROVE  SessionOn'
  <2>1. /\ rpc = "sessions" /\ rpc' = "hardware" /\ mod' = mod
        /\ session' \in {"none", "new", Ran}
    BY <1>1, <1>8, UpdateEffect
  <2>2. PICK p \in Requests \cup {"none"} :
          /\ \/ p = pending /\ handle' = handle
             \/ /\ pending = "none" /\ p = "kDisableMotion" /\ session' = "none"
                /\ handle' = Preempted(handle)
          /\ \/ pending' = p /\ req' = req
             \/ ProcessTransitionRequestAsync(p)
    BY <1>1, <1>8, UpdateEffect
  <2>3. /\ handle'.cmd = handle.cmd /\ (handle' = NoHandle <=> handle = NoHandle)
        /\ handle'.id = "none" <=> handle.id = "none"
        /\ handle'.id = "current" => handle.id = "current" /\ p = pending
    BY <1>2, <1>4, <2>2
  <2>4. CASE pending' = p /\ req' = req
    BY <1>1, <1>2, <2>1, <2>2, <2>3, <2>4, CombinedEnabled, RequestsDone DEF Ran
  <2>5. CASE ProcessTransitionRequestAsync(p)
    BY <1>1, <1>2, <2>1, <2>2, <2>3, <2>5, CombinedEnabled, RequestsDone, Tables,
         AddressedModules
    DEF Ran, ProcessTransitionRequestAsync, TypeOK, Requests
  <2>. QED BY <2>2, <2>4, <2>5
<1>9. ASSUME NEW m \in Modules, ModuleStep(m)
      PROVE  SessionOn'
  <2>1. /\ rpc = "hardware" /\ rpc' = "hardware" /\ UNCHANGED <<pending, handle, session>>
        /\ \A n \in Modules \ {m} : mod'[n] = mod[n] /\ req'[n] = req[n]
        /\ Accepted(m) \/ Rejected(m) \/ Finished(m)
    BY <1>1, <1>9, ModuleEffect
  <2>2. CASE Accepted(m)
    BY <1>1, <1>2, <2>1, <2>2 DEF Accepted
  <2>3. CASE Rejected(m)
    BY <1>1, <1>2, <2>1, <2>3 DEF Rejected
  <2>4. CASE Finished(m)
    BY <1>1, <1>2, <2>1, <2>4 DEF Finished
  <2>. QED BY <2>1, <2>2, <2>3, <2>4
<1>10. ASSUME NEW m \in Modules, Fault(m)
       PROVE  SessionOn'
  <2>1. /\ rpc = "hardware" /\ rpc' = "hardware" /\ UNCHANGED <<req, pending, handle, session>>
        /\ mod'[m] \in Faults /\ \A n \in Modules \ {m} : mod'[n] = mod[n]
    BY <1>1, <1>10, FaultEffect
  <2>. QED BY <1>1, <1>2, <2>1 DEF Faults
<1>11. CASE ShutsDown BY <1>1, <1>2, <1>3, <1>11, ShutDownFacts DEF ShutsDown
<1>12. CASE Rests BY <1>1, <1>12 DEF Rests
<1>. QED BY Steps, <1>5, <1>6, <1>7, <1>8, <1>9, <1>10, <1>11, <1>12

\* A session that lost its hardware does not get it back.
LEMMA NextSessionOff ==
  ASSUME OperationalIInv, [Next]_vars
  PROVE  SessionOff'
<1>1. TypeOK /\ Transitions /\ Calls /\ Handled /\ SessionOn /\ SessionOff /\ Owned BY
     DEF OperationalIInv
<1>2. /\ handle.id \in {"none", "current", "preempted"}
      /\ (handle = NoHandle => handle.id = "none")
      /\ handle # NoHandle => handle.cmd \in Commands
  BY <1>1, HandleFields DEF TypeOK
<1>3. NoHandle.id = "none" BY DEF NoHandle
<1>4. /\ Preempted(handle).cmd = handle.cmd
      /\ (Preempted(handle) = NoHandle <=> handle = NoHandle)
      /\ Preempted(handle).id = IF handle.id = "current" THEN "preempted" ELSE handle.id
  BY <1>1, PreemptedFields DEF TypeOK
<1>. USE DEF UnderWay, SessionOff, Faulty, Faults, Lost, Enabled, Valid, Handled, SessionOn,
     Owned, OwnedBy
<1>5. CASE Fail BY <1>1, <1>2, <1>5 DEF Fail, hardware, StateCode
<1>6. CASE Propagates BY <1>1, <1>2, <1>4, <1>6 DEF Propagates
<1>7. CASE HandleOperationalStatus
  <2>1. /\ rpc = "command" /\ rpc' = "sessions" /\ UNCHANGED <<mod, req>>
        /\ session' = IF handle' = NoHandle /\ Lost THEN "none" ELSE session
        /\ Waits \/ Starts \/ EndsAtOnce \/ GoesOn \/ Done
    BY <1>1, <1>7, HandleEffect
  <2>2. CASE Waits BY <1>1, <1>2, <1>3, <2>1, <2>2 DEF Waits
  <2>3. CASE Starts BY <1>1, <1>2, <2>1, <2>3, Tables, AddressedModules DEF Starts, Commands
  <2>4. CASE EndsAtOnce BY <1>1, <1>2, <1>3, <2>1, <2>4 DEF EndsAtOnce
  <2>5. CASE GoesOn BY <1>1, <1>2, <2>1, <2>5 DEF GoesOn
  <2>6. CASE Done BY <1>1, <1>2, <1>3, <2>1, <2>6 DEF Done, Valid
  <2>. QED BY <2>1, <2>2, <2>3, <2>4, <2>5, <2>6
<1>8. ASSUME NEW safetyAction \in BOOLEAN, UpdateSessions(safetyAction)
      PROVE  SessionOff'
  <2>1. /\ rpc = "sessions" /\ rpc' = "hardware" /\ mod' = mod
        /\ session' \in {"none", "new", Ran}
    BY <1>1, <1>8, UpdateEffect
  <2>2. PICK p \in Requests \cup {"none"} :
          /\ \/ p = pending /\ handle' = handle
             \/ /\ pending = "none" /\ p = "kDisableMotion" /\ session' = "none"
                /\ handle' = Preempted(handle)
          /\ \/ pending' = p /\ req' = req
             \/ ProcessTransitionRequestAsync(p)
    BY <1>1, <1>8, UpdateEffect
  <2>3. /\ handle'.cmd = handle.cmd /\ (handle' = NoHandle <=> handle = NoHandle)
        /\ handle'.id = "none" <=> handle.id = "none"
        /\ handle'.id = "current" => handle.id = "current" /\ p = pending
    BY <1>2, <1>4, <2>2
  <2>4. CASE pending' = p /\ req' = req
    BY <1>1, <1>2, <2>1, <2>2, <2>3, <2>4, CombinedEnabled, RequestsDone DEF Ran
  <2>5. CASE ProcessTransitionRequestAsync(p)
    BY <1>1, <1>2, <2>1, <2>2, <2>3, <2>5, CombinedEnabled, RequestsDone, Tables,
         AddressedModules
    DEF Ran, ProcessTransitionRequestAsync, TypeOK, Requests
  <2>. QED BY <2>2, <2>4, <2>5
<1>9. ASSUME NEW m \in Modules, ModuleStep(m)
      PROVE  SessionOff'
  <2>1. /\ rpc = "hardware" /\ rpc' = "hardware" /\ UNCHANGED <<pending, handle, session>>
        /\ \A n \in Modules \ {m} : mod'[n] = mod[n] /\ req'[n] = req[n]
        /\ Accepted(m) \/ Rejected(m) \/ Finished(m)
    BY <1>1, <1>9, ModuleEffect
  <2>2. CASE Accepted(m)
    BY <1>1, <1>2, <2>1, <2>2 DEF Accepted
  <2>3. CASE Rejected(m)
    BY <1>1, <1>2, <2>1, <2>3 DEF Rejected
  <2>4. CASE Finished(m)
    BY <1>1, <1>2, <2>1, <2>4 DEF Finished
  <2>. QED BY <2>1, <2>2, <2>3, <2>4
<1>10. ASSUME NEW m \in Modules, Fault(m)
       PROVE  SessionOff'
  <2>1. /\ rpc = "hardware" /\ rpc' = "hardware" /\ UNCHANGED <<req, pending, handle, session>>
        /\ mod'[m] \in Faults /\ \A n \in Modules \ {m} : mod'[n] = mod[n]
    BY <1>1, <1>10, FaultEffect
  <2>. QED BY <1>1, <1>2, <2>1 DEF Faults
<1>11. CASE ShutsDown BY <1>1, <1>2, <1>3, <1>11, ShutDownFacts DEF ShutsDown
<1>12. CASE Rests BY <1>1, <1>12 DEF Rests
<1>. QED BY Steps, <1>5, <1>6, <1>7, <1>8, <1>9, <1>10, <1>11, <1>12

\* Nothing starts in a server that shuts down.
LEMMA NextShutDown ==
  ASSUME OperationalIInv, [Next]_vars
  PROVE  ShutDown'
<1>1. TypeOK /\ Transitions /\ Calls /\ ShutDown BY DEF OperationalIInv
<1>2. /\ handle.id \in {"none", "current", "preempted"}
      /\ (handle = NoHandle => handle.id = "none")
      /\ handle # NoHandle => handle.cmd \in Commands
  BY <1>1, HandleFields DEF TypeOK
<1>3. NoHandle.id = "none" BY DEF NoHandle
<1>4. /\ Preempted(handle).cmd = handle.cmd
      /\ (Preempted(handle) = NoHandle <=> handle = NoHandle)
      /\ Preempted(handle).id = IF handle.id = "current" THEN "preempted" ELSE handle.id
  BY <1>1, PreemptedFields DEF TypeOK
<1>. USE DEF UnderWay, ShutDown
<1>5. CASE Fail BY <1>1, <1>2, <1>5 DEF Fail, hardware, StateCode
<1>6. CASE Propagates BY <1>1, <1>2, <1>4, <1>6 DEF Propagates
<1>7. CASE HandleOperationalStatus
  <2>1. /\ rpc = "command" /\ rpc' = "sessions" /\ UNCHANGED <<mod, req>>
        /\ session' = IF handle' = NoHandle /\ Lost THEN "none" ELSE session
        /\ Waits \/ Starts \/ EndsAtOnce \/ GoesOn \/ Done
    BY <1>1, <1>7, HandleEffect
  <2>2. CASE Waits BY <1>1, <1>2, <1>3, <2>1, <2>2 DEF Waits
  <2>3. CASE Starts BY <1>1, <1>2, <2>1, <2>3, Tables, AddressedModules DEF Starts, Commands
  <2>4. CASE EndsAtOnce BY <1>1, <1>2, <1>3, <2>1, <2>4 DEF EndsAtOnce
  <2>5. CASE GoesOn BY <1>1, <1>2, <2>1, <2>5 DEF GoesOn
  <2>6. CASE Done BY <1>1, <1>2, <1>3, <2>1, <2>6 DEF Done, Valid
  <2>. QED BY <2>1, <2>2, <2>3, <2>4, <2>5, <2>6
<1>8. ASSUME NEW safetyAction \in BOOLEAN, UpdateSessions(safetyAction)
      PROVE  ShutDown'
  <2>1. /\ rpc = "sessions" /\ rpc' = "hardware" /\ mod' = mod
        /\ session' \in {"none", "new", Ran}
    BY <1>1, <1>8, UpdateEffect
  <2>2. PICK p \in Requests \cup {"none"} :
          /\ \/ p = pending /\ handle' = handle
             \/ /\ pending = "none" /\ p = "kDisableMotion" /\ session' = "none"
                /\ handle' = Preempted(handle)
          /\ \/ pending' = p /\ req' = req
             \/ ProcessTransitionRequestAsync(p)
    BY <1>1, <1>8, UpdateEffect
  <2>3. /\ handle'.cmd = handle.cmd /\ (handle' = NoHandle <=> handle = NoHandle)
        /\ handle'.id = "none" <=> handle.id = "none"
        /\ handle'.id = "current" => handle.id = "current" /\ p = pending
    BY <1>2, <1>4, <2>2
  <2>4. CASE pending' = p /\ req' = req
    BY <1>1, <1>2, <2>1, <2>2, <2>3, <2>4, CombinedEnabled, RequestsDone DEF Ran
  <2>5. CASE ProcessTransitionRequestAsync(p)
    BY <1>1, <1>2, <2>1, <2>2, <2>3, <2>5, CombinedEnabled, RequestsDone, Tables,
         AddressedModules
    DEF Ran, ProcessTransitionRequestAsync, TypeOK, Requests
  <2>. QED BY <2>2, <2>4, <2>5
<1>9. ASSUME NEW m \in Modules, ModuleStep(m)
      PROVE  ShutDown'
  <2>1. /\ rpc = "hardware" /\ rpc' = "hardware" /\ UNCHANGED <<pending, handle, session>>
        /\ \A n \in Modules \ {m} : mod'[n] = mod[n] /\ req'[n] = req[n]
        /\ Accepted(m) \/ Rejected(m) \/ Finished(m)
    BY <1>1, <1>9, ModuleEffect
  <2>2. CASE Accepted(m)
    BY <1>1, <1>2, <2>1, <2>2 DEF Accepted
  <2>3. CASE Rejected(m)
    BY <1>1, <1>2, <2>1, <2>3 DEF Rejected
  <2>4. CASE Finished(m)
    BY <1>1, <1>2, <2>1, <2>4 DEF Finished
  <2>. QED BY <2>1, <2>2, <2>3, <2>4
<1>10. ASSUME NEW m \in Modules, Fault(m)
       PROVE  ShutDown'
  <2>1. /\ rpc = "hardware" /\ rpc' = "hardware" /\ UNCHANGED <<req, pending, handle, session>>
        /\ mod'[m] \in Faults /\ \A n \in Modules \ {m} : mod'[n] = mod[n]
    BY <1>1, <1>10, FaultEffect
  <2>. QED BY <1>1, <1>2, <2>1 DEF Faults
<1>11. CASE ShutsDown BY <1>1, <1>2, <1>3, <1>11, ShutDownFacts DEF ShutsDown
<1>12. CASE Rests BY <1>1, <1>12 DEF Rests
<1>. QED BY Steps, <1>5, <1>6, <1>7, <1>8, <1>9, <1>10, <1>11, <1>12

\* The calls in the queue stay there, except the one that a step takes out.
LEMMA QueueTail ==
  ASSUME TypeOK, queue # <<>>
  PROVE  /\ Head(queue) = queue[1] /\ 1 \in 1 .. Len(queue) /\ Head(queue) \in Clients
         /\ Tail(queue) \in Seq(Clients)
         /\ \A i \in 1 .. Len(Tail(queue)) :
              i + 1 \in 1 .. Len(queue) /\ Tail(queue)[i] = queue[i + 1]
BY DEF TypeOK

\* A step that answers at most the call w, and does not leave it in the queue or the handle.
LEMMA AnswerKeepsCalls ==
  ASSUME TypeOK, Calls, NEW w, NEW result, Answer(w, result), handle' = NoHandle,
         \/ w = handle.who /\ queue' = queue
         \/ w \notin Clients /\ queue' = queue
         \/ queue # <<>> /\ w = Head(queue) /\ queue' = Tail(queue)
  PROVE  Calls'
<1>1. NoHandle.who \notin Clients /\ NoHandle.id = "none"
  BY OperationalAssumption DEF NoHandle
<1>2. \A c \in Clients : c # w => cpc'[c] = cpc[c] /\ cmd'[c] = cmd[c]
  BY DEF Answer
<1>3. \A i \in 1 .. Len(queue) : queue[i] \in Clients BY DEF TypeOK
<1>4. CASE queue' = queue /\ (w = handle.who \/ w \notin Clients)
  BY <1>1, <1>2, <1>3, <1>4 DEF Calls
<1>5. CASE queue # <<>> /\ w = Head(queue) /\ queue' = Tail(queue)
  <2>1. \A i \in 1 .. Len(queue') :
          /\ i + 1 \in 1 .. Len(queue) /\ queue'[i] = queue[i + 1] /\ queue'[i] # w
          /\ queue'[i] \in Clients
    BY <1>3, <1>5, QueueTail DEF Calls
  <2>2. \A i \in 1 .. Len(queue') :
          cpc'[queue'[i]] \in {"locked", "await"} /\ cmd'[queue'[i]] # "kNone"
    BY <1>2, <2>1 DEF Calls
  <2>3. \A i, j \in 1 .. Len(queue') : queue'[i] = queue'[j] => i = j
    BY <2>1 DEF Calls
  <2>. QED BY <1>1, <2>1, <2>2, <2>3 DEF Calls
<1>. QED BY <1>4, <1>5

\* A call is in the queue or has the handle, and only once.
LEMMA NextCalls ==
  ASSUME OperationalIInv, [Next]_vars
  PROVE  Calls'
<1>1. TypeOK /\ Calls BY DEF OperationalIInv
<1>2. /\ handle.id \in {"none", "current", "preempted"}
      /\ (handle = NoHandle => handle.id = "none")
      /\ \A i \in 1 .. Len(queue) : queue[i] \in Clients
  BY <1>1, HandleFields DEF TypeOK
<1>3. CASE handle' \in {handle, Preempted(handle)} /\ UNCHANGED <<cpc, cmd, queue>>
  <2>1. /\ handle'.who = handle.who /\ handle'.cmd = handle.cmd
        /\ handle'.id = "none" <=> handle.id = "none"
    BY <1>1, <1>2, <1>3, PreemptedFields DEF TypeOK
  <2>. QED BY <1>1, <1>3, <2>1 DEF Calls, UnderWay
<1>4. CASE Fail BY <1>3, <1>4 DEF Fail, clients, bridge
<1>5. CASE Propagates BY <1>3, <1>5 DEF Propagates
<1>6. ASSUME NEW safetyAction \in BOOLEAN, UpdateSessions(safetyAction) PROVE Calls'
  BY <1>1, <1>3, <1>6, UpdateEffect
<1>7. CASE \E m \in Modules : ModuleStep(m) \/ Fault(m)
  BY <1>3, <1>7 DEF ModuleStep, Fault, clients, bridge
<1>8. CASE Close BY <1>3, <1>8 DEF Close, clients
<1>9. CASE Abort
  <2>1. CASE handle # NoHandle /\ Answer(handle.who,
       "idle") /\ handle' = NoHandle /\ queue' = queue
    BY <1>1, <2>1, AnswerKeepsCalls
  <2>2. CASE /\ handle = NoHandle /\ queue # <<>> /\ handle' = handle /\ queue' = Tail(queue)
             /\ Answer(Head(queue), "idle")
    BY <1>1, <2>2, AnswerKeepsCalls
  <2>3. CASE UNCHANGED <<handle, queue, clients>> BY <1>3, <2>3 DEF clients
  <2>. QED BY <1>9, <2>1, <2>2, <2>3 DEF Abort
<1>10. ASSUME NEW c \in Clients, CallCheck(c) \/ Await(c) PROVE Calls'
  <2>1. UNCHANGED <<handle, cmd, queue>> /\ \A d \in Clients \ {c} : cpc'[d] = cpc[d]
    BY <1>1, <1>10 DEF CallCheck, Await, Goto, bridge, TypeOK
  <2>2. \/ cpc[c] \in {"idle", "ok"}
        \/ cpc[c] = "locked" /\ cpc'[c] = "await"
    BY <1>1, <1>10 DEF CallCheck, Await, Goto, TypeOK
  <2>. QED BY <1>1, <1>2, <2>1, <2>2 DEF Calls, UnderWay
<1>11. ASSUME NEW c \in Clients, CallInsert(c) PROVE Calls'
  <2>1. /\ handle' = handle /\ queue' = Append(queue, c)
        /\ cpc[c] = "insert" /\ cpc' = [cpc EXCEPT ![c] = "locked"]
    BY <1>11 DEF CallInsert, Goto
  <2>2. PICK x \in Commands : cmd' = [cmd EXCEPT ![c] = x]
    BY <1>11 DEF CallInsert
  <2>3. /\ cpc'[c] = "locked" /\ cmd'[c] \in Commands
        /\ \A d \in Clients \ {c} : cpc'[d] = cpc[d] /\ cmd'[d] = cmd[d]
    BY <1>1, <2>1, <2>2 DEF TypeOK
  <2>4. c # handle.who /\ \A i \in 1 .. Len(queue) : queue[i] # c
    BY <1>1, <2>1 DEF Calls
  <2>5. /\ Len(queue') = Len(queue) + 1 /\ Len(queue) \in Nat /\ queue'[Len(queue) + 1] = c
        /\ \A i \in 1 .. Len(queue) : queue'[i] = queue[i]
    BY <1>1, <2>1 DEF TypeOK
  <2>6. \A i \in 1 .. Len(queue') : i = Len(queue) + 1 \/ i \in 1 .. Len(queue)
    BY <2>5
  <2>7. \A i \in 1 .. Len(queue') :
          /\ cpc'[queue'[i]] \in {"locked", "await"} /\ cmd'[queue'[i]] # "kNone"
          /\ queue'[i] # handle'.who
    BY <1>1, <1>2, <2>1, <2>3, <2>4, <2>5, <2>6 DEF Calls, Commands
  <2>8. \A i, j \in 1 .. Len(queue') : queue'[i] = queue'[j] => i = j
    BY <1>1, <2>4, <2>5, <2>6 DEF Calls
  <2>9. handle'.who \in Clients =>
          /\ cpc'[handle'.who] \in {"locked", "await"} /\ cmd'[handle'.who] = handle'.cmd
          /\ handle'.id # "none" => cpc'[handle'.who] = "await"
    BY <1>1, <2>1, <2>3, <2>4 DEF Calls, UnderWay
  <2>. QED BY <2>7, <2>8, <2>9 DEF Calls, UnderWay
<1>12. CASE HandleOperationalStatus
  <2>. DEFINE h == NextHandle(button')
  <2>1. /\ h \in HandleType /\ (handle # NoHandle => h = handle)
        /\ (handle = NoHandle => h.id = "none")
        /\ h.who \in Clients => cpc[h.who] \in {"locked", "await"} /\ cmd[h.who] = h.cmd
        /\ handle = NoHandle /\ h.who \in Clients => queue # <<>> /\ h.who = Head(queue)
    BY <1>1, NextHandles
  <2>2. queue' = IF handle = NoHandle /\ h.who \in Clients THEN Tail(queue) ELSE queue
    BY <1>12 DEF HandleOperationalStatus
  <2>3. NoHandle.who \notin Clients /\ NoHandle.id = "none"
    BY OperationalAssumption DEF NoHandle
  <2>4. \A i \in 1 .. Len(queue') :
          queue'[i] # h.who \/ handle # NoHandle \/ h.who \notin Clients
    BY <1>1, <2>1, <2>2, QueueTail DEF Calls
  <2>5. ASSUME NEW result, Answer(h.who, result), handle' = NoHandle PROVE Calls'
    BY <1>1, <2>1, <2>2, <2>5, AnswerKeepsCalls
  <2>6. ASSUME handle'.who = h.who, handle'.cmd = h.cmd, UNCHANGED clients,
               handle'.id # "none" => Unlocked(h.who)
        PROVE  Calls'
    <3>1. UNCHANGED <<cpc, cmd>> BY <2>6 DEF clients
    <3>2. /\ \A i \in 1 .. Len(queue') : \E k \in 1 .. Len(queue) : queue'[i] = queue[k]
          /\ \A i, j \in 1 .. Len(queue') : queue'[i] = queue'[j] => i = j
      BY <1>1, <2>1, <2>2, QueueTail DEF Calls
    <3>3. \A i \in 1 .. Len(queue') : queue'[i] # h.who
      BY <1>1, <1>2, <2>1, <2>2, <2>4, <3>2 DEF Calls
    <3>4. handle'.who \in Clients /\ handle'.id # "none" => cpc[handle'.who] = "await"
      BY <2>6 DEF Unlocked
    <3>. QED BY <1>1, <2>1, <2>6, <3>1, <3>2, <3>3, <3>4 DEF Calls, UnderWay
  <2>. HIDE DEF h
  <2>7. h.id \in {"none", "current", "preempted"} /\ (h = NoHandle => h.id = "none")
    BY <2>1, HandleFields DEF HandleType
  <2>8. h.id # "none" => Unlocked(h.who)
    BY <1>1, <2>1, <2>3 DEF Calls, Unlocked, UnderWay
  <2>9. CASE h = NoHandle \/ ~Unlocked(h.who)
    <3>1. handle' = h /\ UNCHANGED clients BY <1>12, <2>9 DEF HandleOperationalStatus, h
    <3>. QED BY <2>6, <2>8, <3>1
  <2>10. CASE h # NoHandle /\ Unlocked(h.who) /\ h.id = "none"
    <3>1. StartCommand(h) BY <1>12, <2>10 DEF HandleOperationalStatus, h
    <3>2. CASE handle' = [h EXCEPT !.id = "current"] /\ UNCHANGED clients
      <4>1. handle'.who = h.who /\ handle'.cmd = h.cmd
        BY <2>1, <2>10, <3>2 DEF HandleType
      <4>. QED BY <2>6, <2>10, <3>2, <4>1
    <3>. QED BY <2>5, <3>1, <3>2 DEF StartCommand
  <2>11. CASE h # NoHandle /\ Unlocked(h.who) /\ h.id # "none"
    <3>1. CheckCommandState(h) BY <1>12, <2>11 DEF HandleOperationalStatus, h
    <3>. QED BY <2>5, <2>6, <2>11, <3>1 DEF CheckCommandState
  <2>. QED BY <2>9, <2>10, <2>11
<1>13. CASE UNCHANGED vars BY <1>3, <1>13 DEF vars, clients, bridge
<1>14. CASE PreUpdateSessions BY <1>1, <1>4, <1>5, <1>14, PreUpdateEffect
<1>15. CASE CycleFails \/ DisableFails \/ \E m \in Modules : RequestTimeout(m)
  BY <1>4, <1>15 DEF CycleFails, DisableFails, RequestTimeout
<1>. QED
  BY <1>6, <1>7, <1>8, <1>9, <1>10, <1>11, <1>12, <1>13, <1>14, <1>15 DEF Next, Cycle

\* Every step keeps the types.
LEMMA OperationalNextTypeOK ==
  ASSUME OperationalIInv, [Next]_vars
  PROVE  TypeOK'
<1>1. TypeOK /\ Calls /\ Transitions BY DEF OperationalIInv
<1>. DEFINE HardwareType == /\ mod \in [Modules -> StateCode]
                            /\ req \in [Modules -> Requests \cup {"none", "working", "ready"}]
                            /\ faults \in 0 .. MaxFaults
            CycleType == /\ pending \in Requests \cup {"none"} /\ handle \in HandleType
                         /\ everSet \in BOOLEAN /\ mode \in {"AUTOMATIC", "TEACH_PENDANT_1"}
                         /\ button \in {"UNKNOWN", "ENGAGED", "DISENGAGED"}
                         /\ session \in {"none", "new", "on", "off"}
                         /\ rpc \in {"hardware", "command", "sessions", "close", "abort",
                                     "stopped"}
            CallType == /\ cpc \in [Clients -> {"idle", "insert", "locked", "await", "ok"}]
                        /\ cmd \in [Clients -> Commands \cup {"kNone"}]
                        /\ queue \in Seq(Clients) /\ closed \in BOOLEAN
<1>2. TypeOK <=> HardwareType /\ CycleType /\ CallType BY DEF TypeOK, HandleType
<1>3. TypeOK' <=> HardwareType' /\ CycleType' /\ CallType' BY DEF TypeOK, HandleType
<1>4. NoHandle \in HandleType /\ Preempted(handle) \in HandleType
  BY <1>1, PreemptedFields DEF HandleType, TypeOK
<1>5. HardwareType /\ CycleType /\ CallType BY <1>1, <1>2
<1>6. CASE Fail
  <2>1. HardwareType' BY <1>5, <1>6 DEF Fail, StateCode
  <2>2. CycleType' BY <1>5, <1>6 DEF Fail
  <2>3. CallType' BY <1>5, <1>6 DEF Fail, clients, bridge
  <2>. QED BY <1>3, <2>1, <2>2, <2>3
<1>7. CASE PreUpdateSessions
  <2>1. CASE Propagates /\ mode' \in {"AUTOMATIC", "TEACH_PENDANT_1"}
    <3>1. HardwareType' BY <1>5, <2>1 DEF Propagates
    <3>2. CycleType' BY <1>4, <1>5, <2>1 DEF Propagates, Requests
    <3>3. CallType' BY <1>5, <2>1 DEF Propagates
    <3>. QED BY <1>3, <3>1, <3>2, <3>3
  <2>. QED BY <1>1, <1>6, <1>7, <2>1, PreUpdateEffect
<1>8. CASE HandleOperationalStatus
  <2>1. /\ rpc' = "sessions" /\ handle' \in HandleType
        /\ UNCHANGED <<mod, req, faults, mode, closed>>
        /\ session' \in {session, "none"}
    BY <1>1, <1>8, HandleEffect
  <2>2. HardwareType' BY <1>5, <2>1
  <2>3. button' \in {"UNKNOWN", "ENGAGED", "DISENGAGED"}
    BY <1>8, OperationalAssumption DEF HandleOperationalStatus
  <2>4. everSet' \in BOOLEAN BY <1>8 DEF HandleOperationalStatus
  <2>. DEFINE h == NextHandle(button')
  <2>5. h \in HandleType BY <1>1, NextHandles
  <2>6. queue' \in Seq(Clients)
    <3>1. queue' \in {queue, Tail(queue)} /\ (queue' # queue => queue # <<>>)
      BY <1>1, <1>8, NextHandles DEF HandleOperationalStatus
    <3>. QED BY <1>1, <1>5, <3>1, QueueTail
  <2>7. ASSUME NEW result \in {"ok", "idle"}, Answer(h.who, result) PROVE CallType'
    BY <1>5, <2>1, <2>6, <2>7 DEF Answer
  <2>8. ASSUME UNCHANGED clients PROVE CallType'
    BY <1>5, <2>1, <2>6, <2>8 DEF clients
  <2>9. pending' \in Requests \cup {"none"} /\ CallType'
    <3>1. CASE h = NoHandle \/ ~Unlocked(h.who)
      BY <1>5, <1>8, <2>8, <3>1 DEF HandleOperationalStatus
    <3>2. CASE h # NoHandle /\ Unlocked(h.who) /\ h.id = "none"
      <4>1. StartCommand(h) BY <1>8, <3>2 DEF HandleOperationalStatus
      <4>2. RequestOf[h.cmd] \in Requests
        BY <2>5, <3>2, HandleFields, Tables DEF HandleType, Commands, Requests
      <4>3. CallType'
        BY <2>7, <2>8, <4>1 DEF StartCommand
      <4>4. pending' \in {pending, RequestOf[h.cmd]}
        BY <4>1 DEF StartCommand
      <4>. QED BY <1>5, <4>2, <4>3, <4>4
    <3>3. CASE h # NoHandle /\ Unlocked(h.who) /\ h.id # "none"
      <4>1. CheckCommandState(h) BY <1>8, <3>3 DEF HandleOperationalStatus
      <4>. QED BY <1>5, <2>7, <2>8, <4>1 DEF CheckCommandState
    <3>. QED BY <3>1, <3>2, <3>3
  <2>. QED BY <1>3, <1>5, <2>1, <2>2, <2>3, <2>4, <2>9
<1>9. ASSUME NEW safetyAction \in BOOLEAN, UpdateSessions(safetyAction)
      PROVE  TypeOK'
  <2>1. /\ rpc' = "hardware" /\ session' \in {"none", "new", Ran}
        /\ UNCHANGED <<mod, faults, everSet, mode, button, cpc, cmd, queue, closed>>
    BY <1>1, <1>9, UpdateEffect
  <2>2. PICK p \in Requests \cup {"none"} :
          /\ handle' \in {handle, Preempted(handle)}
          /\ \/ pending' = p /\ req' = req
             \/ ProcessTransitionRequestAsync(p)
    BY <1>1, <1>9, UpdateEffect
  <2>3. req' \in [Modules -> Requests \cup {"none", "working", "ready"}]
    BY <1>5, <2>2, Tables DEF ProcessTransitionRequestAsync, Requests
  <2>4. pending' \in Requests \cup {"none"} BY <2>2 DEF ProcessTransitionRequestAsync
  <2>5. Ran \in {"none", "new", "on", "off"} BY <1>5 DEF Ran
  <2>6. HardwareType' BY <1>5, <2>1, <2>3
  <2>7. CycleType' BY <1>4, <1>5, <2>1, <2>2, <2>4, <2>5
  <2>8. CallType' BY <1>5, <2>1
  <2>. QED BY <1>3, <2>6, <2>7, <2>8
<1>10. CASE \E m \in Modules : ModuleStep(m)
  BY <1>1, <1>3, <1>5, <1>10, ModuleEffect
<1>11. CASE \E m \in Modules : Fault(m)
  BY <1>1, <1>3, <1>5, <1>11, FaultEffect
<1>12. CASE Close BY <1>3, <1>5, <1>12 DEF Close, hardware, clients
<1>13. CASE Abort
  <2>1. HardwareType' BY <1>5, <1>13 DEF Abort, hardware
  <2>2. CycleType' BY <1>4, <1>5, <1>13 DEF Abort
  <2>3. queue' \in Seq(Clients) /\ closed' = closed
    BY <1>1, <1>5, <1>13, QueueTail DEF Abort
  <2>4. ASSUME NEW w, Answer(w, "idle") PROVE CallType' BY <1>5, <2>3, <2>4 DEF Answer
  <2>5. ASSUME UNCHANGED clients PROVE CallType' BY <1>5, <2>3, <2>5 DEF clients
  <2>6. CallType' BY <1>13, <2>4, <2>5 DEF Abort
  <2>. QED BY <1>3, <2>1, <2>2, <2>6
<1>14. ASSUME NEW c \in Clients, CallCheck(c) \/ CallInsert(c) \/ Await(c)
       PROVE  TypeOK'
  <2>1. HardwareType' BY <1>5, <1>14 DEF CallCheck, CallInsert, Await, hardware
  <2>2. CycleType' BY <1>5, <1>14 DEF CallCheck, CallInsert, Await
  <2>3. cpc' \in [Clients -> {"idle", "insert", "locked", "await", "ok"}]
    BY <1>5, <1>14 DEF CallCheck, CallInsert, Await, Goto
  <2>4. cmd' \in [Clients -> Commands \cup {"kNone"}]
    <3>1. CASE cmd' = cmd BY <1>5, <3>1
    <3>2. CASE \E x \in Commands : cmd' = [cmd EXCEPT ![c] = x] BY <1>5, <3>2
    <3>. QED BY <1>14, <3>1, <3>2 DEF CallCheck, CallInsert, Await
  <2>5. queue' \in Seq(Clients) /\ closed' = closed
    BY <1>5, <1>14 DEF CallCheck, CallInsert, Await, bridge
  <2>6. CallType' BY <1>5, <2>3, <2>4, <2>5
  <2>. QED BY <1>3, <2>1, <2>2, <2>6
<1>15. CASE CycleFails \/ DisableFails \/ \E m \in Modules : RequestTimeout(m)
  BY <1>6, <1>15 DEF CycleFails, DisableFails, RequestTimeout
<1>16. CASE UNCHANGED vars BY <1>3, <1>5, <1>16 DEF vars, hardware, clients, bridge
<1>. QED
  BY <1>7, <1>8, <1>9, <1>10, <1>11, <1>12, <1>13, <1>14, <1>15, <1>16 DEF Next, Cycle
-----------------------------------------------------------------------------

\* A server starts with the invariant.
LEMMA OperationalInitInvariant ==
  ASSUME Init
  PROVE  OperationalIInv
<1>1. TypeOK
  <2>1. 0 \in 0 .. MaxFaults /\ <<>> \in Seq(Clients) BY OperationalAssumption
  <2>. QED BY <2>1 DEF Init, TypeOK, StateCode
<1>2. handle.id = "none" /\ handle.who \notin Clients
  BY OperationalAssumption DEF Init, NoHandle
<1>. QED
  BY <1>1, <1>2
  DEF Init, OperationalIInv, Transitions, Owned, OwnedBy, Disables, DisableSent, Handled,
       SessionOn,
      SessionOff, ShutDown, Calls, UnderWay

\* The invariant holds in every state: no two commands, requests of the real-time thread,
\* faults and failing sessions get in each other's way.
THEOREM OperationalInvariantHolds == Spec => []OperationalIInv
<1>1. OperationalIInv /\ [Next]_vars => OperationalIInv'
  BY OperationalNextTypeOK, NextTransitions, NextOwned, NextDisables, NextDisableSent,
       NextHandled,
     NextSessionOn, NextSessionOff, NextShutDown, NextCalls
  DEF OperationalIInv
<1>. QED BY OperationalInitInvariant, <1>1, PTL DEF Spec

\* No session survives the loss of its hardware, for any modules and clients: while the session
\* that lost it is there, at least one module stays faulted, disabled or on the way.
THEOREM SessionsEnd == Spec => []SessionNotResumed
<1>1. OperationalIInv => SessionNotResumed
  BY CombinedEnabled DEF OperationalIInv, SessionOff, SessionNotResumed
<1>. QED BY OperationalInvariantHolds, <1>1, PTL

\* A command that has nothing to do, or whose request is pending already, has been achieved.
LEMMA EndsAchieved ==
  ASSUME OperationalIInv, ~UnderWay, NEW command \in Commands,
         RequestResult(RequestOf[command]) \in {"kNoOp", "kPending"}
  PROVE  Achieved(command)
<1>1. TypeOK /\ Transitions /\ Owned /\ Disables BY DEF OperationalIInv
<1>. DEFINE request == RequestOf[command]
<1>2. CASE RequestResult(request) = "kPending"
  <2>1. pending = request BY <1>2, RequestResults
  <2>2. command \in {"kDisable", "kDisableSkipCellControlHardware"}
    BY <1>1, <2>1, Tables DEF Owned, OwnedBy, Commands
  <2>. QED BY <2>1, <2>2 DEF Achieved
<1>3. CASE RequestResult(request) = "kNoOp"
  <2>1. /\ pending = "none" /\ \E m \in Modules : ~Valid(m)
        /\ \A m \in Addressed(request) : mod[m] \notin StateCode \ NoOpFrom[request]
    BY <1>3, RequestResults
  <2>2. \A m \in Addressed(request) : m \in Modules /\ mod[m] \in NoOpFrom[request]
    BY <1>1, <2>1, AddressedModules, Tables DEF TypeOK, Commands, Requests
  <2>3. CASE command = "kEnable"
    <3>1. \A m \in Modules : mod[m] = "kMotionEnabled"
      BY <2>2, <2>3, AddressedModules, Tables
    <3>2. \A m \in Modules : req[m] \in {"none", "kDisableMotion"}
      BY <1>1, <3>1
      DEF TypeOK, Transitions, Owned, OwnedBy, Disables, Enabled, Requests, Faults
    <3>3. \A m \in Modules : req[m] # "kDisableMotion"
      BY <1>1, <2>1, <3>1 DEF Disables, Enabled, Lost
    <3>. QED BY <2>1, <2>3, <3>1, <3>2, <3>3, AddressedModules, Tables DEF Achieved, Valid
  <2>4. CASE command = "kClearFaults"
    BY <2>2, <2>4, AddressedModules, Tables DEF Achieved, In, Faults
  <2>5. CASE command \in {"kDisable", "kDisableSkipCellControlHardware"}
    <3>1. \A m \in Addressed(request) : mod[m] = "kActivated" /\ req[m] # "kEnableMotion"
      BY <1>1, <2>2, <2>5, Tables DEF Owned, OwnedBy
    <3>. QED BY <2>5, <3>1 DEF Achieved
  <2>. QED BY <2>3, <2>4, <2>5 DEF Commands
<1>. QED BY <1>2, <1>3

\* A command that was not preempted, is done and has its state, has been achieved.
LEMMA DoneAchieved ==
  ASSUME OperationalIInv, handle.id = "current", GetRequestState = "kDone",
         handle.cmd \in Commands, CombinedState = ExpectedState[handle.cmd]
  PROVE  Achieved(handle.cmd)
<1>1. TypeOK /\ Transitions /\ DisableSent BY DEF OperationalIInv
<1>2. pending = "none" /\ \A m \in Modules : req[m] = "none"
  BY RequestsDone DEF Valid
<1>3. CASE handle.cmd = "kEnable"
  BY <1>2, <1>3, CombinedEnabled, AddressedModules, Tables DEF Achieved, Lost, Enabled, Valid
<1>4. CASE handle.cmd = "kClearFaults"
  BY <1>4, CombinedDisabled, AddressedModules, Tables DEF Achieved, In
<1>5. CASE handle.cmd \in {"kDisable", "kDisableSkipCellControlHardware"}
  <2>. DEFINE about == Addressed(RequestOf[handle.cmd])
  <2>1. about \subseteq Modules /\ RequestOf[handle.cmd] # "none"
    BY <1>5, AddressedModules, Tables DEF Requests
  <2>2. \A m \in about : mod[m] # "kMotionEnabled"
    BY <1>1, <1>2, <1>5, <2>1 DEF DisableSent, Disabling, Enabled
  <2>3. \A m \in about : mod[m] \notin Faults \cup {"kClearingFaults"}
    BY <1>5, <2>1, CombinedDisabled, Tables
  <2>4. \A m \in about : mod[m] = "kActivated"
    BY <1>1, <1>2, <2>1, <2>2, <2>3 DEF TypeOK, StateCode, Transitions
  <2>. QED BY <1>2, <1>5, <2>1, <2>4 DEF Achieved
<1>. QED BY <1>3, <1>4, <1>5 DEF Commands

\* A command is answered with success only when it is true, for any modules and clients.
THEOREM AnswersAreTrue == Spec => AnswerIsTrue
<1>. DEFINE True == \A c \in Clients : cpc[c] # "ok" /\ cpc'[c] = "ok" => Achieved(cmd[c])
<1>1. ASSUME OperationalIInv, [Next]_vars PROVE [True]_vars
  <2>1. TypeOK /\ Calls BY <1>1 DEF OperationalIInv
  <2>. SUFFICES ASSUME NEW c \in Clients, cpc[c] # "ok", cpc'[c] = "ok"
                PROVE  Achieved(cmd[c])
    OBVIOUS
  <2>2. HandleOperationalStatus
    <3>1. ~UNCHANGED cpc OBVIOUS
    <3>2. ~\E d \in Clients : CallCheck(d) \/ CallInsert(d) \/ Await(d)
      BY <2>1 DEF CallCheck, CallInsert, Await, Goto, TypeOK
    <3>3. ~Abort BY DEF Abort, Answer, clients
    <3>4. ~Fail BY DEF Fail, clients
    <3>5. ~\E safetyAction \in BOOLEAN : UpdateSessions(safetyAction)
      BY DEF UpdateSessions, clients
    <3>6. ~\E m \in Modules : ModuleStep(m) \/ Fault(m) \/ RequestTimeout(m)
      BY <3>4 DEF ModuleStep, Fault, RequestTimeout, clients
    <3>7. ~(CycleFails \/ DisableFails \/ Close)
      BY <3>4 DEF CycleFails, DisableFails, Close, clients
    <3>8. ~PreUpdateSessions BY <3>4, <2>1, PreUpdateEffect DEF Propagates
    <3>. QED
      BY <1>1, <3>1, <3>2, <3>3, <3>5, <3>6, <3>7, <3>8 DEF Next, Cycle, vars, clients
  <2>. DEFINE h == NextHandle(button')
  <2>3. /\ h \in HandleType /\ (handle # NoHandle => h = handle)
        /\ (handle = NoHandle => h.id = "none")
        /\ h.who \in Clients => cmd[h.who] = h.cmd
    BY <2>1, NextHandles
  <2>4. NoHandle.id = "none" BY DEF NoHandle
  <2>. HIDE DEF h
  <2>5. CASE h = NoHandle \/ ~Unlocked(h.who)
    <3>1. UNCHANGED clients BY <2>2, <2>5 DEF HandleOperationalStatus, h
    <3>. QED BY <3>1 DEF clients
  <2>6. CASE h # NoHandle /\ Unlocked(h.who) /\ h.id = "none"
    <3>1. StartCommand(h) BY <2>2, <2>6 DEF HandleOperationalStatus, h
    <3>2. h.cmd \in Commands /\ ~UnderWay
      BY <2>3, <2>4, <2>6, HandleFields DEF HandleType, UnderWay
    <3>3. c = h.who /\ RequestResult(RequestOf[h.cmd]) \in {"kNoOp", "kPending"}
      BY <3>1 DEF StartCommand, Answer, clients
    <3>. QED BY <1>1, <2>3, <3>2, <3>3, EndsAchieved
  <2>7. CASE h # NoHandle /\ Unlocked(h.who) /\ h.id # "none"
    <3>1. CheckCommandState(h) BY <2>2, <2>7 DEF HandleOperationalStatus, h
    <3>2. h = handle /\ handle.cmd \in Commands
      BY <2>3, <2>7, HandleFields DEF HandleType
    <3>3. /\ c = h.who /\ GetRequestState = "kDone" /\ h.id = "current"
          /\ CombinedState = ExpectedState[h.cmd]
      BY <3>1 DEF CheckCommandState, Answer, clients
    <3>. QED BY <1>1, <2>3, <3>2, <3>3, DoneAchieved
  <2>. QED BY <2>5, <2>6, <2>7
<1>. QED BY OperationalInvariantHolds, <1>1, PTL DEF Spec, AnswerIsTrue
-----------------------------------------------------------------------------
(*****************************************************************************)
(* SkillService for any callers, names and limits.                           *)
(*                                                                           *)
(* NothingForgotten says what can be found, but not why: a start drops the   *)
(* oldest finished operation from the list at the limit, ClearOperations     *)
(* drops all of them, and the thread of an operation is created, ends and    *)
(* is joined in steps of three actors.  The invariant says what each knows   *)
(* of an operation.  It is made by one handler, which starts it once         *)
(* (Started); it is found under its name until it is finished, and the map   *)
(* and the list have the same names, each once (Found); what the cleaner no  *)
(* longer refers to is finished, its thread has been assigned, and it is     *)
(* joined (LetGo).  Whoever cancels looks at the canceller's flag in the     *)
(* step that sets it (CancelsCounted), so that a skill is told once.         *)
(*****************************************************************************)

\* Only operations that have been made are started, and each of them once.
Started ==
  /\ running \cup done \cup joinable \subseteq DOMAIN name
  /\ running \cap done = {} /\ finished \subseteq done
  /\ \A c \in Callers :
       /\ pc[c] \in {"made", "assign"} => mine[c] \in DOMAIN name
       /\ pc[c] = "made" => mine[c] \notin running \cup done
       /\ pc[c] = "assign" => mine[c] \in thread_mutex_
  /\ \A c, d \in Callers :
       pc[c] \in {"made", "assign"} /\ pc[d] \in {"made", "assign"} /\ mine[c] = mine[d] => c = d

\* What the cleaner no longer refers to has ended and is joined.
LetGo ==
  \A o \in DOMAIN name \ Watched : o \in finished /\ o \notin thread_mutex_ /\ o \notin joinable

\* A cleaner that has notified the end of its queue is not in the middle of it.
CleanerAtWork ==
  /\ queue_processed_ => cleaner = "none"
  /\ cleaner # "wait" => cleaning = None

\* What is not finished is found under its name, and the map and the list agree.
Found ==
  /\ \A o \in DOMAIN name : o \notin finished => operations_[name[o]] = o
  /\ Tracked = {n \in Names : operations_[n] # None} /\ IsInjective(operation_names_)

\* An operation is cancelled at most once, and remembers it.
CancelsCounted ==
  \A o \in Operations : cancels[o] <= 1 /\ (cancels[o] # 0 => o \in cancelled_)

SkillIInv == SkillTypeOK /\ Started /\ LetGo /\ CleanerAtWork /\ Found /\ CancelsCounted
-----------------------------------------------------------------------------
(* Sequences *)

\* A set of natural numbers has a smallest one.
LEMMA SmallestIn ==
  ASSUME NEW I, I \subseteq Nat, I # {}
  PROVE  Min(I) \in I
<1> DEFINE R == {p \in Nat \X Nat : p[1] < p[2]}
<1>1. IsWellFoundedOn(R, Nat)
  BY NatLessThanWellFounded DEF OpToRel
<1>2. PICK x \in I : \A y \in I : <<y, x>> \notin R
  <2> HIDE DEF R
  <2> QED
    BY <1>1, WFMin, Zenon
<1>3. ASSUME NEW y \in I PROVE x <= y
  <2>1. x \in Nat /\ y \in Nat /\ <<y, x>> \notin R
    BY <1>2
  <2> QED
    BY <2>1
<1> QED
  BY <1>3 DEF Min

\* What is appended is added to the elements.
LEMMA SetOfAppend ==
  ASSUME NEW S, NEW s \in Seq(S), NEW e \in S
  PROVE  /\ Append(s, e) \in Seq(S)
         /\ DOMAIN Append(s, e) = DOMAIN s \cup {Len(s) + 1}
         /\ \A i \in DOMAIN s : Append(s, e)[i] = s[i]
         /\ Append(s, e)[Len(s) + 1] = e
         /\ ToSet(Append(s, e)) = ToSet(s) \cup {e}
BY DEF ToSet

\* A sequence that is not empty is its head and its tail.
LEMMA SetOfTail ==
  ASSUME NEW S, NEW s \in Seq(S), s # <<>>
  PROVE  /\ Head(s) \in S /\ Tail(s) \in Seq(S)
         /\ ToSet(s) = ToSet(Tail(s)) \cup {Head(s)}
<1>1. Head(s) \in S /\ Tail(s) \in Seq(S) /\ Len(s) # 0
  OBVIOUS
<1>2. ASSUME NEW x \in ToSet(s) PROVE x \in ToSet(Tail(s)) \cup {Head(s)}
  <2>1. PICK i \in 1 .. Len(s) : x = s[i]
    BY <1>2 DEF ToSet
  <2>2. CASE i = 1
    BY <2>1, <2>2
  <2>3. CASE i # 1
    <3>1. i - 1 \in DOMAIN Tail(s) /\ Tail(s)[i - 1] = s[i]
      BY <2>3, <1>1
    <3> QED
      BY <3>1, <2>1 DEF ToSet
  <2> QED
    BY <2>2, <2>3
<1>3. ASSUME NEW x \in ToSet(Tail(s)) PROVE x \in ToSet(s)
  <2>1. PICK i \in 1 .. Len(Tail(s)) : x = Tail(s)[i]
    BY <1>1, <1>3 DEF ToSet
  <2>2. i + 1 \in DOMAIN s /\ s[i + 1] = x
    BY <2>1, <1>1
  <2> QED
    BY <2>2 DEF ToSet
<1>4. Head(s) \in ToSet(s)
  BY <1>1 DEF ToSet
<1> QED
  BY <1>1, <1>2, <1>3, <1>4

\* The element at a position is taken out of a sequence without repetitions.
LEMMA SetOfRemoveAt ==
  ASSUME NEW S, NEW s \in Seq(S), NEW i \in 1 .. Len(s), IsInjective(s)
  PROVE  /\ RemoveAt(s, i) \in Seq(S) /\ Len(RemoveAt(s, i)) = Len(s) - 1
         /\ ToSet(RemoveAt(s, i)) = ToSet(s) \ {s[i]} /\ IsInjective(RemoveAt(s, i))
<1> DEFINE r == RemoveAt(s, i)
<1>1. /\ r \in Seq(S) /\ Len(r) = Len(s) - 1
      /\ \A j \in 1 .. Len(s) - 1 : r[j] = IF j < i THEN s[j] ELSE s[j + 1]
  <2> DEFINE a == SubSeq(s, 1, i - 1)
             b == SubSeq(s, i + 1, Len(s))
  <2>1. a \in Seq(S) /\ Len(a) = i - 1 /\ \A j \in 1 .. i - 1 : a[j] = s[j]
    OBVIOUS
  <2>2. b \in Seq(S) /\ Len(b) = Len(s) - i /\ \A j \in 1 .. Len(s) - i : b[j] = s[i + j]
    OBVIOUS
  <2> HIDE DEF a, b
  <2>3. r = a \o b
    BY DEF RemoveAt, a, b
  <2> HIDE DEF r
  <2>4. r \in Seq(S) /\ Len(r) = Len(s) - 1
    BY <2>1, <2>2, <2>3
  <2>5. ASSUME NEW j \in 1 .. Len(s) - 1 PROVE r[j] = IF j < i THEN s[j] ELSE s[j + 1]
    <3>1. r[j] = IF j <= Len(a) THEN a[j] ELSE b[j - Len(a)]
      BY <2>1, <2>2, <2>3
    <3> QED
      BY <3>1, <2>1, <2>2
  <2> QED
    BY <2>4, <2>5
<1> HIDE DEF r
<1>2. IsInjective(r)
  <2> SUFFICES ASSUME NEW a \in 1 .. Len(s) - 1, NEW b \in 1 .. Len(s) - 1, r[a] = r[b]
               PROVE  a = b
    BY <1>1 DEF IsInjective
  <2>1. \A j, k \in 1 .. Len(s) : s[j] = s[k] => j = k
    BY DEF IsInjective
  <2> QED
    BY <1>1, <2>1
<1>3. ASSUME NEW x \in ToSet(r) PROVE x \in ToSet(s) /\ x # s[i]
  <2>1. PICK j \in 1 .. Len(s) - 1 : x = r[j]
    BY <1>1, <1>3 DEF ToSet
  <2>2. PICK k \in 1 .. Len(s) : k # i /\ x = s[k]
    BY <1>1, <2>1
  <2> QED
    BY <2>2 DEF ToSet, IsInjective
<1>4. ASSUME NEW x \in ToSet(s), x # s[i] PROVE x \in ToSet(r)
  <2>1. PICK k \in 1 .. Len(s) : x = s[k]
    BY <1>4 DEF ToSet
  <2>2. CASE k < i
    <3>1. k \in 1 .. Len(s) - 1 /\ r[k] = x
      BY <1>1, <2>1, <2>2
    <3> QED
      BY <3>1, <1>1 DEF ToSet
  <2>3. CASE k > i
    <3>1. k - 1 \in 1 .. Len(s) - 1 /\ r[k - 1] = x
      BY <1>1, <2>1, <2>3
    <3> QED
      BY <3>1, <1>1 DEF ToSet
  <2> QED
    BY <2>1, <2>2, <2>3, <1>4
<1>5. ToSet(r) = ToSet(s) \ {s[i]}
  BY <1>3, <1>4
<1> QED
  BY <1>1, <1>2, <1>5 DEF r

-----------------------------------------------------------------------------
\* Before the first call there are no operations.
LEMMA SkillInitIInv == SkillInit => SkillIInv
<1> SUFFICES ASSUME SkillInit PROVE SkillIInv
  OBVIOUS
<1>1. SkillTypeOK
  BY SkillServiceAssumption DEF SkillInit, SkillTypeOK, None, Operations, PCs
<1>2. Started /\ LetGo /\ CleanerAtWork /\ CancelsCounted
  BY DEF SkillInit, Started, LetGo, CleanerAtWork, CancelsCounted
<1>3. Found
  BY DEF SkillInit, Found, Tracked, ToSet, IsInjective
<1> QED
  BY <1>1, <1>2, <1>3 DEF SkillIInv

\* Room is made by dropping at most one operation, which is finished.
LEMMA RoomIsMade ==
  ASSUME SkillTypeOK, IsInjective(operation_names_)
  PROVE  /\ MakeRoom \in Seq(Names) /\ IsInjective(MakeRoom)
         /\ ToSet(MakeRoom) \subseteq Tracked
         /\ \A n \in Tracked \ ToSet(MakeRoom) : operations_[n] \in finished
<1> DEFINE Fin(n) == operations_[n] \in finished
           I == {i \in 1 .. Len(operation_names_) : Fin(operation_names_[i])}
           old == SelectInSeq(operation_names_, Fin)
<1>1. operation_names_ \in Seq(Names)
  BY DEF SkillTypeOK
<1>2. old = IF I # {} THEN Min(I) ELSE 0
  BY DEF SelectInSeq
<1>3. old # 0 => old \in I
  BY <1>2, <1>1, SmallestIn
<1>4. MakeRoom = operation_names_ \/ (old # 0 /\ MakeRoom = RemoveAt(operation_names_, old))
  BY DEF MakeRoom
<1>5. CASE MakeRoom = operation_names_
  BY <1>1, <1>5 DEF Tracked
<1>6. CASE old # 0 /\ MakeRoom = RemoveAt(operation_names_, old)
  <2>1. old \in 1 .. Len(operation_names_) /\ operations_[operation_names_[old]] \in finished
    BY <1>3, <1>6
  <2> HIDE DEF old
  <2>2. /\ MakeRoom \in Seq(Names) /\ IsInjective(MakeRoom)
        /\ ToSet(MakeRoom) = Tracked \ {operation_names_[old]}
    BY <1>1, <1>6, <2>1, SetOfRemoveAt DEF Tracked
  <2> QED
    BY <2>1, <2>2
<1> QED
  BY <1>4, <1>5, <1>6

\* What is tracked once room is made.
Kept == [m \in Names |-> IF m \in ToSet(MakeRoom) THEN operations_[m] ELSE None]

\* MakeOperation refuses the call, or makes the operation with the next number.
Refused(c) ==
  /\ operations_' = Kept /\ operation_names_' = MakeRoom
  /\ pc' = [pc EXCEPT ![c] = "idle"] /\ mine' = [mine EXCEPT ![c] = None]
  /\ UNCHANGED <<update_mutex_, cleanerVars, name, threads, canceller, server, orphans>>

Made(c, n, o) ==
  /\ Len(name) < MaxOperations /\ o = Len(name) + 1 /\ Kept[n] = None
  /\ operations_' = [Kept EXCEPT ![n] = o] /\ operation_names_' = Append(MakeRoom, n)
  /\ name' = Append(name, n)
  /\ queue_' = Append(queue_, o) /\ queue_processed_' = FALSE
  /\ cleaner' = (IF queue_processed_ THEN "loop" ELSE cleaner) /\ cleaning' = cleaning
  /\ pc' = [pc EXCEPT ![c] = "made"] /\ mine' = [mine EXCEPT ![c] = o]
  /\ UNCHANGED <<update_mutex_, threads, canceller, server, orphans>>

\* The two outcomes are all.
LEMMA MakeOutcomes ==
  ASSUME NEW c \in Callers, NEW n \in Names, MakeOperation(c, n)
  PROVE  Refused(c) \/ Made(c, n, Len(name) + 1)
<1> DEFINE o == Len(name) + 1
<1>1. \/ Len(MakeRoom) >= kMaxNumOperations \/ Kept[n] # None
      \/ ~(Len(MakeRoom) >= kMaxNumOperations \/ Kept[n] # None)
  OBVIOUS
<1>2. CASE Len(MakeRoom) >= kMaxNumOperations \/ Kept[n] # None
  <2>1. Refused(c)
    BY <1>2 DEF MakeOperation, Refused, Kept, Reply, Enter
  <2> QED
    BY <2>1
<1>3. CASE ~(Len(MakeRoom) >= kMaxNumOperations \/ Kept[n] # None)
  <2>1. Made(c, n, o)
    BY <1>3 DEF MakeOperation, Made, Kept, Watch, Enter
  <2> QED
    BY <2>1
<1> QED
  BY <1>1, <1>2, <1>3

\* The new operation and its name are added to the sequences of a type-correct state.
LEMMA MadeAppends ==
  ASSUME SkillIInv, NEW c \in Callers, NEW n \in Names, NEW o, Made(c, n, o)
  PROVE  /\ o \in Operations /\ o \notin DOMAIN name
         /\ name' \in Seq(Names) /\ Len(name') <= MaxOperations
         /\ DOMAIN name' = DOMAIN name \cup {o}
         /\ \A i \in DOMAIN name : name'[i] = name[i]
         /\ name'[o] = n
         /\ queue_' \in Seq(Operations) /\ ToSet(queue_') = ToSet(queue_) \cup {o}
         /\ operation_names_' \in Seq(Names) /\ ToSet(operation_names_') = ToSet(MakeRoom) \cup {n}
<1>1. o \in Operations /\ o \notin DOMAIN name
  BY SkillServiceAssumption DEF Made, SkillIInv, SkillTypeOK, Operations
<1>2. MakeRoom \in Seq(Names)
  BY RoomIsMade DEF SkillIInv, Found
<1>3. name \in Seq(Names) /\ queue_ \in Seq(Operations)
  BY DEF SkillIInv, SkillTypeOK
<1>4. Len(name') <= MaxOperations
  BY <1>3, SkillServiceAssumption DEF Made
<1> QED
  BY <1>1, <1>2, <1>3, <1>4, SetOfAppend DEF Made

\* When all that is tracked is finished, nothing is missed after a Drop.
LEMMA AllDropped ==
  ASSUME SkillIInv, TrackedOperations \subseteq finished, Drop, UNCHANGED <<name, finished>>
  PROVE  Found'
<1>1. \A o \in DOMAIN name : o \in finished
  <2> SUFFICES ASSUME NEW o \in DOMAIN name, o \notin finished PROVE FALSE
    OBVIOUS
  <2>1. operations_[name[o]] = o /\ name[o] \in Names /\ o # None
    BY DEF SkillIInv, SkillTypeOK, Found, None
  <2>2. o \in TrackedOperations
    BY <2>1 DEF SkillIInv, Found, TrackedOperations
  <2> QED
    BY <2>2
<1> QED
  BY <1>1 DEF Drop, Found, Tracked, ToSet, IsInjective

\* A handler that makes or starts an operation has one.
LEMMA HandledIsMade ==
  ASSUME SkillIInv, NEW c \in Callers, pc[c] \in {"made", "assign"}
  PROVE  mine[c] \in Operations
<1>1. mine[c] \in DOMAIN name
  BY DEF SkillIInv, Started
<1> QED
  BY <1>1, SkillServiceAssumption DEF SkillIInv, SkillTypeOK, Operations

\* Every step keeps the types.
LEMMA SkillNextTypeOK == SkillIInv /\ [SkillNext]_skillVars => SkillTypeOK'
<1> SUFFICES ASSUME SkillIInv, [SkillNext]_skillVars PROVE SkillTypeOK'
  OBVIOUS
<1> USE DEF SkillIInv, SkillTypeOK, PCs, tracked, cleanerVars, threads, canceller, handlers
<1>1. ASSUME NEW c \in Callers, NEW n \in Names, MakeOperation(c, n) PROVE SkillTypeOK'
  <2>1. CASE Refused(c)
    BY <2>1, RoomIsMade DEF Found, Refused, Kept
  <2>2. CASE Made(c, n, Len(name) + 1)
    <3>1. Kept \in [Names -> {None} \cup Operations]
      BY DEF Kept
    <3>2. /\ Len(name) + 1 \in Operations /\ name' \in Seq(Names) /\ Len(name') <= MaxOperations
          /\ queue_' \in Seq(Operations) /\ operation_names_' \in Seq(Names)
      BY <2>2, MadeAppends
    <3>3. operations_' \in [Names -> {None} \cup Operations]
      BY <2>2, <3>1, <3>2 DEF Made
    <3>4. queue_processed_' \in BOOLEAN /\ cleaner' \in {"none", "loop", "wait"}
      BY <2>2 DEF Made
    <3>5. pc' \in [Callers -> PCs] /\ mine' \in [Callers -> {None} \cup Operations]
      BY <2>2, <3>2 DEF Made
    <3> QED
      BY <2>2, <3>2, <3>3, <3>4, <3>5 DEF Made
  <2> QED
    BY <1>1, <2>1, <2>2, MakeOutcomes
<1>2. ASSUME NEW c \in Callers, NEW n \in Names, GetToCancel(c, n) PROVE SkillTypeOK'
  BY <1>2 DEF GetToCancel, Enter
<1>3. ASSUME NEW c \in Callers, StartFails(c) PROVE SkillTypeOK'
  <2>1. mine[c] \in Operations
    BY <1>3, HandledIsMade DEF StartFails
  <2> QED
    BY <1>3, <2>1 DEF StartFails, Reply, Enter
<1>4. ASSUME NEW c \in Callers, Start(c) PROVE SkillTypeOK'
  <2>1. mine[c] \in Operations
    BY <1>4, HandledIsMade DEF Start
  <2> QED
    BY <1>4, <2>1 DEF Start, CallerGoto
<1>5. ASSUME NEW c \in Callers, StartAssign(c) PROVE SkillTypeOK'
  <2>1. mine[c] \in Operations
    BY <1>5, HandledIsMade DEF StartAssign
  <2> QED
    BY <1>5, <2>1 DEF StartAssign, Reply, Enter
<1>6. ASSUME NEW c \in Callers, RequestCancellation(c) PROVE SkillTypeOK'
  BY <1>6 DEF RequestCancellation, Reply, Enter, CallerGoto, InCall
<1>7. ASSUME NEW c \in Callers, WaitForReadyTimeout(c) PROVE SkillTypeOK'
  BY <1>7 DEF WaitForReadyTimeout, Reply, Enter, InCall
<1>8. ASSUME NEW c \in Callers, Cancel(c) PROVE SkillTypeOK'
  <2>1. mine[c] \in Operations
    BY <1>8 DEF Cancel
  <2>2. pc' \in [Callers -> PCs] /\ mine' \in [Callers -> {None} \cup Operations]
    BY <1>8 DEF Cancel, Reply, Enter, CallerGoto
  <2>3. cancels' \in [Operations -> Nat] /\ cancelled_' \subseteq Operations
    BY <1>8, <2>1 DEF Cancel
  <2> QED
    BY <1>8, <2>2, <2>3 DEF Cancel, InCall
<1>9. ASSUME NEW c \in Callers, Callback(c) PROVE SkillTypeOK'
  BY <1>9 DEF Callback, Reply, Enter, InCall
<1>10. ASSUME NEW c \in Callers, ClearOperations(c) PROVE SkillTypeOK'
  <2>1. joinable' \subseteq Operations
    BY <1>10 DEF ClearOperations, Drop
  <2>2. /\ operations_' \in [Names -> {None} \cup Operations] /\ operation_names_' \in Seq(Names)
        /\ update_mutex_' \in Callers \cup {"free"}
    <3>1. CASE TrackedOperations \subseteq finished
      BY <1>10, <3>1 DEF ClearOperations, Drop
    <3>2. CASE ~(TrackedOperations \subseteq finished)
      BY <1>10, <3>2 DEF ClearOperations
    <3> QED
      BY <3>1, <3>2
  <2>3. pc' \in [Callers -> PCs] /\ mine' \in [Callers -> {None} \cup Operations]
    BY <1>10 DEF ClearOperations, Reply, Enter
  <2> QED
    BY <1>10, <2>1, <2>2, <2>3 DEF ClearOperations
<1>11. ASSUME NEW c \in Callers, ClearWait(c) PROVE SkillTypeOK'
  BY <1>11 DEF ClearWait, Reply, Enter
<1>12. ASSUME NEW o \in Operations, Ready(o) PROVE SkillTypeOK'
  BY <1>12 DEF Ready, SkillVars
<1>13. ASSUME NEW o \in Operations, StoreOutcome(o) PROVE SkillTypeOK'
  BY <1>13 DEF StoreOutcome, SkillVars
<1>14. ASSUME NEW o \in Operations, Notify(o) PROVE SkillTypeOK'
  BY <1>14 DEF Notify, SkillVars
<1>15. CASE ProcessQueue
  <2>1. queue_' \in Seq(Operations) /\ cleaning' \in {None} \cup Operations
    <3>1. CASE queue_ = <<>>
      BY <1>15, <3>1 DEF ProcessQueue
    <3>2. CASE queue_ # <<>>
      <4>1. Head(queue_) \in Operations /\ Tail(queue_) \in Seq(Operations)
        BY <3>2, SetOfTail
      <4> QED
        BY <1>15, <3>2, <4>1 DEF ProcessQueue
    <3> QED
      BY <3>1, <3>2
  <2> QED
    BY <1>15, <2>1 DEF ProcessQueue
<1>16. CASE Clean
  BY <1>16 DEF Clean
<1>17. CASE Destroy
  BY <1>17 DEF Destroy
<1>18. CASE DestroyWait
  BY <1>18 DEF DestroyWait, Drop
<1>19. CASE DestroyEnd
  BY <1>19 DEF DestroyEnd
<1>20. CASE UNCHANGED skillVars
  BY <1>20 DEF skillVars
<1> QED
  BY <1>1, <1>2, <1>3, <1>4, <1>5, <1>6, <1>7, <1>8, <1>9, <1>10, <1>11, <1>12, <1>13, <1>14,
       <1>15, <1>16, <1>17, <1>18, <1>19, <1>20 DEF SkillNext, NewCall, CallStep, Cancels, Ends,
       Cleaner, Destroyed

\* An operation is made by one handler, which starts it or gives it up.
LEMMA NextStarted == SkillIInv /\ [SkillNext]_skillVars => Started'
<1> SUFFICES ASSUME SkillIInv, [SkillNext]_skillVars PROVE Started'
  OBVIOUS
<1> USE DEF SkillIInv, SkillTypeOK, Started, tracked, cleanerVars, threads, canceller, handlers
<1>1. ASSUME NEW c \in Callers, NEW n \in Names, MakeOperation(c, n) PROVE Started'
  <2>1. CASE Refused(c)
    BY <2>1 DEF Refused
  <2>2. CASE Made(c, n, Len(name) + 1)
    BY <2>2, MadeAppends DEF Made
  <2> QED
    BY <1>1, <2>1, <2>2, MakeOutcomes
<1>2. ASSUME NEW c \in Callers, NEW n \in Names, GetToCancel(c, n) PROVE Started'
  BY <1>2 DEF GetToCancel, Enter
<1>3. ASSUME NEW c \in Callers, StartFails(c) PROVE Started'
  BY <1>3 DEF StartFails, Reply, Enter
<1>4. ASSUME NEW c \in Callers, Start(c) PROVE Started'
  BY <1>4 DEF Start, CallerGoto
<1>5. ASSUME NEW c \in Callers, StartAssign(c) PROVE Started'
  BY <1>5 DEF StartAssign, Reply, Enter
<1>6. ASSUME NEW c \in Callers, RequestCancellation(c) PROVE Started'
  <2>1. /\ pc' = [pc EXCEPT ![c] = pc'[c]] /\ pc'[c] \notin {"made", "assign"}
        /\ mine' = mine \/ mine' = [mine EXCEPT ![c] = None]
    BY <1>6 DEF RequestCancellation, Reply, Enter, CallerGoto
  <2>2. UNCHANGED <<name, running, done, finished, joinable, thread_mutex_>>
    BY <1>6 DEF RequestCancellation, InCall
  <2> QED
    BY <2>1, <2>2
<1>7. ASSUME NEW c \in Callers, Cancel(c) PROVE Started'
  <2>1. /\ pc' = [pc EXCEPT ![c] = pc'[c]] /\ pc'[c] \notin {"made", "assign"}
        /\ mine' = mine \/ mine' = [mine EXCEPT ![c] = None]
    BY <1>7 DEF Cancel, Reply, Enter, CallerGoto
  <2>2. UNCHANGED <<name, running, done, finished, joinable, thread_mutex_>>
    BY <1>7 DEF Cancel, InCall
  <2> QED
    BY <2>1, <2>2
<1>8. ASSUME NEW c \in Callers, ClearOperations(c) PROVE Started'
  <2>1. joinable' \subseteq joinable
    BY <1>8 DEF ClearOperations, Drop
  <2>2. /\ pc' = [pc EXCEPT ![c] = pc'[c]] /\ pc'[c] \in {"idle", "clearWait"}
        /\ mine' = [mine EXCEPT ![c] = None]
    BY <1>8 DEF ClearOperations, Reply, Enter
  <2> QED
    BY <1>8, <2>1, <2>2 DEF ClearOperations
<1>9. ASSUME NEW c \in Callers,
             WaitForReadyTimeout(c) \/ Callback(c) \/ ClearWait(c)
      PROVE  Started'
  BY <1>9 DEF WaitForReadyTimeout, Reply, Enter, InCall, Callback, ClearWait
<1>10. ASSUME NEW o \in Operations, StoreOutcome(o) PROVE Started'
  BY <1>10 DEF StoreOutcome, SkillVars
<1>11. ASSUME NEW o \in Operations, Notify(o) PROVE Started'
  BY <1>11 DEF Notify, SkillVars
<1>12. ASSUME NEW o \in Operations, Ready(o) PROVE Started'
  BY <1>12 DEF Ready, SkillVars
<1>13. CASE Clean
  BY <1>13 DEF Clean
<1>14. CASE DestroyWait
  BY <1>14 DEF DestroyWait, Drop
<1>15. CASE ProcessQueue \/ Destroy \/ DestroyEnd
  BY <1>15 DEF ProcessQueue, Destroy, DestroyEnd
<1>16. CASE UNCHANGED skillVars
  BY <1>16 DEF skillVars
<1> QED
  BY <1>1, <1>2, <1>3, <1>4, <1>5, <1>6, <1>7, <1>8, <1>9, <1>10, <1>11, <1>12, <1>13, <1>14,
       <1>15, <1>16 DEF SkillNext, NewCall, CallStep, Cancels, Ends, Cleaner, Destroyed

\* The cleaner lets go of a thread as it joins it.
LEMMA NextLetGo == SkillIInv /\ [SkillNext]_skillVars => LetGo'
<1> SUFFICES ASSUME SkillIInv, [SkillNext]_skillVars PROVE LetGo'
  OBVIOUS
<1> USE DEF SkillIInv, SkillTypeOK, Started, LetGo, CleanerAtWork, Watched, tracked,
     cleanerVars, threads,
     canceller, handlers
<1>1. ASSUME NEW c \in Callers, NEW n \in Names, MakeOperation(c, n) PROVE LetGo'
  <2>1. CASE Refused(c)
    BY <2>1 DEF Refused
  <2>2. CASE Made(c, n, Len(name) + 1)
    <3>1. /\ DOMAIN name' = DOMAIN name \cup {Len(name) + 1}
          /\ ToSet(queue_') = ToSet(queue_) \cup {Len(name) + 1}
      <4> HIDE DEF SkillIInv
      <4> QED
        BY <2>2, MadeAppends
    <3> QED
      BY <2>2, <3>1 DEF Made
  <2> QED
    BY <1>1, <2>1, <2>2, MakeOutcomes
<1>2. ASSUME NEW c \in Callers, NEW n \in Names, GetToCancel(c, n) PROVE LetGo'
  BY <1>2 DEF GetToCancel, Enter
<1>3. ASSUME NEW c \in Callers, Start(c) PROVE LetGo'
  BY <1>3 DEF Start, CallerGoto
<1>4. ASSUME NEW c \in Callers, StartAssign(c) PROVE LetGo'
  BY <1>4 DEF StartAssign, Reply, Enter
<1>5. ASSUME NEW c \in Callers, ClearOperations(c) PROVE LetGo'
  BY <1>5 DEF ClearOperations, Drop, Reply, Enter
<1>6. ASSUME NEW c \in Callers,
             StartFails(c) \/ RequestCancellation(c) \/ WaitForReadyTimeout(c) \/ Cancel(c)
                  \/ Callback(c) \/ ClearWait(c)
      PROVE  LetGo'
  BY <1>6 DEF StartFails, Reply, Enter, RequestCancellation, CallerGoto, InCall,
       WaitForReadyTimeout,
       Cancel, Callback, ClearWait
<1>7. ASSUME NEW o \in Operations, Notify(o) PROVE LetGo'
  BY <1>7 DEF Notify, SkillVars
<1>8. ASSUME NEW o \in Operations, Ready(o) \/ StoreOutcome(o) PROVE LetGo'
  BY <1>8 DEF Ready, SkillVars, StoreOutcome
<1>9. CASE ProcessQueue
  <2>1. CASE queue_ = <<>>
    BY <1>9, <2>1 DEF ProcessQueue
  <2>2. CASE queue_ # <<>>
    <3>1. ToSet(queue_) = ToSet(queue_') \cup {cleaning'}
      BY <1>9, <2>2, SetOfTail DEF ProcessQueue
    <3>2. cleaning = None /\ None \notin DOMAIN name
      BY <1>9 DEF ProcessQueue, None
    <3> QED
      BY <1>9, <3>1, <3>2 DEF ProcessQueue
  <2> QED
    BY <2>1, <2>2
<1>10. CASE Clean
  BY <1>10 DEF Clean, Joins
<1>11. CASE DestroyWait
  BY <1>11 DEF DestroyWait, Drop
<1>12. CASE Destroy \/ DestroyEnd
  BY <1>12 DEF Destroy, DestroyEnd
<1>13. CASE UNCHANGED skillVars
  BY <1>13 DEF skillVars
<1> QED
  BY <1>1, <1>2, <1>3, <1>4, <1>5, <1>6, <1>7, <1>8, <1>9, <1>10, <1>11, <1>12, <1>13
       DEF SkillNext,
       NewCall, CallStep, Cancels, Ends, Cleaner, Destroyed

\* The cleaner notifies the end of its queue as it ends.
LEMMA NextCleanerAtWork == SkillIInv /\ [SkillNext]_skillVars => CleanerAtWork'
<1> SUFFICES ASSUME SkillIInv, [SkillNext]_skillVars PROVE CleanerAtWork'
  OBVIOUS
<1> USE DEF SkillIInv, SkillTypeOK, CleanerAtWork, tracked, cleanerVars, threads, canceller,
     handlers
<1>1. ASSUME NEW c \in Callers, NEW n \in Names, MakeOperation(c, n) PROVE CleanerAtWork'
  BY <1>1, MakeOutcomes DEF Refused, Made
<1>2. ASSUME NEW c \in Callers, NEW n \in Names, GetToCancel(c, n) PROVE CleanerAtWork'
  BY <1>2 DEF GetToCancel, Enter
<1>3. ASSUME NEW c \in Callers,
             StartFails(c) \/ Start(c) \/ StartAssign(c) \/ RequestCancellation(c)
                  \/ WaitForReadyTimeout(c) \/ Cancel(c) \/ Callback(c) \/ ClearOperations(c)
                  \/ ClearWait(c)
      PROVE  CleanerAtWork'
  BY <1>3 DEF StartFails, Reply, Enter, Start, CallerGoto, StartAssign, RequestCancellation,
       InCall,
       WaitForReadyTimeout, Cancel, Callback, ClearOperations, Drop, ClearWait
<1>4. ASSUME NEW o \in Operations, Ready(o) \/ StoreOutcome(o) \/ Notify(o) PROVE CleanerAtWork'
  BY <1>4 DEF Ready, SkillVars, StoreOutcome, Notify
<1>5. CASE ProcessQueue
  BY <1>5 DEF ProcessQueue
<1>6. CASE Clean
  BY <1>6 DEF Clean
<1>7. CASE Destroy \/ DestroyWait \/ DestroyEnd
  BY <1>7 DEF Destroy, DestroyWait, Drop, DestroyEnd
<1>8. CASE UNCHANGED skillVars
  BY <1>8 DEF skillVars
<1> QED
  BY <1>1, <1>2, <1>3, <1>4, <1>5, <1>6, <1>7, <1>8 DEF SkillNext, NewCall, CallStep, Cancels,
       Ends,
       Cleaner, Destroyed

\* Only what is finished makes room, and is cleared.
LEMMA NextFound == SkillIInv /\ [SkillNext]_skillVars => Found'
<1> SUFFICES ASSUME SkillIInv, [SkillNext]_skillVars PROVE Found'
  OBVIOUS
<1> USE DEF SkillIInv, SkillTypeOK, Found, Started, Tracked, TrackedOperations, tracked,
     cleanerVars,
     threads, canceller, handlers
<1>1. ASSUME NEW c \in Callers, NEW n \in Names, MakeOperation(c, n) PROVE Found'
  <2>1. /\ MakeRoom \in Seq(Names) /\ IsInjective(MakeRoom) /\ ToSet(MakeRoom) \subseteq Tracked
        /\ \A m \in Tracked \ ToSet(MakeRoom) : operations_[m] \in finished
    BY RoomIsMade
  <2>2. \A m \in Names : Kept[m] = IF m \in ToSet(MakeRoom) THEN operations_[m] ELSE None
    BY DEF Kept
  <2>3. \A m \in Names : Kept[m] # None <=> m \in ToSet(MakeRoom)
    BY <2>1, <2>2
  <2>4. \A i \in DOMAIN name : i \notin finished => Kept[name[i]] = i
    BY <2>1, <2>2 DEF None
  <2>5. CASE Refused(c)
    BY <2>1, <2>3, <2>4, <2>5 DEF Refused
  <2>6. CASE Made(c, n, Len(name) + 1)
    <3> DEFINE o == Len(name) + 1
    <3>1. Kept[n] = None /\ operations_' = [Kept EXCEPT ![n] = o] /\ finished' = finished
      BY <2>6 DEF Made
    <3>2. o # None /\ \A i \in DOMAIN name : i # None /\ name[i] \in Names
      BY DEF None
    <3>3. /\ o \in Operations /\ DOMAIN name' = DOMAIN name \cup {o} /\ name'[o] = n
          /\ \A i \in DOMAIN name : name'[i] = name[i]
          /\ ToSet(operation_names_') = ToSet(MakeRoom) \cup {n}
      <4> HIDE DEF SkillIInv, o
      <4>1. Made(c, n, o)
        BY <2>6 DEF o
      <4> QED
        BY <4>1, MadeAppends
    <3> HIDE DEF o
    <3>4. \A m \in Names : operations_'[m] = IF m = n THEN o ELSE Kept[m]
      BY <3>1 DEF Kept
    <3>5. \A i \in DOMAIN name' : i \notin finished' => operations_'[name'[i]] = i
      BY <2>4, <3>1, <3>2, <3>3, <3>4
    <3>6. Tracked' = {m \in Names : operations_'[m] # None}
      <4>1. Tracked' = ToSet(MakeRoom) \cup {n}
        BY <3>3
      <4>2. ToSet(MakeRoom) \subseteq Names
        BY <2>1
      <4> QED
        BY <2>3, <3>2, <3>4, <4>1, <4>2
    <3>7. IsInjective(operation_names_')
      <4>1. n \notin ToSet(MakeRoom)
        BY <2>3, <3>1
      <4>2. operation_names_' = Append(MakeRoom, n)
        BY <2>6 DEF Made
      <4> QED
        BY <2>1, <4>1, <4>2, SetOfAppend DEF IsInjective, ToSet
    <3> QED
      BY <3>5, <3>6, <3>7
  <2> QED
    BY <1>1, <2>5, <2>6, MakeOutcomes
<1>2. ASSUME NEW c \in Callers, NEW n \in Names, GetToCancel(c, n) PROVE Found'
  BY <1>2 DEF GetToCancel, Enter
<1>3. ASSUME NEW c \in Callers, ClearOperations(c) PROVE Found'
  <2>1. CASE TrackedOperations \subseteq finished
    BY <1>3, <2>1, AllDropped DEF ClearOperations
  <2>2. CASE ~(TrackedOperations \subseteq finished)
    BY <1>3, <2>2 DEF ClearOperations
  <2> QED
    BY <2>1, <2>2
<1>4. ASSUME NEW c \in Callers,
             StartFails(c) \/ Start(c) \/ StartAssign(c) \/ RequestCancellation(c)
                  \/ WaitForReadyTimeout(c) \/ Cancel(c) \/ Callback(c) \/ ClearWait(c)
      PROVE  Found'
  BY <1>4 DEF StartFails, Reply, Enter, Start, CallerGoto, StartAssign, RequestCancellation,
       InCall,
       WaitForReadyTimeout, Cancel, Callback, ClearWait
<1>5. ASSUME NEW o \in Operations, Notify(o) PROVE Found'
  BY <1>5 DEF Notify, SkillVars
<1>6. ASSUME NEW o \in Operations, Ready(o) \/ StoreOutcome(o) PROVE Found'
  BY <1>6 DEF Ready, SkillVars, StoreOutcome
<1>7. CASE DestroyWait
  BY <1>7, AllDropped DEF DestroyWait, Joins
<1>8. CASE ProcessQueue \/ Clean \/ Destroy \/ DestroyEnd
  BY <1>8 DEF ProcessQueue, Clean, Destroy, DestroyEnd
<1>9. CASE UNCHANGED skillVars
  BY <1>9 DEF skillVars
<1> QED
  BY <1>1, <1>2, <1>3, <1>4, <1>5, <1>6, <1>7, <1>8, <1>9 DEF SkillNext, NewCall, CallStep,
       Cancels,
       Ends, Cleaner, Destroyed

\* A second Cancel finds the first.
LEMMA NextCancelsCounted == SkillIInv /\ [SkillNext]_skillVars => CancelsCounted'
<1> SUFFICES ASSUME SkillIInv, [SkillNext]_skillVars PROVE CancelsCounted'
  OBVIOUS
<1> USE DEF SkillIInv, SkillTypeOK, CancelsCounted, tracked, cleanerVars, threads, canceller,
     handlers
<1>1. ASSUME NEW c \in Callers, NEW n \in Names, MakeOperation(c, n) PROVE CancelsCounted'
  BY <1>1 DEF MakeOperation
<1>2. ASSUME NEW c \in Callers, NEW n \in Names, GetToCancel(c, n) PROVE CancelsCounted'
  BY <1>2 DEF GetToCancel, Enter
<1>3. ASSUME NEW c \in Callers, Cancel(c) PROVE CancelsCounted'
  BY <1>3 DEF Cancel, Reply, Enter, CallerGoto, InCall
<1>4. ASSUME NEW c \in Callers,
             StartFails(c) \/ Start(c) \/ StartAssign(c) \/ RequestCancellation(c)
                  \/ WaitForReadyTimeout(c) \/ Callback(c) \/ ClearOperations(c) \/ ClearWait(c)
      PROVE  CancelsCounted'
  BY <1>4 DEF StartFails, Reply, Enter, Start, CallerGoto, StartAssign, RequestCancellation,
       InCall,
       WaitForReadyTimeout, Callback, ClearOperations, Drop, ClearWait
<1>5. ASSUME NEW o \in Operations, Ready(o) \/ StoreOutcome(o)
     \/ Notify(o) PROVE CancelsCounted'
  BY <1>5 DEF Ready, SkillVars, StoreOutcome, Notify
<1>6. CASE ProcessQueue \/ Clean \/ Destroy \/ DestroyWait \/ DestroyEnd
  BY <1>6 DEF ProcessQueue, Clean, Destroy, DestroyWait, Drop, DestroyEnd
<1>7. CASE UNCHANGED skillVars
  BY <1>7 DEF skillVars
<1> QED
  BY <1>1, <1>2, <1>3, <1>4, <1>5, <1>6, <1>7 DEF SkillNext, NewCall, CallStep, Cancels, Ends,
       Cleaner, Destroyed

\* Every step preserves the invariant.
LEMMA SkillNextIInv == SkillIInv /\ [SkillNext]_skillVars => SkillIInv'
BY SkillNextTypeOK, NextStarted, NextLetGo, NextCleanerAtWork, NextFound, NextCancelsCounted
     DEF SkillIInv

\* The inductive invariant holds of every behaviour.
THEOREM SkillInvariantHolds == SkillSpec => []SkillIInv
BY SkillInitIInv, SkillNextIInv, PTL DEF SkillSpec

\* For any number of handlers, names and tracked operations, an operation that is
\* not finished is found under its name, and the cleaner refers to every thread that has
\* not been joined.
THEOREM OperationsAreKept == SkillSpec => []NothingForgotten
<1>1. SkillIInv => NothingForgotten
  BY DEF SkillIInv, Started, LetGo, Found, NothingForgotten
<1> QED
  BY <1>1, SkillInvariantHolds, PTL

\* An operation is finished after its outcome was stored, and is cancelled at most once.
THEOREM OutcomesAreTold == SkillSpec => []ToldOnce
<1>1. SkillIInv => ToldOnce
  BY DEF SkillIInv, Started, CancelsCounted, ToldOnce
<1> QED
  BY <1>1, SkillInvariantHolds, PTL
=============================================================================
