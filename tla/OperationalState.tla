-------------------------- MODULE OperationalState --------------------------
(***************************************************************************)
(* The operational state of an ICON server: how commands of clients, the     *)
(* safety system, faults and failing sessions enable and disable the hardware *)
(* modules.  RealtimeControlManager (icon/control/realtime_control_manager.cc) *)
(* decides, HardwareModuleManager (icon/hal/hardware_module_manager.cc) sends  *)
(* the transition requests, MainLoop (icon/server/main_loop.cc) runs both.     *)
(*                                                                            *)
(* A cycle of the real-time thread has the steps                              *)
(*   "hardware"  HardwareModuleManager::Write and Read: the modules' own       *)
(*               real-time threads run, which alone change a state code; then  *)
(*               PreUpdateSessions up to the propagation of faults             *)
(*   "command"   HandleOperationalStatus                                       *)
(*   "sessions"  HandleStartSession, UpdateSessions, FinishCycle, and          *)
(*               ProcessTransitionRequestAsync at the start of MainLoop::Write *)
(* and after an error "close", "abort", "stopped" (Shutdown).  State codes and  *)
(* async_request.Valid() do not change from Read to the end of "sessions", so that *)
(* cached_state and cached_request_state_ are what they are computed from.     *)
(* A CommandId is only compared with current_command_id_: a handle's id is     *)
(* "none", "current" or "preempted".                                           *)
(***************************************************************************)
EXTENDS Naturals, Sequences

CONSTANTS
  Modules,      \* the activated hardware modules
  CellControl,  \* the ones with cell_control_hardware_keep_enabled
  Clients,      \* threads that call Enable(), Disable() and ClearFaults()
  SafetyInputs, \* the pairs <<mode_of_safe_operation, enable_button_status>> that are read
  MaxFaults     \* how often a module may fault

ASSUME OperationalAssumption ==
  /\ Modules # {} /\ CellControl \subseteq Modules
  /\ {"auto", "nobody"} \cap Clients = {} /\ MaxFaults \in Nat
  /\ SafetyInputs \subseteq {"AUTOMATIC", "TEACH_PENDANT_1"} \X {"ENGAGED", "DISENGAGED"}

Operational == Modules \ CellControl

Commands == {"kEnable", "kDisable", "kDisableSkipCellControlHardware", "kClearFaults"}
Requests == {"kEnableMotion", "kDisableMotion", "kDisableMotionSkipCellControlHardware",
             "kClearFaults"}
Faults   == {"kFaulted", "kFatallyFaulted"}
StateCode == {"kActivated", "kMotionEnabling", "kMotionEnabled", "kMotionDisabling",
              "kClearingFaults"} \cup Faults

VARIABLES
  mod,      \* mod[m]: the state code of module m
  req,      \* req[m]: async_request: "none" if not Valid(), the request sent, "working" once
            \*   the module has accepted it, or "ready"
  faults,   \* the faults so far
  pending,  \* pending_transition_request_
  handle,   \* current_operational_state_command_handle_
  everSet,  \* operational_state_command_ever_set_
  mode,     \* latest_mode_of_safe_operation_
  button,   \* latest_enable_button_status_
  session,  \* a session: "none", "new", "on" once it ran with all hardware enabled and no
            \*   request under way, "off" once it ran without that hardware afterwards
  rpc,      \* the real-time thread
  cpc,      \* cpc[c]: client c in RealtimeFunctionBridge::Call
  cmd,      \* cmd[c]: its command
  queue,    \* operational_state_command_bridge_: queue_
  closed    \*   and closed_

hardware == <<mod, req, faults>>
clients  == <<cpc, cmd>>
bridge   == <<queue, closed>>
vars == <<hardware, pending, handle, everSet, mode, button, session, rpc, clients, bridge>>

NoHandle == [who |-> "nobody", cmd |-> "kNone", id |-> "none"]

Init ==
  /\ mod = [m \in Modules |-> "kActivated"] /\ req = [m \in Modules |-> "none"] /\ faults = 0
  /\ pending = "none" /\ handle = NoHandle /\ everSet = FALSE
  /\ mode = "AUTOMATIC" /\ button = "UNKNOWN" /\ session = "none" /\ rpc = "hardware"
  /\ cpc = [c \in Clients |-> "idle"] /\ cmd = [c \in Clients |-> "kNone"]
  /\ queue = <<>> /\ closed = FALSE

\* After an error the main loop ends, deactivates the modules and shuts the server down.  The
\* sessions end; only the calls of clients still matter, and the rest is forgotten.
Fail ==
  /\ rpc' = "close"
  /\ mod' = [m \in Modules |-> "kActivated"] /\ req' = [m \in Modules |-> "none"]
  /\ pending' = "none" /\ session' = "none" /\ mode' = "AUTOMATIC" /\ button' = "UNKNOWN"
  /\ UNCHANGED <<faults, handle, everSet, clients, bridge>>
-----------------------------------------------------------------------------
(* HardwareModuleManager.                                                  *)

In(codes, group) == \E m \in group : mod[m] \in codes

\* GetCombinedOperationalState: the most severe state of all modules.
CombinedState ==
  IF In({"kFatallyFaulted"}, Modules) THEN "kFatallyFaulted"
  ELSE IF In({"kFaulted", "kClearingFaults"}, Modules) THEN "kFaultedConnected"
  ELSE IF \A m \in Modules : mod[m] = "kMotionEnabled" THEN "kEnabled"
  ELSE "kDisabled"

Valid(m) == req[m] # "none"

GetRequestState ==
  IF pending # "none" \/ \A m \in Modules : Valid(m) THEN "kActive"
  ELSE IF \E m \in Modules : Valid(m) THEN "kPartiallyDone"
  ELSE "kDone"

\* HardwareModuleTransitionGuard, for the transitions that ICON requests.
AllowedFrom == [kEnableMotion |-> "kActivated", kDisableMotion |-> "kMotionEnabled",
                kDisableMotionSkipCellControlHardware |-> "kMotionEnabled",
                kClearFaults |-> "kFaulted"]
NoOpFrom == [kEnableMotion |-> {"kMotionEnabled"}, kDisableMotion |-> {"kActivated"},
             kDisableMotionSkipCellControlHardware |-> {"kActivated"},
             kClearFaults |-> {"kActivated", "kMotionEnabled"}]

Addressed(request) ==
  IF request = "kDisableMotionSkipCellControlHardware" THEN Operational ELSE Modules

\* What RequestTransition returns: the error or, with CheckTransitionGuard, whether the
\* request is allowed.  A request that is already pending gets OkStatus and no CommandId.
RequestResult(request) ==
  IF pending = request THEN "kPending"
  ELSE IF pending # "none" \/ \A m \in Modules : Valid(m) THEN "kResourceExhausted"
  ELSE IF In({AllowedFrom[request]}, Addressed(request)) THEN "kAllowed"
  ELSE IF In(StateCode \ NoOpFrom[request], Addressed(request)) THEN "kFailedPrecondition"
  ELSE "kNoOp"

\* An accepted request has a new CommandId, which is no longer that of an older command.
Preempted(h) == IF h.id = "current" THEN [h EXCEPT !.id = "preempted"] ELSE h

\* RequestTransition of the real-time thread itself.
RequestTransition(request) ==
  IF RequestResult(request) = "kAllowed"
  THEN pending' = request /\ handle' = Preempted(handle)
  ELSE UNCHANGED <<pending, handle>>

RequestFails(request) == RequestResult(request) \in {"kResourceExhausted", "kFailedPrecondition"}

\* The function of the module that a request calls.
Async == [kEnableMotion |-> "kEnableMotion", kDisableMotion |-> "kDisableMotion",
          kDisableMotionSkipCellControlHardware |-> "kDisableMotion",
          kClearFaults |-> "kClearFaults"]

\* ProcessTransitionRequestAsync: requests that are ready are released, and the pending one, p,
\* is sent to the modules that are not busy.
ProcessTransitionRequestAsync(p) ==
  /\ pending' = "none"
  /\ req' = [m \in Modules |->
               IF req[m] \notin {"none", "ready"} THEN req[m]
               ELSE IF p # "none" /\ m \in Addressed(p) THEN Async[p]
               ELSE "none"]

\* A request that is not ready after request_timeout_ is an error.
RequestTimeout(m) == rpc = "sessions" /\ req[m] \in Requests \cup {"working"} /\ Fail
-----------------------------------------------------------------------------
(* RealtimeControlManager.                                                 *)

\* The request that propagates a fault to the hardware that is enabled.
Propagated ==
  IF (In(Faults, CellControl) \/ In({"kFatallyFaulted"}, Modules)) /\ In({"kMotionEnabled"}, Modules)
  THEN "kDisableMotion"
  ELSE IF In(Faults, Operational) /\ In({"kMotionEnabled"}, Operational)
  THEN "kDisableMotionSkipCellControlHardware"
  ELSE "none"

\* HandleSafetyStatus, with a new mode of safe operation, and PreUpdateSessions up to
\* HandleOperationalStatus.
PreUpdateSessions ==
  /\ rpc = "hardware"
  /\ LET fatal == /\ In({"kFatallyFaulted"}, Modules)
                  /\ ~In({"kMotionEnabled", "kMotionDisabling", "kMotionEnabling"}, Modules)
         act   == GetRequestState # "kActive" /\ Propagated # "none"
     IN  \/ (fatal \/ (act /\ RequestFails(Propagated))) /\ Fail
         \/ /\ ~fatal /\ rpc' = "command"
            /\ IF act THEN ~RequestFails(Propagated) /\ RequestTransition(Propagated)
                      ELSE UNCHANGED <<pending, handle>>
            /\ mode' \in {i[1] : i \in SafetyInputs}
            /\ session' = IF mode' = mode THEN session ELSE "none"
            /\ UNCHANGED <<hardware, everSet, button, clients, bridge>>

IsExpectedToAutomaticallyEnable(b) ==
  IF mode = "TEACH_PENDANT_1" THEN b = "ENGAGED" /\ button = "DISENGAGED"
  ELSE GetRequestState = "kDone" /\ ~In(StateCode \ {"kActivated"}, Modules) /\ ~everSet

IsExpectedToAutomaticallyDisable(b) ==
  /\ GetRequestState = "kDone" /\ mode = "TEACH_PENDANT_1"
  /\ b = "DISENGAGED" /\ button = "ENGAGED"

\* The handle of this cycle: the current one, one of the safety system, or the next call's.
NextHandle(b) ==
  IF handle # NoHandle THEN handle
  ELSE IF IsExpectedToAutomaticallyEnable(b) THEN [who |-> "auto", cmd |-> "kEnable", id |-> "none"]
  ELSE IF IsExpectedToAutomaticallyDisable(b) THEN [who |-> "auto", cmd |-> "kDisable", id |-> "none"]
  ELSE IF queue # <<>> THEN [who |-> Head(queue), cmd |-> cmd[Head(queue)], id |-> "none"]
  ELSE NoHandle

\* TryLockAndExecute fails until the client awaits its answer.  (Later it may fail for a moment
\* after a notification; the check is then made in the next cycle.)
Unlocked(who) == who \in Clients => cpc[who] = "await"

\* The call returns OkStatus ("ok") or an error ("idle").
Answer(who, pc) ==
  /\ cpc' = [c \in Clients |-> IF c = who THEN pc ELSE cpc[c]]
  /\ cmd' = [c \in Clients |-> IF c = who THEN "kNone" ELSE cmd[c]]

RequestOf == [kEnable |-> "kEnableMotion", kDisable |-> "kDisableMotion",
              kDisableSkipCellControlHardware |-> "kDisableMotionSkipCellControlHardware",
              kClearFaults |-> "kClearFaults"]

\* A new command: it is refused, has no effect, or becomes the pending request.
StartCommand(h) ==
  LET result == RequestResult(RequestOf[h.cmd])
  IN  IF result = "kAllowed"
      THEN /\ pending' = RequestOf[h.cmd] /\ handle' = [h EXCEPT !.id = "current"]
           /\ UNCHANGED clients
      ELSE /\ handle' = NoHandle /\ UNCHANGED pending
           /\ Answer(h.who, IF result \in {"kNoOp", "kPending"} THEN "ok" ELSE "idle")

ExpectedState == [kEnable |-> "kEnabled", kDisable |-> "kDisabled",
                  kDisableSkipCellControlHardware |-> "kDisabled", kClearFaults |-> "kDisabled"]

\* Mutant: a command is done when the first module is.
CheckCommandStateEarly(h) ==
  /\ IF GetRequestState = "kActive"
     THEN handle' = h /\ UNCHANGED clients
     ELSE /\ handle' = NoHandle
          /\ Answer(h.who, IF h.id = "current" /\ CombinedState = ExpectedState[h.cmd]
                           THEN "ok" ELSE "idle")
  /\ UNCHANGED pending

\* Mutant: a preempted command is left to the caller.
CheckCommandStateForgets(h) ==
  /\ IF GetRequestState # "kDone" \/ h.id = "preempted"
     THEN handle' = h /\ UNCHANGED clients
     ELSE /\ handle' = NoHandle
          /\ Answer(h.who, IF CombinedState = ExpectedState[h.cmd] THEN "ok" ELSE "idle")
  /\ UNCHANGED pending

\* CheckCommandState, and the wait of a preempted command for the request that preempted it.
CheckCommandState(h) ==
  /\ IF GetRequestState # "kDone"
     THEN handle' = h /\ UNCHANGED clients
     ELSE /\ handle' = NoHandle
          /\ Answer(h.who, IF h.id = "current" /\ CombinedState = ExpectedState[h.cmd]
                           THEN "ok" ELSE "idle")
  /\ UNCHANGED pending

\* Mutant: only faults cancel sessions.
UpdateOperationalStatusOnFault ==
  session' = IF handle' = NoHandle /\ CombinedState \notin {"kEnabled", "kDisabled"}
             THEN "none" ELSE session

\* UpdateOperationalStatus: the sessions of operational hardware that is not enabled are
\* cancelled, unless a command is under way.
UpdateOperationalStatus ==
  session' = IF handle' = NoHandle /\ CombinedState # "kEnabled" THEN "none" ELSE session

\* HandleOperationalStatus, with the new status of the enable button.  (The code remembers
\* the button at the end of Update, and does not read it before.)
HandleOperationalStatus ==
  /\ rpc = "command" /\ rpc' = "sessions"
  /\ button' \in {i[2] : i \in {j \in SafetyInputs : j[1] = mode}}
  /\ LET h == NextHandle(button')
     IN  /\ IF h = NoHandle \/ ~Unlocked(h.who) THEN handle' = h /\ UNCHANGED <<pending, clients>>
            ELSE IF h.id = "none" THEN StartCommand(h)
            ELSE CheckCommandState(h)
         /\ everSet' = (everSet \/ h # NoHandle)
         /\ queue' = IF handle = NoHandle /\ h.who \in Clients THEN Tail(queue) ELSE queue
  /\ UpdateOperationalStatus
  /\ UNCHANGED <<hardware, mode, closed>>

\* What a session has seen after a cycle in which it ran.
Ran == IF session = "new" /\ CombinedState = "kEnabled" /\ GetRequestState = "kDone" THEN "on"
       ELSE IF session = "on" /\ CombinedState # "kEnabled" THEN "off"
       ELSE session

\* HandleStartSession and UpdateSessions: a session starts, runs or is finished by its
\* client, or fails, which disables everything.  FinishCycle and Write: transitions pause while
\* a safety action runs, which only an enabled part has.
UpdateSessions(safetyAction) ==
  /\ rpc = "sessions" /\ rpc' = "hardware"
  /\ safetyAction => In({"kMotionEnabled"}, Modules)
  /\ \E failed \in BOOLEAN :
       /\ failed => session # "none" /\ ~RequestFails("kDisableMotion")
       /\ \/ failed /\ session' = "none"
          \/ ~failed /\ session' \in {IF session = "none" THEN "new" ELSE "none", Ran}
       /\ LET accepted == failed /\ RequestResult("kDisableMotion") = "kAllowed"
              p == IF accepted THEN "kDisableMotion" ELSE pending
          IN  /\ handle' = IF accepted THEN Preempted(handle) ELSE handle
              /\ IF safetyAction THEN pending' = p /\ UNCHANGED req
                                 ELSE ProcessTransitionRequestAsync(p)
  /\ UNCHANGED <<mod, faults, everSet, mode, button, clients, bridge>>

\* A session fails, and the server with it.
DisableFails == rpc = "sessions" /\ session # "none" /\ RequestFails("kDisableMotion") /\ Fail

\* MainLoop::Shutdown and RealtimeControlManager::Shutdown: the bridge is closed, then the
\* current command and the ones in the queue are answered.
Close ==
  /\ rpc = "close" /\ rpc' = "abort" /\ closed' = TRUE
  /\ UNCHANGED <<hardware, pending, handle, everSet, mode, button, session, clients, queue>>

Abort ==
  /\ rpc = "abort"
  /\ \/ /\ handle # NoHandle /\ Unlocked(handle.who)
        /\ Answer(handle.who, "idle") /\ handle' = NoHandle /\ UNCHANGED <<queue, rpc>>
     \/ /\ handle = NoHandle /\ queue # <<>> /\ Unlocked(Head(queue))
        /\ Answer(Head(queue), "idle") /\ queue' = Tail(queue) /\ UNCHANGED <<handle, rpc>>
     \/ /\ handle = NoHandle /\ queue = <<>>
        /\ rpc' = "stopped" /\ UNCHANGED <<handle, queue, clients>>
  /\ UNCHANGED <<hardware, pending, everSet, mode, button, session, closed>>
-----------------------------------------------------------------------------
(* The hardware modules (HardwareModuleRuntime), while ICON waits for them. *)

Transient == [kEnableMotion |-> "kMotionEnabling", kDisableMotion |-> "kMotionDisabling",
              kClearFaults |-> "kClearingFaults"]
Final == [kMotionEnabling |-> "kMotionEnabled", kMotionDisabling |-> "kActivated",
          kClearingFaults |-> "kActivated"]

\* OnEnableMotion, OnDisableMotion, OnClearFaults: the guard, then the call of the module.
\* A module that faulted meanwhile stays faulted.
ModuleStep(m) ==
  /\ rpc = "hardware"
  /\ \/ /\ req[m] \in Requests
        /\ IF mod[m] = AllowedFrom[req[m]]
           THEN mod' = [mod EXCEPT ![m] = Transient[req[m]]] /\ req' = [req EXCEPT ![m] = "working"]
           ELSE req' = [req EXCEPT ![m] = "ready"] /\ UNCHANGED mod
     \/ /\ req[m] = "working" /\ req' = [req EXCEPT ![m] = "ready"]
        /\ mod' = [mod EXCEPT ![m] = IF @ \in DOMAIN Final THEN Final[@] ELSE @]
  /\ UNCHANGED <<faults, pending, handle, everSet, mode, button, session, rpc, clients, bridge>>

\* ReadStatus, ApplyCommand or the call of the module fails.  (kInitFailed is only reached before
\* a module is activated.)
Fault(m) ==
  /\ rpc = "hardware" /\ faults < MaxFaults /\ faults' = faults + 1
  /\ \/ mod[m] \notin Faults /\ mod' = [mod EXCEPT ![m] = "kFaulted"]
     \/ mod[m] # "kFatallyFaulted" /\ mod' = [mod EXCEPT ![m] = "kFatallyFaulted"]
  /\ UNCHANGED <<req, pending, handle, everSet, mode, button, session, rpc, clients, bridge>>

\* A module did not answer in time, the clock failed, or a shutdown was asked for.
CycleFails == rpc = "hardware" /\ Fail
-----------------------------------------------------------------------------
(* RealtimeFunctionBridge::Call.                                           *)

Goto(c, from, to) == cpc[c] = from /\ cpc' = [cpc EXCEPT ![c] = to]

CallCheck(c) ==
  /\ ~closed
  /\ Goto(c, "idle", "insert") \/ Goto(c, "ok", "insert")
  /\ UNCHANGED <<hardware, pending, handle, everSet, mode, button, session, rpc, cmd, bridge>>

\* With the mutex of the FunctionData locked.
CallInsert(c) ==
  /\ Goto(c, "insert", "locked") /\ queue' = Append(queue, c)
  /\ cmd' \in {[cmd EXCEPT ![c] = x] : x \in Commands}
  /\ UNCHANGED <<hardware, pending, handle, everSet, mode, button, session, rpc, closed>>

\* Await unlocks the mutex.
Await(c) ==
  /\ Goto(c, "locked", "await")
  /\ UNCHANGED <<hardware, pending, handle, everSet, mode, button, session, rpc, cmd, bridge>>
-----------------------------------------------------------------------------
Cycle ==
  \/ PreUpdateSessions \/ HandleOperationalStatus \/ CycleFails \/ DisableFails \/ Close \/ Abort
  \/ \E safetyAction \in BOOLEAN : UpdateSessions(safetyAction)

Next ==
  \/ Cycle
  \/ \E m \in Modules : ModuleStep(m) \/ RequestTimeout(m) \/ Fault(m)
  \/ \E c \in Clients : CallCheck(c) \/ CallInsert(c) \/ Await(c)

Spec == Init /\ [][Next]_vars

\* The real-time thread and the callers run.  A module works on its request whenever ICON lets
\* it, or the request times out.  A safety action ends, and the enable button is not pressed
\* and released in every cycle.
FairSpec ==
  /\ Spec /\ WF_vars(Cycle)
  /\ SF_vars(handle = NoHandle /\ HandleOperationalStatus /\ button' = button)
  /\ \A c \in Clients : WF_vars(CallInsert(c) \/ Await(c))
  /\ \A m \in Modules : SF_vars(ModuleStep(m) \/ RequestTimeout(m))
  /\ SF_vars(UpdateSessions(FALSE))
-----------------------------------------------------------------------------
TypeOK ==
  /\ mod \in [Modules -> StateCode]
  /\ req \in [Modules -> Requests \cup {"none", "working", "ready"}]
  /\ faults \in 0..MaxFaults /\ pending \in Requests \cup {"none"}
  /\ handle \in {NoHandle} \cup [who : Clients \cup {"auto"}, cmd : Commands,
                                 id : {"none", "current", "preempted"}]
  /\ everSet \in BOOLEAN /\ mode \in {"AUTOMATIC", "TEACH_PENDANT_1"}
  /\ button \in {"UNKNOWN", "ENGAGED", "DISENGAGED"}
  /\ session \in {"none", "new", "on", "off"}
  /\ rpc \in {"hardware", "command", "sessions", "close", "abort", "stopped"}
  /\ cpc \in [Clients -> {"idle", "insert", "locked", "await", "ok"}]
  /\ cmd \in [Clients -> Commands \cup {"kNone"}]
  /\ queue \in Seq(Clients) /\ closed \in BOOLEAN

\* No session survives the loss of its hardware: once it has run with all hardware enabled and
\* at rest and then without (disabled, faulted, or on the way there), it never runs with enabled
\* hardware again, whatever commands, requests and faults overlap.  A session that did would go
\* on commanding motion from where it was when the robot stopped.
SessionNotResumed ==
  /\ TypeOK
  /\ session = "off" /\ rpc = "sessions" => CombinedState # "kEnabled"

\* The modules a command is about are in the state it asked for, and no request is on its way
\* that will take them out of it.
Achieved(command) ==
  LET about == Addressed(RequestOf[command])
  IN  CASE command = "kEnable" ->
             /\ \A m \in about : mod[m] = "kMotionEnabled" /\ ~Valid(m)
             /\ pending = "none"
        [] command = "kClearFaults" -> ~In(Faults \cup {"kClearingFaults"}, about)
        [] OTHER ->
             \/ \A m \in about : mod[m] = "kActivated" /\ req[m] # "kEnableMotion"
             \/ pending = RequestOf[command]

\* A command is answered with success only when it is true: a client that was told that the
\* server is enabled, disabled or without faults can rely on it, although the modules change
\* one by one and internal requests come in between.  (A disable that the real-time thread has
\* already asked for counts as done while it is pending, although Disable "blocks until all
\* parts are done disabling", operational_state_interface.h:38-41.)
AnswerIsTrue ==
  [][\A c \in Clients : cpc[c] # "ok" /\ cpc'[c] = "ok" => Achieved(cmd[c])]_vars

\* Every command that is in the queue before the server shuts down is answered: also when it is
\* preempted, a module hangs, or the server shuts down while the client holds the mutex.
CommandAnswered ==
  \A c \in Clients :
    cpc[c] \in {"locked", "await"} /\ ~closed ~> cpc[c] \in {"idle", "ok"}
=============================================================================
