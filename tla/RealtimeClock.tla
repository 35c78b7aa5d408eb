--------------------------- MODULE RealtimeClock ---------------------------
(***************************************************************************)
(* A hardware module drives ICON's control loop: hal/realtime_clock.cc in the *)
(* hardware module's process (operation A is everything outside of its tick), *)
(* and the cycle of server/main_loop.cc in the control process (operation B), *)
(* over one Lockstep and one timestamp in shared memory.                      *)
(*                                                                            *)
(* Timestamps are numbered by the ticks.  A control server begins by preparing *)
(* the hardware module, which then stops its ticking, resets its clock and     *)
(* ticks again; one that has shut down is started again.                      *)
(***************************************************************************)
EXTENDS Naturals

CONSTANTS
  MaxTicks,       \* bound on ticks
  MaxServers      \* bound on runs of the control server

ASSUME RealtimeClockAssumption == MaxTicks \in Nat /\ MaxServers \in Nat \ {0}

VARIABLES
  state_, finished, pc, res, inside,   \* the Lockstep
  cpc,        \* where the clock is
  lpc,        \* where the main loop is
  shutdown_notification_,
  cycle_start_nanoseconds,   \* the update in shared memory
  cycle_start_,              \* the main loop's copy
  written,    \* history: the last tick whose cycle went through Write
  ticked,     \* history: the last tick that returned OK
  servers,    \* history: number of control servers started
  recovered   \* history: a failed tick was followed by Reset at once, and not only when
              \* the next control server prepared the hardware module

lockstep == <<state_, finished, pc, res, inside>>
clockVars == <<cpc, ticked, recovered>>
loopVars  == <<lpc, shutdown_notification_, cycle_start_, written, servers>>
vars == <<lockstep, clockVars, loopVars, cycle_start_nanoseconds>>

L == INSTANCE Lockstep WITH
       Threads <- {"clock", "loop"},
       Side    <- [t \in {"clock", "loop"} |-> IF t = "clock" THEN "A" ELSE "B"],
       Timeouts <- {"clock", "loop"}

Init == /\ L!Init
        /\ cpc = "new" /\ lpc = "prepare"
        /\ shutdown_notification_ = FALSE
        /\ cycle_start_nanoseconds = 0 /\ cycle_start_ = 0
        /\ written = 0 /\ ticked = 0 /\ servers = 1 /\ recovered = FALSE

\* A call of the lockstep takes its next step.
InLockstep(t) ==
  /\ L!InStart(t) \/ L!InEnd(t) \/ L!InCancel(t) \/ L!InReset(t)
  /\ UNCHANGED <<clockVars, loopVars, cycle_start_nanoseconds>>

Returned(t) == pc[t] = "idle"
-----------------------------------------------------------------------------
(* RealtimeClock.  cpc names the call of the lockstep that is under way:      *)
(* "ready" is outside of a tick, "failed" after one that returned an error.   *)

Clock(l) == cpc' = l /\ UNCHANGED <<ticked, recovered, loopVars>>

\* The constructor; a failure ends the process (CHECK_OK).
Create ==
  /\ cpc = "new" /\ L!StartOperation("clock")
  /\ Clock("reset_start") /\ UNCHANGED cycle_start_nanoseconds

\* Mutant: the control update is let go before it is given its timestamp.
TickWithoutTimestamp ==
  /\ cpc = "ready" /\ lpc # "prepare" /\ cycle_start_nanoseconds < MaxTicks
  /\ UNCHANGED cycle_start_nanoseconds
  /\ L!EndOperation("clock") /\ Clock("tick_end")

Tick ==
  /\ cpc = "ready" /\ lpc # "prepare" /\ cycle_start_nanoseconds < MaxTicks
  /\ cycle_start_nanoseconds' = cycle_start_nanoseconds + 1
  /\ L!EndOperation("clock") /\ Clock("tick_end")

TickEnded ==
  /\ cpc = "tick_end" /\ Returned("clock")
  /\ IF res["clock"] = "kOk"
     THEN L!StartOperation("clock") /\ Clock("tick_start")
     ELSE UNCHANGED lockstep /\ Clock("failed")
  /\ UNCHANGED cycle_start_nanoseconds

TickReturns ==
  /\ cpc = "tick_start" /\ Returned("clock")
  /\ IF res["clock"] = "kOk" THEN cpc' = "ready" /\ ticked' = cycle_start_nanoseconds
                             ELSE cpc' = "failed" /\ UNCHANGED ticked
  /\ UNCHANGED <<lockstep, recovered, loopVars, cycle_start_nanoseconds>>

\* Reset is called when the hardware module is prepared (its tick thread has been
\* stopped then), or after a failed tick.
Reset ==
  /\ \/ /\ cpc \in {"failed", "ready"} /\ lpc = "prepare"
        /\ lpc' = "preparing" /\ UNCHANGED recovered
     \/ /\ cpc = "failed" /\ lpc # "prepare"
        /\ recovered' = TRUE /\ UNCHANGED lpc
  /\ L!Cancel("clock")
  /\ cpc' = "reset_cancel"
  /\ UNCHANGED <<ticked, shutdown_notification_, cycle_start_, written, servers,
                 cycle_start_nanoseconds>>

ResetCancelled ==
  /\ cpc = "reset_cancel" /\ Returned("clock")
  /\ L!Reset("clock")
  /\ Clock("reset_reset") /\ UNCHANGED cycle_start_nanoseconds

\* The start follows whatever the status of Lockstep::Reset is; the clock's own
\* status is the first error of the two.
ResetReset ==
  /\ cpc = "reset_reset" /\ Returned("clock")
  /\ L!StartOperation("clock")
  /\ Clock(IF res["clock"] = "kOk" THEN "reset_start" ELSE "reset_failed")
  /\ UNCHANGED cycle_start_nanoseconds

ResetReturns ==
  /\ cpc \in {"reset_start", "reset_failed"} /\ Returned("clock")
  /\ Clock(IF cpc = "reset_start" /\ res["clock"] = "kOk" THEN "ready" ELSE "failed")
  /\ UNCHANGED <<lockstep, cycle_start_nanoseconds>>

\* The destructor ends operation A.
Destroy ==
  /\ cpc \in {"ready", "failed"} /\ lpc \notin {"prepare", "preparing"}
  /\ L!EndOperation("clock")
  /\ Clock("gone") /\ UNCHANGED cycle_start_nanoseconds
-----------------------------------------------------------------------------
(* MainLoop *)

Loop(l) == lpc' = l /\ UNCHANGED <<shutdown_notification_, cycle_start_, written, servers,
                                   clockVars, cycle_start_nanoseconds>>

\* The hardware module has been prepared, and RunRt begins; or its clock could not
\* be reset, and Run ends.
Prepared ==
  /\ lpc = "preparing" /\ cpc \in {"ready", "tick_end", "tick_start", "failed"}
  /\ Loop(IF cpc = "failed" THEN "shutdown" ELSE "update") /\ UNCHANGED lockstep

RequestShutdown ==
  /\ ~shutdown_notification_ /\ lpc # "stopped"
  /\ shutdown_notification_' = TRUE
  /\ UNCHANGED <<lockstep, lpc, cycle_start_, written, servers, clockVars,
                 cycle_start_nanoseconds>>

\* BeginCycle, and the loop of RunRt around it.
BeginCycle ==
  /\ lpc = "update"
  /\ IF shutdown_notification_ THEN Loop("shutdown") /\ UNCHANGED lockstep
                               ELSE Loop("begin") /\ L!StartOperation("loop")

\* Mutant: the cycle goes on without its turn.
BeginCycleReturnsAnyway ==
  /\ lpc = "begin" /\ Returned("loop")
  /\ lpc' = "cycle" /\ cycle_start_' = cycle_start_nanoseconds
  /\ UNCHANGED <<lockstep, shutdown_notification_, written, servers, clockVars,
                 cycle_start_nanoseconds>>

BeginCycleReturns ==
  /\ lpc = "begin" /\ Returned("loop")
  /\ IF res["loop"] = "kOk"
     THEN lpc' = "cycle" /\ cycle_start_' = cycle_start_nanoseconds
     ELSE lpc' = "shutdown" /\ UNCHANGED cycle_start_
  /\ UNCHANGED <<lockstep, shutdown_notification_, written, servers, clockVars,
                 cycle_start_nanoseconds>>

\* Mutant: FinishCycle hands the clock its turn back before Write.
FinishCycleEarly ==
  /\ lpc = "cycle"
  /\ Loop("finish") /\ L!EndOperation("loop")

\* Read, Update and Write succeed ...
FinishCycle ==
  /\ lpc = "cycle"
  /\ written' = cycle_start_ /\ lpc' = "finish"
  /\ L!EndOperation("loop")
  /\ UNCHANGED <<shutdown_notification_, cycle_start_, servers, clockVars,
                 cycle_start_nanoseconds>>

\* ... or one of them fails, and operation B is left without being ended.
CycleFails ==
  /\ lpc = "cycle"
  /\ inside' = inside \ {"loop"}
  /\ Loop("shutdown")
  /\ UNCHANGED <<state_, finished, pc, res>>

FinishCycleReturns ==
  /\ lpc = "finish" /\ Returned("loop")
  /\ Loop(IF res["loop"] = "kOk" THEN "update" ELSE "shutdown") /\ UNCHANGED lockstep

\* Mutant: the clock is not told.
ShutdownWithoutCancel ==
  /\ lpc = "shutdown"
  /\ Loop("cancel") /\ UNCHANGED lockstep

Shutdown ==
  /\ lpc = "shutdown"
  /\ Loop("cancel") /\ L!Cancel("loop")

ShutdownReturns ==
  /\ lpc = "cancel" /\ Returned("loop")
  /\ Loop("stopped") /\ UNCHANGED lockstep

\* The next control server.
Restart ==
  /\ lpc = "stopped" /\ servers < MaxServers /\ cpc # "gone"
  /\ servers' = servers + 1 /\ shutdown_notification_' = FALSE
  /\ lpc' = "prepare"
  /\ UNCHANGED <<lockstep, cycle_start_, written, clockVars, cycle_start_nanoseconds>>
-----------------------------------------------------------------------------
ClockStep == \/ InLockstep("clock") \/ Create \/ TickEnded \/ TickReturns
             \/ Reset \/ ResetCancelled \/ ResetReset \/ ResetReturns
LoopStep  == \/ InLockstep("loop") \/ Prepared \/ BeginCycle \/ BeginCycleReturns
             \/ FinishCycle \/ CycleFails \/ FinishCycleReturns \/ Shutdown \/ ShutdownReturns

\* The end of the processes' lives, or of the model's bounds.
Stopped == /\ lpc = "stopped" /\ pc["clock"] = "idle"
           /\ cpc \in {"gone", "failed", "ready"}
           /\ UNCHANGED vars

Next == ClockStep \/ Tick \/ Destroy \/ LoopStep \/ RequestShutdown \/ Restart \/ Stopped

Spec == Init /\ [][Next]_vars

\* Both processes go on with what they are doing; whether there is another tick,
\* a shutdown or a new server is up to others.  A tick need not have a deadline,
\* so the clock's start does not have to time out.
FairSpec ==
  Spec /\ WF_vars(ClockStep /\ ~L!StartTimeout("clock")) /\ WF_vars(LoopStep)
-----------------------------------------------------------------------------
TypeOK ==
  /\ L!TypeOK
  /\ cpc \in {"new", "ready", "tick_end", "tick_start", "failed", "reset_cancel",
              "reset_reset", "reset_start", "reset_failed", "gone"}
  /\ lpc \in {"prepare", "preparing", "update", "begin", "cycle", "finish", "shutdown", "cancel", "stopped"}
  /\ shutdown_notification_ \in BOOLEAN
  /\ cycle_start_nanoseconds \in 0..MaxTicks /\ cycle_start_ \in 0..MaxTicks
  /\ written \in 0..MaxTicks /\ ticked \in 0..MaxTicks /\ servers \in 0..MaxServers
  /\ recovered \in BOOLEAN

\* The control cycle and what the clock's owner does between two ticks never
\* overlap (realtime_clock.cc:44-95 with the cycle of main_loop.cc), as long as the
\* clock is reset only for a server that begins.
OneAtATime == TypeOK /\ (~recovered => ~(lpc = "cycle" /\ cpc = "ready"))

\* A tick that returns OK "blocks until ApplyCommand has completed for all
\* hardware modules" (realtime_clock.h:62-64): the cycle with its own timestamp
\* went through Write.
TickMeansCycle == (~recovered /\ ticked > 0) => written >= ticked

\* No timestamp is used for two control cycles, while there is a clock.  (Its
\* destructor ends operation A and so lets one more cycle go, without a tick.)
OneCyclePerTick ==
  [][lpc = "begin" /\ lpc' = "cycle" /\ cpc # "gone" /\ ~recovered
       => cycle_start_' > cycle_start_]_vars

\* A tick without a deadline returns, though the control server fails or is shut
\* down in the middle of a cycle (main_loop.cc:303 cancels the lockstep).  A clock
\* that was reset after the server had gone has nobody to answer its tick.
TickComesBack ==
  cpc \in {"tick_end", "tick_start"} ~> (cpc \in {"ready", "failed"} \/ recovered)
=============================================================================
