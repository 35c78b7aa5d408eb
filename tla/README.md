# A TLA+ model of the Intrinsic platform's real-time core and skill service

The repository is the Intrinsic robot platform. Most of it moves data: services
that translate protocol buffers, geometry, motion planning, perception, drivers,
deployment. What is left when that is set aside, and what everything that moves a
robot depends on, is **ICON**, the real-time control server: a control loop and
the hardware modules it drives are *different processes*, coupled through shared
memory and futexes, with a deadline in almost every call and with real-time
threads that may neither block nor allocate. This project models that core, from
the lock-free primitives up to the sessions of clients and the operational state of
the server, and, above it, the **skill service**, which runs the skills that use ICON.

Path abbreviations: `CTRL` = `src/intrinsic_control/intrinsic/icon`,
`SDK` = `src/intrinsic_sdk/intrinsic`. `PROJECT.json` maps every definition to the
source lines it stands for, and lists components, hazards, runs and theorems.

    tlc -workers 2 -config MCLockstep.cfg MCLockstep     # one run
    tlapm InterprocessProofs.tla                          # one proof module

Contents: 1 inventory, 2 modules and code, 3 runs, 4 fairness, 5 proofs,
6 where the code and its documentation disagree, 7 what is not modelled, 8 plan.

## 1. Inventory

### 1.1 The parts of the core and how they interact

```
  clients (gRPC threads)                        executive (other process)
   | sessions: Add, Remove, Start, Finish        | StartExecute, CancelOperation, ...
   | commands: Enable, Disable, ClearFaults      v
   |   RealtimeFunctionBridge                   SkillService: operations, cleaner
   v                                               (skills are clients of ICON)
  ICON process                                  hardware module process
  ------------                                  -----------------------
  RealtimeControlManager
   |  SessionManager, ReactionManager (in the real-time thread)
   v
  MainLoop (real-time thread)  <-- Lockstep --> RealtimeClock (module's rt thread)
     |  BeginCycle/FinishCycle     + timestamp     TickBlocking, Reset
     v
  HardwareModuleManager/Proxy
     |  RemoteTriggerClient  ---- request_ ---->  RemoteTriggerServer
     |        (one per call)  <--- response_ ---     | callback
     |                                               v
     |  ReadStatus, ApplyCommand   ------------>  CallbackHandler  ("read", "apply")
        Prepare, EnableMotion, ...  ----------->      "      (state-change thread)
        Activate / Deactivate       ----------->      "      (their own threads)
                                                     |  request_queue_ (RtQueue)
                                                     |  + FuturePromiseContext
                                                     v
                                                  HardwareModuleInterface (device)
```

| part | state it keeps | operations | what is hard | what makes it correct |
|---|---|---|---|---|
| `AsyncBuffer` (`CTRL/utils/async_buffer.h`) | three buffers, one atomic word naming the active, mailbox and free one and whether the mailbox is full | GetFreeBuffer, CommitFreeBuffer; GetActiveBuffer | load and compare-exchange are two steps, so the other thread moves in between; ABA | no buffer in two hands, no torn or older value, the producer is wait-free |
| `BinaryFutex` (`CTRL/interprocess/binary_futex.*`) | one word, kReady/kPosted/kClosed, in shared memory | Post, Close, TryWait, WaitUntil/WaitFor | word and kernel queue change in separate steps, over processes | no lost wake-up; Close is final and releases all |
| `FuturePromiseContext`, `RealtimeFuture`, `RealtimePromise` (`SDK/platform/common/buffers/rt_promise.h`) | a one-element queue, five lock futexes, three signal futexes, three flags | Set, Get, Peek, WaitUntil, Cancel, detach, Reset, destructor | three owners in three threads; value and signal are published separately; signals are sticky | no value lost or reordered; a waiter is released; context outlives handles |
| `RemoteTrigger` client/server (`CTRL/interprocess/remote_trigger`) | request and response futex, `request_started_`, `is_running_` | Trigger, TriggerAsync, AsyncRequest; Run, Query, Start, RequestStop, Join, destructor | timeouts, late answers, stop racing a request | one request at a time; an OK means *this* request was served; nothing starts after a stop; a client is not left waiting |
| `Lockstep` (`SDK/util/thread/lockstep.*`) | `state_`, `a_finished_`, `b_finished_` | Start/End of A and B, Cancel, Reset | `state_` is checked and stored in separate steps, several threads per side, Cancel and Reset in between | mutual exclusion, strict alternation, Cancel releases waiters |
| `RealtimeClock`, clocked `MainLoop` (`CTRL/hal/realtime_clock.*`, `CTRL/server/main_loop.cc`) | a Lockstep and a timestamp in shared memory, the loop's copy, shutdown notification | TickBlocking, Reset, destructor; Run, BeginCycle, FinishCycle, Shutdown | one process fails, times out or restarts in any phase of the other | one cycle per tick, with its time; OK means done; a tick comes back |
| `RtQueueBuffer`, `RealtimeQueueMultiWriter` (`SDK/platform/common/buffers`) | ring, `head_`, `tail_`, atomic `size_`, writers' mutex | Lock, PrepareInsert/FinishInsert, Front/KeepFront/DropFront | full and empty; who owns a slot while `size_` lags behind | no slot in two hands; FIFO |
| `RealtimeWriteQueue` (same directory) | an RtQueue, a futex, the reader's count of known items, `closed_` | Write, Close, Read | the item is visible before its post; a cached count | the CHECK never fires; Close loses nothing; every item is read |
| `HardwareModuleRuntime::CallbackHandler` (`CTRL/hal/hardware_module_runtime.cc`, `hardware_module_util.cc`) | state code and message, request queue, `reject_new_requests_`, the state code of the previous cycle, future hospice | OnPrepare, OnActivate, OnDeactivate, OnEnableMotion, OnDisableMotion, OnClearFaults, OnReadStatus, OnApplyCommand, Shutdown | five threads, a request answered by another thread many cycles after its state was checked, hooks that fail half way, Stop at any time | hooks paired with states; no orphaned transient state; no fault forgotten; nothing after stop; every action returns |
| `HardwareModuleManager`, `HardwareModuleProxy` (`CTRL/hal`) | cached states of all modules, pending transitions | Read, Write, UpdateState, ProcessTransitionRequestAsync | several modules and deadlines | ICON's view of the modules is conservative (one module in HardwareModuleRuntime, several in OperationalState) |
| Session and reaction manager, `RtclControllerSession`, `RealtimeFunctionBridge` (`CTRL/control/rtcl_*`, `realtime_function_bridge.h`) | the client's actions, reactions and installed session object; channels; the real-time thread's borrowed pointers, active actions, fired reactions | StartSession, Add, Remove, RemoveAll, StartActions, FinishSession; install, run, fire reactions, end | the real-time thread borrows what the client frees; it may end the session at any moment of a call; every change replaces the objects that remember what has fired | nothing freed is used; slots exclusive; reactions fire when they should; calls are answered |
| `RealtimeControlManager`, `HardwareModuleManager` (`CTRL/control/realtime_control_manager.cc`) | current command and its id, pending transition, cached states, safety inputs, sessions | Enable, Disable, ClearFaults, safety actions, fault propagation, Shutdown | user commands, internal requests and faults overlap; modules change one by one | a session never goes on after its hardware was lost; answers are true; every command is answered |
| Skill service (`SDK/skills/internal/skill_service_impl.*`, `SDK/skills/cc/skill_canceller.*`) | tracked operations (at most 100), a thread and a canceller for each, cleaner queue and thread, four mutexes | StartExecute, StartPreview, CancelOperation, ClearOperations, destructor | a mutex held while waiting, a start that fails half way, two cancellations, eviction at the limit | unfinished operations can be found; threads are joined; one cancellation; the mutex is given back |

### 1.2 Parts around the core

The `InitializedAsyncBuffer`, `LockableBinaryFutex` and the futex condition variable are
thin layers over the primitives above. The behaviour-tree executive and the skill
dispatcher (`src/intrinsic/executive/engine`) have a concurrent life cycle of their
own, around a CLIPS rule engine (section 8). The shared memory manager, domain socket, gRPC
front end, trajectory and collision code, world service, kinematics, motion
planning, perception, simulation, drivers, assets, tools, APIs, SDK clients and
third-party code are listed in `PROJECT.json` with the reason why they are left out:
operating-system or device I/O, floating-point numerics, or translation of data.

## 2. Modules and how they correspond to the code

All detailed modules are written at the grain of the *atomic operations of the
code*: one action per load, store, compare-exchange, futex operation or call-out,
unless two of them touch nothing another thread can see in between. A variable
ending in `_` is the member of that name; a `pc` says which step of which function
a thread is about to do; variables commented "history" are read by properties and
by bounds only. Definitions commented "Mutant" are not part of the specification:
each is a plausible slip in the definition below it, and shows that a property
notices it. BinaryFutex, FuturePromise, RemoteTrigger and SkillService name their
initial predicate, next-state relation, specification and types with a prefix
(`FutexSpec`, `PromiseSpec`, `TriggerSpec`, `SkillSpec`, ...), and `upc` in BinaryFutex is
the place of a user of the futex, because each is extended together with another
component by a proof module.

| module | is | built on |
|---|---|---|
| `AsyncBuffer` | the triple buffer | refines `LatestValue` |
| `BinaryFutex` | the futex word and the kernel's wait and wake | |
| `FuturePromise` | context, promise and future | the *result* of BinaryFutex: a post that a wait consumes |
| `RemoteTrigger` | client and server | same |
| `Lockstep` | the lockstep | same; refines `Alternation` |
| `RealtimeClock` | clock and main loop | composes with `Lockstep` by INSTANCE |
| `RtQueue` | ring buffer and writers' mutex | refines `Fifo` |
| `RealtimeWriteQueue` | the blocking queue | composes with `RtQueue` by INSTANCE |
| `HardwareModuleRuntime` | callback handler, transition guard, one ICON loop | the results of RtQueue, FuturePromise, RemoteTrigger |
| `RealtimeSession` | one session: client, channels, session and reaction manager | the function bridge in detail, the condition variable by its lock |
| `OperationalState` | commands, safety, faults and sessions over several hardware modules | the result of HardwareModuleRuntime: a module accepts a request, works on it and is done |
| `SkillService` | operations, their threads, the cleaner, cancellation | |
| `LatestValue`, `Alternation`, `Fifo` | what the primitives promise, abstractly | |
| `PrimitivesProofs` | theorems (section 5) on AsyncBuffer, BinaryFutex, FuturePromise | those modules |
| `InterprocessProofs` | theorems on Lockstep and RemoteTrigger | those modules |
| `ServerProofs` | theorems on OperationalState and SkillService | those modules |
| `RealtimeClockProofs`, `RtQueueProofs`, `RealtimeWriteQueueProofs`, `HardwareModuleRuntimeProofs`, `RealtimeSessionProofs` | theorems on the module of that name | that module; `RealtimeWriteQueueProofs` takes `RtQueueProofs` by INSTANCE |
| `MC*` | instances for TLC | |

Layering by result: `BinaryFutex` shows that a waiter is never asleep on a posted
word without somebody about to wake it, so the modules above use a post as a flag
that a wait consumes atomically, and leave the kernel out.

### AsyncBuffer
`state_` is the record packed in the 32-bit word. `GetActiveBuffer` is
`FetchLoad`, `FetchCas` or `FetchRetry`; `CommitFreeBuffer` is `CommitLoad`,
`CommitCas` or `CommitRetry`. The payload is the serial number of the commit;
writing a buffer takes two steps with the value `Torn` in between, so that a reader
of a buffer being written would be seen to be one.

### BinaryFutex
`Wait` in the code is a loop of `WaitTry` (the compare-exchange) and `FutexWait` (the system
call, which compares the word again and sleeps or returns). `Timeout` and
`Interrupt` (EINTR) happen to any sleeper at any time. Post wakes one
sleeper of the kernel's choice, Close wakes all, each in a step after the word has
changed.

### FuturePromise
Three threads: "P" has the promise, "F" the future, "O" the context. A value is its
serial number. `SetInsert` and `SetPost` are apart (lines 512, 514), as are
`CancelStore`/`CancelPost`, `PromiseDetach`/`PromiseDetachPost` and every wait of
`Reset` and of the destructor. The destructor's waits end with the signal (`DtorFuture`,
`DtorPromise`) or with `detach_timeout_` (`DtorFutureTimeout`, `DtorPromiseTimeout`), after
which the context is destroyed all the same; the history `gaveUp` has the handles for which
it did not see the signal. `Kinds` are the reusable and the one-shot handles.

### RemoteTrigger
Client threads share one `RemoteTriggerClient`. `Drain` is the check for a stale
response before a request is posted, `Clear` the reset of `request_started_`,
`AsyncDrop` an AsyncRequest that goes out of scope. The server thread runs `Loop`
(Run) or `Query`; another thread does `Start`, `RequestStop`, `JoinAsyncThread`,
`Destroy`. Requests are numbered; `serving` and `served` say up to which request
the callback has run.

### Lockstep, RealtimeClock
`StartOperation`, `StartWait`, `StartCheck`, `StartRepost`, `StartExpect`,
`StartStore` are the futex wait, the two looks at `state_` with the post of an
aborted waiter, and the store; likewise for End, Cancel and Reset. The code does
both operations in the same way, so `Side` tells which one a thread performs.
The specification of Lockstep itself has only the operations; Cancel and Reset (and the
starts that a Cancel aborts, `InCancel`, `InReset`) are defined there and used by
RealtimeClock, which is how the repository uses them. RealtimeClock instantiates Lockstep
with the threads "clock" and "loop", and adds
the timestamp, the tick, the cycle, shutdown, and a next server. `Timeouts` is the
set of threads whose waits have a deadline. The ghost `recovered` is set by a
`Reset` of the clock that follows a failed tick while a server is up (see
section 6).

### RtQueue, RealtimeWriteQueue
Items are numbered. `IncreaseSize` and `DropFront` are where `size_` changes, apart
from `FinishInsert` (`head_`) and `AdvanceTail` (`tail_`). RealtimeWriteQueue
instantiates RtQueue with one writer and interleaves the notification futex and
the reader's cached count.

### HardwareModuleRuntime
Threads "sc" (Prepare, EnableMotion, DisableMotion, ClearFaults), "act", "dea", "read"
(OnReadStatus) and "apply" (OnApplyCommand), as the runtime creates them. An action of "sc"
checks the guard (`TransitionGuard` over the table `AllowedFrom`), sets the transient state
through the queue, calls the module, and sets the final state through the queue; "read"
takes a request per cycle (`ProcessNextPendingRequest`), drops it if it is
outdated, applies it with its hook and answers. When the loop does not run the state
is set directly. `icon` is the phase of ICON's loop, `cached` the state code
it saw last. Data abstractions: a fault message matters only by whether it is the
previous one (a choice); a time stamp only by whether the state was updated after
it (`fresh`); a promise only by whether somebody still waits for it (`owned`), and
the hospice by how many futures it keeps. `hooked`, `faulty`, `overruns` and `reopened` are
histories: Enabled() without Disabled(), a fault not cleared, how many deadlines passed
while ICON's loop was running, and requests accepted again after Shutdown().

ICON waits for every callback it triggers. Its deadline for ReadStatus and for ApplyCommand
may pass (`IconReadTimeout`, `IconWriteTimeout`): the loop ends and ICON deactivates the
module while the callback goes on (`LateReadDone`, `LateApplyDone`). Stop() is as many steps
as in the code: `Shutdown` rejects and cancels requests, then `RequestStop` tells "apply",
"read", "dea" and "act", one after the other (`StopAfter`), to start no callback any more.
The StateChange thread polls its servers with Query(), on which RequestStop() has no effect,
so its callbacks may start at any time until every thread is joined (`Restart`).

### RealtimeSession
The client is one thread (its mutexes are held for a whole operation), the real-time
thread the other. A change builds one of two `RtclRealtimeSession` objects (`obj`),
passes it through the bridge (`CallCheck`, `CallInsert`, `Await`, `CallReturn`: the
check of `closed_`, the insertion, the unlock, the answer) and frees the old one. A
cycle of the real-time thread is `rpc`: "pre" (a new session, a finish request),
"install", "run" (`HandleReactions`, `Started`), and after an error the steps that close
the bridge, serve what is in it and notify. `spent` is a history: the reactions that
have triggered and may not again. Actions and reactions differ only by their slots and by
what they start and stop, which are constants.

### OperationalState
A cycle is "hardware" (the modules' threads run; ICON reads; faults are propagated),
"command" (`HandleOperationalStatus`: preemption, completion, new command, automatic
disable by the safety system) and "sessions" (a session runs, fails or starts; the
pending transition is sent). A module is its state code and its request; a fault may
happen to any module. `session` remembers whether the session ran with the hardware
enabled and at rest, and then without. After an error the server shuts down: close the
bridge, answer what is in it, stop.

### SkillService
Handlers (`Callers`) run the remote calls, each operation has a thread (`running`, `done`,
`finished`, `joinable`), one cleaner joins those threads in order. `update_mutex_` is a
variable only because ClearOperations waits with it; the short critical sections are
single steps. `Start` and `StartAssign` are apart, because the thread may end before
`thread_` is assigned. StartPreview has the control of StartExecute. Whether a skill has
registered a callback is a choice when it is cancelled. `orphans` are the operations whose
start failed after they were added.

## 3. Runs

| run | instance | states | shows |
|---|---|---|---|
| `async_buffer` | 5 commits | 1 752 | OwnedApart, CommitRetriesOnce, ImplementsLatestValue |
| `binary_futex` | 4 threads, each may do anything | 1 895 | NoLostWakeup, CloseReleases |
| `future_promise` | both kinds of handles, 2 promises, 2 futures, 2 values, Reset, detach timeouts | 406 436 | NothingLost, OneShotWaitOkMeansValue, OutlivesHandles, WaiterReleased |
| `remote_trigger` | 2 client threads, 3 requests, deadlines, restarts | 80 052 | PatientAnswersMatch, TriggerReturns |
| `lockstep` | 2 threads a side, all with deadlines | 12 944 | MutualExclusion, NoMismatch, ImplementsAlternation, KeepsAlternating |
| `realtime_clock` | 3 ticks, 2 servers, Cancel and Reset | 254 857 | OneAtATime, TickMeansCycle, OneCyclePerTick, TickComesBack |
| `rt_queue` | 2 writers, 3 slots, 8 items | 885 | SlotsApart, ImplementsFifo |
| `realtime_write_queue` | 2 slots, 5 items | 1 890 | NeverAborts, ClosedMeansDrained, AllConsumed |
| `hardware_module_runtime` | queue of 1, hooks fail, an overrun or stop and restart | 2 138 086 | HooksPaired, TransientHasOwner, RequestsAccounted, HealthyMeansCleared |
| `realtime_session` | 3 actions on 2 slots, 2 reactions, 3 requests | 419 603 | NothingDangles, SlotsExclusive, FiredIsKept, CallAnswered, FinishReturns |
| `operational_state` | 2 modules, one of them cell control, 1 client, 1 fault, safety inputs | 143 862 | SessionNotResumed, AnswerIsTrue, CommandAnswered |
| `skill_service` | 2 handlers, 2 names, a limit of 2, 3 operations | 165 530 | NothingForgotten, ToldOnce, MutexGivenBack, CleanedUp |

Why the bounds are enough to be interesting:

- *AsyncBuffer*: two commits between a load and its compare-exchange give the ABA
  case, three go through every permutation of the buffers; five do it twice. (The
  theorems remove the bound.)
- *BinaryFutex*: two sleepers, one that posts or closes and one that steals the post;
  the state space is finite without any other bound. (Proved for any set.)
- *FuturePromise*: a second value finds the queue full or a stale signal, a second
  attachment finds the posts of the first. `OneShotWaitOkMeansValue` and
  `OutlivesHandles` are restricted by histories, not by the bounds: TLC refutes
  them without the restriction on this very instance.
- *RemoteTrigger*: an abandoned request, the next one and one of the other thread. (Proved
  for any number of threads and requests.)
- *Lockstep*: two threads a side compete for the same futex.
- *RealtimeClock*: a failed tick, a good one and one across a restart of the server;
  Cancel and Reset are those of the clock and of the shutdown of the loop. (Proved for any
  number of ticks and servers.)
- *RtQueue*: eight items wrap a ring of three more than twice, at every fill level.
  (Proved for every capacity and set of writers, as is the next.)
- *RealtimeWriteQueue*: the ring is full and empty repeatedly, the reader's count goes
  through 0, 1 and 2.
- *HardwareModuleRuntime*: only "sc" inserts, and waits for its answer; a longer queue can
  fill only by requests whose waiter gave up. One overrun leaves one such request,
  which fills a queue of one, where the ten of the code would need ten overruns. Everything
  but the number of overruns is cyclic and unbounded. A behaviour has an overrun or a
  Stop(), not both, and after an overrun a fault is followed only while ICON's loop runs
  (the constraint `OverrunOrStop`), because without it the instance is too large for TLC;
  the proofs have them together, with every capacity and number of
  overruns. The liveness properties `TransientIsLeft` and `ActionReturns` of that module
  hold on the instance with neither (87 737 states with `FairSpec`); that instance is not
  one of the runs.
- *RealtimeSession*: one action overlaps both others, one reaction fires once and swaps
  overlapping actions, one is free-standing. A session is started again after it
  ended, so that nothing is bounded but the sets.
- *OperationalState*: two modules are in different states during every transition, and
  cell control is one of them. An instance with a third module (1 445 174 states) also
  passes, but takes too long to be run each time. (The safety properties are proved for
  any set of modules, of clients, and any number of faults.)
- *SkillService*: a limit of two is reached with unfinished and finished operations in
  either order; a third operation takes the place of an earlier one, under its name or
  another; a failed start can come before, between and after others. (The safety
  properties are proved for any limit and any number of handlers, names and operations.)

Several HardwareModuleRuntime properties carry `overruns = 0` and several
RealtimeClock properties `~recovered`. These are not bounds but the conditions under
which the code keeps its promise; section 6 says what happens outside of them.
`RequestsAccounted` holds with overruns too; its condition is `~reopened`. OutlivesHandles
leaves out a handle in `gaveUp`. `TypeOK` is a
conjunct of one property of each module rather than a property of its own.

Deadlock is checked in every run but two: a server that was shut down has stopped
(`operational_state`), and so has a skill service that was destroyed (`skill_service`);
there, liveness properties take the place of the deadlock check. Elsewhere, where a bound
or the end of a process would stop the model, an explicit stuttering disjunct (`Drained`,
`Stopped`) says so.

## 4. Fairness

Fairness is weak except in OperationalState, and given only to what the operating system
and the code's own loops guarantee. **No specification assumes that a deadline passes**,
so that no liveness result rests on somebody giving up, with three exceptions: in
HardwareModuleRuntime the 10 s deadline of a state-change action is a step of that thread,
and passes when ICON's loop is not there to answer (ICON's own deadlines, and those of the
destructor in FuturePromise, never have to pass); in OperationalState ICON's own time
limit on a transition request is what ends the request of a module that hangs; in
SkillService a handler gives up a skill that is never ready to be cancelled.

| module | fair | not fair |
|---|---|---|
| BinaryFutex | a call of a thread that is not asleep goes on | calls, timeouts, EINTR |
| FuturePromise | a call once begun goes on, in each thread | new calls, timeouts |
| RemoteTrigger | a client's call and its AsyncRequest go on; the server's loop, or its polling, runs; a server that has stopped is destroyed | new triggers, timeouts, RequestStop |
| Lockstep | calls go on; operations end; each side comes back for more (its users are loops) | timeouts, Cancel, Reset |
| RealtimeClock | the clock's and the loop's steps | the clock's timeout, new ticks, shutdown, restart |
| RealtimeWriteQueue | the reader reads in a loop; a write that has begun ends | timeouts, new writes, Close |
| RealtimeSession | the real-time thread's cycle; the client's call once begun | new operations, errors of the session |
| OperationalState | the cycle; callers; strongly: each module works on its request, or the request times out; a cycle in which the session is not stopped by a safety action; a cycle in which a waiting command is looked at and the enable button did not just change | new commands, faults, safety inputs |
| SkillService | handlers, skills return, the cleaner, the destructor once begun | new calls, a skill being ready |
| HardwareModuleRuntime | the five threads are scheduled, calls into the module return, ICON's loop goes on | stop, restart, overruns |

## 5. Proofs

The theorems hold for every value of the constants that the named assumptions allow.
TLC evaluated each inductive invariant before it was proved.

Every safety property of every run is the statement of a theorem. A proof module states the
theorems of one component, or of several that are alike, one after the other; no lemma of
one component is used for another, except where one is built on the other.

### PrimitivesProofs

**AsyncBuffer** (any number of commits; `MaxCommits \in Nat`). The inductive
invariant adds three conjuncts to types, `IndicesApart` and `CommitRetriesOnce`:
`CheckedOut` (a producer that writes holds the free buffer), `LoadedState` and
`Contents`. `LoadedState` is the heart: what the producer loaded differs from
`state_` only by *one* fetch, which emptied the mailbox, and that only before the
retry. Without it neither the bound on the retries nor the success of the retry is
inductive. `Contents` locates the last committed value, in the mailbox if that is
full and else in the active buffer, and says that only the buffer being written is
torn. Theorems: `BufferInvariantHolds`, `BufferTypeCorrect`, `Ownership` (OwnedApart),
`CommitIsWaitFree` (CommitRetriesOnce), `ActiveStable` (an action property),
`BufferRefinement` (`Spec => ImplementsLatestValue`).

**BinaryFutex** (any set of threads). `WakeupPending` is inductive with the
types: what is going to wake a sleeper, or to take the post in its place, is always
a thread that is awake. Theorems: `FutexTypeCorrect`, `WakeupsArrive` (NoLostWakeup),
`ClosedForGood` (an action property).

**FuturePromise** (any number of handles, values, Cancels and Resets). `DetachInv` is
what OutlivesHandles needs: a handle obtained once has cleared its flag when its signal is
there, and once the destructor has the signal of the future, the future is not attached;
of a handle for which it gave up (`gaveUp`) nothing is said.
`SignalInv` is what the one-shot wait needs: while nobody has cancelled, the signal of a
value means that the value is there, unless the future has taken it already,
and then it never waits again (`Over`).
Theorems: `PromiseInvariantHolds`, `ValuesKept` (NothingLost), `HandlesOutlived`
(OutlivesHandles), `OneShotWait` (OneShotWaitOkMeansValue).

### InterprocessProofs

**Lockstep** (any number of threads on either side, any subset with deadlines).
`LockstepTypeCorrect`, `Exclusion` (MutualExclusion), `Matched` (NoMismatch) and
`LockstepRefinement` (`Spec => ImplementsAlternation`) are about the operations; with Cancel
and Reset used at will the code does not keep them (section 6). They rest on a token:
`OneToken` (it is in `a_finished_`, in `b_finished_`, or with one thread),
`StateTells` (`state_` tells where it is) and `Places` (who can be where without a
Cancel). MutualExclusion alone says nothing of a thread between its wait and its
store, so it is not inductive.

**RemoteTrigger** (any number of client threads and of requests, timeouts, restarts of the
server thread, its end). That an answer belongs to the request depends on the two futexes,
the flag and the places of the server's thread together: `OneCall` (`request_started_` lets
one call in), `Numbered` (the callback serves the last request that was posted) and
`OnItsWay` (while nobody has given up, a request, a response, or a server that works on one
exists only for the client that waits, and only one of the three). Theorems:
`TriggerInvariantHolds`, `AnswersArePaired` (PatientAnswersMatch). It needs `~abandoned`
(section 6) and nothing else: RequestStop at any moment does not disturb it, as a request
that is dropped has no answer.

### RealtimeClockProofs

Any number of ticks and of control servers, with deadlines, failing cycles, shutdown and
restarts. Cancel and Reset are part of it, which Lockstep's own theorems exclude. What makes
them harmless is *when* the two processes call them, and the invariant is about that.
`Places` relates the phase of each process to its step in the lockstep, and
says that the clock resets only for a server that begins. `Resetting` follows Reset through
the posts of its own Cancel, which it takes back, so that one post is left.
From then to the Cancel of the main loop (`Clean`) there is one token and `state_`
tells where it is (`Token`). After the Cancel of the main loop the clock is alone; its
store may overwrite kCancelled, but it never stores kBFinished, so `Answered` still
holds: a tick that finds its turn has had its cycle. `Stamped` and `Ordered` relate the
timestamp in shared memory, the loop's copy, and the last finished cycle and tick: a turn
that is given to the loop comes with a newer timestamp. A Reset beside a running cycle ends
all this; the properties have `~recovered` for it, and so has the invariant,
`TypeOK /\ (~recovered => Good)`. TLC checked it with 4 ticks and 3 servers (864 497 states).
Theorems: `InvariantHolds`, `Exclusion` (OneAtATime), `TicksHaveCycles` (TickMeansCycle),
`CyclesHaveTicks` (the action property OneCyclePerTick).

### Queues, sessions, hardware modules

**RtQueueProofs** (every capacity, any set of writers, any number of items). `SlotsApart`
is about two threads that share only `size_`, so the invariant has to say where their
private indices are: `HeadInv` (`head_` is `size_` slots after the front, but for the step
between FinishInsert and IncreaseSize), `FrontInv`, `OneWriter` (the mutex) and `ItemsInv`
(which item each slot holds). `Wrap` takes the place of `%`, which it equals for the
indices that occur (`WrapIsMod`). Theorems: `InvariantHolds`, `NoRace` (SlotsApart),
`Refinement` (`Spec => ImplementsFifo`); the last reads the abstract queue off the ring and
shows that IncreaseSize is its Put, DropFront its Drop and every other step invisible.

**RealtimeWriteQueueProofs** (every capacity and number of items). The module takes
RtQueueProofs by INSTANCE with one writer: the invariant of the ring buffer is a conjunct
of this one, and its lemmas are cited for the steps that are the buffer's. On top of it,
`CountInv` says that the reader never counts on more than `size_`, `ClosedInv` that what it
counts after it has seen the queue closed is all there is, and `ConsumedInv` that nothing is
read twice. Theorems: `InvariantHolds`, `ReaderNeverAborts` (NeverAborts, the CHECK in
ReadWithTimeout), `ClosedIsDrained` (ClosedMeansDrained).

**RealtimeSessionProofs** (every set of actions and reactions, whatever slots they use,
any number of requests). The client frees what the real-time thread borrows. `UseInv`
names, for every place of the client, which of the two session objects the real-time
thread has: the installed one, or the next one from the answer on; and what it may touch
is in the arena. `NewInv` says the same of the object that is about to be installed,
`CallInv` that a call that fails ends the session, `LifeInv` who knows of the session,
`FreshInv` that it starts with nothing. `OperationDoes` sums up the operations of a client
in one effect. Theorems: `InvariantHolds`, `NothingFreedInUse` (NothingDangles),
`ReactionsRemember` (FiredIsKept), `OneActionPerSlot` (SlotsExclusive).

**HardwareModuleRuntimeProofs** (every capacity of request_queue_, any number of overruns,
hooks that fail or not, restarts or not). The invariant has three layers.

1. Whatever the deadlines: `PcInv` and `PhaseInv` (which callback runs in which phase of
   ICON, hence which threads exclude each other although no lock does; for "read" and
   "apply" only while deadlines are met), `StopInv` (the insertion is under
   non_rt_buffer_lock_, so Shutdown() finds every request, and the flag keeps new ones out
   until OnActivate clears it), `OwnInv` (one request at most is waited for), `TargetInv`
   (only a taken request of OnEnableMotion leads to kMotionEnabled) and
   `EveryPromiseHasFuture`. With `LeftTail`, a fact on cardinalities, they give
   RequestsAccounted. `HookInv` says where Enabled() is still to come or Disabled() has been
   called already, and that both agree with the state while deadlines are met.
2. Between two runs of the loop: `PrepareInv` (a module that is prepared has no request of
   its last run) and `ActivateInv` (nor a fault).
3. While every deadline is met: `AskInv` (a request is the first or the second of the
   action under way), `LoopInv` (only "read" writes the state to what a request says that
   it has found to apply, and else "read" and "apply" write only faults), `TransientInv`
   (between the two requests of an action nothing is written, so the second one is never
   outdated) and `HealthInv` (a fault that is neither the state nor about to be written is
   one of the action itself, or came during ClearFaults, and then no request is on its way
   that would make the module ready).

The last two are the arguments the code relies on and nowhere states: it compares the time
of a request with the last update, and the origin with the state, but an action whose
second request is refused would leave the module in a transient state until a fault or a
deactivation. Theorems: `InvariantHolds`, `HooksAgree` (HooksPaired), `TransientIsOwned`
(TransientHasOwner), `NoPromiseDangles` (RequestsAccounted), `FaultsAreCleared`
(HealthyMeansCleared).

### ServerProofs

**OperationalState** (any sets of hardware modules, of cell control modules among them and of
clients, any number of faults). Neither SessionNotResumed nor AnswerIsTrue says anything of
the requests that are under way, on which both depend: a session is resumed, or an answer
wrong, when a request that nobody remembers changes the modules. The invariant says who owns
what is under way. `Transitions`: a module in a transient state works on its request.
`Owned`: enabling and clearing of faults belong to the command in the handle, which stays
until they are done. What nobody owns is a disable, and `Disables` says that then
one module is no longer enabled, or none has answered yet. `DisableSent`: a disable that
was not preempted has reached every module that is still enabled. `Handled` is what
HandleOperationalStatus leaves behind. With these, `SessionOn` and `SessionOff` are
inductive: without a command only a fault takes the hardware from a running session, and a
session without hardware lives only while there is a command, and one that cannot bring
the hardware back. `ShutDown` and `Calls` are about the end of the server and about which
client a command is of. Theorems: `OperationalInvariantHolds`, `SessionsEnd`
(SessionNotResumed), `AnswersAreTrue` (the action property AnswerIsTrue). "auto" and "nobody" mark
the handle of the safety system and an empty one and are assumed not to be clients. TLC checked the
invariant on the instance of the run and on three larger ones (3 modules with 2 faults;
2 clients; both operation modes with 2 faults).

**SkillService** (any handlers, names, operations and limit). Three actors handle an
operation: its handler makes and starts it, its thread ends, the cleaner joins; and it
can be dropped by a start at the limit or by ClearOperations. `Started`: only operations
that were made run, and each has one handler that starts it. `Found`: what is not finished
is in the map under its name, and the map and the list have the same names, each once.
`LetGo`: what the cleaner no longer refers to is finished and joined, and its
`thread_` has been assigned (whoever joins takes `thread_mutex_`). `CleanerAtWork` ties the end of
the cleaner to its queue, `CancelsCounted` the count of cancellations to the canceller's
flag. The eviction at the limit takes the *first finished* name of the list: `SmallestIn`
(by well-founded induction on the naturals, cited from the library) and the lemmas on
RemoveAt, Append and Tail say what that leaves. Theorems: `SkillInvariantHolds`,
`OperationsAreKept` (NothingForgotten), `OutcomesAreTold` (ToldOnce).

### Assumptions, and what is only model-checked

The capacities and the number of control servers are positive naturals, the bounds (items,
values, overruns, ticks...) naturals, the switches Boolean; each thread of a
lockstep is on one side; "auto" and "nobody" are not clients; and what is stated of the sets of a
session in `SessionAssumption`. The bounds stay in the guards, but as every number is
allowed for them they exclude no finite behaviour.

Only model-checked are the liveness properties: CloseReleases, WaiterReleased,
TriggerReturns, KeepsAlternating, TickComesBack, AllConsumed, CallAnswered, FinishReturns,
CommandAnswered, MutexGivenBack and CleanedUp. Fairness and ENABLED are beyond the prover.
No module uses a RECURSIVE operator.

## 6. Where the code and its documentation disagree

They were met while modelling. The model takes the steps that lead to them,
the properties are stated so as to hold beside them, and each says with which
condition. Definitions in brackets are the unconditional statements; those are in
the modules but in no run.

*FuturePromise* (`rt_promise.h`)
- A Get between the insertion of a value (512) and its post (514) takes the value and
  leaves the post: the next wait returns true with nothing to get (doc 791-792).
  Likewise Reset (242-253) does not take back a post left by Set or by Cancel (275)
  [`WaitOkMeansValue`].
- The detach posts are sticky: one of an earlier handle satisfies the waits of
  Reset (228-235) and of the destructor (139-150) while the present handle is
  attached (docs 132-135, 214-215) [`ResetAlone`].
- The destructor can finish between the clearing of the attached flag (326) and the
  post (328), which is then made on a destroyed futex [`NoCallInDestroyed`].
- The destructor stores `is_cancelled_` (138, "Signal cancellation ...") and does not
  post `has_value_`: a future waiting without a deadline stays. The destructor waits for it
  until `detach_timeout_` has passed (141, by default one second), logs an error and destroys
  the context under it; likewise for the promise (147) [`DtorReleasesWaiter`]. "This ensures
  that the FuturePromiseContext outlives any active handles" (132-135) holds for handles
  that are detached within that time.
- Cancel never returns the CancelledError that its doc (265) mentions.

*RemoteTrigger*
- The answer to a request that was given up is taken for the next one if it
  arrives after the check for stale responses (remote_trigger_client.cc:176; .h:84-85)
  [`AnswersMatch`].
- The error returns of TriggerAsync (193-199) leave `request_started_` set: the
  client refuses every later request (.h:158-162) [`FlagIsOwned`].
- A request that was taken before RequestStop and is checked after it
  (remote_trigger_server.cc:231) is dropped without an answer. Its client is released
  when the server is destroyed, and not before.

*Lockstep and RealtimeClock*
- A Cancel can get lost. `Cancel` stores kCancelled (lockstep.cc:109). A Start between its
  checks and its store (54, 87), or an End likewise (71, 104), overwrites it, and later
  starts succeed; lockstep.h:146 says they "will return `kAborted` until `Reset()` is
  called".
- A Reset beside an operation that still runs makes a second token (lockstep.cc:122-125;
  .h:33-34, 151-153), and so does the late post of a Cancel that a Reset
  overtook. A Reset that gives up keeps the posts it has taken, so that a Cancel at
  the same time may leave a waiter without a deadline waiting. The Reset of
  the clock is such a one only in the case of the next item.
- RealtimeClock::Reset after a tick that timed out while ICON's cycle is still
  running (realtime_clock.cc:87-95): the end of the old cycle answers the next tick
  (.h:62-64, 70-71). `recovered` marks these behaviours.
- `~RealtimeClock` ends operation A and so lets go one more cycle, which has the old
  timestamp.
- A clock that is reset after the server is gone has nobody to answer a tick
  without a deadline.

*RealtimeWriteQueue*: a read without a deadline can return kDeadlineExceeded, when
the post it takes belongs to an item that it had counted already (147-161; doc
69-73). A loop that ends on anything but kConsumed (59) ends there.

*HardwareModuleRuntime*
- An action gives up after 10 s (562-564) but its request stays and is applied by a
  later cycle: the module is left in a transient state that no action may leave
  (comment 559-561; ICON's limits are main_loop.cc:70 and create_icon_main_loop.cc:75).
- ReadStatus that outlives ICON's deadline (main_loop.cc:205) can overwrite the
  state that Deactivate has set (170-171, 387-389).
- OnApplyCommand that outlives ICON's deadline for Write (main_loop.cc:217-218,
  hardware_module_manager.cc:238, 253) is still under way when ICON deactivates the module:
  having found the state enabled, it calls ApplyCommand() beside or after Disabled()
  (hardware_module_interface.h:222-240).
- Stop() calls Shutdown() before it stops the servers (1120-1129). An OnActivate that is
  under way, or starts in between, ends by accepting requests again (165), which
  Shutdown() (478-484) had rejected. An action may then insert one and, when the real-time
  callbacks are stopped, wait for it for 10 s; Stop() waits for that thread.
- `disable_motion_server_` is not told to stop at all (1120-1129). As the StateChange thread polls
  it and the other servers of that thread with Query() (1080-1091), RequestStop() would
  have no effect on it either: what keeps their actions from doing anything is
  `reject_new_requests_`.
- Shutdown() drains the request queue from the thread that stops the module while
  ReadStatus may be taking a request from it; the queue is made for one reader.
- SetStateDirectly returns true although a failing Disabled() sent the module to
  kFaulted instead (428-440, 454, 616-618; comment 499).
- The comment at 270-275 says that Enabled() is called in the cycle after; it is
  called in the same OnReadStatus.
- A new fault message is a new state: a ClearFaults that is waiting becomes
  outdated, and fails.

*RealtimeSession* (`CTRL/control`)
- A call that found the bridge open and is inserted after the real-time thread has
  closed it and served what was in it (realtime_function_bridge.h:263-273) is never
  answered; the comment at rtcl_session_manager.cc:145-147 and 548-550 says that active
  calls are. Hence `~closed` in CallAnswered.
- AddActionsAndReactions is not atomic: after an error about one action, the ones before
  it stay (session_interface.h:87-90).
- Shutdown never closes `start_realtime_session_bridge_`
  (realtime_control_manager.cc:472-504): a StartSession at that moment hangs.

*OperationalState* (`realtime_control_manager.cc`, `hardware_module_manager.cc`)
- A Disable that arrives while the same request is pending for another reason is answered
  OK at once, before the modules are disabled (see `Achieved`);
  operational_state_interface.h:38-41 says that it "blocks until all parts are done
  disabling (or an error occurs)".
- A session that starts during an internal disable survives the disable and the next
  enable, when the Enable arrives in the very cycle in which the hardware is first seen
  disabled. It never ran with enabled hardware before; hence "enabled and at rest".
- A session that fails in the cycle of another pending request, or while all
  modules are busy or faulted, makes RequestTransition fail, and the whole server shut down.
- Propagating a fault again preempts a client's Disable, which is aborted.
- The automatic disable by the safety system is edge-triggered; an edge during a command
  is missed.
- An enable button that changes in every cycle keeps a client's command from being
  looked at (excluded by fairness).
- A command that is inserted after Shutdown has closed and drained the bridge is not
  answered.

*SkillService*
- StartExecute and StartPreview add their operation and hand it to the cleaner before
  they look up the skill and its equipment (skill_service_impl.cc:510-523). When that fails,
  the operation never finishes: the cleaner waits for it and joins no later thread,
  ClearOperations is refused from then on, the operation counts against the limit of 100,
  and the destructor hangs. skill_service_impl.h:151 says "clean it up when it finishes";
  CleanedUp holds with `orphans = {}` only.
- At the limit, Add drops the oldest finished operation before it finds out that the new
  name is taken (279-310): the result of a finished operation is lost to a call that fails.
- A finished operation may make room, or be cleared, before its client asks for the outcome;
  the client is told NotFound.

## 7. What is not modelled

Of the modelled parts: crashes of a whole process (futexes keep their values; Stop and
a restart are modelled), ICON's own deadlines for Prepare, Activate and Deactivate
(one second for the last, main_loop.cc:299), the
internal clock and cycle statistics, inspection, metrics and the server
restart callback of HardwareModuleRuntime, construction of shared memory.
CancelPendingRequests is one step: two readers of the single-reader queue at once are
undefined behaviour that is not explored (section 6 says where they can meet). The late answer of a
callback that outlived ICON's deadline is dropped; that the next ICON may take it for its own
is a matter of RemoteTrigger (section 6).
kInitFailed is not reached: the handler exists only after a successful Init.
RealtimeSession leaves out the event queue towards the client (and what happens when it
is full), streaming, the publishing thread and the 60 s limit on the end of a session.
OperationalState leaves out the capacity of the command queue, read-only sessions and
kInitFailed. SkillService leaves out GetOperation and WaitOperation, which change nothing,
the scan of Add as more than one step, and the contents of requests and results.
Memory is sequentially consistent. This is what the default orders of the atomics in
AsyncBuffer, BinaryFutex, Lockstep and RemoteTrigger give; rt_promise.h and
rt_queue_buffer.h use acquire and release, and reorderings that these allow between
different atomics are not explored.

Hazards without a property are in `PROJECT.json` with the reason: the ones the code does
not avoid (the stale signal after Reset, the post on a destroyed futex, the flag left
set by TriggerAsync), the one-second Deactivate, and the arithmetic of the internal
clock.

## 8. Plan

Done: the primitives, their compositions, the callback handler, sessions and reactions,
the operational state and the skill service, and the proof of every safety property of
theirs. What could follow, in this order:

1. **Skill dispatcher** (`src/intrinsic/executive/engine/clips_skill_dispatcher.cc`), the
   client of the skill service: start, cancel and abandon a skill from the executive,
   over a pool of threads. Its hard cases are an abandonment between the report that
   a skill runs and the registration of the wait, and cancellations that queue behind the
   skills they are to cancel. What it reports is interpreted by rules of the executive
   (`src/intrinsic/executive/clips`), which have to be modelled with it.
2. **Composition**: an abstract one-module specification that HardwareModuleRuntime
   implements and OperationalState uses.
3. **Thin layers**: InitializedAsyncBuffer, LockableBinaryFutex, condition variable as
   modules of their own.
