--------------------------- MODULE FuturePromise ---------------------------
(***************************************************************************)
(* intrinsic/platform/common/buffers/rt_promise.h: FuturePromiseContext and  *)
(* the two handles that share it.  Three threads use one context: "P" owns   *)
(* the RealtimePromise, "F" the RealtimeFuture, "O" the context itself.  A   *)
(* step is one operation on the shared state; a TryLock critical section     *)
(* that touches nothing else shared is one step, and so is a read-only exit  *)
(* with the Unlock that follows it.                                          *)
(*                                                                          *)
(* BinaryFutex is used through what its own module establishes: a posted     *)
(* flag that Wait consumes, with no wake-up lost.                            *)
(***************************************************************************)
EXTENDS Naturals

CONSTANTS
  Kinds,      \* is_reusable of the handles asked for: {"once"}, {"reusable"} or both
  MaxAttach,  \* bound on GetPromise and on GetFuture calls that succeed
  MaxSets,    \* bound on values set
  Resets      \* whether the owner calls Reset

ASSUME FuturePromiseAssumption ==
  /\ Kinds \subseteq {"once", "reusable"}
  /\ MaxAttach \in Nat /\ MaxSets \in Nat /\ Resets \in BOOLEAN

VARIABLES
  buffer_,            \* the one-element queue: a serial number, 0 if empty
  promise_attached_, future_attached_, is_cancelled_,
  read_locked, write_locked, cancel_locked,   \* the *_value_futex_, cancel_futex_
  get_locked,         \* get_future_futex_ and get_promise_futex_, held by Reset
  has_value_, future_detached_, promise_detached_,   \* the posted flags
  promise, future,    \* the handles: "none" (context_ is null) or their kind
  pc,                 \* where the three threads are
  destroyed,          \* the context's destructor has finished
  sets, got, cleared, \* history: last value set, got by the future, cleared by Reset
  waitOk,             \* F's last call was a WaitUntil that returned OK
  attached,           \* how often a promise ("P") and a future ("F") was attached
  oneShot,            \* history: each handle obtained at most once, none reusable, no Reset
  gaveUp              \* history: the handles whose detachment the destructor did not see

flags   == <<promise_attached_, future_attached_, is_cancelled_>>
locks   == <<read_locked, write_locked, cancel_locked, get_locked>>
signals == <<has_value_, future_detached_, promise_detached_>>
handles == <<promise, future, attached>>
history == <<sets, got, cleared, oneShot, gaveUp>>
promiseVars == <<buffer_, flags, locks, signals, handles, pc, destroyed, history, waitOk>>

Threads == {"P", "F", "O"}

PromiseInit ==
  /\ buffer_ = 0
  /\ promise_attached_ = FALSE /\ future_attached_ = FALSE /\ is_cancelled_ = FALSE
  /\ read_locked = FALSE /\ write_locked = FALSE
  /\ cancel_locked = FALSE /\ get_locked = FALSE
  /\ has_value_ = FALSE /\ future_detached_ = FALSE /\ promise_detached_ = FALSE
  /\ promise = "none" /\ future = "none"
  /\ attached = [t \in {"P", "F"} |-> 0]
  /\ pc = [t \in Threads |-> "idle"]
  /\ destroyed = FALSE
  /\ sets = 0 /\ got = 0 /\ cleared = 0
  /\ waitOk = FALSE /\ oneShot = TRUE /\ gaveUp = {}

At(t, l)    == pc[t] = l /\ ~destroyed
Goto(t, l)  == pc' = [pc EXCEPT ![t] = l]
OwnerLeaves == pc["O"] \in {"dtor_future", "dtor_promise"}
-----------------------------------------------------------------------------
(* The promise's thread *)

\* No handle is asked for once the owner has begun to destroy the context.
GetPromise ==
  /\ At("P", "idle") /\ promise = "none" /\ ~OwnerLeaves
  /\ attached["P"] < MaxAttach
  /\ ~get_locked /\ ~promise_attached_
  /\ promise_attached_' = TRUE
  /\ promise' \in Kinds /\ oneShot' = (oneShot /\ promise' = "once" /\ attached["P"] = 0)
  /\ attached' = [attached EXCEPT !["P"] = @ + 1]
  /\ UNCHANGED <<buffer_, future_attached_, is_cancelled_, locks, signals, future, pc,
                 destroyed, sets, got, cleared, gaveUp, waitOk>>

\* Set: WriteTryLock; if a reset holds the lock the call fails.
SetLock ==
  /\ At("P", "idle") /\ promise # "none" /\ sets < MaxSets
  /\ ~write_locked /\ write_locked' = TRUE
  /\ Goto("P", "set_check")
  /\ UNCHANGED <<buffer_, flags, read_locked, cancel_locked, get_locked, signals, handles,
                 destroyed, history, waitOk>>

\* Mutant: the future is told of the value before it is in the queue.
SetCheckPosts ==
  /\ At("P", "set_check")
  /\ IF is_cancelled_ THEN write_locked' = FALSE /\ Goto("P", "idle") /\ UNCHANGED has_value_
                      ELSE UNCHANGED write_locked /\ Goto("P", "set_insert") /\ has_value_' = TRUE
  /\ UNCHANGED <<buffer_, flags, read_locked, cancel_locked, get_locked, future_detached_,
                 promise_detached_, handles, destroyed, history, waitOk>>

SetCheck ==
  /\ At("P", "set_check")
  /\ IF is_cancelled_ THEN write_locked' = FALSE /\ Goto("P", "idle")
                      ELSE UNCHANGED write_locked /\ Goto("P", "set_insert")
  /\ UNCHANGED <<buffer_, flags, read_locked, cancel_locked, get_locked, signals, handles,
                 destroyed, history, waitOk>>

\* Mutant: a value that nobody has consumed yet is overwritten.
SetInsertOverwrites ==
  /\ At("P", "set_insert")
  /\ buffer_' = sets + 1 /\ sets' = sets + 1
  /\ Goto("P", "set_post") /\ UNCHANGED write_locked
  /\ UNCHANGED <<flags, read_locked, cancel_locked, get_locked, signals, handles,
                 destroyed, got, cleared, oneShot, gaveUp, waitOk>>

\* PrepareInsert and FinishInsert; a full queue makes Set fail.
SetInsert ==
  /\ At("P", "set_insert")
  /\ IF buffer_ = 0
     THEN /\ buffer_' = sets + 1 /\ sets' = sets + 1
          /\ Goto("P", "set_post") /\ UNCHANGED write_locked
     ELSE write_locked' = FALSE /\ Goto("P", "idle") /\ UNCHANGED <<buffer_, sets>>
  /\ UNCHANGED <<flags, read_locked, cancel_locked, get_locked, signals, handles,
                 destroyed, got, cleared, oneShot, gaveUp, waitOk>>

\* Mutant: the value is inserted and nobody is told.
SetPostForgotten ==
  /\ At("P", "set_post")
  /\ Goto("P", "set_unlock")
  /\ UNCHANGED <<buffer_, flags, locks, signals, handles, destroyed, history, waitOk>>

SetPost ==
  /\ At("P", "set_post")
  /\ has_value_' = TRUE
  /\ Goto("P", "set_unlock")
  /\ UNCHANGED <<buffer_, flags, locks, future_detached_, promise_detached_, handles,
                 destroyed, history, waitOk>>

\* A promise that is not reusable detaches itself.
SetUnlock ==
  /\ At("P", "set_unlock")
  /\ write_locked' = FALSE
  /\ Goto("P", IF promise = "reusable" THEN "idle" ELSE "detach")
  /\ UNCHANGED <<buffer_, flags, read_locked, cancel_locked, get_locked, signals, handles,
                 destroyed, history, waitOk>>

\* DetachPromise, from Set, from the destructor or from a move assignment: the
\* flag first, then the signal.
PromiseDetach ==
  /\ At("P", "detach") \/ (At("P", "idle") /\ promise # "none")
  /\ promise_attached_' = FALSE
  /\ Goto("P", "detach_post")
  /\ UNCHANGED <<buffer_, future_attached_, is_cancelled_, locks, signals, handles,
                 destroyed, history, waitOk>>

PromiseDetachPost ==
  /\ At("P", "detach_post")
  /\ promise_detached_' = TRUE
  /\ promise' = "none"
  /\ Goto("P", "idle")
  /\ UNCHANGED <<buffer_, flags, locks, has_value_, future_detached_, future, attached,
                 destroyed, history, waitOk>>
-----------------------------------------------------------------------------
(* The future's thread *)

GetFuture ==
  /\ At("F", "idle") /\ future = "none" /\ ~OwnerLeaves
  /\ attached["F"] < MaxAttach
  /\ ~get_locked /\ ~future_attached_
  /\ future_attached_' = TRUE
  /\ future' \in Kinds /\ oneShot' = (oneShot /\ future' = "once" /\ attached["F"] = 0)
  /\ attached' = [attached EXCEPT !["F"] = @ + 1]
  /\ waitOk' = FALSE
  /\ UNCHANGED <<buffer_, promise_attached_, is_cancelled_, locks, signals, promise, pc,
                 destroyed, sets, got, cleared, gaveUp>>

GetLock ==
  /\ At("F", "idle") /\ future # "none"
  /\ ~read_locked /\ read_locked' = TRUE
  /\ Goto("F", "get_check")
  /\ waitOk' = FALSE
  /\ UNCHANGED <<buffer_, flags, write_locked, cancel_locked, get_locked, signals, handles,
                 destroyed, history>>

GetCheck ==
  /\ At("F", "get_check")
  /\ IF is_cancelled_ THEN read_locked' = FALSE /\ Goto("F", "idle")
                      ELSE UNCHANGED read_locked /\ Goto("F", "get_take")
  /\ UNCHANGED <<buffer_, flags, write_locked, cancel_locked, get_locked, signals, handles,
                 destroyed, history, waitOk>>

\* MoveFront and DropFront.
GetTake ==
  /\ At("F", "get_take")
  /\ IF buffer_ # 0
     THEN /\ got' = buffer_ /\ buffer_' = 0
          /\ Goto("F", "get_trywait") /\ UNCHANGED read_locked
     ELSE read_locked' = FALSE /\ Goto("F", "idle") /\ UNCHANGED <<buffer_, got>>
  /\ UNCHANGED <<flags, write_locked, cancel_locked, get_locked, signals, handles,
                 destroyed, sets, cleared, oneShot, gaveUp, waitOk>>

GetTryWait ==
  /\ At("F", "get_trywait")
  /\ has_value_' = FALSE
  /\ Goto("F", "get_unlock")
  /\ UNCHANGED <<buffer_, flags, locks, future_detached_, promise_detached_, handles,
                 destroyed, history, waitOk>>

GetUnlock ==
  /\ At("F", "get_unlock")
  /\ read_locked' = FALSE
  /\ Goto("F", IF future = "reusable" THEN "idle" ELSE "detach")
  /\ UNCHANGED <<buffer_, flags, write_locked, cancel_locked, get_locked, signals, handles,
                 destroyed, history, waitOk>>

\* Peek takes no lock: Front, and then KeepFront.
PeekFront ==
  /\ At("F", "idle") /\ future # "none"
  /\ ~is_cancelled_ /\ buffer_ # 0
  /\ Goto("F", "peek_keep")
  /\ UNCHANGED <<buffer_, flags, locks, signals, handles, destroyed, history, waitOk>>

PeekKeep ==
  /\ At("F", "peek_keep")
  /\ Goto("F", "idle")
  /\ UNCHANGED <<buffer_, flags, locks, signals, handles, destroyed, history, waitOk>>

\* WaitUntil: HasValue (the cancelled flag, then the queue), the futex, and the
\* cancelled flag again.
WaitUntil ==
  /\ At("F", "idle") /\ future # "none" /\ ~is_cancelled_
  /\ Goto("F", "wait_empty")
  /\ waitOk' = FALSE
  /\ UNCHANGED <<buffer_, flags, locks, signals, handles, destroyed, history>>

WaitEmpty ==
  /\ At("F", "wait_empty")
  /\ Goto("F", IF buffer_ # 0 THEN "idle" ELSE "waiting")
  /\ waitOk' = (buffer_ # 0)
  /\ UNCHANGED <<buffer_, flags, locks, signals, handles, destroyed, history>>

WaitPosted ==
  /\ At("F", "waiting")
  /\ has_value_ /\ has_value_' = FALSE
  /\ Goto("F", "wait_cancelled")
  /\ UNCHANGED <<buffer_, flags, locks, future_detached_, promise_detached_, handles,
                 destroyed, history, waitOk>>

WaitTimeout ==
  /\ At("F", "waiting") /\ ~has_value_
  /\ Goto("F", "idle")
  /\ UNCHANGED <<buffer_, flags, locks, signals, handles, destroyed, history, waitOk>>

WaitReturn ==
  /\ At("F", "wait_cancelled")
  /\ Goto("F", "idle")
  /\ waitOk' = ~is_cancelled_
  /\ UNCHANGED <<buffer_, flags, locks, signals, handles, destroyed, history>>

FutureDetach ==
  /\ At("F", "detach") \/ (At("F", "idle") /\ future # "none")
  /\ future_attached_' = FALSE
  /\ waitOk' = FALSE
  /\ Goto("F", "detach_post")
  /\ UNCHANGED <<buffer_, promise_attached_, is_cancelled_, locks, signals, handles,
                 destroyed, history>>

FutureDetachPost ==
  /\ At("F", "detach_post")
  /\ future_detached_' = TRUE
  /\ future' = "none"
  /\ Goto("F", "idle")
  /\ UNCHANGED <<buffer_, flags, locks, has_value_, promise_detached_, promise, attached,
                 destroyed, history, waitOk>>
-----------------------------------------------------------------------------
(* Cancel, from the promise, the future or the context itself *)

MayCancel(t) == CASE t = "P" -> promise # "none"
                  [] t = "F" -> future # "none"
                  [] t = "O" -> TRUE

\* TryLock; if a reset or another Cancel holds the lock the call fails.
CancelLock(t) ==
  /\ At(t, "idle") /\ MayCancel(t)
  /\ ~cancel_locked /\ cancel_locked' = TRUE
  /\ Goto(t, "cancel_store")
  /\ UNCHANGED <<buffer_, flags, read_locked, write_locked, get_locked, signals, handles,
                 destroyed, history, waitOk>>

CancelStore(t) ==
  /\ At(t, "cancel_store")
  /\ is_cancelled_' = TRUE
  /\ cancel_locked' = FALSE
  /\ Goto(t, "cancel_post")
  /\ UNCHANGED <<buffer_, promise_attached_, future_attached_, read_locked, write_locked,
                 get_locked, signals, handles, destroyed, history, waitOk>>

CancelPost(t) ==
  /\ At(t, "cancel_post")
  /\ has_value_' = TRUE
  /\ Goto(t, "idle")
  /\ UNCHANGED <<buffer_, flags, locks, future_detached_, promise_detached_, handles,
                 destroyed, history, waitOk>>

Cancel(t) == CancelLock(t) \/ CancelStore(t) \/ CancelPost(t)
-----------------------------------------------------------------------------
(* The owner's thread *)

\* Reset: the three locks that keep handles and Cancel away.
ResetLock ==
  /\ Resets /\ At("O", "idle")
  /\ ~cancel_locked
  /\ get_locked' = TRUE /\ cancel_locked' = TRUE
  /\ Goto("O", "reset_future")
  /\ oneShot' = FALSE
  /\ UNCHANGED <<buffer_, flags, read_locked, write_locked, signals, handles,
                 destroyed, sets, got, cleared, gaveUp, waitOk>>

\* Waits for the handle only if the flag says there is one.
ResetFuture ==
  /\ At("O", "reset_future")
  /\ \/ ~future_attached_ /\ UNCHANGED future_detached_
     \/ future_attached_ /\ future_detached_ /\ future_detached_' = FALSE
  /\ Goto("O", "reset_promise")
  /\ UNCHANGED <<buffer_, flags, locks, has_value_, promise_detached_, handles,
                 destroyed, history, waitOk>>

ResetPromise ==
  /\ At("O", "reset_promise")
  /\ \/ ~promise_attached_ /\ UNCHANGED promise_detached_
     \/ promise_attached_ /\ promise_detached_ /\ promise_detached_' = FALSE
  /\ Goto("O", "reset_buffer")
  /\ UNCHANGED <<buffer_, flags, locks, has_value_, future_detached_, handles,
                 destroyed, history, waitOk>>

\* A wait for a handle times out: the locks are released.
ResetTimeout ==
  /\ \/ At("O", "reset_future") /\ future_attached_ /\ ~future_detached_
     \/ At("O", "reset_promise") /\ promise_attached_ /\ ~promise_detached_
  /\ get_locked' = FALSE /\ cancel_locked' = FALSE
  /\ Goto("O", "idle")
  /\ UNCHANGED <<buffer_, flags, read_locked, write_locked, signals, handles,
                 destroyed, history, waitOk>>

ResetBufferLock ==
  /\ At("O", "reset_buffer")
  /\ ~read_locked /\ ~write_locked
  /\ read_locked' = TRUE /\ write_locked' = TRUE
  /\ Goto("O", "reset_clear")
  /\ UNCHANGED <<buffer_, flags, cancel_locked, get_locked, signals, handles,
                 destroyed, history, waitOk>>

ResetClear ==
  /\ At("O", "reset_clear")
  /\ buffer_' = 0
  /\ cleared' = IF buffer_ # 0 THEN buffer_ ELSE cleared
  /\ Goto("O", "reset_store")
  /\ UNCHANGED <<flags, locks, signals, handles, destroyed, sets, got, oneShot, gaveUp,
                 waitOk>>

\* The cancelled flag, and the destructors of the lock guards.
ResetStore ==
  /\ At("O", "reset_store")
  /\ is_cancelled_' = FALSE
  /\ read_locked' = FALSE /\ write_locked' = FALSE
  /\ get_locked' = FALSE /\ cancel_locked' = FALSE
  /\ Goto("O", "idle")
  /\ UNCHANGED <<buffer_, promise_attached_, future_attached_, signals, handles,
                 destroyed, history, waitOk>>

\* The destructor: the cancelled flag, and a wait for each attached handle.
Destroy ==
  /\ At("O", "idle")
  /\ is_cancelled_' = TRUE
  /\ Goto("O", "dtor_future")
  /\ UNCHANGED <<buffer_, promise_attached_, future_attached_, locks, signals, handles,
                 destroyed, history, waitOk>>

\* Mutant: the attached future is not waited for.
DtorFutureSkipped ==
  /\ At("O", "dtor_future")
  /\ Goto("O", "dtor_promise")
  /\ UNCHANGED <<buffer_, flags, locks, signals, handles, destroyed, history, waitOk>>

DtorFuture ==
  /\ At("O", "dtor_future")
  /\ \/ ~future_attached_ /\ UNCHANGED future_detached_
     \/ future_attached_ /\ future_detached_ /\ future_detached_' = FALSE
  /\ Goto("O", "dtor_promise")
  /\ UNCHANGED <<buffer_, flags, locks, has_value_, promise_detached_, handles,
                 destroyed, history, waitOk>>

DtorPromise ==
  /\ At("O", "dtor_promise")
  /\ \/ ~promise_attached_ /\ UNCHANGED promise_detached_
     \/ promise_attached_ /\ promise_detached_ /\ promise_detached_' = FALSE
  /\ destroyed' = TRUE
  /\ Goto("O", "idle")
  /\ UNCHANGED <<buffer_, flags, locks, has_value_, future_detached_, handles,
                 history, waitOk>>

\* detach_timeout_ passes: an error is logged and the destructor goes on, the
\* context is destroyed under the attached handle.
DtorFutureTimeout ==
  /\ At("O", "dtor_future")
  /\ future_attached_ /\ ~future_detached_
  /\ gaveUp' = gaveUp \cup {"F"}
  /\ Goto("O", "dtor_promise")
  /\ UNCHANGED <<buffer_, flags, locks, signals, handles, destroyed, sets, got, cleared,
                 oneShot, waitOk>>

DtorPromiseTimeout ==
  /\ At("O", "dtor_promise")
  /\ promise_attached_ /\ ~promise_detached_
  /\ gaveUp' = gaveUp \cup {"P"}
  /\ destroyed' = TRUE
  /\ Goto("O", "idle")
  /\ UNCHANGED <<buffer_, flags, locks, signals, handles, sets, got, cleared, oneShot, waitOk>>
-----------------------------------------------------------------------------
Set    == SetLock \/ SetCheck \/ SetInsert \/ SetPost \/ SetUnlock
Get    == GetLock \/ GetCheck \/ GetTake \/ GetTryWait \/ GetUnlock
Peek   == PeekFront \/ PeekKeep
WaitStep   == WaitUntil \/ WaitEmpty \/ WaitPosted \/ WaitTimeout \/ WaitReturn
Reset  == \/ ResetLock \/ ResetFuture \/ ResetPromise \/ ResetTimeout
          \/ ResetBufferLock \/ ResetClear \/ ResetStore
Dtor   == \/ Destroy \/ DtorFuture \/ DtorPromise
          \/ DtorFutureTimeout \/ DtorPromiseTimeout

\* The context is gone; what its users do then is not modelled.
Gone == destroyed /\ UNCHANGED promiseVars

PromiseNext == \/ GetPromise \/ Set \/ PromiseDetach \/ PromiseDetachPost
               \/ GetFuture \/ Get \/ Peek \/ WaitStep \/ FutureDetach \/ FutureDetachPost
               \/ \E t \in Threads : Cancel(t)
               \/ Reset \/ Dtor \/ Gone

PromiseSpec == PromiseInit /\ [][PromiseNext]_promiseVars

\* Steps of calls that are under way.  No timeout need ever happen.
PromiseRuns == \/ SetCheck \/ SetInsert \/ SetPost \/ SetUnlock
               \/ (pc["P"] = "detach" /\ PromiseDetach) \/ PromiseDetachPost
               \/ CancelStore("P") \/ CancelPost("P")
FutureRuns  == \/ GetCheck \/ GetTake \/ GetTryWait \/ GetUnlock \/ PeekKeep
               \/ WaitEmpty \/ WaitPosted \/ WaitReturn
               \/ (pc["F"] = "detach" /\ FutureDetach) \/ FutureDetachPost
               \/ CancelStore("F") \/ CancelPost("F")
OwnerRuns   == \/ ResetFuture \/ ResetPromise \/ ResetBufferLock \/ ResetClear \/ ResetStore
               \/ DtorFuture \/ DtorPromise \/ CancelStore("O") \/ CancelPost("O")

PromiseFairSpec ==
  /\ PromiseSpec
  /\ WF_promiseVars(PromiseRuns) /\ WF_promiseVars(FutureRuns) /\ WF_promiseVars(OwnerRuns)
-----------------------------------------------------------------------------
(* Properties *)

InSet == {"set_check", "set_insert", "set_post", "set_unlock"}
InGet == {"get_check", "get_take", "get_trywait", "get_unlock"}
InCancel == {"cancel_store", "cancel_post"}
InReset == {"reset_future", "reset_promise", "reset_buffer", "reset_clear", "reset_store"}

PromiseTypeOK ==
  /\ buffer_ \in 0..MaxSets
  /\ {promise_attached_, future_attached_, is_cancelled_, read_locked, write_locked,
      cancel_locked, get_locked, has_value_, future_detached_, promise_detached_,
      destroyed, waitOk, oneShot} \subseteq BOOLEAN
  /\ promise \in Kinds \cup {"none"} /\ future \in Kinds \cup {"none"}
  /\ pc["P"] \in {"idle", "detach", "detach_post"} \cup InSet \cup InCancel
  /\ pc["F"] \in {"idle", "detach", "detach_post", "peek_keep", "wait_empty", "waiting",
                  "wait_cancelled"} \cup InGet \cup InCancel
  /\ pc["O"] \in {"idle", "dtor_future", "dtor_promise"} \cup InReset \cup InCancel
  /\ {sets, got, cleared} \subseteq 0..MaxSets /\ gaveUp \subseteq {"P", "F"}

Later(a, b) == IF a > b THEN a ELSE b

\* Every value whose Set succeeded is obtained by a Get, cleared by a Reset or
\* still in the queue, never two of these and never out of order, although Set
\* and Get take different locks.
NothingLost ==
  /\ PromiseTypeOK
  /\ IF buffer_ = 0 THEN Later(got, cleared) = sets
                    ELSE buffer_ = sets /\ Later(got, cleared) = sets - 1

\* The destructor "ensures that the FuturePromiseContext outlives any active
\* handles" (rt_promise.h:132-135): once it has finished, a handle is attached
\* only if the wait for it timed out.  A handle that is obtained more than once
\* breaks this: the detach signals are sticky, and the signal of the earlier one
\* ends the wait for the present one.
OutlivesHandles ==
  destroyed =>
    /\ attached["F"] <= 1 /\ "F" \notin gaveUp => ~future_attached_
    /\ attached["P"] <= 1 /\ "P" \notin gaveUp => ~promise_attached_

\* "If successful, any call to *Get* or *Peek* will immediately return the value",
\* unless somebody cancels in between.
WaitOkMeansValue == waitOk /\ ~is_cancelled_ => buffer_ # 0

\* So it is for a context that is used once, as HardwareModuleRuntime uses it:
\* no post of an earlier value, Cancel or handle can be taken for the signal of
\* a value that is not there.
OneShotWaitOkMeansValue == oneShot => WaitOkMeansValue

\* A future waiting without a deadline is released by a value and by a Cancel,
\* whatever the other threads do between its two looks at the context.
WaiterReleased ==
  (pc["F"] = "waiting" /\ (buffer_ # 0 \/ \E t \in Threads : pc[t] = "cancel_post"))
    ~> (pc["F"] # "waiting" \/ destroyed)
-----------------------------------------------------------------------------
(* What the header says and TLC refutes, like WaitOkMeansValue without the      *)
(* premise oneShot: kept here, outside of the runs, for whoever changes the    *)
(* code.  The README tells the story of each.                                 *)

\* Reset empties the queue when "there are no more attached handles".
ResetAlone ==
  pc["O"] \in {"reset_clear", "reset_store"} => ~promise_attached_ /\ ~future_attached_

\* No thread is inside a call on the context once it is destroyed.
NoCallInDestroyed == destroyed => pc["P"] = "idle" /\ pc["F"] = "idle"

\* "Signal cancellation to the promise and future": the destructor releases a
\* waiting future, as Cancel does.
DtorReleasesWaiter == (OwnerLeaves /\ pc["F"] = "waiting") ~> pc["F"] # "waiting"
=============================================================================
