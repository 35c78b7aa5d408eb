---------------------------- MODULE BinaryFutex ----------------------------
(***************************************************************************)
(* intrinsic/icon/interprocess/binary_futex.cc: a closable binary semaphore  *)
(* on one futex word.  Post and Close change the word with an atomic         *)
(* operation and only then ask the kernel to wake sleepers; Wait tries the    *)
(* word and only then asks the kernel to put it to sleep.  The threads may    *)
(* be those of several processes, the word lives in shared memory.            *)
(***************************************************************************)
CONSTANT Users

VARIABLES val_,   \* the futex word
          upc     \* where each thread is in its call

futexVars == <<val_, upc>>

\* "try": about to try the word in Wait's loop; "futex": about to enter the
\* FUTEX_WAIT system call; "sleep": in the kernel's wait queue of the word;
\* "wakeOne", "wakeAll": about to enter FUTEX_WAKE.
PC == {"idle", "try", "futex", "sleep", "wakeOne", "wakeAll"}
Values == {"kReady", "kPosted", "kClosed"}

FutexInit == /\ val_ \in {"kReady", "kPosted"}    \* the constructor's `posted`
             /\ upc = [t \in Users |-> "idle"]

To(t, l) == upc' = [upc EXCEPT ![t] = l]
Return(t)  == To(t, "idle")
-----------------------------------------------------------------------------
Post(t) ==
  /\ upc[t] = "idle"
  /\ \/ val_ = "kReady"  /\ val_' = "kPosted" /\ To(t, "wakeOne")
     \/ val_ = "kPosted" /\ UNCHANGED val_ /\ Return(t)
     \/ val_ = "kClosed" /\ UNCHANGED val_ /\ Return(t)    \* kAborted

\* FUTEX_WAKE with count 1: some sleeper leaves the wait queue, if there is one.
WakeOne(t) ==
  /\ upc[t] = "wakeOne"
  /\ \/ \E s \in Users :
          /\ upc[s] = "sleep"
          /\ upc' = [upc EXCEPT ![t] = "idle", ![s] = "try"]
     \/ /\ \A s \in Users : upc[s] # "sleep"
        /\ upc' = [upc EXCEPT ![t] = "idle"]
  /\ UNCHANGED val_

\* Mutant: as in Post, at most one sleeper is woken.
CloseWakesOne(t) ==
  /\ upc[t] = "idle"
  /\ val_' = "kClosed"
  /\ IF val_ # "kClosed" THEN To(t, "wakeOne") ELSE Return(t)

Close(t) ==
  /\ upc[t] = "idle"
  /\ val_' = "kClosed"
  /\ IF val_ # "kClosed" THEN To(t, "wakeAll") ELSE Return(t)

\* FUTEX_WAKE with count INT_MAX.
WakeAll(t) ==
  /\ upc[t] = "wakeAll"
  /\ upc' = [s \in Users |-> CASE s = t -> "idle"
                                [] upc[s] = "sleep" -> "try"
                                [] OTHER -> upc[s]]
  /\ UNCHANGED val_

TryWait(t) ==
  /\ upc[t] = "idle"
  /\ val_' = IF val_ = "kPosted" THEN "kReady" ELSE val_
  /\ Return(t)

\* WaitUntil and WaitFor: the loop of Wait.
Wait(t) == upc[t] = "idle" /\ To(t, "try") /\ UNCHANGED val_

WaitTry(t) ==
  /\ upc[t] = "try"
  /\ \/ val_ = "kReady"  /\ UNCHANGED val_ /\ To(t, "futex")
     \/ val_ = "kPosted" /\ val_' = "kReady" /\ Return(t)
     \/ val_ = "kClosed" /\ UNCHANGED val_ /\ Return(t)    \* kAborted

\* Mutant: the kernel is not told which value the word is expected to have.
FutexWaitUnchecked(t) ==
  /\ upc[t] = "futex"
  /\ To(t, "sleep") /\ UNCHANGED val_

\* FUTEX_WAIT compares the word and enqueues the caller atomically; another
\* value makes it return EAGAIN.
FutexWait(t) ==
  /\ upc[t] = "futex"
  /\ To(t, IF val_ = "kReady" THEN "sleep" ELSE "try")
  /\ UNCHANGED val_

\* ETIMEDOUT; a sleeper that FUTEX_WAKE has taken out of the queue does not
\* time out.
Timeout(t) == upc[t] = "sleep" /\ Return(t) /\ UNCHANGED val_

\* EINTR: the loop goes round.
Interrupt(t) == upc[t] = "sleep" /\ To(t, "try") /\ UNCHANGED val_
-----------------------------------------------------------------------------
InCall(t) == WakeOne(t) \/ WakeAll(t) \/ WaitTry(t) \/ FutexWait(t)

FutexNext == \E t \in Users :
  \/ Post(t) \/ Close(t) \/ TryWait(t) \/ Wait(t)
  \/ InCall(t) \/ Timeout(t) \/ Interrupt(t)

FutexSpec == FutexInit /\ [][FutexNext]_futexVars

\* A thread that is not asleep finishes its call; nothing makes it call, no
\* deadline need ever expire, and no signal need come.
FutexFairSpec == FutexSpec /\ \A t \in Users : WF_futexVars(InCall(t))
-----------------------------------------------------------------------------
FutexTypeOK == /\ val_ \in Values
               /\ upc \in [Users -> PC]

Asleep == {t \in Users : upc[t] = "sleep"}

\* Somebody will see to the threads that sleep on a word that is not kReady.
WakeupPending ==
  Asleep # {} =>
    /\ val_ = "kPosted" => \E t \in Users : upc[t] \in {"wakeOne", "try", "futex"}
    /\ val_ = "kClosed" => \E t \in Users : upc[t] = "wakeAll"

\* No wake-up is lost between the change of the word and the system calls.  If
\* the word is posted while threads sleep, somebody is still going to wake one
\* or to take the post; if it is closed, the thread that closed it is still
\* going to wake them all.
NoLostWakeup == FutexTypeOK /\ WakeupPending

\* "This state is final": a closed futex stays closed, so that a late Post of
\* a peer does not let a thread pass that Close has turned away.
ClosedIsFinal == [][val_ = "kClosed" => val_' = "kClosed"]_futexVars

\* Close releases every waiter, also those on their way to sleep.
CloseReleases == \A t \in Users :
  (val_ = "kClosed" /\ upc[t] \in {"try", "futex", "sleep"}) ~> upc[t] = "idle"
=============================================================================
