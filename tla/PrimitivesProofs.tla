-------------------------- MODULE PrimitivesProofs --------------------------
(*****************************************************************************)
(* The primitives through which real-time threads share data: AsyncBuffer,   *)
(* BinaryFutex and FuturePromise, one after the other.  No lemma of one is   *)
(* used for another.                                                         *)
(*****************************************************************************)
EXTENDS AsyncBuffer, BinaryFutex, FuturePromise, TLAPS
-----------------------------------------------------------------------------
(*****************************************************************************)
(* AsyncBuffer for every number of commits: type correctness, the ownership  *)
(* of the buffers, the bound on the producer's retries, the stability of     *)
(* the consumer's buffer, and the step simulation of LatestValue.            *)
(*****************************************************************************)

\* A producer that is writing or committing has checked the free buffer out,
\* and has a commit left to do.
CheckedOut == /\ ppc # "idle" => checked_out
              /\ ppc # "idle" => committed < MaxCommits

\* What can have happened to state_ since the producer loaded it: nothing, or
\* the one fetch that emptied the mailbox, and that one only before a retry.
LoadedState ==
  ppc = "cas" =>
    \/ pCurrent = state_ /\ pRetries = 0
    \/ pCurrent = state_ /\ pRetries = 1 /\ ~state_.mailbox_full
    \/ pCurrent.mailbox_full /\ state_ = FetchedState(pCurrent) /\ pRetries = 0

\* Where the values are: the last one is in the mailbox if that is full, else
\* in the active buffer; only the buffer being written is torn; what is about
\* to be committed has been written.
Contents ==
  /\ buffers_[IF state_.mailbox_full THEN state_.mailbox_index
                                     ELSE state_.active_index] = committed
  /\ \A b \in Buffers : buffers_[b] = Torn => ppc = "write" /\ b = freePtr
  /\ ppc = "cas" => buffers_[freePtr] = committed + 1
  /\ activePtr = None => buffers_[state_.active_index] = 0

\* The inductive invariant.
BufferIInv == /\ TypeOK
              /\ IndicesApart
              /\ CommitRetriesOnce
              /\ CheckedOut
              /\ LoadedState
              /\ Contents

\* A commit exchanges free and mailbox buffer, a fetch mailbox and active
\* buffer: both keep the word well-typed and consistent.
LEMMA SwapsKeepConsistency ==
  ASSUME NEW s \in StateType, IsConsistent(s)
  PROVE  /\ CommittedState(s) \in StateType
         /\ IsConsistent(CommittedState(s))
         /\ FetchedState(s) \in StateType
         /\ IsConsistent(FetchedState(s))
         /\ FetchedState(s).free_index = s.free_index
         /\ ~FetchedState(s).mailbox_full
         /\ ~s.mailbox_full => FetchedState(s) = s
         /\ CommittedState(s).active_index = s.active_index
BY DEF StateType, IsConsistent, CommittedState, FetchedState

\* An empty buffer satisfies the invariant.
LEMMA BufferInitIInv == Init => BufferIInv
<1> SUFFICES ASSUME Init PROVE BufferIInv
  OBVIOUS
<1>1. InitialState \in StateType /\ IsConsistent(InitialState)
  BY DEF InitialState, StateType, IsConsistent, Buffers
<1>2. TypeOK
  <2>1. /\ buffers_ \in [Buffers -> 0..Torn]
        /\ committed \in 0..MaxCommits
        /\ pRetries \in Nat
    BY MaxCommitsAssumption DEF Init, Torn
  <2> QED
    BY <1>1, <2>1 DEF Init, TypeOK
<1>3. Contents
  BY MaxCommitsAssumption DEF Init, Contents, InitialState, Torn, Buffers
<1> QED
  BY <1>1, <1>2, <1>3
     DEF Init, BufferIInv, IndicesApart, CommitRetriesOnce, CheckedOut, LoadedState

\* One step per action of the producer and of the consumer.
LEMMA BufferNextIInv == BufferIInv /\ [Next]_vars => BufferIInv'
<1> SUFFICES ASSUME BufferIInv, [Next]_vars PROVE BufferIInv'
  OBVIOUS
<1> USE MaxCommitsAssumption
<1>1. CASE GetFreeBuffer
  BY <1>1 DEF GetFreeBuffer, consumerVars, BufferIInv, TypeOK, IndicesApart, IsConsistent,
       CommitRetriesOnce, CheckedOut, LoadedState, Contents, StateType
<1>2. CASE BeginWrite
  <2>1. freePtr = state_.free_index /\ freePtr \in Buffers
    BY <1>2 DEF BeginWrite, BufferIInv, TypeOK, IndicesApart, StateType
  <2>2. TypeOK'
    BY <1>2, <2>1 DEF BeginWrite, consumerVars, BufferIInv, TypeOK, Torn
  <2>3. Contents'
    BY <1>2, <2>1 DEF BeginWrite, consumerVars, BufferIInv, TypeOK, IndicesApart, IsConsistent,
         Contents, StateType, Torn, Buffers
  <2> QED
    BY <1>2, <2>2, <2>3 DEF BeginWrite, consumerVars, BufferIInv, TypeOK, IndicesApart,
         IsConsistent,
         CommitRetriesOnce, CheckedOut, LoadedState
<1>3. CASE EndWrite
  <2>1. freePtr = state_.free_index /\ freePtr \in Buffers /\ committed < MaxCommits
    BY <1>3 DEF EndWrite, BufferIInv, TypeOK, IndicesApart, CheckedOut, StateType
  <2>2. TypeOK'
    BY <1>3, <2>1 DEF EndWrite, consumerVars, BufferIInv, TypeOK, Torn
  <2>3. Contents'
    BY <1>3, <2>1 DEF EndWrite, consumerVars, BufferIInv, TypeOK, IndicesApart, IsConsistent,
         Contents, StateType, Torn, Buffers
  <2> QED
    BY <1>3, <2>2, <2>3 DEF EndWrite, consumerVars, BufferIInv, TypeOK, IndicesApart,
         IsConsistent,
         CommitRetriesOnce, CheckedOut, LoadedState
<1>4. CASE CommitLoad
  <2>1. committed < MaxCommits
    BY <1>4 DEF CommitLoad, BufferIInv, TypeOK, IndicesApart, StateType, Contents, Torn
  <2> QED
    BY <1>4, <2>1 DEF CommitLoad, consumerVars, BufferIInv, TypeOK, IndicesApart, IsConsistent,
         CommitRetriesOnce, CheckedOut, LoadedState, Contents
<1>5. CASE CommitCas
  <2>1. /\ state_ \in StateType /\ IsConsistent(state_) /\ checked_out
        /\ freePtr = state_.free_index /\ committed < MaxCommits
        /\ state_' = CommittedState(state_)
    BY <1>5 DEF CommitCas, BufferIInv, TypeOK, IndicesApart, CheckedOut
  <2>2. /\ state_' \in StateType /\ IsConsistent(state_')
        /\ state_'.active_index = state_.active_index
    BY <2>1, SwapsKeepConsistency
  <2>3. /\ state_'.mailbox_full
        /\ state_'.mailbox_index = freePtr
    BY <2>1 DEF CommittedState
  <2>4. TypeOK'
    <3>1. committed' \in 0..MaxCommits
      BY <1>5, <2>1 DEF CommitCas, BufferIInv, TypeOK
    <3> QED
      BY <1>5, <2>2, <3>1 DEF CommitCas, consumerVars, BufferIInv, TypeOK
  <2>5. IndicesApart'
    BY <1>5, <2>2 DEF CommitCas, consumerVars, BufferIInv, IndicesApart, IsConsistent
  <2>6. Contents'
    BY <1>5, <2>1, <2>2, <2>3 DEF CommitCas, consumerVars, BufferIInv, Contents
  <2> QED
    BY <1>5, <2>4, <2>5, <2>6 DEF CommitCas, BufferIInv, CommitRetriesOnce, CheckedOut,
         LoadedState
<1>6. CASE CommitRetry
  <2>1. /\ pRetries = 0 /\ state_ = FetchedState(pCurrent)
        /\ pCurrent \in StateType /\ pCurrent.mailbox_full
    BY <1>6 DEF CommitRetry, BufferIInv, LoadedState, TypeOK
  <2>2. ~state_.mailbox_full
    BY <2>1 DEF FetchedState
  <2> QED
    BY <1>6, <2>1, <2>2 DEF CommitRetry, consumerVars, BufferIInv, TypeOK, IndicesApart,
         IsConsistent,
         CommitRetriesOnce, CheckedOut, LoadedState, Contents
<1>7. CASE FetchLoad
  BY <1>7 DEF FetchLoad, producerVars, BufferIInv, TypeOK, IndicesApart, IsConsistent,
       CommitRetriesOnce, CheckedOut, LoadedState, Contents
<1>8. CASE FetchCas
  <2>1. /\ state_ \in StateType /\ IsConsistent(state_)
        /\ state_' = FetchedState(state_) /\ activePtr' = FetchedState(state_).active_index
        /\ gotFull' = state_.mailbox_full
    BY <1>8 DEF FetchCas, BufferIInv, TypeOK, IndicesApart
  <2>2. /\ state_' \in StateType /\ IsConsistent(state_')
        /\ state_'.free_index = state_.free_index
        /\ ~state_'.mailbox_full
        /\ ~state_.mailbox_full => state_' = state_
    BY <2>1, SwapsKeepConsistency
  <2>3. activePtr' \in Buffers /\ gotFull' \in BOOLEAN
    BY <2>1, <2>2 DEF StateType
  <2>4. TypeOK'
    BY <1>8, <2>2, <2>3 DEF FetchCas, producerVars, BufferIInv, TypeOK
  <2>5. IndicesApart'
    BY <1>8, <2>1, <2>2 DEF FetchCas, producerVars, BufferIInv, IndicesApart
  <2>6. LoadedState'
    <3> SUFFICES ASSUME ppc' = "cas" PROVE LoadedState'
      BY DEF LoadedState
    <3>1. CASE state_.mailbox_full
      <4>1. ppc = "cas" /\ pCurrent' = pCurrent /\ pRetries' = pRetries
        BY <1>8 DEF FetchCas, producerVars
      <4>2. pCurrent.mailbox_full => ~FetchedState(pCurrent).mailbox_full
        BY DEF FetchedState
      <4>3. pCurrent = state_ /\ pRetries = 0
        BY <3>1, <4>1, <4>2 DEF BufferIInv, LoadedState
      <4> QED
        BY <2>1, <3>1, <4>1, <4>3 DEF LoadedState
    <3>2. CASE ~state_.mailbox_full
      BY <1>8, <2>2, <3>2 DEF FetchCas, producerVars, BufferIInv, LoadedState
    <3> QED
      BY <3>1, <3>2
  <2>7. Contents'
    <3>1. activePtr' # None
      BY <2>3 DEF Buffers, None
    <3>2. state_'.active_index = IF state_.mailbox_full THEN state_.mailbox_index
                                                       ELSE state_.active_index
      BY <2>1 DEF FetchedState
    <3> QED
      BY <1>8, <2>2, <3>1, <3>2 DEF FetchCas, producerVars, BufferIInv, Contents
  <2> QED
    BY <1>8, <2>4, <2>5, <2>6, <2>7 DEF FetchCas, producerVars, BufferIInv, CommitRetriesOnce,
         CheckedOut
<1>9. CASE FetchRetry
  BY <1>9 DEF FetchRetry, producerVars, BufferIInv, TypeOK, IndicesApart, IsConsistent,
       CommitRetriesOnce, CheckedOut, LoadedState, Contents
<1>10. CASE UNCHANGED vars
  BY <1>10 DEF vars, producerVars, consumerVars, BufferIInv, TypeOK, IndicesApart, IsConsistent,
       CommitRetriesOnce, CheckedOut, LoadedState, Contents
<1> QED
  BY <1>1, <1>2, <1>3, <1>4, <1>5, <1>6, <1>7, <1>8, <1>9, <1>10
     DEF Next, Producer, Consumer

\* The invariant holds in every state of every behaviour.
THEOREM BufferInvariantHolds == Spec => []BufferIInv
  BY BufferInitIInv, BufferNextIInv, PTL DEF Spec

\* All variables keep their types: no index leaves 0..2.
THEOREM BufferTypeCorrect == Spec => []TypeOK
<1>1. BufferIInv => TypeOK
  BY DEF BufferIInv
<1> QED
  BY <1>1, BufferInvariantHolds, PTL

\* Producer and consumer never own the same buffer.
THEOREM Ownership == Spec => []OwnedApart
<1>1. BufferIInv => OwnedApart
  BY DEF BufferIInv, OwnedApart
<1> QED
  BY <1>1, BufferInvariantHolds, PTL

\* A commit loses the race for state_ at most once.
THEOREM CommitIsWaitFree == Spec => []CommitRetriesOnce
<1>1. BufferIInv => CommitRetriesOnce
  BY DEF BufferIInv
<1> QED
  BY <1>1, BufferInvariantHolds, PTL

\* The buffer the consumer holds is not written until it fetches again.
THEOREM ActiveStable == Spec => ActiveNotModified
<1>1. BufferIInv /\ [Next]_vars =>
        [activePtr # None => buffers_'[activePtr] = buffers_[activePtr]]_vars
  <2> SUFFICES ASSUME BufferIInv, Next, activePtr # None
               PROVE  buffers_'[activePtr] = buffers_[activePtr]
    BY DEF BufferIInv
  <2>1. activePtr = state_.active_index /\ buffers_ \in [Buffers -> 0..Torn]
    BY DEF BufferIInv, IndicesApart, TypeOK
  <2>2. CASE BeginWrite \/ EndWrite
    <3>1. freePtr # activePtr /\ activePtr \in Buffers
      BY <2>1, <2>2 DEF BeginWrite, EndWrite, BufferIInv, TypeOK, IndicesApart, CheckedOut,
           IsConsistent, StateType
    <3> QED
      BY <2>1, <2>2, <3>1 DEF BeginWrite, EndWrite
  <2>3. CASE ~(BeginWrite \/ EndWrite)
    BY <2>3 DEF Next, Producer, Consumer, GetFreeBuffer, CommitLoad, CommitCas, CommitRetry,
         FetchLoad, FetchCas, FetchRetry
  <2> QED
    BY <2>2, <2>3
<1> QED
  BY <1>1, BufferInvariantHolds, PTL DEF Spec, ActiveNotModified

\* The compare-exchange loops implement the cell of LatestValue: what a fetch
\* returns is what the last commit published, and its Boolean says whether it
\* is new.
THEOREM BufferRefinement == Spec => ImplementsLatestValue
<1>1. Init => LV!Init
  BY DEF Init, LV!Init, InitialState
<1>2. BufferIInv /\ BufferIInv' /\ [Next]_vars => [LV!Next]_LV!lvVars
  <2> SUFFICES ASSUME BufferIInv, BufferIInv', [Next]_vars PROVE [LV!Next]_LV!lvVars
    OBVIOUS
  <2> DEFINE fetched == IF activePtr = None THEN 0 ELSE buffers_[activePtr]
  <2>1. CASE CommitCas
    <3>1. state_'.mailbox_full /\ committed' = committed + 1 /\ committed < MaxCommits
      BY <2>1 DEF CommitCas, CommittedState, BufferIInv, CheckedOut
    <3> QED
      BY <2>1, <3>1 DEF CommitCas, consumerVars, LV!Next, LV!Commit
  <2>2. CASE FetchCas
    <3>1. state_' = FetchedState(state_) /\ gotFull' = state_.mailbox_full /\ committed' = committed
      BY <2>2 DEF FetchCas
    <3>2. state_'.mailbox_full = FALSE
      BY <3>1, SwapsKeepConsistency DEF BufferIInv, TypeOK, IndicesApart, StateType
    <3>3. fetched' = committed
      <4>1. activePtr' = state_'.active_index /\ activePtr' # None
        BY <2>2, <3>1 DEF FetchCas, BufferIInv, TypeOK, StateType, Buffers, None
      <4> QED
        BY <3>1, <3>2, <4>1 DEF BufferIInv, Contents
    <3> QED
      BY <3>1, <3>2, <3>3 DEF LV!Next, LV!Fetch
  <2>3. CASE BeginWrite \/ EndWrite
    <3>1. activePtr # None => buffers_'[activePtr] = buffers_[activePtr]
      <4> SUFFICES ASSUME activePtr # None PROVE buffers_'[activePtr] = buffers_[activePtr]
        OBVIOUS
      <4>1. freePtr # activePtr /\ activePtr \in Buffers
        BY <2>3 DEF BeginWrite, EndWrite, BufferIInv, TypeOK, IndicesApart, CheckedOut,
             IsConsistent, StateType
      <4> QED
        BY <2>3, <4>1 DEF BeginWrite, EndWrite, BufferIInv, TypeOK
    <3> QED
      BY <2>3, <3>1 DEF BeginWrite, EndWrite, consumerVars, LV!lvVars
  <2>4. CASE GetFreeBuffer \/ CommitLoad \/ CommitRetry
    BY <2>4 DEF GetFreeBuffer, CommitLoad, CommitRetry, consumerVars, LV!lvVars
  <2>5. CASE FetchLoad \/ FetchRetry
    BY <2>5 DEF FetchLoad, FetchRetry, LV!lvVars
  <2>6. CASE UNCHANGED vars
    BY <2>6 DEF vars, consumerVars, LV!lvVars
  <2> QED
    BY <2>1, <2>2, <2>3, <2>4, <2>5, <2>6 DEF Next, Producer, Consumer
<1> QED
  BY <1>1, <1>2, BufferInvariantHolds, PTL DEF Spec, ImplementsLatestValue, LV!Spec
-----------------------------------------------------------------------------
(*****************************************************************************)
(* BinaryFutex for any set of threads: types, the finality of kClosed and    *)
(* the absence of lost wake-ups.  WakeupPending is inductive together with   *)
(* the types: what wakes a sleeper, or takes the post in its place, is       *)
(* always a thread that is not asleep.                                       *)
(*****************************************************************************)

FutexIInv == FutexTypeOK /\ WakeupPending

\* A futex that nobody has posted satisfies the invariant.
LEMMA FutexInitIInv == FutexInit => FutexIInv
BY DEF FutexInit, FutexIInv, FutexTypeOK, WakeupPending, Asleep, Values, PC

\* Every step keeps the word and the threads in range.
LEMMA FutexNextTypeOK == FutexTypeOK /\ [FutexNext]_futexVars => FutexTypeOK'
<1> SUFFICES ASSUME FutexTypeOK, [FutexNext]_futexVars PROVE FutexTypeOK'
  OBVIOUS
<1>1. ASSUME NEW t \in Users,
             Post(t) \/ Close(t) \/ TryWait(t) \/ Wait(t) \/ WaitTry(t)
               \/ FutexWait(t) \/ Timeout(t) \/ Interrupt(t)
      PROVE  FutexTypeOK'
  BY <1>1 DEF Post, Close, TryWait, Wait, WaitTry, FutexWait, Timeout, Interrupt,
       To, Return, FutexTypeOK, Values, PC
<1>2. ASSUME NEW t \in Users, WakeOne(t) \/ WakeAll(t) PROVE FutexTypeOK'
  BY <1>2 DEF WakeOne, WakeAll, FutexTypeOK, PC
<1>3. CASE UNCHANGED futexVars
  BY <1>3 DEF futexVars, FutexTypeOK
<1> QED
  BY <1>1, <1>2, <1>3 DEF FutexNext, InCall

\* Every step preserves the invariant.
LEMMA FutexNextIInv == FutexIInv /\ [FutexNext]_futexVars => FutexIInv'
<1> SUFFICES ASSUME FutexIInv, [FutexNext]_futexVars PROVE WakeupPending'
  BY FutexNextTypeOK DEF FutexIInv
<1> USE DEF FutexIInv, FutexTypeOK, WakeupPending, Asleep
<1>1. ASSUME NEW t \in Users, Post(t) PROVE WakeupPending'
  BY <1>1 DEF Post, To, Return, PC
<1>2. ASSUME NEW t \in Users, Close(t) PROVE WakeupPending'
  BY <1>2 DEF Close, To, Return, PC
<1>3. ASSUME NEW t \in Users, TryWait(t) PROVE WakeupPending'
  BY <1>3 DEF TryWait, To, Return, PC
<1>4. ASSUME NEW t \in Users, Wait(t) PROVE WakeupPending'
  BY <1>4 DEF Wait, To, PC
<1>5. ASSUME NEW t \in Users, WaitTry(t) PROVE WakeupPending'
  BY <1>5 DEF WaitTry, To, Return, PC
<1>6. ASSUME NEW t \in Users, FutexWait(t) PROVE WakeupPending'
  BY <1>6 DEF FutexWait, To, PC
<1>7. ASSUME NEW t \in Users, Timeout(t) \/ Interrupt(t) PROVE WakeupPending'
  BY <1>7 DEF Timeout, Interrupt, To, Return, PC
<1>8. ASSUME NEW t \in Users, WakeOne(t) PROVE WakeupPending'
  BY <1>8 DEF WakeOne, PC
<1>9. ASSUME NEW t \in Users, WakeAll(t) PROVE WakeupPending'
  BY <1>9 DEF WakeAll, PC
<1>10. CASE UNCHANGED futexVars
  BY <1>10 DEF futexVars
<1> QED
  BY <1>1, <1>2, <1>3, <1>4, <1>5, <1>6, <1>7, <1>8, <1>9, <1>10 DEF FutexNext, InCall

\* The word only takes its three values, whatever the threads do.
THEOREM FutexTypeCorrect == FutexSpec => []FutexTypeOK
<1>1. FutexInit => FutexTypeOK
  BY FutexInitIInv DEF FutexIInv
<1> QED
  BY <1>1, FutexNextTypeOK, PTL DEF FutexSpec

\* No wake-up is lost, for any number of threads posting, closing and waiting.
THEOREM WakeupsArrive == FutexSpec => []NoLostWakeup
<1>1. FutexIInv => NoLostWakeup
  BY DEF FutexIInv, NoLostWakeup
<1> QED
  BY <1>1, FutexInitIInv, FutexNextIInv, PTL DEF FutexSpec

\* kClosed is final.
THEOREM ClosedForGood == FutexSpec => ClosedIsFinal
<1>1. [FutexNext]_futexVars => [val_ = "kClosed" => val_' = "kClosed"]_futexVars
  BY DEF FutexNext, InCall, futexVars, Post, Close, TryWait, Wait, WaitTry, FutexWait, Timeout,
       Interrupt, WakeOne, WakeAll
<1> QED
  BY <1>1, PTL DEF FutexSpec, ClosedIsFinal
-----------------------------------------------------------------------------
(*****************************************************************************)
(* FuturePromise with any number of handles, values, Cancels and Resets.     *)
(*                                                                           *)
(* OutlivesHandles rests on the order of a detach, the flag before the       *)
(* signal, and on nobody attaching once the destructor has begun.  For a     *)
(* context used once the signal of a value tells that the value is there,    *)
(* unless the future has already taken it; and a future that has taken it    *)
(* never waits again.                                                        *)
(*****************************************************************************)

\* What TypeOK leaves open.
Shape ==
  /\ DOMAIN pc = Threads /\ pc = [t \in Threads |-> pc[t]]
  /\ attached \in [{"P", "F"} -> Nat]
  /\ pc["P"] \in {"set_check", "set_insert"} => sets < MaxSets

\* A handle is used by its thread only, from when it is obtained until it has detached.
HandleInv ==
  /\ promise # "none" => attached["P"] >= 1
  /\ future # "none" => attached["F"] >= 1
  /\ pc["P"] # "idle" => promise # "none"
  /\ pc["F"] # "idle" => future # "none"
  /\ pc["P"] = "detach_post" => ~promise_attached_
  /\ pc["F"] = "detach_post" => ~future_attached_

\* A handle that is obtained once signals that it has detached only when it has.
DetachInv ==
  /\ attached["P"] = 0 => ~promise_attached_ /\ ~promise_detached_
  /\ attached["F"] = 0 => ~future_attached_ /\ ~future_detached_
  /\ attached["P"] = 1 /\ promise_detached_ => ~promise_attached_
  /\ attached["F"] = 1 /\ future_detached_ => ~future_attached_
  /\ pc["O"] = "dtor_promise" /\ attached["F"] <= 1 /\ "F" \notin gaveUp => ~future_attached_
  /\ OutlivesHandles

\* The one future of the context has taken the value, or is gone.
Over ==
  \/ pc["F"] \in {"get_trywait", "get_unlock", "detach", "detach_post"}
  \/ future = "none" /\ attached["F"] >= 1

\* A context that is used once.
OneShotInv ==
  oneShot =>
    /\ promise # "reusable" /\ future # "reusable"
    /\ pc["O"] \notin InReset
    /\ "cancel_post" \in {pc["P"], pc["F"], pc["O"]} => is_cancelled_

\* Its signals, while nobody has cancelled.
SignalInv ==
  oneShot /\ ~is_cancelled_ =>
    /\ has_value_ \/ pc["P"] = "set_post" => buffer_ # 0 \/ Over
    /\ waitOk \/ pc["F"] = "wait_cancelled" => buffer_ # 0

WaitOkInv == waitOk => pc["F"] \in {"idle", "peek_keep", "cancel_store", "cancel_post"}

PromiseIInv == /\ NothingLost /\ Shape /\ HandleInv /\ DetachInv
               /\ OneShotInv /\ SignalInv /\ WaitOkInv
-----------------------------------------------------------------------------
\* Every step keeps the types.
LEMMA NextType == ASSUME PromiseIInv, [PromiseNext]_promiseVars PROVE PromiseTypeOK'
<1> USE FuturePromiseAssumption
    DEF PromiseIInv, NothingLost, PromiseTypeOK, Shape, InSet, InGet, InCancel, InReset,
        At, Goto, Threads, flags, locks, signals, handles, history
<1>1. CASE GetPromise \/ PromiseDetach \/ PromiseDetachPost
  BY <1>1 DEF GetPromise, PromiseDetach, PromiseDetachPost
<1>2. CASE Set
  <2>1. CASE SetLock BY <2>1 DEF SetLock
  <2>2. CASE SetCheck
    <3>1. pc' = [pc EXCEPT !["P"] = pc'["P"]] /\ write_locked' \in BOOLEAN BY <2>2 DEF SetCheck
    <3> QED BY <2>2, <3>1 DEF SetCheck
  <2>3. CASE SetInsert
    <3>1. pc' = [pc EXCEPT !["P"] = pc'["P"]] /\ write_locked' \in BOOLEAN BY <2>3 DEF SetInsert
    <3> QED BY <2>3, <3>1 DEF SetInsert
  <2>4. CASE SetPost BY <2>4 DEF SetPost
  <2>5. CASE SetUnlock BY <2>5 DEF SetUnlock
  <2> QED BY <1>2, <2>1, <2>2, <2>3, <2>4, <2>5 DEF Set
<1>3. CASE GetFuture \/ FutureDetach \/ FutureDetachPost
  <2>1. CASE GetFuture BY <2>1 DEF GetFuture
  <2>2. CASE FutureDetach BY <2>2 DEF FutureDetach
  <2>3. CASE FutureDetachPost BY <2>3 DEF FutureDetachPost
  <2> QED BY <1>3, <2>1, <2>2, <2>3
<1>4. CASE Get
  <2>1. CASE GetLock BY <2>1 DEF GetLock
  <2>2. CASE GetCheck
    <3>1. pc' = [pc EXCEPT !["F"] = pc'["F"]] /\ read_locked' \in BOOLEAN BY <2>2 DEF GetCheck
    <3> QED BY <2>2, <3>1 DEF GetCheck
  <2>3. CASE GetTake
    <3>1. pc' = [pc EXCEPT !["F"] = pc'["F"]] /\ read_locked' \in BOOLEAN BY <2>3 DEF GetTake
    <3> QED BY <2>3, <3>1 DEF GetTake
  <2>4. CASE GetTryWait BY <2>4 DEF GetTryWait
  <2>5. CASE GetUnlock BY <2>5 DEF GetUnlock
  <2> QED BY <1>4, <2>1, <2>2, <2>3, <2>4, <2>5 DEF Get
<1>5. CASE Peek \/ WaitStep
  BY <1>5 DEF Peek, PeekFront, PeekKeep, WaitStep, WaitUntil, WaitEmpty, WaitPosted,
       WaitTimeout, WaitReturn
<1>6. ASSUME NEW t \in Threads, Cancel(t) PROVE PromiseTypeOK'
  <2>1. CASE t = "P"
    <3>1. CASE CancelLock("P") BY <3>1 DEF CancelLock
    <3>2. CASE CancelStore("P") BY <3>2 DEF CancelStore
    <3>3. CASE CancelPost("P") BY <3>3 DEF CancelPost
    <3> QED BY <1>6, <2>1, <3>1, <3>2, <3>3 DEF Cancel
  <2>2. CASE t = "F"
    <3>1. CASE CancelLock("F") BY <3>1 DEF CancelLock
    <3>2. CASE CancelStore("F") BY <3>2 DEF CancelStore
    <3>3. CASE CancelPost("F") BY <3>3 DEF CancelPost
    <3> QED BY <1>6, <2>2, <3>1, <3>2, <3>3 DEF Cancel
  <2>3. CASE t = "O"
    <3>1. CASE CancelLock("O") BY <3>1 DEF CancelLock
    <3>2. CASE CancelStore("O") BY <3>2 DEF CancelStore
    <3>3. CASE CancelPost("O") BY <3>3 DEF CancelPost
    <3> QED BY <1>6, <2>3, <3>1, <3>2, <3>3 DEF Cancel
  <2> QED BY <2>1, <2>2, <2>3
<1>7. CASE Reset
  <2>1. CASE ResetLock BY <2>1 DEF ResetLock
  <2>2. CASE ResetFuture BY <2>2 DEF ResetFuture
  <2>3. CASE ResetPromise BY <2>3 DEF ResetPromise
  <2>4. CASE ResetTimeout BY <2>4 DEF ResetTimeout
  <2>5. CASE ResetBufferLock BY <2>5 DEF ResetBufferLock
  <2>6. CASE ResetClear BY <2>6 DEF ResetClear
  <2>7. CASE ResetStore BY <2>7 DEF ResetStore
  <2> QED BY <1>7, <2>1, <2>2, <2>3, <2>4, <2>5, <2>6, <2>7 DEF Reset
<1>8. CASE Dtor
  <2>1. CASE Destroy BY <2>1 DEF Destroy
  <2>2. CASE DtorFuture BY <2>2 DEF DtorFuture
  <2>3. CASE DtorPromise BY <2>3 DEF DtorPromise
  <2>4. CASE DtorFutureTimeout BY <2>4 DEF DtorFutureTimeout
  <2>5. CASE DtorPromiseTimeout BY <2>5 DEF DtorPromiseTimeout
  <2> QED BY <1>8, <2>1, <2>2, <2>3, <2>4, <2>5 DEF Dtor
<1>9. CASE Gone \/ UNCHANGED promiseVars
  BY <1>9 DEF Gone, promiseVars
<1> QED BY <1>1, <1>2, <1>3, <1>4, <1>5, <1>6, <1>7, <1>8, <1>9 DEF PromiseNext

\* A value is in the buffer until it is taken or the context reset.
LEMMA NextValue == ASSUME PromiseIInv, PromiseTypeOK',
     [PromiseNext]_promiseVars PROVE NothingLost'
<1> USE FuturePromiseAssumption
    DEF PromiseIInv, NothingLost, PromiseTypeOK, Shape, Later,
        At, Goto, Threads, flags, locks, signals, handles, history
<1>1. CASE GetPromise \/ PromiseDetach \/ PromiseDetachPost
  BY <1>1 DEF GetPromise, PromiseDetach, PromiseDetachPost
<1>2. CASE Set
  BY <1>2 DEF Set, SetLock, SetCheck, SetInsert, SetPost, SetUnlock
<1>3. CASE GetFuture \/ FutureDetach \/ FutureDetachPost
  BY <1>3 DEF GetFuture, FutureDetach, FutureDetachPost
<1>4. CASE Get
  BY <1>4 DEF Get, GetLock, GetCheck, GetTake, GetTryWait, GetUnlock
<1>5. CASE Peek \/ WaitStep
  BY <1>5 DEF Peek, PeekFront, PeekKeep, WaitStep, WaitUntil, WaitEmpty, WaitPosted,
       WaitTimeout, WaitReturn
<1>6. CASE \E t \in Threads : Cancel(t)
  BY <1>6 DEF Cancel, CancelLock, CancelStore, CancelPost, MayCancel
<1>7. CASE Reset
  BY <1>7 DEF Reset, ResetLock, ResetFuture, ResetPromise, ResetTimeout,
     ResetBufferLock, ResetClear, ResetStore
<1>8. CASE Dtor
  BY <1>8 DEF Dtor, Destroy, DtorFuture, DtorPromise, DtorFutureTimeout, DtorPromiseTimeout
<1>9. CASE Gone \/ UNCHANGED promiseVars
  BY <1>9 DEF Gone, promiseVars
<1> QED BY <1>1, <1>2, <1>3, <1>4, <1>5, <1>6, <1>7, <1>8, <1>9 DEF PromiseNext

\* Every step moves one thread.
LEMMA NextShape == ASSUME PromiseIInv, [PromiseNext]_promiseVars PROVE Shape'
<1> USE FuturePromiseAssumption
    DEF PromiseIInv, Shape, NothingLost, PromiseTypeOK,
        At, Goto, Threads, flags, locks, signals, handles, history
<1>1. CASE GetPromise \/ PromiseDetach \/ PromiseDetachPost
  BY <1>1 DEF GetPromise, PromiseDetach, PromiseDetachPost
<1>2. CASE Set
  BY <1>2 DEF Set, SetLock, SetCheck, SetInsert, SetPost, SetUnlock
<1>3. CASE GetFuture \/ FutureDetach \/ FutureDetachPost
  BY <1>3 DEF GetFuture, FutureDetach, FutureDetachPost
<1>4. CASE Get
  BY <1>4 DEF Get, GetLock, GetCheck, GetTake, GetTryWait, GetUnlock
<1>5. CASE Peek \/ WaitStep
  BY <1>5 DEF Peek, PeekFront, PeekKeep, WaitStep, WaitUntil, WaitEmpty, WaitPosted,
       WaitTimeout, WaitReturn
<1>6. CASE \E t \in Threads : Cancel(t)
  BY <1>6 DEF Cancel, CancelLock, CancelStore, CancelPost, MayCancel
<1>7. CASE Reset
  BY <1>7 DEF Reset, ResetLock, ResetFuture, ResetPromise, ResetTimeout,
     ResetBufferLock, ResetClear, ResetStore
<1>8. CASE Dtor
  BY <1>8 DEF Dtor, Destroy, DtorFuture, DtorPromise, DtorFutureTimeout, DtorPromiseTimeout
<1>9. CASE Gone \/ UNCHANGED promiseVars
  BY <1>9 DEF Gone, promiseVars
<1> QED BY <1>1, <1>2, <1>3, <1>4, <1>5, <1>6, <1>7, <1>8, <1>9 DEF PromiseNext

\* No step uses a handle that was not obtained.
LEMMA NextHandle == ASSUME PromiseIInv, [PromiseNext]_promiseVars PROVE HandleInv'
<1> USE FuturePromiseAssumption
    DEF PromiseIInv, HandleInv, Shape, NothingLost, PromiseTypeOK,
        At, Goto, Threads, flags, locks, signals, handles, history
<1>1. CASE GetPromise \/ PromiseDetach \/ PromiseDetachPost
  BY <1>1 DEF GetPromise, PromiseDetach, PromiseDetachPost
<1>2. CASE Set
  BY <1>2 DEF Set, SetLock, SetCheck, SetInsert, SetPost, SetUnlock
<1>3. CASE GetFuture \/ FutureDetach \/ FutureDetachPost
  BY <1>3 DEF GetFuture, FutureDetach, FutureDetachPost
<1>4. CASE Get
  BY <1>4 DEF Get, GetLock, GetCheck, GetTake, GetTryWait, GetUnlock
<1>5. CASE Peek \/ WaitStep
  BY <1>5 DEF Peek, PeekFront, PeekKeep, WaitStep, WaitUntil, WaitEmpty, WaitPosted,
       WaitTimeout, WaitReturn
<1>6. ASSUME NEW t \in Threads, Cancel(t) PROVE HandleInv'
  <2>1. CASE t = "P" BY <1>6, <2>1 DEF Cancel, CancelLock, CancelStore, CancelPost, MayCancel
  <2>2. CASE t = "F" BY <1>6, <2>2 DEF Cancel, CancelLock, CancelStore, CancelPost, MayCancel
  <2>3. CASE t = "O" BY <1>6, <2>3 DEF Cancel, CancelLock, CancelStore, CancelPost, MayCancel
  <2> QED BY <2>1, <2>2, <2>3
<1>7. CASE Reset
  BY <1>7 DEF Reset, ResetLock, ResetFuture, ResetPromise, ResetTimeout,
     ResetBufferLock, ResetClear, ResetStore
<1>8. CASE Dtor
  BY <1>8 DEF Dtor, Destroy, DtorFuture, DtorPromise, DtorFutureTimeout, DtorPromiseTimeout
<1>9. CASE Gone \/ UNCHANGED promiseVars
  BY <1>9 DEF Gone, promiseVars
<1> QED BY <1>1, <1>2, <1>3, <1>4, <1>5, <1>6, <1>7, <1>8, <1>9 DEF PromiseNext

\* The flag of a handle is cleared before its signal, also while the destructor waits.
LEMMA NextDetach == ASSUME PromiseIInv, [PromiseNext]_promiseVars PROVE DetachInv'
<1> USE FuturePromiseAssumption
    DEF PromiseIInv, DetachInv, HandleInv, OutlivesHandles, OwnerLeaves, Shape,
        At, Goto, Threads, flags, locks, signals, handles, history
<1>1. CASE GetPromise \/ PromiseDetach \/ PromiseDetachPost
  BY <1>1 DEF GetPromise, PromiseDetach, PromiseDetachPost
<1>2. CASE Set
  BY <1>2 DEF Set, SetLock, SetCheck, SetInsert, SetPost, SetUnlock
<1>3. CASE GetFuture \/ FutureDetach \/ FutureDetachPost
  BY <1>3 DEF GetFuture, FutureDetach, FutureDetachPost
<1>4. CASE Get
  BY <1>4 DEF Get, GetLock, GetCheck, GetTake, GetTryWait, GetUnlock
<1>5. CASE Peek \/ WaitStep
  BY <1>5 DEF Peek, PeekFront, PeekKeep, WaitStep, WaitUntil, WaitEmpty, WaitPosted,
       WaitTimeout, WaitReturn
<1>6. ASSUME NEW t \in Threads, Cancel(t) PROVE DetachInv'
  <2>1. CASE t = "P" BY <1>6, <2>1 DEF Cancel, CancelLock, CancelStore, CancelPost, MayCancel
  <2>2. CASE t = "F" BY <1>6, <2>2 DEF Cancel, CancelLock, CancelStore, CancelPost, MayCancel
  <2>3. CASE t = "O" BY <1>6, <2>3 DEF Cancel, CancelLock, CancelStore, CancelPost, MayCancel
  <2> QED BY <2>1, <2>2, <2>3
<1>7. CASE Reset
  BY <1>7 DEF Reset, ResetLock, ResetFuture, ResetPromise, ResetTimeout,
     ResetBufferLock, ResetClear, ResetStore
<1>8. CASE Dtor
  BY <1>8 DEF Dtor, Destroy, DtorFuture, DtorPromise, DtorFutureTimeout, DtorPromiseTimeout
<1>9. CASE Gone \/ UNCHANGED promiseVars
  BY <1>9 DEF Gone, promiseVars
<1> QED BY <1>1, <1>2, <1>3, <1>4, <1>5, <1>6, <1>7, <1>8, <1>9 DEF PromiseNext

\* A context that is used once is not reset.
LEMMA NextOneShot == ASSUME PromiseIInv, [PromiseNext]_promiseVars PROVE OneShotInv'
<1> USE FuturePromiseAssumption
    DEF PromiseIInv, OneShotInv, Shape, NothingLost, PromiseTypeOK, InReset,
        At, Goto, Threads, flags, locks, signals, handles, history
<1>1. CASE GetPromise \/ PromiseDetach \/ PromiseDetachPost
  BY <1>1 DEF GetPromise, PromiseDetach, PromiseDetachPost
<1>2. CASE Set
  BY <1>2 DEF Set, SetLock, SetCheck, SetInsert, SetPost, SetUnlock
<1>3. CASE GetFuture \/ FutureDetach \/ FutureDetachPost
  BY <1>3 DEF GetFuture, FutureDetach, FutureDetachPost
<1>4. CASE Get
  BY <1>4 DEF Get, GetLock, GetCheck, GetTake, GetTryWait, GetUnlock
<1>5. CASE Peek \/ WaitStep
  BY <1>5 DEF Peek, PeekFront, PeekKeep, WaitStep, WaitUntil, WaitEmpty, WaitPosted,
       WaitTimeout, WaitReturn
<1>6. ASSUME NEW t \in Threads, Cancel(t) PROVE OneShotInv'
  <2>1. CASE t = "P" BY <1>6, <2>1 DEF Cancel, CancelLock, CancelStore, CancelPost, MayCancel
  <2>2. CASE t = "F" BY <1>6, <2>2 DEF Cancel, CancelLock, CancelStore, CancelPost, MayCancel
  <2>3. CASE t = "O" BY <1>6, <2>3 DEF Cancel, CancelLock, CancelStore, CancelPost, MayCancel
  <2> QED BY <2>1, <2>2, <2>3
<1>7. CASE Reset
  BY <1>7 DEF Reset, ResetLock, ResetFuture, ResetPromise, ResetTimeout,
     ResetBufferLock, ResetClear, ResetStore
<1>8. CASE Dtor
  BY <1>8 DEF Dtor, Destroy, DtorFuture, DtorPromise, DtorFutureTimeout, DtorPromiseTimeout
<1>9. CASE Gone \/ UNCHANGED promiseVars
  BY <1>9 DEF Gone, promiseVars
<1> QED BY <1>1, <1>2, <1>3, <1>4, <1>5, <1>6, <1>7, <1>8, <1>9 DEF PromiseNext

\* The signal of a value follows the value.
LEMMA NextSignal == ASSUME PromiseIInv, [PromiseNext]_promiseVars PROVE SignalInv'
<1> USE FuturePromiseAssumption
    DEF PromiseIInv, SignalInv, OneShotInv, HandleInv, WaitOkInv, Over, Shape, InReset,
        At, Goto, Threads, flags, locks, signals, handles, history
<1>1. CASE GetPromise \/ PromiseDetach \/ PromiseDetachPost
  <2>1. oneShot' => oneShot
    BY <1>1 DEF GetPromise, PromiseDetach, PromiseDetachPost, NothingLost, PromiseTypeOK
  <2>2. UNCHANGED <<is_cancelled_, has_value_, buffer_, waitOk, future, attached["F"], pc["F"]>>
        /\ pc'["P"] # "set_post"
    BY <1>1 DEF GetPromise, PromiseDetach, PromiseDetachPost
  <2> QED BY <2>1, <2>2
<1>2. CASE Set
  <2>1. CASE SetLock BY <2>1 DEF SetLock
  <2>2. CASE SetCheck BY <2>2 DEF SetCheck
  <2>3. CASE SetInsert
    <3>1. buffer_' # 0
      BY <2>3 DEF SetInsert, NothingLost, PromiseTypeOK
    <3> QED BY <2>3, <3>1 DEF SetInsert
  <2>4. CASE SetPost BY <2>4 DEF SetPost
  <2>5. CASE SetUnlock BY <2>5 DEF SetUnlock
  <2> QED BY <1>2, <2>1, <2>2, <2>3, <2>4, <2>5 DEF Set
<1>3. CASE GetFuture \/ FutureDetach \/ FutureDetachPost
  <2>1. CASE GetFuture
    <3>1. oneShot' => oneShot /\ attached["F"] = 0
      BY <2>1 DEF GetFuture, NothingLost, PromiseTypeOK
    <3> QED BY <2>1, <3>1 DEF GetFuture
  <2>2. CASE FutureDetach BY <2>2 DEF FutureDetach
  <2>3. CASE FutureDetachPost BY <2>3 DEF FutureDetachPost
  <2> QED BY <1>3, <2>1, <2>2, <2>3
<1>4. CASE Get
  BY <1>4 DEF Get, GetLock, GetCheck, GetTake, GetTryWait, GetUnlock
<1>5. CASE Peek \/ WaitStep
  BY <1>5 DEF Peek, PeekFront, PeekKeep, WaitStep, WaitUntil, WaitEmpty, WaitPosted,
       WaitTimeout, WaitReturn
<1>6. ASSUME NEW t \in Threads, Cancel(t) PROVE SignalInv'
  <2>1. CASE t = "P" BY <1>6, <2>1 DEF Cancel, CancelLock, CancelStore, CancelPost, MayCancel
  <2>2. CASE t = "F" BY <1>6, <2>2 DEF Cancel, CancelLock, CancelStore, CancelPost, MayCancel
  <2>3. CASE t = "O" BY <1>6, <2>3 DEF Cancel, CancelLock, CancelStore, CancelPost, MayCancel
  <2> QED BY <2>1, <2>2, <2>3
<1>7. CASE Reset
  BY <1>7 DEF Reset, ResetLock, ResetFuture, ResetPromise, ResetTimeout,
     ResetBufferLock, ResetClear, ResetStore
<1>8. CASE Dtor
  BY <1>8 DEF Dtor, Destroy, DtorFuture, DtorPromise, DtorFutureTimeout, DtorPromiseTimeout
<1>9. CASE UNCHANGED promiseVars
  <2>1. Over' = Over
    BY <1>9 DEF promiseVars
  <2> HIDE DEF Over, OneShotInv, HandleInv, WaitOkInv, Shape
  <2> QED BY <1>9, <2>1 DEF promiseVars
<1> QED BY <1>1, <1>2, <1>3, <1>4, <1>5, <1>6, <1>7, <1>8, <1>9 DEF PromiseNext, Gone

\* A wait that succeeded is remembered until the future does something else.
LEMMA NextWaitOk == ASSUME PromiseIInv, [PromiseNext]_promiseVars PROVE WaitOkInv'
<1> USE FuturePromiseAssumption
    DEF PromiseIInv, WaitOkInv, Shape,
        At, Goto, Threads, flags, locks, signals, handles, history
<1>1. CASE GetPromise \/ PromiseDetach \/ PromiseDetachPost
  BY <1>1 DEF GetPromise, PromiseDetach, PromiseDetachPost
<1>2. CASE Set
  BY <1>2 DEF Set, SetLock, SetCheck, SetInsert, SetPost, SetUnlock
<1>3. CASE GetFuture \/ FutureDetach \/ FutureDetachPost
  BY <1>3 DEF GetFuture, FutureDetach, FutureDetachPost
<1>4. CASE Get
  BY <1>4 DEF Get, GetLock, GetCheck, GetTake, GetTryWait, GetUnlock
<1>5. CASE Peek \/ WaitStep
  BY <1>5 DEF Peek, PeekFront, PeekKeep, WaitStep, WaitUntil, WaitEmpty, WaitPosted,
       WaitTimeout, WaitReturn
<1>6. CASE \E t \in Threads : Cancel(t)
  BY <1>6 DEF Cancel, CancelLock, CancelStore, CancelPost, MayCancel
<1>7. CASE Reset
  BY <1>7 DEF Reset, ResetLock, ResetFuture, ResetPromise, ResetTimeout,
     ResetBufferLock, ResetClear, ResetStore
<1>8. CASE Dtor
  BY <1>8 DEF Dtor, Destroy, DtorFuture, DtorPromise, DtorFutureTimeout, DtorPromiseTimeout
<1>9. CASE Gone \/ UNCHANGED promiseVars
  BY <1>9 DEF Gone, promiseVars
<1> QED BY <1>1, <1>2, <1>3, <1>4, <1>5, <1>6, <1>7, <1>8, <1>9 DEF PromiseNext

\* A new context satisfies the invariant.
LEMMA PromiseInitIInv == PromiseInit => PromiseIInv
<1> SUFFICES ASSUME PromiseInit PROVE PromiseIInv
  OBVIOUS
<1> USE FuturePromiseAssumption DEF PromiseInit, Threads
<1>1. NothingLost /\ Shape
  <2>1. PromiseTypeOK
    <3>1. {promise_attached_, future_attached_, is_cancelled_, read_locked, write_locked,
           cancel_locked, get_locked, has_value_, future_detached_, promise_detached_,
           destroyed, waitOk, oneShot} \subseteq BOOLEAN
      BY Zenon
    <3>2. {sets, got, cleared} \subseteq 0 .. MaxSets /\ buffer_ \in 0 .. MaxSets
      OBVIOUS
    <3> QED BY <3>1, <3>2 DEF PromiseTypeOK
  <2> QED BY <2>1 DEF NothingLost, Shape, Later
<1>2. HandleInv /\ DetachInv
  BY DEF HandleInv, DetachInv, OutlivesHandles
<1>3. OneShotInv /\ SignalInv /\ WaitOkInv
  BY DEF OneShotInv, SignalInv, WaitOkInv, InReset
<1> QED
  BY <1>1, <1>2, <1>3 DEF PromiseIInv

\* Every step preserves the invariant.
LEMMA PromiseNextIInv == PromiseIInv /\ [PromiseNext]_promiseVars => PromiseIInv'
BY NextType, NextValue, NextShape, NextHandle, NextDetach, NextOneShot, NextSignal, NextWaitOk
   DEF PromiseIInv

\* The inductive invariant.
THEOREM PromiseInvariantHolds == PromiseSpec => []PromiseIInv
BY PromiseInitIInv, PromiseNextIInv, PTL DEF PromiseSpec

\* Types and values: however often the context is used, cancelled and reset, no value that
\* was set is lost, duplicated or reordered.
THEOREM ValuesKept == PromiseSpec => []NothingLost
<1>1. PromiseIInv => NothingLost
  BY DEF PromiseIInv
<1> QED
  BY <1>1, PromiseInvariantHolds, PTL

\* The destructor outlives a handle that was obtained once, unless its wait for that handle
\* has timed out: also beside timeouts of the other wait, Cancels, Resets and reuse.
THEOREM HandlesOutlived == PromiseSpec => []OutlivesHandles
<1>1. PromiseIInv => OutlivesHandles
  BY DEF PromiseIInv, DetachInv
<1> QED
  BY <1>1, PromiseInvariantHolds, PTL

\* Of a context that is used once, a wait that returns OK means that there is a value.
THEOREM OneShotWait == PromiseSpec => []OneShotWaitOkMeansValue
<1>1. PromiseIInv => OneShotWaitOkMeansValue
  BY DEF PromiseIInv, SignalInv, OneShotWaitOkMeansValue, WaitOkMeansValue
<1> QED
  BY <1>1, PromiseInvariantHolds, PTL
=============================================================================
