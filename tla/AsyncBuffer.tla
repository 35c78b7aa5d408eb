---------------------------- MODULE AsyncBuffer ----------------------------
(***************************************************************************)
(* intrinsic/icon/utils/async_buffer.h: a triple buffer between one         *)
(* producer and one consumer thread.  The 32-bit word state_ says which of   *)
(* the three buffers is the active, the mailbox and the free one, and        *)
(* whether the mailbox is full; both threads change it with a load and a     *)
(* compare-exchange, so between the two steps the other thread may move.     *)
(*                                                                          *)
(* The payload is a serial number: the producer writes k+1 into the free     *)
(* buffer after having committed k.  A write takes two steps, in between     *)
(* the buffer holds Torn, so that a consumer reading a buffer that is being  *)
(* written would be seen to do so.                                           *)
(***************************************************************************)
EXTENDS Naturals

CONSTANT MaxCommits   \* bound on the number of commits of a behaviour

ASSUME MaxCommitsAssumption == MaxCommits \in Nat

Buffers == 0..2       \* indices of buffers_
None    == 3          \* no buffer: nothing returned by GetFreeBuffer yet
Torn    == MaxCommits + 1

\* async_buffer.h's struct State.
StateType == [active_index : Buffers, mailbox_index : Buffers,
              free_index : Buffers, mailbox_full : BOOLEAN]

InitialState == [active_index |-> 0, mailbox_index |-> 1, free_index |-> 2,
                 mailbox_full |-> FALSE]

VARIABLES
  state_,          \* the atomic word
  checked_out,     \* free_buffer_checked_out_, touched by the producer only
  buffers_,        \* contents of the three buffers
  ppc,             \* producer: "idle", "write" (a write has begun) or "cas"
  freePtr,         \* what GetFreeBuffer returned last
  pCurrent,        \* the producer's local copy of state_ ("current")
  pRetries,        \* compare-exchanges of this CommitFreeBuffer that failed
  cpc,             \* consumer: "idle" or "cas"
  activePtr,       \* *buffer, as set by GetActiveBuffer; None before
  cCurrent,        \* the consumer's local copy of state_
  gotFull,         \* what GetActiveBuffer returned last
  committed        \* history: serial number of the last commit

producerVars == <<ppc, freePtr, checked_out, pCurrent, pRetries>>
consumerVars == <<cpc, activePtr, cCurrent, gotFull>>
vars == <<state_, buffers_, committed, producerVars, consumerVars>>

Init == /\ state_ = InitialState
        /\ checked_out = FALSE
        /\ buffers_ = [b \in Buffers |-> 0]
        /\ ppc = "idle" /\ freePtr = None /\ pCurrent = InitialState
        /\ pRetries = 0
        /\ cpc = "idle" /\ activePtr = None /\ cCurrent = InitialState
        /\ gotFull = FALSE
        /\ committed = 0
-----------------------------------------------------------------------------
(* The producer's thread *)

GetFreeBuffer ==
  /\ ppc = "idle"
  /\ checked_out' = TRUE
  /\ freePtr' = state_.free_index
  /\ UNCHANGED <<state_, buffers_, committed, ppc, pCurrent, pRetries, consumerVars>>

\* The caller modifies the buffer it got, before it commits it (the contract
\* of GetFreeBuffer).
BeginWrite ==
  /\ ppc = "idle" /\ checked_out
  /\ committed < MaxCommits
  /\ buffers_' = [buffers_ EXCEPT ![freePtr] = Torn]
  /\ ppc' = "write"
  /\ UNCHANGED <<state_, committed, freePtr, checked_out, pCurrent, pRetries, consumerVars>>

EndWrite ==
  /\ ppc = "write"
  /\ buffers_' = [buffers_ EXCEPT ![freePtr] = committed + 1]
  /\ ppc' = "idle"
  /\ UNCHANGED <<state_, committed, freePtr, checked_out, pCurrent, pRetries, consumerVars>>

\* The two ends of CommitFreeBuffer's loop body: load, then compare-exchange.
\* The caller has written the buffer.  (Without GetFreeBuffer before it the
\* call returns false at once and changes nothing.)
CommitLoad ==
  /\ ppc = "idle" /\ checked_out
  /\ buffers_[freePtr] = committed + 1
  /\ pCurrent' = state_
  /\ pRetries' = 0
  /\ ppc' = "cas"
  /\ UNCHANGED <<state_, buffers_, committed, freePtr, checked_out, consumerVars>>

\* Mutant: the mailbox keeps its buffer, the producer keeps writing to it.
CommittedStateKeepsFree(s) == [active_index  |-> s.active_index,
                               mailbox_index |-> s.free_index,
                               free_index    |-> s.free_index,
                               mailbox_full  |-> TRUE]

CommittedState(s) == [active_index  |-> s.active_index,
                      mailbox_index |-> s.free_index,
                      free_index    |-> s.mailbox_index,
                      mailbox_full  |-> TRUE]

CommitCas ==
  /\ ppc = "cas"
  /\ state_ = pCurrent
  /\ state_' = CommittedState(pCurrent)
  /\ checked_out' = FALSE
  /\ committed' = committed + 1
  /\ ppc' = "idle"
  /\ UNCHANGED <<buffers_, freePtr, pCurrent, pRetries, consumerVars>>

\* The loop goes round: it loads state_ again.
CommitRetry ==
  /\ ppc = "cas"
  /\ state_ # pCurrent
  /\ pCurrent' = state_
  /\ pRetries' = pRetries + 1
  /\ UNCHANGED <<state_, buffers_, committed, ppc, freePtr, checked_out, consumerVars>>
-----------------------------------------------------------------------------
(* The consumer's thread *)

FetchLoad ==
  /\ cpc = "idle"
  /\ cCurrent' = state_
  /\ cpc' = "cas"
  /\ UNCHANGED <<state_, buffers_, committed, activePtr, gotFull, producerVars>>

\* Mutant: the mailbox is taken whether it is full or not.
FetchedStateAlways(s) == [active_index  |-> s.mailbox_index,
                          mailbox_index |-> s.active_index,
                          free_index    |-> s.free_index,
                          mailbox_full  |-> FALSE]

FetchedState(s) == IF s.mailbox_full
                   THEN [active_index  |-> s.mailbox_index,
                         mailbox_index |-> s.active_index,
                         free_index    |-> s.free_index,
                         mailbox_full  |-> FALSE]
                   ELSE s

\* Mutant: a plain store instead of the compare-exchange.
FetchCasPlainStore ==
  /\ cpc = "cas"
  /\ state_' = FetchedState(cCurrent)
  /\ activePtr' = FetchedState(cCurrent).active_index
  /\ gotFull' = cCurrent.mailbox_full
  /\ cpc' = "idle"
  /\ UNCHANGED <<buffers_, committed, cCurrent, producerVars>>

FetchCas ==
  /\ cpc = "cas"
  /\ state_ = cCurrent
  /\ state_' = FetchedState(cCurrent)
  /\ activePtr' = FetchedState(cCurrent).active_index
  /\ gotFull' = cCurrent.mailbox_full
  /\ cpc' = "idle"
  /\ UNCHANGED <<buffers_, committed, cCurrent, producerVars>>

FetchRetry ==
  /\ cpc = "cas"
  /\ state_ # cCurrent
  /\ cCurrent' = state_
  /\ UNCHANGED <<state_, buffers_, committed, cpc, activePtr, gotFull, producerVars>>
-----------------------------------------------------------------------------
Producer == \/ GetFreeBuffer \/ BeginWrite \/ EndWrite
            \/ CommitLoad \/ CommitCas \/ CommitRetry
Consumer == FetchLoad \/ FetchCas \/ FetchRetry

Next == Producer \/ Consumer

Spec == Init /\ [][Next]_vars
-----------------------------------------------------------------------------
(* Properties *)

TypeOK ==
  /\ state_ \in StateType
  /\ checked_out \in BOOLEAN
  /\ buffers_ \in [Buffers -> 0..Torn]
  /\ ppc \in {"idle", "write", "cas"}
  /\ freePtr \in Buffers \cup {None}
  /\ pCurrent \in StateType
  /\ pRetries \in Nat
  /\ cpc \in {"idle", "cas"}
  /\ activePtr \in Buffers \cup {None}
  /\ cCurrent \in StateType
  /\ gotFull \in BOOLEAN
  /\ committed \in 0..MaxCommits

IsConsistent(s) == /\ s.active_index # s.mailbox_index
                   /\ s.mailbox_index # s.free_index
                   /\ s.free_index # s.active_index

\* The buffers that the producer and the consumer hold a pointer to.
IndicesApart ==
  /\ IsConsistent(state_)
  /\ checked_out => freePtr = state_.free_index
  /\ activePtr # None => activePtr = state_.active_index

\* The word always names three different buffers (the DCHECKs on
\* State::IsConsistent after each compare-exchange), and the buffer the
\* producer may write is never the one the consumer may read, although both
\* hold on to a pointer while the other thread changes state_.
OwnedApart == TypeOK /\ IndicesApart

\* "This buffer is guaranteed not to be modified until the next call to
\* GetActiveBuffer() by the consumer", whatever the producer does meanwhile.
ActiveNotModified ==
  [][activePtr # None => buffers_'[activePtr] = buffers_[activePtr]]_vars

\* CommitFreeBuffer goes round its loop at most once more: only one fetch can
\* change state_ under it, since that fetch leaves the mailbox empty and a
\* fetch of an empty mailbox changes nothing.  This makes the producer's side
\* wait-free, which a real-time caller needs.
CommitRetriesOnce == pRetries <= 1

LV == INSTANCE LatestValue WITH
        published <- committed,
        fresh     <- state_.mailbox_full,
        fetched   <- IF activePtr = None THEN 0 ELSE buffers_[activePtr],
        wasFresh  <- gotFull

\* The consumer gets exactly the value committed last, GetActiveBuffer tells
\* whether it is new, and values never go backwards: the compare-exchange loops
\* implement LatestValue (the ABA cases of state_ included).
ImplementsLatestValue == LV!Spec
=============================================================================
