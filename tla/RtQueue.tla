------------------------------ MODULE RtQueue ------------------------------
(***************************************************************************)
(* intrinsic/platform/common/buffers: the ring buffer of rt_queue_buffer.h as *)
(* used by rt_queue.h (one reader, one writer at a time) and by               *)
(* rt_queue_multi_writer.h (writers that take a mutex).  head_ belongs to the *)
(* writer, tail_ to the reader; size_ is the only thing they share, and what  *)
(* hands a slot from one to the other.                                        *)
(*                                                                            *)
(* Items are numbered in the order in which they are inserted; 0 is a slot    *)
(* without an item or one that is being written.                              *)
(***************************************************************************)
EXTENDS Naturals

CONSTANTS
  Writers,
  Capacity,
  MaxItems    \* bound on items inserted

ASSUME RtQueueAssumption == Capacity \in Nat \ {0} /\ MaxItems \in Nat

VARIABLES
  buffer_, head_, tail_, size_,
  mutex_,     \* the writers' mutex, "free" or "held"
  wpc,        \* where each writer is
  rpc,        \* where the reader is
  inserted    \* history: number of items inserted

writerVars == <<head_, mutex_, wpc, inserted>>
readerVars == <<tail_, rpc>>
vars == <<buffer_, size_, writerVars, readerVars>>

Slots == 0 .. Capacity - 1

Init == /\ buffer_ = [i \in Slots |-> 0]
        /\ head_ = 0 /\ tail_ = 0 /\ size_ = 0
        /\ mutex_ = "free" /\ wpc = [w \in Writers |-> "idle"] /\ rpc = "idle"
        /\ inserted = 0
-----------------------------------------------------------------------------
(* Insert *)

Goto(w, l) == wpc' = [wpc EXCEPT ![w] = l]

\* Mutant: a writer that does not wait for the mutex.
LockSkipped(w) ==
  /\ wpc[w] = "idle" /\ inserted < MaxItems
  /\ Goto(w, "locked") /\ UNCHANGED mutex_
  /\ UNCHANGED <<buffer_, size_, head_, inserted, readerVars>>

Lock(w) ==
  /\ wpc[w] = "idle" /\ mutex_ = "free" /\ inserted < MaxItems
  /\ mutex_' = "held" /\ Goto(w, "locked")
  /\ UNCHANGED <<buffer_, size_, head_, inserted, readerVars>>

\* A full queue gives no slot to write to.
PrepareInsert(w) ==
  /\ wpc[w] = "locked"
  /\ Goto(w, IF size_ = Capacity THEN "full" ELSE "write")
  /\ UNCHANGED <<buffer_, size_, head_, mutex_, inserted, readerVars>>

\* The caller writes to the slot: what is there meanwhile is no item.
BeginWrite(w) ==
  /\ wpc[w] = "write"
  /\ buffer_' = [buffer_ EXCEPT ![head_] = 0]
  /\ Goto(w, "writing")
  /\ UNCHANGED <<size_, head_, mutex_, inserted, readerVars>>

EndWrite(w) ==
  /\ wpc[w] = "writing"
  /\ buffer_' = [buffer_ EXCEPT ![head_] = inserted + 1]
  /\ Goto(w, "finish")
  /\ UNCHANGED <<size_, head_, mutex_, inserted, readerVars>>

\* Mutant: the writer stays where it is.
FinishInsertStays(w) ==
  /\ wpc[w] = "finish"
  /\ Goto(w, "increase")
  /\ UNCHANGED <<buffer_, size_, head_, mutex_, inserted, readerVars>>

FinishInsert(w) ==
  /\ wpc[w] = "finish"
  /\ head_' = (head_ + 1) % Capacity
  /\ Goto(w, "increase")
  /\ UNCHANGED <<buffer_, size_, mutex_, inserted, readerVars>>

IncreaseSize(w) ==
  /\ wpc[w] = "increase"
  /\ size_' = size_ + 1
  /\ inserted' = inserted + 1
  /\ Goto(w, "unlock")
  /\ UNCHANGED <<buffer_, head_, mutex_, readerVars>>

Unlock(w) ==
  /\ wpc[w] \in {"full", "unlock"}
  /\ mutex_' = "free" /\ Goto(w, "idle")
  /\ UNCHANGED <<buffer_, size_, head_, inserted, readerVars>>
-----------------------------------------------------------------------------
(* Front, KeepFront, DropFront; Pop is Front and DropFront *)

\* The reader has a pointer to the front element from here until it keeps or
\* drops it; an empty queue gives none.
Front ==
  /\ rpc = "idle" /\ size_ > 0
  /\ rpc' = "front"
  /\ UNCHANGED <<buffer_, size_, tail_, writerVars>>

KeepFront ==
  /\ rpc = "front"
  /\ rpc' = "idle"
  /\ UNCHANGED <<buffer_, size_, tail_, writerVars>>

DropFront ==
  /\ rpc = "front"
  /\ size_' = size_ - 1
  /\ rpc' = "advance"
  /\ UNCHANGED <<buffer_, tail_, writerVars>>

AdvanceTail ==
  /\ rpc = "advance"
  /\ tail_' = (tail_ + 1) % Capacity
  /\ rpc' = "idle"
  /\ UNCHANGED <<buffer_, size_, writerVars>>
-----------------------------------------------------------------------------
Writing(w) == \/ PrepareInsert(w) \/ BeginWrite(w) \/ EndWrite(w)
              \/ FinishInsert(w) \/ IncreaseSize(w)

Reading == Front \/ KeepFront \/ DropFront \/ AdvanceTail

\* Everything that the bound allows has been inserted, and read.
Drained == /\ inserted = MaxItems /\ size_ = 0 /\ mutex_ = "free" /\ rpc = "idle"
           /\ UNCHANGED vars

Next == \/ \E w \in Writers : Lock(w) \/ Writing(w) \/ Unlock(w)
        \/ Reading \/ Drained

Spec == Init /\ [][Next]_vars
-----------------------------------------------------------------------------
\* size_, an unsigned count, neither wraps around nor exceeds the capacity.
TypeOK ==
  /\ buffer_ \in [Slots -> 0 .. MaxItems]
  /\ head_ \in Slots /\ tail_ \in Slots /\ size_ \in 0 .. Capacity
  /\ mutex_ \in {"free", "held"}
  /\ wpc \in [Writers ->
       {"idle", "locked", "write", "writing", "finish", "increase", "full", "unlock"}]
  /\ rpc \in {"idle", "front", "advance"}
  /\ inserted \in 0 .. MaxItems

\* The writer has a pointer to the slot at head_.
Inserting(w) == wpc[w] \in {"write", "writing", "finish"}

\* There is no data race on an element, at any fill level: two writers never have
\* a pointer to one slot, nor have a writer and the reader.
SlotsApart ==
  /\ TypeOK
  /\ \A v, w \in Writers : Inserting(v) /\ Inserting(w) => v = w
  /\ rpc = "front" /\ (\E w \in Writers : Inserting(w)) => head_ # tail_

\* The slot of the i-th item in the queue.  Between the two halves of DropFront
\* the front is already the next slot.
SlotOf(i) == (tail_ + (IF rpc = "advance" THEN 1 ELSE 0) + i - 1) % Capacity

\* The ring buffer is a bounded queue: an insertion takes effect when size_ is
\* increased, a removal when it is decreased.
Q == INSTANCE Fifo WITH queue <- [i \in 1 .. size_ |-> buffer_[SlotOf(i)]], put <- inserted
ImplementsFifo == Q!Spec
=============================================================================
