--------------------------- MODULE RtQueueProofs ---------------------------
(***************************************************************************)
(* The ring buffer for every capacity, any number of writers and any number   *)
(* of items.  Reader and writer share only size_, so the proof has to say     *)
(* where their private indices are: head_ is size_ slots behind the front,    *)
(* but for the steps in which one of them has moved its index and not yet     *)
(* size_, or the other way round.                                             *)
(***************************************************************************)
EXTENDS RtQueue, SequenceTheorems, TLAPS

\* x % Capacity, for an x that wraps around at most once.
Wrap(x) == IF x < Capacity THEN x ELSE x - Capacity

\* The slot of the front element, and the slot after the last one.
FrontSlot == IF rpc = "advance" THEN Wrap(tail_ + 1) ELSE tail_
FreeSlot  == Wrap(FrontSlot + size_)

Busy(w)       == wpc[w] # "idle"
HasRoom(w)    == wpc[w] \in {"write", "writing", "finish", "increase"}

\* The mutex: it is held while a writer is in Insert, and by one only.
OneWriter ==
  /\ \A w \in Writers : Busy(w) => mutex_ = "held"
  /\ \A v, w \in Writers : Busy(v) /\ Busy(w) => v = w

\* Between PrepareInsert and IncreaseSize nobody else takes the free slot, and head_ is
\* at it until FinishInsert.
HeadInv ==
  /\ \A w \in Writers : HasRoom(w) => size_ < Capacity
  /\ \A w \in Writers : wpc[w] = "increase" => head_ = Wrap(FreeSlot + 1)
  /\ (\A w \in Writers : wpc[w] # "increase") => head_ = FreeSlot

\* The reader's element cannot go away.
FrontInv == rpc = "front" => size_ > 0

\* The queue holds the last size_ of the items inserted; a written item waits in the free
\* slot to become one of them.
ItemsInv ==
  /\ size_ <= inserted
  /\ \A i \in 1 .. size_ : buffer_[Wrap(FrontSlot + (i - 1))] = (inserted - size_) + i
  /\ \A w \in Writers :
       /\ Busy(w) /\ wpc[w] # "unlock" => inserted < MaxItems
       /\ wpc[w] \in {"finish", "increase"} => buffer_[FreeSlot] = inserted + 1

IInv == TypeOK /\ OneWriter /\ HeadInv /\ FrontInv /\ ItemsInv
-----------------------------------------------------------------------------
\* Indices wrap around at most once.
LEMMA WrapIsMod ==
  ASSUME NEW x \in 0 .. 2 * Capacity - 1
  PROVE  x % Capacity = Wrap(x) /\ Wrap(x) \in Slots
BY RtQueueAssumption DEF Wrap, Slots

\* An empty ring satisfies the invariant.
LEMMA InitIInv == Init => IInv
BY RtQueueAssumption DEF Init, IInv, TypeOK, OneWriter, HeadInv, FrontInv, ItemsInv, Slots,
   Busy, HasRoom, FrontSlot, FreeSlot, Wrap

\* The items are in slots of the buffer, all of them different from the free one.
LEMMA ItemSlots ==
  ASSUME TypeOK
  PROVE  /\ FrontSlot \in Slots /\ FreeSlot \in Slots
         /\ \A i \in 1 .. size_ :
              /\ Wrap(FrontSlot + (i - 1)) \in Slots
              /\ size_ < Capacity => Wrap(FrontSlot + (i - 1)) # FreeSlot
<1>1. FrontSlot \in Slots
  BY RtQueueAssumption DEF TypeOK, FrontSlot, Wrap, Slots
<1> QED
  BY <1>1, RtQueueAssumption DEF TypeOK, FreeSlot, Wrap, Slots

\* The steps of a writer.
LEMMA WriterIInv ==
  ASSUME IInv, NEW w \in Writers, Lock(w) \/ Writing(w) \/ Unlock(w)
  PROVE  IInv'
<1> USE RtQueueAssumption DEF IInv
<1>1. CASE Lock(w) \/ PrepareInsert(w) \/ Unlock(w)
  <2>1. /\ UNCHANGED <<buffer_, size_, head_, inserted, tail_, rpc>>
        /\ FrontSlot' = FrontSlot /\ FreeSlot' = FreeSlot
    BY <1>1 DEF Lock, PrepareInsert, Unlock, readerVars, FrontSlot, FreeSlot, Wrap
  <2>2. TypeOK' /\ OneWriter'
    BY <1>1, <2>1 DEF Lock, PrepareInsert, Unlock, Goto, TypeOK, OneWriter, Busy
  <2>3. HeadInv'
    BY <1>1, <2>1 DEF Lock, PrepareInsert, Unlock, Goto, TypeOK, OneWriter, HeadInv, Busy, HasRoom,
       Wrap
  <2>4. FrontInv' /\ ItemsInv'
    BY <1>1, <2>1 DEF Lock, PrepareInsert, Unlock, Goto, TypeOK, FrontInv, ItemsInv, Busy, Wrap
  <2> QED BY <2>2, <2>3, <2>4
<1>2. CASE BeginWrite(w) \/ EndWrite(w)
  <2>1. /\ UNCHANGED <<size_, head_, mutex_, inserted, tail_, rpc>>
        /\ FrontSlot' = FrontSlot /\ FreeSlot' = FreeSlot
    BY <1>2 DEF BeginWrite, EndWrite, readerVars, FrontSlot, FreeSlot, Wrap
  <2>2. head_ = FreeSlot /\ size_ < Capacity /\ inserted < MaxItems
    BY <1>2 DEF BeginWrite, EndWrite, OneWriter, HeadInv, ItemsInv, Busy, HasRoom
  <2>3. TypeOK' /\ OneWriter'
    BY <1>2, <2>1, <2>2 DEF BeginWrite, EndWrite, Goto, TypeOK, OneWriter, Busy
  <2>4. HeadInv' /\ FrontInv'
    BY <1>2, <2>1, <2>2
       DEF BeginWrite, EndWrite, Goto, TypeOK, OneWriter, HeadInv, FrontInv, Busy, HasRoom, Wrap
  <2>5. ASSUME NEW i \in 1 .. size_
        PROVE  buffer_'[Wrap(FrontSlot + (i - 1))] = buffer_[Wrap(FrontSlot + (i - 1))]
    BY <1>2, <2>2, ItemSlots DEF BeginWrite, EndWrite, TypeOK
  <2>6. ASSUME NEW v \in Writers, wpc'[v] \in {"finish", "increase"}
        PROVE  buffer_'[FreeSlot] = inserted + 1
    BY <1>2, <2>2, <2>6, ItemSlots DEF BeginWrite, EndWrite, Goto, TypeOK, OneWriter, Busy
  <2>7. ItemsInv'
    BY <1>2, <2>1, <2>2, <2>5, <2>6 DEF ItemsInv, Wrap
  <2> QED BY <2>3, <2>4, <2>7
<1>3. CASE FinishInsert(w)
  <2>1. /\ UNCHANGED <<buffer_, size_, mutex_, inserted, tail_, rpc>>
        /\ FrontSlot' = FrontSlot /\ FreeSlot' = FreeSlot
    BY <1>3 DEF FinishInsert, readerVars, FrontSlot, FreeSlot, Wrap
  <2>2. head_ = FreeSlot /\ size_ < Capacity
    BY <1>3 DEF FinishInsert, OneWriter, HeadInv, Busy, HasRoom
  <2>3. head_' = Wrap(head_ + 1) /\ head_' \in Slots
    <3>1. head_ + 1 \in 0 .. 2 * Capacity - 1
      BY DEF TypeOK, Slots
    <3> QED BY <1>3, <3>1, WrapIsMod DEF FinishInsert
  <2>4. TypeOK' /\ OneWriter'
    BY <1>3, <2>1, <2>3 DEF FinishInsert, Goto, TypeOK, OneWriter, Busy
  <2>5. HeadInv' /\ FrontInv'
    BY <1>3, <2>1, <2>2, <2>3
       DEF FinishInsert, Goto, TypeOK, OneWriter, HeadInv, FrontInv, Busy, HasRoom, Wrap
  <2>6. ItemsInv'
    BY <1>3, <2>1 DEF FinishInsert, Goto, TypeOK, ItemsInv, Busy, Wrap
  <2> QED BY <2>4, <2>5, <2>6
<1>4. CASE IncreaseSize(w)
  <2>1. /\ UNCHANGED <<buffer_, head_, mutex_, tail_, rpc>> /\ FrontSlot' = FrontSlot
        /\ size_' = size_ + 1 /\ inserted' = inserted + 1
    BY <1>4 DEF IncreaseSize, readerVars, FrontSlot, Wrap
  <2>2. /\ head_ = Wrap(FreeSlot + 1) /\ size_ < Capacity /\ inserted < MaxItems
        /\ buffer_[FreeSlot] = inserted + 1
    BY <1>4 DEF IncreaseSize, HeadInv, ItemsInv, HasRoom, Busy
  <2>3. FreeSlot' = Wrap(FreeSlot + 1)
    <3>1. FrontSlot \in Slots
      BY ItemSlots
    <3> QED BY <2>1, <2>2, <3>1 DEF TypeOK, FreeSlot, Wrap, Slots
  <2>4. TypeOK' /\ OneWriter'
    BY <1>4, <2>1, <2>2 DEF IncreaseSize, Goto, TypeOK, OneWriter, Busy
  <2>5. HeadInv' /\ FrontInv'
    BY <1>4, <2>1, <2>2, <2>3
       DEF IncreaseSize, Goto, TypeOK, OneWriter, HeadInv, FrontInv, Busy, HasRoom
  <2>6. ASSUME NEW i \in 1 .. size_ + 1
        PROVE  buffer_[Wrap(FrontSlot + (i - 1))] = (inserted - size_) + i
    <3>1. CASE i = size_ + 1
      BY <2>2, <3>1 DEF TypeOK, FreeSlot
    <3>2. CASE i \in 1 .. size_
      BY <3>2 DEF ItemsInv
    <3> QED BY <3>1, <3>2 DEF TypeOK
  <2>7. ItemsInv'
    BY <1>4, <2>1, <2>2, <2>6 DEF IncreaseSize, Goto, TypeOK, OneWriter, ItemsInv, Busy, Wrap
  <2> QED BY <2>4, <2>5, <2>7
<1> QED
  BY <1>1, <1>2, <1>3, <1>4 DEF Writing

\* The steps of the reader.
LEMMA ReaderIInv == ASSUME IInv, Reading PROVE IInv'
<1> USE RtQueueAssumption DEF IInv
<1>1. UNCHANGED <<buffer_, writerVars>>
  BY DEF Reading, Front, KeepFront, DropFront, AdvanceTail
<1>2. OneWriter'
  BY <1>1 DEF OneWriter, Busy, writerVars
<1>3. ASSUME TypeOK', UNCHANGED <<size_, FrontSlot>>, rpc' = "front" => size_ > 0
      PROVE  HeadInv' /\ FrontInv' /\ ItemsInv'
  <2>1. FreeSlot' = FreeSlot
    BY <1>3 DEF FreeSlot, Wrap
  <2> QED
    BY <1>1, <1>3, <2>1 DEF HeadInv, FrontInv, ItemsInv, HasRoom, Busy, Wrap, writerVars
<1>4. CASE Front \/ KeepFront
  <2>1. TypeOK' /\ UNCHANGED <<size_, FrontSlot>> /\ (rpc' = "front" => size_ > 0)
    BY <1>1, <1>4 DEF Front, KeepFront, TypeOK, FrontSlot, Wrap, writerVars
  <2> QED BY <1>2, <1>3, <2>1
<1>5. CASE AdvanceTail
  <2>1. tail_' = Wrap(tail_ + 1) /\ tail_' \in Slots
    BY <1>5, WrapIsMod DEF AdvanceTail, TypeOK, Slots
  <2>2. TypeOK' /\ UNCHANGED <<size_, FrontSlot>> /\ (rpc' = "front" => size_ > 0)
    BY <1>1, <1>5, <2>1 DEF AdvanceTail, TypeOK, FrontSlot, Wrap, writerVars
  <2> QED BY <1>2, <1>3, <2>2
<1>6. CASE DropFront
  <2>1. /\ size_ > 0 /\ size_' = size_ - 1
        /\ FrontSlot = tail_ /\ FrontSlot' = Wrap(tail_ + 1)
    BY <1>6 DEF DropFront, FrontInv, TypeOK, FrontSlot, Wrap
  <2>2. TypeOK'
    BY <1>1, <1>6, <2>1 DEF DropFront, TypeOK, writerVars
  <2>3. FreeSlot' = FreeSlot
    BY <2>1, <2>2 DEF TypeOK, FreeSlot, Wrap, Slots
  <2>4. HeadInv' /\ FrontInv'
    BY <1>1, <1>6, <2>1, <2>2, <2>3 DEF DropFront, HeadInv, FrontInv, HasRoom, TypeOK, Wrap, writerVars
  <2>5. ASSUME NEW i \in 1 .. size_ - 1
        PROVE  buffer_[Wrap(FrontSlot' + (i - 1))] = (inserted - (size_ - 1)) + i
    <3>1. Wrap(FrontSlot' + (i - 1)) = Wrap(FrontSlot + ((i + 1) - 1))
      BY <2>1 DEF TypeOK, Wrap, Slots
    <3> QED BY <2>1, <3>1 DEF ItemsInv, TypeOK
  <2>6. ItemsInv'
    BY <1>1, <2>1, <2>3, <2>5 DEF ItemsInv, Busy, TypeOK, Wrap, writerVars
  <2> QED BY <1>2, <2>2, <2>4, <2>6
<1> QED
  BY <1>4, <1>5, <1>6 DEF Reading

\* Every step preserves the invariant.
LEMMA NextIInv == IInv /\ [Next]_vars => IInv'
<1> SUFFICES ASSUME IInv, [Next]_vars PROVE IInv'
  OBVIOUS
<1>1. CASE UNCHANGED vars
  BY <1>1 DEF IInv, TypeOK, OneWriter, HeadInv, FrontInv, ItemsInv, Busy, HasRoom,
     FrontSlot, FreeSlot, Wrap, vars, writerVars, readerVars
<1> QED
  BY <1>1, WriterIInv, ReaderIInv DEF Next, Drained

\* The inductive invariant.
THEOREM InvariantHolds == Spec => []IInv
BY InitIInv, NextIInv, PTL DEF Spec

\* No element is ever accessed by two writers, or by a writer and the reader, at once.
THEOREM NoRace == Spec => []SlotsApart
<1>1. IInv => SlotsApart
  BY RtQueueAssumption DEF IInv, TypeOK, OneWriter, HeadInv, FrontInv, SlotsApart, Slots,
     Inserting, Busy, HasRoom, FrontSlot, FreeSlot, Wrap
<1> QED
  BY <1>1, InvariantHolds, PTL
-----------------------------------------------------------------------------
(* The ring buffer implements Fifo.  Its contents are given by two numbers, so *)
(* that only the steps that change these are steps of the queue.              *)

Contents == [i \in 1 .. size_ |-> buffer_[SlotOf(i)]]

LastItems == [i \in 1 .. size_ |-> (inserted - size_) + i]

\* The queue, read off the ring, holds the last items inserted.
LEMMA ContentsAre == IInv => Contents = LastItems
<1> SUFFICES ASSUME IInv PROVE Contents = LastItems
  OBVIOUS
<1>1. ASSUME NEW i \in 1 .. size_ PROVE SlotOf(i) = Wrap(FrontSlot + (i - 1))
  <2> DEFINE a == IF rpc = "advance" THEN 1 ELSE 0
  <2>1. a \in {0, 1} /\ FrontSlot = Wrap(tail_ + a)
    BY RtQueueAssumption DEF IInv, TypeOK, FrontSlot, Wrap, Slots
  <2>2. (tail_ + a) + (i - 1) \in 0 .. 2 * Capacity - 1
    BY <2>1, RtQueueAssumption DEF IInv, TypeOK, Slots
  <2>3. SlotOf(i) = Wrap((tail_ + a) + (i - 1))
    <3>1. \A x \in 0 .. 2 * Capacity - 1 : x % Capacity = Wrap(x)
      BY WrapIsMod
    <3> QED BY <2>2, <3>1 DEF SlotOf
  <2>4. Wrap((tail_ + a) + (i - 1)) = Wrap(Wrap(tail_ + a) + (i - 1))
    BY <2>1, RtQueueAssumption DEF IInv, TypeOK, Wrap, Slots
  <2> QED BY <2>1, <2>3, <2>4
<1> QED
  BY <1>1 DEF IInv, ItemsInv, Contents, LastItems

\* An empty ring is an empty queue.
LEMMA InitFifo == Init => Q!Init
BY DEF Init, Q!Init

\* Every step puts an item, drops one or is not visible.
LEMMA NextFifo == IInv /\ IInv' /\ [Next]_vars => [Q!Put \/ Q!Drop]_(Q!vars)
<1> SUFFICES ASSUME IInv, IInv', [Next]_vars PROVE [Q!Put \/ Q!Drop]_(Q!vars)
  OBVIOUS
<1>1. Contents = LastItems /\ (Contents = LastItems)'
  BY ContentsAre, PTL
<1>2. ASSUME NEW w \in Writers, IncreaseSize(w) PROVE Q!Put
  <2>1. /\ size_' = size_ + 1 /\ inserted' = inserted + 1 /\ size_ < Capacity
        /\ size_ \in Nat /\ inserted \in Nat
    BY <1>2 DEF IncreaseSize, IInv, TypeOK, HeadInv, HasRoom
  <2>2. Len(Contents) = size_ /\ Contents' = Append(Contents, inserted + 1)
    BY <1>1, <2>1 DEF LastItems
  <2> QED BY <2>1, <2>2 DEF Q!Put, Contents
<1>3. ASSUME DropFront PROVE Q!Drop
  <2>1. /\ size_' = size_ - 1 /\ inserted' = inserted /\ size_ > 0
        /\ size_ \in Nat /\ inserted \in Nat /\ size_ <= inserted
    BY <1>3 DEF DropFront, writerVars, IInv, TypeOK, FrontInv, ItemsInv
  <2>2. LastItems \in Seq(Nat) /\ Len(LastItems) = size_ /\ LastItems # << >>
    BY <2>1 DEF LastItems
  <2>3. LastItems' \in Seq(Nat) /\ Len(LastItems') = size_ - 1
    BY <2>1 DEF LastItems
  <2>4. ASSUME NEW i \in 1 .. size_ - 1 PROVE LastItems'[i] = LastItems[i + 1]
    BY <2>1 DEF LastItems
  <2>5. Tail(LastItems) = LastItems'
    <3>1. /\ Tail(LastItems) \in Seq(Nat) /\ Len(Tail(LastItems)) = size_ - 1
          /\ \A i \in 1 .. size_ - 1 : Tail(LastItems)[i] = LastItems[i + 1]
      BY <2>2, HeadTailProperties
    <3> QED BY <2>3, <2>4, <3>1, SeqEqual
  <2> QED BY <1>1, <2>1, <2>2, <2>5 DEF Q!Drop, Contents
<1>4. ASSUME UNCHANGED <<size_, inserted>> PROVE UNCHANGED Q!vars
  <2>1. LastItems' = LastItems
    BY <1>4 DEF LastItems
  <2> QED BY <1>1, <1>4, <2>1 DEF Q!vars, Contents
<1>5. ASSUME NEW w \in Writers,
             \/ Lock(w) \/ PrepareInsert(w) \/ BeginWrite(w) \/ EndWrite(w)
             \/ FinishInsert(w) \/ Unlock(w)
      PROVE  UNCHANGED <<size_, inserted>>
  BY <1>5 DEF Lock, PrepareInsert, BeginWrite, EndWrite, FinishInsert, Unlock
<1>6. ASSUME Front \/ KeepFront \/ AdvanceTail \/ Drained \/ UNCHANGED vars
      PROVE  UNCHANGED <<size_, inserted>>
  BY <1>6 DEF Front, KeepFront, AdvanceTail, Drained, vars, writerVars
<1> QED
  BY <1>2, <1>3, <1>4, <1>5, <1>6 DEF Next, Writing, Reading

\* RtQueueBuffer, with writers that exclude each other and a reader that takes no lock, is
\* a bounded first-in first-out queue, whatever its capacity and the interleaving.
THEOREM Refinement == Spec => ImplementsFifo
BY InvariantHolds, InitFifo, NextFifo, PTL DEF Spec, ImplementsFifo, Q!Spec
=============================================================================
