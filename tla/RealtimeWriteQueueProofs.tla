---------------------- MODULE RealtimeWriteQueueProofs ----------------------
(***************************************************************************)
(* The blocking queue for every capacity.  What RtQueueProofs establishes     *)
(* about the ring buffer carries over, because every step here is one of the  *)
(* ring buffer's or leaves it alone; on top of it the reader's own count has  *)
(* to be related to the size that the writer increases at the same time.      *)
(***************************************************************************)
EXTENDS RealtimeWriteQueue, TLAPS

R == INSTANCE RtQueueProofs WITH Writers <- {"writer"}

\* Where the reader is in the ring buffer.
InBuffer ==
  /\ npc = "read" <=> rpc = "front"
  /\ npc = "drop" <=> rpc = "advance"

\* The items that the reader knows of and has not taken out of the buffer yet.
Known == IF npc = "drop" THEN count_available_ - 1 ELSE count_available_

\* The reader never counts on more than there is, and waits only when it has taken all it
\* knew of.
CountInv ==
  /\ 0 <= Known /\ Known <= size_
  /\ npc \in {"front", "read"} => Known > 0
  /\ npc \in {"wait", "size"} => count_available_ = 0

\* Nothing is written to a closed queue; so what the reader counts once it has seen the
\* queue closed is all there is.
ClosedInv ==
  /\ notification_ = "kClosed" => wpc["writer"] = "idle"
  /\ closed_ => notification_ = "kClosed"
  /\ closed_ /\ npc # "size" => Known = size_
  /\ npc = "wait" => ~closed_
  /\ result = "kClosed" => closed_ /\ npc = "idle" /\ size_ = 0

\* The items are read one by one.
ConsumedInv == consumed + size_ = inserted

IInv == TypeOK /\ R!IInv /\ InBuffer /\ CountInv /\ ClosedInv /\ ConsumedInv
-----------------------------------------------------------------------------
LEMMA BufferAssumption == R!RtQueueAssumption
BY RealtimeWriteQueueAssumption DEF R!RtQueueAssumption

\* The ring buffer has its types.
LEMMA BufferTypeOK == R!IInv => Q!TypeOK
BY DEF R!IInv, R!TypeOK, Q!TypeOK, R!Slots, Q!Slots

\* A new queue satisfies the invariant.
LEMMA InitIInv == Init => IInv
<1> SUFFICES ASSUME Init PROVE IInv
  OBVIOUS
<1>1. R!IInv
  BY BufferAssumption, R!InitIInv DEF Init, Q!Init, R!Init, Q!Slots, R!Slots
<1>2. TypeOK
  <2>1. closed_ \in BOOLEAN BY DEF Init
  <2> QED BY <1>1, <2>1, BufferTypeOK, RealtimeWriteQueueAssumption DEF Init, TypeOK
<1> QED
  BY <1>1, <1>2 DEF IInv, Init, Q!Init, InBuffer, CountInv, ClosedInv, ConsumedInv, Known

\* Steps beside the ring buffer keep its invariant.
LEMMA BufferUnchanged == ASSUME R!IInv, UNCHANGED queue PROVE R!IInv'
<1>1. UNCHANGED R!vars
  BY DEF queue, R!vars, R!writerVars, R!readerVars
<1> QED
  BY <1>1, BufferAssumption, R!NextIInv

\* A step of the writer in the ring buffer.
LEMMA WriterInBuffer ==
  ASSUME R!IInv, Q!Lock("writer") \/ Q!Writing("writer") \/ Q!Unlock("writer")
  PROVE  R!IInv'
<1>1. R!Lock("writer") \/ R!Writing("writer") \/ R!Unlock("writer")
  BY DEF Q!Lock, Q!Writing, Q!Unlock, Q!PrepareInsert, Q!BeginWrite, Q!EndWrite,
     Q!FinishInsert, Q!IncreaseSize, Q!Goto, Q!readerVars,
     R!Lock, R!Writing, R!Unlock, R!PrepareInsert, R!BeginWrite, R!EndWrite,
     R!FinishInsert, R!IncreaseSize, R!Goto, R!readerVars
<1> QED
  BY <1>1, BufferAssumption, R!WriterIInv

\* A step of the reader in the ring buffer.
LEMMA ReaderInBuffer ==
  ASSUME R!IInv, Q!Front \/ Q!DropFront \/ Q!AdvanceTail
  PROVE  R!IInv'
<1>1. R!Reading
  BY DEF Q!Front, Q!DropFront, Q!AdvanceTail, Q!writerVars,
     R!Reading, R!Front, R!DropFront, R!AdvanceTail, R!writerVars
<1> QED
  BY <1>1, BufferAssumption, R!ReaderIInv

\* The steps of the writer.
LEMMA WriterIInv == ASSUME IInv, Write \/ Post \/ Close PROVE IInv'
<1> USE DEF IInv
<1>1. R!IInv' /\ Q!TypeOK'
  <2>1. R!IInv'
    <3>1. CASE Write \/ Post
      BY <3>1, WriterInBuffer DEF Write, Post
    <3>2. CASE Close
      BY <3>2, BufferUnchanged DEF Close
    <3> QED BY <3>1, <3>2
  <2> QED BY <2>1, BufferTypeOK, PTL
<1>2. UNCHANGED <<npc, closed_, count_available_, result, consumed, rpc, tail_>>
  BY DEF Write, Post, Close, reader, queue, Q!Lock, Q!Writing, Q!Unlock, Q!PrepareInsert,
     Q!BeginWrite, Q!EndWrite, Q!FinishInsert, Q!IncreaseSize, Q!readerVars
<1>3. TypeOK'
  BY <1>1, <1>2 DEF TypeOK, Write, Post, Close
<1>4. \/ size_' = size_ /\ inserted' = inserted
      \/ size_' = size_ + 1 /\ inserted' = inserted + 1
  BY DEF Write, Post, Close, queue, Q!Lock, Q!Writing, Q!Unlock, Q!PrepareInsert,
     Q!BeginWrite, Q!EndWrite, Q!FinishInsert, Q!IncreaseSize
<1>5. notification_ # "kClosed" /\ closed_ = FALSE
  BY DEF Write, Post, Close, ClosedInv, TypeOK
<1>6. notification_' = "kClosed" => wpc'["writer"] = "idle"
  BY <1>5 DEF Write, Post, Close, queue
<1>7. size_ \in Nat /\ inserted \in Nat /\ consumed \in Nat /\ count_available_ \in Nat
  BY DEF TypeOK, Q!TypeOK
<1>8. InBuffer' /\ CountInv' /\ ConsumedInv'
  BY <1>2, <1>4, <1>7 DEF InBuffer, CountInv, ConsumedInv, Known
<1>9. ClosedInv'
  BY <1>2, <1>5, <1>6 DEF ClosedInv
<1> QED
  BY <1>1, <1>3, <1>8, <1>9

\* The steps of the reader.
LEMMA ReaderIInv == ASSUME IInv, Reader \/ WaitTimeout PROVE IInv'
<1> USE DEF IInv
<1>1. /\ size_ \in 0 .. Capacity /\ inserted \in Nat /\ consumed \in Nat
      /\ count_available_ \in Nat /\ Capacity \in Nat
  BY RealtimeWriteQueueAssumption DEF TypeOK, Q!TypeOK
<1>2. CASE UNCHANGED queue
  <2>1. R!IInv' /\ Q!TypeOK'
    <3>1. R!IInv' BY <1>2, BufferUnchanged
    <3> QED BY <3>1, BufferTypeOK, PTL
  <2>2. UNCHANGED <<size_, inserted, wpc, rpc>>
    BY <1>2 DEF queue
  <2>3. CASE Read
    <3>1. TypeOK'
      BY <1>2, <2>1, <2>3 DEF TypeOK, Read, ReturnEmpty
    <3>2. InBuffer' /\ CountInv' /\ ClosedInv' /\ ConsumedInv'
      BY <1>1, <2>2, <2>3 DEF Read, ReturnEmpty, InBuffer, CountInv, ClosedInv, ConsumedInv, Known
    <3> QED BY <2>1, <3>1, <3>2
  <2>4. CASE WaitNotification \/ WaitTimeout
    <3>1. TypeOK'
      BY <1>2, <2>1, <2>4 DEF TypeOK, WaitNotification, WaitTimeout
    <3>2. InBuffer' /\ CountInv' /\ ClosedInv' /\ ConsumedInv'
      BY <1>1, <2>2, <2>4
         DEF WaitNotification, WaitTimeout, InBuffer, CountInv, ClosedInv, ConsumedInv, Known
    <3> QED BY <2>1, <3>1, <3>2
  <2>5. CASE LoadSize
    <3>1. TypeOK'
      BY <1>1, <1>2, <2>1, <2>5 DEF TypeOK, LoadSize, ReturnEmpty
    <3>2. InBuffer' /\ CountInv' /\ ClosedInv' /\ ConsumedInv'
      BY <1>1, <2>2, <2>5
         DEF LoadSize, ReturnEmpty, InBuffer, CountInv, ClosedInv, ConsumedInv, Known
    <3> QED BY <2>1, <3>1, <3>2
  <2>6. ~(Front \/ Consume \/ Drop)
    BY <1>2 DEF Front, Consume, Drop, queue, Q!Front, Q!DropFront, Q!AdvanceTail
  <2> QED BY <2>3, <2>4, <2>5, <2>6 DEF Reader
<1>3. CASE Front \/ Consume \/ Drop
  <2>1. R!IInv' /\ Q!TypeOK'
    <3>1. R!IInv' BY <1>3, ReaderInBuffer DEF Front, Consume, Drop
    <3> QED BY <3>1, BufferTypeOK, PTL
  <2>2. UNCHANGED <<inserted, wpc>>
    BY <1>3 DEF Front, Consume, Drop, Q!Front, Q!DropFront, Q!AdvanceTail, Q!writerVars
  <2>3. CASE Front
    <3>1. UNCHANGED size_ /\ rpc' = "front"
      BY <2>3 DEF Front, Q!Front
    <3>2. TypeOK'
      BY <2>1, <2>3 DEF TypeOK, Front
    <3>3. InBuffer' /\ CountInv' /\ ClosedInv' /\ ConsumedInv'
      BY <1>1, <2>2, <2>3, <3>1 DEF Front, InBuffer, CountInv, ClosedInv, ConsumedInv, Known
    <3> QED BY <2>1, <3>2, <3>3
  <2>4. CASE Consume
    <3>1. size_' = size_ - 1 /\ rpc' = "advance" /\ rpc = "front"
      BY <2>4 DEF Consume, Q!DropFront
    <3>2. consumed' = consumed + 1
      <4>1. size_ > 0 /\ tail_ \in 0 .. Capacity - 1
        BY <3>1 DEF R!IInv, R!FrontInv, R!TypeOK, R!Slots
      <4>2. buffer_[R!Wrap(R!FrontSlot + (1 - 1))] = (inserted - size_) + 1
        BY <1>1, <4>1 DEF R!IInv, R!ItemsInv
      <4>3. R!Wrap(R!FrontSlot + (1 - 1)) = tail_
        BY <1>1, <3>1, <4>1 DEF R!FrontSlot, R!Wrap
      <4> QED BY <1>1, <2>4, <4>2, <4>3 DEF Consume, ConsumedInv
    <3>3. TypeOK'
      <4>1. size_' >= 0 /\ inserted \in 0 .. MaxItems
        BY <2>1 DEF TypeOK, Q!TypeOK
      <4>2. consumed' \in 0 .. MaxItems
        BY <1>1, <3>1, <3>2, <4>1, RealtimeWriteQueueAssumption DEF ConsumedInv
      <4> QED BY <2>1, <2>4, <4>2 DEF TypeOK, Consume
    <3>4. InBuffer' /\ CountInv' /\ ClosedInv' /\ ConsumedInv'
      BY <1>1, <2>2, <2>4, <3>1, <3>2
         DEF Consume, InBuffer, CountInv, ClosedInv, ConsumedInv, Known
    <3> QED BY <2>1, <3>3, <3>4
  <2>5. CASE Drop
    <3>1. UNCHANGED size_ /\ rpc' = "idle"
      BY <2>5 DEF Drop, Q!AdvanceTail
    <3>2. TypeOK'
      BY <1>1, <2>1, <2>5 DEF TypeOK, Drop, CountInv, Known
    <3>3. InBuffer' /\ CountInv' /\ ClosedInv' /\ ConsumedInv'
      BY <1>1, <2>2, <2>5, <3>1 DEF Drop, InBuffer, CountInv, ClosedInv, ConsumedInv, Known
    <3> QED BY <2>1, <3>2, <3>3
  <2> QED BY <1>3, <2>3, <2>4, <2>5
<1> QED
  BY <1>2, <1>3 DEF Reader, Read, WaitNotification, WaitTimeout, LoadSize

\* Every step preserves the invariant.
LEMMA NextIInv == IInv /\ [Next]_vars => IInv'
<1> SUFFICES ASSUME IInv, [Next]_vars PROVE IInv'
  OBVIOUS
<1>1. CASE UNCHANGED vars
  <2>1. R!IInv'
    BY <1>1, BufferUnchanged DEF vars, IInv
  <2>2. Q!TypeOK'
    BY <2>1, BufferTypeOK, PTL
  <2> QED
    BY <1>1, <2>1, <2>2 DEF vars, queue, reader, IInv, TypeOK, InBuffer, CountInv, ClosedInv,
       ConsumedInv, Known
<1> QED
  BY <1>1, WriterIInv, ReaderIInv DEF Next

\* The inductive invariant.
THEOREM InvariantHolds == Spec => []IInv
BY InitIInv, NextIInv, PTL DEF Spec

\* The CHECK in ReadWithTimeout never fails, and the unsigned count never wraps around, at
\* any capacity.
THEOREM ReaderNeverAborts == Spec => []NeverAborts
<1>1. IInv => NeverAborts
  BY DEF IInv, TypeOK, Q!TypeOK, CountInv, Known, NeverAborts
<1> QED
  BY <1>1, InvariantHolds, PTL

\* kClosed is returned only when everything that was ever written has been read.
THEOREM ClosedIsDrained == Spec => []ClosedMeansDrained
<1>1. IInv => ClosedMeansDrained
  BY DEF IInv, TypeOK, Q!TypeOK, ClosedInv, ConsumedInv, ClosedMeansDrained
<1> QED
  BY <1>1, InvariantHolds, PTL
=============================================================================
