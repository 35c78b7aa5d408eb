------------------------- MODULE RealtimeWriteQueue -------------------------
(***************************************************************************)
(* intrinsic/platform/common/buffers/realtime_write_queue.h: the ring buffer  *)
(* of RtQueue with a binary futex on which the reader blocks.  Write inserts  *)
(* and then posts; Read waits only when it has consumed all the items it knew *)
(* of, and then looks at the size of the buffer once.                         *)
(***************************************************************************)
EXTENDS Naturals

CONSTANTS
  Capacity,
  MaxItems      \* bound on items written

ASSUME RealtimeWriteQueueAssumption ==
  Capacity \in Nat \ {0} /\ MaxItems \in Nat

VARIABLES
  buffer_, head_, tail_, size_, mutex_, wpc, rpc, inserted,   \* the RtQueue
  notification_,      \* "kReady", "kPosted" or "kClosed"
  npc,                \* where the reader is in ReadWithTimeout
  closed_, count_available_,
  result,             \* of the last Read
  consumed            \* history: the last item read

queue  == <<buffer_, head_, tail_, size_, mutex_, wpc, rpc, inserted>>
reader == <<npc, closed_, count_available_, result, consumed>>
vars   == <<queue, notification_, reader>>

Q == INSTANCE RtQueue WITH Writers <- {"writer"}

Init == /\ Q!Init /\ notification_ = "kReady"
        /\ npc = "idle" /\ closed_ = FALSE /\ count_available_ = 0
        /\ result = "none" /\ consumed = 0
-----------------------------------------------------------------------------
(* RtWriter *)

\* Write, up to its end; one that finds the queue full returns without a post.
Write ==
  /\ notification_ # "kClosed"
  /\ \/ Q!Lock("writer") \/ Q!Writing("writer")
     \/ wpc["writer"] = "full" /\ Q!Unlock("writer")
  /\ UNCHANGED <<notification_, reader>>

\* Mutant: only a write to an empty queue posts, and posts first.
PostIfFirst ==
  /\ wpc["writer"] = "unlock" /\ Q!Unlock("writer")
  /\ notification_' = IF size_ = 1 /\ notification_ = "kReady" THEN "kPosted" ELSE notification_
  /\ UNCHANGED reader

Post ==
  /\ wpc["writer"] = "unlock" /\ Q!Unlock("writer")
  /\ notification_' = IF notification_ = "kReady" THEN "kPosted" ELSE notification_
  /\ UNCHANGED reader

\* Nothing is written any more.
Close ==
  /\ wpc["writer"] = "idle" /\ notification_ # "kClosed"
  /\ notification_' = "kClosed"
  /\ UNCHANGED <<queue, reader>>
-----------------------------------------------------------------------------
(* NonRtReader::ReadWithTimeout *)

ReturnEmpty(closed) ==
  /\ npc' = "idle" /\ result' = IF closed THEN "kClosed" ELSE "kDeadlineExceeded"
  /\ UNCHANGED consumed

Read ==
  /\ npc = "idle"
  /\ \/ count_available_ = 0 /\ closed_ /\ ReturnEmpty(TRUE)
     \/ /\ ~(count_available_ = 0 /\ closed_)
        /\ npc' = IF count_available_ = 0 THEN "wait" ELSE "front"
        /\ UNCHANGED <<result, consumed>>
  /\ UNCHANGED <<queue, notification_, closed_, count_available_>>

\* Mutant: a closed queue is taken for an empty one.
WaitNotificationReturns ==
  /\ npc = "wait" /\ notification_ # "kReady"
  /\ \/ /\ notification_ = "kPosted" /\ notification_' = "kReady" /\ npc' = "size"
        /\ UNCHANGED <<closed_, result, consumed>>
     \/ /\ notification_ = "kClosed" /\ closed_' = TRUE /\ ReturnEmpty(TRUE)
        /\ UNCHANGED notification_
  /\ UNCHANGED <<queue, count_available_>>

WaitNotification ==
  /\ npc = "wait" /\ notification_ # "kReady"
  /\ \/ notification_ = "kPosted" /\ notification_' = "kReady" /\ UNCHANGED closed_
     \/ notification_ = "kClosed" /\ UNCHANGED notification_ /\ closed_' = TRUE
  /\ npc' = "size"
  /\ UNCHANGED <<queue, count_available_, result, consumed>>

WaitTimeout ==
  /\ npc = "wait" /\ notification_ = "kReady"
  /\ npc' = "size"
  /\ UNCHANGED <<queue, notification_, closed_, count_available_, result, consumed>>

LoadSize ==
  /\ npc = "size"
  /\ count_available_' = size_
  /\ IF size_ = 0 THEN ReturnEmpty(closed_)
                  ELSE npc' = "front" /\ UNCHANGED <<result, consumed>>
  /\ UNCHANGED <<queue, notification_, closed_>>

\* The element must not be nullptr (CHECK).
Front ==
  /\ npc = "front"
  /\ Q!Front /\ npc' = "read"
  /\ UNCHANGED <<notification_, closed_, count_available_, result, consumed>>

Consume ==
  /\ npc = "read"
  /\ consumed' = buffer_[tail_]
  /\ Q!DropFront
  /\ npc' = "drop"
  /\ UNCHANGED <<notification_, closed_, count_available_, result>>

\* Mutant: the items known of are not counted down.
DropKeepsCount ==
  /\ npc = "drop"
  /\ Q!AdvanceTail
  /\ npc' = "idle" /\ result' = "kConsumed"
  /\ UNCHANGED <<notification_, closed_, count_available_, consumed>>

Drop ==
  /\ npc = "drop"
  /\ Q!AdvanceTail
  /\ count_available_' = count_available_ - 1
  /\ npc' = "idle" /\ result' = "kConsumed"
  /\ UNCHANGED <<notification_, closed_, consumed>>
-----------------------------------------------------------------------------
Reader == \/ Read \/ WaitNotification \/ LoadSize
          \/ Front \/ Consume \/ Drop

Next == Write \/ Post \/ Close \/ Reader \/ WaitTimeout

Spec == Init /\ [][Next]_vars

\* The reader's thread reads in a loop; a write that has begun ends.  A read may
\* be one without a deadline, so that no wait has to time out.
FairSpec ==
  /\ Spec /\ WF_vars(Reader)
  /\ WF_vars(wpc["writer"] # "idle" /\ (Write \/ Post))
-----------------------------------------------------------------------------
\* The reader's count, an unsigned number, does not wrap around.
TypeOK ==
  /\ Q!TypeOK
  /\ notification_ \in {"kReady", "kPosted", "kClosed"}
  /\ npc \in {"idle", "wait", "size", "front", "read", "drop"}
  /\ closed_ \in BOOLEAN /\ count_available_ \in 0 .. Capacity
  /\ result \in {"none", "kConsumed", "kClosed", "kDeadlineExceeded"}
  /\ consumed \in 0 .. MaxItems

\* The CHECK in ReadWithTimeout "is guaranteed to never happen": whatever is
\* written meanwhile, the buffer holds the items that the reader counts on.
NeverAborts == TypeOK /\ (npc = "front" => size_ > 0)

\* kClosed means that the writer has closed the queue "*and* all values have been
\* consumed": nothing that was written before Close is given up, nor read twice.
ClosedMeansDrained == result = "kClosed" => notification_ = "kClosed" /\ consumed = inserted

\* Every item that is written is read (realtime_write_queue.h:147-179, 182-190),
\* without a deadline and without another write: no post that the reader needs is
\* lost between its wait and its look at the size.
AllConsumed == \A n \in 1 .. MaxItems : inserted >= n ~> consumed >= n
=============================================================================
