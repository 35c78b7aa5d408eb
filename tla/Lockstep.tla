------------------------------ MODULE Lockstep ------------------------------
(***************************************************************************)
(* intrinsic/util/thread/lockstep.cc: operations A and B alternate.  A start  *)
(* waits for the other side's futex, then looks at state_ twice and stores    *)
(* it; an end looks at state_ twice, stores it and posts its own futex.       *)
(* Nothing but the futex keeps Cancel and Reset, which store state_ too, out  *)
(* of the gaps between those steps.                                           *)
(*                                                                            *)
(* Every load, store and futex operation is a step.  Spec is about threads    *)
(* that call StartA/EndA or StartB/EndB according to Side; Cancel and Reset   *)
(* are for the modules that use the lockstep (RealtimeClock).                 *)
(***************************************************************************)
CONSTANTS
  Threads,
  Side,      \* which operation a thread performs
  Timeouts   \* the threads whose starts have a deadline

ASSUME LockstepAssumption ==
  Side \in [Threads -> {"A", "B"}] /\ Timeouts \subseteq Threads

VARIABLES
  state_,
  finished,   \* finished["A"] is a_finished_, finished["B"] is b_finished_
  pc,         \* where each thread is in its call
  res,        \* the status of its last call
  inside      \* the threads inside their operation

vars == <<state_, finished, pc, res, inside>>

Sides    == {"A", "B"}
Running  == [x \in Sides |-> IF x = "A" THEN "kARunning" ELSE "kBRunning"]
Finished == [x \in Sides |-> IF x = "A" THEN "kAFinished" ELSE "kBFinished"]
Other(x) == IF x = "A" THEN "B" ELSE "A"
States   == {"kARunning", "kAFinished", "kBRunning", "kBFinished", "kCancelled"}

Init ==
  /\ state_ = "kBFinished"
  /\ finished = [x \in Sides |-> IF x = "A" THEN "kReady" ELSE "kPosted"]
  /\ pc = [t \in Threads |-> "idle"] /\ res = [t \in Threads |-> "none"]
  /\ inside = {}

Goto(t, l)   == pc' = [pc EXCEPT ![t] = l] /\ UNCHANGED res
Return(t, s) == pc' = [pc EXCEPT ![t] = "idle"] /\ res' = [res EXCEPT ![t] = s]

\* The binary futexes: a post sets the flag, a wait that succeeds clears it.
Posted(x) == finished[x] = "kPosted"
Take(x)   == Posted(x) /\ finished' = [finished EXCEPT ![x] = "kReady"]

Post(x) == finished' = [finished EXCEPT ![x] = "kPosted"]
-----------------------------------------------------------------------------
(* StartOperationXWithDeadline *)

StartOperation(t) ==
  /\ pc[t] = "idle"
  /\ Goto(t, "wait")
  /\ UNCHANGED <<state_, finished, inside>>

\* Mutant: a futex that wakes its waiter without being consumed.
StartWaitKeeps(t) ==
  /\ pc[t] = "wait" /\ Posted(Other(Side[t]))
  /\ Goto(t, "startCheck")
  /\ UNCHANGED <<state_, finished, inside>>

StartWait(t) ==
  /\ pc[t] = "wait" /\ Take(Other(Side[t]))
  /\ Goto(t, "startCheck")
  /\ UNCHANGED <<state_, inside>>

StartTimeout(t) ==
  /\ t \in Timeouts
  /\ pc[t] = "wait" /\ ~Posted(Other(Side[t]))
  /\ Return(t, "kDeadlineExceeded")
  /\ UNCHANGED <<state_, finished, inside>>

StartCheck(t) ==
  /\ pc[t] = "startCheck"
  /\ Goto(t, IF state_ = "kCancelled" THEN "startRepost" ELSE "startExpect")
  /\ UNCHANGED <<state_, finished, inside>>

\* The next waiter is let go as well.
StartRepost(t) ==
  /\ pc[t] = "startRepost"
  /\ Post(Other(Side[t]))
  /\ Return(t, "kAborted")
  /\ UNCHANGED <<state_, inside>>

StartExpect(t) ==
  /\ pc[t] = "startExpect"
  /\ IF state_ = Finished[Other(Side[t])] THEN Goto(t, "startStore")
                                          ELSE Return(t, "kFailedPrecondition")
  /\ UNCHANGED <<state_, finished, inside>>

StartStore(t) ==
  /\ pc[t] = "startStore"
  /\ state_' = Running[Side[t]]
  /\ inside' = inside \cup {t}
  /\ Return(t, "kOk")
  /\ UNCHANGED <<finished>>
-----------------------------------------------------------------------------
(* EndOperationX: the thread leaves its operation *)

EndOperation(t) ==
  /\ pc[t] = "idle"
  /\ inside' = inside \ {t}
  /\ Goto(t, "endCheck")
  /\ UNCHANGED <<state_, finished>>

EndCheck(t) ==
  /\ pc[t] = "endCheck"
  /\ IF state_ = "kCancelled" THEN Return(t, "kOk") ELSE Goto(t, "endExpect")
  /\ UNCHANGED <<state_, finished, inside>>

EndExpect(t) ==
  /\ pc[t] = "endExpect"
  /\ IF state_ = Running[Side[t]] THEN Goto(t, "endStore")
                                  ELSE Return(t, "kFailedPrecondition")
  /\ UNCHANGED <<state_, finished, inside>>

EndStore(t) ==
  /\ pc[t] = "endStore"
  /\ state_' = Finished[Side[t]]
  /\ Goto(t, "endPost")
  /\ UNCHANGED <<finished, inside>>

\* Mutant: the own side's next start is let go.
EndPostSwapped(t) ==
  /\ pc[t] = "endPost"
  /\ Post(Other(Side[t]))
  /\ Return(t, "kOk")
  /\ UNCHANGED <<state_, inside>>

\* Mutant: nobody is let go.
EndPostSkipped(t) ==
  /\ pc[t] = "endPost"
  /\ Return(t, "kOk")
  /\ UNCHANGED <<state_, finished, inside>>

EndPost(t) ==
  /\ pc[t] = "endPost"
  /\ Post(Side[t])
  /\ Return(t, "kOk")
  /\ UNCHANGED <<state_, inside>>
-----------------------------------------------------------------------------
(* Cancel and Reset *)

Cancel(t) ==
  /\ pc[t] = "idle"
  /\ state_' = "kCancelled"
  /\ Goto(t, "cancelPostA")
  /\ UNCHANGED <<finished, inside>>

CancelPostA(t) ==
  /\ pc[t] = "cancelPostA"
  /\ Post("A")
  /\ Goto(t, "cancelPostB")
  /\ UNCHANGED <<state_, inside>>

CancelPostB(t) ==
  /\ pc[t] = "cancelPostB"
  /\ Post("B")
  /\ Return(t, "kOk")
  /\ UNCHANGED <<state_, inside>>

Reset(t) ==
  /\ pc[t] = "idle"
  /\ IF state_ = "kCancelled" THEN Goto(t, "resetWaitA")
                              ELSE Return(t, "kFailedPrecondition")
  /\ UNCHANGED <<state_, finished, inside>>

ResetWaitA(t) ==
  /\ pc[t] = "resetWaitA" /\ Take("A")
  /\ Goto(t, "resetWaitB")
  /\ UNCHANGED <<state_, inside>>

ResetWaitB(t) ==
  /\ pc[t] = "resetWaitB" /\ Take("B")
  /\ Goto(t, "resetStore")
  /\ UNCHANGED <<state_, inside>>

\* Reset gives up; what it has taken stays taken.
ResetTimeout(t) ==
  /\ \/ pc[t] = "resetWaitA" /\ ~Posted("A")
     \/ pc[t] = "resetWaitB" /\ ~Posted("B")
  /\ Return(t, "kDeadlineExceeded")
  /\ UNCHANGED <<state_, finished, inside>>

ResetStore(t) ==
  /\ pc[t] = "resetStore"
  /\ state_' = "kBFinished"
  /\ Goto(t, "resetPost")
  /\ UNCHANGED <<finished, inside>>

ResetPost(t) ==
  /\ pc[t] = "resetPost"
  /\ Post("B")
  /\ Return(t, "kOk")
  /\ UNCHANGED <<state_, inside>>
-----------------------------------------------------------------------------
StartStep(t) == StartWait(t) \/ StartCheck(t) \/ StartExpect(t) \/ StartStore(t)
InStart(t)   == StartStep(t) \/ StartTimeout(t)
InEnd(t)    == EndCheck(t) \/ EndExpect(t) \/ EndStore(t) \/ EndPost(t)
\* The steps of a Cancel, and of the starts that it aborts.
InCancel(t) == CancelPostA(t) \/ CancelPostB(t) \/ StartRepost(t)
InReset(t)  == \/ ResetWaitA(t) \/ ResetWaitB(t) \/ ResetTimeout(t)
               \/ ResetStore(t) \/ ResetPost(t)

\* What the callers keep to: an operation is ended once, by the thread that
\* started it.
Next == \E t \in Threads :
  \/ t \notin inside /\ StartOperation(t)
  \/ t \in inside /\ EndOperation(t)
  \/ InStart(t) \/ InEnd(t)

Spec == Init /\ [][Next]_vars

\* A call goes on, operations end, and each side keeps coming back for more.  No
\* start has to time out: Lockstep may be used without deadlines.
FairSpec ==
  /\ Spec
  /\ \A t \in Threads :
       /\ WF_vars(StartStep(t) \/ InEnd(t))
       /\ WF_vars(t \in inside /\ EndOperation(t))
       /\ WF_vars(t \notin inside /\ StartOperation(t))
-----------------------------------------------------------------------------
OperationPC == {"wait", "startCheck", "startRepost", "startExpect", "startStore",
                "endCheck", "endExpect", "endStore", "endPost"}
ControlPC   == {"cancelPostA", "cancelPostB", "resetWaitA", "resetWaitB", "resetStore",
                "resetPost"}
Statuses == {"none", "kOk", "kAborted", "kDeadlineExceeded", "kFailedPrecondition"}

TypeOK ==
  /\ state_ \in States
  /\ finished \in [Sides -> {"kReady", "kPosted"}]
  /\ pc \in [Threads -> {"idle"} \cup OperationPC \cup ControlPC]
  /\ res \in [Threads -> Statuses]
  /\ inside \subseteq Threads

\* Lockstep "ensures that these operations are performed ... with mutual
\* exclusion": no two threads are inside an operation at once, of one kind or of
\* both, however many threads call the two starts.
MutualExclusion == \A s, t \in inside : s = t

\* Without a Cancel, callers that end what they started never get
\* FailedPrecondition: the futexes alone keep state_ where it is expected.
NoMismatch == \A t \in Threads : res[t] # "kFailedPrecondition"

\* A, B, A, B, ...: the operations of all threads together alternate.
A == INSTANCE Alternation WITH
       active <- CASE \E t \in inside : Side[t] = "A" -> "A"
                   [] \E t \in inside : Side[t] = "B" -> "B"
                   [] OTHER -> "none",
       turn   <- CASE \E t \in inside : Side[t] = "A" -> "A"
                   [] \E t \in inside : Side[t] = "B" -> "B"
                   [] OTHER -> IF state_ \in {"kARunning", "kAFinished"} THEN "B" ELSE "A"
ImplementsAlternation == A!Spec

\* Both operations are performed again and again, though any single start may
\* time out: a deadline is looked at only after the futex.
KeepsAlternating ==
  \A x \in Sides : []<>(\E t \in inside : Side[t] = x)
=============================================================================
