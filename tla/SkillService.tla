---------------------------- MODULE SkillService ----------------------------
(***************************************************************************)
(* The executor service of a skill (skills/internal/skill_service_impl.cc)   *)
(* and the cancellation of skills (skills/cc/skill_canceller.cc).  Handlers   *)
(* of remote calls share the tracked operations; every operation has a        *)
(* thread that runs the skill, and one cleaner thread joins those threads.    *)
(*                                                                            *)
(* Operations are numbered in the order in which they are made.  Requests,    *)
(* results and errors are left out, and so is what a skill does, apart from   *)
(* its use of the canceller and its end.                                      *)
(***************************************************************************)
EXTENDS Naturals, Sequences, SequencesExt, FiniteSets

CONSTANTS
  Callers,             \* the handlers of remote calls
  Names,               \* names of operations, given by the clients
  Cancellable,         \* the names used for skills that support cancellation
  kMaxNumOperations,   \* limit on tracked operations
  MaxOperations        \* bound on operations that are made

None == 0
Operations == 1..MaxOperations

ASSUME SkillServiceAssumption ==
  /\ Cancellable \subseteq Names
  /\ kMaxNumOperations \in Nat \ {0} /\ MaxOperations \in Nat

VARIABLES
  \* SkillOperations and SkillOperationCleaner
  update_mutex_,      \* who holds it beyond a step: a Clear that waits
  operations_,        \* [Names -> operation or None]
  operation_names_,   \* in the order of addition
  queue_,             \* operations that the cleaner has still to look at
  queue_processed_,   \* has been notified
  cleaner, cleaning,  \* its thread ("none", "loop" or "wait"); what it waits for
  \* SkillOperation: sets of operations
  name,               \* the names of the operations made so far
  thread_mutex_,      \* ... whose thread is being created
  running,            \* ... whose skill is running
  done,               \* ... whose outcome is stored
  finished,           \* ... whose finished_notification_ has been notified
  joinable,           \* ... whose thread_ is to be joined
  \* SkillCancellationManager: sets of operations
  ready_, cancelled_,
  \* the handlers and the owner of the service
  pc, mine,           \* where a handler is, and the operation it is about
  server,             \* "up", or its destructor has come to "clearing", "cleared", "gone"
  \* histories
  cancels,            \* number of Cancels that went through, by operation
  orphans             \* operations whose start failed after they were added

tracked   == <<update_mutex_, operations_, operation_names_>>
cleanerVars == <<queue_, queue_processed_, cleaner, cleaning>>
threads   == <<thread_mutex_, running, done, finished, joinable>>
canceller == <<ready_, cancelled_, cancels>>
handlers  == <<pc, mine>>
skillVars == <<tracked, cleanerVars, name, threads, canceller, handlers, server, orphans>>

SkillInit ==
  /\ update_mutex_ = "free"
  /\ operations_ = [n \in Names |-> None] /\ operation_names_ = <<>>
  /\ queue_ = <<>> /\ queue_processed_ = TRUE /\ cleaner = "none" /\ cleaning = None
  /\ name = <<>>
  /\ thread_mutex_ = {} /\ running = {} /\ done = {} /\ finished = {} /\ joinable = {}
  /\ ready_ = {} /\ cancelled_ = {}
  /\ cancels = [o \in Operations |-> 0]
  /\ pc = [c \in Callers |-> "idle"] /\ mine = [c \in Callers |-> None]
  /\ server = "up" /\ orphans = {}

CallerGoto(c, l) == pc' = [pc EXCEPT ![c] = l] /\ UNCHANGED mine
\* A handler takes up a call about operation o, and returns from it.
Enter(c, o, l) == pc' = [pc EXCEPT ![c] = l] /\ mine' = [mine EXCEPT ![c] = o]
Reply(c) == Enter(c, None, "idle")

\* A new call may use the tracked operations.
Serving(c) == pc[c] = "idle" /\ server = "up" /\ update_mutex_ = "free"
-----------------------------------------------------------------------------
(* StartExecute and StartPreview *)

\* SkillOperationCleaner::Watch.  A cleaner that has notified queue_processed_ has
\* nothing left to do and is joined.
Watch(o) ==
  /\ queue_' = Append(queue_, o)
  /\ queue_processed_' = FALSE
  /\ cleaner' = IF queue_processed_ THEN "loop" ELSE cleaner
  /\ UNCHANGED cleaning

\* Mutant: the oldest operation makes room, finished or not.
MakeRoomForAny ==
  IF Len(operation_names_) < kMaxNumOperations THEN operation_names_
  ELSE Tail(operation_names_)

\* What is left when the oldest finished operation makes room for a new one.
MakeRoom ==
  IF Len(operation_names_) < kMaxNumOperations THEN operation_names_
  ELSE LET old == SelectInSeq(operation_names_, LAMBDA n : operations_[n] \in finished)
       IN  IF old = 0 THEN operation_names_ ELSE RemoveAt(operation_names_, old)

\* MakeOperation and SkillOperations::Add.  Room is made before the name is looked up.
MakeOperation(c, n) ==
  /\ Serving(c) /\ Len(name) < MaxOperations
  /\ LET o    == Len(name) + 1
         kept == MakeRoom
         rest == [m \in Names |-> IF m \in ToSet(kept) THEN operations_[m] ELSE None]
     IN  IF Len(kept) >= kMaxNumOperations \/ rest[n] # None
         THEN \* "... unfinished operations", or "An operation already exists ..."
              /\ operations_' = rest /\ operation_names_' = kept
              /\ Reply(c)
              /\ UNCHANGED <<name, cleanerVars>>
         ELSE /\ operations_' = [rest EXCEPT ![n] = o]
              /\ operation_names_' = Append(kept, n)
              /\ name' = Append(name, n)
              /\ Watch(o)
              /\ Enter(c, o, "made")
  /\ UNCHANGED <<update_mutex_, threads, canceller, server, orphans>>

\* The skill, or its equipment, is not available.  The operation has been added.
StartFails(c) ==
  /\ pc[c] = "made"
  /\ orphans' = orphans \cup {mine[c]}
  /\ Reply(c)
  /\ UNCHANGED <<tracked, cleanerVars, name, threads, canceller, server>>

\* SkillOperation::Start creates the thread, which may come to its end before
\* the member thread_ is assigned ...
Start(c) ==
  /\ pc[c] = "made"
  /\ thread_mutex_' = thread_mutex_ \cup {mine[c]}
  /\ running' = running \cup {mine[c]}
  /\ CallerGoto(c, "assign")
  /\ UNCHANGED <<tracked, cleanerVars, name, done, finished, joinable, canceller, server, orphans>>

\* ... under the mutex that whoever joins it takes, too.
StartAssign(c) ==
  /\ pc[c] = "assign"
  /\ joinable' = joinable \cup {mine[c]}
  /\ thread_mutex_' = thread_mutex_ \ {mine[c]}
  /\ Reply(c)
  /\ UNCHANGED <<tracked, cleanerVars, name, running, done, finished, canceller, server, orphans>>
-----------------------------------------------------------------------------
(* The thread of an operation *)

SkillVars == <<tracked, cleanerVars, name, thread_mutex_, joinable, handlers, server, orphans>>

Ready(o) ==
  /\ o \in running /\ o \notin ready_
  /\ ready_' = ready_ \cup {o}
  /\ UNCHANGED <<SkillVars, running, done, finished, cancelled_, cancels>>

\* The skill returns, and its result or its error is stored.
StoreOutcome(o) ==
  /\ o \in running
  /\ running' = running \ {o} /\ done' = done \cup {o}
  /\ UNCHANGED <<SkillVars, finished, canceller>>

Notify(o) ==
  /\ o \in done \ finished
  /\ finished' = finished \cup {o}
  /\ UNCHANGED <<SkillVars, running, done, canceller>>
-----------------------------------------------------------------------------
(* CancelOperation.  GetOperation and WaitOperation change nothing. *)

\* SkillOperations::Get, for a skill that supports cancellation
GetToCancel(c, n) ==
  /\ Serving(c) /\ n \in Cancellable /\ operations_[n] # None
  /\ Enter(c, operations_[n], "requestCancellation")
  /\ UNCHANGED <<tracked, cleanerVars, name, threads, canceller, server, orphans>>

InCall == <<tracked, cleanerVars, name, threads, server, orphans>>

\* An operation that is cancelled or finished already is left alone.
RequestCancellation(c) ==
  /\ pc[c] = "requestCancellation"
  /\ IF mine[c] \in cancelled_ \cup finished THEN Reply(c) ELSE CallerGoto(c, "waitForReady")
  /\ UNCHANGED <<InCall, canceller>>

WaitForReadyTimeout(c) ==
  /\ pc[c] = "waitForReady" /\ mine[c] \notin ready_
  /\ Reply(c)
  /\ UNCHANGED <<InCall, canceller>>

\* Mutant: what RequestCancellation has seen is taken to hold still.
CancelUnchecked(c) ==
  /\ pc[c] = "waitForReady" /\ mine[c] \in ready_
  /\ cancelled_' = cancelled_ \cup {mine[c]}
  /\ cancels' = [cancels EXCEPT ![mine[c]] = @ + 1]
  /\ CallerGoto(c, "callback") \/ Reply(c)
  /\ UNCHANGED <<InCall, ready_>>

\* The wait is over.  If the skill has registered a callback, it is called, without the
\* mutex.
Cancel(c) ==
  /\ pc[c] = "waitForReady" /\ mine[c] \in ready_
  /\ IF mine[c] \in cancelled_
     THEN Reply(c) /\ UNCHANGED <<cancelled_, cancels>>
     ELSE /\ cancelled_' = cancelled_ \cup {mine[c]}
          /\ cancels' = [cancels EXCEPT ![mine[c]] = @ + 1]
          /\ CallerGoto(c, "callback") \/ Reply(c)
  /\ UNCHANGED <<InCall, ready_>>

Callback(c) ==
  /\ pc[c] = "callback"
  /\ Reply(c)
  /\ UNCHANGED <<InCall, canceller>>
-----------------------------------------------------------------------------
(* The cleaner thread *)

ProcessQueue ==
  /\ cleaner = "loop"
  /\ IF queue_ = <<>>
     THEN cleaner' = "none" /\ queue_processed_' = TRUE /\ UNCHANGED <<queue_, cleaning>>
     ELSE /\ cleaner' = "wait" /\ cleaning' = Head(queue_) /\ queue_' = Tail(queue_)
          /\ UNCHANGED queue_processed_
  /\ UNCHANGED <<tracked, name, threads, canceller, handlers, server, orphans>>

\* WaitOperation can join the thread of o.
Joins(o) == o \in finished /\ o \notin thread_mutex_

\* Mutant: the thread is joined without the mutex.
CleanUnlocked ==
  /\ cleaner = "wait" /\ cleaning \in finished
  /\ joinable' = joinable \ {cleaning}
  /\ cleaner' = "loop" /\ cleaning' = None
  /\ UNCHANGED <<tracked, queue_, queue_processed_, name, thread_mutex_, running, done,
                 finished, canceller, handlers, server, orphans>>

Clean ==
  /\ cleaner = "wait" /\ Joins(cleaning)
  /\ joinable' = joinable \ {cleaning}
  /\ cleaner' = "loop" /\ cleaning' = None
  /\ UNCHANGED <<tracked, queue_, queue_processed_, name, thread_mutex_, running, done,
                 finished, canceller, handlers, server, orphans>>
-----------------------------------------------------------------------------
(* SkillOperations::Clear *)

Tracked == ToSet(operation_names_)
TrackedOperations == {operations_[n] : n \in Tracked}

\* All tracked operations are dropped; their threads have been joined.
Drop ==
  /\ joinable' = joinable \ TrackedOperations
  /\ operations_' = [n \in Names |-> None] /\ operation_names_' = <<>>

\* Mutant: the operations are dropped though some are not finished.
ClearOperationsSome(c) ==
  /\ Serving(c)
  /\ \A o \in TrackedOperations : o \in finished => Joins(o)
  /\ Drop /\ update_mutex_' = c /\ Enter(c, None, "clearWait")
  /\ UNCHANGED <<cleanerVars, name, thread_mutex_, running, done, finished, canceller,
                 server, orphans>>

\* Clear(false).  The threads of finished operations are joined in any case.
ClearOperations(c) ==
  /\ Serving(c)
  /\ \A o \in TrackedOperations : o \in finished => Joins(o)
  /\ IF TrackedOperations \subseteq finished
     THEN Drop /\ update_mutex_' = c /\ Enter(c, None, "clearWait")
     ELSE /\ joinable' = joinable \ (TrackedOperations \cap finished)
          /\ Reply(c)
          /\ UNCHANGED tracked
  /\ UNCHANGED <<cleanerVars, name, thread_mutex_, running, done, finished, canceller,
                 server, orphans>>

\* WaitOperations returns when the cleaner is through; the mutex is held so long.
ClearWait(c) ==
  /\ pc[c] = "clearWait" /\ queue_processed_
  /\ update_mutex_' = "free"
  /\ Reply(c)
  /\ UNCHANGED <<operations_, operation_names_, cleanerVars, name, threads, canceller,
                 server, orphans>>

\* The server has stopped, no call is left, and the service is destroyed: Clear(true).
Destroy ==
  /\ server = "up" /\ \A c \in Callers : pc[c] = "idle"
  /\ server' = "clearing"
  /\ UNCHANGED <<tracked, cleanerVars, name, threads, canceller, handlers, orphans>>

DestroyWait ==
  /\ server = "clearing" /\ \A o \in TrackedOperations : Joins(o)
  /\ Drop /\ server' = "cleared"
  /\ UNCHANGED <<update_mutex_, cleanerVars, name, thread_mutex_, running, done, finished,
                 canceller, handlers, orphans>>

DestroyEnd ==
  /\ server = "cleared" /\ queue_processed_
  /\ server' = "gone"
  /\ UNCHANGED <<tracked, cleanerVars, name, threads, canceller, handlers, orphans>>
-----------------------------------------------------------------------------
NewCall(c) ==
  \/ \E n \in Names : MakeOperation(c, n) \/ GetToCancel(c, n)
  \/ ClearOperations(c)
CallStep(c) ==
  \/ StartFails(c) \/ Start(c) \/ StartAssign(c)
  \/ RequestCancellation(c) \/ WaitForReadyTimeout(c) \/ Cancel(c)
  \/ Callback(c) \/ ClearWait(c)
\* Only skills that support cancellation prepare for it.
Cancels(o) == name[o] \in Cancellable /\ Ready(o)
Ends(o)   == StoreOutcome(o) \/ Notify(o)
Cleaner   == ProcessQueue \/ Clean
Destroyed == DestroyWait \/ DestroyEnd

SkillNext ==
  \/ \E c \in Callers : NewCall(c) \/ CallStep(c)
  \/ \E o \in Operations : (o \in DOMAIN name /\ Cancels(o)) \/ Ends(o)
  \/ Cleaner \/ Destroy \/ Destroyed

SkillSpec == SkillInit /\ [][SkillNext]_skillVars

\* Handlers, the cleaner and the destructor are scheduled, the waits of the handlers
\* have deadlines, and skills return.  No call has to come and no skill has to be ready.
SkillFairSpec ==
  /\ SkillSpec
  /\ \A c \in Callers : WF_skillVars(CallStep(c))
  /\ \A o \in Operations : WF_skillVars(Ends(o))
  /\ WF_skillVars(Cleaner) /\ WF_skillVars(Destroyed)
-----------------------------------------------------------------------------
PCs == {"idle", "made", "assign", "requestCancellation", "waitForReady", "callback",
        "clearWait"}

SkillTypeOK ==
  /\ update_mutex_ \in Callers \cup {"free"}
  /\ operations_ \in [Names -> {None} \cup Operations]
  /\ operation_names_ \in Seq(Names) /\ queue_ \in Seq(Operations)
  /\ queue_processed_ \in BOOLEAN
  /\ cleaner \in {"none", "loop", "wait"} /\ cleaning \in {None} \cup Operations
  /\ name \in Seq(Names) /\ Len(name) <= MaxOperations
  /\ \A s \in {thread_mutex_, running, done, finished, joinable, ready_, cancelled_,
               orphans} : s \subseteq Operations
  /\ pc \in [Callers -> PCs] /\ mine \in [Callers -> {None} \cup Operations]
  /\ cancels \in [Operations -> Nat]
  /\ server \in {"up", "clearing", "cleared", "gone"}

\* The operations that the cleaner keeps alive and will join.
Watched == ToSet(queue_) \cup {cleaning}

\* An operation that is not finished can be found under its name, to be cancelled
\* or waited for, however full the service is and whatever was cleared
\* (skill_service_impl.cc:276-318, 331-356); and until its thread is joined the cleaner
\* refers to it, so that neither dropping it nor the end of a call destroys an
\* operation whose thread is still in it (lines 108-139).  The list and the map of the
\* tracked operations name the same ones: Add never finds them different (lines 286-290).
NothingForgotten ==
  /\ SkillTypeOK
  /\ \A o \in DOMAIN name : o \notin finished => operations_[name[o]] = o
  /\ running \cup (done \ finished) \cup joinable \subseteq Watched
  /\ Tracked = {n \in Names : operations_[n] # None} /\ IsInjective(operation_names_)

\* Whoever has waited for an operation finds its outcome in it (lines 117-135,
\* 163-178).  Of several CancelOperations at once only one cancels the skill and calls its
\* callback, though each has waited for the skill to be ready since it looked
\* (lines 145-161, skill_canceller.cc:35-57).
ToldOnce ==
  /\ finished \subseteq done
  /\ \A o \in Operations : cancels[o] <= 1

\* ClearOperations waits for the cleaner without a deadline and with update_mutex_ held,
\* which every other call needs (lines 331-356).  It is given back: what the cleaner still
\* has is finished then, also when the start of an operation has failed.
MutexGivenBack == (update_mutex_ # "free") ~> (update_mutex_ = "free")

\* Unless the start of an operation has failed after it was added, "clean it up when it
\* finishes" holds (skill_service_impl.h:151): every thread is joined, and the destructor
\* returns (skill_service_impl.cc:485-487).
CleanedUp ==
  /\ \A o \in Operations : (o \in finished) ~> (o \notin joinable \/ orphans # {})
  /\ (server = "clearing") ~> (server = "gone" \/ orphans # {})
=============================================================================
