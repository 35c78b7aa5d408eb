--------------------------- MODULE RemoteTrigger ---------------------------
(***************************************************************************)
(* intrinsic/icon/interprocess/remote_trigger: a client process makes a      *)
(* server process run its callback, with one binary futex for the request    *)
(* and one for the response, both in shared memory (BinaryFutex: a flag that  *)
(* Post sets and Wait consumes, or closed).  ClientThreads are the threads    *)
(* that share one RemoteTriggerClient; the server's loop (Run) or its polling *)
(* (Query) is one thread, the one that starts, stops and destroys it another. *)
(***************************************************************************)
EXTENDS Naturals

CONSTANTS
  ClientThreads,
  MaxRequests,   \* bound on requests posted
  Abandon,       \* whether deadlines expire and AsyncRequests are dropped unanswered
  Restarts       \* whether a stopped server is started again

ASSUME RemoteTriggerAssumption ==
  MaxRequests \in Nat /\ Abandon \in BOOLEAN /\ Restarts \in BOOLEAN

VARIABLES
  request_,          \* "kReady" or "kPosted"
  response_,         \* "kReady", "kPosted" or "kClosed"
  request_started_,  \* the client's flag
  cpc,               \* where each client thread is
  is_running_,       \* the server's flag
  spc,               \* where the server's thread is
  dtor,              \* the server's destructor has been entered
  requests,          \* history: number of requests posted
  serving,           \* number of requests posted when the callback's was consumed
  served,            \* ... when that of the last finished callback was consumed
  mine,              \* per client thread: the number of its last request
  outcome,           \* per client thread: "none", "ok" or "error", for request mine
  abandoned,         \* history: a deadline expired or an AsyncRequest was dropped
  joined             \* history: a stopped server was joined, and may be started again

clientVars == <<request_started_, cpc, requests, mine, outcome, abandoned>>
serverVars == <<is_running_, spc, dtor, serving, served, joined>>
triggerVars == <<request_, response_, clientVars, serverVars>>

TriggerInit ==
  /\ request_ = "kReady" /\ response_ = "kReady"
  /\ request_started_ = FALSE
  /\ cpc = [c \in ClientThreads |-> "idle"]
  /\ is_running_ = FALSE /\ spc = "idle" /\ dtor = FALSE
  /\ requests = 0 /\ serving = 0 /\ served = 0
  /\ mine = [c \in ClientThreads |-> 0]
  /\ outcome = [c \in ClientThreads |-> "none"]
  /\ abandoned = FALSE /\ joined = FALSE

ClientGoto(c, l) == cpc' = [cpc EXCEPT ![c] = l]
-----------------------------------------------------------------------------
(* The client *)

\* Mutant: a plain store in place of the compare-exchange.
BeginUnguarded(c, l) ==
  /\ cpc[c] = "idle" /\ requests < MaxRequests
  /\ request_started_' = TRUE
  /\ ClientGoto(c, l)
  /\ UNCHANGED <<request_, response_, requests, mine, outcome, abandoned, serverVars>>

\* Both calls begin with the compare-exchange on the flag; they return
\* AlreadyExists if it is set.
Begin(c, l) ==
  /\ cpc[c] = "idle" /\ requests < MaxRequests
  /\ ~request_started_ /\ request_started_' = TRUE
  /\ ClientGoto(c, l)
  /\ UNCHANGED <<request_, response_, requests, mine, outcome, abandoned, serverVars>>

Trigger(c)      == Begin(c, "post")
TriggerAsync(c) == Begin(c, "drain")

\* TriggerAsync drops a left over response.  If the server is gone it returns,
\* and leaves the flag as it is.
Drain(c) ==
  /\ cpc[c] = "drain"
  /\ IF response_ = "kClosed"
     THEN ClientGoto(c, "idle") /\ UNCHANGED response_
     ELSE ClientGoto(c, "async_post") /\ response_' = "kReady"
  /\ UNCHANGED <<request_, request_started_, requests, mine, outcome, abandoned, serverVars>>

PostRequest(c) ==
  /\ cpc[c] \in {"post", "async_post"}
  /\ request_' = "kPosted"
  /\ requests' = requests + 1
  /\ mine' = [mine EXCEPT ![c] = requests + 1]
  /\ outcome' = [outcome EXCEPT ![c] = "none"]
  /\ ClientGoto(c, IF cpc[c] = "post" THEN "wait" ELSE "async")
  /\ UNCHANGED <<response_, request_started_, abandoned, serverVars>>

\* AsyncRequest::WaitUntil; from here on both kinds of call are alike.
AsyncWait(c) ==
  /\ cpc[c] = "async"
  /\ ClientGoto(c, "wait")
  /\ UNCHANGED <<request_, response_, request_started_, requests, mine, outcome, abandoned, serverVars>>

WaitResponse(c) ==
  /\ cpc[c] = "wait" /\ response_ # "kReady"
  /\ response_' = IF response_ = "kPosted" THEN "kReady" ELSE response_
  /\ outcome' = [outcome EXCEPT ![c] = IF response_ = "kPosted" THEN "ok" ELSE "error"]
  /\ ClientGoto(c, "clear")
  /\ UNCHANGED <<request_, request_started_, requests, mine, abandoned, serverVars>>

WaitTimeout(c) ==
  /\ Abandon
  /\ cpc[c] = "wait" /\ response_ = "kReady"
  /\ outcome' = [outcome EXCEPT ![c] = "error"]
  /\ ClientGoto(c, "clear")
  /\ abandoned' = TRUE
  /\ UNCHANGED <<request_, response_, request_started_, requests, mine, serverVars>>

\* The cleanup of Trigger, the last lines of WaitUntil.
Clear(c) ==
  /\ cpc[c] = "clear"
  /\ request_started_' = FALSE
  /\ ClientGoto(c, "idle")
  /\ UNCHANGED <<request_, response_, requests, mine, outcome, abandoned, serverVars>>

\* The AsyncRequest goes out of scope.
AsyncDrop(c) ==
  /\ Abandon
  /\ cpc[c] = "async"
  /\ request_started_' = FALSE
  /\ ClientGoto(c, "idle")
  /\ abandoned' = TRUE
  /\ UNCHANGED <<request_, response_, requests, mine, outcome, serverVars>>
-----------------------------------------------------------------------------
(* The server's thread: Run, or one Query *)

Loop(l) == spc' = l /\ UNCHANGED <<is_running_, dtor, serving, served, joined>>

\* while (is_running_.load())
RunLoop ==
  /\ spc = "loop"
  /\ Loop(IF is_running_ THEN "wait" ELSE "exited")
  /\ UNCHANGED <<request_, response_, clientVars>>

\* Query polls only while the server is not started; it does not look at the
\* flag again.
Query ==
  /\ spc = "idle" /\ ~is_running_ /\ ~dtor
  /\ Loop("query")
  /\ UNCHANGED <<request_, response_, clientVars>>

\* The wait of 100 ms ends with a request ...
TakeRequest ==
  /\ spc \in {"wait", "query"} /\ request_ = "kPosted"
  /\ request_' = "kReady"
  /\ serving' = requests
  /\ spc' = IF spc = "wait" THEN "check" ELSE "query_callback"
  /\ UNCHANGED <<response_, is_running_, dtor, served, joined, clientVars>>

\* ... or without one.
WaitRequestTimeout ==
  /\ spc \in {"wait", "query"} /\ request_ = "kReady"
  /\ Loop(IF spc = "wait" THEN "loop" ELSE "idle")
  /\ UNCHANGED <<request_, response_, clientVars>>

\* A server that has been stopped meanwhile drops the request.
CheckRunning ==
  /\ spc = "check"
  /\ Loop(IF is_running_ THEN "callback" ELSE "exited")
  /\ UNCHANGED <<request_, response_, clientVars>>

\* Mutant: the client is answered when the callback is entered.
BeginCallbackAnswers ==
  /\ spc \in {"callback", "query_callback"}
  /\ spc' = IF spc = "callback" THEN "calling" ELSE "query_calling"
  /\ response_' = IF response_ = "kReady" THEN "kPosted" ELSE response_
  /\ UNCHANGED <<request_, is_running_, dtor, serving, served, joined, clientVars>>

BeginCallback ==
  /\ spc \in {"callback", "query_callback"}
  /\ spc' = IF spc = "callback" THEN "calling" ELSE "query_calling"
  /\ UNCHANGED <<request_, response_, is_running_, dtor, serving, served, joined, clientVars>>

EndCallback ==
  /\ spc \in {"calling", "query_calling"}
  /\ spc' = IF spc = "calling" THEN "respond" ELSE "query_respond"
  /\ served' = serving
  /\ UNCHANGED <<request_, response_, is_running_, dtor, serving, joined, clientVars>>

Respond ==
  /\ spc \in {"respond", "query_respond"}
  /\ response_' = IF response_ = "kReady" THEN "kPosted" ELSE response_
  /\ spc' = IF spc = "respond" THEN "loop" ELSE "idle"
  /\ UNCHANGED <<request_, is_running_, dtor, serving, served, joined, clientVars>>
-----------------------------------------------------------------------------
(* The thread that controls the server *)

\* StartAsync: refused while a stopped thread has not been joined.
Start ==
  /\ ~is_running_ /\ spc = "idle" /\ ~dtor
  /\ is_running_' = TRUE /\ spc' = "loop"
  /\ UNCHANGED <<request_, response_, dtor, serving, served, joined, clientVars>>

RequestStop ==
  /\ is_running_
  /\ is_running_' = FALSE
  /\ UNCHANGED <<request_, response_, spc, dtor, serving, served, joined, clientVars>>

JoinAsyncThread ==
  /\ Restarts /\ spc = "exited"
  /\ spc' = "idle" /\ joined' = TRUE
  /\ UNCHANGED <<request_, response_, is_running_, dtor, serving, served, clientVars>>

\* The destructor: stop, join, close.  (A server that is polled with Query is
\* destroyed by the thread that polls it.)
Destroy ==
  /\ ~dtor /\ spc \notin {"query", "query_callback", "query_calling", "query_respond"}
  /\ dtor' = TRUE /\ is_running_' = FALSE
  /\ UNCHANGED <<request_, response_, spc, serving, served, joined, clientVars>>

\* Mutant: waiting clients are left alone.
CloseSkipped ==
  /\ dtor /\ spc \in {"exited", "idle"}
  /\ Loop("gone")
  /\ UNCHANGED <<request_, response_, clientVars>>

Close ==
  /\ dtor /\ spc \in {"exited", "idle"}
  /\ response_' = "kClosed"
  /\ Loop("gone")
  /\ UNCHANGED <<request_, clientVars>>
-----------------------------------------------------------------------------
Client(c) == \/ Trigger(c) \/ TriggerAsync(c) \/ Drain(c) \/ PostRequest(c)
             \/ AsyncWait(c) \/ WaitResponse(c) \/ WaitTimeout(c) \/ Clear(c) \/ AsyncDrop(c)

ServerThread == \/ RunLoop \/ TakeRequest \/ WaitRequestTimeout \/ CheckRunning
                \/ BeginCallback \/ EndCallback \/ Respond

Control == Start \/ RequestStop \/ JoinAsyncThread \/ Destroy

\* Nobody has anything left to do.
Quiet == /\ spc = "gone" /\ \A c \in ClientThreads : cpc[c] = "idle"
         /\ requests = MaxRequests \/ request_started_
         /\ UNCHANGED triggerVars

TriggerNext == \/ \E c \in ClientThreads : Client(c)
               \/ ServerThread \/ Query \/ Control \/ Close \/ Quiet

TriggerSpec == TriggerInit /\ [][TriggerNext]_triggerVars

\* A client's call goes on, the server's thread runs (its callback returns), a
\* server is started or polled, and one that has been stopped for good is
\* destroyed.
TriggerFairSpec ==
  /\ TriggerSpec
  /\ \A c \in ClientThreads :
       /\ WF_triggerVars(Drain(c) \/ PostRequest(c) \/ WaitResponse(c) \/ Clear(c))
       /\ WF_triggerVars(AsyncWait(c))
  /\ WF_triggerVars(ServerThread \/ (~joined /\ spc = "idle" /\ (Start \/ Query)) \/ Close)
  /\ WF_triggerVars(spc = "exited" /\ Destroy)
-----------------------------------------------------------------------------
TriggerTypeOK ==
  /\ request_ \in {"kReady", "kPosted"}
  /\ response_ \in {"kReady", "kPosted", "kClosed"}
  /\ request_started_ \in BOOLEAN /\ is_running_ \in BOOLEAN /\ dtor \in BOOLEAN
  /\ cpc \in [ClientThreads ->
       {"idle", "drain", "post", "async_post", "async", "wait", "clear"}]
  /\ spc \in {"idle", "loop", "wait", "check", "callback", "calling", "respond", "exited",
              "query", "query_callback", "query_calling", "query_respond", "gone"}
  /\ requests \in 0..MaxRequests /\ serving \in 0..MaxRequests /\ served \in 0..MaxRequests
  /\ mine \in [ClientThreads -> 0..MaxRequests]
  /\ outcome \in [ClientThreads -> {"none", "ok", "error"}]
  /\ abandoned \in BOOLEAN /\ joined \in BOOLEAN

\* A call that returns OK was answered after the callback had finished for its
\* own request ("waits for the server to respond to the initial request").  TLC
\* refutes it once a request was given up: its late answer is taken for the next.
AnswersMatch == \A c \in ClientThreads : outcome[c] = "ok" => served >= mine[c]

\* So it is as long as every client waits for its answer, whatever the server's
\* stops and restarts do with the requests.
PatientAnswersMatch == TriggerTypeOK /\ (~abandoned => AnswersMatch)

\* "The request is considered complete through a successful call to WaitUntil or
\* when the instance goes out of scope": a set flag belongs to a call or to an
\* AsyncRequest that will clear it.  (TLC refutes this, and no run checks it:
\* the error returns of TriggerAsync leave the flag set.  See the README.)
FlagIsOwned == request_started_ => \E c \in ClientThreads : cpc[c] # "idle"

\* A call without a deadline returns: the server answers it, or its destructor
\* turns it away.  (A server that is started again after it dropped a request
\* keeps its client waiting.)
TriggerReturns == \A c \in ClientThreads : cpc[c] = "wait" ~> (cpc[c] = "idle" \/ joined)
=============================================================================
