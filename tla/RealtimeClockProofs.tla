------------------------ MODULE RealtimeClockProofs ------------------------
(*****************************************************************************)
(* The clock of a hardware module and the control loop, for any number of    *)
(* ticks and control servers.  From the reset for a new server to the        *)
(* server's Cancel the two share one token, and state_ tells where it is.    *)
(* Afterwards the clock is alone, and may overwrite the Cancel, but it       *)
(* never stores kBFinished: no tick returns OK without a cycle.  A Reset of  *)
(* the clock that is not for a new server ends the argument, and the         *)
(* properties say so.                                                        *)
(*****************************************************************************)
EXTENDS RealtimeClock, TLAPS

Starting == {"startCheck", "startExpect", "startStore"}
Ending   == {"endCheck", "endExpect", "endStore"}

\* The last call of a thread has returned OK.
Ok(t) == pc[t] = "idle" /\ res[t] = "kOk"

PostedA == finished["A"] = "kPosted"
PostedB == finished["B"] = "kPosted"

\* Where the two are in their calls.  The clock is reset only for a server that begins.
Places ==
  /\ cpc \in {"new", "ready", "failed"} => pc["clock"] = "idle"
  /\ cpc \in {"tick_end", "gone"} => pc["clock"] \in {"idle", "endPost"} \cup Ending
  /\ cpc \in {"tick_start", "reset_start"} =>
       pc["clock"] \in {"idle", "wait", "startRepost"} \cup Starting
  /\ cpc = "reset_cancel" => pc["clock"] \in {"idle", "cancelPostA", "cancelPostB"}
  /\ cpc = "reset_reset" =>
       pc["clock"] \in {"idle", "resetWaitA", "resetWaitB", "resetStore", "resetPost"}
  /\ cpc # "reset_failed"
  /\ cpc = "new" => lpc = "prepare"
  /\ cpc \in {"reset_cancel", "reset_reset"} => lpc = "preparing"
  /\ cpc = "reset_start" => lpc \in {"prepare", "preparing"}
  /\ cpc = "gone" => lpc \notin {"prepare", "preparing"}
  /\ lpc \notin {"begin", "finish", "cancel"} => pc["loop"] = "idle"
  /\ lpc = "begin" => pc["loop"] \in {"idle", "wait", "startRepost"} \cup Starting
  /\ lpc = "finish" => pc["loop"] \in {"idle", "endPost"} \cup Ending
  /\ lpc = "cancel" => pc["loop"] \in {"idle", "cancelPostA", "cancelPostB"}

\* Reset takes back what its Cancel has posted, so that one post is left at the end.
Resetting ==
  /\ cpc = "reset_cancel" =>
       /\ state_ = "kCancelled"
       /\ pc["clock"] # "cancelPostA" => PostedA
       /\ pc["clock"] = "idle" => PostedB
  /\ cpc = "reset_reset" =>
       /\ state_ = IF pc["clock"] \in {"idle", "resetPost"} THEN "kBFinished" ELSE "kCancelled"
       /\ PostedA <=> pc["clock"] = "resetWaitA"
       /\ PostedB <=> pc["clock"] \in {"idle", "resetWaitA", "resetWaitB"}
       /\ pc["clock"] = "idle" => res["clock"] = "kOk"

\* From the end of Lockstep::Reset to the Cancel of the main loop, and in a new lockstep.
Clean ==
  \/ lpc \in {"update", "begin", "cycle", "finish", "shutdown"}
  \/ lpc = "preparing" /\ cpc \notin {"reset_cancel", "reset_reset"}
  \/ lpc = "prepare" /\ cpc \in {"new", "reset_start"}

\* The turn of the clock's owner, and of the control cycle.
ClockTurn ==
  \/ cpc = "ready"
  \/ cpc = "tick_end" /\ pc["clock"] \in Ending
  \/ cpc \in {"tick_start", "reset_start"} /\ Ok("clock")
LoopTurn ==
  \/ lpc = "cycle"
  \/ pc["loop"] \in Ending
  \/ lpc = "begin" /\ Ok("loop")

\* There is one token, and state_ tells where it is.
Token ==
  Clean =>
    /\ state_ # "kCancelled" /\ pc["clock"] # "startRepost" /\ pc["loop"] # "startRepost"
    /\ PostedA => state_ = "kAFinished"
    /\ PostedB => state_ = "kBFinished"
    /\ ClockTurn \/ pc["clock"] = "endStore" => state_ = "kARunning"
    /\ LoopTurn => state_ = "kBRunning"
    /\ pc["clock"] = "endPost" \/ pc["loop"] \in Starting => state_ = "kAFinished" /\ ~PostedA
    /\ pc["loop"] = "endPost" \/ pc["clock"] \in Starting => state_ = "kBFinished" /\ ~PostedB
    /\ ~(pc["clock"] = "endPost" /\ pc["loop"] \in Starting)
    /\ ~(pc["loop"] = "endPost" /\ pc["clock"] \in Starting)

\* The clock's start after a Reset succeeds.
Restarts ==
  /\ cpc = "new" \/ (cpc = "reset_start" /\ pc["clock"] = "wait") =>
       PostedB /\ state_ = "kBFinished"
  /\ cpc = "reset_start" /\ pc["clock"] = "idle" => res["clock"] = "kOk"

\* Without a Cancel the clock has its turn when state_ says so, and with one it still
\* takes a finished cycle to store kBFinished.
Answered ==
  /\ ClockTurn => state_ \in {"kARunning", "kCancelled"}
  /\ cpc \in {"tick_end", "tick_start"} /\ state_ = "kBFinished" =>
       written = cycle_start_nanoseconds
  /\ cpc = "tick_start" /\ (pc["clock"] = "startStore" \/ Ok("clock")) =>
       written = cycle_start_nanoseconds

\* The cycle has the timestamp of the last tick, and a turn that it is given is a new one.
Stamped ==
  /\ lpc = "cycle" \/ pc["loop"] \in Ending => cycle_start_ = cycle_start_nanoseconds
  /\ pc["loop"] \in Ending \cup {"endPost"} => written = cycle_start_nanoseconds
  /\ Clean /\ cpc # "gone" =>
       \/ cycle_start_ < cycle_start_nanoseconds
       \/ /\ ~(cpc = "tick_end" /\ pc["clock"] \in Ending)
          /\ state_ # "kAFinished" /\ ~(lpc = "begin" /\ Ok("loop"))

\* Ticks are answered by cycles that have run, and cycles follow the ticks.
Ordered ==
  ticked <= written /\ written <= cycle_start_ /\ cycle_start_ <= cycle_start_nanoseconds

Good == Places /\ Resetting /\ Token /\ Restarts /\ Answered /\ Stamped /\ Ordered

IInv == TypeOK /\ (~recovered => Good)
-----------------------------------------------------------------------------
\* The lockstep's types, for the two threads.
LEMMA LockstepTypes ==
  ASSUME TypeOK
  PROVE  /\ finished \in [{"A", "B"} -> {"kReady", "kPosted"}]
         /\ DOMAIN pc = {"clock", "loop"} /\ DOMAIN res = {"clock", "loop"}
         /\ DOMAIN finished = {"A", "B"}
         /\ pc = [t \in {"clock", "loop"} |-> pc[t]]
         /\ res = [t \in {"clock", "loop"} |-> res[t]]
BY DEF TypeOK, L!TypeOK, L!Sides

\* The numbers, and where the two are.
LEMMA GoodTypes ==
  ASSUME TypeOK
  PROVE  /\ cycle_start_nanoseconds \in Nat /\ cycle_start_ \in Nat /\ written \in Nat
         /\ ticked \in Nat
         /\ cpc \in {"new", "ready", "tick_end", "tick_start", "failed", "reset_cancel",
                     "reset_reset", "reset_start", "reset_failed", "gone"}
         /\ lpc \in {"prepare", "preparing", "update", "begin", "cycle", "finish", "shutdown",
                     "cancel", "stopped"}
BY RealtimeClockAssumption DEF TypeOK

\* A call does not touch the other thread.
LEMMA CallsApart ==
  ASSUME TypeOK, NEW t \in {"clock", "loop"}, InLockstep(t), NEW s \in {"clock", "loop"}, s # t
  PROVE  pc'[s] = pc[s] /\ res'[s] = res[s]
BY LockstepTypes
DEF InLockstep, L!InStart, L!StartStep, L!InEnd, L!InCancel, L!InReset, L!StartWait,
     L!StartTimeout,
    L!StartCheck, L!StartRepost, L!StartExpect, L!StartStore, L!EndCheck, L!EndExpect,
         L!EndStore,
    L!EndPost, L!CancelPostA, L!CancelPostB, L!ResetWaitA, L!ResetWaitB, L!ResetTimeout,
    L!ResetStore, L!ResetPost, L!Goto, L!Return

\* The steps of the clock in its calls of the lockstep.
LEMMA ClockCalls ==
  ASSUME TypeOK, Good, InLockstep("clock")
  PROVE  Good'
<1>1. /\ pc'["loop"] = pc["loop"] /\ res'["loop"] = res["loop"]
      /\ UNCHANGED <<cpc, lpc, ticked, written, cycle_start_, cycle_start_nanoseconds>>
      /\ UNCHANGED <<servers, shutdown_notification_, recovered>>
  BY CallsApart DEF clockVars, loopVars, InLockstep
<1>. USE DEF L!Goto, L!Return, L!Posted, L!Take, L!Post, L!Other, L!Running, L!Finished, L!Sides
<1>2. CASE L!StartWait("clock")
  <2>1. /\ pc["clock"] = "wait"
        /\ pc'["clock"] = "startCheck" /\ res'["clock"] = res["clock"]
        /\ PostedB /\ ~PostedB' /\ (PostedA' <=> PostedA)
        /\ state_' = state_
    BY <1>2, LockstepTypes DEF L!StartWait, PostedA, PostedB
  <2>. QED BY <1>1, <2>1, GoodTypes DEF Good, Places, Resetting, Token, Restarts, Answered,
       Stamped,
       Ordered, Clean, ClockTurn, LoopTurn, Ok, Starting, Ending
<1>3. CASE L!StartTimeout("clock")
  <2>1. /\ pc["clock"] = "wait"
        /\ pc'["clock"] = "idle" /\ res'["clock"] = "kDeadlineExceeded"
        /\ ~PostedB /\ (PostedA' <=> PostedA) /\ (PostedB' <=> PostedB)
        /\ state_' = state_
    BY <1>3, LockstepTypes DEF L!StartTimeout, PostedA, PostedB
  <2>. QED BY <1>1, <2>1, GoodTypes DEF Good, Places, Resetting, Token, Restarts, Answered,
       Stamped,
       Ordered, Clean, ClockTurn, LoopTurn, Ok, Starting, Ending
<1>4. CASE L!StartCheck("clock")
  <2>1. /\ pc["clock"] = "startCheck"
        /\ pc'["clock"] = IF state_ = "kCancelled" THEN "startRepost" ELSE "startExpect"
        /\ res'["clock"] = res["clock"]
        /\ (PostedA' <=> PostedA) /\ (PostedB' <=> PostedB)
        /\ state_' = state_
    BY <1>4, LockstepTypes DEF L!StartCheck, PostedA, PostedB
  <2>. QED BY <1>1, <2>1, GoodTypes DEF Good, Places, Resetting, Token, Restarts, Answered,
       Stamped,
       Ordered, Clean, ClockTurn, LoopTurn, Ok, Starting, Ending
<1>5. CASE L!StartRepost("clock")
  <2>1. /\ pc["clock"] = "startRepost"
        /\ pc'["clock"] = "idle" /\ res'["clock"] = "kAborted"
        /\ PostedB' /\ (PostedA' <=> PostedA)
        /\ state_' = state_
    BY <1>5, LockstepTypes DEF L!StartRepost, PostedA, PostedB
  <2>. QED BY <1>1, <2>1, GoodTypes DEF Good, Places, Resetting, Token, Restarts, Answered,
       Stamped,
       Ordered, Clean, ClockTurn, LoopTurn, Ok, Starting, Ending
<1>6. CASE L!StartExpect("clock")
  <2>1. /\ pc["clock"] = "startExpect"
        /\ IF state_ = "kBFinished" THEN pc'["clock"] = "startStore" /\ res'["clock"] = res["clock"]
                   ELSE pc'["clock"] = "idle" /\ res'["clock"] = "kFailedPrecondition"
        /\ (PostedA' <=> PostedA) /\ (PostedB' <=> PostedB)
        /\ state_' = state_
    BY <1>6, LockstepTypes DEF L!StartExpect, PostedA, PostedB
  <2>. QED BY <1>1, <2>1, GoodTypes DEF Good, Places, Resetting, Token, Restarts, Answered,
       Stamped,
       Ordered, Clean, ClockTurn, LoopTurn, Ok, Starting, Ending
<1>7. CASE L!StartStore("clock")
  <2>1. /\ pc["clock"] = "startStore"
        /\ pc'["clock"] = "idle" /\ res'["clock"] = "kOk"
        /\ (PostedA' <=> PostedA) /\ (PostedB' <=> PostedB)
        /\ state_' = "kARunning"
    BY <1>7, LockstepTypes DEF L!StartStore, PostedA, PostedB
  <2>. QED BY <1>1, <2>1, GoodTypes DEF Good, Places, Resetting, Token, Restarts, Answered,
       Stamped,
       Ordered, Clean, ClockTurn, LoopTurn, Ok, Starting, Ending
<1>8. CASE L!EndCheck("clock")
  <2>1. /\ pc["clock"] = "endCheck"
        /\ IF state_ = "kCancelled" THEN pc'["clock"] = "idle" /\ res'["clock"] = "kOk"
                   ELSE pc'["clock"] = "endExpect" /\ res'["clock"] = res["clock"]
        /\ (PostedA' <=> PostedA) /\ (PostedB' <=> PostedB)
        /\ state_' = state_
    BY <1>8, LockstepTypes DEF L!EndCheck, PostedA, PostedB
  <2>. QED BY <1>1, <2>1, GoodTypes DEF Good, Places, Resetting, Token, Restarts, Answered,
       Stamped,
       Ordered, Clean, ClockTurn, LoopTurn, Ok, Starting, Ending
<1>9. CASE L!EndExpect("clock")
  <2>1. /\ pc["clock"] = "endExpect"
        /\ IF state_ = "kARunning" THEN pc'["clock"] = "endStore" /\ res'["clock"] = res["clock"]
                   ELSE pc'["clock"] = "idle" /\ res'["clock"] = "kFailedPrecondition"
        /\ (PostedA' <=> PostedA) /\ (PostedB' <=> PostedB)
        /\ state_' = state_
    BY <1>9, LockstepTypes DEF L!EndExpect, PostedA, PostedB
  <2>. QED BY <1>1, <2>1, GoodTypes DEF Good, Places, Resetting, Token, Restarts, Answered,
       Stamped,
       Ordered, Clean, ClockTurn, LoopTurn, Ok, Starting, Ending
<1>10. CASE L!EndStore("clock")
  <2>1. /\ pc["clock"] = "endStore"
        /\ pc'["clock"] = "endPost" /\ res'["clock"] = res["clock"]
        /\ (PostedA' <=> PostedA) /\ (PostedB' <=> PostedB)
        /\ state_' = "kAFinished"
    BY <1>10, LockstepTypes DEF L!EndStore, PostedA, PostedB
  <2>. QED BY <1>1, <2>1, GoodTypes DEF Good, Places, Resetting, Token, Restarts, Answered,
       Stamped,
       Ordered, Clean, ClockTurn, LoopTurn, Ok, Starting, Ending
<1>11. CASE L!EndPost("clock")
  <2>1. /\ pc["clock"] = "endPost"
        /\ pc'["clock"] = "idle" /\ res'["clock"] = "kOk"
        /\ PostedA' /\ (PostedB' <=> PostedB)
        /\ state_' = state_
    BY <1>11, LockstepTypes DEF L!EndPost, PostedA, PostedB
  <2>. QED BY <1>1, <2>1, GoodTypes DEF Good, Places, Resetting, Token, Restarts, Answered,
       Stamped,
       Ordered, Clean, ClockTurn, LoopTurn, Ok, Starting, Ending
<1>12. CASE L!CancelPostA("clock")
  <2>1. /\ pc["clock"] = "cancelPostA"
        /\ pc'["clock"] = "cancelPostB" /\ res'["clock"] = res["clock"]
        /\ PostedA' /\ (PostedB' <=> PostedB)
        /\ state_' = state_
    BY <1>12, LockstepTypes DEF L!CancelPostA, PostedA, PostedB
  <2>. QED BY <1>1, <2>1, GoodTypes DEF Good, Places, Resetting, Token, Restarts, Answered,
       Stamped,
       Ordered, Clean, ClockTurn, LoopTurn, Ok, Starting, Ending
<1>13. CASE L!CancelPostB("clock")
  <2>1. /\ pc["clock"] = "cancelPostB"
        /\ pc'["clock"] = "idle" /\ res'["clock"] = "kOk"
        /\ PostedB' /\ (PostedA' <=> PostedA)
        /\ state_' = state_
    BY <1>13, LockstepTypes DEF L!CancelPostB, PostedA, PostedB
  <2>. QED BY <1>1, <2>1, GoodTypes DEF Good, Places, Resetting, Token, Restarts, Answered,
       Stamped,
       Ordered, Clean, ClockTurn, LoopTurn, Ok, Starting, Ending
<1>14. CASE L!ResetWaitA("clock")
  <2>1. /\ pc["clock"] = "resetWaitA"
        /\ pc'["clock"] = "resetWaitB" /\ res'["clock"] = res["clock"]
        /\ PostedA /\ ~PostedA' /\ (PostedB' <=> PostedB)
        /\ state_' = state_
    BY <1>14, LockstepTypes DEF L!ResetWaitA, PostedA, PostedB
  <2>. QED BY <1>1, <2>1, GoodTypes DEF Good, Places, Resetting, Token, Restarts, Answered,
       Stamped,
       Ordered, Clean, ClockTurn, LoopTurn, Ok, Starting, Ending
<1>15. CASE L!ResetWaitB("clock")
  <2>1. /\ pc["clock"] = "resetWaitB"
        /\ pc'["clock"] = "resetStore" /\ res'["clock"] = res["clock"]
        /\ PostedB /\ ~PostedB' /\ (PostedA' <=> PostedA)
        /\ state_' = state_
    BY <1>15, LockstepTypes DEF L!ResetWaitB, PostedA, PostedB
  <2>. QED BY <1>1, <2>1, GoodTypes DEF Good, Places, Resetting, Token, Restarts, Answered,
       Stamped,
       Ordered, Clean, ClockTurn, LoopTurn, Ok, Starting, Ending
<1>16. CASE L!ResetTimeout("clock")
  <2>1. /\ (pc["clock"] = "resetWaitA" /\ ~PostedA) \/ (pc["clock"] = "resetWaitB" /\ ~PostedB)
        /\ pc'["clock"] = "idle" /\ res'["clock"] = "kDeadlineExceeded"
        /\ (PostedA' <=> PostedA) /\ (PostedB' <=> PostedB)
        /\ state_' = state_
    BY <1>16, LockstepTypes DEF L!ResetTimeout, PostedA, PostedB
  <2>. QED BY <1>1, <2>1, GoodTypes DEF Good, Places, Resetting, Token, Restarts, Answered,
       Stamped,
       Ordered, Clean, ClockTurn, LoopTurn, Ok, Starting, Ending
<1>17. CASE L!ResetStore("clock")
  <2>1. /\ pc["clock"] = "resetStore"
        /\ pc'["clock"] = "resetPost" /\ res'["clock"] = res["clock"]
        /\ (PostedA' <=> PostedA) /\ (PostedB' <=> PostedB)
        /\ state_' = "kBFinished"
    BY <1>17, LockstepTypes DEF L!ResetStore, PostedA, PostedB
  <2>. QED BY <1>1, <2>1, GoodTypes DEF Good, Places, Resetting, Token, Restarts, Answered,
       Stamped,
       Ordered, Clean, ClockTurn, LoopTurn, Ok, Starting, Ending
<1>18. CASE L!ResetPost("clock")
  <2>1. /\ pc["clock"] = "resetPost"
        /\ pc'["clock"] = "idle" /\ res'["clock"] = "kOk"
        /\ PostedB' /\ (PostedA' <=> PostedA)
        /\ state_' = state_
    BY <1>18, LockstepTypes DEF L!ResetPost, PostedA, PostedB
  <2>. QED BY <1>1, <2>1, GoodTypes DEF Good, Places, Resetting, Token, Restarts, Answered,
       Stamped,
       Ordered, Clean, ClockTurn, LoopTurn, Ok, Starting, Ending
<1>. QED
  BY <1>2, <1>3, <1>4, <1>5, <1>6, <1>7, <1>8, <1>9, <1>10, <1>11, <1>12, <1>13, <1>14, <1>15,
       <1>16, <1>17, <1>18
  DEF InLockstep, L!InStart, L!StartStep, L!InEnd, L!InCancel, L!InReset

\* The steps of the main loop in its calls of the lockstep.
LEMMA LoopCalls ==
  ASSUME TypeOK, Good, InLockstep("loop")
  PROVE  Good'
<1>1. /\ pc'["clock"] = pc["clock"] /\ res'["clock"] = res["clock"]
      /\ UNCHANGED <<cpc, lpc, ticked, written, cycle_start_, cycle_start_nanoseconds>>
      /\ UNCHANGED <<servers, shutdown_notification_, recovered>>
  BY CallsApart DEF clockVars, loopVars, InLockstep
<1>. USE DEF L!Goto, L!Return, L!Posted, L!Take, L!Post, L!Other, L!Running, L!Finished, L!Sides
<1>2. CASE L!StartWait("loop")
  <2>1. /\ pc["loop"] = "wait"
        /\ pc'["loop"] = "startCheck" /\ res'["loop"] = res["loop"]
        /\ PostedA /\ ~PostedA' /\ (PostedB' <=> PostedB)
        /\ state_' = state_
    BY <1>2, LockstepTypes DEF L!StartWait, PostedA, PostedB
  <2>. QED BY <1>1, <2>1, GoodTypes DEF Good, Places, Resetting, Token, Restarts, Answered,
       Stamped,
       Ordered, Clean, ClockTurn, LoopTurn, Ok, Starting, Ending
<1>3. CASE L!StartTimeout("loop")
  <2>1. /\ pc["loop"] = "wait"
        /\ pc'["loop"] = "idle" /\ res'["loop"] = "kDeadlineExceeded"
        /\ ~PostedA /\ (PostedA' <=> PostedA) /\ (PostedB' <=> PostedB)
        /\ state_' = state_
    BY <1>3, LockstepTypes DEF L!StartTimeout, PostedA, PostedB
  <2>. QED BY <1>1, <2>1, GoodTypes DEF Good, Places, Resetting, Token, Restarts, Answered,
       Stamped,
       Ordered, Clean, ClockTurn, LoopTurn, Ok, Starting, Ending
<1>4. CASE L!StartCheck("loop")
  <2>1. /\ pc["loop"] = "startCheck"
        /\ pc'["loop"] = IF state_ = "kCancelled" THEN "startRepost" ELSE "startExpect"
        /\ res'["loop"] = res["loop"]
        /\ (PostedA' <=> PostedA) /\ (PostedB' <=> PostedB)
        /\ state_' = state_
    BY <1>4, LockstepTypes DEF L!StartCheck, PostedA, PostedB
  <2>. QED BY <1>1, <2>1, GoodTypes DEF Good, Places, Resetting, Token, Restarts, Answered,
       Stamped,
       Ordered, Clean, ClockTurn, LoopTurn, Ok, Starting, Ending
<1>5. CASE L!StartRepost("loop")
  <2>1. /\ pc["loop"] = "startRepost"
        /\ pc'["loop"] = "idle" /\ res'["loop"] = "kAborted"
        /\ PostedA' /\ (PostedB' <=> PostedB)
        /\ state_' = state_
    BY <1>5, LockstepTypes DEF L!StartRepost, PostedA, PostedB
  <2>. QED BY <1>1, <2>1, GoodTypes DEF Good, Places, Resetting, Token, Restarts, Answered,
       Stamped,
       Ordered, Clean, ClockTurn, LoopTurn, Ok, Starting, Ending
<1>6. CASE L!StartExpect("loop")
  <2>1. /\ pc["loop"] = "startExpect"
        /\ IF state_ = "kAFinished" THEN pc'["loop"] = "startStore" /\ res'["loop"] = res["loop"]
                   ELSE pc'["loop"] = "idle" /\ res'["loop"] = "kFailedPrecondition"
        /\ (PostedA' <=> PostedA) /\ (PostedB' <=> PostedB)
        /\ state_' = state_
    BY <1>6, LockstepTypes DEF L!StartExpect, PostedA, PostedB
  <2>. QED BY <1>1, <2>1, GoodTypes DEF Good, Places, Resetting, Token, Restarts, Answered,
       Stamped,
       Ordered, Clean, ClockTurn, LoopTurn, Ok, Starting, Ending
<1>7. CASE L!StartStore("loop")
  <2>1. /\ pc["loop"] = "startStore"
        /\ pc'["loop"] = "idle" /\ res'["loop"] = "kOk"
        /\ (PostedA' <=> PostedA) /\ (PostedB' <=> PostedB)
        /\ state_' = "kBRunning"
    BY <1>7, LockstepTypes DEF L!StartStore, PostedA, PostedB
  <2>. QED BY <1>1, <2>1, GoodTypes DEF Good, Places, Resetting, Token, Restarts, Answered,
       Stamped,
       Ordered, Clean, ClockTurn, LoopTurn, Ok, Starting, Ending
<1>8. CASE L!EndCheck("loop")
  <2>1. /\ pc["loop"] = "endCheck"
        /\ IF state_ = "kCancelled" THEN pc'["loop"] = "idle" /\ res'["loop"] = "kOk"
                   ELSE pc'["loop"] = "endExpect" /\ res'["loop"] = res["loop"]
        /\ (PostedA' <=> PostedA) /\ (PostedB' <=> PostedB)
        /\ state_' = state_
    BY <1>8, LockstepTypes DEF L!EndCheck, PostedA, PostedB
  <2>. QED BY <1>1, <2>1, GoodTypes DEF Good, Places, Resetting, Token, Restarts, Answered,
       Stamped,
       Ordered, Clean, ClockTurn, LoopTurn, Ok, Starting, Ending
<1>9. CASE L!EndExpect("loop")
  <2>1. /\ pc["loop"] = "endExpect"
        /\ IF state_ = "kBRunning" THEN pc'["loop"] = "endStore" /\ res'["loop"] = res["loop"]
                   ELSE pc'["loop"] = "idle" /\ res'["loop"] = "kFailedPrecondition"
        /\ (PostedA' <=> PostedA) /\ (PostedB' <=> PostedB)
        /\ state_' = state_
    BY <1>9, LockstepTypes DEF L!EndExpect, PostedA, PostedB
  <2>. QED BY <1>1, <2>1, GoodTypes DEF Good, Places, Resetting, Token, Restarts, Answered,
       Stamped,
       Ordered, Clean, ClockTurn, LoopTurn, Ok, Starting, Ending
<1>10. CASE L!EndStore("loop")
  <2>1. /\ pc["loop"] = "endStore"
        /\ pc'["loop"] = "endPost" /\ res'["loop"] = res["loop"]
        /\ (PostedA' <=> PostedA) /\ (PostedB' <=> PostedB)
        /\ state_' = "kBFinished"
    BY <1>10, LockstepTypes DEF L!EndStore, PostedA, PostedB
  <2>. QED BY <1>1, <2>1, GoodTypes DEF Good, Places, Resetting, Token, Restarts, Answered,
       Stamped,
       Ordered, Clean, ClockTurn, LoopTurn, Ok, Starting, Ending
<1>11. CASE L!EndPost("loop")
  <2>1. /\ pc["loop"] = "endPost"
        /\ pc'["loop"] = "idle" /\ res'["loop"] = "kOk"
        /\ PostedB' /\ (PostedA' <=> PostedA)
        /\ state_' = state_
    BY <1>11, LockstepTypes DEF L!EndPost, PostedA, PostedB
  <2>. QED BY <1>1, <2>1, GoodTypes DEF Good, Places, Resetting, Token, Restarts, Answered,
       Stamped,
       Ordered, Clean, ClockTurn, LoopTurn, Ok, Starting, Ending
<1>12. CASE L!CancelPostA("loop")
  <2>1. /\ pc["loop"] = "cancelPostA"
        /\ pc'["loop"] = "cancelPostB" /\ res'["loop"] = res["loop"]
        /\ PostedA' /\ (PostedB' <=> PostedB)
        /\ state_' = state_
    BY <1>12, LockstepTypes DEF L!CancelPostA, PostedA, PostedB
  <2>. QED BY <1>1, <2>1, GoodTypes DEF Good, Places, Resetting, Token, Restarts, Answered,
       Stamped,
       Ordered, Clean, ClockTurn, LoopTurn, Ok, Starting, Ending
<1>13. CASE L!CancelPostB("loop")
  <2>1. /\ pc["loop"] = "cancelPostB"
        /\ pc'["loop"] = "idle" /\ res'["loop"] = "kOk"
        /\ PostedB' /\ (PostedA' <=> PostedA)
        /\ state_' = state_
    BY <1>13, LockstepTypes DEF L!CancelPostB, PostedA, PostedB
  <2>. QED BY <1>1, <2>1, GoodTypes DEF Good, Places, Resetting, Token, Restarts, Answered,
       Stamped,
       Ordered, Clean, ClockTurn, LoopTurn, Ok, Starting, Ending
<1>14. ~L!InReset("loop")
  BY DEF Good, Places, L!InReset, L!ResetWaitA, L!ResetWaitB, L!ResetTimeout, L!ResetStore,
     L!ResetPost, Starting, Ending
<1>. QED
  BY <1>2, <1>3, <1>4, <1>5, <1>6, <1>7, <1>8, <1>9, <1>10, <1>11, <1>12, <1>13, <1>14
  DEF InLockstep, L!InStart, L!StartStep, L!InEnd, L!InCancel, L!InReset


\* A call begins: of a start or an end of an operation, a Cancel or a Reset.
LEMMA CallBegins ==
  ASSUME TypeOK, NEW t \in {"clock", "loop"}, NEW s \in {"clock", "loop"}, s # t
  PROVE  /\ L!StartOperation(t) \/ L!EndOperation(t) \/ L!Cancel(t) \/ L!Reset(t) =>
              /\ pc[t] = "idle" /\ pc'[s] = pc[s] /\ res'[s] = res[s]
              /\ (PostedA' <=> PostedA) /\ (PostedB' <=> PostedB)
         /\ L!StartOperation(t) => pc'[t] = "wait" /\ state_' = state_
         /\ L!EndOperation(t) => pc'[t] = "endCheck" /\ state_' = state_
         /\ L!Cancel(t) => pc'[t] = "cancelPostA" /\ state_' = "kCancelled"
         /\ L!Reset(t) => /\ state_' = state_
                          /\ state_ = "kCancelled" => pc'[t] = "resetWaitA"
BY LockstepTypes
DEF L!StartOperation, L!EndOperation, L!Cancel, L!Reset, L!Goto, L!Return, PostedA, PostedB

\* A step that leaves the lockstep alone.
Quiet == /\ state_' = state_ /\ (PostedA' <=> PostedA) /\ (PostedB' <=> PostedB)
         /\ pc' = pc /\ res' = res

\* The steps between the calls keep the invariant, until the clock is reset for no server.
LEMMA CallerSteps ==
  ASSUME TypeOK, Good, [Next]_vars, recovered' = FALSE
  PROVE  Good'
<1>1. UNCHANGED lockstep => Quiet BY DEF lockstep, Quiet, PostedA, PostedB
<1>2. CASE InLockstep("clock") BY <1>2, ClockCalls
<1>3. CASE InLockstep("loop") BY <1>3, LoopCalls
<1>4. CASE Create
  BY <1>1, <1>4, CallBegins, GoodTypes
  DEF Create, Clock, Loop, Returned, clockVars, loopVars, Quiet,
     Good, Places, Resetting, Token, Restarts, Answered, Stamped, Ordered,
     Clean, ClockTurn, LoopTurn, Ok, Starting, Ending
<1>5. CASE Tick
  BY <1>1, <1>5, CallBegins, GoodTypes
  DEF Tick, Clock, Loop, Returned, clockVars, loopVars, Quiet,
     Good, Places, Resetting, Token, Restarts, Answered, Stamped, Ordered,
     Clean, ClockTurn, LoopTurn, Ok, Starting, Ending
<1>6. CASE TickEnded
  BY <1>1, <1>6, CallBegins, GoodTypes
  DEF TickEnded, Clock, Loop, Returned, clockVars, loopVars, Quiet,
     Good, Places, Resetting, Token, Restarts, Answered, Stamped, Ordered,
     Clean, ClockTurn, LoopTurn, Ok, Starting, Ending
<1>7. CASE TickReturns
  BY <1>1, <1>7, CallBegins, GoodTypes
  DEF TickReturns, Clock, Loop, Returned, clockVars, loopVars, Quiet,
     Good, Places, Resetting, Token, Restarts, Answered, Stamped, Ordered,
     Clean, ClockTurn, LoopTurn, Ok, Starting, Ending
<1>8. CASE Reset
  BY <1>1, <1>8, CallBegins, GoodTypes
  DEF Reset, Clock, Loop, Returned, clockVars, loopVars, Quiet,
     Good, Places, Resetting, Token, Restarts, Answered, Stamped, Ordered,
     Clean, ClockTurn, LoopTurn, Ok, Starting, Ending
<1>9. CASE ResetCancelled
  BY <1>1, <1>9, CallBegins, GoodTypes
  DEF ResetCancelled, Clock, Loop, Returned, clockVars, loopVars, Quiet,
     Good, Places, Resetting, Token, Restarts, Answered, Stamped, Ordered,
     Clean, ClockTurn, LoopTurn, Ok, Starting, Ending
<1>10. CASE ResetReset
  BY <1>1, <1>10, CallBegins, GoodTypes
  DEF ResetReset, Clock, Loop, Returned, clockVars, loopVars, Quiet,
     Good, Places, Resetting, Token, Restarts, Answered, Stamped, Ordered,
     Clean, ClockTurn, LoopTurn, Ok, Starting, Ending
<1>11. CASE ResetReturns
  BY <1>1, <1>11, CallBegins, GoodTypes
  DEF ResetReturns, Clock, Loop, Returned, clockVars, loopVars, Quiet,
     Good, Places, Resetting, Token, Restarts, Answered, Stamped, Ordered,
     Clean, ClockTurn, LoopTurn, Ok, Starting, Ending
<1>12. CASE Destroy
  BY <1>1, <1>12, CallBegins, GoodTypes
  DEF Destroy, Clock, Loop, Returned, clockVars, loopVars, Quiet,
     Good, Places, Resetting, Token, Restarts, Answered, Stamped, Ordered,
     Clean, ClockTurn, LoopTurn, Ok, Starting, Ending
<1>13. CASE Prepared
  BY <1>1, <1>13, CallBegins, GoodTypes
  DEF Prepared, Clock, Loop, Returned, clockVars, loopVars, Quiet,
     Good, Places, Resetting, Token, Restarts, Answered, Stamped, Ordered,
     Clean, ClockTurn, LoopTurn, Ok, Starting, Ending
<1>14. CASE RequestShutdown
  BY <1>1, <1>14, CallBegins, GoodTypes
  DEF RequestShutdown, Clock, Loop, Returned, clockVars, loopVars, Quiet,
     Good, Places, Resetting, Token, Restarts, Answered, Stamped, Ordered,
     Clean, ClockTurn, LoopTurn, Ok, Starting, Ending
<1>15. CASE BeginCycle
  BY <1>1, <1>15, CallBegins, GoodTypes
  DEF BeginCycle, Clock, Loop, Returned, clockVars, loopVars, Quiet,
     Good, Places, Resetting, Token, Restarts, Answered, Stamped, Ordered,
     Clean, ClockTurn, LoopTurn, Ok, Starting, Ending
<1>16. CASE BeginCycleReturns
  BY <1>1, <1>16, CallBegins, GoodTypes
  DEF BeginCycleReturns, Clock, Loop, Returned, clockVars, loopVars, Quiet,
     Good, Places, Resetting, Token, Restarts, Answered, Stamped, Ordered,
     Clean, ClockTurn, LoopTurn, Ok, Starting, Ending
<1>17. CASE FinishCycle
  BY <1>1, <1>17, CallBegins, GoodTypes
  DEF FinishCycle, Clock, Loop, Returned, clockVars, loopVars, Quiet,
     Good, Places, Resetting, Token, Restarts, Answered, Stamped, Ordered,
     Clean, ClockTurn, LoopTurn, Ok, Starting, Ending
<1>18. CASE CycleFails
  BY <1>1, <1>18, CallBegins, GoodTypes
  DEF CycleFails, Clock, Loop, PostedA, PostedB, Returned, clockVars, loopVars, Quiet,
     Good, Places, Resetting, Token, Restarts, Answered, Stamped, Ordered,
     Clean, ClockTurn, LoopTurn, Ok, Starting, Ending
<1>19. CASE FinishCycleReturns
  BY <1>1, <1>19, CallBegins, GoodTypes
  DEF FinishCycleReturns, Clock, Loop, Returned, clockVars, loopVars, Quiet,
     Good, Places, Resetting, Token, Restarts, Answered, Stamped, Ordered,
     Clean, ClockTurn, LoopTurn, Ok, Starting, Ending
<1>20. CASE Shutdown
  BY <1>1, <1>20, CallBegins, GoodTypes
  DEF Shutdown, Clock, Loop, Returned, clockVars, loopVars, Quiet,
     Good, Places, Resetting, Token, Restarts, Answered, Stamped, Ordered,
     Clean, ClockTurn, LoopTurn, Ok, Starting, Ending
<1>21. CASE ShutdownReturns
  BY <1>1, <1>21, CallBegins, GoodTypes
  DEF ShutdownReturns, Clock, Loop, Returned, clockVars, loopVars, Quiet,
     Good, Places, Resetting, Token, Restarts, Answered, Stamped, Ordered,
     Clean, ClockTurn, LoopTurn, Ok, Starting, Ending
<1>22. CASE Restart
  BY <1>1, <1>22, CallBegins, GoodTypes
  DEF Restart, Clock, Loop, Returned, clockVars, loopVars, Quiet,
     Good, Places, Resetting, Token, Restarts, Answered, Stamped, Ordered,
     Clean, ClockTurn, LoopTurn, Ok, Starting, Ending
<1>23. CASE Stopped \/ UNCHANGED vars
  BY <1>1, <1>23
  DEF Stopped, vars, clockVars, loopVars, Quiet, Good, Places, Resetting, Token, Restarts,
       Answered, Stamped, Ordered,
     Clean, ClockTurn, LoopTurn, Ok, Starting, Ending
<1>. QED
  BY <1>2, <1>3, <1>4, <1>5, <1>6, <1>7, <1>8, <1>9, <1>10, <1>11, <1>12, <1>13, <1>14, <1>15,
       <1>16, <1>17, <1>18, <1>19, <1>20, <1>21, <1>22, <1>23
  DEF Next, ClockStep, LoopStep

\* The lockstep keeps its types, whatever the two threads call.
LEMMA CallsTypeOK ==
  ASSUME L!TypeOK, NEW t \in {"clock", "loop"},
         \/ L!StartOperation(t) \/ L!EndOperation(t) \/ L!Cancel(t) \/ L!Reset(t)
         \/ L!InStart(t) \/ L!InEnd(t) \/ L!InCancel(t) \/ L!InReset(t)
  PROVE  L!TypeOK'
<1>. DEFINE P == {"idle"} \cup L!OperationPC \cup L!ControlPC
            F == [L!Sides -> {"kReady", "kPosted"}]
            Goes    == \E l \in P : L!Goto(t, l)
            Returns == \E s \in L!Statuses : L!Return(t, s)
            Flags   == finished' = finished \/ \E x \in {"A", "B"} : L!Take(x) \/ L!Post(x)
<1>1. /\ {"idle", "wait", "startCheck", "startRepost", "startExpect", "startStore"} \subseteq P
      /\ {"endCheck", "endExpect", "endStore", "endPost"} \subseteq P
      /\ {"cancelPostA", "cancelPostB"} \subseteq P
      /\ {"resetWaitA", "resetWaitB", "resetStore", "resetPost"} \subseteq P
      /\ {"kOk", "kAborted", "kDeadlineExceeded", "kFailedPrecondition"} \subseteq L!Statuses
  BY DEF L!OperationPC, L!ControlPC, L!Statuses
<1>2. /\ pc \in [{"clock", "loop"} -> P] /\ res \in [{"clock", "loop"} -> L!Statuses]
      /\ finished \in F /\ state_ \in L!States /\ inside \subseteq {"clock", "loop"}
  BY DEF L!TypeOK
<1>. HIDE DEF P
<1>3. ASSUME Goes \/ Returns
      PROVE  pc' \in [{"clock", "loop"} -> P] /\ res' \in [{"clock", "loop"} -> L!Statuses]
  BY <1>1, <1>2, <1>3 DEF L!Goto, L!Return
<1>4. ASSUME Flags PROVE finished' \in F
  BY <1>2, <1>4 DEF L!Take, L!Post, L!Sides
<1>5. ASSUME Goes \/ Returns, Flags, state_' \in L!States, inside' \subseteq {"clock", "loop"}
      PROVE  L!TypeOK'
  BY <1>3, <1>4, <1>5 DEF L!TypeOK, P
<1>6. /\ L!Running["A"] \in L!States /\ L!Running["B"] \in L!States
      /\ L!Finished["A"] \in L!States /\ L!Finished["B"] \in L!States
      /\ "kCancelled" \in L!States /\ "kBFinished" \in L!States
      /\ \A u \in {"clock", "loop"} :
           [v \in {"clock", "loop"} |-> IF v = "clock" THEN "A" ELSE "B"][u] \in {"A", "B"}
  BY DEF L!Running, L!Finished, L!States, L!Sides
<1>7. L!Other("A") = "B" /\ L!Other("B") = "A" BY DEF L!Other
<1>. HIDE DEF F, Goes, Returns, Flags
<1>8. CASE L!StartOperation(t)
  <2>1. Goes \/ Returns BY <1>1, <1>8 DEF L!StartOperation, Goes, Returns
  <2>2. Flags BY <1>6, <1>7, <1>8 DEF L!StartOperation, Flags
  <2>. QED BY <1>2, <1>5, <1>6, <2>1, <2>2, <1>8 DEF L!StartOperation
<1>9. CASE L!EndOperation(t)
  <2>1. Goes \/ Returns BY <1>1, <1>9 DEF L!EndOperation, Goes, Returns
  <2>2. Flags BY <1>6, <1>7, <1>9 DEF L!EndOperation, Flags
  <2>. QED BY <1>2, <1>5, <1>6, <2>1, <2>2, <1>9 DEF L!EndOperation
<1>10. CASE L!Cancel(t)
  <2>1. Goes \/ Returns BY <1>1, <1>10 DEF L!Cancel, Goes, Returns
  <2>2. Flags BY <1>6, <1>7, <1>10 DEF L!Cancel, Flags
  <2>. QED BY <1>2, <1>5, <1>6, <2>1, <2>2, <1>10 DEF L!Cancel
<1>11. CASE L!Reset(t)
  <2>1. Goes \/ Returns BY <1>1, <1>11 DEF L!Reset, Goes, Returns
  <2>2. Flags BY <1>6, <1>7, <1>11 DEF L!Reset, Flags
  <2>. QED BY <1>2, <1>5, <1>6, <2>1, <2>2, <1>11 DEF L!Reset
<1>12. CASE L!StartWait(t)
  <2>1. Goes \/ Returns BY <1>1, <1>12 DEF L!StartWait, Goes, Returns
  <2>2. Flags BY <1>6, <1>7, <1>12 DEF L!StartWait, Flags
  <2>. QED BY <1>2, <1>5, <1>6, <2>1, <2>2, <1>12 DEF L!StartWait
<1>13. CASE L!StartTimeout(t)
  <2>1. Goes \/ Returns BY <1>1, <1>13 DEF L!StartTimeout, Goes, Returns
  <2>2. Flags BY <1>6, <1>7, <1>13 DEF L!StartTimeout, Flags
  <2>. QED BY <1>2, <1>5, <1>6, <2>1, <2>2, <1>13 DEF L!StartTimeout
<1>14. CASE L!StartCheck(t)
  <2>1. Goes \/ Returns BY <1>1, <1>14 DEF L!StartCheck, Goes, Returns
  <2>2. Flags BY <1>6, <1>7, <1>14 DEF L!StartCheck, Flags
  <2>. QED BY <1>2, <1>5, <1>6, <2>1, <2>2, <1>14 DEF L!StartCheck
<1>15. CASE L!StartExpect(t)
  <2>1. Goes \/ Returns BY <1>1, <1>15 DEF L!StartExpect, Goes, Returns
  <2>2. Flags BY <1>6, <1>7, <1>15 DEF L!StartExpect, Flags
  <2>. QED BY <1>2, <1>5, <1>6, <2>1, <2>2, <1>15 DEF L!StartExpect
<1>16. CASE L!StartStore(t)
  <2>1. Goes \/ Returns BY <1>1, <1>16 DEF L!StartStore, Goes, Returns
  <2>2. Flags BY <1>6, <1>7, <1>16 DEF L!StartStore, Flags
  <2>. QED BY <1>2, <1>5, <1>6, <2>1, <2>2, <1>16 DEF L!StartStore
<1>17. CASE L!EndCheck(t)
  <2>1. Goes \/ Returns BY <1>1, <1>17 DEF L!EndCheck, Goes, Returns
  <2>2. Flags BY <1>6, <1>7, <1>17 DEF L!EndCheck, Flags
  <2>. QED BY <1>2, <1>5, <1>6, <2>1, <2>2, <1>17 DEF L!EndCheck
<1>18. CASE L!EndExpect(t)
  <2>1. Goes \/ Returns BY <1>1, <1>18 DEF L!EndExpect, Goes, Returns
  <2>2. Flags BY <1>6, <1>7, <1>18 DEF L!EndExpect, Flags
  <2>. QED BY <1>2, <1>5, <1>6, <2>1, <2>2, <1>18 DEF L!EndExpect
<1>19. CASE L!EndStore(t)
  <2>1. Goes \/ Returns BY <1>1, <1>19 DEF L!EndStore, Goes, Returns
  <2>2. Flags BY <1>6, <1>7, <1>19 DEF L!EndStore, Flags
  <2>. QED BY <1>2, <1>5, <1>6, <2>1, <2>2, <1>19 DEF L!EndStore
<1>20. CASE L!EndPost(t)
  <2>1. Goes \/ Returns BY <1>1, <1>20 DEF L!EndPost, Goes, Returns
  <2>2. Flags BY <1>6, <1>7, <1>20 DEF L!EndPost, Flags
  <2>. QED BY <1>2, <1>5, <1>6, <2>1, <2>2, <1>20 DEF L!EndPost
<1>21. CASE L!CancelPostA(t)
  <2>1. Goes \/ Returns BY <1>1, <1>21 DEF L!CancelPostA, Goes, Returns
  <2>2. Flags BY <1>6, <1>7, <1>21 DEF L!CancelPostA, Flags
  <2>. QED BY <1>2, <1>5, <1>6, <2>1, <2>2, <1>21 DEF L!CancelPostA
<1>22. CASE L!CancelPostB(t)
  <2>1. Goes \/ Returns BY <1>1, <1>22 DEF L!CancelPostB, Goes, Returns
  <2>2. Flags BY <1>6, <1>7, <1>22 DEF L!CancelPostB, Flags
  <2>. QED BY <1>2, <1>5, <1>6, <2>1, <2>2, <1>22 DEF L!CancelPostB
<1>23. CASE L!StartRepost(t)
  <2>1. Goes \/ Returns BY <1>1, <1>23 DEF L!StartRepost, Goes, Returns
  <2>2. Flags BY <1>6, <1>7, <1>23 DEF L!StartRepost, Flags
  <2>. QED BY <1>2, <1>5, <1>6, <2>1, <2>2, <1>23 DEF L!StartRepost
<1>24. CASE L!ResetWaitA(t)
  <2>1. Goes \/ Returns BY <1>1, <1>24 DEF L!ResetWaitA, Goes, Returns
  <2>2. Flags BY <1>6, <1>7, <1>24 DEF L!ResetWaitA, Flags
  <2>. QED BY <1>2, <1>5, <1>6, <2>1, <2>2, <1>24 DEF L!ResetWaitA
<1>25. CASE L!ResetWaitB(t)
  <2>1. Goes \/ Returns BY <1>1, <1>25 DEF L!ResetWaitB, Goes, Returns
  <2>2. Flags BY <1>6, <1>7, <1>25 DEF L!ResetWaitB, Flags
  <2>. QED BY <1>2, <1>5, <1>6, <2>1, <2>2, <1>25 DEF L!ResetWaitB
<1>26. CASE L!ResetTimeout(t)
  <2>1. Goes \/ Returns BY <1>1, <1>26 DEF L!ResetTimeout, Goes, Returns
  <2>2. Flags BY <1>6, <1>7, <1>26 DEF L!ResetTimeout, Flags
  <2>. QED BY <1>2, <1>5, <1>6, <2>1, <2>2, <1>26 DEF L!ResetTimeout
<1>27. CASE L!ResetStore(t)
  <2>1. Goes \/ Returns BY <1>1, <1>27 DEF L!ResetStore, Goes, Returns
  <2>2. Flags BY <1>6, <1>7, <1>27 DEF L!ResetStore, Flags
  <2>. QED BY <1>2, <1>5, <1>6, <2>1, <2>2, <1>27 DEF L!ResetStore
<1>28. CASE L!ResetPost(t)
  <2>1. Goes \/ Returns BY <1>1, <1>28 DEF L!ResetPost, Goes, Returns
  <2>2. Flags BY <1>6, <1>7, <1>28 DEF L!ResetPost, Flags
  <2>. QED BY <1>2, <1>5, <1>6, <2>1, <2>2, <1>28 DEF L!ResetPost
<1>. QED
  BY <1>8, <1>9, <1>10, <1>11, <1>12, <1>13, <1>14, <1>15, <1>16, <1>17, <1>18, <1>19, <1>20,
       <1>21, <1>22, <1>23, <1>24, <1>25, <1>26, <1>27, <1>28
  DEF L!InStart, L!StartStep, L!InEnd, L!InCancel, L!InReset

\* Every step keeps the types.
LEMMA NextTypeOK ==
  ASSUME TypeOK, [Next]_vars
  PROVE  TypeOK'
<1>1. L!TypeOK'
  <2>1. L!TypeOK BY DEF TypeOK
  <2>2. UNCHANGED lockstep => L!TypeOK' BY <2>1 DEF lockstep, L!TypeOK
  <2>3. CycleFails => L!TypeOK' BY <2>1 DEF CycleFails, L!TypeOK
  <2>4. ASSUME NEW t \in {"clock", "loop"},
               L!StartOperation(t) \/ L!EndOperation(t) \/ L!Cancel(t) \/ L!Reset(t)
        PROVE  L!TypeOK'
    BY <2>1, <2>4, CallsTypeOK
  <2>5. ASSUME NEW t \in {"clock", "loop"}, InLockstep(t) PROVE L!TypeOK'
    BY <2>1, <2>5, CallsTypeOK DEF InLockstep
  <2>6. CASE Create BY <2>2, <2>4, <2>6 DEF Create
  <2>7. CASE Tick BY <2>2, <2>4, <2>7 DEF Tick
  <2>8. CASE TickEnded BY <2>2, <2>4, <2>8 DEF TickEnded
  <2>9. CASE TickReturns BY <2>2, <2>4, <2>9 DEF TickReturns
  <2>10. CASE Reset BY <2>2, <2>4, <2>10 DEF Reset
  <2>11. CASE ResetCancelled BY <2>2, <2>4, <2>11 DEF ResetCancelled
  <2>12. CASE ResetReset BY <2>2, <2>4, <2>12 DEF ResetReset
  <2>13. CASE ResetReturns BY <2>2, <2>4, <2>13 DEF ResetReturns
  <2>14. CASE Destroy BY <2>2, <2>4, <2>14 DEF Destroy
  <2>15. CASE Prepared BY <2>2, <2>4, <2>15 DEF Prepared
  <2>16. CASE BeginCycle BY <2>2, <2>4, <2>16 DEF BeginCycle
  <2>17. CASE BeginCycleReturns BY <2>2, <2>4, <2>17 DEF BeginCycleReturns
  <2>18. CASE FinishCycle BY <2>2, <2>4, <2>18 DEF FinishCycle
  <2>19. CASE FinishCycleReturns BY <2>2, <2>4, <2>19 DEF FinishCycleReturns
  <2>20. CASE Shutdown BY <2>2, <2>4, <2>20 DEF Shutdown
  <2>21. CASE ShutdownReturns BY <2>2, <2>4, <2>21 DEF ShutdownReturns
  <2>22. CASE RequestShutdown \/ Restart \/ Stopped \/ UNCHANGED vars
    BY <2>2, <2>22 DEF RequestShutdown, Restart, Stopped, vars
  <2>. QED
    BY <2>3, <2>5, <2>6, <2>7, <2>8, <2>9, <2>10, <2>11, <2>12, <2>13, <2>14, <2>15, <2>16,
         <2>17, <2>18, <2>19, <2>20, <2>21, <2>22
    DEF Next, ClockStep, LoopStep
<1>. USE RealtimeClockAssumption DEF TypeOK, Clock, Loop, clockVars, loopVars
<1>2. CASE InLockstep("clock") \/ InLockstep("loop") BY <1>1, <1>2 DEF InLockstep
<1>3. CASE Create \/ Tick \/ Destroy BY <1>1, <1>3 DEF Create, Tick, Destroy
<1>4. CASE TickEnded \/ TickReturns BY <1>1, <1>4 DEF TickEnded, TickReturns
<1>5. CASE Reset BY <1>1, <1>5 DEF Reset
<1>6. CASE ResetCancelled \/ ResetReset \/ ResetReturns
  BY <1>1, <1>6 DEF ResetCancelled, ResetReset, ResetReturns
<1>7. CASE Prepared \/ BeginCycle \/ BeginCycleReturns
  BY <1>1, <1>7 DEF Prepared, BeginCycle, BeginCycleReturns
<1>8. CASE FinishCycle \/ CycleFails \/ FinishCycleReturns
  BY <1>1, <1>8 DEF FinishCycle, CycleFails, FinishCycleReturns
<1>9. CASE Shutdown \/ ShutdownReturns BY <1>1, <1>9 DEF Shutdown, ShutdownReturns
<1>10. CASE RequestShutdown \/ Restart
  <2>1. CASE Restart
    <3>1. servers + 1 \in 0 .. MaxServers BY <2>1 DEF Restart
    <3>. QED BY <1>1, <2>1, <3>1 DEF Restart
  <2>2. CASE RequestShutdown BY <1>1, <2>2 DEF RequestShutdown
  <2>. QED BY <1>10, <2>1, <2>2
<1>11. CASE Stopped \/ UNCHANGED vars BY <1>1, <1>11 DEF Stopped, vars
<1>. QED
  BY <1>2, <1>3, <1>4, <1>5, <1>6, <1>7, <1>8, <1>9, <1>10, <1>11 DEF Next, ClockStep, LoopStep
-----------------------------------------------------------------------------

\* A new clock and a new server have the invariant.
LEMMA InitIInv ==
  ASSUME Init
  PROVE  IInv
<1>1. 0 \in 0 .. MaxTicks /\ 1 \in 0 .. MaxServers BY RealtimeClockAssumption
<1>2. TypeOK
  BY <1>1
  DEF Init, L!Init, TypeOK, L!TypeOK, L!Sides, L!States, L!OperationPC, L!ControlPC, L!Statuses
<1>3. Good
  BY DEF Init, L!Init, L!Sides, Good, Places, Resetting, Token, Restarts, Answered, Stamped,
       Ordered,
         Clean, ClockTurn, LoopTurn, Ok, Starting, Ending, PostedA, PostedB
<1>. QED BY <1>2, <1>3 DEF IInv

\* A clock that was reset without a new server is remembered.
LEMMA RecoveredForGood ==
  ASSUME TypeOK, [Next]_vars, recovered
  PROVE  recovered'
BY DEF TypeOK, Next, ClockStep, LoopStep, InLockstep, Create, Tick, Destroy, TickEnded,
     TickReturns,
       Reset, ResetCancelled, ResetReset, ResetReturns, Prepared, BeginCycle, BeginCycleReturns,
       FinishCycle, CycleFails, FinishCycleReturns, Shutdown, ShutdownReturns, RequestShutdown,
       Restart, Stopped, vars, Clock, Loop, clockVars, loopVars

\* The invariant is inductive.
LEMMA NextIInv ==
  ASSUME IInv, [Next]_vars
  PROVE  IInv'
<1>1. TypeOK /\ TypeOK' BY NextTypeOK DEF IInv
<1>2. CASE recovered' = TRUE BY <1>1, <1>2 DEF IInv
<1>3. CASE recovered' = FALSE
  <2>1. ~recovered BY <1>1, <1>3, RecoveredForGood
  <2>2. Good BY <2>1 DEF IInv
  <2>. QED BY <1>1, <1>3, <2>2, CallerSteps DEF IInv
<1>. QED BY <1>1, <1>2, <1>3 DEF TypeOK

\* The invariant: one token from the Reset for a server to the server's Cancel, and ticks,
\* cycles and timestamps in order.
THEOREM InvariantHolds == Spec => []IInv
BY InitIInv, NextIInv, PTL DEF Spec

\* The control cycle and the clock's owner exclude each other, for any number of ticks, servers,
\* timeouts, failing cycles and shutdowns.
THEOREM Exclusion == Spec => []OneAtATime
<1>1. IInv => OneAtATime
  BY DEF IInv, Good, Token, Clean, ClockTurn, LoopTurn, OneAtATime
<1>. QED BY <1>1, InvariantHolds, PTL

\* A tick that returns OK has had its cycle, also when the server's Cancel is overwritten by
\* the clock's own store.
THEOREM TicksHaveCycles == Spec => []TickMeansCycle
<1>1. IInv => TickMeansCycle
  BY GoodTypes DEF IInv, Good, Ordered, TickMeansCycle
<1>. QED BY <1>1, InvariantHolds, PTL

\* No timestamp is used for two cycles, across servers too.
THEOREM CyclesHaveTicks == Spec => OneCyclePerTick
<1>1. ASSUME IInv, [Next]_vars
      PROVE  [lpc = "begin" /\ lpc' = "cycle" /\ cpc # "gone" /\ ~recovered
                => cycle_start_' > cycle_start_]_vars
  <2>. SUFFICES ASSUME lpc = "begin", lpc' = "cycle", cpc # "gone", ~recovered
                PROVE  cycle_start_' > cycle_start_
    OBVIOUS
  <2>1. BeginCycleReturns
    BY <1>1
    DEF Next, ClockStep, LoopStep, InLockstep, Create, Tick, Destroy, TickEnded, TickReturns,
        Reset, ResetCancelled, ResetReset, ResetReturns, Prepared, BeginCycle,
        FinishCycle, CycleFails, FinishCycleReturns, Shutdown, ShutdownReturns, RequestShutdown,
        Restart, Stopped, vars, Clock, Loop, clockVars, loopVars
  <2>2. cycle_start_' = cycle_start_nanoseconds /\ Ok("loop")
    BY <2>1 DEF BeginCycleReturns, Returned, Ok
  <2>3. cycle_start_ < cycle_start_nanoseconds
    BY <1>1, <2>2, GoodTypes DEF IInv, Good, Stamped, Clean
  <2>4. cycle_start_ \in Nat /\ cycle_start_nanoseconds \in Nat BY <1>1, GoodTypes DEF IInv
  <2>. QED BY <2>2, <2>3, <2>4
<1>. QED BY <1>1, InvariantHolds, PTL DEF Spec, OneCyclePerTick
=============================================================================
