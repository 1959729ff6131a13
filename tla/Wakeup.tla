------------------------------- MODULE Wakeup -------------------------------
(***************************************************************************)
(* The wake-up scheduler of the trading agent (scheduler/wakeup.py): an    *)
(* asyncio loop that runs one decision round per wake-up, a timer that is  *)
(* re-armed at the end of every round, and wake_now for price triggers and *)
(* for the operator's start button.                                        *)
(*                                                                         *)
(* asyncio runs a coroutine without interruption from one suspension to    *)
(* the next, so each action below is one such stretch of code.  A loop     *)
(* task is an element of LoopIds, a timer task one of TimerIds; both pools *)
(* only bound how many tasks can be alive at once.  Wake reasons are       *)
(* members of Sources, and a wake-up interval is "llm" (set by the model   *)
(* in the round) or "default".                                             *)
(***************************************************************************)
EXTENDS Naturals, FiniteSets

CONSTANTS
  LoopIds,          \* pool of _run tasks
  TimerIds,         \* pool of _timer_loop tasks
  Stoppers,         \* concurrent calls of stop() (HTTP requests, shutdown)
  Sources,          \* reasons given to wake_now
  OverlappingStart, \* may start() be called while a stop() has not returned?
  None              \* Python's None, and the empty reason ""

ASSUME WakeupAssumption ==
  None \notin LoopIds \cup TimerIds \cup Sources \cup {"llm", "default", "timer"}

VARIABLES
  running,        \* _running
  inRound,        \* _in_round
  wakeEvent,      \* _wake_event.is_set()
  wakeReason,     \* _wake_reason
  pendingWake,    \* _pending_wake
  pendingMinutes, \* _pending_minutes
  loop,           \* where each _run task is suspended
  loopTask,       \* _loop_task
  source,         \* the reason with which the loop's current round was begun
  timer,          \* the interval each live _timer_loop task sleeps, or None
  timerTask,      \* _timer_task
  stop,           \* where each stop() call is suspended
  stopTarget,     \* the loop task that a stop() call awaits
  owed            \* history: a wake-up was accepted and no round has begun since

vars == <<running, inRound, wakeEvent, wakeReason, pendingWake, pendingMinutes,
          loop, loopTask, source, timer, timerTask, stop, stopTarget, owed>>

roundVars == <<inRound, wakeEvent, wakeReason, source>>
stopVars  == <<stop, stopTarget>>
timerVars == <<timer, timerTask>>

Reasons  == Sources \cup {"timer", None}
Minutes  == {"llm", "default"}
LoopPCs  == {"dead", "ready", "wait", "woken", "round"}
StopPCs  == {"idle", "awaitTimer", "awaitLoop"}

TypeOK ==
  /\ running \in BOOLEAN /\ inRound \in BOOLEAN /\ wakeEvent \in BOOLEAN
  /\ owed \in BOOLEAN
  /\ wakeReason \in Reasons /\ pendingWake \in Reasons
  /\ pendingMinutes \in Minutes \cup {None}
  /\ loop \in [LoopIds -> LoopPCs]
  /\ loopTask \in LoopIds \cup {None}
  /\ source \in [LoopIds -> Reasons]
  /\ timer \in [TimerIds -> Minutes \cup {None}]
  /\ timerTask \in TimerIds \cup {None}
  /\ stop \in [Stoppers -> StopPCs]
  /\ stopTarget \in [Stoppers -> LoopIds \cup {None}]

Init ==
  /\ running = FALSE /\ inRound = FALSE /\ wakeEvent = FALSE /\ owed = FALSE
  /\ wakeReason = None /\ pendingWake = None /\ pendingMinutes = None
  /\ loop = [l \in LoopIds |-> "dead"] /\ loopTask = None
  /\ source = [l \in LoopIds |-> None]
  /\ timer = [t \in TimerIds |-> None] /\ timerTask = None
  /\ stop = [s \in Stoppers |-> "idle"]
  /\ stopTarget = [s \in Stoppers |-> None]

-----------------------------------------------------------------------------
(* asyncio.Event.set: every task suspended in wait() becomes runnable, and *)
(* stays runnable when the flag is cleared before its turn comes.          *)
SetEventUnheard(lp) == lp \* mutant: nobody is woken
SetEvent(lp) == [k \in LoopIds |-> IF lp[k] = "wait" THEN "woken" ELSE lp[k]]

(* The timers left after the one _timer_task refers to is cancelled.       *)
CancelTimer == [t \in TimerIds |-> IF t = timerTask THEN None ELSE timer[t]]

ArmTimer(run, minutes) ==
  \/ /\ ~run
     /\ timer' = CancelTimer /\ timerTask' = None
  \/ /\ run
     /\ \E t \in TimerIds :
          /\ CancelTimer[t] = None
          /\ timer' = [CancelTimer EXCEPT ![t] = minutes]
          /\ timerTask' = t

(* The loop task l from the test of its while loop to its next await, with *)
(* the values the code before it has left: it exits, begins a round, or    *)
(* waits for the event.                                                    *)
Resume(l, lp, ev, reason, inr) ==
  \/ /\ ~running
     /\ loop' = [lp EXCEPT ![l] = "dead"]
     /\ wakeEvent' = ev /\ wakeReason' = reason /\ inRound' = inr
     /\ UNCHANGED <<source, owed>>
  \/ /\ running /\ ev
     /\ loop' = [lp EXCEPT ![l] = "round"]
     /\ source' = [source EXCEPT ![l] = reason]
     /\ wakeEvent' = FALSE /\ wakeReason' = None /\ inRound' = TRUE
     /\ owed' = FALSE
  \/ /\ running /\ ~ev
     /\ loop' = [lp EXCEPT ![l] = "wait"]
     /\ wakeEvent' = FALSE /\ wakeReason' = reason /\ inRound' = inr
     /\ UNCHANGED <<source, owed>>

-----------------------------------------------------------------------------
MayStartAgain == TRUE \* mutant: start() does not look at _running
MayStart == ~running

(* The task that start() creates: any name that is free will do.            *)
NewTask == CHOOSE l \in LoopIds : loop[l] = "dead"

(* start() returns at once when running, and otherwise clears the event.    *)
(* The start button then always calls wake_now (Button), autostart does    *)
(* not.                                                                    *)
Start(button) ==
  /\ OverlappingStart \/ \A s \in Stoppers : stop[s] = "idle"
  /\ MayStart
  /\ running' = TRUE
  /\ \E l \in LoopIds : loop[l] = "dead"
  /\ loopTask' = NewTask
  /\ loop' = [loop EXCEPT ![NewTask] = "ready"]
  /\ ArmTimer(TRUE, "default")
  /\ \/ /\ button = None
        /\ wakeEvent' = FALSE /\ pendingWake' = None /\ owed' = FALSE
        /\ UNCHANGED wakeReason
     \/ /\ button # None /\ ~inRound
        /\ wakeEvent' = TRUE /\ wakeReason' = button
        /\ pendingWake' = None /\ owed' = TRUE
     \/ /\ button # None /\ inRound
        /\ pendingWake' = button /\ wakeEvent' = FALSE /\ owed' = TRUE
        /\ UNCHANGED wakeReason
  /\ UNCHANGED <<inRound, pendingMinutes, source, stopVars>>

(* wake_now: at once when no round is running, else noted for its end.     *)
WakeNow(reason) ==
  /\ running
  /\ owed' = TRUE
  /\ \/ /\ ~inRound
        /\ wakeReason' = reason /\ wakeEvent' = TRUE
        /\ loop' = SetEvent(loop)
        /\ UNCHANGED pendingWake
     \/ /\ inRound
        /\ pendingWake' = reason
        /\ UNCHANGED <<wakeReason, wakeEvent, loop>>
  /\ UNCHANGED <<running, inRound, pendingMinutes, loopTask, source, timerVars,
                 stopVars>>

(* The model's set_next_wake tool; it is called from within a round, and   *)
(* clamps what the model asks for.                                         *)
SetNextWake ==
  /\ \E l \in LoopIds : loop[l] = "round"
  /\ pendingMinutes' = "llm"
  /\ UNCHANGED <<running, roundVars, pendingWake, loop, loopTask, timerVars,
                 stopVars, owed>>

(* A timer's sleep ends: it fires unless a round is running, or the        *)
(* scheduler has been stopped.                                             *)
TimerExpires(t) ==
  /\ timer[t] # None
  /\ timer' = [timer EXCEPT ![t] = None]
  /\ \/ /\ running /\ ~inRound
        /\ wakeReason' = "timer" /\ wakeEvent' = TRUE
        /\ loop' = SetEvent(loop)
     \/ /\ ~running \/ inRound
        /\ UNCHANGED <<wakeReason, wakeEvent, loop>>
  /\ UNCHANGED <<running, inRound, pendingWake, pendingMinutes, loopTask, source,
                 timerTask, stopVars, owed>>

-----------------------------------------------------------------------------
(* The loop task's first step.                                             *)
LoopStarts(l) ==
  /\ loop[l] = "ready"
  /\ Resume(l, loop, wakeEvent, wakeReason, inRound)
  /\ UNCHANGED <<running, pendingWake, pendingMinutes, loopTask, timerVars, stopVars>>

(* wait() returns: the event is cleared, and the loop leaves if stopped.   *)
LoopWoken(l) ==
  /\ loop[l] = "woken"
  /\ \/ /\ ~running
        /\ wakeEvent' = FALSE
        /\ loop' = [loop EXCEPT ![l] = "dead"]
        /\ UNCHANGED <<wakeReason, inRound, source, owed>>
     \/ /\ running
        /\ Resume(l, loop, TRUE, wakeReason, inRound)
  /\ UNCHANGED <<running, pendingWake, pendingMinutes, loopTask, timerVars, stopVars>>

RoundInterval == IF pendingMinutes = None THEN "default" ELSE pendingMinutes

EndRound ==
  /\ inRound
  /\ pendingWake' = None /\ pendingMinutes' = None
  /\ ArmTimer(running, RoundInterval)

FirePendingNever == FALSE \* mutant: tested after it has been reset
FirePending == pendingWake # None /\ running

(* The callback returns or raises: end_round re-arms the timer, fires the  *)
(* pending wake-up if the scheduler still runs, and the loop goes on.      *)
RoundEnds(l) ==
  /\ loop[l] = "round"
  /\ \/ /\ ~inRound
        /\ Resume(l, loop, wakeEvent, wakeReason, FALSE)
        /\ UNCHANGED <<pendingWake, pendingMinutes, timerVars>>
     \/ /\ EndRound
        /\ \/ /\ FirePending
              /\ Resume(l, SetEvent(loop), TRUE, pendingWake, FALSE)
           \/ /\ ~FirePending
              /\ Resume(l, loop, wakeEvent, wakeReason, FALSE)
  /\ UNCHANGED <<running, loopTask, stopVars>>

-----------------------------------------------------------------------------
(* stop() from its current loop task on: wake the loop and await it.       *)
AwaitLoop(s) ==
  \/ /\ loopTask # None
     /\ wakeEvent' = TRUE /\ loop' = SetEvent(loop)
     /\ stop' = [stop EXCEPT ![s] = "awaitLoop"]
     /\ stopTarget' = [stopTarget EXCEPT ![s] = loopTask]
  \/ /\ loopTask = None
     /\ stop' = [stop EXCEPT ![s] = "idle"]
     /\ UNCHANGED <<wakeEvent, loop, stopTarget>>

RunningKept == running \* mutant: stop() does not clear _running
RunningAfterStop == FALSE

StopBegins(s) ==
  /\ stop[s] = "idle"
  /\ running' = RunningAfterStop
  /\ \/ /\ timerTask # None
        /\ timer' = CancelTimer
        /\ stop' = [stop EXCEPT ![s] = "awaitTimer"]
        /\ UNCHANGED <<wakeEvent, loop, stopTarget>>
     \/ /\ timerTask = None
        /\ AwaitLoop(s)
        /\ UNCHANGED timer
  /\ UNCHANGED <<inRound, wakeReason, pendingWake, pendingMinutes, loopTask, source,
                 timerTask, owed>>

StopTimerGone(s) ==
  /\ stop[s] = "awaitTimer"
  /\ timerTask' = None
  /\ AwaitLoop(s)
  /\ UNCHANGED <<running, inRound, wakeReason, pendingWake, pendingMinutes, loopTask,
                 source, timer, owed>>

StopReturns(s) ==
  /\ stop[s] = "awaitLoop"
  /\ loop[stopTarget[s]] = "dead"
  /\ loopTask' = None
  /\ stop' = [stop EXCEPT ![s] = "idle"]
  /\ stopTarget' = [stopTarget EXCEPT ![s] = None]
  /\ UNCHANGED <<running, roundVars, pendingWake, pendingMinutes, loop, timerVars, owed>>

-----------------------------------------------------------------------------
LoopStep(l) == LoopStarts(l) \/ LoopWoken(l) \/ RoundEnds(l)
StopStep(s) == StopTimerGone(s) \/ StopReturns(s)

Next ==
  \/ \E b \in Sources \cup {None} : Start(b)
  \/ \E r \in Sources : WakeNow(r)
  \/ SetNextWake
  \/ \E t \in TimerIds : TimerExpires(t)
  \/ \E l \in LoopIds : LoopStarts(l)
  \/ \E l \in LoopIds : LoopWoken(l)
  \/ \E l \in LoopIds : RoundEnds(l)
  \/ \E s \in Stoppers : StopBegins(s)
  \/ \E s \in Stoppers : StopTimerGone(s)
  \/ \E s \in Stoppers : StopReturns(s)

Spec == Init /\ [][Next]_vars

-----------------------------------------------------------------------------
(* Properties.                                                             *)

(* Decision rounds never overlap: the promise of the module's docstring.   *)
AtMostOneRound ==
  \A k, l \in LoopIds : loop[k] = "round" /\ loop[l] = "round" => k = l

(* A wake-up that wake_now accepted is never lost while the scheduler      *)
(* runs: it is in the event, in a woken loop, or pending for the round's   *)
(* end (a price trigger is deleted when it fires and cannot fire again).   *)
WakeNotLost ==
  running /\ owed =>
    \/ inRound /\ pendingWake # None
    \/ ~inRound /\ wakeEvent /\ \E l \in LoopIds : loop[l] \in {"ready", "woken"}

(* The running agent never sleeps forever: outside a round a timer or a    *)
(* wake-up is outstanding.                                                 *)
NeverStranded ==
  running /\ ~inRound => wakeEvent \/ \E t \in TimerIds : timer[t] # None

(* The agent wakes up for everything it should: no accepted wake-up is     *)
(* dropped, and between rounds there always is a next one.                 *)
WakeUpsKept == WakeNotLost /\ NeverStranded

(* stop() always returns, after the round in progress has ended.           *)
StopCompletes == \A s \in Stoppers : stop[s] # "idle" ~> stop[s] = "idle"

(* An accepted wake-up is followed by a round, unless the operator stops   *)
(* the scheduler first.                                                    *)
WakeServed == running /\ owed ~> ~owed \/ ~running
=============================================================================
