----------------------------- MODULE Agent_proofs -----------------------------
(***************************************************************************)
(* The running agent, with start() and stop() serialized, for any number   *)
(* of tasks, stops, turns, tries and alerts: rounds do not overlap, no     *)
(* wake-up is lost, the trail of a round is whole and repeated failure     *)
(* engages the lock.                                                       *)
(*                                                                         *)
(* The two halves need each other: what a round leaves behind is said of   *)
(* rounds that do not overlap, and that there is one loop task at most is  *)
(* due to who may call start() when.  The invariant is that of each half,  *)
(* and that run_once is only ever suspended within a round (Coupled).      *)
(***************************************************************************)
EXTENDS Agent, TLAPS

(* The scheduler.                                                          *)
Typed ==
  /\ running \in BOOLEAN /\ inRound \in BOOLEAN /\ wakeEvent \in BOOLEAN /\ owed \in BOOLEAN
  /\ loop \in [LoopIds -> LoopPCs] /\ loopTask \in LoopIds \cup {None}
  /\ timer \in [TimerIds -> Minutes \cup {None}]
  /\ stop \in [Stoppers -> StopPCs] /\ stopTarget \in [Stoppers -> LoopIds \cup {None}]
  /\ pendingMinutes \in Minutes \cup {None}

(* No loop task but the one _loop_task refers to is alive, and it is while *)
(* the scheduler runs.                                                     *)
OneLoop ==
  /\ \A l \in LoopIds : loop[l] # "dead" => l = loopTask
  /\ running => loopTask \in LoopIds /\ loop[loopTask] # "dead"
  /\ inRound <=> \E l \in LoopIds : loop[l] = "round"

(* A stop that has not returned keeps start() away, and when all have      *)
(* returned no loop task is left.                                          *)
Stopping ==
  /\ \A s \in Stoppers : stop[s] # "idle" => ~running
  /\ \A s \in Stoppers : stop[s] = "awaitLoop" =>
       stopTarget[s] \in LoopIds /\ loopTask \in {stopTarget[s], None}
  /\ ~running => (\A l \in LoopIds : loop[l] = "dead") \/ \E s \in Stoppers : stop[s] # "idle"

SchedulerInv == Typed /\ OneLoop /\ Stopping /\ WakeUpsKept

-----------------------------------------------------------------------------
(* The round.                                                              *)
Working == {"context", "ask", "asked", "tools", "ran", "good", "goodEnd"}
Failing == {"failed", "failEnd", "failLock"}

Flags ==
  /\ broken \in BOOLEAN /\ latched \in BOOLEAN
  /\ kill \in BOOLEAN /\ reopened \in BOOLEAN

Numbers ==
  /\ answers \in Nat /\ heard \in Nat /\ kept \in Nat /\ ran \in Nat /\ recorded \in Nat
  /\ failures \in 0..MaxFailures

LoopTyped == Flags /\ Numbers

(* The rows of a round, by where it is.                                    *)
Rows ==
  /\ broken => pc \in Failing \cup Over
  /\ pc \in {"idle", "called"} =>
       /\ status = "none" /\ ~broken /\ model = NoProvider
       /\ answers = 0 /\ heard = 0 /\ kept = 0 /\ ran = 0 /\ recorded = 0
  /\ pc \in Working \cup {"failed", "failEnd"} => status = "open" /\ model # NoProvider
  /\ pc \in {"goodEnd", "failEnd", "failLock"} => decided
  /\ pc = "failLock" => status = "error"
  /\ status \in {"ok", "error"} => decided
  /\ pc = "drain" => IF status = "none" THEN model = NoProvider /\ ~broken
                     ELSE status \in {"ok", "error"}
  /\ pc = "raised" => status # "ok" /\ (~broken => status = "error")

(* What is on record is what was received and done, but for what the step  *)
(* under way is about to record.                                           *)
Counts ==
  /\ pc \in Working => kept + heard = answers
  /\ pc \in Working \ {"asked"} => heard = 0
  /\ pc \in Working => IF pc = "ran" THEN ran = recorded + 1 ELSE ran = recorded
  /\ pc \in Failing \cup Over /\ ~broken => kept = answers /\ ran = recorded
  /\ status = "ok" => kept = answers /\ ran = recorded

(* Without a provider no round has failed yet; after too many failures the *)
(* agent has engaged the lock, and then only the operator opens it.        *)
Locks ==
  /\ latched => kill \/ reopened
  /\ pc \in Over /\ failures >= MaxFailures /\ ~broken => latched
  /\ provider = NoProvider => failures = 0 /\ pc \in {"idle", "called", "drain"}
  /\ pc = "goodEnd" => failures = 0

LoopInv == LoopTyped /\ Rows /\ Counts /\ Locks

Coupled == pc # "idle" => inRound

AInv == SchedulerInv /\ LoopInv /\ Coupled

-----------------------------------------------------------------------------
(* The steps of the round.                                                 *)
RunsTool == RunTool(SetPriceAlert) \/ RunTool(CancelPriceAlert) \/ RunTool(OtherTool)

(* What is counted stays a number.                                          *)
LEMMA RoundKeepsTypes ==
  ASSUME LoopInv, RoundStep
  PROVE  LoopTyped'
  <1> USE DEF LoopInv, LoopTyped, turnVars, lockVars
  <1>1. CASE SkipRound
    BY <1>1, DecisionLoopAssumption DEF SkipRound, Flags, Numbers
  <1>2. CASE BeginRound
    BY <1>2, DecisionLoopAssumption DEF BeginRound, Escapes, Flags, Numbers
  <1>3. CASE BuildContext
    BY <1>3, DecisionLoopAssumption DEF BuildContext, Flags, Numbers
  <1>4. CASE AskModel
    BY <1>4, DecisionLoopAssumption DEF AskModel, Flags, Numbers
  <1>5. CASE AttemptFails
    BY <1>5, DecisionLoopAssumption DEF AttemptFails, Flags, Numbers
  <1>6. CASE ChatFails
    <2>1. Flags'
      BY <1>6, Zenon DEF ChatFails, RecordRaw, Flags
    <2>2. Numbers'
      BY <1>6, DecisionLoopAssumption DEF ChatFails, RecordRaw, Numbers
    <2> QED
      BY <2>1, <2>2
  <1>7. CASE ModelAnswers
    <2>1. Flags'
      BY <1>7, Zenon DEF ModelAnswers, Accept, RecordRaw, Flags
    <2>2. Numbers'
      BY <1>7, DecisionLoopAssumption DEF ModelAnswers, Accept, RecordRaw, Numbers
    <2> QED
      BY <2>1, <2>2
  <1>8. CASE RunsTool
    BY <1>8, DecisionLoopAssumption DEF RunsTool, RunTool, Flags, Numbers
  <1>9. CASE RecordTool
    <2>1. Flags'
      BY <1>9, Zenon DEF RecordTool, Flags
    <2>2. Numbers'
      BY <1>9, DecisionLoopAssumption DEF RecordTool, Numbers
    <2> QED
      BY <2>1, <2>2
  <1>10. CASE Decide
    <2>1. Flags'
      BY <1>10, Zenon DEF Decide, Escapes, Flags
    <2>2. Numbers'
      BY <1>10, DecisionLoopAssumption DEF Decide, Escapes, Numbers
    <2> QED
      BY <2>1, <2>2
  <1>11. CASE EndGood
    BY <1>11, DecisionLoopAssumption DEF EndGood, Escapes, Flags, Numbers
  <1>12. CASE FailRound
    <2>1. Flags'
      BY <1>12, Zenon DEF FailRound, Counted, Escapes, Flags
    <2>2. Numbers'
      BY <1>12, DecisionLoopAssumption DEF FailRound, Counted, Escapes, Numbers
    <2> QED
      BY <2>1, <2>2
  <1>13. CASE EndFailed
    BY <1>13, DecisionLoopAssumption DEF EndFailed, Escapes, Flags, Numbers
  <1>14. CASE LockIfFailing
    BY <1>14, DecisionLoopAssumption DEF LockIfFailing, EngageLock, TooManyFailures, Flags, Numbers
  <1>15. CASE ReturnFromRound
    BY <1>15, DecisionLoopAssumption DEF ReturnFromRound, Forgotten, Flags, Numbers
  <1> QED
    BY <1>1, <1>2, <1>3, <1>4, <1>5, <1>6, <1>7, <1>8, <1>9, <1>10, <1>11, <1>12, <1>13,
       <1>14, <1>15
    DEF RoundStep, RunsTool

(* The rows are written in the order of the steps.                          *)
LEMMA RoundKeepsRows ==
  ASSUME LoopInv, RoundStep
  PROVE  Rows'
  <1> USE DEF LoopInv, LoopTyped, Flags, Numbers, Rows, Locks,
             turnVars, lockVars, Working, Failing, Over
  <1>1. CASE SkipRound
    BY <1>1, DecisionLoopAssumption DEF SkipRound
  <1>2. CASE BeginRound
    BY <1>2, DecisionLoopAssumption DEF BeginRound, Escapes
  <1>3. CASE BuildContext
    BY <1>3, DecisionLoopAssumption DEF BuildContext
  <1>4. CASE AskModel
    BY <1>4, DecisionLoopAssumption DEF AskModel
  <1>5. CASE AttemptFails
    BY <1>5, DecisionLoopAssumption DEF AttemptFails
  <1>6. CASE ChatFails
    BY <1>6, DecisionLoopAssumption DEF ChatFails, RecordRaw
  <1>7. CASE ModelAnswers
    BY <1>7, DecisionLoopAssumption DEF ModelAnswers, Accept, RecordRaw
  <1>8. CASE RunsTool
    BY <1>8, DecisionLoopAssumption DEF RunsTool, RunTool
  <1>9. CASE RecordTool
    BY <1>9, DecisionLoopAssumption DEF RecordTool
  <1>10. CASE Decide
    BY <1>10, DecisionLoopAssumption DEF Decide, Escapes
  <1>11. CASE EndGood
    BY <1>11, DecisionLoopAssumption DEF EndGood, Escapes
  <1>12. CASE FailRound
    BY <1>12, DecisionLoopAssumption DEF FailRound, Counted, Escapes
  <1>13. CASE EndFailed
    BY <1>13, DecisionLoopAssumption DEF EndFailed, Escapes
  <1>14. CASE LockIfFailing
    BY <1>14, DecisionLoopAssumption DEF LockIfFailing, EngageLock, TooManyFailures
  <1>15. CASE ReturnFromRound
    BY <1>15, DecisionLoopAssumption DEF ReturnFromRound, Forgotten
  <1> QED
    BY <1>1, <1>2, <1>3, <1>4, <1>5, <1>6, <1>7, <1>8, <1>9, <1>10, <1>11, <1>12, <1>13,
       <1>14, <1>15
    DEF RoundStep, RunsTool

(* Each step records what the step before it has received or done.          *)
LEMMA RoundKeepsCounts ==
  ASSUME LoopInv, RoundStep
  PROVE  Counts'
  <1> USE DEF LoopInv, LoopTyped, Flags, Numbers, Rows, Counts,
             turnVars, lockVars, Working, Failing, Over
  <1>1. CASE SkipRound
    BY <1>1, DecisionLoopAssumption DEF SkipRound
  <1>2. CASE BeginRound
    BY <1>2, DecisionLoopAssumption DEF BeginRound, Escapes
  <1>3. CASE BuildContext
    BY <1>3, DecisionLoopAssumption DEF BuildContext
  <1>4. CASE AskModel
    BY <1>4, DecisionLoopAssumption DEF AskModel
  <1>5. CASE AttemptFails
    BY <1>5, DecisionLoopAssumption DEF AttemptFails
  <1>6. CASE ChatFails
    BY <1>6, DecisionLoopAssumption DEF ChatFails, RecordRaw
  <1>7. CASE ModelAnswers
    BY <1>7, DecisionLoopAssumption DEF ModelAnswers, Accept, RecordRaw
  <1>8. CASE RunsTool
    BY <1>8, DecisionLoopAssumption DEF RunsTool, RunTool
  <1>9. CASE RecordTool
    BY <1>9, DecisionLoopAssumption DEF RecordTool
  <1>10. CASE Decide
    BY <1>10, DecisionLoopAssumption DEF Decide, Escapes
  <1>11. CASE EndGood
    BY <1>11, DecisionLoopAssumption DEF EndGood, Escapes
  <1>12. CASE FailRound
    BY <1>12, DecisionLoopAssumption DEF FailRound, Counted, Escapes
  <1>13. CASE EndFailed
    BY <1>13, DecisionLoopAssumption DEF EndFailed, Escapes
  <1>14. CASE LockIfFailing
    BY <1>14, DecisionLoopAssumption DEF LockIfFailing, EngageLock, TooManyFailures
  <1>15. CASE ReturnFromRound
    BY <1>15, DecisionLoopAssumption DEF ReturnFromRound, Forgotten
  <1> QED
    BY <1>1, <1>2, <1>3, <1>4, <1>5, <1>6, <1>7, <1>8, <1>9, <1>10, <1>11, <1>12, <1>13,
       <1>14, <1>15
    DEF RoundStep, RunsTool

(* The lock is engaged on the way out of a failed round.                    *)
LEMMA RoundKeepsLocks ==
  ASSUME LoopInv, RoundStep
  PROVE  Locks'
  <1> USE DEF LoopInv, LoopTyped, Flags, Numbers, Rows, Locks,
             turnVars, lockVars, Working, Failing, Over
  <1>1. CASE SkipRound
    BY <1>1, DecisionLoopAssumption DEF SkipRound
  <1>2. CASE BeginRound
    BY <1>2, DecisionLoopAssumption DEF BeginRound, Escapes
  <1>3. CASE BuildContext
    BY <1>3, DecisionLoopAssumption DEF BuildContext
  <1>4. CASE AskModel
    BY <1>4, DecisionLoopAssumption DEF AskModel
  <1>5. CASE AttemptFails
    BY <1>5, DecisionLoopAssumption DEF AttemptFails
  <1>6. CASE ChatFails
    BY <1>6, DecisionLoopAssumption DEF ChatFails, RecordRaw
  <1>7. CASE ModelAnswers
    BY <1>7, DecisionLoopAssumption DEF ModelAnswers, Accept, RecordRaw
  <1>8. CASE RunsTool
    BY <1>8, DecisionLoopAssumption DEF RunsTool, RunTool
  <1>9. CASE RecordTool
    BY <1>9, DecisionLoopAssumption DEF RecordTool
  <1>10. CASE Decide
    BY <1>10, DecisionLoopAssumption DEF Decide, Escapes
  <1>11. CASE EndGood
    BY <1>11, DecisionLoopAssumption DEF EndGood, Escapes
  <1>12. CASE FailRound
    BY <1>12, DecisionLoopAssumption DEF FailRound, Counted, Escapes
  <1>13. CASE EndFailed
    BY <1>13, DecisionLoopAssumption DEF EndFailed, Escapes
  <1>14. CASE LockIfFailing
    BY <1>14, DecisionLoopAssumption DEF LockIfFailing, EngageLock, TooManyFailures
  <1>15. CASE ReturnFromRound
    BY <1>15, DecisionLoopAssumption DEF ReturnFromRound, Forgotten
  <1> QED
    BY <1>1, <1>2, <1>3, <1>4, <1>5, <1>6, <1>7, <1>8, <1>9, <1>10, <1>11, <1>12, <1>13,
       <1>14, <1>15
    DEF RoundStep, RunsTool

(* A step of the round keeps its invariant.                                *)
LEMMA RoundKeepsInv ==
  ASSUME LoopInv, RoundStep
  PROVE  LoopInv'
  BY RoundKeepsTypes, RoundKeepsRows, RoundKeepsCounts, RoundKeepsLocks DEF LoopInv

(* A round only goes on once it has been called.                           *)
LEMMA RoundStepsInside ==
  ASSUME RoundStep
  PROVE  pc # "idle"
  BY DEF RoundStep, SkipRound, BeginRound, BuildContext, AskModel, AttemptFails, ChatFails,
         ModelAnswers, RunTool, RecordTool, Decide, EndGood, FailRound, EndFailed,
         LockIfFailing, ReturnFromRound

(* What other tasks do to the round, and the call of the next one.         *)
LEMMA OthersKeepRound ==
  ASSUME LoopInv,
         \/ pc = "idle" /\ Call
         \/ \E p \in Providers : SetProvider(p)
         \/ \E a \in Lines : AlertFires(a)
         \/ OrphanWrite
         \/ \E on \in BOOLEAN : OperatorMoves(on)
         \/ UNCHANGED loopVars
  PROVE  LoopInv'
  <1> USE DEF LoopInv, LoopTyped, Flags, Numbers, Rows, Counts, Locks, turnVars,
              lockVars, Working, Failing, Over
  <1>1. CASE pc = "idle" /\ Call
    BY <1>1 DEF Call
  <1>2. CASE \E p \in Providers : SetProvider(p)
    BY <1>2, DecisionLoopAssumption DEF SetProvider
  <1>3. CASE \E a \in Lines : AlertFires(a)
    BY <1>3 DEF AlertFires
  <1>4. CASE OrphanWrite
    BY <1>4 DEF OrphanWrite, EngageLock
  <1>5. CASE \E on \in BOOLEAN : OperatorMoves(on)
    <2>1. PICK on \in BOOLEAN : OperatorMoves(on)
      BY <1>5
    <2>2. /\ kill' = on /\ reopened' = (reopened \/ (latched /\ ~on))
          /\ UNCHANGED <<pc, provider, turnVars, failures, latched>>
      BY <2>1 DEF OperatorMoves
    <2>3. Flags' /\ (latched => kill \/ reopened)'
      BY <2>2, Zenon
    <2>4. Rows' /\ Counts' /\ Numbers'
      BY <2>2
    <2> QED
      BY <2>2, <2>3, <2>4
  <1>6. CASE UNCHANGED loopVars
    BY <1>6 DEF loopVars
  <1> QED
    BY <1>1, <1>2, <1>3, <1>4, <1>5, <1>6

-----------------------------------------------------------------------------
(* The steps of the scheduler.                                             *)

(* What the scheduler's helpers return.                                    *)
LEMMA Helpers ==
  ASSUME Typed
  PROVE  /\ \A lp \in [LoopIds -> LoopPCs] :
              /\ SetEvent(lp) \in [LoopIds -> LoopPCs]
              /\ \A l \in LoopIds : SetEvent(lp)[l] = IF lp[l] = "wait" THEN "woken" ELSE lp[l]
         /\ CancelTimer \in [TimerIds -> Minutes \cup {None}]
         /\ RoundInterval \in Minutes
  BY DEF Typed, SetEvent, LoopPCs, CancelTimer, RoundInterval, Minutes

(* An event that is set only wakes loops that wait for it.                 *)
LEMMA Heard ==
  ASSUME Typed, loop' = loop \/ loop' = SetEvent(loop)
  PROVE  /\ loop' \in [LoopIds -> LoopPCs]
         /\ \A l \in LoopIds : loop'[l] = loop[l] \/ (loop[l] = "wait" /\ loop'[l] = "woken")
  <1>1. loop \in [LoopIds -> LoopPCs]
    BY DEF Typed
  <1>2. CASE loop' = loop
    BY <1>1, <1>2
  <1>3. CASE loop' = SetEvent(loop)
    BY <1>1, <1>3 DEF SetEvent, LoopPCs
  <1> QED
    BY <1>2, <1>3

(* A timer that is armed is one that sleeps.                               *)
LEMMA Armed ==
  ASSUME Typed, NEW run \in BOOLEAN, NEW m \in Minutes, ArmTimer(run, m)
  PROVE  /\ timer' \in [TimerIds -> Minutes \cup {None}]
         /\ run => \E t \in TimerIds : timer'[t] # None
  BY Helpers, WakeupAssumption DEF ArmTimer, Minutes

(* start(): no stop() is under way, so no loop task is left.               *)
LEMMA StartKeeps ==
  ASSUME SchedulerInv, OverlappingStart = FALSE, NEW b \in Sources \cup {None}, Start(b)
  PROVE  SchedulerInv'
  <1> USE DEF SchedulerInv, Start, MayStart, stopVars
  <1>1. PICK l \in LoopIds : loop' = [loop EXCEPT ![l] = "ready"] /\ loopTask' = l
    <2>1. NewTask \in LoopIds
      BY DEF NewTask
    <2> QED
      BY <2>1
  <1>2. /\ \A k \in LoopIds : loop[k] = "dead"
        /\ ~inRound /\ \A s \in Stoppers : stop[s] = "idle"
    BY DEF Stopping, OneLoop
  <1>3. /\ timer' \in [TimerIds -> Minutes \cup {None}]
        /\ \E t \in TimerIds : timer'[t] # None
    BY Armed DEF Minutes
  <1>4. Typed'
    BY <1>1, <1>3 DEF Typed, LoopPCs
  <1>5. OneLoop'
    BY <1>1, <1>2 DEF OneLoop, Typed
  <1>6. Stopping'
    BY <1>1, <1>2 DEF Stopping
  <1>7. WakeUpsKept'
    BY <1>1, <1>2, <1>3 DEF WakeUpsKept, WakeNotLost, NeverStranded, Typed
  <1> QED
    BY <1>4, <1>5, <1>6, <1>7

(* wake_now(): a running loop is waiting, or about to look.                *)
LEMMA WakeNowKeeps ==
  ASSUME SchedulerInv, NEW r \in Sources, WakeNow(r)
  PROVE  SchedulerInv'
  <1> USE DEF SchedulerInv, WakeNow, timerVars, stopVars
  <1>1. \/ loop' = loop
        \/ ~inRound /\ wakeEvent' /\ loop' = SetEvent(loop)
    OBVIOUS
  <1>2. /\ loop' \in [LoopIds -> LoopPCs]
        /\ \A l \in LoopIds : loop'[l] = loop[l] \/ (loop[l] = "wait" /\ loop'[l] = "woken")
    BY <1>1, Heard DEF Typed
  <1>3. Typed'
    BY <1>2 DEF Typed
  <1>4. OneLoop'
    BY <1>2 DEF OneLoop
  <1>5. Stopping'
    BY <1>2 DEF Stopping
  <1>6. WakeUpsKept'
    <2>1. CASE inRound
      BY <2>1, WakeupAssumption DEF WakeUpsKept, WakeNotLost, NeverStranded
    <2>2. CASE ~inRound
      <3>1. /\ loopTask \in LoopIds /\ loop[loopTask] \in {"ready", "wait", "woken"}
            /\ loop'[loopTask] = IF loop[loopTask] = "wait" THEN "woken" ELSE loop[loopTask]
        BY <2>2, Helpers DEF OneLoop, Typed, LoopPCs
      <3> QED
        BY <2>2, <3>1 DEF WakeUpsKept, WakeNotLost, NeverStranded
    <2> QED
      BY <2>1, <2>2
  <1> QED
    BY <1>3, <1>4, <1>5, <1>6

(* The set_next_wakeup tool.                                               *)
LEMMA SetNextWakeKeeps ==
  ASSUME SchedulerInv, SetNextWake
  PROVE  SchedulerInv'
  BY DEF SchedulerInv, SetNextWake, roundVars, timerVars, stopVars, Typed, Minutes, OneLoop,
         Stopping, WakeUpsKept, WakeNotLost, NeverStranded

(* A sleep ends.                                                           *)
LEMMA TimerExpiresKeeps ==
  ASSUME SchedulerInv, NEW t \in TimerIds, TimerExpires(t)
  PROVE  SchedulerInv'
  <1> USE DEF SchedulerInv, TimerExpires, stopVars
  <1>1. \/ loop' = loop /\ wakeEvent' = wakeEvent /\ (~running \/ inRound)
        \/ ~inRound /\ wakeEvent' /\ loop' = SetEvent(loop)
    OBVIOUS
  <1>2. /\ loop' \in [LoopIds -> LoopPCs]
        /\ \A l \in LoopIds : loop'[l] = loop[l] \/ (loop[l] = "wait" /\ loop'[l] = "woken")
    BY <1>1, Heard DEF Typed
  <1>3. Typed'
    BY <1>2 DEF Typed
  <1>4. OneLoop'
    BY <1>2 DEF OneLoop
  <1>5. Stopping'
    BY <1>2 DEF Stopping
  <1>6. WakeUpsKept'
    BY <1>1, <1>2 DEF WakeUpsKept, WakeNotLost, NeverStranded
  <1> QED
    BY <1>3, <1>4, <1>5, <1>6

(* The loop task goes on to its next await, when it is the only one alive. *)
LEMMA Resumes ==
  ASSUME SchedulerInv, NEW l \in LoopIds, loop[l] # "dead",
         NEW lp, lp = loop \/ lp = SetEvent(loop), NEW ev \in BOOLEAN, NEW reason,
         Resume(l, lp, ev, reason, FALSE),
         UNCHANGED <<running, loopTask, stop, stopTarget>>,
         timer' \in [TimerIds -> Minutes \cup {None}], pendingMinutes' \in Minutes \cup {None},
         running /\ ~ev => ~owed /\ \E t \in TimerIds : timer'[t] # None
  PROVE  SchedulerInv'
  <1> USE DEF SchedulerInv
  <1>1. lp \in [LoopIds -> LoopPCs] /\ \A k \in LoopIds \ {l} : loop[k] = "dead" /\ lp[k] = "dead"
    BY Helpers DEF Typed, OneLoop, SetEvent
  <1>2. /\ loopTask = l
        /\ running => ~ \E s \in Stoppers : stop[s] # "idle"
    BY DEF OneLoop, Stopping
  <1>3. CASE ~running
    <2>1. loop' = [lp EXCEPT ![l] = "dead"] /\ inRound' = FALSE /\ wakeEvent' = ev /\ owed' = owed
      BY <1>3 DEF Resume
    <2>2. Typed'
      BY <1>1, <2>1 DEF Typed, LoopPCs
    <2> QED
      BY <1>1, <1>3, <2>1, <2>2
      DEF OneLoop, Stopping, WakeUpsKept, WakeNotLost, NeverStranded
  <1>4. CASE running /\ ev
    <2>1. /\ loop' = [lp EXCEPT ![l] = "round"] /\ inRound' = TRUE /\ wakeEvent' = FALSE
          /\ owed' = FALSE
      BY <1>4 DEF Resume
    <2>2. Typed'
      BY <1>1, <2>1 DEF Typed, LoopPCs
    <2> QED
      BY <1>1, <1>2, <1>4, <2>1, <2>2
      DEF OneLoop, Stopping, WakeUpsKept, WakeNotLost, NeverStranded
  <1>5. CASE running /\ ~ev
    <2>1. /\ loop' = [lp EXCEPT ![l] = "wait"] /\ inRound' = FALSE /\ wakeEvent' = FALSE
          /\ owed' = owed
      BY <1>5 DEF Resume
    <2>2. Typed'
      BY <1>1, <2>1 DEF Typed, LoopPCs
    <2> QED
      BY <1>1, <1>2, <1>5, <2>1, <2>2
      DEF OneLoop, Stopping, WakeUpsKept, WakeNotLost, NeverStranded
  <1> QED
    BY <1>3, <1>4, <1>5

(* The first step of the loop task.                                        *)
LEMMA LoopStartsKeeps ==
  ASSUME SchedulerInv, NEW l \in LoopIds, LoopStarts(l)
  PROVE  SchedulerInv'
  <1>1. inRound = FALSE
    BY DEF SchedulerInv, OneLoop, Typed, LoopStarts
  <1>2. running /\ ~wakeEvent => ~owed /\ \E t \in TimerIds : timer[t] # None
    BY <1>1 DEF SchedulerInv, WakeUpsKept, WakeNotLost, NeverStranded
  <1> QED
    BY <1>1, <1>2, Resumes DEF LoopStarts, timerVars, stopVars, SchedulerInv, Typed

(* The loop task after its wait().                                         *)
LEMMA LoopWokenKeeps ==
  ASSUME SchedulerInv, NEW l \in LoopIds, LoopWoken(l)
  PROVE  SchedulerInv'
  <1>1. inRound = FALSE
    BY DEF SchedulerInv, OneLoop, Typed, LoopWoken
  <1>2. CASE running
    BY <1>1, <1>2, Resumes DEF LoopWoken, timerVars, stopVars, SchedulerInv, Typed
  <1>3. CASE ~running
    <2>1. /\ loop' = [loop EXCEPT ![l] = "dead"] /\ wakeEvent' = FALSE
          /\ UNCHANGED <<running, inRound, owed, loopTask, timer, stop, stopTarget, pendingMinutes>>
      BY <1>3 DEF LoopWoken, Resume, timerVars, stopVars
    <2>2. Typed'
      BY <2>1 DEF SchedulerInv, Typed, LoopPCs
    <2> QED
      BY <1>1, <1>3, <2>1, <2>2
      DEF SchedulerInv, Typed, OneLoop, Stopping, WakeUpsKept, WakeNotLost, NeverStranded
  <1> QED
    BY <1>2, <1>3

(* The end of a round: a pending wake-up is fired or there is none.        *)
LEMMA RoundEndsKeeps ==
  ASSUME SchedulerInv, NEW l \in LoopIds, RoundEnds(l)
  PROVE  SchedulerInv'
  <1>1. inRound /\ EndRound
    BY DEF SchedulerInv, OneLoop, RoundEnds
  <1>2. /\ timer' \in [TimerIds -> Minutes \cup {None}]
        /\ running => \E t \in TimerIds : timer'[t] # None
    BY <1>1, Armed, Helpers DEF EndRound, SchedulerInv, Typed
  <1>3. CASE FirePending
    BY <1>1, <1>2, <1>3, Resumes DEF RoundEnds, EndRound, FirePending, stopVars
  <1>4. CASE ~FirePending
    <2>1. running => ~owed
      BY <1>1, <1>4 DEF FirePending, SchedulerInv, WakeUpsKept, WakeNotLost
    <2> QED
      BY <1>1, <1>2, <1>4, <2>1, Resumes
      DEF RoundEnds, EndRound, stopVars, SchedulerInv, Typed
  <1> QED
    BY <1>3, <1>4

(* stop() reaches the await of the loop task, or has none to await.        *)
LEMMA AwaitLoopKeeps ==
  ASSUME SchedulerInv, NEW s \in Stoppers, AwaitLoop(s), running' = FALSE,
         UNCHANGED <<inRound, owed, loopTask, pendingMinutes>>,
         timer' \in [TimerIds -> Minutes \cup {None}]
  PROVE  SchedulerInv'
  <1> USE DEF SchedulerInv
  <1>1. CASE loopTask # None
    <2>1. /\ wakeEvent' = TRUE /\ loop' = SetEvent(loop)
          /\ stop' = [stop EXCEPT ![s] = "awaitLoop"]
          /\ stopTarget' = [stopTarget EXCEPT ![s] = loopTask]
      BY <1>1 DEF AwaitLoop
    <2>2. /\ loop' \in [LoopIds -> LoopPCs]
          /\ \A l \in LoopIds : loop'[l] = loop[l] \/ (loop[l] = "wait" /\ loop'[l] = "woken")
      BY <2>1, Heard
    <2>3. Typed'
      BY <2>1, <2>2 DEF Typed, StopPCs
    <2> QED
      BY <1>1, <2>1, <2>2, <2>3
      DEF Typed, OneLoop, Stopping, WakeUpsKept, WakeNotLost, NeverStranded
  <1>2. CASE loopTask = None
    <2>1. stop' = [stop EXCEPT ![s] = "idle"] /\ UNCHANGED <<wakeEvent, loop, stopTarget>>
      BY <1>2 DEF AwaitLoop
    <2>2. Typed'
      BY <2>1 DEF Typed, StopPCs
    <2>3. \A l \in LoopIds : loop[l] = "dead"
      BY <1>2, WakeupAssumption DEF OneLoop
    <2> QED
      BY <1>2, <2>1, <2>2, <2>3
      DEF Typed, OneLoop, Stopping, WakeUpsKept, WakeNotLost, NeverStranded
  <1> QED
    BY <1>1, <1>2

(* stop() up to its first await.                                           *)
LEMMA StopBeginsKeeps ==
  ASSUME SchedulerInv, NEW s \in Stoppers, StopBegins(s)
  PROVE  SchedulerInv'
  <1>1. CASE timerTask = None
    BY <1>1, AwaitLoopKeeps DEF StopBegins, RunningAfterStop, SchedulerInv, Typed
  <1>2. CASE timerTask # None
    <2>1. /\ running' = FALSE /\ timer' = CancelTimer
          /\ stop' = [stop EXCEPT ![s] = "awaitTimer"]
          /\ UNCHANGED <<inRound, owed, loopTask, pendingMinutes, wakeEvent, loop, stopTarget>>
      BY <1>2 DEF StopBegins, RunningAfterStop
    <2>2. Typed'
      BY <2>1, Helpers DEF SchedulerInv, Typed, StopPCs
    <2> QED
      BY <2>1, <2>2
      DEF SchedulerInv, Typed, OneLoop, Stopping, WakeUpsKept, WakeNotLost, NeverStranded
  <1> QED
    BY <1>1, <1>2

(* stop() once the timer task is gone.                                     *)
LEMMA StopTimerGoneKeeps ==
  ASSUME SchedulerInv, NEW s \in Stoppers, StopTimerGone(s)
  PROVE  SchedulerInv'
  <1>1. running = FALSE
    BY DEF StopTimerGone, SchedulerInv, Stopping, Typed
  <1> QED
    BY <1>1, AwaitLoopKeeps DEF StopTimerGone, SchedulerInv, Typed

(* stop() returns: the loop task it awaited was the last one.              *)
LEMMA StopReturnsKeeps ==
  ASSUME SchedulerInv, NEW s \in Stoppers, StopReturns(s)
  PROVE  SchedulerInv'
  <1> USE DEF SchedulerInv, StopReturns, roundVars, timerVars
  <1>1. ~running /\ \A l \in LoopIds : loop[l] = "dead"
    BY WakeupAssumption DEF Stopping, OneLoop
  <1>2. Typed'
    BY DEF Typed, StopPCs
  <1> QED
    BY <1>1, <1>2 DEF Typed, OneLoop, Stopping, WakeUpsKept, WakeNotLost, NeverStranded

-----------------------------------------------------------------------------
(* The two together.                                                       *)

(* A loop task that runs on calls run_once only when no call of it is      *)
(* suspended.                                                              *)
LEMMA OneCallAtATime ==
  ASSUME SchedulerInv, Coupled, NEW l \in LoopIds, LoopTask(l)
  PROVE  pc = "idle"
  BY DEF LoopTask, LoopStarts, LoopWoken, SchedulerInv, OneLoop, Coupled

(* The scheduler takes a step of its own, or none, in each of the agent's. *)
LEMMA AgentMovesScheduler ==
  ASSUME SchedulerInv, OverlappingStart = FALSE, [AgentNext]_agentVars
  PROVE  SchedulerInv'
  <1>1. CASE UNCHANGED vars
    BY <1>1 DEF vars, roundVars, timerVars, stopVars, SchedulerInv, Typed, OneLoop, Stopping,
                WakeUpsKept, WakeNotLost, NeverStranded
  <1>2. CASE \E l \in LoopIds : LoopTask(l)
    BY <1>2, LoopStartsKeeps, LoopWokenKeeps, RoundEndsKeeps DEF LoopTask
  <1>3. CASE RoundTask
    BY <1>1, <1>3, SetNextWakeKeeps DEF RoundTask
  <1>4. CASE \E a \in Lines, r \in Sources : AlertWakes(a, r)
    BY <1>1, <1>4, WakeNowKeeps DEF AlertWakes
  <1>5. CASE \E b \in Sources \cup {None} : Start(b) /\ UNCHANGED loopVars
    BY <1>5, StartKeeps
  <1>6. CASE \E r \in Sources : WakeNow(r) /\ UNCHANGED loopVars
    BY <1>6, WakeNowKeeps
  <1>7. CASE \E t \in TimerIds : TimerExpires(t) /\ UNCHANGED loopVars
    BY <1>7, TimerExpiresKeeps
  <1>8. CASE \E s \in Stoppers : (StopBegins(s) \/ StopStep(s)) /\ UNCHANGED loopVars
    BY <1>8, StopBeginsKeeps, StopTimerGoneKeeps, StopReturnsKeeps DEF StopStep
  <1> QED
    BY <1>1, <1>2, <1>3, <1>4, <1>5, <1>6, <1>7, <1>8 DEF AgentNext, agentVars

(* So does the decision loop: run_once is not called again before it has   *)
(* returned.                                                               *)
LEMMA AgentMovesRound ==
  ASSUME SchedulerInv, Coupled, [AgentNext]_agentVars
  PROVE  [LoopNext]_loopVars
  <1>1. CASE \E l \in LoopIds : LoopTask(l)
    BY <1>1, OneCallAtATime DEF LoopTask, LoopNext
  <1>2. CASE RoundTask
    BY <1>2 DEF RoundTask, LoopNext
  <1>3. CASE \E a \in Lines, r \in Sources : AlertWakes(a, r)
    BY <1>3 DEF AlertWakes, LoopNext
  <1>4. CASE \/ (\E p \in Providers : SetProvider(p)) /\ UNCHANGED vars
             \/ (OrphanWrite \/ \E on \in BOOLEAN : OperatorMoves(on)) /\ UNCHANGED vars
    BY <1>4 DEF LoopNext
  <1> QED
    BY <1>1, <1>2, <1>3, <1>4 DEF AgentNext, agentVars

(* Each step of the decision loop keeps its invariant.                     *)
LEMMA AgentKeepsRound ==
  ASSUME LoopInv, [LoopNext]_loopVars
  PROVE  LoopInv'
  BY OthersKeepRound, RoundKeepsInv DEF LoopNext

(* run_once stays within a round of the scheduler.                         *)
LEMMA AgentKeepsCoupled ==
  ASSUME SchedulerInv, SchedulerInv', Coupled, [AgentNext]_agentVars
  PROVE  Coupled'
  <1>1. CASE \E l \in LoopIds : LoopTask(l)
    <2>1. PICK l \in LoopIds : LoopTask(l)
      BY <1>1
    <2>2. CASE loop'[l] = "round"
      BY <2>2 DEF SchedulerInv, OneLoop, Coupled
    <2>3. CASE loop'[l] # "round"
      BY <2>1, <2>3, OneCallAtATime DEF LoopTask, loopVars, Coupled
    <2> QED
      BY <2>2, <2>3
  <1>2. CASE RoundTask
    <2>1. inRound
      BY <1>2, RoundStepsInside DEF RoundTask, Coupled
    <2>2. inRound' = inRound
      BY <1>2 DEF RoundTask, SetNextWake, roundVars, vars
    <2> QED
      BY <2>1, <2>2 DEF Coupled
  <1>3. CASE \E a \in Lines, r \in Sources : AlertWakes(a, r)
    <2>1. pc' = pc /\ inRound' = inRound
      BY <1>3 DEF AlertWakes, AlertFires, WakeNow, vars
    <2> QED
      BY <2>1 DEF Coupled
  <1>4. CASE UNCHANGED loopVars /\ inRound' = inRound
    BY <1>4 DEF loopVars, Coupled
  <1>5. CASE \/ (\E p \in Providers : SetProvider(p)) /\ UNCHANGED vars
             \/ (OrphanWrite \/ \E on \in BOOLEAN : OperatorMoves(on)) /\ UNCHANGED vars
    BY <1>5 DEF SetProvider, OrphanWrite, OperatorMoves, vars, Coupled
  <1>6. CASE \E b \in Sources \cup {None} : Start(b) /\ UNCHANGED loopVars
    BY <1>4, <1>6 DEF Start
  <1>7. CASE \E r \in Sources : WakeNow(r) /\ UNCHANGED loopVars
    BY <1>4, <1>7 DEF WakeNow
  <1>8. CASE \E t \in TimerIds : TimerExpires(t) /\ UNCHANGED loopVars
    BY <1>4, <1>8 DEF TimerExpires
  <1>9. CASE \E s \in Stoppers : (StopBegins(s) \/ StopStep(s)) /\ UNCHANGED loopVars
    BY <1>4, <1>9 DEF StopBegins, StopStep, StopTimerGone, StopReturns, roundVars
  <1>10. CASE UNCHANGED agentVars
    BY <1>4, <1>10 DEF agentVars, vars
  <1> QED
    BY <1>1, <1>2, <1>3, <1>5, <1>6, <1>7, <1>8, <1>9, <1>10 DEF AgentNext

(* The agent starts stopped, with no round.                                *)
LEMMA AgentInitInv ==
  ASSUME AgentInit
  PROVE  AInv
  <1> USE DEF AgentInit, Init, LoopInit
  <1>1. SchedulerInv
    BY DEF SchedulerInv, Typed, LoopPCs, StopPCs, OneLoop, Stopping, WakeUpsKept, WakeNotLost,
           NeverStranded
  <1>2. LoopInv
    <2>1. Flags /\ Numbers
      <3>1. Numbers
        BY DecisionLoopAssumption DEF Numbers
      <3> QED
        BY <3>1 DEF Flags
    <2>2. Rows /\ Counts
      BY DEF Rows, Counts, Working, Failing, Over
    <2>3. Locks
      BY DecisionLoopAssumption DEF Locks, Over
    <2> QED
      BY <2>1, <2>2, <2>3 DEF LoopInv, LoopTyped
  <1> QED
    BY <1>1, <1>2 DEF AInv, Coupled

(* The agent's invariant, when start() is not called during a stop().      *)
THEOREM AgentInvariant ==
  ASSUME OverlappingStart = FALSE
  PROVE  AgentSpec => []AInv
  <1>1. AInv /\ [AgentNext]_agentVars => AInv'
    BY AgentMovesScheduler, AgentMovesRound, AgentKeepsRound, AgentKeepsCoupled DEF AInv
  <1> QED
    BY AgentInitInv, <1>1, PTL DEF AgentSpec

(* Decision rounds never overlap (scheduler/wakeup.py, its docstring) as   *)
(* long as start() is not called during a stop().                          *)
THEOREM RoundsDoNotOverlap ==
  ASSUME OverlappingStart = FALSE
  PROVE  AgentSpec => []AtMostOneRound
  <1>1. AInv => AtMostOneRound
    BY DEF AInv, SchedulerInv, OneLoop, AtMostOneRound
  <1> QED
    BY AgentInvariant, <1>1, PTL

(* No wake-up that was accepted is dropped, and the running agent always   *)
(* has a next one, whatever timers, alerts, buttons and stops do.          *)
THEOREM NoWakeUpIsLost ==
  ASSUME OverlappingStart = FALSE
  PROVE  AgentSpec => []WakeUpsKept
  <1>1. AInv => WakeUpsKept
    BY DEF AInv, SchedulerInv
  <1> QED
    BY AgentInvariant, <1>1, PTL

(* The audit trail of a round is whole in spite of failed tries, faults of *)
(* the database at any write and a change of provider in its middle.       *)
THEOREM TrailsAreWhole ==
  ASSUME OverlappingStart = FALSE
  PROVE  AgentSpec => []TrailWhole
  <1>1. AInv => TrailWhole
    BY DEF AInv, LoopInv, Rows, Counts, Working, Failing, Over, TrailWhole
  <1> QED
    BY AgentInvariant, <1>1, PTL

(* Failed rounds in a row engage the lock the checks read, however many    *)
(* are allowed, until the operator opens a lock that the agent had engaged:*)
(* nothing but the operator opens it.                                      *)
THEOREM FailuresEngageTheLock ==
  ASSUME OverlappingStart = FALSE
  PROVE  AgentSpec => []FailuresLock
  <1>1. AInv => FailuresLock
    BY DEF AInv, LoopInv, Locks, FailuresLock
  <1> QED
    BY AgentInvariant, <1>1, PTL

(* The agent implements the decision loop, which is called once at a time: *)
(* run_once has no guard against a second call, its one caller is one.     *)
THEOREM AgentImplementsLoop ==
  ASSUME OverlappingStart = FALSE
  PROVE  AgentSpec => LoopInit /\ [][LoopNext]_loopVars
  <1>1. AInv /\ [AgentNext]_agentVars => [LoopNext]_loopVars
    BY AgentMovesRound DEF AInv
  <1> QED
    BY AgentInvariant, <1>1, PTL DEF AgentSpec, AgentInit
=============================================================================
