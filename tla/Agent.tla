------------------------------- MODULE Agent -------------------------------
(***************************************************************************)
(* The running trading agent: the wake-up scheduler (Wakeup) awaits the    *)
(* decision loop (DecisionLoop) as its callback (bootstrap.build_app).     *)
(* The two meet in four places.  A round that the scheduler begins is a    *)
(* call of run_once, and the scheduler goes on when run_once has returned  *)
(* or raised.  The tool set_next_wakeup sets the scheduler's next          *)
(* interval.  A price alert that fires wakes the scheduler, and is gone    *)
(* whether the scheduler runs or not.  And stop(), which an operator calls *)
(* at any time, waits for the round in progress.                           *)
(***************************************************************************)
EXTENDS Wakeup, DecisionLoop

agentVars == <<vars, loopVars>>

AgentInit == Init /\ LoopInit

(* The scheduler's loop task runs: into a round, out of one, or neither.   *)
LoopTask(l) ==
  /\ \/ LoopStarts(l)
     \/ LoopWoken(l)
     \/ RoundEnds(l) /\ pc = "idle"
  /\ IF loop'[l] = "round" THEN Call ELSE UNCHANGED loopVars

(* The round goes on; one of its tools may set the next interval.          *)
RoundTask ==
  /\ RoundStep
  /\ \/ UNCHANGED vars
     \/ pc = "tools" /\ alerts' = alerts /\ SetNextWake

(* A tick fires an alert: wake_now does nothing unless the scheduler runs. *)
AlertWakes(a, reason) ==
  /\ AlertFires(a)
  /\ \/ running /\ WakeNow(reason)
     \/ ~running /\ UNCHANGED vars

AgentNext ==
  \/ \E l \in LoopIds : LoopTask(l)
  \/ RoundTask
  \/ \E a \in Lines, r \in Sources : AlertWakes(a, r)
  \/ \E b \in Sources \cup {None} : Start(b) /\ UNCHANGED loopVars
  \/ \E r \in Sources : WakeNow(r) /\ UNCHANGED loopVars
  \/ \E t \in TimerIds : TimerExpires(t) /\ UNCHANGED loopVars
  \/ \E s \in Stoppers : (StopBegins(s) \/ StopStep(s)) /\ UNCHANGED loopVars
  \/ (\E p \in Providers : SetProvider(p)) /\ UNCHANGED vars
  \/ (OrphanWrite \/ \E on \in BOOLEAN : OperatorMoves(on)) /\ UNCHANGED vars

(* Tasks that are runnable run and sleeps end.  That a round ends is not   *)
(* assumed: it follows from the turns and the tries being limited, each    *)
(* call of the model having a timeout.                                     *)
AgentFairness ==
  /\ \A l \in LoopIds : WF_agentVars(LoopTask(l))
  /\ WF_agentVars(RoundTask)
  /\ \A s \in Stoppers : WF_agentVars(StopStep(s) /\ UNCHANGED loopVars)
  /\ \A t \in TimerIds : WF_agentVars(TimerExpires(t) /\ UNCHANGED loopVars)

AgentSpec == AgentInit /\ [][AgentNext]_agentVars /\ AgentFairness
=============================================================================
