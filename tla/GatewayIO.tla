----------------------------- MODULE GatewayIO ------------------------------
(***************************************************************************)
(* The layer every call of the exchange client goes through                *)
(* (gateway/async_io.py): a priority queue that a consumer task drains     *)
(* into one executor thread, and what becomes of a call whose caller is    *)
(* cancelled or runs out of time.                                          *)
(*                                                                         *)
(* The event loop runs its callbacks in the order in which they were       *)
(* scheduled (`ready'), one at a time; the executor's thread is the only   *)
(* other actor.  A job is a pair of a caller and the number of its call.   *)
(* Answers and raised errors are treated alike and are not told apart.     *)
(* A call marked inline never gets here: it runs in its caller's step.     *)
(***************************************************************************)
EXTENDS Naturals, SequencesExt

CONSTANTS
  Callers,  \* tasks that call run_gateway_io
  Urgent,   \* those that pass PRIORITY_HIGH
  Mutating, \* those that pass mutation=True
  Timed,    \* those that pass a timeout
  MaxCalls, \* bound: calls of each task
  None

ASSUME GatewayIOAssumption ==
  /\ MaxCalls \in [Callers -> Nat] /\ None \notin Callers
  /\ Urgent \subseteq Callers /\ Mutating \subseteq Callers /\ Timed \subseteq Callers

Jobs == UNION {{c} \X (1..MaxCalls[c]) : c \in Callers}

VARIABLES
  calls,     \* calls each task has made
  waiting,   \* tasks suspended in run_gateway_io
  cut,       \* of them, those cancelled or out of time
  fut,       \* the future of a job
  cf,        \* its concurrent future, as its probe shows it
  queue,     \* _IoScheduler._queue, in the order of submission
  phase,     \* where the consumer task (_drain) is
  current,   \* the job the consumer awaits
  ready,     \* the event loop's scheduled callbacks
  closing,   \* the loop cancels its tasks
  abandoned, \* jobs that ended with CancelledError or TimeoutError
  orphans    \* jobs for which the orphan-write handler was called

callerVars == <<calls, waiting, cut>>
workerVars == <<phase, current>>
outcome == <<abandoned, orphans>>
vars == <<callerVars, fut, cf, queue, workerVars, ready, closing, outcome>>

Worker == <<"worker", None>>
Task(c) == <<"task", c>>
Relay(j) == <<"relay", j>>  \* shield's callback, for a timed call
Callbacks == {Worker} \cup {Task(c) : c \in Callers} \cup {Relay(j) : j \in Jobs}

JobOf(c) == <<c, calls[c]>>

TypeOK ==
  /\ calls \in [Callers -> Nat] /\ waiting \subseteq Callers /\ cut \subseteq waiting
  /\ fut \in [Jobs -> {"none", "pending", "done", "cancelled"}]
  /\ cf \in [Jobs -> {"none", "submitted", "running", "done", "cancelled"}]
  /\ queue \in Seq(Jobs) /\ IsInjective(queue)
  /\ phase \in {"off", "new", "yield", "await"} /\ current \in Jobs \cup {None}
  /\ ready \in Seq(Callbacks) /\ IsInjective(ready)
  /\ closing \in BOOLEAN /\ abandoned \subseteq Jobs /\ orphans \subseteq abandoned

Init ==
  /\ calls = [c \in Callers |-> 0] /\ waiting = {} /\ cut = {}
  /\ fut = [j \in Jobs |-> "none"] /\ cf = [j \in Jobs |-> "none"]
  /\ queue = <<>> /\ phase = "off" /\ current = None /\ ready = <<>>
  /\ closing = FALSE /\ abandoned = {} /\ orphans = {}

-----------------------------------------------------------------------------
Wake(r, callback) == IF Contains(r, callback) THEN r ELSE Append(r, callback)

(* submit, in a step of c that leaves the callbacks r: the consumer is     *)
(* started when there is none.                                             *)
StartsWorker == phase = "off"

Submit(c, r) ==
  /\ calls[c] < MaxCalls[c]
  /\ calls' = [calls EXCEPT ![c] = @ + 1]
  /\ waiting' = waiting \cup {c}
  /\ fut' = [fut EXCEPT ![<<c, calls[c] + 1>>] = "pending"]
  /\ queue' = Append(queue, <<c, calls[c] + 1>>)
  /\ phase' = IF StartsWorker THEN "new" ELSE phase
  /\ ready' = IF StartsWorker THEN Append(r, Worker) ELSE r
  /\ UNCHANGED <<cut, cf, current, closing, outcome>>

Call(c) == c \notin waiting /\ ~closing /\ Submit(c, ready)

-----------------------------------------------------------------------------
(* The consumer.                                                           *)

(* The end of a turn of its loop, which leaves the queue q and the         *)
(* callbacks r: it returns, or gives way once (sleep(0)) before the next.  *)
Onward(q, r) ==
  /\ queue' = q /\ current' = None
  /\ phase' = IF q = <<>> THEN "off" ELSE "yield"
  /\ ready' = IF q = <<>> THEN r ELSE Append(r, Worker)

Precedes(i, k) ==
  \/ queue[i][1] \in Urgent /\ queue[k][1] \notin Urgent
  \/ (queue[i][1] \in Urgent <=> queue[k][1] \in Urgent) /\ i < k
Foremost(i) == \A k \in DOMAIN queue \ {i} : Precedes(i, k)

WorkerRuns == ready # <<>> /\ Head(ready) = Worker /\ UNCHANGED <<callerVars, closing, outcome>>

WorkerStarts ==
  /\ WorkerRuns /\ ~closing /\ phase = "new"
  /\ Onward(queue, Tail(ready)) /\ UNCHANGED <<fut, cf>>

WorkerTakes ==
  /\ WorkerRuns /\ ~closing /\ phase = "yield"
  /\ \E i \in DOMAIN queue :
       /\ Foremost(i)
       /\ \/ /\ fut[queue[i]] = "cancelled"
             /\ Onward(RemoveAt(queue, i), Tail(ready)) /\ UNCHANGED cf
          \/ /\ fut[queue[i]] # "cancelled"
             /\ cf' = [cf EXCEPT ![queue[i]] = "submitted"]
             /\ current' = queue[i] /\ phase' = "await"
             /\ queue' = RemoveAt(queue, i) /\ ready' = Tail(ready)
  /\ UNCHANGED fut

(* The result or the exception is handed on, unless nobody waits for it.   *)
WorkerAnswers ==
  /\ WorkerRuns /\ ~closing /\ phase = "await" /\ cf[current] = "done"
  /\ IF fut[current] = "pending"
       THEN /\ fut' = [fut EXCEPT ![current] = "done"]
            /\ Onward(queue, Append(Tail(ready), IF current[1] \in Timed THEN Relay(current)
                                                 ELSE Task(current[1])))
       ELSE Onward(queue, Tail(ready)) /\ UNCHANGED fut
  /\ UNCHANGED cf

(* The job was withdrawn: that cancels the await, and not the consumer.    *)
WorkerGivesUp == \* mutant: the cancellation ends the consumer
  /\ phase' = "off" /\ current' = None /\ queue' = queue /\ ready' = Tail(ready)
WorkerGoesOn == Onward(queue, Tail(ready))

WorkerSkips ==
  /\ WorkerRuns /\ ~closing /\ phase = "await" /\ cf[current] = "cancelled"
  /\ WorkerGoesOn /\ UNCHANGED <<fut, cf>>

(* Cancelled itself, it leaves the queue as it is.                         *)
WorkerCancelled ==
  /\ WorkerRuns /\ closing
  /\ phase' = "off" /\ current' = None /\ ready' = Tail(ready)
  /\ UNCHANGED <<fut, cf, queue>>

-----------------------------------------------------------------------------
(* The thread.  The end of a job is reported to the loop, for the consumer *)
(* if it still waits.                                                      *)
Executes(j) ==
  /\ cf[j] = "submitted" /\ cf' = [cf EXCEPT ![j] = "running"]
  /\ UNCHANGED <<callerVars, fut, queue, workerVars, ready, closing, outcome>>

Finishes(j) ==
  /\ cf[j] = "running" /\ cf' = [cf EXCEPT ![j] = "done"]
  /\ ready' = IF phase = "await" THEN Wake(ready, Worker) ELSE ready
  /\ UNCHANGED <<callerVars, fut, queue, workerVars, closing, outcome>>

-----------------------------------------------------------------------------
(* The callers.                                                            *)

(* Cancelled while it awaits its future, a task cancels that with it; a    *)
(* timed call has shielded the future.                                     *)
CutFutures(cs) ==
  fut' = [j \in Jobs |-> IF /\ j[1] \in cs \ Timed /\ j = JobOf(j[1])
                            /\ fut[j] = "pending"
                           THEN "cancelled" ELSE fut[j]]

Interrupt(c) ==
  /\ c \in waiting \ cut /\ cut' = cut \cup {c}
  /\ CutFutures({c}) /\ ready' = Wake(ready, Task(c))
  /\ UNCHANGED <<calls, waiting, cf, queue, workerVars, closing, outcome>>

Relays(j) ==
  /\ ready # <<>> /\ Head(ready) = Relay(j)
  /\ ready' = IF j = JobOf(j[1]) /\ j[1] \in waiting \ cut
                THEN Append(Tail(ready), Task(j[1])) ELSE Tail(ready)
  /\ UNCHANGED <<callerVars, fut, cf, queue, workerVars, closing, outcome>>

TaskRuns(c) == ready # <<>> /\ Head(ready) = Task(c)

(* The answer arrives; the caller ends, or its next call follows without   *)
(* a suspension.                                                           *)
Returns(c) ==
  /\ TaskRuns(c) /\ c \notin cut
  /\ waiting' = waiting \ {c} /\ ready' = Tail(ready)
  /\ UNCHANGED <<calls, cut, fut, cf, queue, workerVars, closing, outcome>>

ReturnsAndCalls(c) ==
  /\ TaskRuns(c) /\ c \notin cut /\ ~closing
  /\ Submit(c, Tail(ready))

(* cf.cancel(): it succeeds while the thread has not begun.                *)
Withdrawn(j) == cf[j] \in {"submitted", "cancelled"}
WithdrawNot(j) == UNCHANGED cf \* mutant: the submitted job is only looked at
Withdraw(j) == cf' = [cf EXCEPT ![j] = IF @ = "submitted" THEN "cancelled" ELSE @]

Abandons(c) ==
  /\ TaskRuns(c) /\ c \in cut
  /\ LET job == JobOf(c) IN
       /\ Withdraw(job)
       /\ fut' = [fut EXCEPT ![job] = IF @ = "pending" THEN "cancelled" ELSE @]
       /\ ready' = IF cf'[job] = "cancelled" /\ phase = "await" /\ current = job
                     THEN Wake(Tail(ready), Worker) ELSE Tail(ready)
       /\ abandoned' = abandoned \cup {job}
       /\ orphans' = IF c \in Mutating /\ cf[job] # "none" /\ ~Withdrawn(job)
                       THEN orphans \cup {job} ELSE orphans
  /\ waiting' = waiting \ {c} /\ cut' = cut \ {c}
  /\ UNCHANGED <<calls, queue, workerVars, closing>>

(* The loop ends and cancels all its tasks; a job the thread has not begun *)
(* is cancelled with the consumer.                                         *)
Shutdown ==
  /\ ~closing /\ closing' = TRUE
  /\ cut' = waiting /\ CutFutures(waiting \ cut)
  /\ cf' \in {cf, [j \in Jobs |-> IF cf[j] = "submitted" THEN "cancelled" ELSE cf[j]]}
  /\ LET woken == {Task(c) : c \in waiting} \cup (IF phase = "off" THEN {} ELSE {Worker})
     IN \E s \in SetToSeqs(woken \ ToSet(ready)) : ready' = ready \o s
  /\ UNCHANGED <<calls, waiting, queue, workerVars, outcome>>

-----------------------------------------------------------------------------
LoopStep ==
  \/ WorkerStarts \/ WorkerTakes \/ WorkerAnswers \/ WorkerSkips \/ WorkerCancelled
  \/ \E j \in Jobs : Relays(j)
  \/ \E c \in Callers : Returns(c) \/ ReturnsAndCalls(c) \/ Abandons(c)

ThreadStep == \E j \in Jobs : Executes(j) \/ Finishes(j)

Next ==
  \/ LoopStep \/ ThreadStep \/ Shutdown
  \/ \E c \in Callers : Call(c) \/ Interrupt(c)

Spec == Init /\ [][Next]_vars

(* The loop runs what is scheduled, and every call of the SDK ends: it has *)
(* a timeout of its own.                                                   *)
Fairness == WF_vars(LoopStep) /\ WF_vars(ThreadStep)

-----------------------------------------------------------------------------
(* Properties.                                                             *)

(* A write whose caller has given up is reported exactly when the exchange *)
(* has been, or is being, asked: none that was sent passes silently, and   *)
(* none that is withdrawn or still queued is sent after all.               *)
AbandonedIsKnown ==
  \A j \in abandoned : j[1] \in Mutating => (j \in orphans <=> cf[j] \in {"running", "done"})

(* An urgent call does not wait behind an ordinary one, neither when both  *)
(* are queued nor when it follows an urgent call that has been answered:   *)
(* a manual close is not held up between its own steps.                    *)
Held(c) ==
  /\ c \in waiting \ cut
  /\ \/ \E i \in DOMAIN queue : queue[i] = JobOf(c)
     \/ fut[JobOf(c)] = "done"
UrgentFirst ==
  [][current' # current /\ current' # None /\ current'[1] \notin Urgent
       => \A c \in Urgent : ~Held(c)]_vars

(* Every call ends: with its answer, or because its caller gave up, also   *)
(* when the job before it was withdrawn and when the loop is closed.       *)
Answered == \A c \in Callers : c \in waiting ~> c \notin waiting

(* What the callers may rely on: their turn comes, in order of urgency.    *)
CallsServed == UrgentFirst /\ Answered
=============================================================================
